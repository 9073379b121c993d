--------------------------- MODULE Aperture_proofs ---------------------------
(***************************************************************************)
(* For any number of processes and of objects of any size, any aperture    *)
(* and any batches: no assertion of the evictions, of entervt and of the   *)
(* suspend fails.  If no pin fails between binding and pinning, no room is *)
(* lost either, the aperture is empty while the machine sleeps, and the    *)
(* second try of execbuffer finds room for every batch that could fit.     *)
(***************************************************************************)
EXTENDS Aperture, FiniteSetTheorems, TLAPS

-----------------------------------------------------------------------------
(* The parts of the inductive invariant.                                   *)

\* The calls.
Ops == {"fault", "access", "set_domain", "exec", "leave", "enter"}

\* What is remembered of a thread.
ThreadState ==
    [pc : Pcs, op : Ops \cup {"none"}, batch : Seq(Obj), n : Nat, tries : Nat,
     domain : BOOLEAN, victim : Obj \cup {None}, seq : Nat, all : BOOLEAN,
     then : {"none", "search", "done", "bind", "hold", "stop", "asleep"},
     err : {"none", "EAGAIN", "ENOSPC", "EINTR"}]

\* The types, of pins and entries only that they are integers: that neither
\* goes below zero needs the rest of the invariant.
StateTypes ==
    /\ offset \in [Obj -> {Unbound} \cup 0..Pages]
    /\ list \in [Obj -> {"none", "active", "flushing", "inactive"}]
    /\ lrs \in [Obj -> Nat] /\ dirty \subseteq Obj /\ pins \in [Obj -> Int]
    /\ held \in [Obj -> Thread \cup {None}]
    /\ writer \in Thread \cup {None} /\ readers \subseteq Thread
    /\ pending \in Nat /\ entries \in Int /\ calls \in Nat
    /\ suspended \in BOOLEAN /\ quiet \in BOOLEAN /\ panic \in BOOLEAN
    /\ th \in [Thread -> ThreadState]

\* In front of the gate; not past dev_lock yet; looking for room; evicting.
Outside == {"idle", "gate"}
Waiting == {"idle", "gate", "lock"}
Seeking == {"bind", "search", "find"}
Evicting == {"everything", "idling", "inactive", "victim"}

\* The thread holds the object it works on.
HasCur(t) ==
    \/ th[t].pc \in Seeking \cup {"wait", "domain", "done"}
    \/ th[t].pc \in Evicting /\ th[t].then = "bind"

\* Which places in the code a call may be at, what it returns to, and how
\* much of its batch it has pinned there.
Place(t) ==
    LET p == th[t].pc
        op == th[t].op
        to == th[t].then IN
    /\ (p = "idle" <=> op = "none")
    /\ p \notin {"drain", "asleep"}
    /\ op \in {"fault", "access", "set_domain"} =>
         th[t].n = 0 /\ Len(th[t].batch) = 1 /\ p \notin {"dispatch", "stop"}
    /\ op = "set_domain" => p \in {"gate", "hold", "wait", "domain", "done"}
    /\ op = "exec" => p \notin {"domain", "done", "stop"}
    /\ op = "leave" => p \in {"gate", "lock", "stop"} \cup Evicting
    /\ op = "enter" => p \in {"gate", "lock"}
    /\ op \in {"none", "leave", "enter"} => th[t].n = 0
    /\ p \in {"gate", "lock"} => th[t].n = 0
    /\ p = "wait" => \/ to = "search" /\ op # "set_domain"
                     \/ to = "done" /\ op # "exec"
    /\ p \in Evicting => \/ op = "leave" /\ to = "stop"
                         \/ op = "exec" /\ to = "hold" /\ th[t].n = 0
                         \/ op \in {"fault", "access", "exec"} /\ to = "bind"
    /\ th[t].n <= Len(th[t].batch)
    /\ op = "exec" => Len(th[t].batch) > 0
    /\ p = "hold" \/ HasCur(t) => th[t].n < Len(th[t].batch)
    /\ p = "dispatch" => op = "exec" /\ th[t].n = Len(th[t].batch)
    /\ p = "idling" => th[t].all
    /\ op = "leave" /\ p \in {"inactive", "victim"} => th[t].all

\* The same of the thread that suspends the machine.
PowerPlace ==
    LET p == th[Power].pc IN
    /\ p \in {"idle", "drain", "inactive", "victim", "asleep"}
    /\ th[Power].n = 0 /\ ~th[Power].all /\ th[Power].op = "none"
    /\ p \in {"inactive", "victim"} => th[Power].then = "asleep"

\* So are they all.
Places == PowerPlace /\ \A t \in Process : Place(t)

\* A thread holds what it has pinned and the object it works on, and nothing
\* else, unless it is on its way out of a failure.
HoldExact(t) ==
    /\ \A o \in Obj :
         IF th[t].pc = "fail" THEN o \in PinnedBy(t) => held[o] = t
         ELSE held[o] = t <=> o \in PinnedBy(t) \/ (HasCur(t) /\ o = Cur(t))
    /\ HasCur(t) => Cur(t) \notin PinnedBy(t)

\* So do all.
Holds == \A t \in Thread : HoldExact(t)

\* pread and pwrite use their object.
Uses(t) ==
    \/ th[t].pc \in {"domain", "done"}
    \/ th[t].pc = "wait" /\ th[t].then = "done"

\* An object is pinned by the execbuffer that has got to it, or by pread and
\* pwrite while they use it.
Pins(t, o) ==
    o \in PinnedBy(t) \/ (th[t].op = "access" /\ o = Cur(t) /\ Uses(t))

\* pin_count is one for what its holder has pinned, and zero for everything
\* else.
PinExact ==
    \A o \in Obj :
        /\ \A t \in Thread : held[o] = t =>
             pins[o] = IF Pins(t, o) THEN 1 ELSE 0
        /\ held[o] = None => pins[o] = 0

\* Past dev_lock, faults, pread and pwrite are readers and execbuffer and
\* leavevt the writer.
Locked(t) ==
    /\ th[t].op \in {"fault", "access"} /\ th[t].pc \notin Waiting =>
         t \in readers
    /\ (writer = t <=>
            th[t].op \in {"exec", "leave"} /\ th[t].pc \notin Waiting)

\* So are all, and there are no readers beside a writer.
Locks ==
    /\ \A t \in Process : Locked(t)
    /\ writer # Power
    /\ readers = {} \/ writer = None

\* What is dirty is on a list of the GPU, what is flushing is dirty, no
\* object waits for more requests than there are, and what is on such a list
\* or pinned is in the aperture.
Booked(o) ==
    /\ o \in dirty => list[o] \in {"active", "flushing"}
    /\ list[o] = "flushing" => o \in dirty
    /\ lrs[o] <= pending
    /\ list[o] \in {"active", "flushing"} \/ pins[o] > 0 =>
         offset[o] # Unbound

\* So is every object.
Engine == \A o \in Obj : Booked(o)

\* What evict_everything has achieved: nothing is dirty while it waits, and
\* all that is active goes idle with its request; after that the GPU has
\* nothing, and the object evict_inactive sleeps for is not in use.
Emptied(t) ==
    /\ th[t].pc = "idling" => dirty = {} /\ \A o \in On("active") :
         lrs[o] <= th[t].seq
    /\ th[t].pc \in {"inactive", "victim"} /\ th[t].all => Busy = {}
    /\ th[t].pc = "stop" => Busy = {}
    /\ th[t].pc = "victim" => th[t].victim \in Obj \ Busy

\* While the terminal is left the GPU has nothing, and no execbuffer is past
\* dev_lock.
Away ==
    suspended => /\ Busy = {}
                 /\ \A t \in Process : th[t].op = "exec" =>
                      th[t].pc \in Waiting

\* Who is past the gate.
Inside == {t \in Process : th[t].pc \notin Outside}

\* The gate counts them.
Counts == entries = Cardinality(Inside)

\* From the moment the machine is to be suspended the gate is closed and the
\* terminal left, and nobody enters it; when entries has gone to zero nobody
\* is behind the gate until it is opened, and asleep there is nothing left to
\* evict.
PowerInv ==
    /\ th[Power].pc # "idle" =>
         /\ quiet /\ suspended
         /\ \A t \in Process : th[t].op = "enter" => th[t].pc = "gate"
    /\ th[Power].pc \in {"inactive", "victim", "asleep"} => Inside = {}
    /\ th[Power].pc = "asleep" => On("inactive") = {}

-----------------------------------------------------------------------------
(* The steps, one thread at a time.                                        *)

\* What a call may ask for.
CallOK(op, d) ==
    \/ op \in {"fault", "access", "set_domain"} /\ Len(d) = 1
    \/ op = "exec" /\ d # <<>>
    \/ op \in {"leave", "enter"} /\ d = <<>>

\* The steps of a thread.
Moves(t) ==
    \/ /\ t \in Process
       /\ \/ Step(t)
          \/ \E op \in Ops, d \in Seq(Obj) : CallOK(op, d) /\ Call(t, op, d)
    \/ t = Power /\ (Suspend \/ Quiesce \/ Resume \/ Evict(t))

\* A step is one of a thread, of the GPU or of the retire timer.
LEMMA Movers ==
  ASSUME [Next]_vars
  PROVE  \/ \E t \in Thread : Moves(t)
         \/ GpuStep \/ RetireWork \/ UNCHANGED vars
<1>1. ASSUME NEW t \in Process, NEW o \in Obj,
             NEW op \in {"fault", "access", "set_domain"}, Call(t, op, <<o>>)
      PROVE  Moves(t)
  <2>1. op \in Ops /\ <<o>> \in Seq(Obj) /\ CallOK(op, <<o>>)
    BY DEF Ops, CallOK
  <2> QED
    BY <1>1, <2>1 DEF Moves
<1>2. ASSUME NEW t \in Process, NEW d \in Batches, Call(t, "exec", d)
      PROVE  Moves(t)
  <2>1. "exec" \in Ops /\ d \in Seq(Obj) /\ CallOK("exec", d)
    BY ApertureAssumption DEF Ops, CallOK
  <2> QED
    BY <1>2, <2>1 DEF Moves
<1>3. ASSUME NEW t \in Process, NEW op \in {"leave", "enter"},
             Call(t, op, <<>>)
      PROVE  Moves(t)
  <2>1. op \in Ops /\ <<>> \in Seq(Obj) /\ CallOK(op, <<>>)
    BY DEF Ops, CallOK
  <2> QED
    BY <1>3, <2>1 DEF Moves
<1>4. CASE Calls
  BY <1>1, <1>2, <1>3, <1>4 DEF Calls, Thread
<1>5. CASE Suspend \/ Sleeper
  BY <1>5 DEF Sleeper, Moves, Thread
<1>6. CASE \E t \in Process : Step(t)
  BY <1>6 DEF Moves, Thread
<1> QED
  BY <1>4, <1>5, <1>6 DEF Next, Running, Rest

\* The object a thread works on is an object.
LEMMA CurObject ==
  ASSUME StateTypes, Places, NEW t \in Process, th[t].pc = "hold" \/ HasCur(t)
  PROVE  Cur(t) \in Obj
<1>1. /\ th[t] \in ThreadState /\ th[t].n < Len(th[t].batch)
  BY DEF StateTypes, Places, Place, Thread
<1>2. th[t].n + 1 \in 1..Len(th[t].batch) /\ th[t].batch \in Seq(Obj)
  BY <1>1 DEF ThreadState
<1> QED
  BY <1>2 DEF Cur

\* A thread that goes to another place, or home, is still a thread.
LEMMA Sent ==
  ASSUME th \in [Thread -> ThreadState], NEW t \in Thread, NEW p \in Pcs
  PROVE  /\ Goto(t, p) => th' \in [Thread -> ThreadState]
         /\ th' = [th EXCEPT ![t] = Idle] => th' \in [Thread -> ThreadState]
<1>1. [th[t] EXCEPT !.pc = p] \in ThreadState
  BY DEF ThreadState
<1>2. Idle \in ThreadState
  BY DEF ThreadState, Idle, Pcs
<1> QED
  BY <1>1, <1>2 DEF Goto

\* So is one that pins.
LEMMA PinSends ==
  ASSUME NEW t \in Thread, th \in [Thread -> ThreadState], NEW o, Pin(t, o)
  PROVE  th' \in [Thread -> ThreadState]
<1>1. ASSUME NEW p \in {"dispatch", "hold"},
             th' = [th EXCEPT ![t].n = @ + 1, ![t].pc = p]
      PROVE  th' \in [Thread -> ThreadState]
  <2>1. th[t] \in ThreadState /\ th[t].n + 1 \in Nat
    BY DEF ThreadState
  <2>2. th' = [th EXCEPT ![t] = [th[t] EXCEPT !.n = th[t].n + 1, !.pc = p]]
    BY <1>1
  <2>3. [th[t] EXCEPT !.n = th[t].n + 1, !.pc = p] \in ThreadState
    BY <2>1 DEF ThreadState, Pcs
  <2> QED
    BY <2>2, <2>3
<1>2. CASE th[t].op = "exec"
  <2>1. th' = [th EXCEPT ![t].n = @ + 1,
                 ![t].pc = IF th[t].n + 1 = Len(th[t].batch) THEN "dispatch"
                           ELSE "hold"]
    BY <1>2 DEF Pin
  <2> QED
    BY <1>1, <2>1
<1>3. CASE th[t].op # "exec"
  <2>1. Goto(t, "domain") /\ "domain" \in Pcs
    BY <1>3 DEF Pin, Pcs
  <2> QED
    BY <2>1, Sent
<1> QED
  BY <1>2, <1>3

\* And one that does anything.
LEMMA ThreadTypes ==
  ASSUME NEW t \in Thread, StateTypes, Places, Moves(t)
  PROVE  th' \in [Thread -> ThreadState]
<1>0. /\ th \in [Thread -> ThreadState] /\ th[t] \in ThreadState
      /\ lrs \in [Obj -> Nat] /\ pending \in Nat
      /\ Idle \in ThreadState /\ Power \in Thread
      /\ t \in Process => Place(t)
  BY ApertureAssumption DEF StateTypes, Thread, Places, Idle, ThreadState, Pcs
<1>1. CASE t \in Process /\ Gate(t)
  BY <1>1, <1>0 DEF Gate, Counted, Tried, Goto, ThreadState, Pcs
<1>2. CASE t \in Process /\ LockRead(t)
  <2>0. "hold" \in Pcs
    BY DEF Pcs
  <2>1. Goto(t, "hold") \/ th' = [th EXCEPT ![t] = Idle]
    BY <1>2 DEF LockRead
  <2> QED
    BY <1>0, <2>1, <2>0, Sent
<1>3. CASE t \in Process /\ LockExec(t)
  <2>0. "hold" \in Pcs
    BY DEF Pcs
  <2>1. Goto(t, "hold") \/ th' = [th EXCEPT ![t] = Idle]
    BY <1>3 DEF LockExec, Exit
  <2> QED
    BY <1>0, <2>1, <2>0, Sent
<1>4. CASE t \in Process /\ LockLeave(t)
  <2>0. "everything" \in Pcs
    BY DEF Pcs
  <2>1. CASE th' = [th EXCEPT ![t].pc = "everything", ![t].then = "stop"]
    <3>1. th[t] \in ThreadState
      BY <1>0
    <3>2. [th[t] EXCEPT !.pc = "everything", !.then = "stop"] \in ThreadState
      BY <2>0, <3>1 DEF ThreadState
    <3> QED
      BY <1>0, <2>1, <3>2
  <2>2. CASE th' = [th EXCEPT ![t] = Idle]
    BY <1>0, <2>0, <2>2, Sent
  <2> QED
    BY <1>4, <2>1, <2>2 DEF LockLeave, Exit
<1>5. CASE t \in Process /\ LockEnter(t)
  BY <1>5, <1>0
  DEF LockEnter, LockWrite, Exit, Counted, Goto, ThreadState, Pcs
<1>6. CASE t \in Process /\ Hold(t)
  BY <1>6, <1>0 DEF Hold, Goto, ThreadState, Pcs
<1>7. CASE t \in Process /\ Bind(t)
  <2>0. /\ {"domain", "fail", "dispatch", "hold"} \subseteq Pcs
        /\ th[t].n + 1 \in Nat
    BY <1>0 DEF Pcs, ThreadState
  <2>1. CASE Goto(t, "domain")
    BY <1>0, <2>0, <2>1, Sent
  <2>2. CASE PinFails(t)
    <3>1. th[t] \in ThreadState
      BY <1>0
    <3>2. [th[t] EXCEPT !.pc = "fail", !.err = "EINTR"] \in ThreadState
      BY <2>0, <3>1 DEF ThreadState
    <3> QED
      BY <1>0, <2>2, <3>2 DEF PinFails
  <2>4. CASE Pin(t, Cur(t))
    BY <1>0, <2>4, PinSends
  <2> QED
    BY <1>7, <2>1, <2>2, <2>4 DEF Bind
<1>8. CASE t \in Process /\ BindFull(t)
  <2>1. th[t] \in ThreadState /\ {"fail", "search"} \subseteq Pcs
    BY <1>0 DEF Pcs
  <2>2. /\ [th[t] EXCEPT !.pc = "fail", !.err = "EAGAIN"] \in ThreadState
        /\ [th[t] EXCEPT !.pc = "search", !.domain = FALSE] \in ThreadState
    BY <2>1 DEF ThreadState
  <2> QED
    BY <1>8, <1>0, <2>2 DEF BindFull
<1>9. CASE t \in Process /\ SearchRetire(t)
  BY <1>9, <1>0 DEF SearchRetire, Retire, Goto, ThreadState, Pcs
<1>10. CASE t \in Process /\ FindWait(t)
  BY <1>10, <1>0 DEF FindWait, NotFound, WaitFor, Goto, ThreadState, Pcs
<1>11. CASE t \in Process /\ FindFlush(t)
  BY <1>11, <1>0
  DEF FindFlush, NotFound, Flush, Flushed, Goto, ThreadState, Pcs
<1>12. CASE t \in Process /\ FindEvict(t)
  <2>1. th[t] \in ThreadState /\ {"inactive", "everything"} \subseteq Pcs
    BY <1>0 DEF Pcs
  <2>2. ASSUME NEW p \in {"inactive", "everything"}
        PROVE  [th[t] EXCEPT !.then = "bind", !.all = FALSE, !.pc = p]
                 \in ThreadState
    BY <2>1 DEF ThreadState
  <2> QED
    BY <1>12, <1>0, <2>2 DEF FindEvict
<1>13. ASSUME t \in Process, NEW b \in Obj, FindInactive(t, b)
      PROVE  th' \in [Thread -> ThreadState]
  BY <1>13, <1>0 DEF FindInactive, Goto, ThreadState, Pcs
<1>14. CASE InactiveUnbind(t)
  BY <1>14, <1>0 DEF InactiveUnbind, Goto, ThreadState, Pcs
<1>15. CASE InactiveEnd(t)
  <2>1. /\ th[t].then \in Pcs
        /\ th[t].then \in
             {"none", "search", "done", "bind", "hold", "stop", "asleep"}
    BY <1>0, <1>15
    DEF InactiveEnd, Place, Places, PowerPlace, Evicting, Pcs, Thread,
        ThreadState
  <2> QED
    BY <1>0, <1>15, <2>1 DEF InactiveEnd, ThreadState
<1>16. ASSUME NEW b \in Obj, InactivePick(t, b)
      PROVE  th' \in [Thread -> ThreadState]
  BY <1>16, <1>0 DEF InactivePick, Goto, ThreadState, Pcs
<1>17. CASE t \in Process /\ EverythingGone(t)
  BY <1>17, <1>0 DEF EverythingGone, Goto, ThreadState, Pcs
<1>18. CASE t \in Process /\ EverythingFlush(t)
  <2>1. th' = [th EXCEPT ![t].pc = "idling", ![t].seq = pending + 1,
                         ![t].all = TRUE]
    BY <1>18 DEF EverythingFlush
  <2>2. pending + 1 \in Nat /\ th[t] \in ThreadState /\ "idling" \in Pcs
    BY <1>0 DEF Pcs
  <2>3. [th[t] EXCEPT !.pc = "idling", !.seq = pending + 1, !.all = TRUE]
          \in ThreadState
    BY <2>2 DEF ThreadState
  <2> QED
    BY <1>0, <2>1, <2>3
<1>19. CASE t \in Process /\ EverythingIdle(t)
  BY <1>19, <1>0 DEF EverythingIdle, Retire, Goto, ThreadState, Pcs
<1>20. CASE t \in Process /\ Wait(t)
  <2>1. Goto(t, th[t].then) /\ th[t].then \in Pcs
    BY <1>0, <1>20 DEF Wait, Place, Pcs
  <2> QED
    BY <1>0, <2>1, Sent
<1>21. CASE t \in Process /\ DomainFlush(t)
  <2>1. th' = [th EXCEPT ![t].pc = "wait", ![t].seq = pending + 1,
                         ![t].then = "done"]
    BY <1>21 DEF DomainFlush, WaitFor
  <2>2. pending + 1 \in Nat /\ th[t] \in ThreadState /\ "wait" \in Pcs
    BY <1>0 DEF Pcs
  <2>3. [th[t] EXCEPT !.pc = "wait", !.seq = pending + 1, !.then = "done"]
          \in ThreadState
    BY <2>2 DEF ThreadState
  <2> QED
    BY <1>0, <2>1, <2>3
<1>22. CASE t \in Process /\ DomainWait(t)
  <2>1. th' = [th EXCEPT ![t].pc = "wait", ![t].seq = lrs[Cur(t)],
                         ![t].then = "done"]
    BY <1>22 DEF DomainWait, WaitFor
  <2>2. lrs[Cur(t)] \in Nat /\ th[t] \in ThreadState /\ "wait" \in Pcs
    BY <1>0, <1>22, CurObject DEF DomainWait, HasCur, Pcs
  <2>3. [th[t] EXCEPT !.pc = "wait", !.seq = lrs[Cur(t)], !.then = "done"]
          \in ThreadState
    BY <2>2 DEF ThreadState
  <2> QED
    BY <1>0, <2>1, <2>3
<1>23. CASE t \in Process /\ Domain(t)
  BY <1>23, <1>0 DEF Domain, Goto, ThreadState, Pcs
<1>24. CASE t \in Process /\ Done(t)
  BY <1>24, <1>0
  DEF Done, Exit, Counted, Unpinned, Released, Goto, ThreadState, Pcs
<1>25. ASSUME t \in Process, NEW w \in SUBSET Obj, Dispatch(t, w)
      PROVE  th' \in [Thread -> ThreadState]
  BY <1>25, <1>0 DEF Dispatch, Released, Held, Goto, ThreadState, Pcs
<1>26. CASE t \in Process /\ Retry(t)
  BY <1>26, <1>0
  DEF Retry, Retries, UnpinAll, Unpinned, Released, Goto, ThreadState, Pcs
<1>27. CASE t \in Process /\ Fail(t)
  BY <1>27, <1>0
  DEF Fail, Retries, UnpinAll, Unpinned, Released, Exit, Counted, Goto,
      ThreadState, Pcs
<1>28. CASE t \in Process /\ LeaveStop(t)
  BY <1>28, <1>0 DEF LeaveStop, Exit, Counted, Goto, ThreadState, Pcs
<1>29. ASSUME t \in Process, NEW op \in Ops, NEW d \in Seq(Obj),
              CallOK(op, d), Call(t, op, d)
      PROVE  th' \in [Thread -> ThreadState]
  BY <1>29, <1>0 DEF Call, Goto, ThreadState, Pcs
<1>30. CASE t = Power /\ Suspend
  BY <1>30, <1>0 DEF Suspend, Goto, ThreadState, Pcs
<1>31. CASE t = Power /\ Quiesce
  <2>1. th[t] \in ThreadState /\ "inactive" \in Pcs
    BY <1>0 DEF Pcs
  <2>2. [th[t] EXCEPT !.pc = "inactive", !.then = "asleep"] \in ThreadState
    BY <2>1 DEF ThreadState
  <2> QED
    BY <1>31, <1>0, <2>2 DEF Quiesce
<1>32. CASE t = Power /\ Resume
  BY <1>32, <1>0 DEF Resume, Goto, ThreadState, Pcs
<1> QED
  BY <1>1, <1>2, <1>3, <1>4, <1>5, <1>6, <1>7, <1>8, <1>9, <1>10, <1>11,
     <1>12, <1>13, <1>14, <1>15, <1>16, <1>17, <1>18, <1>19, <1>20, <1>21,
     <1>22, <1>23, <1>24, <1>25, <1>26, <1>27, <1>28, <1>29, <1>30, <1>31,
     <1>32
  DEF Moves, Step, Search, Evict

\* A step of t leaves every other thread where it is.
LEMMA OneMoves ==
  ASSUME NEW t \in Thread, StateTypes, Moves(t)
  PROVE  \A s \in Thread \ {t} : th'[s] = th[s]
<1>0. th \in [Thread -> ThreadState] /\ Power \in Thread
  BY DEF StateTypes, Thread
<1>1. CASE t \in Process /\ Gate(t)
  BY <1>1, <1>0 DEF Gate, Counted, Tried, Goto
<1>2. CASE t \in Process /\ LockRead(t)
  BY <1>2, <1>0 DEF LockRead, Goto
<1>3. CASE t \in Process /\ LockExec(t)
  BY <1>3, <1>0 DEF LockExec, LockWrite, Exit, Counted, Goto
<1>4. CASE t \in Process /\ LockLeave(t)
  BY <1>4, <1>0 DEF LockLeave, LockWrite, Exit, Counted
<1>5. CASE t \in Process /\ LockEnter(t)
  BY <1>5, <1>0 DEF LockEnter, LockWrite, Exit, Counted
<1>6. CASE t \in Process /\ Hold(t)
  BY <1>6, <1>0 DEF Hold, Goto
<1>7. CASE t \in Process /\ Bind(t)
  BY <1>7, <1>0 DEF Bind, Pin, PinFails, Faulted, Goto
<1>8. CASE t \in Process /\ BindFull(t)
  BY <1>8, <1>0 DEF BindFull
<1>9. CASE t \in Process /\ SearchRetire(t)
  BY <1>9, <1>0 DEF SearchRetire, Retire, Goto
<1>10. CASE t \in Process /\ FindWait(t)
  BY <1>10, <1>0 DEF FindWait, NotFound, WaitFor
<1>11. CASE t \in Process /\ FindFlush(t)
  BY <1>11, <1>0 DEF FindFlush, NotFound, Flush, Flushed
<1>12. CASE t \in Process /\ FindEvict(t)
  BY <1>12, <1>0 DEF FindEvict, NotFound
<1>13. ASSUME t \in Process, NEW b \in Obj, FindInactive(t, b)
      PROVE  \A s \in Thread \ {t} : th'[s] = th[s]
  BY <1>13, <1>0 DEF FindInactive, Goto
<1>14. CASE InactiveUnbind(t)
  BY <1>14, <1>0 DEF InactiveUnbind
<1>15. CASE InactiveEnd(t)
  BY <1>15, <1>0 DEF InactiveEnd
<1>16. ASSUME NEW b \in Obj, InactivePick(t, b)
      PROVE  \A s \in Thread \ {t} : th'[s] = th[s]
  BY <1>16, <1>0 DEF InactivePick
<1>17. CASE t \in Process /\ EverythingGone(t)
  BY <1>17, <1>0 DEF EverythingGone
<1>18. CASE t \in Process /\ EverythingFlush(t)
  BY <1>18, <1>0 DEF EverythingFlush, Flush, Flushed
<1>19. CASE t \in Process /\ EverythingIdle(t)
  BY <1>19, <1>0 DEF EverythingIdle, Retire, Goto
<1>20. CASE t \in Process /\ Wait(t)
  BY <1>20, <1>0 DEF Wait, Retire, Goto
<1>21. CASE t \in Process /\ DomainFlush(t)
  BY <1>21, <1>0 DEF DomainFlush, Flush, Flushed, WaitFor
<1>22. CASE t \in Process /\ DomainWait(t)
  BY <1>22, <1>0 DEF DomainWait, WaitFor
<1>23. CASE t \in Process /\ Domain(t)
  BY <1>23, <1>0 DEF Domain, Goto
<1>24. CASE t \in Process /\ Done(t)
  BY <1>24, <1>0 DEF Done, Exit, Counted, Unpinned, Released
<1>25. ASSUME t \in Process, NEW w \in SUBSET Obj, Dispatch(t, w)
      PROVE  \A s \in Thread \ {t} : th'[s] = th[s]
  BY <1>25, <1>0 DEF Dispatch, Released, Held
<1>26. CASE t \in Process /\ Retry(t)
  BY <1>26, <1>0 DEF Retry, Retries, UnpinAll, Unpinned, Released
<1>27. CASE t \in Process /\ Fail(t)
  BY <1>27, <1>0
  DEF Fail, Retries, UnpinAll, Unpinned, Released, Exit, Counted
<1>28. CASE t \in Process /\ LeaveStop(t)
  BY <1>28, <1>0 DEF LeaveStop, Exit, Counted
<1>29. ASSUME t \in Process, NEW op \in Ops, NEW d \in Seq(Obj),
              CallOK(op, d), Call(t, op, d)
      PROVE  \A s \in Thread \ {t} : th'[s] = th[s]
  BY <1>29, <1>0 DEF Call
<1>30. CASE t = Power /\ Suspend
  BY <1>30, <1>0 DEF Suspend, Goto
<1>31. CASE t = Power /\ Quiesce
  BY <1>31, <1>0 DEF Quiesce
<1>32. CASE t = Power /\ Resume
  BY <1>32, <1>0 DEF Resume
<1> QED
  BY <1>1, <1>2, <1>3, <1>4, <1>5, <1>6, <1>7, <1>8, <1>9, <1>10, <1>11,
     <1>12, <1>13, <1>14, <1>15, <1>16, <1>17, <1>18, <1>19, <1>20, <1>21,
     <1>22, <1>23, <1>24, <1>25, <1>26, <1>27, <1>28, <1>29, <1>30, <1>31,
     <1>32
  DEF Moves, Step, Search, Evict

\* What is bound gets a place inside the aperture.
LEMMA BindPlace ==
  ASSUME StateTypes, Places, NEW t \in Process, Bind(t)
  PROVE  /\ Cur(t) \in Obj /\ HasCur(t)
         /\ \E h \in 0..Pages : offset' = [offset EXCEPT ![Cur(t)] = h]
<1>1. /\ Cur(t) \in Obj /\ HasCur(t)
      /\ offset \in [Obj -> {Unbound} \cup 0..Pages]
  BY CurObject DEF Bind, HasCur, Seeking, StateTypes
<1>2. PICK h \in IF Cur(t) \in Bound THEN {offset[Cur(t)]}
                 ELSE Holes(Cur(t)) :
        offset' = [offset EXCEPT ![Cur(t)] = h]
  BY DEF Bind
<1>3. CASE Cur(t) \in Bound
  BY <1>1, <1>2, <1>3 DEF Bound
<1>4. CASE Cur(t) \notin Bound
  <2>1. h + Size[Cur(t)] <= Pages
    BY <1>2, <1>4 DEF Holes
  <2>2. h = 0 \/ \E b \in Bound : h = offset[b] + Size[b]
    BY <1>2, <1>4 DEF Holes
  <2>3. \A b \in Obj : Size[b] \in Nat \ {0}
    BY ApertureAssumption
  <2>4. \A b \in Bound : offset[b] \in Nat /\ b \in Obj
    BY <1>1 DEF Bound
  <2>5. h \in Nat
    BY <2>2, <2>3, <2>4
  <2>6. Pages \in Nat /\ Size[Cur(t)] \in Nat
    BY <1>1, <2>3, ApertureAssumption
  <2>7. h \in 0..Pages
    BY <2>1, <2>5, <2>6
  <2> QED
    BY <1>1, <1>2, <2>7
<1> QED
  BY <1>3, <1>4

\* The steps of the threads keep the types.
LEMMA TypesMove ==
  ASSUME NEW t \in Thread, StateTypes, Places, Moves(t)
  PROVE  StateTypes'
<1>0. /\ th' \in [Thread -> ThreadState] /\ th[t] \in ThreadState
      /\ offset \in [Obj -> {Unbound} \cup 0..Pages]
      /\ list \in [Obj -> {"none", "active", "flushing", "inactive"}]
      /\ lrs \in [Obj -> Nat] /\ dirty \subseteq Obj /\ pins \in [Obj -> Int]
      /\ held \in [Obj -> Thread \cup {None}]
      /\ writer \in Thread \cup {None} /\ readers \subseteq Thread
      /\ pending \in Nat /\ entries \in Int /\ calls \in Nat
      /\ suspended \in BOOLEAN /\ quiet \in BOOLEAN /\ panic \in BOOLEAN
      /\ t \in Process => t \in Thread
  BY ThreadTypes DEF StateTypes, Thread
<1>1. CASE t \in Process /\ Gate(t)
  BY <1>1, <1>0 DEF Gate, Counted, Tried, Goto, StateTypes, objVars
<1>2. CASE t \in Process /\ LockRead(t)
  BY <1>2, <1>0 DEF LockRead, Goto, StateTypes, objVars
<1>3. CASE t \in Process /\ LockExec(t)
  BY <1>3, <1>0
  DEF LockExec, LockWrite, Exit, Counted, Goto, StateTypes, objVars, gateVars
<1>4. CASE t \in Process /\ LockLeave(t)
  BY <1>4, <1>0
  DEF LockLeave, LockWrite, Exit, Counted, StateTypes, objVars, gateVars
<1>5. CASE t \in Process /\ LockEnter(t)
  <2>1. panic' \in BOOLEAN /\ suspended' = FALSE
    BY <1>0, <1>5 DEF LockEnter
  <2>2. /\ writer' \in Thread \cup {None} /\ readers' \subseteq Thread
        /\ entries' \in Int
    BY <1>0, <1>5 DEF LockEnter, Exit, Counted
  <2> QED
    BY <1>0, <1>5, <2>1, <2>2 DEF StateTypes, LockEnter, Exit, objVars
<1>6. CASE t \in Process /\ Hold(t)
  BY <1>6, <1>0 DEF Hold, Goto, StateTypes, objVars, gateVars
<1>7. CASE t \in Process /\ Bind(t)
  <2>1. /\ Cur(t) \in Obj
        /\ \E h \in 0..Pages : offset' = [offset EXCEPT ![Cur(t)] = h]
    BY <1>7, BindPlace
  <2>4. offset' \in [Obj -> {Unbound} \cup 0..Pages]
    BY <1>0, <2>1
  <2>5. /\ list' \in [Obj -> {"none", "active", "flushing", "inactive"}]
        /\ pins' \in [Obj -> Int]
    <3>1. CASE Pin(t, Cur(t))
      BY <1>0, <2>1, <3>1 DEF Pin
    <3>2. CASE ~Pin(t, Cur(t))
      BY <1>0, <2>1, <1>7, <3>2 DEF Bind, PinFails, Faulted
    <3> QED
      BY <3>1, <3>2
  <2> QED
    BY <1>0, <1>7, <2>4, <2>5 DEF StateTypes, Bind, lockVars, gateVars
<1>8. CASE t \in Process /\ BindFull(t)
  BY <1>8, <1>0 DEF BindFull, StateTypes, objVars, lockVars, gateVars
<1>9. CASE t \in Process /\ SearchRetire(t)
  BY <1>9, <1>0 DEF SearchRetire, Retire, Goto, StateTypes, lockVars, gateVars
<1>10. CASE t \in Process /\ FindWait(t)
  BY <1>10, <1>0
  DEF FindWait, NotFound, WaitFor, StateTypes, objVars, lockVars, gateVars
<1>11. CASE t \in Process /\ FindFlush(t)
  BY <1>11, <1>0
  DEF FindFlush, NotFound, Flush, Flushed, StateTypes, lockVars, gateVars
<1>12. CASE t \in Process /\ FindEvict(t)
  BY <1>12, <1>0
  DEF FindEvict, NotFound, StateTypes, objVars, lockVars, gateVars
<1>13. ASSUME t \in Process, NEW b \in Obj, FindInactive(t, b)
      PROVE  StateTypes'
  BY <1>13, <1>0 DEF FindInactive, Goto, StateTypes, lockVars, gateVars
<1>14. CASE InactiveUnbind(t)
  BY <1>14, <1>0 DEF InactiveUnbind, StateTypes, lockVars, gateVars
<1>15. CASE InactiveEnd(t)
  BY <1>15, <1>0 DEF InactiveEnd, StateTypes, objVars, lockVars, gateVars
<1>16. ASSUME NEW b \in Obj, InactivePick(t, b)
      PROVE  StateTypes'
  BY <1>16, <1>0 DEF InactivePick, StateTypes, objVars, lockVars, gateVars
<1>17. CASE t \in Process /\ EverythingGone(t)
  BY <1>17, <1>0 DEF EverythingGone, StateTypes, objVars, lockVars, gateVars
<1>18. CASE t \in Process /\ EverythingFlush(t)
  BY <1>18, <1>0
  DEF EverythingFlush, Flush, Flushed, StateTypes, lockVars, gateVars
<1>19. CASE t \in Process /\ EverythingIdle(t)
  BY <1>19, <1>0
  DEF EverythingIdle, Retire, Goto, StateTypes, lockVars, gateVars
<1>20. CASE t \in Process /\ Wait(t)
  BY <1>20, <1>0 DEF Wait, Retire, Goto, StateTypes, lockVars, gateVars
<1>21. CASE t \in Process /\ DomainFlush(t)
  BY <1>21, <1>0
  DEF DomainFlush, Flush, Flushed, WaitFor, StateTypes, lockVars, gateVars
<1>22. CASE t \in Process /\ DomainWait(t)
  BY <1>22, <1>0
  DEF DomainWait, WaitFor, StateTypes, objVars, lockVars, gateVars
<1>23. CASE t \in Process /\ Domain(t)
  BY <1>23, <1>0 DEF Domain, Goto, StateTypes, objVars, lockVars, gateVars
<1>24. CASE t \in Process /\ Done(t)
  BY <1>24, <1>0 DEF Done, Exit, Counted, Unpinned, Released, StateTypes
<1>25. ASSUME t \in Process, NEW w \in SUBSET Obj, Dispatch(t, w)
      PROVE  StateTypes'
  BY <1>25, <1>0 DEF Dispatch, Released, Held, StateTypes
<1>26. CASE t \in Process /\ Retry(t)
  BY <1>26, <1>0
  DEF Retry, Retries, UnpinAll, Unpinned, Released, StateTypes, gateVars
<1>27. CASE t \in Process /\ Fail(t)
  BY <1>27, <1>0
  DEF Fail, Retries, UnpinAll, Unpinned, Released, Exit, Counted, StateTypes
<1>28. CASE t \in Process /\ LeaveStop(t)
  BY <1>28, <1>0 DEF LeaveStop, Exit, Counted, StateTypes, objVars
<1>29. ASSUME t \in Process, NEW op \in Ops, NEW d \in Seq(Obj),
              CallOK(op, d), Call(t, op, d)
      PROVE  StateTypes'
  BY <1>29, <1>0 DEF Call, StateTypes, objVars, lockVars, gateVars
<1>30. CASE t = Power /\ Suspend
  BY <1>30, <1>0 DEF Suspend, Goto, StateTypes, objVars, lockVars
<1>31. CASE t = Power /\ Quiesce
  BY <1>31, <1>0 DEF Quiesce, StateTypes, objVars, lockVars, gateVars
<1>32. CASE t = Power /\ Resume
  BY <1>32, <1>0 DEF Resume, StateTypes, objVars, lockVars
<1> QED
  BY <1>1, <1>2, <1>3, <1>4, <1>5, <1>6, <1>7, <1>8, <1>9, <1>10, <1>11,
     <1>12, <1>13, <1>14, <1>15, <1>16, <1>17, <1>18, <1>19, <1>20, <1>21,
     <1>22, <1>23, <1>24, <1>25, <1>26, <1>27, <1>28, <1>29, <1>30, <1>31,
     <1>32
  DEF Moves, Step, Search, Evict

\* So does every step.
LEMMA TypesStep ==
  ASSUME StateTypes, Places, Engine, [Next]_vars
  PROVE  StateTypes'
<1>1. ASSUME NEW t \in Thread, Moves(t) PROVE StateTypes'
  BY <1>1, TypesMove
<1>2. CASE GpuStep
  <2>1. th' \in [Thread -> ThreadState]
    <3>1. ASSUME NEW t \in Thread, th[t].seq > 0
          PROVE  [th[t] EXCEPT !.seq = @ - 1] \in ThreadState
      <4>1. th[t] \in ThreadState /\ th[t].seq - 1 \in Nat
        BY <3>1 DEF StateTypes, ThreadState
      <4> QED
        BY <4>1 DEF ThreadState
    <3> QED
      BY <1>2, <3>1 DEF GpuStep, StateTypes
  <2> QED
    BY <1>2, <2>1 DEF StateTypes, GpuStep, Passes, lockVars, gateVars
<1>3. CASE RetireWork
  BY <1>3 DEF RetireWork, Retire, StateTypes, lockVars, gateVars
<1>4. CASE UNCHANGED vars
  BY <1>4 DEF StateTypes, vars, objVars, lockVars, gateVars
<1> QED
  BY <1>1, <1>2, <1>3, <1>4, Movers

-----------------------------------------------------------------------------
(* Where the threads are.                                                  *)

\* A step of a process takes it to such a place.
LEMMA OwnPlace ==
  ASSUME NEW t \in Process, StateTypes, Places, Moves(t)
  PROVE  Place(t)'
<1>0. /\ th \in [Thread -> ThreadState] /\ th[t] \in ThreadState
      /\ Place(t) /\ t \in Thread
  BY DEF StateTypes, Places, Thread
<1>1. CASE t \in Process /\ Gate(t)
  <2>1. ASSUME NEW p \in {"hold", "lock"}, Goto(t, p),
               p = "hold" => th[t].op \in {"set_domain", "fault"},
               p = "lock" => th[t].op # "set_domain"
        PROVE  Place(t)'
    <3>1. /\ th'[t] = [th[t] EXCEPT !.pc = p]
          /\ th[t].pc = "gate"
      BY <1>0, <1>1, <2>1 DEF Gate, Goto
    <3>2. th[t].n = 0 /\ th[t].op # "none" /\ Len(th[t].batch) \in Nat
      BY <1>0, <3>1 DEF Place, ThreadState
    <3>3. CASE p = "hold"
      <4>1. Len(th[t].batch) = 1
        BY <1>0, <2>1, <3>3 DEF Place
      <4>2. th'[t].pc = "hold" /\ th'[t].op = th[t].op /\ th'[t].n = 0
            /\ th'[t].batch = th[t].batch
        BY <1>0, <3>1, <3>2, <3>3 DEF ThreadState
      <4>3. th'[t].op \in {"set_domain", "fault"} /\ Len(th'[t].batch) = 1
        BY <2>1, <3>3, <4>1, <4>2
      <4>4. th'[t].pc = "hold" /\ th'[t].n = 0
        BY <4>2
      <4> QED
        BY <4>3, <4>4 DEF Place, HasCur, Seeking, Evicting
    <3>4. CASE p = "lock"
      BY <1>0, <2>1, <3>1, <3>2, <3>4
      DEF Place, HasCur, Seeking, Evicting, ThreadState
    <3> QED
      BY <2>1, <3>3, <3>4
  <2>2. /\ Goto(t, IF th[t].op = "set_domain" \/ Tried(t) THEN "hold"
                   ELSE "lock")
        /\ Tried(t) => th[t].op = "fault"
    BY <1>1 DEF Gate, Tried
  <2> QED
    BY <2>1, <2>2
<1>2. CASE t \in Process /\ LockRead(t)
  <2>1. CASE Goto(t, "hold")
    <3>1. /\ th'[t] = [th[t] EXCEPT !.pc = "hold"]
          /\ th[t].pc = "lock" /\ th[t].op \in {"fault", "access"}
      BY <1>0, <1>2, <2>1 DEF LockRead, Goto
    <3>2. th[t].n = 0 /\ Len(th[t].batch) = 1
      BY <1>0, <3>1 DEF Place
    <3>3. th'[t].pc = "hold" /\ th'[t].op = th[t].op /\ th'[t].n = 0
          /\ th'[t].batch = th[t].batch
      BY <1>0, <3>1, <3>2 DEF ThreadState
    <3>4. th'[t].op \in {"fault", "access"} /\ Len(th'[t].batch) = 1
      BY <3>1, <3>2, <3>3
    <3>5. th'[t].pc = "hold" /\ th'[t].n = 0
      BY <3>3
    <3> QED
      BY <3>4, <3>5 DEF Place, HasCur, Seeking, Evicting
  <2>2. CASE th' = [th EXCEPT ![t] = Idle]
    <3>1. th'[t] = Idle
      BY <1>0, <2>2
    <3> QED
      BY <3>1 DEF Idle, Place, HasCur, Seeking, Evicting
  <2> QED
    BY <1>2, <2>1, <2>2 DEF LockRead
<1>3. CASE t \in Process /\ LockExec(t)
  <2>1. CASE Goto(t, "hold")
    <3>1. /\ th'[t] = [th[t] EXCEPT !.pc = "hold"]
          /\ th[t].pc = "lock" /\ th[t].op = "exec"
      BY <1>0, <1>3, <2>1 DEF LockExec, LockWrite, Goto
    <3> QED
      BY <1>0, <3>1 DEF Place, HasCur, Seeking, Evicting, ThreadState
  <2>2. CASE th' = [th EXCEPT ![t] = Idle]
    <3>1. th'[t] = Idle
      BY <1>0, <2>2
    <3> QED
      BY <3>1 DEF Idle, Place, HasCur, Seeking, Evicting
  <2> QED
    BY <1>3, <2>1, <2>2 DEF LockExec, Exit
<1>4. CASE t \in Process /\ LockLeave(t)
  <2>1. \/ th'[t] = Idle
        \/ /\ th'[t].pc = "everything" /\ th'[t].then = "stop"
           /\ th'[t].op = "leave" /\ th'[t].n = th[t].n
           /\ th'[t].batch = th[t].batch
    BY <1>4, <1>0 DEF LockLeave, LockWrite, Exit, ThreadState
  <2>2. th[t].n = 0 /\ Len(th[t].batch) \in Nat
    BY <1>4, <1>0 DEF LockLeave, LockWrite, Place, ThreadState
  <2>3. CASE th'[t] = Idle
    BY <2>3 DEF Idle, Place, HasCur, Seeking, Evicting
  <2> QED
    BY <2>1, <2>2, <2>3 DEF Place, HasCur, Seeking, Evicting
<1>5. CASE t \in Process /\ LockEnter(t)
  <2>1. th'[t] = Idle
    BY <1>5, <1>0 DEF LockEnter, Exit
  <2> QED
    BY <2>1 DEF Idle, Place, HasCur, Seeking, Evicting
<1>6. CASE t \in Process /\ Hold(t)
  BY <1>6, <1>0
  DEF Hold, Goto, Place, HasCur, Seeking, Evicting, ThreadState, Idle
<1>7. CASE t \in Process /\ Bind(t)
  BY <1>7, <1>0
  DEF Bind, Pin, PinFails, Faulted, Goto, Place, HasCur, Seeking, Evicting,
      ThreadState, Idle
<1>8. CASE t \in Process /\ BindFull(t)
  BY <1>8, <1>0
  DEF BindFull, Goto, Place, HasCur, Seeking, Evicting, ThreadState, Idle
<1>9. CASE t \in Process /\ SearchRetire(t)
  BY <1>9, <1>0
  DEF SearchRetire, Retire, Goto, Place, HasCur, Seeking, Evicting,
      ThreadState, Idle
<1>10. CASE t \in Process /\ FindWait(t)
  BY <1>10, <1>0
  DEF FindWait, NotFound, WaitFor, Goto, Place, HasCur, Seeking, Evicting,
      ThreadState, Idle
<1>11. CASE t \in Process /\ FindFlush(t)
  BY <1>11, <1>0
  DEF FindFlush, NotFound, Flush, Flushed, Goto, Place, HasCur, Seeking,
      Evicting, ThreadState, Idle
<1>12. CASE t \in Process /\ FindEvict(t)
  BY <1>12, <1>0
  DEF FindEvict, NotFound, Goto, Place, HasCur, Seeking, Evicting,
      ThreadState, Idle
<1>13. ASSUME t \in Process, NEW b \in Obj, FindInactive(t, b)
      PROVE  Place(t)'
  BY <1>13, <1>0
  DEF FindInactive, Goto, Place, HasCur, Seeking, Evicting, ThreadState, Idle
<1>14. CASE InactiveUnbind(t)
  BY <1>14, <1>0
  DEF InactiveUnbind, Goto, Place, HasCur, Seeking, Evicting, ThreadState,
      Idle
<1>15. CASE InactiveEnd(t)
  BY <1>15, <1>0
  DEF InactiveEnd, Goto, Place, HasCur, Seeking, Evicting, ThreadState, Idle
<1>16. ASSUME NEW b \in Obj, InactivePick(t, b)
      PROVE  Place(t)'
  BY <1>16, <1>0
  DEF InactivePick, Goto, Place, HasCur, Seeking, Evicting, ThreadState, Idle
<1>17. CASE t \in Process /\ EverythingGone(t)
  BY <1>17, <1>0
  DEF EverythingGone, Goto, Place, HasCur, Seeking, Evicting, ThreadState,
      Idle
<1>18. CASE t \in Process /\ EverythingFlush(t)
  BY <1>18, <1>0
  DEF EverythingFlush, Flush, Flushed, Goto, Place, HasCur, Seeking, Evicting,
      ThreadState, Idle
<1>19. CASE t \in Process /\ EverythingIdle(t)
  BY <1>19, <1>0
  DEF EverythingIdle, Retire, Goto, Place, HasCur, Seeking, Evicting,
      ThreadState, Idle
<1>20. CASE t \in Process /\ Wait(t)
  BY <1>20, <1>0
  DEF Wait, Retire, Goto, Place, HasCur, Seeking, Evicting, ThreadState, Idle
<1>21. CASE t \in Process /\ DomainFlush(t)
  BY <1>21, <1>0
  DEF DomainFlush, Flush, Flushed, WaitFor, Goto, Place, HasCur, Seeking,
      Evicting, ThreadState, Idle
<1>22. CASE t \in Process /\ DomainWait(t)
  BY <1>22, <1>0
  DEF DomainWait, WaitFor, Goto, Place, HasCur, Seeking, Evicting,
      ThreadState, Idle
<1>23. CASE t \in Process /\ Domain(t)
  BY <1>23, <1>0
  DEF Domain, Goto, Place, HasCur, Seeking, Evicting, ThreadState, Idle
<1>24. CASE t \in Process /\ Done(t)
  BY <1>24, <1>0
  DEF Done, Exit, Counted, Unpinned, Released, Goto, Place, HasCur, Seeking,
      Evicting, ThreadState, Idle
<1>25. ASSUME t \in Process, NEW w \in SUBSET Obj, Dispatch(t, w)
      PROVE  Place(t)'
  BY <1>25, <1>0
  DEF Dispatch, Released, Held, Goto, Place, HasCur, Seeking, Evicting,
      ThreadState, Idle
<1>26. CASE t \in Process /\ Retry(t)
  BY <1>26, <1>0
  DEF Retry, Retries, UnpinAll, Unpinned, Released, Goto, Place, HasCur,
      Seeking, Evicting, ThreadState, Idle
<1>27. CASE t \in Process /\ Fail(t)
  BY <1>27, <1>0
  DEF Fail, Retries, UnpinAll, Unpinned, Released, Exit, Counted, Goto, Place,
      HasCur, Seeking, Evicting, ThreadState, Idle
<1>28. CASE t \in Process /\ LeaveStop(t)
  BY <1>28, <1>0
  DEF LeaveStop, Exit, Counted, Goto, Place, HasCur, Seeking, Evicting,
      ThreadState, Idle
<1>29. ASSUME t \in Process, NEW op \in Ops, NEW d \in Seq(Obj),
              CallOK(op, d), Call(t, op, d)
      PROVE  Place(t)'
  <2>1. /\ th'[t] = [Idle EXCEPT !.pc = "gate", !.op = op, !.batch = d]
        /\ Len(d) \in Nat
    BY <1>0, <1>29 DEF Call
  <2>2. /\ op \in {"fault", "access", "set_domain"} => Len(d) = 1
        /\ op = "exec" => Len(d) > 0
    BY <1>0, <1>29 DEF CallOK
  <2> QED
    BY <2>1, <2>2, <1>29 DEF Place, HasCur, Seeking, Evicting, Idle, Ops
<1> QED
  BY <1>1, <1>2, <1>3, <1>4, <1>5, <1>6, <1>7, <1>8, <1>9, <1>10, <1>11,
     <1>12, <1>13, <1>14, <1>15, <1>16, <1>17, <1>18, <1>19, <1>20, <1>21,
     <1>22, <1>23, <1>24, <1>25, <1>26, <1>27, <1>28, <1>29,
     ApertureAssumption
  DEF Moves, Step, Search, Evict

\* So does one of the thread that suspends.
LEMMA PowerMoves ==
  ASSUME StateTypes, Places, Moves(Power)
  PROVE  PowerPlace'
<1>0. /\ th \in [Thread -> ThreadState] /\ Power \in Thread
      /\ th[Power] \in ThreadState /\ PowerPlace
  BY DEF StateTypes, Places, Thread
<1>1. CASE Suspend
  BY <1>0, <1>1 DEF PowerPlace, Suspend, Goto
<1>2. CASE Quiesce
  BY <1>0, <1>2 DEF PowerPlace, Quiesce
<1>3. CASE Resume
  BY <1>0, <1>3 DEF PowerPlace, Resume, Idle
<1>4. CASE Evict(Power)
  <2>1. CASE InactiveUnbind(Power)
    BY <1>0, <2>1 DEF PowerPlace, InactiveUnbind
  <2>2. CASE InactiveEnd(Power)
    <3>1. /\ th'[Power] = [th[Power] EXCEPT !.pc = th[Power].then,
                                            !.all = FALSE]
          /\ th[Power].pc = "inactive" /\ th[Power].then = "asleep"
      BY <1>0, <2>2 DEF InactiveEnd, PowerPlace
    <3> QED
      BY <1>0, <3>1 DEF PowerPlace, ThreadState
  <2>3. ASSUME NEW b \in Obj, InactivePick(Power, b) PROVE PowerPlace'
    BY <1>0, <2>3 DEF PowerPlace, InactivePick
  <2> QED
    BY <1>4, <2>1, <2>2, <2>3 DEF Evict
<1> QED
  BY <1>1, <1>2, <1>3, <1>4, ApertureAssumption DEF Moves

\* Of a thread, GpuStep changes only the number of requests it waits for.
Counting(t) ==
    /\ th'[t].pc = th[t].pc /\ th'[t].op = th[t].op
    /\ th'[t].batch = th[t].batch
    /\ th'[t].n = th[t].n /\ th'[t].victim = th[t].victim
    /\ th'[t].all = th[t].all /\ th'[t].then = th[t].then
    /\ th'[t].tries = th[t].tries

\* What else is not a step of a thread changes nothing of it.
LEMMA Uncounted ==
  ASSUME StateTypes, GpuStep \/ RetireWork \/ UNCHANGED vars, NEW t \in Thread
  PROVE  Counting(t)
<1>1. CASE GpuStep
  <2>1. th' = [s \in Thread |-> IF th[s].seq > 0
                                THEN [th[s] EXCEPT !.seq = @ - 1]
                                ELSE th[s]]
    BY <1>1 DEF GpuStep
  <2>2. th'[t] = IF th[t].seq > 0 THEN [th[t] EXCEPT !.seq = @ - 1] ELSE th[t]
    BY <2>1
  <2>3. th[t] \in ThreadState
    BY DEF StateTypes
  <2> QED
    BY <2>2, <2>3 DEF Counting, ThreadState
<1>2. CASE th' = th
  BY <1>2 DEF Counting
<1> QED
  BY <1>1, <1>2 DEF RetireWork, vars

\* Every step leaves all threads at such places.
LEMMA PlacesStep ==
  ASSUME StateTypes, Places, [Next]_vars
  PROVE  Places'
<1>1. ASSUME NEW t \in Process, Counting(t) PROVE Place(t)'
  BY <1>1 DEF Places, Place, HasCur, Counting
<1>2. ASSUME GpuStep \/ RetireWork \/ UNCHANGED vars PROVE Places'
  <2>1. PowerPlace'
    BY <1>2, Uncounted DEF Places, PowerPlace, Counting, Thread
  <2> QED
    BY <1>1, <1>2, <2>1, Uncounted DEF Places, Thread
<1>3. ASSUME NEW t \in Thread, Moves(t) PROVE Places'
  <2>1. ASSUME NEW s \in Process PROVE Place(s)'
    <3>1. CASE s = t
      BY <1>3, <3>1, OwnPlace
    <3>2. CASE s # t
      <4>1. th'[s] = th[s]
        BY <1>3, <3>2, OneMoves DEF Thread
      <4> QED
        BY <1>1, <4>1 DEF Counting
    <3> QED
      BY <3>1, <3>2
  <2>2. PowerPlace'
    <3>1. CASE t = Power
      BY <1>3, <3>1, PowerMoves
    <3>2. CASE t # Power
      <4>1. th'[Power] = th[Power]
        BY <1>3, <3>2, OneMoves DEF Thread
      <4> QED
        BY <4>1 DEF Places, PowerPlace
    <3> QED
      BY <3>1, <3>2
  <2> QED
    BY <2>1, <2>2 DEF Places
<1> QED
  BY <1>2, <1>3, Movers

-----------------------------------------------------------------------------
(* What they hold.                                                         *)

\* What a step does to the holds.
LEMMA HeldMoves ==
  ASSUME NEW t \in Thread, Moves(t)
  PROVE  held' = held \/ held' = Released(t) \/ (t \in Process /\ Hold(t))
<1>1. CASE t \in Process /\ Gate(t)
  BY <1>1 DEF Gate, Counted, Tried, Goto
<1>2. CASE t \in Process /\ LockRead(t)
  BY <1>2 DEF LockRead, Goto
<1>3. CASE t \in Process /\ LockExec(t)
  BY <1>3 DEF LockExec, LockWrite, Exit, Counted, Goto
<1>4. CASE t \in Process /\ LockLeave(t)
  BY <1>4 DEF LockLeave, LockWrite, Exit, Counted
<1>5. CASE t \in Process /\ LockEnter(t)
  BY <1>5 DEF LockEnter, LockWrite, Exit, Counted
<1>6. CASE t \in Process /\ Hold(t)
  BY <1>6 DEF Hold, Goto
<1>7. CASE t \in Process /\ Bind(t)
  BY <1>7 DEF Bind, Pin, PinFails, Faulted, Goto, lockVars
<1>8. CASE t \in Process /\ BindFull(t)
  BY <1>8 DEF BindFull, lockVars
<1>9. CASE t \in Process /\ SearchRetire(t)
  BY <1>9 DEF SearchRetire, Retire, Goto, lockVars
<1>10. CASE t \in Process /\ FindWait(t)
  BY <1>10 DEF FindWait, NotFound, WaitFor, lockVars
<1>11. CASE t \in Process /\ FindFlush(t)
  BY <1>11 DEF FindFlush, NotFound, Flush, Flushed, lockVars
<1>12. CASE t \in Process /\ FindEvict(t)
  BY <1>12 DEF FindEvict, NotFound, lockVars
<1>13. ASSUME t \in Process, NEW b \in Obj, FindInactive(t, b)
      PROVE  held' = held \/ held' = Released(t) \/ (t \in Process /\ Hold(t))
  BY <1>13 DEF FindInactive, Goto, lockVars
<1>14. CASE InactiveUnbind(t)
  BY <1>14 DEF InactiveUnbind, lockVars
<1>15. CASE InactiveEnd(t)
  BY <1>15 DEF InactiveEnd, lockVars
<1>16. ASSUME NEW b \in Obj, InactivePick(t, b)
      PROVE  held' = held \/ held' = Released(t) \/ (t \in Process /\ Hold(t))
  BY <1>16 DEF InactivePick, lockVars
<1>17. CASE t \in Process /\ EverythingGone(t)
  BY <1>17 DEF EverythingGone, lockVars
<1>18. CASE t \in Process /\ EverythingFlush(t)
  BY <1>18 DEF EverythingFlush, Flush, Flushed, lockVars
<1>19. CASE t \in Process /\ EverythingIdle(t)
  BY <1>19 DEF EverythingIdle, Retire, Goto, lockVars
<1>20. CASE t \in Process /\ Wait(t)
  BY <1>20 DEF Wait, Retire, Goto, lockVars
<1>21. CASE t \in Process /\ DomainFlush(t)
  BY <1>21 DEF DomainFlush, Flush, Flushed, WaitFor, lockVars
<1>22. CASE t \in Process /\ DomainWait(t)
  BY <1>22 DEF DomainWait, WaitFor, lockVars
<1>23. CASE t \in Process /\ Domain(t)
  BY <1>23 DEF Domain, Goto, lockVars
<1>24. CASE t \in Process /\ Done(t)
  BY <1>24 DEF Done, Exit, Counted, Unpinned, Released
<1>25. ASSUME t \in Process, NEW w \in SUBSET Obj, Dispatch(t, w)
      PROVE  held' = held \/ held' = Released(t) \/ (t \in Process /\ Hold(t))
  BY <1>25 DEF Dispatch, Released, Held
<1>26. CASE t \in Process /\ Retry(t)
  BY <1>26 DEF Retry, Retries, UnpinAll, Unpinned, Released
<1>27. CASE t \in Process /\ Fail(t)
  BY <1>27 DEF Fail, Retries, UnpinAll, Unpinned, Released, Exit, Counted
<1>28. CASE t \in Process /\ LeaveStop(t)
  BY <1>28 DEF LeaveStop, Exit, Counted
<1>29. ASSUME t \in Process, NEW op \in Ops, NEW d \in Seq(Obj),
              CallOK(op, d), Call(t, op, d)
      PROVE  held' = held \/ held' = Released(t) \/ (t \in Process /\ Hold(t))
  BY <1>29 DEF Call, lockVars
<1>30. CASE t = Power /\ Suspend
  BY <1>30 DEF Suspend, Goto, lockVars
<1>31. CASE t = Power /\ Quiesce
  BY <1>31 DEF Quiesce, lockVars
<1>32. CASE t = Power /\ Resume
  BY <1>32 DEF Resume, lockVars
<1> QED
  BY <1>1, <1>2, <1>3, <1>4, <1>5, <1>6, <1>7, <1>8, <1>9, <1>10, <1>11,
     <1>12, <1>13, <1>14, <1>15, <1>16, <1>17, <1>18, <1>19, <1>20, <1>21,
     <1>22, <1>23, <1>24, <1>25, <1>26, <1>27, <1>28, <1>29, <1>30, <1>31,
     <1>32
  DEF Moves, Step, Search, Evict

\* It takes and gives back only those of the thread itself.
LEMMA OthersHold ==
  ASSUME StateTypes, Places, NEW t \in Thread, Moves(t)
  PROVE  \A s \in Thread \ {t}, o \in Obj : held'[o] = s <=> held[o] = s
<1>0. held \in [Obj -> Thread \cup {None}] /\ None \notin Thread
  BY ApertureAssumption DEF StateTypes, Thread
<1>1. CASE held' = held
  BY <1>1
<1>2. CASE held' = Released(t)
  BY <1>0, <1>2 DEF Released
<1>3. CASE t \in Process /\ Hold(t)
  <2>1. /\ Cur(t) \in Obj /\ held[Cur(t)] = None
        /\ held' = [held EXCEPT ![Cur(t)] = t]
    BY <1>3, CurObject DEF Hold
  <2> QED
    BY <1>0, <2>1
<1> QED
  BY <1>1, <1>2, <1>3, HeldMoves

\* A thread that keeps its holds and its place in the batch holds what it
\* should.
LEMMA Stay ==
  ASSUME th \in [Thread -> ThreadState], NEW t \in Thread, HoldExact(t),
         held' = held,
         th'[t].batch = th[t].batch, th'[t].n = th[t].n,
         \/ th'[t].pc = "fail"
         \/ th[t].pc # "fail" /\ (HasCur(t)' <=> HasCur(t))
  PROVE  HoldExact(t)'
<1>1. PinnedBy(t)' = PinnedBy(t) /\ Cur(t)' = Cur(t)
  BY DEF PinnedBy, Cur
<1>2. CASE th'[t].pc = "fail"
  <2>1. ~HasCur(t)'
    BY <1>2 DEF HasCur, Seeking, Evicting
  <2> QED
    BY <1>1, <1>2, <2>1 DEF HoldExact
<1>3. CASE th'[t].pc # "fail"
  BY <1>1, <1>3 DEF HoldExact
<1> QED
  BY <1>2, <1>3

\* So does one that has let go of everything.
LEMMA Gone ==
  ASSUME NEW t \in Thread, th'[t].n = 0, ~HasCur(t)',
         \A o \in Obj : held'[o] # t
  PROVE  HoldExact(t)'
<1>1. PinnedBy(t)' = {}
  BY DEF PinnedBy
<1> QED
  BY <1>1 DEF HoldExact

\* An execbuffer that pins goes on to the next object.
LEMMA PinMore ==
  ASSUME NEW t \in Thread, th \in [Thread -> ThreadState], NEW o, Pin(t, o),
         th[t].op = "exec"
  PROVE  /\ th'[t].n = th[t].n + 1 /\ th'[t].batch = th[t].batch
         /\ th'[t].op = "exec" /\ th'[t].pc \in {"dispatch", "hold"}
<1>1. PICK p \in {"dispatch", "hold"} :
        th' = [th EXCEPT ![t].n = @ + 1, ![t].pc = p]
  BY DEF Pin
<1>2. th[t] \in ThreadState
  OBVIOUS
<1>3. th'[t] = [th[t] EXCEPT !.n = th[t].n + 1, !.pc = p]
  BY <1>1
<1> QED
  BY <1>2, <1>3 DEF ThreadState

\* Then the object is one of those it has pinned.
LEMMA PinAdds ==
  ASSUME NEW t \in Thread, th \in [Thread -> ThreadState], HoldExact(t),
         th[t].pc = "bind", th[t].op = "exec", Pin(t, Cur(t)), held' = held
  PROVE  HoldExact(t)'
<1>1. /\ th'[t].n = th[t].n + 1 /\ th'[t].batch = th[t].batch
      /\ th'[t].pc \in {"dispatch", "hold"} /\ th[t].n \in Nat
  BY PinMore DEF ThreadState
<1>2. PinnedBy(t)' = PinnedBy(t) \cup {Cur(t)}
  <2>1. 1..th'[t].n = 1..th[t].n \cup {th[t].n + 1}
    BY <1>1
  <2> QED
    BY <1>1, <2>1 DEF PinnedBy, Cur
<1>3. HasCur(t) /\ ~HasCur(t)'
  BY <1>1 DEF HasCur, Seeking, Evicting
<1> QED
  BY <1>1, <1>2, <1>3 DEF HoldExact

\* A step of a process leaves it with the holds it should have.
LEMMA OwnHold ==
  ASSUME NEW t \in Process, StateTypes, Places, Holds, Moves(t)
  PROVE  HoldExact(t)'
<1>0. /\ th \in [Thread -> ThreadState] /\ th[t] \in ThreadState
      /\ t \in Thread
      /\ Place(t) /\ HoldExact(t) /\ held \in [Obj -> Thread \cup {None}]
      /\ None \notin Thread
  BY ApertureAssumption DEF StateTypes, Places, Holds, Thread
<1>1. CASE t \in Process /\ Gate(t)
  <2>1. /\ held' = held /\ th'[t].batch = th[t].batch /\ th'[t].n = th[t].n
        /\ \/ th'[t].pc = "fail"
           \/ th[t].pc # "fail" /\ (HasCur(t)' <=> HasCur(t))
    BY <1>0, <1>1
    DEF Gate, Counted, Tried, Goto, ThreadState, HasCur, Seeking, Evicting
  <2> QED
    BY <1>0, <2>1, Stay
<1>2. CASE t \in Process /\ LockRead(t)
  <2>1. CASE held' = held /\ th'[t] = Idle
    <3>1. th[t].n = 0 /\ ~HasCur(t) /\ th[t].pc # "fail"
      BY <1>0, <1>2 DEF LockRead, Goto, Place, HasCur, Seeking, Evicting
    <3>2. th'[t].n = 0 /\ ~HasCur(t)'
      BY <2>1 DEF Idle, HasCur, Seeking, Evicting
    <3>3. PinnedBy(t) = {}
      BY <3>1 DEF PinnedBy
    <3>4. \A o \in Obj : held'[o] # t
      BY <1>0, <2>1, <3>1, <3>3 DEF HoldExact
    <3> QED
      BY <1>0, <3>2, <3>4, Gone
  <2>2. CASE ~(held' = held /\ th'[t] = Idle)
    <3>1. /\ held' = held /\ th'[t].batch = th[t].batch /\ th'[t].n = th[t].n
          /\ \/ th'[t].pc = "fail"
             \/ th[t].pc # "fail" /\ (HasCur(t)' <=> HasCur(t))
      BY <1>0, <2>2, <1>2
      DEF LockRead, Goto, ThreadState, HasCur, Seeking, Evicting
    <3> QED
      BY <1>0, <3>1, Stay
  <2> QED
    BY <2>1, <2>2
<1>3. CASE t \in Process /\ LockExec(t)
  <2>1. CASE held' = held /\ th'[t] = Idle
    <3>1. th[t].n = 0 /\ ~HasCur(t) /\ th[t].pc # "fail"
      BY <1>0, <1>3
      DEF LockExec, LockWrite, Exit, Counted, Goto, Place, HasCur, Seeking,
          Evicting
    <3>2. th'[t].n = 0 /\ ~HasCur(t)'
      BY <2>1 DEF Idle, HasCur, Seeking, Evicting
    <3>3. PinnedBy(t) = {}
      BY <3>1 DEF PinnedBy
    <3>4. \A o \in Obj : held'[o] # t
      BY <1>0, <2>1, <3>1, <3>3 DEF HoldExact
    <3> QED
      BY <1>0, <3>2, <3>4, Gone
  <2>2. CASE ~(held' = held /\ th'[t] = Idle)
    <3>1. /\ held' = held /\ th'[t].batch = th[t].batch /\ th'[t].n = th[t].n
          /\ \/ th'[t].pc = "fail"
             \/ th[t].pc # "fail" /\ (HasCur(t)' <=> HasCur(t))
      BY <1>0, <2>2, <1>3
      DEF LockExec, LockWrite, Exit, Counted, Goto, ThreadState, HasCur,
          Seeking, Evicting
    <3> QED
      BY <1>0, <3>1, Stay
  <2> QED
    BY <2>1, <2>2
<1>4. CASE t \in Process /\ LockLeave(t)
  <2>1. CASE held' = held /\ th'[t] = Idle
    <3>1. th[t].n = 0 /\ ~HasCur(t) /\ th[t].pc # "fail"
      BY <1>0, <1>4
      DEF LockLeave, LockWrite, Exit, Counted, Place, HasCur, Seeking,
          Evicting
    <3>2. th'[t].n = 0 /\ ~HasCur(t)'
      BY <2>1 DEF Idle, HasCur, Seeking, Evicting
    <3>3. PinnedBy(t) = {}
      BY <3>1 DEF PinnedBy
    <3>4. \A o \in Obj : held'[o] # t
      BY <1>0, <2>1, <3>1, <3>3 DEF HoldExact
    <3> QED
      BY <1>0, <3>2, <3>4, Gone
  <2>2. CASE ~(held' = held /\ th'[t] = Idle)
    <3>1. /\ held' = held /\ th'[t].batch = th[t].batch /\ th'[t].n = th[t].n
          /\ \/ th'[t].pc = "fail"
             \/ th[t].pc # "fail" /\ (HasCur(t)' <=> HasCur(t))
      BY <1>0, <2>2, <1>4
      DEF LockLeave, LockWrite, Exit, Counted, ThreadState, HasCur, Seeking,
          Evicting
    <3> QED
      BY <1>0, <3>1, Stay
  <2> QED
    BY <2>1, <2>2
<1>5. CASE t \in Process /\ LockEnter(t)
  <2>1. CASE held' = held /\ th'[t] = Idle
    <3>1. th[t].n = 0 /\ ~HasCur(t) /\ th[t].pc # "fail"
      BY <1>0, <1>5
      DEF LockEnter, LockWrite, Exit, Counted, Place, HasCur, Seeking,
          Evicting
    <3>2. th'[t].n = 0 /\ ~HasCur(t)'
      BY <2>1 DEF Idle, HasCur, Seeking, Evicting
    <3>3. PinnedBy(t) = {}
      BY <3>1 DEF PinnedBy
    <3>4. \A o \in Obj : held'[o] # t
      BY <1>0, <2>1, <3>1, <3>3 DEF HoldExact
    <3> QED
      BY <1>0, <3>2, <3>4, Gone
  <2>2. CASE ~(held' = held /\ th'[t] = Idle)
    <3>1. /\ held' = held /\ th'[t].batch = th[t].batch /\ th'[t].n = th[t].n
          /\ \/ th'[t].pc = "fail"
             \/ th[t].pc # "fail" /\ (HasCur(t)' <=> HasCur(t))
      BY <1>0, <2>2, <1>5
      DEF LockEnter, LockWrite, Exit, Counted, ThreadState, HasCur, Seeking,
          Evicting
    <3> QED
      BY <1>0, <3>1, Stay
  <2> QED
    BY <2>1, <2>2
<1>6. CASE t \in Process /\ Hold(t)
  <2>1. /\ th[t].pc = "hold" /\ held[Cur(t)] = None
        /\ held' = [held EXCEPT ![Cur(t)] = t]
        /\ th'[t].batch = th[t].batch /\ th'[t].n = th[t].n
        /\ th'[t].pc \in {"domain", "bind"}
    BY <1>0, <1>6 DEF Hold, Goto, ThreadState
  <2>2. PinnedBy(t)' = PinnedBy(t) /\ Cur(t)' = Cur(t) /\ Cur(t) \in Obj
    BY <1>6, <2>1, CurObject DEF PinnedBy, Cur
  <2>3. ~HasCur(t) /\ HasCur(t)'
    BY <2>1 DEF HasCur, Seeking, Evicting
  <2>4. \A o \in Obj : held[o] = t <=> o \in PinnedBy(t)
    BY <1>0, <2>1, <2>3 DEF HoldExact
  <2>5. Cur(t) \notin PinnedBy(t)
    BY <1>0, <2>1, <2>2, <2>4
  <2>6. \A o \in Obj : held'[o] = t <=> o \in PinnedBy(t) \/ o = Cur(t)
    BY <1>0, <2>1, <2>2, <2>4
  <2> QED
    BY <2>1, <2>2, <2>3, <2>5, <2>6 DEF HoldExact
<1>7. CASE t \in Process /\ Bind(t)
  <2>0. /\ th[t].pc = "bind" /\ held' = held /\ HasCur(t) /\ Cur(t) \in Obj
    BY <1>7, CurObject DEF Bind, lockVars, HasCur, Seeking
  <2>1. CASE th[t].op = "exec" /\ Pin(t, Cur(t))
    BY <1>0, <2>0, <2>1, PinAdds
  <2>2. CASE ~(th[t].op = "exec" /\ Pin(t, Cur(t)))
    <3>1. /\ th'[t].batch = th[t].batch /\ th'[t].n = th[t].n
          /\ \/ th'[t].pc = "fail"
             \/ th'[t].pc = "domain"
      BY <1>0, <2>2, <1>7 DEF Bind, Pin, PinFails, Goto, ThreadState
    <3>2. th'[t].pc = "domain" => HasCur(t)'
      BY DEF HasCur
    <3> QED
      BY <1>0, <2>0, <3>1, <3>2, Stay
  <2> QED
    BY <2>1, <2>2
<1>8. CASE t \in Process /\ BindFull(t)
  <2>1. /\ held' = held /\ th'[t].batch = th[t].batch /\ th'[t].n = th[t].n
        /\ \/ th'[t].pc = "fail"
           \/ th[t].pc # "fail" /\ (HasCur(t)' <=> HasCur(t))
    BY <1>0, <1>8
    DEF BindFull, lockVars, ThreadState, HasCur, Seeking, Evicting
  <2> QED
    BY <1>0, <2>1, Stay
<1>9. CASE t \in Process /\ SearchRetire(t)
  <2>1. /\ held' = held /\ th'[t].batch = th[t].batch /\ th'[t].n = th[t].n
        /\ \/ th'[t].pc = "fail"
           \/ th[t].pc # "fail" /\ (HasCur(t)' <=> HasCur(t))
    BY <1>0, <1>9
    DEF SearchRetire, Retire, Goto, lockVars, ThreadState, HasCur, Seeking,
        Evicting
  <2> QED
    BY <1>0, <2>1, Stay
<1>10. CASE t \in Process /\ FindWait(t)
  <2>1. /\ held' = held /\ th'[t].batch = th[t].batch /\ th'[t].n = th[t].n
        /\ \/ th'[t].pc = "fail"
           \/ th[t].pc # "fail" /\ (HasCur(t)' <=> HasCur(t))
    BY <1>0, <1>10
    DEF FindWait, NotFound, WaitFor, lockVars, ThreadState, HasCur, Seeking,
        Evicting
  <2> QED
    BY <1>0, <2>1, Stay
<1>11. CASE t \in Process /\ FindFlush(t)
  <2>1. /\ held' = held /\ th'[t].batch = th[t].batch /\ th'[t].n = th[t].n
        /\ \/ th'[t].pc = "fail"
           \/ th[t].pc # "fail" /\ (HasCur(t)' <=> HasCur(t))
    BY <1>0, <1>11
    DEF FindFlush, NotFound, Flush, Flushed, lockVars, ThreadState, HasCur,
        Seeking, Evicting
  <2> QED
    BY <1>0, <2>1, Stay
<1>12. CASE t \in Process /\ FindEvict(t)
  <2>1. /\ held' = held /\ th'[t].batch = th[t].batch /\ th'[t].n = th[t].n
        /\ \/ th'[t].pc = "fail"
           \/ th[t].pc # "fail" /\ (HasCur(t)' <=> HasCur(t))
    BY <1>0, <1>12
    DEF FindEvict, NotFound, lockVars, ThreadState, HasCur, Seeking, Evicting
  <2> QED
    BY <1>0, <2>1, Stay
<1>13. ASSUME t \in Process, NEW b \in Obj, FindInactive(t, b)
      PROVE  HoldExact(t)'
  <2>1. /\ held' = held /\ th'[t].batch = th[t].batch /\ th'[t].n = th[t].n
        /\ \/ th'[t].pc = "fail"
           \/ th[t].pc # "fail" /\ (HasCur(t)' <=> HasCur(t))
    BY <1>0, <1>13
    DEF FindInactive, Goto, lockVars, ThreadState, HasCur, Seeking, Evicting
  <2> QED
    BY <1>0, <2>1, Stay
<1>14. CASE InactiveUnbind(t)
  <2>1. /\ held' = held /\ th'[t].batch = th[t].batch /\ th'[t].n = th[t].n
        /\ \/ th'[t].pc = "fail"
           \/ th[t].pc # "fail" /\ (HasCur(t)' <=> HasCur(t))
    BY <1>0, <1>14
    DEF InactiveUnbind, lockVars, ThreadState, HasCur, Seeking, Evicting
  <2> QED
    BY <1>0, <2>1, Stay
<1>15. CASE InactiveEnd(t)
  <2>1. /\ held' = held /\ th'[t].batch = th[t].batch /\ th'[t].n = th[t].n
        /\ th'[t].pc = th[t].then /\ th'[t].then = th[t].then
        /\ th[t].pc = "inactive"
    BY <1>0, <1>15 DEF InactiveEnd, lockVars, ThreadState
  <2>2. th[t].then \in {"stop", "hold", "bind"}
    BY <1>0, <2>1 DEF Place, Evicting
  <2>3. HasCur(t)' <=> HasCur(t)
    BY <2>1, <2>2 DEF HasCur, Seeking, Evicting
  <2> QED
    BY <1>0, <2>1, <2>3, Stay
<1>16. ASSUME NEW b \in Obj, InactivePick(t, b)
      PROVE  HoldExact(t)'
  <2>1. /\ held' = held /\ th'[t].batch = th[t].batch /\ th'[t].n = th[t].n
        /\ \/ th'[t].pc = "fail"
           \/ th[t].pc # "fail" /\ (HasCur(t)' <=> HasCur(t))
    BY <1>0, <1>16
    DEF InactivePick, lockVars, ThreadState, HasCur, Seeking, Evicting
  <2> QED
    BY <1>0, <2>1, Stay
<1>17. CASE t \in Process /\ EverythingGone(t)
  <2>1. /\ held' = held /\ th'[t].batch = th[t].batch /\ th'[t].n = th[t].n
        /\ th[t].pc = "everything"
        /\ (th'[t].pc = "fail" \/ (th[t].op = "leave" /\ th'[t].pc = "stop"))
    BY <1>0, <1>17 DEF EverythingGone, lockVars, ThreadState
  <2>2. CASE th[t].op = "leave" /\ th'[t].pc = "stop"
    <3>1. ~HasCur(t) /\ ~HasCur(t)'
      BY <1>0, <2>1, <2>2 DEF Place, HasCur, Seeking, Evicting
    <3> QED
      BY <1>0, <2>1, <3>1, Stay
  <2> QED
    BY <1>0, <2>1, <2>2, Stay
<1>18. CASE t \in Process /\ EverythingFlush(t)
  <2>1. /\ held' = held /\ th'[t].batch = th[t].batch /\ th'[t].n = th[t].n
        /\ \/ th'[t].pc = "fail"
           \/ th[t].pc # "fail" /\ (HasCur(t)' <=> HasCur(t))
    BY <1>0, <1>18
    DEF EverythingFlush, Flush, Flushed, lockVars, ThreadState, HasCur,
        Seeking, Evicting
  <2> QED
    BY <1>0, <2>1, Stay
<1>19. CASE t \in Process /\ EverythingIdle(t)
  <2>1. /\ held' = held /\ th'[t].batch = th[t].batch /\ th'[t].n = th[t].n
        /\ \/ th'[t].pc = "fail"
           \/ th[t].pc # "fail" /\ (HasCur(t)' <=> HasCur(t))
    BY <1>0, <1>19
    DEF EverythingIdle, Retire, Goto, lockVars, ThreadState, HasCur, Seeking,
        Evicting
  <2> QED
    BY <1>0, <2>1, Stay
<1>20. CASE t \in Process /\ Wait(t)
  <2>1. /\ held' = held /\ th'[t].batch = th[t].batch /\ th'[t].n = th[t].n
        /\ th'[t].pc = th[t].then /\ th[t].pc = "wait"
    BY <1>0, <1>20 DEF Wait, Goto, lockVars, ThreadState
  <2>2. th[t].then \in {"search", "done"}
    BY <1>0, <2>1 DEF Place
  <2>3. HasCur(t)' <=> HasCur(t)
    BY <2>1, <2>2 DEF HasCur, Seeking
  <2> QED
    BY <1>0, <2>1, <2>3, Stay
<1>21. CASE t \in Process /\ DomainFlush(t)
  <2>1. /\ held' = held /\ th'[t].batch = th[t].batch /\ th'[t].n = th[t].n
        /\ \/ th'[t].pc = "fail"
           \/ th[t].pc # "fail" /\ (HasCur(t)' <=> HasCur(t))
    BY <1>0, <1>21
    DEF DomainFlush, Flush, Flushed, WaitFor, lockVars, ThreadState, HasCur,
        Seeking, Evicting
  <2> QED
    BY <1>0, <2>1, Stay
<1>22. CASE t \in Process /\ DomainWait(t)
  <2>1. /\ held' = held /\ th'[t].batch = th[t].batch /\ th'[t].n = th[t].n
        /\ \/ th'[t].pc = "fail"
           \/ th[t].pc # "fail" /\ (HasCur(t)' <=> HasCur(t))
    BY <1>0, <1>22
    DEF DomainWait, WaitFor, lockVars, ThreadState, HasCur, Seeking, Evicting
  <2> QED
    BY <1>0, <2>1, Stay
<1>23. CASE t \in Process /\ Domain(t)
  <2>1. /\ held' = held /\ th'[t].batch = th[t].batch /\ th'[t].n = th[t].n
        /\ \/ th'[t].pc = "fail"
           \/ th[t].pc # "fail" /\ (HasCur(t)' <=> HasCur(t))
    BY <1>0, <1>23
    DEF Domain, Goto, lockVars, ThreadState, HasCur, Seeking, Evicting
  <2> QED
    BY <1>0, <2>1, Stay
<1>24. CASE t \in Process /\ Done(t)
  <2>1. th'[t].n = 0 /\ ~HasCur(t)'
    BY <1>0, <1>24
    DEF Done, Exit, Counted, Unpinned, Released, Idle, ThreadState, HasCur,
        Seeking, Evicting
  <2>2. \A o \in Obj : held'[o] # t
    BY <1>0, <1>24 DEF Done, Exit, Counted, Unpinned, Released
  <2> QED
    BY <1>0, <2>1, <2>2, Gone
<1>25. ASSUME t \in Process, NEW w \in SUBSET Obj, Dispatch(t, w)
      PROVE  HoldExact(t)'
  <2>1. th'[t].n = 0 /\ ~HasCur(t)'
    BY <1>0, <1>25
    DEF Dispatch, Released, Held, Idle, ThreadState, HasCur, Seeking, Evicting
  <2>2. \A o \in Obj : held'[o] # t
    BY <1>0, <1>25 DEF Dispatch, Released, Held
  <2> QED
    BY <1>0, <2>1, <2>2, Gone
<1>26. CASE t \in Process /\ Retry(t)
  <2>1. th'[t].n = 0 /\ ~HasCur(t)'
    BY <1>0, <1>26
    DEF Retry, Retries, UnpinAll, Unpinned, Released, Idle, ThreadState,
        HasCur, Seeking, Evicting
  <2>2. \A o \in Obj : held'[o] # t
    BY <1>0, <1>26 DEF Retry, Retries, UnpinAll, Unpinned, Released
  <2> QED
    BY <1>0, <2>1, <2>2, Gone
<1>27. CASE t \in Process /\ Fail(t)
  <2>1. th'[t].n = 0 /\ ~HasCur(t)'
    BY <1>0, <1>27
    DEF Fail, Retries, UnpinAll, Unpinned, Released, Exit, Counted, Idle,
        ThreadState, HasCur, Seeking, Evicting
  <2>2. \A o \in Obj : held'[o] # t
    BY <1>0, <1>27
    DEF Fail, Retries, UnpinAll, Unpinned, Released, Exit, Counted
  <2> QED
    BY <1>0, <2>1, <2>2, Gone
<1>28. CASE t \in Process /\ LeaveStop(t)
  <2>1. CASE held' = held /\ th'[t] = Idle
    <3>1. th[t].n = 0 /\ ~HasCur(t) /\ th[t].pc # "fail"
      BY <1>0, <1>28
      DEF LeaveStop, Exit, Counted, Place, ThreadState, Ops, HasCur, Seeking,
          Evicting
    <3>2. th'[t].n = 0 /\ ~HasCur(t)'
      BY <2>1 DEF Idle, HasCur, Seeking, Evicting
    <3>3. PinnedBy(t) = {}
      BY <3>1 DEF PinnedBy
    <3>4. \A o \in Obj : held'[o] # t
      BY <1>0, <2>1, <3>1, <3>3 DEF HoldExact
    <3> QED
      BY <1>0, <3>2, <3>4, Gone
  <2>2. CASE ~(held' = held /\ th'[t] = Idle)
    <3>1. /\ held' = held /\ th'[t].batch = th[t].batch /\ th'[t].n = th[t].n
          /\ \/ th'[t].pc = "fail"
             \/ th[t].pc # "fail" /\ (HasCur(t)' <=> HasCur(t))
      BY <1>0, <2>2, <1>28
      DEF LeaveStop, Exit, Counted, ThreadState, HasCur, Seeking, Evicting
    <3> QED
      BY <1>0, <3>1, Stay
  <2> QED
    BY <2>1, <2>2
<1>29. ASSUME t \in Process, NEW op \in Ops, NEW d \in Seq(Obj),
              CallOK(op, d), Call(t, op, d)
      PROVE  HoldExact(t)'
  <2>1. held' = held /\ th'[t].n = 0 /\ ~HasCur(t)' /\ th[t].pc = "idle"
    BY <1>0, <1>29 DEF Call, Idle, lockVars, HasCur, Seeking, Evicting
  <2>2. th[t].n = 0 /\ ~HasCur(t)
    BY <1>0, <2>1 DEF Place, HasCur, Seeking, Evicting
  <2>3. PinnedBy(t) = {}
    BY <2>2 DEF PinnedBy
  <2>4. \A o \in Obj : held'[o] # t
    BY <1>0, <2>1, <2>2, <2>3 DEF HoldExact
  <2> QED
    BY <1>0, <2>1, <2>4, Gone
<1> QED
  BY <1>1, <1>2, <1>3, <1>4, <1>5, <1>6, <1>7, <1>8, <1>9, <1>10, <1>11,
     <1>12, <1>13, <1>14, <1>15, <1>16, <1>17, <1>18, <1>19, <1>20, <1>21,
     <1>22, <1>23, <1>24, <1>25, <1>26, <1>27, <1>28, <1>29,
     ApertureAssumption
  DEF Moves, Step, Search, Evict

\* Every step does, and leaves the others theirs.
LEMMA HoldsStep ==
  ASSUME StateTypes, Places, Holds, [Next]_vars
  PROVE  Holds'
<1>1. ASSUME NEW t \in Thread, held' = held, Counting(t) PROVE HoldExact(t)'
  <2>1. th \in [Thread -> ThreadState] /\ HoldExact(t)
    BY DEF StateTypes, Holds
  <2>2. th[t].pc = "fail" \/ (HasCur(t)' <=> HasCur(t))
    BY <1>1 DEF Counting, HasCur, Seeking, Evicting
  <2> QED
    BY <1>1, <2>1, <2>2, Stay DEF Counting
<1>2. ASSUME GpuStep \/ RetireWork \/ UNCHANGED vars PROVE Holds'
  <2>1. held' = held
    BY <1>2 DEF GpuStep, RetireWork, vars, lockVars
  <2> QED
    BY <1>1, <1>2, <2>1, Uncounted DEF Holds
<1>3. ASSUME NEW t \in Thread, Moves(t), NEW s \in Thread PROVE HoldExact(s)'
  <2>1. CASE s # t
    <3>1. th'[s] = th[s]
      BY <1>3, <2>1, OneMoves
    <3>2. /\ PinnedBy(s)' = PinnedBy(s) /\ Cur(s)' = Cur(s)
          /\ HasCur(s)' <=> HasCur(s)
      BY <3>1 DEF PinnedBy, Cur, HasCur
    <3>3. \A o \in Obj : held'[o] = s <=> held[o] = s
      BY <1>3, <2>1, OthersHold
    <3> QED
      BY <3>1, <3>2, <3>3 DEF Holds, HoldExact
  <2>2. CASE s = t /\ t \in Process
    BY <1>3, <2>2, OwnHold
  <2>3. CASE s = t /\ t = Power
    <3>0. /\ th \in [Thread -> ThreadState] /\ HoldExact(Power) /\ PowerPlace
          /\ t = Power
          /\ PowerPlace' /\ Power \in Thread
      BY <1>3, <2>3, PowerMoves DEF StateTypes, Holds, Places, Thread
    <3>1. held' = held
      BY <1>3, <2>3, ApertureAssumption
      DEF Moves, Suspend, Quiesce, Resume, Evict, InactiveUnbind, InactiveEnd,
          InactivePick, lockVars
    <3>2. /\ ~HasCur(Power) /\ ~HasCur(Power)' /\ th[Power].n = 0
          /\ th'[Power].n = 0
      BY <3>0 DEF PowerPlace, HasCur, Seeking, Evicting
    <3>3. PinnedBy(Power) = {}
      BY <3>2 DEF PinnedBy
    <3>4. \A o \in Obj : held'[o] # Power
      BY <3>0, <3>1, <3>2, <3>3 DEF HoldExact, PowerPlace
    <3> QED
      BY <2>3, <3>0, <3>2, <3>4, Gone
  <2> QED
    BY <2>1, <2>2, <2>3 DEF Thread
<1> QED
  BY <1>2, <1>3, Movers DEF Holds

-----------------------------------------------------------------------------
(* What they have pinned.                                                  *)

\* pread and pwrite unpin their object.
LEMMA DonePins ==
  ASSUME NEW t \in Process, Done(t), pins \in [Obj -> Int], Cur(t) \in Obj,
         NEW o \in Obj
  PROVE  pins'[o] = IF th[t].op = "access" /\ o = Cur(t) THEN pins[o] - 1
                   ELSE pins[o]
<1>1. CASE th[t].op = "access"
  BY <1>1 DEF Done
<1>2. CASE th[t].op # "access"
  BY <1>2 DEF Done
<1> QED
  BY <1>1, <1>2

\* What a step of t does to an object that t does not hold, before or after.
Foreign(t, o) ==
    held[o] # t /\ held'[o] # t => held'[o] = held[o] /\ pins'[o] = pins[o]

\* And to one that it does.
Own(t, o) ==
    held[o] = t \/ held'[o] = t =>
        pins'[o] = IF held'[o] = t /\ Pins(t, o)' THEN 1 ELSE 0

\* A thread that keeps its holds, and uses its object as before, keeps what
\* is pinned right.
LEMMA SamePins ==
  ASSUME NEW t \in Thread, HoldExact(t), PinExact, NEW o \in Obj,
         held' = held, pins' = pins, t \notin {None},
         th'[t].n = th[t].n, th'[t].batch = th[t].batch, th'[t].op = th[t].op,
         th[t].op # "access" \/ (Uses(t)' <=> Uses(t))
  PROVE  Foreign(t, o) /\ Own(t, o)
<1>1. PinnedBy(t)' = PinnedBy(t) /\ Cur(t)' = Cur(t)
  BY DEF PinnedBy, Cur
<1>2. Pins(t, o)' <=> Pins(t, o)
  BY <1>1 DEF Pins, Uses
<1>3. held[o] = t => pins[o] = IF Pins(t, o) THEN 1 ELSE 0
  BY DEF PinExact
<1> QED
  BY <1>2, <1>3 DEF Foreign, Own

\* A thread that gives back all that it holds unpins all that it has pinned.
LEMMA AllUnpinned ==
  ASSUME NEW t \in Thread, held \in [Obj -> Thread \cup {None}],
         None \notin Thread,
         PinExact, HoldExact(t), NEW o \in Obj,
         held' = Released(t), pins \in [Obj -> Int],
         pins'[o] = IF held[o] = t /\ Pins(t, o) THEN pins[o] - 1 ELSE pins[o]
  PROVE  Foreign(t, o) /\ Own(t, o)
<1>1. held'[o] = IF held[o] = t THEN None ELSE held[o]
  BY DEF Released
<1>2. held[o] = t => pins[o] = IF Pins(t, o) THEN 1 ELSE 0
  BY DEF PinExact
<1> QED
  BY <1>1, <1>2 DEF Foreign, Own

\* One that holds nothing has nothing pinned.
LEMMA NoneHeld ==
  ASSUME NEW t \in Thread, NEW o \in Obj, held' = held, pins' = pins,
         held[o] # t
  PROVE  Foreign(t, o) /\ Own(t, o)
BY DEF Foreign, Own

\* What it pins was not pinned before.
LEMMA PinCounts ==
  ASSUME NEW t \in Thread, th \in [Thread -> ThreadState], HoldExact(t),
         PinExact,
         pins \in [Obj -> Int], None \notin Thread,
         th[t].pc = "bind", Pin(t, Cur(t)), held' = held, NEW o \in Obj,
         HasCur(t), Cur(t) \in Obj, th[t].op \in {"exec", "access"}
  PROVE  Foreign(t, o) /\ Own(t, o)
<1>1. held[Cur(t)] = t /\ Cur(t) \notin PinnedBy(t) /\ th[t] \in ThreadState
  BY DEF HoldExact
<1>2. held[o] = t => pins[o] = IF Pins(t, o) THEN 1 ELSE 0
  BY DEF PinExact
<1>3. Pins(t, o) <=> o \in PinnedBy(t)
  BY DEF Pins, Uses
<1>4. pins'[o] = IF o = Cur(t) THEN pins[o] + 1 ELSE pins[o]
  BY DEF Pin
<1>5. held[o] = t <=> o \in PinnedBy(t) \/ o = Cur(t)
  BY DEF HoldExact
<1>6. CASE th[t].op = "exec"
  <2>1. /\ th'[t].n = th[t].n + 1 /\ th'[t].batch = th[t].batch
        /\ th'[t].op = "exec" /\ th[t].n \in Nat
    BY <1>1, <1>6, PinMore DEF ThreadState
  <2>2. 1..th'[t].n = 1..th[t].n \cup {th[t].n + 1}
    BY <2>1
  <2>3. PinnedBy(t)' = PinnedBy(t) \cup {Cur(t)}
    BY <2>1, <2>2 DEF PinnedBy, Cur
  <2>4. held[o] = t => Pins(t, o)'
    BY <1>5, <2>3 DEF Pins, Uses
  <2> QED
    BY <1>1, <1>2, <1>3, <1>4, <1>5, <2>4 DEF Foreign, Own
<1>7. CASE th[t].op # "exec"
  <2>1. /\ th'[t].n = th[t].n /\ th'[t].batch = th[t].batch
        /\ th'[t].op = th[t].op /\ th'[t].pc = "domain"
    BY <1>1, <1>7 DEF Pin, Goto, ThreadState
  <2>2. PinnedBy(t)' = PinnedBy(t) /\ Cur(t)' = Cur(t)
    BY <2>1 DEF PinnedBy, Cur
  <2>3. o \in PinnedBy(t) => Pins(t, o)'
    BY <2>2 DEF Pins, Uses
  <2>4. o = Cur(t) => (Pins(t, o)' <=> th[t].op = "access")
    BY <1>1, <2>1, <2>2 DEF Pins, Uses
  <2> QED
    BY <1>1, <1>2, <1>3, <1>4, <1>5, <2>3, <2>4, <1>7 DEF Foreign, Own
<1> QED
  BY <1>6, <1>7

\* So every step of a process counts its own pins, and leaves the others
\* alone.
LEMMA OwnPins ==
  ASSUME NEW t \in Process, StateTypes, Places, Holds, PinExact, NEW o \in
     Obj, Moves(t)
  PROVE  Foreign(t, o) /\ Own(t, o)
<1>0. /\ th \in [Thread -> ThreadState] /\ th[t] \in ThreadState
      /\ t \in Thread
      /\ Place(t) /\ HoldExact(t) /\ held \in [Obj -> Thread \cup {None}]
      /\ None \notin Thread /\ PinExact /\ pins \in [Obj -> Int]
  BY ApertureAssumption DEF StateTypes, Places, Holds, Thread
<1>1. CASE t \in Process /\ Gate(t)
  <2>1. /\ held' = held /\ pins' = pins
        /\ th'[t].n = th[t].n /\ th'[t].batch = th[t].batch
        /\ th'[t].op = th[t].op
        /\ th[t].op # "access" \/ (Uses(t)' <=> Uses(t))
    BY <1>0, <1>1 DEF Gate, Counted, Tried, Goto, ThreadState, Uses
  <2> QED
    BY <1>0, <2>1, SamePins
<1>2. CASE t \in Process /\ LockRead(t)
  <2>1. held' = held /\ pins' = pins
    BY <1>0, <1>2 DEF LockRead, Goto
  <2>2. th[t].n = 0 /\ ~HasCur(t) /\ th[t].pc # "fail"
    BY <1>0, <1>2
    DEF LockRead, Goto, Place, ThreadState, Ops, HasCur, Seeking, Evicting
  <2>3. held[o] # t
    BY <1>0, <2>2 DEF HoldExact, PinnedBy
  <2> QED
    BY <1>0, <2>1, <2>3, NoneHeld
<1>3. CASE t \in Process /\ LockExec(t)
  <2>1. held' = held /\ pins' = pins
    BY <1>0, <1>3 DEF LockExec, LockWrite, Exit, Counted, Goto
  <2>2. th[t].n = 0 /\ ~HasCur(t) /\ th[t].pc # "fail"
    BY <1>0, <1>3
    DEF LockExec, LockWrite, Exit, Counted, Goto, Place, ThreadState, Ops,
        HasCur, Seeking, Evicting
  <2>3. held[o] # t
    BY <1>0, <2>2 DEF HoldExact, PinnedBy
  <2> QED
    BY <1>0, <2>1, <2>3, NoneHeld
<1>4. CASE t \in Process /\ LockLeave(t)
  <2>1. held' = held /\ pins' = pins
    BY <1>0, <1>4 DEF LockLeave, LockWrite, Exit, Counted
  <2>2. th[t].n = 0 /\ ~HasCur(t) /\ th[t].pc # "fail"
    BY <1>0, <1>4
    DEF LockLeave, LockWrite, Exit, Counted, Place, ThreadState, Ops, HasCur,
        Seeking, Evicting
  <2>3. held[o] # t
    BY <1>0, <2>2 DEF HoldExact, PinnedBy
  <2> QED
    BY <1>0, <2>1, <2>3, NoneHeld
<1>5. CASE t \in Process /\ LockEnter(t)
  <2>1. held' = held /\ pins' = pins
    BY <1>0, <1>5 DEF LockEnter, LockWrite, Exit, Counted
  <2>2. th[t].n = 0 /\ ~HasCur(t) /\ th[t].pc # "fail"
    BY <1>0, <1>5
    DEF LockEnter, LockWrite, Exit, Counted, Place, ThreadState, Ops, HasCur,
        Seeking, Evicting
  <2>3. held[o] # t
    BY <1>0, <2>2 DEF HoldExact, PinnedBy
  <2> QED
    BY <1>0, <2>1, <2>3, NoneHeld
<1>6. CASE t \in Process /\ Hold(t)
  <2>1. /\ th[t].pc = "hold" /\ held[Cur(t)] = None /\ pins' = pins
        /\ held' = [held EXCEPT ![Cur(t)] = t]
        /\ th'[t].batch = th[t].batch /\ th'[t].n = th[t].n
        /\ th'[t].op = th[t].op
        /\ \/ th'[t].pc = "bind"
           \/ th'[t].pc = "domain" /\ th[t].op = "set_domain"
    BY <1>0, <1>6 DEF Hold, Goto, ThreadState
  <2>2. PinnedBy(t)' = PinnedBy(t) /\ Cur(t)' = Cur(t) /\ Cur(t) \in Obj
    BY <1>6, <2>1, CurObject DEF PinnedBy, Cur
  <2>3. ~HasCur(t)
    BY <2>1 DEF HasCur, Seeking, Evicting
  <2>4. held[o] = t <=> o \in PinnedBy(t)
    BY <1>0, <2>1, <2>3 DEF HoldExact
  <2>5. /\ Pins(t, o)' <=> o \in PinnedBy(t)
        /\ o \in PinnedBy(t) => Pins(t, o)
    BY <2>1, <2>2 DEF Pins, Uses
  <2>6. /\ held[o] = t => pins[o] = IF Pins(t, o) THEN 1 ELSE 0
        /\ held[o] = None => pins[o] = 0
    BY <1>0 DEF PinExact
  <2>7. held'[o] = IF o = Cur(t) THEN t ELSE held[o]
    BY <1>0, <2>1
  <2>8. CASE o = Cur(t)
    <3>1. pins[o] = 0 /\ o \notin PinnedBy(t)
      BY <1>0, <2>1, <2>4, <2>6, <2>8
    <3> QED
      BY <1>0, <2>1, <2>5, <2>7, <2>8, <3>1 DEF Foreign, Own
  <2>9. CASE o # Cur(t)
    <3>1. pins'[o] = pins[o] /\ held'[o] = held[o]
      BY <2>1, <2>7, <2>9
    <3>2. held[o] = t => pins[o] = 1 /\ Pins(t, o)'
      BY <1>0, <2>4, <2>5, <2>6
    <3> QED
      BY <3>1, <3>2 DEF Foreign, Own
  <2> QED
    BY <2>8, <2>9
<1>7. CASE t \in Process /\ Bind(t)
  <2>0. /\ th[t].pc = "bind" /\ held' = held /\ HasCur(t) /\ Cur(t) \in Obj
    BY <1>7, CurObject DEF Bind, lockVars, HasCur, Seeking
  <2>1. CASE Pin(t, Cur(t))
    <3>1. th[t].op # "fault"
      BY <1>0, <2>0, <2>1, <1>7 DEF Bind, Pin, Goto, ThreadState
    <3>2. th[t].op \in {"exec", "access"}
      BY <1>0, <2>0, <3>1 DEF Place, ThreadState, Ops, Evicting
    <3> QED
      BY <1>0, <2>0, <2>1, <3>2, PinCounts
  <2>2. CASE ~Pin(t, Cur(t))
    <3>1. /\ th'[t].batch = th[t].batch /\ th'[t].n = th[t].n
          /\ th'[t].op = th[t].op
          /\ pins' = pins
          /\ (th'[t].pc = "fail" \/ th[t].op = "fault")
      BY <1>0, <2>2, <1>7 DEF Bind, PinFails, Goto, ThreadState
    <3> QED
      BY <1>0, <2>0, <3>1, SamePins DEF Uses
  <2> QED
    BY <2>1, <2>2
<1>8. CASE t \in Process /\ BindFull(t)
  <2>1. /\ held' = held /\ pins' = pins
        /\ th'[t].n = th[t].n /\ th'[t].batch = th[t].batch
        /\ th'[t].op = th[t].op
        /\ th[t].op # "access" \/ (Uses(t)' <=> Uses(t))
    BY <1>0, <1>8 DEF BindFull, lockVars, ThreadState, Uses
  <2> QED
    BY <1>0, <2>1, SamePins
<1>9. CASE t \in Process /\ SearchRetire(t)
  <2>1. /\ held' = held /\ pins' = pins
        /\ th'[t].n = th[t].n /\ th'[t].batch = th[t].batch
        /\ th'[t].op = th[t].op
        /\ th[t].op # "access" \/ (Uses(t)' <=> Uses(t))
    BY <1>0, <1>9 DEF SearchRetire, Retire, Goto, lockVars, ThreadState, Uses
  <2> QED
    BY <1>0, <2>1, SamePins
<1>10. CASE t \in Process /\ FindWait(t)
  <2>1. /\ held' = held /\ pins' = pins
        /\ th'[t].n = th[t].n /\ th'[t].batch = th[t].batch
        /\ th'[t].op = th[t].op
        /\ th[t].op # "access" \/ (Uses(t)' <=> Uses(t))
    BY <1>0, <1>10
    DEF FindWait, NotFound, WaitFor, lockVars, ThreadState, Uses
  <2> QED
    BY <1>0, <2>1, SamePins
<1>11. CASE t \in Process /\ FindFlush(t)
  <2>1. /\ held' = held /\ pins' = pins
        /\ th'[t].n = th[t].n /\ th'[t].batch = th[t].batch
        /\ th'[t].op = th[t].op
        /\ th[t].op # "access" \/ (Uses(t)' <=> Uses(t))
    BY <1>0, <1>11
    DEF FindFlush, NotFound, Flush, Flushed, lockVars, ThreadState, Uses
  <2> QED
    BY <1>0, <2>1, SamePins
<1>12. CASE t \in Process /\ FindEvict(t)
  <2>1. /\ held' = held /\ pins' = pins
        /\ th'[t].n = th[t].n /\ th'[t].batch = th[t].batch
        /\ th'[t].op = th[t].op
        /\ th[t].op # "access" \/ (Uses(t)' <=> Uses(t))
    BY <1>0, <1>12 DEF FindEvict, NotFound, lockVars, ThreadState, Uses
  <2> QED
    BY <1>0, <2>1, SamePins
<1>13. ASSUME t \in Process, NEW b \in Obj, FindInactive(t, b)
      PROVE  Foreign(t, o) /\ Own(t, o)
  <2>1. /\ held' = held /\ pins' = pins
        /\ th'[t].n = th[t].n /\ th'[t].batch = th[t].batch
        /\ th'[t].op = th[t].op
        /\ th[t].op # "access" \/ (Uses(t)' <=> Uses(t))
    BY <1>0, <1>13 DEF FindInactive, Goto, lockVars, ThreadState, Uses
  <2> QED
    BY <1>0, <2>1, SamePins
<1>14. CASE InactiveUnbind(t)
  <2>1. /\ held' = held /\ pins' = pins
        /\ th'[t].n = th[t].n /\ th'[t].batch = th[t].batch
        /\ th'[t].op = th[t].op
        /\ th[t].op # "access" \/ (Uses(t)' <=> Uses(t))
    BY <1>0, <1>14 DEF InactiveUnbind, lockVars, ThreadState, Uses
  <2> QED
    BY <1>0, <2>1, SamePins
<1>15. CASE InactiveEnd(t)
  <2>1. /\ held' = held /\ pins' = pins
        /\ th'[t].n = th[t].n /\ th'[t].batch = th[t].batch
        /\ th'[t].op = th[t].op
        /\ th'[t].pc = th[t].then /\ th[t].pc = "inactive"
    BY <1>0, <1>15 DEF InactiveEnd, lockVars, ThreadState
  <2>2. th[t].then \in {"stop", "hold", "bind"}
    BY <1>0, <2>1 DEF Place, Evicting
  <2> QED
    BY <1>0, <2>1, <2>2, SamePins DEF Uses
<1>16. ASSUME NEW b \in Obj, InactivePick(t, b)
      PROVE  Foreign(t, o) /\ Own(t, o)
  <2>1. /\ held' = held /\ pins' = pins
        /\ th'[t].n = th[t].n /\ th'[t].batch = th[t].batch
        /\ th'[t].op = th[t].op
        /\ th[t].op # "access" \/ (Uses(t)' <=> Uses(t))
    BY <1>0, <1>16 DEF InactivePick, lockVars, ThreadState, Uses
  <2> QED
    BY <1>0, <2>1, SamePins
<1>17. CASE t \in Process /\ EverythingGone(t)
  <2>1. /\ held' = held /\ pins' = pins
        /\ th'[t].n = th[t].n /\ th'[t].batch = th[t].batch
        /\ th'[t].op = th[t].op
        /\ th[t].op # "access" \/ (Uses(t)' <=> Uses(t))
    BY <1>0, <1>17 DEF EverythingGone, lockVars, ThreadState, Uses
  <2> QED
    BY <1>0, <2>1, SamePins
<1>18. CASE t \in Process /\ EverythingFlush(t)
  <2>1. /\ held' = held /\ pins' = pins
        /\ th'[t].n = th[t].n /\ th'[t].batch = th[t].batch
        /\ th'[t].op = th[t].op
        /\ th[t].op # "access" \/ (Uses(t)' <=> Uses(t))
    BY <1>0, <1>18
    DEF EverythingFlush, Flush, Flushed, lockVars, ThreadState, Uses
  <2> QED
    BY <1>0, <2>1, SamePins
<1>19. CASE t \in Process /\ EverythingIdle(t)
  <2>1. /\ held' = held /\ pins' = pins
        /\ th'[t].n = th[t].n /\ th'[t].batch = th[t].batch
        /\ th'[t].op = th[t].op
        /\ th[t].op # "access" \/ (Uses(t)' <=> Uses(t))
    BY <1>0, <1>19
    DEF EverythingIdle, Retire, Goto, lockVars, ThreadState, Uses
  <2> QED
    BY <1>0, <2>1, SamePins
<1>20. CASE t \in Process /\ Wait(t)
  <2>1. /\ held' = held /\ pins' = pins
        /\ th'[t].n = th[t].n /\ th'[t].batch = th[t].batch
        /\ th'[t].op = th[t].op
        /\ th'[t].pc = th[t].then /\ th[t].pc = "wait"
    BY <1>0, <1>20 DEF Wait, Goto, lockVars, ThreadState
  <2>2. th[t].then \in {"search", "done"}
    BY <1>0, <2>1 DEF Place
  <2> QED
    BY <1>0, <2>1, <2>2, SamePins DEF Uses
<1>21. CASE t \in Process /\ DomainFlush(t)
  <2>1. /\ held' = held /\ pins' = pins
        /\ th'[t].n = th[t].n /\ th'[t].batch = th[t].batch
        /\ th'[t].op = th[t].op
        /\ th[t].op # "access" \/ (Uses(t)' <=> Uses(t))
    BY <1>0, <1>21
    DEF DomainFlush, Flush, Flushed, WaitFor, lockVars, ThreadState, Uses
  <2> QED
    BY <1>0, <2>1, SamePins
<1>22. CASE t \in Process /\ DomainWait(t)
  <2>1. /\ held' = held /\ pins' = pins
        /\ th'[t].n = th[t].n /\ th'[t].batch = th[t].batch
        /\ th'[t].op = th[t].op
        /\ th[t].op # "access" \/ (Uses(t)' <=> Uses(t))
    BY <1>0, <1>22 DEF DomainWait, WaitFor, lockVars, ThreadState, Uses
  <2> QED
    BY <1>0, <2>1, SamePins
<1>23. CASE t \in Process /\ Domain(t)
  <2>1. /\ held' = held /\ pins' = pins
        /\ th'[t].n = th[t].n /\ th'[t].batch = th[t].batch
        /\ th'[t].op = th[t].op
        /\ th[t].op # "access" \/ (Uses(t)' <=> Uses(t))
    BY <1>0, <1>23 DEF Domain, Goto, lockVars, ThreadState, Uses
  <2> QED
    BY <1>0, <2>1, SamePins
<1>24. CASE t \in Process /\ Done(t)
  <2>1. /\ th[t].pc = "done" /\ held' = Released(t) /\ HasCur(t)
    BY <1>24 DEF Done, HasCur
  <2>2. th[t].n = 0 /\ Cur(t) \in Obj
    BY <1>0, <2>1, <1>24, CurObject DEF Place, ThreadState, Ops
  <2>3. PinnedBy(t) = {}
    BY <2>2 DEF PinnedBy
  <2>4. held[o] = t <=> o = Cur(t)
    BY <1>0, <2>1, <2>3 DEF HoldExact
  <2>5. held[o] = t => (Pins(t, o) <=> th[t].op = "access")
    BY <2>1, <2>3, <2>4 DEF Pins, Uses
  <2>6. pins'[o] = IF held[o] = t /\ Pins(t, o) THEN pins[o] - 1 ELSE pins[o]
    BY <1>0, <1>24, <2>2, <2>4, <2>5, DonePins
  <2> QED
    BY <1>0, <2>1, <2>6, AllUnpinned
<1>25. ASSUME t \in Process, NEW w \in SUBSET Obj, Dispatch(t, w)
      PROVE  Foreign(t, o) /\ Own(t, o)
  <2>1. /\ th[t].pc = "dispatch" /\ held' = Released(t)
        /\ pins'[o] = IF held[o] = t THEN pins[o] - 1 ELSE pins[o]
    BY <1>25 DEF Dispatch, Held
  <2>2. ~HasCur(t)
    BY <2>1 DEF HasCur, Seeking, Evicting
  <2>3. held[o] = t => Pins(t, o)
    BY <1>0, <2>1, <2>2 DEF HoldExact, Pins
  <2>4. pins'[o] = IF held[o] = t /\ Pins(t, o) THEN pins[o] - 1 ELSE pins[o]
    BY <2>1, <2>3
  <2> QED
    BY <1>0, <2>1, <2>4, AllUnpinned
<1>26. CASE t \in Process /\ Retry(t)
  <2>1. /\ th[t].pc = "fail" /\ held' = Released(t)
        /\ pins'[o] = IF o \in PinnedBy(t) THEN pins[o] - 1 ELSE pins[o]
    BY <1>26 DEF Retry, UnpinAll
  <2>2. o \in PinnedBy(t) => held[o] = t
    BY <1>0, <2>1 DEF HoldExact
  <2>3. Pins(t, o) <=> o \in PinnedBy(t)
    BY <2>1 DEF Pins, Uses
  <2>4. pins'[o] = IF held[o] = t /\ Pins(t, o) THEN pins[o] - 1 ELSE pins[o]
    BY <2>1, <2>2, <2>3
  <2> QED
    BY <1>0, <2>1, <2>4, AllUnpinned
<1>27. CASE t \in Process /\ Fail(t)
  <2>1. /\ th[t].pc = "fail" /\ held' = Released(t)
        /\ pins'[o] = IF o \in PinnedBy(t) THEN pins[o] - 1 ELSE pins[o]
    BY <1>27 DEF Fail, UnpinAll
  <2>2. o \in PinnedBy(t) => held[o] = t
    BY <1>0, <2>1 DEF HoldExact
  <2>3. Pins(t, o) <=> o \in PinnedBy(t)
    BY <2>1 DEF Pins, Uses
  <2>4. pins'[o] = IF held[o] = t /\ Pins(t, o) THEN pins[o] - 1 ELSE pins[o]
    BY <2>1, <2>2, <2>3
  <2> QED
    BY <1>0, <2>1, <2>4, AllUnpinned
<1>28. CASE t \in Process /\ LeaveStop(t)
  <2>1. held' = held /\ pins' = pins
    BY <1>0, <1>28 DEF LeaveStop, Exit, Counted
  <2>2. th[t].n = 0 /\ ~HasCur(t) /\ th[t].pc # "fail"
    BY <1>0, <1>28
    DEF LeaveStop, Exit, Counted, Place, ThreadState, Ops, HasCur, Seeking,
        Evicting
  <2>3. held[o] # t
    BY <1>0, <2>2 DEF HoldExact, PinnedBy
  <2> QED
    BY <1>0, <2>1, <2>3, NoneHeld
<1>29. ASSUME t \in Process, NEW op \in Ops, NEW d \in Seq(Obj),
              CallOK(op, d), Call(t, op, d)
      PROVE  Foreign(t, o) /\ Own(t, o)
  <2>1. held' = held /\ pins' = pins
    BY <1>0, <1>29 DEF Call, lockVars
  <2>2. th[t].n = 0 /\ ~HasCur(t) /\ th[t].pc # "fail"
    BY <1>0, <1>29
    DEF Call, Place, ThreadState, Ops, HasCur, Seeking, Evicting
  <2>3. held[o] # t
    BY <1>0, <2>2 DEF HoldExact, PinnedBy
  <2> QED
    BY <1>0, <2>1, <2>3, NoneHeld
<1> QED
  BY <1>1, <1>2, <1>3, <1>4, <1>5, <1>6, <1>7, <1>8, <1>9, <1>10, <1>11,
     <1>12, <1>13, <1>14, <1>15, <1>16, <1>17, <1>18, <1>19, <1>20, <1>21,
     <1>22, <1>23, <1>24, <1>25, <1>26, <1>27, <1>28, <1>29,
     ApertureAssumption
  DEF Moves, Step, Search, Evict

\* An object that t held is t's or nobody's afterwards.
GivesBack(t) ==
    \A o \in Obj : held[o] = t => held'[o] = t \/ held'[o] \notin Thread

\* Every step of t is such.
LEMMA GivenBack ==
  ASSUME StateTypes, Places, NEW t \in Thread, Moves(t)
  PROVE  GivesBack(t)
<1>0. held \in [Obj -> Thread \cup {None}] /\ None \notin Thread
  BY ApertureAssumption DEF StateTypes, Thread
<1>1. CASE held' = held
  BY <1>1 DEF GivesBack
<1>2. CASE held' = Released(t)
  BY <1>0, <1>2 DEF Released, GivesBack
<1>3. CASE t \in Process /\ Hold(t)
  <2>1. /\ Cur(t) \in Obj /\ held[Cur(t)] = None
        /\ held' = [held EXCEPT ![Cur(t)] = t]
    BY <1>3, CurObject DEF Hold
  <2> QED
    BY <1>0, <2>1 DEF GivesBack
<1> QED
  BY <1>1, <1>2, <1>3, HeldMoves

\* The thread that suspends holds nothing.
LEMMA PowerHolds ==
  ASSUME StateTypes, Places, Holds, NEW o \in Obj
  PROVE  held[o] # Power
<1>0. HoldExact(Power) /\ PowerPlace
  BY DEF Holds, Places, Thread
<1>1. ~HasCur(Power) /\ th[Power].n = 0 /\ th[Power].pc # "fail"
  BY <1>0 DEF PowerPlace, HasCur, Seeking, Evicting
<1>2. PinnedBy(Power) = {}
  BY <1>1 DEF PinnedBy
<1> QED
  BY <1>0, <1>1, <1>2 DEF HoldExact

\* Every step keeps the pins exact.
LEMMA PinExactStep ==
  ASSUME StateTypes, Places, Holds, PinExact, [Next]_vars
  PROVE  PinExact'
<1>1. ASSUME GpuStep \/ RetireWork \/ UNCHANGED vars PROVE PinExact'
  <2>1. held' = held /\ pins' = pins
    BY <1>1 DEF GpuStep, RetireWork, vars, lockVars
  <2>2. ASSUME NEW s \in Thread,
               NEW o \in Obj PROVE Pins(s, o)' <=> Pins(s, o)
    <3>1. Counting(s)
      BY <1>1, Uncounted
    <3> QED
      BY <3>1 DEF Counting, Pins, Uses, PinnedBy, Cur
  <2> QED
    BY <2>1, <2>2 DEF PinExact
<1>2. ASSUME NEW t \in Thread, Moves(t), NEW o \in Obj
      PROVE  /\ \A s \in Thread : held'[o] = s =>
                  pins'[o] = IF Pins(s, o)' THEN 1 ELSE 0
             /\ held'[o] = None => pins'[o] = 0
  <2>1. Foreign(t, o) /\ Own(t, o)
    <3>1. CASE t \in Process
      BY <1>2, <3>1, OwnPins
    <3>2. CASE t = Power
      <4>1. held' = held /\ pins' = pins
        BY <1>2, <3>2, ApertureAssumption
        DEF Moves, Suspend, Quiesce, Resume, Evict, InactiveUnbind,
            InactiveEnd, InactivePick, lockVars
      <4>2. held[o] # t
        BY <3>2, PowerHolds
      <4> QED
        BY <1>2, <4>1, <4>2, NoneHeld
    <3> QED
      BY <3>1, <3>2 DEF Thread
  <2>0. None \notin Thread
    BY ApertureAssumption DEF Thread
  <2>2. CASE held[o] = t \/ held'[o] = t
    <3>1. held'[o] = t \/ held'[o] \notin Thread
      <4>1. GivesBack(t)
        BY <1>2, GivenBack
      <4> QED
        BY <1>2, <2>2, <4>1 DEF GivesBack
    <3>2. CASE held'[o] = t
      BY <2>0, <2>1, <3>2, <1>2 DEF Own
    <3>3. CASE held'[o] \notin Thread
      <4>1. pins'[o] = 0
        BY <1>2, <2>1, <2>2, <3>3 DEF Own
      <4> QED
        BY <3>3, <4>1
    <3> QED
      BY <3>1, <3>2, <3>3
  <2>3. CASE held[o] # t /\ held'[o] # t
    <3>1. held'[o] = held[o] /\ pins'[o] = pins[o]
      BY <2>1, <2>3 DEF Foreign
    <3>2. ASSUME NEW s \in Thread,
                 held'[o] = s PROVE pins'[o] = IF Pins(s, o)' THEN 1 ELSE 0
      <4>1. th'[s] = th[s]
        BY <1>2, <2>3, <3>2, OneMoves
      <4>2. Pins(s, o)' <=> Pins(s, o)
        BY <4>1 DEF Pins, Uses, PinnedBy, Cur
      <4>3. pins[o] = IF Pins(s, o) THEN 1 ELSE 0
        BY <3>1, <3>2 DEF PinExact
      <4> QED
        BY <3>1, <4>2, <4>3
    <3>3. held'[o] = None => pins'[o] = 0
      BY <3>1 DEF PinExact
    <3> QED
      BY <3>2, <3>3
  <2> QED
    BY <2>2, <2>3
<1> QED
  BY <1>1, <1>2, Movers DEF PinExact

-----------------------------------------------------------------------------
(* dev_lock.                                                               *)

\* Only t itself takes dev_lock for t, and only t gives it back.
LockKept(t) ==
    \A s \in Thread \ {t} :
      (s \in readers' <=> s \in readers) /\ (writer' = s <=> writer = s)

\* And it does so where it should.
LockOwn(t) ==
    /\ Locked(t)' /\ LockKept(t) /\ writer' # Power
    /\ readers' = {} \/ writer' = None

\* This holds for a step that does not touch the lock,
LEMMA SameLock ==
  ASSUME NEW t \in Process, Locked(t), writer # Power,
         readers = {} \/ writer = None,
         writer' = writer, readers' = readers, th'[t].op = th[t].op,
         th[t].pc \in Waiting => th'[t].pc \in Waiting,
         th[t].pc \notin Waiting => th'[t].pc \notin Waiting
  PROVE  LockOwn(t)
BY DEF LockOwn, LockKept, Locked

\* for one that gives it back,
LEMMA FreedLock ==
  ASSUME NEW t \in Process, Locked(t), writer # Power,
         readers = {} \/ writer = None,
         None \notin Thread, Power \in Thread, t \in Thread,
         writer' = IF writer = t THEN None ELSE writer,
         readers' = readers \ {t},
         th'[t] = Idle
  PROVE  LockOwn(t)
<1>1. /\ Locked(t)'
      /\ writer' # t /\ (writer' = writer \/ writer' = None)
  BY DEF Locked, Idle, Waiting
<1>2. LockKept(t)
  BY DEF LockKept
<1> QED
  BY <1>1, <1>2 DEF LockOwn

\* and for every step of a process.
LEMMA OwnLocks ==
  ASSUME NEW t \in Process, StateTypes, Places, Locks, Moves(t)
  PROVE  LockOwn(t)
<1>0. /\ th \in [Thread -> ThreadState] /\ th[t] \in ThreadState
      /\ t \in Thread
      /\ Place(t) /\ Locked(t) /\ writer # Power
      /\ (readers = {} \/ writer = None)
      /\ writer \in Thread \cup {None} /\ readers \subseteq Thread
      /\ None \notin Thread /\ t # None /\ t # Power /\ Power \in Thread
  BY ApertureAssumption DEF StateTypes, Places, Locks, Thread
<1>1. CASE t \in Process /\ Gate(t)
  <2>1. /\ writer' = writer /\ th[t].pc = "gate" /\ th'[t].op = th[t].op
        /\ th'[t].pc \in {"hold", "lock"}
    BY <1>0, <1>1 DEF Gate, Goto, ThreadState
  <2>2. /\ Tried(t) => /\ th[t].op = "fault" /\ writer = None
                       /\ readers' = readers \cup {t}
        /\ ~Tried(t) => readers' = readers
        /\ ~Tried(t) /\ th'[t].pc = "hold" => th[t].op = "set_domain"
    BY <1>0, <1>1 DEF Gate, Goto, Tried, ThreadState
  <2>3. writer # t
    BY <1>0, <2>1 DEF Locked, Waiting
  <2>4. CASE Tried(t)
    <3>1. /\ writer' = None /\ readers' = readers \cup {t}
          /\ th'[t].op = "fault"
          /\ writer = None
      BY <2>1, <2>2, <2>4
    <3> QED
      BY <1>0, <3>1 DEF LockOwn, LockKept, Locked
  <2>5. CASE ~Tried(t)
    <3>1. th'[t].pc = "lock" \/ th'[t].op = "set_domain"
      BY <2>1, <2>2, <2>5
    <3>2. Locked(t)'
      BY <1>0, <2>1, <2>3, <3>1 DEF Locked, Waiting
    <3> QED
      BY <1>0, <2>1, <2>2, <2>5, <3>2 DEF LockOwn, LockKept
  <2> QED
    BY <2>4, <2>5
<1>2. CASE t \in Process /\ LockRead(t)
  <2>1. /\ writer' = writer /\ writer = None /\ readers' = readers \cup {t}
    BY <1>0, <1>2 DEF LockRead
  <2>2. \/ th'[t].op \in {"fault", "access"}
        \/ th'[t].pc = "idle" /\ th'[t].op = "none"
    BY <1>0, <1>2 DEF LockRead, Goto, Idle, ThreadState
  <2> QED
    BY <1>0, <2>1, <2>2 DEF LockOwn, LockKept, Locked
<1>3. CASE t \in Process /\ LockExec(t)
  <2>1. /\ th[t].pc = "lock" /\ th[t].op = "exec" /\ writer = None
        /\ readers = {}
    BY <1>0, <1>3 DEF LockExec, LockWrite
  <2>2. CASE /\ writer' = t /\ readers' = readers
             /\ th'[t].op = "exec" /\ th'[t].pc = "hold"
    BY <1>0, <2>1, <2>2 DEF LockOwn, LockKept, Locked, Waiting
  <2>3. CASE /\ writer' = IF writer = t THEN None ELSE writer
             /\ readers' = readers \ {t} /\ th'[t] = Idle
    BY <1>0, <1>3, <2>3, FreedLock
  <2> QED
    BY <1>0, <1>3, <2>1, <2>2, <2>3 DEF LockExec, Exit, Goto, ThreadState
<1>4. CASE t \in Process /\ LockLeave(t)
  <2>1. /\ th[t].pc = "lock" /\ th[t].op = "leave" /\ writer = None
        /\ readers = {}
    BY <1>0, <1>4 DEF LockLeave, LockWrite
  <2>2. CASE /\ writer' = t /\ readers' = readers
             /\ th'[t].op = "leave" /\ th'[t].pc = "everything"
    BY <1>0, <2>1, <2>2 DEF LockOwn, LockKept, Locked, Waiting
  <2>3. CASE /\ writer' = IF writer = t THEN None ELSE writer
             /\ readers' = readers \ {t} /\ th'[t] = Idle
    BY <1>0, <1>4, <2>3, FreedLock
  <2> QED
    BY <1>0, <1>4, <2>1, <2>2, <2>3 DEF LockLeave, Exit, ThreadState
<1>5. CASE t \in Process /\ LockEnter(t)
  <2>1. /\ writer' = IF writer = t THEN None ELSE writer
        /\ readers' = readers \ {t} /\ th'[t] = Idle
    BY <1>0, <1>5 DEF LockEnter, LockWrite, Exit, Counted
  <2> QED
    BY <1>0, <1>5, <2>1, FreedLock
<1>6. CASE t \in Process /\ Hold(t)
  <2>1. /\ writer' = writer /\ readers' = readers /\ th'[t].op = th[t].op
        /\ th[t].pc \in Waiting => th'[t].pc \in Waiting
        /\ th[t].pc \notin Waiting => th'[t].pc \notin Waiting
    BY <1>0, <1>6 DEF Hold, Goto, ThreadState, Waiting
  <2> QED
    BY <1>0, <1>6, <2>1, SameLock
<1>7. CASE t \in Process /\ Bind(t)
  <2>1. /\ writer' = writer /\ readers' = readers /\ th'[t].op = th[t].op
        /\ th[t].pc \in Waiting => th'[t].pc \in Waiting
        /\ th[t].pc \notin Waiting => th'[t].pc \notin Waiting
    BY <1>0, <1>7
    DEF Bind, Pin, PinFails, Faulted, Goto, lockVars, ThreadState, Waiting
  <2> QED
    BY <1>0, <1>7, <2>1, SameLock
<1>8. CASE t \in Process /\ BindFull(t)
  <2>1. /\ writer' = writer /\ readers' = readers /\ th'[t].op = th[t].op
        /\ th[t].pc \in Waiting => th'[t].pc \in Waiting
        /\ th[t].pc \notin Waiting => th'[t].pc \notin Waiting
    BY <1>0, <1>8 DEF BindFull, lockVars, ThreadState, Waiting
  <2> QED
    BY <1>0, <1>8, <2>1, SameLock
<1>9. CASE t \in Process /\ SearchRetire(t)
  <2>1. /\ writer' = writer /\ readers' = readers /\ th'[t].op = th[t].op
        /\ th[t].pc \in Waiting => th'[t].pc \in Waiting
        /\ th[t].pc \notin Waiting => th'[t].pc \notin Waiting
    BY <1>0, <1>9
    DEF SearchRetire, Retire, Goto, lockVars, ThreadState, Waiting
  <2> QED
    BY <1>0, <1>9, <2>1, SameLock
<1>10. CASE t \in Process /\ FindWait(t)
  <2>1. /\ writer' = writer /\ readers' = readers /\ th'[t].op = th[t].op
        /\ th[t].pc \in Waiting => th'[t].pc \in Waiting
        /\ th[t].pc \notin Waiting => th'[t].pc \notin Waiting
    BY <1>0, <1>10
    DEF FindWait, NotFound, WaitFor, lockVars, ThreadState, Waiting
  <2> QED
    BY <1>0, <1>10, <2>1, SameLock
<1>11. CASE t \in Process /\ FindFlush(t)
  <2>1. /\ writer' = writer /\ readers' = readers /\ th'[t].op = th[t].op
        /\ th[t].pc \in Waiting => th'[t].pc \in Waiting
        /\ th[t].pc \notin Waiting => th'[t].pc \notin Waiting
    BY <1>0, <1>11
    DEF FindFlush, NotFound, Flush, Flushed, lockVars, ThreadState, Waiting
  <2> QED
    BY <1>0, <1>11, <2>1, SameLock
<1>12. CASE t \in Process /\ FindEvict(t)
  <2>1. /\ writer' = writer /\ readers' = readers /\ th'[t].op = th[t].op
        /\ th[t].pc \in Waiting => th'[t].pc \in Waiting
        /\ th[t].pc \notin Waiting => th'[t].pc \notin Waiting
    BY <1>0, <1>12 DEF FindEvict, NotFound, lockVars, ThreadState, Waiting
  <2> QED
    BY <1>0, <1>12, <2>1, SameLock
<1>13. ASSUME t \in Process, NEW b \in Obj, FindInactive(t, b)
      PROVE  LockOwn(t)
  <2>1. /\ writer' = writer /\ readers' = readers /\ th'[t].op = th[t].op
        /\ th[t].pc \in Waiting => th'[t].pc \in Waiting
        /\ th[t].pc \notin Waiting => th'[t].pc \notin Waiting
    BY <1>0, <1>13 DEF FindInactive, Goto, lockVars, ThreadState, Waiting
  <2> QED
    BY <1>0, <1>13, <2>1, SameLock
<1>14. CASE InactiveUnbind(t)
  <2>1. /\ writer' = writer /\ readers' = readers /\ th'[t].op = th[t].op
        /\ th[t].pc \in Waiting => th'[t].pc \in Waiting
        /\ th[t].pc \notin Waiting => th'[t].pc \notin Waiting
    BY <1>0, <1>14 DEF InactiveUnbind, lockVars, ThreadState, Waiting
  <2> QED
    BY <1>0, <1>14, <2>1, SameLock
<1>15. CASE InactiveEnd(t)
  <2>1. /\ writer' = writer /\ readers' = readers /\ th'[t].op = th[t].op
        /\ th'[t].pc = th[t].then /\ th[t].pc = "inactive"
    BY <1>0, <1>15 DEF InactiveEnd, lockVars, ThreadState
  <2>2. th[t].then \in {"stop", "hold", "bind"}
    BY <1>0, <2>1 DEF Place, Evicting
  <2>3. th[t].pc \notin Waiting /\ th'[t].pc \notin Waiting
    BY <2>1, <2>2 DEF Waiting
  <2> QED
    BY <1>0, <2>1, <2>3, SameLock
<1>16. ASSUME NEW b \in Obj, InactivePick(t, b)
      PROVE  LockOwn(t)
  <2>1. /\ writer' = writer /\ readers' = readers /\ th'[t].op = th[t].op
        /\ th[t].pc \in Waiting => th'[t].pc \in Waiting
        /\ th[t].pc \notin Waiting => th'[t].pc \notin Waiting
    BY <1>0, <1>16 DEF InactivePick, lockVars, ThreadState, Waiting
  <2> QED
    BY <1>0, <1>16, <2>1, SameLock
<1>17. CASE t \in Process /\ EverythingGone(t)
  <2>1. /\ writer' = writer /\ readers' = readers /\ th'[t].op = th[t].op
        /\ th[t].pc \in Waiting => th'[t].pc \in Waiting
        /\ th[t].pc \notin Waiting => th'[t].pc \notin Waiting
    BY <1>0, <1>17 DEF EverythingGone, lockVars, ThreadState, Waiting
  <2> QED
    BY <1>0, <1>17, <2>1, SameLock
<1>18. CASE t \in Process /\ EverythingFlush(t)
  <2>1. /\ writer' = writer /\ readers' = readers /\ th'[t].op = th[t].op
        /\ th[t].pc \in Waiting => th'[t].pc \in Waiting
        /\ th[t].pc \notin Waiting => th'[t].pc \notin Waiting
    BY <1>0, <1>18
    DEF EverythingFlush, Flush, Flushed, lockVars, ThreadState, Waiting
  <2> QED
    BY <1>0, <1>18, <2>1, SameLock
<1>19. CASE t \in Process /\ EverythingIdle(t)
  <2>1. /\ writer' = writer /\ readers' = readers /\ th'[t].op = th[t].op
        /\ th[t].pc \in Waiting => th'[t].pc \in Waiting
        /\ th[t].pc \notin Waiting => th'[t].pc \notin Waiting
    BY <1>0, <1>19
    DEF EverythingIdle, Retire, Goto, lockVars, ThreadState, Waiting
  <2> QED
    BY <1>0, <1>19, <2>1, SameLock
<1>20. CASE t \in Process /\ Wait(t)
  <2>1. /\ writer' = writer /\ readers' = readers /\ th'[t].op = th[t].op
        /\ th'[t].pc = th[t].then /\ th[t].pc = "wait"
    BY <1>0, <1>20 DEF Wait, Goto, lockVars, ThreadState
  <2>2. th[t].then \in {"search", "done"}
    BY <1>0, <2>1 DEF Place
  <2>3. th[t].pc \notin Waiting /\ th'[t].pc \notin Waiting
    BY <2>1, <2>2 DEF Waiting
  <2> QED
    BY <1>0, <1>20, <2>1, <2>3, SameLock
<1>21. CASE t \in Process /\ DomainFlush(t)
  <2>1. /\ writer' = writer /\ readers' = readers /\ th'[t].op = th[t].op
        /\ th[t].pc \in Waiting => th'[t].pc \in Waiting
        /\ th[t].pc \notin Waiting => th'[t].pc \notin Waiting
    BY <1>0, <1>21
    DEF DomainFlush, Flush, Flushed, WaitFor, lockVars, ThreadState, Waiting
  <2> QED
    BY <1>0, <1>21, <2>1, SameLock
<1>22. CASE t \in Process /\ DomainWait(t)
  <2>1. /\ writer' = writer /\ readers' = readers /\ th'[t].op = th[t].op
        /\ th[t].pc \in Waiting => th'[t].pc \in Waiting
        /\ th[t].pc \notin Waiting => th'[t].pc \notin Waiting
    BY <1>0, <1>22 DEF DomainWait, WaitFor, lockVars, ThreadState, Waiting
  <2> QED
    BY <1>0, <1>22, <2>1, SameLock
<1>23. CASE t \in Process /\ Domain(t)
  <2>1. /\ writer' = writer /\ readers' = readers /\ th'[t].op = th[t].op
        /\ th[t].pc \in Waiting => th'[t].pc \in Waiting
        /\ th[t].pc \notin Waiting => th'[t].pc \notin Waiting
    BY <1>0, <1>23 DEF Domain, Goto, lockVars, ThreadState, Waiting
  <2> QED
    BY <1>0, <1>23, <2>1, SameLock
<1>24. CASE t \in Process /\ Done(t)
  <2>1. /\ writer' = IF writer = t THEN None ELSE writer
        /\ readers' = readers \ {t} /\ th'[t] = Idle
    BY <1>0, <1>24 DEF Done, Exit, Counted, Unpinned, Released
  <2> QED
    BY <1>0, <1>24, <2>1, FreedLock
<1>25. ASSUME t \in Process, NEW w \in SUBSET Obj, Dispatch(t, w)
      PROVE  LockOwn(t)
  <2>1. /\ writer' = None /\ readers' = readers /\ th'[t] = Idle
        /\ th[t].pc = "dispatch"
    BY <1>0, <1>25 DEF Dispatch
  <2>2. writer = t
    BY <1>0, <2>1 DEF Place, Locked, Waiting
  <2> QED
    BY <1>0, <2>1, <2>2 DEF LockOwn, LockKept, Locked, Idle, Waiting
<1>26. CASE t \in Process /\ Retry(t)
  <2>1. /\ writer' = writer /\ readers' = readers /\ th'[t].op = th[t].op
        /\ th[t].pc \in Waiting => th'[t].pc \in Waiting
        /\ th[t].pc \notin Waiting => th'[t].pc \notin Waiting
    BY <1>0, <1>26
    DEF Retry, Retries, UnpinAll, Unpinned, Released, ThreadState, Waiting
  <2> QED
    BY <1>0, <1>26, <2>1, SameLock
<1>27. CASE t \in Process /\ Fail(t)
  <2>1. /\ writer' = IF writer = t THEN None ELSE writer
        /\ readers' = readers \ {t} /\ th'[t] = Idle
    BY <1>0, <1>27
    DEF Fail, Retries, UnpinAll, Unpinned, Released, Exit, Counted
  <2> QED
    BY <1>0, <1>27, <2>1, FreedLock
<1>28. CASE t \in Process /\ LeaveStop(t)
  <2>1. /\ writer' = IF writer = t THEN None ELSE writer
        /\ readers' = readers \ {t} /\ th'[t] = Idle
    BY <1>0, <1>28 DEF LeaveStop, Exit, Counted
  <2> QED
    BY <1>0, <1>28, <2>1, FreedLock
<1>29. ASSUME t \in Process, NEW op \in Ops, NEW d \in Seq(Obj),
              CallOK(op, d), Call(t, op, d)
      PROVE  LockOwn(t)
  <2>1. /\ writer' = writer /\ readers' = readers
        /\ th'[t].pc = "gate" /\ th[t].pc = "idle"
    BY <1>0, <1>29 DEF Call, Idle, lockVars
  <2>2. writer # t /\ th[t].pc \in Waiting /\ th'[t].pc \in Waiting
    BY <1>0, <2>1 DEF Locked, Waiting
  <2> QED
    BY <1>0, <2>1, <2>2 DEF LockOwn, LockKept, Locked
<1> QED
  BY <1>1, <1>2, <1>3, <1>4, <1>5, <1>6, <1>7, <1>8, <1>9, <1>10, <1>11,
     <1>12, <1>13, <1>14, <1>15, <1>16, <1>17, <1>18, <1>19, <1>20, <1>21,
     <1>22, <1>23, <1>24, <1>25, <1>26, <1>27, <1>28, <1>29,
     ApertureAssumption
  DEF Moves, Step, Search, Evict

\* So dev_lock is kept right.
LEMMA LocksStep ==
  ASSUME StateTypes, Places, Locks, [Next]_vars
  PROVE  Locks'
<1>0. /\ th \in [Thread -> ThreadState] /\ Power \in Thread
      /\ \A s \in Process : s \in Thread /\ s # Power /\ Locked(s)
      /\ writer # Power /\ (readers = {} \/ writer = None)
  BY ApertureAssumption DEF StateTypes, Locks, Thread
<1>1. ASSUME GpuStep \/ RetireWork \/ UNCHANGED vars PROVE Locks'
  <2>1. writer' = writer /\ readers' = readers
    BY <1>1 DEF GpuStep, RetireWork, vars, lockVars
  <2>2. ASSUME NEW s \in Process PROVE Locked(s)'
    <3>1. Counting(s)
      BY <1>0, <1>1, Uncounted
    <3> QED
      BY <1>0, <2>1, <3>1 DEF Counting, Locked
  <2> QED
    BY <1>0, <2>1, <2>2 DEF Locks
<1>2. ASSUME NEW t \in Process, Moves(t) PROVE Locks'
  <2>1. LockOwn(t)
    BY <1>2, OwnLocks
  <2>2. ASSUME NEW s \in Process, s # t PROVE Locked(s)'
    <3>1. th'[s] = th[s]
      BY <1>0, <1>2, <2>2, OneMoves
    <3> QED
      BY <1>0, <2>1, <2>2, <3>1 DEF LockOwn, LockKept, Locked
  <2> QED
    BY <2>1, <2>2 DEF LockOwn, Locks
<1>3. ASSUME Moves(Power) PROVE Locks'
  <2>1. writer' = writer /\ readers' = readers
    BY <1>3, ApertureAssumption
    DEF Moves, Suspend, Quiesce, Resume, Evict, InactiveUnbind, InactiveEnd,
        InactivePick, lockVars
  <2>2. ASSUME NEW s \in Process PROVE Locked(s)'
    <3>1. th'[s] = th[s]
      BY <1>0, <1>3, OneMoves
    <3> QED
      BY <1>0, <2>1, <3>1 DEF Locked
  <2> QED
    BY <1>0, <2>1, <2>2 DEF Locks
<1> QED
  BY <1>1, <1>2, <1>3, Movers DEF Thread

-----------------------------------------------------------------------------
(* The books of the GPU.                                                   *)

\* A step that does nothing to the lists, the requests and the aperture.
Leaves == UNCHANGED <<offset, list, lrs, dirty, pending, pins>>

\* What the steps of t may do to them.
Acts(t) ==
    \/ Leaves
    \/ Retire /\ UNCHANGED <<offset, pending, pins>>
    \/ Flush /\ UNCHANGED <<offset, pins>>
    \/ InactiveUnbind(t)
    \/ /\ t \in Process
       /\ \/ Bind(t) \/ Done(t)
          \/ th[t].pc = "fail" /\ UnpinAll(t) /\ UNCHANGED <<offset, pending>>
          \/ \E written \in SUBSET Obj : Dispatch(t, written)
          \/ \E b \in Obj : FindInactive(t, b)

\* They do one of these.
LEMMA MovesAct ==
  ASSUME NEW t \in Thread, Moves(t)
  PROVE  Acts(t)
<1>1. CASE t \in Process /\ Gate(t)
  BY <1>1 DEF Gate, Counted, Tried, Goto, Acts, Leaves, objVars
<1>2. CASE t \in Process /\ LockRead(t)
  BY <1>2 DEF LockRead, Goto, Acts, Leaves, objVars
<1>3. CASE t \in Process /\ LockExec(t)
  BY <1>3 DEF LockExec, LockWrite, Exit, Counted, Goto, Acts, Leaves, objVars
<1>4. CASE t \in Process /\ LockLeave(t)
  BY <1>4 DEF LockLeave, LockWrite, Exit, Counted, Acts, Leaves, objVars
<1>5. CASE t \in Process /\ LockEnter(t)
  BY <1>5 DEF LockEnter, LockWrite, Exit, Counted, Acts, Leaves, objVars
<1>6. CASE t \in Process /\ Hold(t)
  BY <1>6 DEF Hold, Goto, Acts, Leaves, objVars
<1>7. CASE t \in Process /\ Bind(t)
  BY <1>7 DEF Acts
<1>8. CASE t \in Process /\ BindFull(t)
  BY <1>8 DEF BindFull, Acts, Leaves, objVars
<1>9. CASE t \in Process /\ SearchRetire(t)
  BY <1>9 DEF SearchRetire, Retire, Goto, Acts, Leaves
<1>10. CASE t \in Process /\ FindWait(t)
  BY <1>10 DEF FindWait, NotFound, WaitFor, Acts, Leaves, objVars
<1>11. CASE t \in Process /\ FindFlush(t)
  BY <1>11 DEF FindFlush, NotFound, Flush, Flushed, Acts, Leaves
<1>12. CASE t \in Process /\ FindEvict(t)
  BY <1>12 DEF FindEvict, NotFound, Acts, Leaves, objVars
<1>13. ASSUME t \in Process, NEW b \in Obj, FindInactive(t, b)
      PROVE  Acts(t)
  BY <1>13 DEF Acts
<1>14. CASE InactiveUnbind(t)
  BY <1>14 DEF Acts
<1>15. CASE InactiveEnd(t)
  BY <1>15 DEF InactiveEnd, Acts, Leaves, objVars
<1>16. ASSUME NEW b \in Obj, InactivePick(t, b)
      PROVE  Acts(t)
  BY <1>16 DEF InactivePick, Acts, Leaves, objVars
<1>17. CASE t \in Process /\ EverythingGone(t)
  BY <1>17 DEF EverythingGone, Acts, Leaves, objVars
<1>18. CASE t \in Process /\ EverythingFlush(t)
  BY <1>18 DEF EverythingFlush, Flush, Flushed, Acts, Leaves
<1>19. CASE t \in Process /\ EverythingIdle(t)
  BY <1>19 DEF EverythingIdle, Retire, Goto, Acts, Leaves
<1>20. CASE t \in Process /\ Wait(t)
  BY <1>20 DEF Wait, Retire, Goto, Acts, Leaves
<1>21. CASE t \in Process /\ DomainFlush(t)
  BY <1>21 DEF DomainFlush, Flush, Flushed, WaitFor, Acts, Leaves
<1>22. CASE t \in Process /\ DomainWait(t)
  BY <1>22 DEF DomainWait, WaitFor, Acts, Leaves, objVars
<1>23. CASE t \in Process /\ Domain(t)
  BY <1>23 DEF Domain, Goto, Acts, Leaves, objVars
<1>24. CASE t \in Process /\ Done(t)
  BY <1>24 DEF Acts
<1>25. ASSUME t \in Process, NEW w \in SUBSET Obj, Dispatch(t, w)
      PROVE  Acts(t)
  BY <1>25 DEF Acts
<1>26. CASE t \in Process /\ Retry(t)
  BY <1>26 DEF Retry, Retries, UnpinAll, Unpinned, Released, Acts, Leaves
<1>27. CASE t \in Process /\ Fail(t)
  BY <1>27
  DEF Fail, Retries, UnpinAll, Unpinned, Released, Exit, Counted, Acts, Leaves
<1>28. CASE t \in Process /\ LeaveStop(t)
  BY <1>28 DEF LeaveStop, Exit, Counted, Acts, Leaves, objVars
<1>29. ASSUME t \in Process, NEW op \in Ops, NEW d \in Seq(Obj),
              CallOK(op, d), Call(t, op, d)
      PROVE  Acts(t)
  BY <1>29 DEF Call, Acts, Leaves, objVars
<1>30. CASE t = Power /\ Suspend
  BY <1>30 DEF Suspend, Goto, Acts, Leaves, objVars
<1>31. CASE t = Power /\ Quiesce
  BY <1>31 DEF Quiesce, Acts, Leaves, objVars
<1>32. CASE t = Power /\ Resume
  BY <1>32 DEF Resume, Acts, Leaves, objVars
<1> QED
  BY <1>1, <1>2, <1>3, <1>4, <1>5, <1>6, <1>7, <1>8, <1>9, <1>10, <1>11,
     <1>12, <1>13, <1>14, <1>15, <1>16, <1>17, <1>18, <1>19, <1>20, <1>21,
     <1>22, <1>23, <1>24, <1>25, <1>26, <1>27, <1>28, <1>29, <1>30, <1>31,
     <1>32
  DEF Moves, Step, Search, Evict

\* What t unpins it holds, and has pinned.
LEMMA PinnedHeld ==
  ASSUME Holds, PinExact, NEW t \in Thread,
         th[t].pc = "fail" \/ th[t].pc = "dispatch",
         NEW o \in PinnedBy(t), o \in Obj
  PROVE  held[o] = t /\ pins[o] = 1
<1>1. HoldExact(t)
  BY DEF Holds
<1>2. held[o] = t
  BY <1>1 DEF HoldExact
<1>3. Pins(t, o)
  BY DEF Pins
<1> QED
  BY <1>2, <1>3 DEF PinExact

\* So has it what it gives to the GPU.
LEMMA UsedPinned ==
  ASSUME Holds, PinExact, NEW t \in Thread, th[t].pc = "dispatch",
         NEW o \in Obj, held[o] = t
  PROVE  pins[o] = 1
<1>1. HoldExact(t) /\ ~HasCur(t)
  BY DEF Holds, HasCur, Seeking, Evicting
<1>2. o \in PinnedBy(t)
  BY <1>1 DEF HoldExact
<1> QED
  BY <1>2, PinnedHeld

\* The invariant a step relies on.
Facts ==
    /\ StateTypes /\ Places /\ Holds /\ PinExact /\ Locks /\ Engine
    /\ (\A t \in Thread : Emptied(t)) /\ Away /\ Counts /\ PowerInv

\* The steps of the threads keep the books.
LEMMA BookedMoves ==
  ASSUME Facts, NEW t \in Thread, Acts(t), NEW o \in Obj
  PROVE  Booked(o)'
<1>0. /\ offset \in [Obj -> {Unbound} \cup 0..Pages]
      /\ list \in [Obj -> {"none", "active", "flushing", "inactive"}]
      /\ lrs \in [Obj -> Nat] /\ pins \in [Obj -> Int] /\ pending \in Nat
      /\ Booked(o) /\ Unbound \notin 0..Pages
  BY DEF Facts, StateTypes, Engine, Unbound
<1>00. /\ lrs[o] \in Nat /\ pins[o] \in {0, 1}
       /\ held[o] = None => pins[o] = 0
  <2>1. held[o] \in Thread \/ held[o] = None
    BY DEF Facts, StateTypes
  <2> QED
    BY <1>0, <2>1 DEF Facts, PinExact
<1>1. CASE Leaves
  BY <1>0, <1>1 DEF Leaves, Booked
<1>2. CASE Retire /\ UNCHANGED <<offset, pending, pins>>
  <2>1. /\ list'[o] = IF ~Retired(o) THEN list[o]
                     ELSE IF o \in dirty THEN "flushing"
                     ELSE IF pins[o] > 0 THEN "none" ELSE "inactive"
        /\ UNCHANGED <<lrs, dirty, offset, pending, pins>>
    BY <1>2 DEF Retire
  <2> QED
    BY <1>0, <2>1 DEF Booked, Retired
<1>3. CASE Flush /\ UNCHANGED <<offset, pins>>
  <2>1. /\ list'[o] = IF o \in dirty THEN "active" ELSE list[o]
        /\ lrs'[o] = IF o \in dirty THEN pending + 1 ELSE lrs[o]
        /\ dirty' = {} /\ pending' = pending + 1 /\ UNCHANGED <<offset, pins>>
    BY <1>3 DEF Flush, Flushed
  <2> QED
    BY <1>0, <1>00, <2>1 DEF Booked
<1>4. CASE InactiveUnbind(t)
  <2>1. /\ th[t].pc = "victim" /\ held[th[t].victim] = None
        /\ offset' = [offset EXCEPT ![th[t].victim] = Unbound]
        /\ list' = [list EXCEPT ![th[t].victim] = "none"]
        /\ UNCHANGED <<lrs, dirty, pins, pending>>
    BY <1>4 DEF InactiveUnbind
  <2>2. th[t].victim \notin Busy
    BY <2>1 DEF Facts, Emptied
  <2>3. CASE o = th[t].victim
    <3>1. list[o] \notin {"active", "flushing"}
      BY <2>2, <2>3 DEF Busy, On
    <3>2. /\ pins'[o] = 0 /\ o \notin dirty' /\ list'[o] = "none"
          /\ lrs'[o] <= pending'
      BY <1>0, <1>00, <2>1, <2>3, <3>1 DEF Booked
    <3> QED
      BY <3>2 DEF Booked
  <2>4. CASE o # th[t].victim
    BY <1>0, <2>1, <2>4 DEF Booked
  <2> QED
    BY <2>3, <2>4
<1>5. CASE t \in Process /\ Bind(t)
  <2>1. /\ Cur(t) \in Obj
        /\ UNCHANGED <<lrs, dirty, pending>>
    BY <1>5, BindPlace DEF Bind, Facts
  <2>2. PICK h \in 0..Pages : offset' = [offset EXCEPT ![Cur(t)] = h]
    BY <1>5, BindPlace DEF Facts
  <2>3. offset[o] # Unbound \/ o = Cur(t) => offset'[o] # Unbound
    BY <1>0, <2>1, <2>2
  <2>4. o # Cur(t) => list'[o] = list[o] /\ pins'[o] = pins[o]
    BY <1>0, <1>5, <2>1 DEF Bind, Pin, PinFails, Faulted
  <2>5. /\ o = Cur(t) => list'[o] \in {list[o], "none", "inactive"}
        /\ list[o] \in {"active", "flushing"} => list'[o] = list[o]
    <3>1. CASE Pin(t, Cur(t))
      BY <1>0, <2>1, <3>1 DEF Pin, Busy, On
    <3>2. CASE ~Pin(t, Cur(t))
      BY <1>0, <1>5, <2>1, <3>2 DEF Bind, PinFails, Faulted, Booked
    <3> QED
      BY <3>1, <3>2
  <2>6. o # Cur(t) => offset'[o] = offset[o]
    BY <1>0, <2>1, <2>2
  <2>7. CASE o = Cur(t)
    BY <1>0, <2>1, <2>3, <2>5, <2>7 DEF Booked
  <2>8. CASE o # Cur(t)
    BY <1>0, <2>1, <2>4, <2>6, <2>8 DEF Booked
  <2> QED
    BY <2>7, <2>8
<1>6. CASE t \in Process /\ Done(t)
  <2>1. Cur(t) \in Obj /\ UNCHANGED <<lrs, dirty, pending, offset>>
    BY <1>6, CurObject DEF Done, Exit, Facts, HasCur
  <2>2. pins'[o] \in {pins[o], pins[o] - 1}
    BY <1>0, <1>6, <2>1, DonePins
  <2>3. /\ list'[o] \in {list[o], "inactive"}
        /\ o \in Busy => list'[o] = list[o]
    BY <1>0, <1>6, <2>1 DEF Done, Unpinned
  <2>4. o \in Busy <=> list[o] \in {"active", "flushing"}
    BY DEF Busy, On
  <2> QED
    BY <1>0, <1>00, <2>1, <2>2, <2>3, <2>4 DEF Booked
<1>7. CASE UnpinAll(t) /\ UNCHANGED <<offset, pending>>
  <2>1. /\ UNCHANGED <<lrs, dirty, pending, offset>>
        /\ pins'[o] \in {pins[o], pins[o] - 1}
        /\ list'[o] \in {list[o], "inactive"}
        /\ (o \in Busy => list'[o] = list[o])
    BY <1>7 DEF UnpinAll, Unpinned
  <2>2. o \in Busy <=> list[o] \in {"active", "flushing"}
    BY DEF Busy, On
  <2> QED
    BY <1>0, <1>00, <2>1, <2>2 DEF Booked
<1>8. ASSUME NEW written \in SUBSET Obj, Dispatch(t, written)
      PROVE  Booked(o)'
  <2>1. /\ th[t].pc = "dispatch" /\ written \subseteq Held(t)
        /\ list'[o] = IF o \in Held(t) THEN "active" ELSE list[o]
        /\ lrs'[o] = IF o \in Held(t) THEN pending + 1 ELSE lrs[o]
        /\ dirty' = dirty \cup written /\ pending' = pending + 1
        /\ pins'[o] = IF o \in Held(t) THEN pins[o] - 1 ELSE pins[o]
        /\ offset' = offset
    BY <1>8 DEF Dispatch
  <2>2. CASE o \in Held(t)
    <3>1. pins[o] = 1
      BY <2>1, <2>2, UsedPinned DEF Facts, Held
    <3>2. offset[o] # Unbound
      BY <1>0, <3>1 DEF Booked
    <3> QED
      BY <1>0, <2>1, <2>2, <3>2 DEF Booked
  <2>3. CASE o \notin Held(t)
    <3>1. o \in dirty' <=> o \in dirty
      BY <2>1, <2>3
    <3> QED
      BY <1>0, <1>00, <2>1, <2>3, <3>1 DEF Booked
  <2> QED
    BY <2>2, <2>3
<1>9. ASSUME NEW b \in Obj, FindInactive(t, b)
      PROVE  Booked(o)'
  <2>1. /\ list[b] = "inactive" /\ held[b] = None
        /\ offset' = [offset EXCEPT ![b] = Unbound]
        /\ list' = [list EXCEPT ![b] = "none"]
        /\ UNCHANGED <<lrs, dirty, pins, pending>>
    BY <1>9 DEF FindInactive, On
  <2>2. CASE o = b
    BY <1>0, <1>00, <2>1, <2>2 DEF Booked
  <2>3. CASE o # b
    BY <1>0, <2>1, <2>3 DEF Booked
  <2> QED
    BY <2>2, <2>3
<1> QED
  BY <1>1, <1>2, <1>3, <1>4, <1>5, <1>6, <1>7, <1>8, <1>9 DEF Acts

\* So does every step.
LEMMA EngineStep ==
  ASSUME Facts, [Next]_vars
  PROVE  Engine'
<1>0. /\ lrs \in [Obj -> Nat] /\ pending \in Nat /\ \A o \in Obj : Booked(o)
  BY DEF Facts, StateTypes, Engine
<1>1. CASE GpuStep
  <2>1. ASSUME NEW o \in Obj PROVE Booked(o)'
    <3>1. /\ lrs'[o] = IF lrs[o] > 0 THEN lrs[o] - 1 ELSE 0
          /\ pending > 0 /\ pending' = pending - 1
          /\ UNCHANGED <<list, dirty, pins, offset>>
      BY <1>1, <2>1 DEF GpuStep, Passes
    <3>2. lrs[o] \in Nat /\ lrs[o] <= pending
      BY <1>0, <2>1 DEF Booked
    <3>3. lrs'[o] <= pending'
      BY <1>0, <3>1, <3>2
    <3> QED
      BY <1>0, <3>1, <3>3 DEF Booked
  <2> QED
    BY <2>1 DEF Engine
<1>2. CASE RetireWork
  <2>1. Acts(Power) /\ Power \in Thread
    BY <1>2 DEF RetireWork, Acts, Thread
  <2> QED
    BY <2>1, BookedMoves DEF Engine
<1>3. CASE UNCHANGED vars
  <2>1. Acts(Power) /\ Power \in Thread
    BY <1>3 DEF vars, objVars, Acts, Leaves, Thread
  <2> QED
    BY <2>1, BookedMoves DEF Engine
<1>4. ASSUME NEW t \in Thread, Moves(t) PROVE Engine'
  BY <1>4, MovesAct, BookedMoves DEF Engine
<1> QED
  BY <1>1, <1>2, <1>3, <1>4, Movers

-----------------------------------------------------------------------------
(* What evictions achieve.                                                 *)

\* A step that is not the end of an execbuffer gives the GPU no more to do.
Lessens(o) ==
    /\ list'[o] \in {"active", "flushing"} =>
         list[o] \in {"active", "flushing"}
    /\ o \in dirty' => o \in dirty
    /\ o \notin dirty /\ list'[o] = "active" =>
         list[o] = "active" /\ lrs'[o] = lrs[o]

\* Every other one is such.
LEMMA ActsLessen ==
  ASSUME Facts, NEW t \in Thread, Acts(t), NEW o \in Obj,
         t \in Process => \A written \in SUBSET Obj : ~Dispatch(t, written)
  PROVE  Lessens(o)
<1>0. /\ list \in [Obj -> {"none", "active", "flushing", "inactive"}]
      /\ lrs \in [Obj -> Nat] /\ Booked(o)
  BY DEF Facts, StateTypes, Engine
<1>1. CASE Leaves
  BY <1>1 DEF Leaves, Lessens
<1>2. CASE Retire
  BY <1>0, <1>2 DEF Retire, Retired, Lessens
<1>3. CASE Flush
  <2>1. /\ list'[o] = IF o \in dirty THEN "active" ELSE list[o]
        /\ lrs'[o] = IF o \in dirty THEN pending + 1 ELSE lrs[o]
        /\ dirty' = {}
    BY <1>3 DEF Flush, Flushed
  <2> QED
    BY <1>0, <2>1 DEF Lessens, Booked
<1>4. CASE InactiveUnbind(t)
  <2>1. /\ list' = [list EXCEPT ![th[t].victim] = "none"]
        /\ UNCHANGED <<lrs, dirty>>
    BY <1>4 DEF InactiveUnbind
  <2>2. list'[o] \in {list[o], "none"}
    BY <1>0, <2>1
  <2> QED
    BY <2>1, <2>2 DEF Lessens
<1>5. CASE t \in Process /\ Bind(t)
  <2>1. Cur(t) \in Obj /\ UNCHANGED <<lrs, dirty>>
    BY <1>5, BindPlace DEF Bind, Facts
  <2>2. list'[o] \in {list[o], "none", "inactive"}
    <3>1. CASE Pin(t, Cur(t))
      BY <1>0, <2>1, <3>1 DEF Pin
    <3>2. CASE ~Pin(t, Cur(t))
      BY <1>0, <1>5, <2>1, <3>2 DEF Bind, PinFails, Faulted
    <3> QED
      BY <3>1, <3>2
  <2> QED
    BY <2>1, <2>2 DEF Lessens
<1>6. CASE t \in Process /\ Done(t)
  <2>1. Cur(t) \in Obj /\ UNCHANGED <<lrs, dirty>>
    BY <1>6, CurObject DEF Done, Facts, HasCur
  <2>2. list'[o] \in {list[o], "inactive"}
    BY <1>0, <1>6, <2>1 DEF Done, Unpinned
  <2> QED
    BY <2>1, <2>2 DEF Lessens
<1>7. CASE UnpinAll(t)
  BY <1>7 DEF UnpinAll, Unpinned, Lessens
<1>9. ASSUME NEW b \in Obj, FindInactive(t, b)
      PROVE  Lessens(o)
  <2>1. list' = [list EXCEPT ![b] = "none"] /\ UNCHANGED <<lrs, dirty>>
    BY <1>9 DEF FindInactive
  <2>2. list'[o] \in {list[o], "none"}
    BY <1>0, <2>1
  <2> QED
    BY <2>1, <2>2 DEF Lessens
<1> QED
  BY <1>1, <1>2, <1>3, <1>4, <1>5, <1>6, <1>7, <1>9 DEF Acts

\* Who has dev_lock for writing has it for itself: nobody else evicts, looks
\* for room, or is about to stop the ring.
LEMMA WriterAlone ==
  ASSUME Facts, NEW t \in Process, writer = t, NEW s \in Thread, s # t
  PROVE  th[s].pc \notin Evicting \cup Seeking \cup {"stop"}
<1>1. /\ Locked(t) /\ th[t].pc \notin Waiting
      /\ readers = {} /\ t # None
  <2>1. Locked(t) /\ (readers = {} \/ writer = None) /\ t # None
    BY ApertureAssumption DEF Facts, Locks, Thread
  <2> QED
    BY <2>1 DEF Locked
<1>2. CASE s = Power
  <2>1. t \in Inside
    BY <1>1 DEF Inside, Outside, Waiting
  <2>2. PowerPlace /\ PowerInv
    BY DEF Facts, Places
  <2> QED
    BY <1>2, <2>1, <2>2 DEF PowerPlace, PowerInv, Evicting, Seeking
<1>3. CASE s \in Process
  <2>1. Place(s) /\ Locked(s) /\ th[s] \in ThreadState
    BY <1>3 DEF Facts, Places, Locks, StateTypes
  <2>2. s \notin readers /\ writer # s
    BY <1>1
  <2>3. \/ th[s].op \notin {"fault", "access", "exec", "leave"}
        \/ th[s].pc \in Waiting
    BY <2>1, <2>2 DEF Locked
  <2>4. CASE th[s].pc \in Waiting
    BY <2>4 DEF Waiting, Evicting, Seeking
  <2>5. CASE th[s].op \notin {"fault", "access", "exec", "leave"}
    <3>1. th[s].op \in {"set_domain", "enter", "none"}
      BY <2>1, <2>5 DEF ThreadState, Ops
    <3> QED
      BY <2>1, <3>1 DEF Place, Evicting, Seeking
  <2> QED
    BY <2>3, <2>4, <2>5
<1> QED
  BY <1>2, <1>3 DEF Thread

\* So has an execbuffer that ends.
LEMMA DispatchAlone ==
  ASSUME Facts, NEW t \in Process, NEW written, Dispatch(t, written),
         NEW s \in Thread, s # t
  PROVE  th[s].pc \notin Evicting \cup {"stop"}
<1>1. Place(t) /\ Locked(t) /\ th[t].pc = "dispatch"
  BY DEF Facts, Places, Locks, Dispatch
<1>2. writer = t
  BY <1>1 DEF Place, Locked, Waiting
<1> QED
  BY <1>2, WriterAlone

\* So what another thread's eviction has achieved stays so.
LEMMA EmptiedKept ==
  ASSUME Facts, NEW s \in Thread, \A o \in Obj : Lessens(o),
         dirty' \subseteq Obj,
         th'[s] = th[s]
  PROVE  Emptied(s)'
<1>1. Emptied(s)
  BY DEF Facts
<1>2. Busy' \subseteq Busy /\ dirty' \subseteq dirty
  BY DEF Busy, On, Lessens
<1> QED
  BY <1>1, <1>2 DEF Emptied, On, Lessens

\* A step of the evicting thread itself achieves what its next place relies
\* on.
LEMMA OwnEmptied ==
  ASSUME NEW t \in Thread, Facts, Moves(t)
  PROVE  Emptied(t)'
<1>0. /\ th \in [Thread -> ThreadState] /\ th[t] \in ThreadState /\ Emptied(t)
      /\ pending \in Nat /\ lrs \in [Obj -> Nat] /\ dirty \subseteq Obj
      /\ \A o \in Obj : Booked(o)
      /\ list \in [Obj -> {"none", "active", "flushing", "inactive"}]
      /\ t \in Process => Place(t)
      /\ PowerPlace /\ t \in Thread /\ Power \in Thread
  BY DEF Facts, StateTypes, Places, Thread, Engine
<1>1. CASE t \in Process /\ Gate(t)
  <2>1. th'[t].pc \notin {"idling", "inactive", "victim", "stop"}
    BY <1>0, <1>1 DEF Gate, Counted, Tried, Goto, ThreadState
  <2> QED
    BY <1>1, <2>1 DEF Emptied
<1>2. CASE t \in Process /\ LockRead(t)
  <2>1. th'[t].pc \notin {"idling", "inactive", "victim", "stop"}
    BY <1>0, <1>2 DEF LockRead, Goto, ThreadState, Idle
  <2> QED
    BY <1>2, <2>1 DEF Emptied
<1>3. CASE t \in Process /\ LockExec(t)
  <2>1. th'[t].pc \notin {"idling", "inactive", "victim", "stop"}
    BY <1>0, <1>3
    DEF LockExec, LockWrite, Exit, Counted, Goto, ThreadState, Idle
  <2> QED
    BY <1>3, <2>1 DEF Emptied
<1>4. CASE t \in Process /\ LockLeave(t)
  <2>1. th'[t].pc \in {"everything", "idle"}
    BY <1>0, <1>4 DEF LockLeave, Exit, Idle, ThreadState
  <2> QED
    BY <2>1 DEF Emptied
<1>5. CASE t \in Process /\ LockEnter(t)
  <2>1. th'[t].pc \notin {"idling", "inactive", "victim", "stop"}
    BY <1>0, <1>5 DEF LockEnter, LockWrite, Exit, Counted, ThreadState, Idle
  <2> QED
    BY <1>5, <2>1 DEF Emptied
<1>6. CASE t \in Process /\ Hold(t)
  <2>1. th'[t].pc \notin {"idling", "inactive", "victim", "stop"}
    BY <1>0, <1>6 DEF Hold, Goto, ThreadState
  <2> QED
    BY <1>6, <2>1 DEF Emptied
<1>7. CASE t \in Process /\ Bind(t)
  <2>1. th'[t].pc \notin {"idling", "inactive", "victim", "stop"}
    <3>1. CASE Pin(t, Cur(t)) /\ th[t].op = "exec"
      <4>1. th'[t].pc \in {"dispatch", "hold"}
        BY <1>0, <1>7, <3>1, PinMore
      <4> QED
        BY <4>1
    <3>2. CASE ~(Pin(t, Cur(t)) /\ th[t].op = "exec")
      BY <1>0, <1>7, <3>2 DEF Bind, Pin, PinFails, Goto, ThreadState
    <3> QED
      BY <3>1, <3>2
  <2> QED
    BY <2>1 DEF Emptied
<1>8. CASE t \in Process /\ BindFull(t)
  <2>1. th'[t].pc \notin {"idling", "inactive", "victim", "stop"}
    BY <1>0, <1>8 DEF BindFull, ThreadState
  <2> QED
    BY <1>8, <2>1 DEF Emptied
<1>9. CASE t \in Process /\ SearchRetire(t)
  <2>1. th'[t].pc \notin {"idling", "inactive", "victim", "stop"}
    BY <1>0, <1>9 DEF SearchRetire, Retire, Goto, ThreadState
  <2> QED
    BY <1>9, <2>1 DEF Emptied
<1>10. CASE t \in Process /\ FindWait(t)
  <2>1. th'[t].pc \notin {"idling", "inactive", "victim", "stop"}
    BY <1>0, <1>10 DEF FindWait, NotFound, WaitFor, ThreadState
  <2> QED
    BY <1>10, <2>1 DEF Emptied
<1>11. CASE t \in Process /\ FindFlush(t)
  <2>1. th'[t].pc \notin {"idling", "inactive", "victim", "stop"}
    BY <1>0, <1>11 DEF FindFlush, NotFound, Flush, Flushed, ThreadState
  <2> QED
    BY <1>11, <2>1 DEF Emptied
<1>12. CASE t \in Process /\ FindEvict(t)
  <2>1. th'[t].pc \in {"inactive", "everything"} /\ ~th'[t].all
    BY <1>0, <1>12 DEF FindEvict, ThreadState
  <2> QED
    BY <2>1 DEF Emptied
<1>13. ASSUME t \in Process, NEW b \in Obj, FindInactive(t, b)
      PROVE  Emptied(t)'
  <2>1. th'[t].pc \notin {"idling", "inactive", "victim", "stop"}
    BY <1>0, <1>13 DEF FindInactive, Goto, ThreadState
  <2> QED
    BY <1>13, <2>1 DEF Emptied
<1>14. CASE InactiveUnbind(t)
  <2>1. /\ th'[t].pc = "inactive" /\ th'[t].all = th[t].all
        /\ th[t].pc = "victim"
        /\ list' = [list EXCEPT ![th[t].victim] = "none"]
    BY <1>0, <1>14 DEF InactiveUnbind, ThreadState
  <2>2. \A o \in Obj : list'[o] \in {list[o], "none"}
    BY <1>0, <2>1
  <2>3. Busy' \subseteq Busy
    BY <2>2 DEF Busy, On
  <2> QED
    BY <1>0, <2>1, <2>3 DEF Emptied
<1>15. CASE InactiveEnd(t)
  <2>1. /\ th'[t].pc = th[t].then /\ ~th'[t].all /\ th[t].pc = "inactive"
        /\ list' = list
    BY <1>0, <1>15 DEF InactiveEnd, ThreadState, objVars
  <2>2. CASE t = Power
    BY <1>0, <2>1, <2>2 DEF PowerPlace, Emptied
  <2>3. CASE t \in Process
    <3>1. \/ th[t].op = "leave" /\ th[t].then = "stop"
          \/ th[t].then \in {"hold", "bind"}
      BY <1>0, <2>1, <2>3 DEF Place, Evicting
    <3>2. th[t].op = "leave" => Busy = {}
      BY <1>0, <2>1, <2>3 DEF Place, Emptied
    <3>3. Busy' = Busy
      BY <2>1 DEF Busy, On
    <3> QED
      BY <2>1, <3>1, <3>2, <3>3 DEF Emptied
  <2> QED
    BY <1>0, <2>2, <2>3 DEF Thread
<1>16. ASSUME NEW b \in Obj, InactivePick(t, b)
      PROVE  Emptied(t)'
  <2>1. /\ th'[t].pc = "victim" /\ th'[t].victim = b /\ th'[t].all = th[t].all
        /\ th[t].pc = "inactive" /\ list[b] = "inactive" /\ list' = list
    BY <1>0, <1>16 DEF InactivePick, ThreadState, On, objVars
  <2>2. b \notin Busy /\ Busy' = Busy
    BY <2>1 DEF Busy, On
  <2> QED
    BY <1>0, <2>1, <2>2 DEF Emptied
<1>17. CASE t \in Process /\ EverythingGone(t)
  <2>1. th'[t].pc \in {"stop", "fail"}
    BY <1>0, <1>17 DEF EverythingGone, ThreadState
  <2>2. Busy' = {}
    BY <1>17 DEF EverythingGone, ListsEmpty, Busy, On, objVars
  <2> QED
    BY <2>1, <2>2 DEF Emptied
<1>18. CASE t \in Process /\ EverythingFlush(t)
  <2>1. th'[t].pc = "idling" /\ th'[t].seq = pending + 1
    BY <1>0, <1>18 DEF EverythingFlush, ThreadState
  <2>2. dirty' = {}
    BY <1>18 DEF EverythingFlush, Flush, Flushed
  <2>3. ASSUME NEW o \in Obj PROVE lrs'[o] <= pending + 1
    <3>1. lrs'[o] = IF o \in dirty THEN pending + 1 ELSE lrs[o]
      BY <1>18 DEF EverythingFlush, Flush, Flushed
    <3>2. lrs[o] \in Nat /\ lrs[o] <= pending
      BY <1>0 DEF Booked
    <3> QED
      BY <1>0, <3>1, <3>2
  <2>4. \A o \in On("active")' : lrs'[o] <= th'[t].seq
    BY <2>1, <2>3 DEF On
  <2> QED
    BY <2>1, <2>2, <2>4 DEF Emptied
<1>19. CASE t \in Process /\ EverythingIdle(t)
  <2>1. th'[t].pc = "inactive" /\ th[t].pc = "idling" /\ th[t].seq = 0
    BY <1>0, <1>19 DEF EverythingIdle, Goto, ThreadState
  <2>2. dirty = {} /\ \A o \in On("active") : lrs[o] <= 0
    BY <1>0, <2>1 DEF Emptied
  <2>3. ASSUME NEW o \in Obj PROVE list'[o] \notin {"active", "flushing"}
    <3>1. list'[o] = IF ~Retired(o) THEN list[o]
                     ELSE IF o \in dirty THEN "flushing"
                     ELSE IF pins[o] > 0 THEN "none" ELSE "inactive"
      BY <1>19 DEF EverythingIdle, Retire
    <3>2. list[o] = "active" => lrs[o] = 0
      <4>1. lrs[o] \in Nat
        BY <1>0
      <4> QED
        BY <2>2, <4>1 DEF On
    <3>3. list[o] # "flushing"
      BY <1>0, <2>2 DEF Booked
    <3> QED
      BY <2>2, <3>1, <3>2, <3>3 DEF Retired
  <2>4. Busy' = {}
    BY <2>3 DEF Busy, On
  <2> QED
    BY <2>1, <2>4 DEF Emptied
<1>20. CASE t \in Process /\ Wait(t)
  <2>1. th'[t].pc = th[t].then /\ th[t].pc = "wait"
    BY <1>0, <1>20 DEF Wait, Goto, ThreadState
  <2>2. th'[t].pc \notin {"idling", "inactive", "victim", "stop"}
    BY <1>0, <1>20, <2>1 DEF Place
  <2> QED
    BY <2>2 DEF Emptied
<1>21. CASE t \in Process /\ DomainFlush(t)
  <2>1. th'[t].pc \notin {"idling", "inactive", "victim", "stop"}
    BY <1>0, <1>21 DEF DomainFlush, Flush, Flushed, WaitFor, ThreadState
  <2> QED
    BY <1>21, <2>1 DEF Emptied
<1>22. CASE t \in Process /\ DomainWait(t)
  <2>1. th'[t].pc \notin {"idling", "inactive", "victim", "stop"}
    BY <1>0, <1>22 DEF DomainWait, WaitFor, ThreadState
  <2> QED
    BY <1>22, <2>1 DEF Emptied
<1>23. CASE t \in Process /\ Domain(t)
  <2>1. th'[t].pc \notin {"idling", "inactive", "victim", "stop"}
    BY <1>0, <1>23 DEF Domain, Goto, ThreadState
  <2> QED
    BY <1>23, <2>1 DEF Emptied
<1>24. CASE t \in Process /\ Done(t)
  <2>1. th'[t].pc \notin {"idling", "inactive", "victim", "stop"}
    BY <1>0, <1>24
    DEF Done, Exit, Counted, Unpinned, Released, ThreadState, Idle
  <2> QED
    BY <1>24, <2>1 DEF Emptied
<1>25. ASSUME t \in Process, NEW w \in SUBSET Obj, Dispatch(t, w)
      PROVE  Emptied(t)'
  <2>1. th'[t].pc \notin {"idling", "inactive", "victim", "stop"}
    BY <1>0, <1>25 DEF Dispatch, Released, Held, ThreadState, Idle
  <2> QED
    BY <1>25, <2>1 DEF Emptied
<1>26. CASE t \in Process /\ Retry(t)
  <2>1. th'[t].pc \notin {"idling", "inactive", "victim", "stop"}
    BY <1>0, <1>26
    DEF Retry, Retries, UnpinAll, Unpinned, Released, ThreadState
  <2> QED
    BY <1>26, <2>1 DEF Emptied
<1>27. CASE t \in Process /\ Fail(t)
  <2>1. th'[t].pc \notin {"idling", "inactive", "victim", "stop"}
    BY <1>0, <1>27
    DEF Fail, Retries, UnpinAll, Unpinned, Released, Exit, Counted,
        ThreadState, Idle
  <2> QED
    BY <1>27, <2>1 DEF Emptied
<1>28. CASE t \in Process /\ LeaveStop(t)
  <2>1. th'[t].pc \notin {"idling", "inactive", "victim", "stop"}
    BY <1>0, <1>28 DEF LeaveStop, Exit, Counted, ThreadState, Idle
  <2> QED
    BY <1>28, <2>1 DEF Emptied
<1>29. ASSUME t \in Process, NEW op \in Ops, NEW d \in Seq(Obj),
              CallOK(op, d), Call(t, op, d)
      PROVE  Emptied(t)'
  <2>1. th'[t].pc \notin {"idling", "inactive", "victim", "stop"}
    BY <1>0, <1>29 DEF Call, ThreadState, Idle
  <2> QED
    BY <1>29, <2>1 DEF Emptied
<1>30. CASE t = Power /\ Suspend
  <2>1. th'[Power].pc \notin {"idling", "inactive", "victim", "stop"}
    BY <1>0, <1>30 DEF Suspend, Goto, ThreadState
  <2> QED
    BY <1>30, <2>1 DEF Emptied
<1>31. CASE t = Power /\ Quiesce
  <2>1. th'[Power].pc = "inactive" /\ ~th'[Power].all
    BY <1>0, <1>31 DEF Quiesce, ThreadState, PowerPlace
  <2> QED
    BY <1>31, <2>1 DEF Emptied
<1>32. CASE t = Power /\ Resume
  <2>1. th'[Power].pc \notin {"idling", "inactive", "victim", "stop"}
    BY <1>0, <1>32 DEF Resume, ThreadState, Idle
  <2> QED
    BY <1>32, <2>1 DEF Emptied
<1> QED
  BY <1>1, <1>2, <1>3, <1>4, <1>5, <1>6, <1>7, <1>8, <1>9, <1>10, <1>11,
     <1>12, <1>13, <1>14, <1>15, <1>16, <1>17, <1>18, <1>19, <1>20, <1>21,
     <1>22, <1>23, <1>24, <1>25, <1>26, <1>27, <1>28, <1>29, <1>30, <1>31,
     <1>32, ApertureAssumption
  DEF Moves, Step, Search, Evict

\* Every step keeps it.
LEMMA EmptiedStep ==
  ASSUME Facts, [Next]_vars, StateTypes'
  PROVE  \A s \in Thread : Emptied(s)'
<1>0. dirty' \subseteq Obj /\ th \in [Thread -> ThreadState]
  BY DEF StateTypes, Facts
<1>1. ASSUME NEW t \in Thread, Moves(t), NEW s \in Thread PROVE Emptied(s)'
  <2>1. CASE s = t
    BY <1>1, <2>1, OwnEmptied
  <2>2. CASE /\ s # t /\ t \in Process
             /\ \E written \in SUBSET Obj : Dispatch(t, written)
    <3>1. th[s].pc \notin Evicting \cup {"stop"} /\ th'[s] = th[s]
      BY <1>1, <2>2, DispatchAlone, OneMoves DEF Facts
    <3> QED
      BY <3>1 DEF Emptied, Evicting
  <2>3. CASE /\ s # t
             /\ t \in Process =>
                  \A written \in SUBSET Obj : ~Dispatch(t, written)
    <3>1. th'[s] = th[s]
      BY <1>1, <2>3, OneMoves DEF Facts
    <3>2. \A o \in Obj : Lessens(o)
      BY <1>1, <2>3, MovesAct, ActsLessen
    <3> QED
      BY <1>0, <3>1, <3>2, EmptiedKept
  <2> QED
    BY <2>1, <2>2, <2>3
<1>2. CASE RetireWork \/ UNCHANGED vars
  <2>1. Acts(Power) /\ Power \in Thread /\ Power \notin Process
    BY <1>2, ApertureAssumption
    DEF RetireWork, vars, objVars, Acts, Leaves, Thread
  <2>2. \A o \in Obj : Lessens(o)
    BY <2>1, ActsLessen
  <2>3. th' = th
    BY <1>2 DEF RetireWork, vars
  <2> QED
    BY <1>0, <2>2, <2>3, EmptiedKept
<1>3. ASSUME GpuStep, NEW s \in Thread PROVE Emptied(s)'
  <2>1. Counting(s) /\ Emptied(s) /\ th[s] \in ThreadState
    BY <1>0, <1>3, Uncounted DEF Facts
  <2>2. UNCHANGED <<list, dirty>>
    BY <1>3 DEF GpuStep
  <2>3. Busy' = Busy /\ On("active")' = On("active")
    BY <2>2 DEF Busy, On
  <2>4. th'[s].seq = IF th[s].seq > 0 THEN th[s].seq - 1 ELSE th[s].seq
    BY <1>3, <2>1 DEF GpuStep, ThreadState
  <2>5. ASSUME NEW o \in On("active"),
               lrs[o] <= th[s].seq PROVE lrs'[o] <= th'[s].seq
    <3>1. lrs[o] \in Nat /\ th[s].seq \in Nat /\ o \in Obj
      BY <2>1 DEF Facts, StateTypes, On, ThreadState
    <3>2. lrs'[o] = IF lrs[o] > 0 THEN lrs[o] - 1 ELSE 0
      BY <1>3, <3>1 DEF GpuStep
    <3> QED
      BY <2>4, <2>5, <3>1, <3>2
  <2> QED
    BY <2>1, <2>2, <2>3, <2>5 DEF Emptied, Counting
<1> QED
  BY <1>1, <1>2, <1>3, Movers DEF Facts

-----------------------------------------------------------------------------
(* The terminal and the gate.                                              *)

\* While the machine is away or quiet, a thread stays in front of dev_lock or
\* of the gate, and behind the gate only does anything to the lists.
Drowsy(t) ==
    /\ suspended /\ (th[t].op = "exec" => th[t].pc \in Waiting)
           => (th'[t].op = "exec" => th'[t].pc \in Waiting)
    /\ quiet /\ (th[t].op = "enter" => th[t].pc = "gate")
           => (th'[t].op = "enter" => th'[t].pc = "gate")
    /\ th[t].pc \in Outside => list' = list

\* The gate counts who passes it.
Passed(t) ==
    \/ entries' = entries /\ (th'[t].pc \in Outside <=> th[t].pc \in Outside)
    \/ /\ entries' = entries + 1 /\ ~quiet
       /\ th[t].pc \in Outside /\ th'[t].pc \notin Outside
    \/ /\ entries' = entries - 1
       /\ th[t].pc \notin Outside /\ th'[t].pc \in Outside

\* Every step of a process is such.
LEMMA OwnDrowsy ==
  ASSUME NEW t \in Process, Facts, Moves(t)
  PROVE  Drowsy(t)
<1>0. /\ th \in [Thread -> ThreadState] /\ th[t] \in ThreadState
      /\ t \in Thread
      /\ Place(t)
  BY DEF Facts, StateTypes, Places, Thread
<1>1. CASE t \in Process /\ Gate(t)
  <2>1. /\ ~quiet /\ th'[t].op = th[t].op /\ list' = list /\ th[t].pc = "gate"
        /\ th'[t].pc \in {"hold", "lock"}
        /\ th'[t].pc = "hold" => th[t].op \in {"fault", "set_domain"}
    BY <1>0, <1>1 DEF Gate, Goto, Tried, ThreadState, objVars
  <2> QED
    BY <2>1 DEF Drowsy, Waiting
<1>2. CASE t \in Process /\ LockRead(t)
  <2>1. /\ th[t].pc = "lock" /\ list' = list
        /\ \/ th'[t].op = "none"
           \/ /\ th'[t].op = th[t].op /\ th[t].op # "enter"
              /\ th[t].op \in {"fault", "access", "leave"} \/ ~suspended
    BY <1>0, <1>2 DEF LockRead, Goto, Idle, ThreadState, objVars
  <2> QED
    BY <2>1 DEF Drowsy, Outside
<1>3. CASE t \in Process /\ LockExec(t)
  <2>1. /\ th[t].pc = "lock" /\ list' = list
        /\ \/ th'[t].op = "none"
           \/ /\ th'[t].op = th[t].op /\ th[t].op # "enter"
              /\ th[t].op \in {"fault", "access", "leave"} \/ ~suspended
    BY <1>0, <1>3
    DEF LockExec, LockWrite, Exit, Counted, Goto, Idle, ThreadState, objVars
  <2> QED
    BY <2>1 DEF Drowsy, Outside
<1>4. CASE t \in Process /\ LockLeave(t)
  <2>1. /\ th[t].pc = "lock" /\ list' = list
        /\ \/ th'[t].op = "none"
           \/ /\ th'[t].op = th[t].op /\ th[t].op # "enter"
              /\ th[t].op \in {"fault", "access", "leave"} \/ ~suspended
    BY <1>0, <1>4
    DEF LockLeave, LockWrite, Exit, Counted, Idle, ThreadState, objVars
  <2> QED
    BY <2>1 DEF Drowsy, Outside
<1>5. CASE t \in Process /\ LockEnter(t)
  <2>1. /\ th[t].pc = "lock" /\ list' = list
        /\ \/ th'[t].op = "none"
           \/ /\ th'[t].op = th[t].op /\ th[t].op # "enter"
              /\ th[t].op \in {"fault", "access", "leave"} \/ ~suspended
    BY <1>0, <1>5
    DEF LockEnter, LockWrite, Exit, Counted, Idle, ThreadState, objVars
  <2> QED
    BY <2>1 DEF Drowsy, Outside
<1>6. CASE t \in Process /\ Hold(t)
  <2>1. th'[t].op = th[t].op \/ th'[t].op = "none"
    BY <1>0, <1>6 DEF Hold, Goto, ThreadState
  <2>2. th[t].pc \notin Waiting
    BY <1>6 DEF Hold, Waiting
  <2>3. th[t].pc \notin Outside
    BY <2>2 DEF Waiting, Outside
  <2> QED
    BY <2>1, <2>2, <2>3 DEF Drowsy, Waiting
<1>7. CASE t \in Process /\ Bind(t)
  <2>1. th'[t].op = th[t].op \/ th'[t].op = "none"
    <3>1. CASE Pin(t, Cur(t)) /\ th[t].op = "exec"
      BY <1>0, <3>1, PinMore
    <3>2. CASE ~(Pin(t, Cur(t)) /\ th[t].op = "exec")
      BY <1>0, <1>7, <3>2 DEF Bind, Pin, PinFails, Goto, ThreadState
    <3> QED
      BY <3>1, <3>2
  <2>2. th[t].pc \notin Waiting
    BY <1>7 DEF Bind, Waiting
  <2>3. th[t].pc \notin Outside
    BY <2>2 DEF Waiting, Outside
  <2> QED
    BY <2>1, <2>2, <2>3 DEF Drowsy, Waiting
<1>8. CASE t \in Process /\ BindFull(t)
  <2>1. th'[t].op = th[t].op \/ th'[t].op = "none"
    BY <1>0, <1>8 DEF BindFull, ThreadState
  <2>2. th[t].pc \notin Waiting
    BY <1>8 DEF BindFull, Waiting
  <2>3. th[t].pc \notin Outside
    BY <2>2 DEF Waiting, Outside
  <2> QED
    BY <2>1, <2>2, <2>3 DEF Drowsy, Waiting
<1>9. CASE t \in Process /\ SearchRetire(t)
  <2>1. th'[t].op = th[t].op \/ th'[t].op = "none"
    BY <1>0, <1>9 DEF SearchRetire, Retire, Goto, ThreadState
  <2>2. th[t].pc \notin Waiting
    BY <1>9 DEF SearchRetire, Waiting
  <2>3. th[t].pc \notin Outside
    BY <2>2 DEF Waiting, Outside
  <2> QED
    BY <2>1, <2>2, <2>3 DEF Drowsy, Waiting
<1>10. CASE t \in Process /\ FindWait(t)
  <2>1. th'[t].op = th[t].op \/ th'[t].op = "none"
    BY <1>0, <1>10 DEF FindWait, NotFound, WaitFor, ThreadState
  <2>2. th[t].pc \notin Waiting
    BY <1>10 DEF FindWait, Waiting, NotFound
  <2>3. th[t].pc \notin Outside
    BY <2>2 DEF Waiting, Outside
  <2> QED
    BY <2>1, <2>2, <2>3 DEF Drowsy, Waiting
<1>11. CASE t \in Process /\ FindFlush(t)
  <2>1. th'[t].op = th[t].op \/ th'[t].op = "none"
    BY <1>0, <1>11 DEF FindFlush, NotFound, Flush, Flushed, ThreadState
  <2>2. th[t].pc \notin Waiting
    BY <1>11 DEF FindFlush, Waiting, NotFound
  <2>3. th[t].pc \notin Outside
    BY <2>2 DEF Waiting, Outside
  <2> QED
    BY <2>1, <2>2, <2>3 DEF Drowsy, Waiting
<1>12. CASE t \in Process /\ FindEvict(t)
  <2>1. th'[t].op = th[t].op \/ th'[t].op = "none"
    BY <1>0, <1>12 DEF FindEvict, NotFound, ThreadState
  <2>2. th[t].pc \notin Waiting
    BY <1>12 DEF FindEvict, Waiting, NotFound
  <2>3. th[t].pc \notin Outside
    BY <2>2 DEF Waiting, Outside
  <2> QED
    BY <2>1, <2>2, <2>3 DEF Drowsy, Waiting
<1>13. ASSUME t \in Process, NEW b \in Obj, FindInactive(t, b)
      PROVE  Drowsy(t)
  <2>1. th'[t].op = th[t].op \/ th'[t].op = "none"
    BY <1>0, <1>13 DEF FindInactive, Goto, ThreadState
  <2>2. th[t].pc \notin Waiting
    BY <1>13 DEF FindInactive, Waiting
  <2>3. th[t].pc \notin Outside
    BY <2>2 DEF Waiting, Outside
  <2> QED
    BY <2>1, <2>2, <2>3 DEF Drowsy, Waiting
<1>14. CASE InactiveUnbind(t)
  <2>1. th'[t].op = th[t].op \/ th'[t].op = "none"
    BY <1>0, <1>14 DEF InactiveUnbind, ThreadState
  <2>2. th[t].pc \notin Waiting
    BY <1>14 DEF InactiveUnbind, Waiting
  <2>3. th[t].pc \notin Outside
    BY <2>2 DEF Waiting, Outside
  <2> QED
    BY <2>1, <2>2, <2>3 DEF Drowsy, Waiting
<1>15. CASE InactiveEnd(t)
  <2>1. th'[t].op = th[t].op \/ th'[t].op = "none"
    BY <1>0, <1>15 DEF InactiveEnd, ThreadState
  <2>2. th[t].pc \notin Waiting
    BY <1>15 DEF InactiveEnd, Waiting
  <2>3. th[t].pc \notin Outside
    BY <2>2 DEF Waiting, Outside
  <2> QED
    BY <2>1, <2>2, <2>3 DEF Drowsy, Waiting
<1>16. ASSUME NEW b \in Obj, InactivePick(t, b)
      PROVE  Drowsy(t)
  <2>1. th'[t].op = th[t].op \/ th'[t].op = "none"
    BY <1>0, <1>16 DEF InactivePick, ThreadState
  <2>2. th[t].pc \notin Waiting
    BY <1>16 DEF InactivePick, Waiting
  <2>3. th[t].pc \notin Outside
    BY <2>2 DEF Waiting, Outside
  <2> QED
    BY <2>1, <2>2, <2>3 DEF Drowsy, Waiting
<1>17. CASE t \in Process /\ EverythingGone(t)
  <2>1. th'[t].op = th[t].op \/ th'[t].op = "none"
    BY <1>0, <1>17 DEF EverythingGone, ThreadState
  <2>2. th[t].pc \notin Waiting
    BY <1>17 DEF EverythingGone, Waiting
  <2>3. th[t].pc \notin Outside
    BY <2>2 DEF Waiting, Outside
  <2> QED
    BY <2>1, <2>2, <2>3 DEF Drowsy, Waiting
<1>18. CASE t \in Process /\ EverythingFlush(t)
  <2>1. th'[t].op = th[t].op \/ th'[t].op = "none"
    BY <1>0, <1>18 DEF EverythingFlush, Flush, Flushed, ThreadState
  <2>2. th[t].pc \notin Waiting
    BY <1>18 DEF EverythingFlush, Waiting
  <2>3. th[t].pc \notin Outside
    BY <2>2 DEF Waiting, Outside
  <2> QED
    BY <2>1, <2>2, <2>3 DEF Drowsy, Waiting
<1>19. CASE t \in Process /\ EverythingIdle(t)
  <2>1. th'[t].op = th[t].op \/ th'[t].op = "none"
    BY <1>0, <1>19 DEF EverythingIdle, Retire, Goto, ThreadState
  <2>2. th[t].pc \notin Waiting
    BY <1>19 DEF EverythingIdle, Waiting
  <2>3. th[t].pc \notin Outside
    BY <2>2 DEF Waiting, Outside
  <2> QED
    BY <2>1, <2>2, <2>3 DEF Drowsy, Waiting
<1>20. CASE t \in Process /\ Wait(t)
  <2>1. th'[t].op = th[t].op \/ th'[t].op = "none"
    BY <1>0, <1>20 DEF Wait, Retire, Goto, ThreadState
  <2>2. th[t].pc \notin Waiting
    BY <1>20 DEF Wait, Waiting
  <2>3. th[t].pc \notin Outside
    BY <2>2 DEF Waiting, Outside
  <2> QED
    BY <2>1, <2>2, <2>3 DEF Drowsy, Waiting
<1>21. CASE t \in Process /\ DomainFlush(t)
  <2>1. th'[t].op = th[t].op \/ th'[t].op = "none"
    BY <1>0, <1>21 DEF DomainFlush, Flush, Flushed, WaitFor, ThreadState
  <2>2. th[t].pc \notin Waiting
    BY <1>21 DEF DomainFlush, Waiting
  <2>3. th[t].pc \notin Outside
    BY <2>2 DEF Waiting, Outside
  <2> QED
    BY <2>1, <2>2, <2>3 DEF Drowsy, Waiting
<1>22. CASE t \in Process /\ DomainWait(t)
  <2>1. th'[t].op = th[t].op \/ th'[t].op = "none"
    BY <1>0, <1>22 DEF DomainWait, WaitFor, ThreadState
  <2>2. th[t].pc \notin Waiting
    BY <1>22 DEF DomainWait, Waiting
  <2>3. th[t].pc \notin Outside
    BY <2>2 DEF Waiting, Outside
  <2> QED
    BY <2>1, <2>2, <2>3 DEF Drowsy, Waiting
<1>23. CASE t \in Process /\ Domain(t)
  <2>1. th'[t].op = th[t].op \/ th'[t].op = "none"
    BY <1>0, <1>23 DEF Domain, Goto, ThreadState
  <2>2. th[t].pc \notin Waiting
    BY <1>23 DEF Domain, Waiting
  <2>3. th[t].pc \notin Outside
    BY <2>2 DEF Waiting, Outside
  <2> QED
    BY <2>1, <2>2, <2>3 DEF Drowsy, Waiting
<1>24. CASE t \in Process /\ Done(t)
  <2>1. th'[t].op = th[t].op \/ th'[t].op = "none"
    BY <1>0, <1>24
    DEF Done, Exit, Counted, Unpinned, Released, ThreadState, Idle
  <2>2. th[t].pc \notin Waiting
    BY <1>24 DEF Done, Waiting
  <2>3. th[t].pc \notin Outside
    BY <2>2 DEF Waiting, Outside
  <2> QED
    BY <2>1, <2>2, <2>3 DEF Drowsy, Waiting
<1>25. ASSUME t \in Process, NEW w \in SUBSET Obj, Dispatch(t, w)
      PROVE  Drowsy(t)
  <2>1. th'[t].op = th[t].op \/ th'[t].op = "none"
    BY <1>0, <1>25 DEF Dispatch, Released, Held, ThreadState, Idle
  <2>2. th[t].pc \notin Waiting
    BY <1>25 DEF Dispatch, Waiting
  <2>3. th[t].pc \notin Outside
    BY <2>2 DEF Waiting, Outside
  <2> QED
    BY <2>1, <2>2, <2>3 DEF Drowsy, Waiting
<1>26. CASE t \in Process /\ Retry(t)
  <2>1. th'[t].op = th[t].op \/ th'[t].op = "none"
    BY <1>0, <1>26
    DEF Retry, Retries, UnpinAll, Unpinned, Released, ThreadState
  <2>2. th[t].pc \notin Waiting
    BY <1>26 DEF Retry, Waiting
  <2>3. th[t].pc \notin Outside
    BY <2>2 DEF Waiting, Outside
  <2> QED
    BY <2>1, <2>2, <2>3 DEF Drowsy, Waiting
<1>27. CASE t \in Process /\ Fail(t)
  <2>1. th'[t].op = th[t].op \/ th'[t].op = "none"
    BY <1>0, <1>27
    DEF Fail, Retries, UnpinAll, Unpinned, Released, Exit, Counted,
        ThreadState, Idle
  <2>2. th[t].pc \notin Waiting
    BY <1>27 DEF Fail, Waiting
  <2>3. th[t].pc \notin Outside
    BY <2>2 DEF Waiting, Outside
  <2> QED
    BY <2>1, <2>2, <2>3 DEF Drowsy, Waiting
<1>28. CASE t \in Process /\ LeaveStop(t)
  <2>1. th'[t].op = th[t].op \/ th'[t].op = "none"
    BY <1>0, <1>28 DEF LeaveStop, Exit, Counted, ThreadState, Idle
  <2>2. th[t].pc \notin Waiting
    BY <1>28 DEF LeaveStop, Waiting
  <2>3. th[t].pc \notin Outside
    BY <2>2 DEF Waiting, Outside
  <2> QED
    BY <2>1, <2>2, <2>3 DEF Drowsy, Waiting
<1>29. ASSUME t \in Process, NEW op \in Ops, NEW d \in Seq(Obj),
              CallOK(op, d), Call(t, op, d)
      PROVE  Drowsy(t)
  <2>1. th'[t].pc = "gate" /\ list' = list
    BY <1>0, <1>29 DEF Call, Idle, objVars
  <2> QED
    BY <2>1 DEF Drowsy, Waiting
<1> QED
  BY <1>1, <1>2, <1>3, <1>4, <1>5, <1>6, <1>7, <1>8, <1>9, <1>10, <1>11,
     <1>12, <1>13, <1>14, <1>15, <1>16, <1>17, <1>18, <1>19, <1>20, <1>21,
     <1>22, <1>23, <1>24, <1>25, <1>26, <1>27, <1>28, <1>29,
     ApertureAssumption
  DEF Moves, Step, Search, Evict

\* And counted.
LEMMA OwnPassed ==
  ASSUME NEW t \in Process, Facts, Moves(t)
  PROVE  Passed(t)
<1>0. /\ th \in [Thread -> ThreadState] /\ th[t] \in ThreadState
      /\ t \in Thread
      /\ Place(t)
  BY DEF Facts, StateTypes, Places, Thread
<1>1. CASE t \in Process /\ Gate(t)
  <2>1. /\ entries' = entries + 1 /\ th'[t].pc \in {"hold", "lock"}
        /\ th[t].pc = "gate" /\ ~quiet
    BY <1>0, <1>1 DEF Gate, Goto, Counted, ThreadState
  <2> QED
    BY <2>1 DEF Passed, Outside
<1>2. CASE t \in Process /\ LockRead(t)
  <2>1. CASE th'[t] = Idle /\ entries' = entries - 1
    BY <2>1, <1>2 DEF LockRead, Passed, Outside, Idle
  <2>2. CASE ~(th'[t] = Idle /\ entries' = entries - 1)
    <3>1. /\ entries' = entries /\ th[t].pc \notin Outside
          /\ th'[t].pc \notin Outside
      BY <1>0, <2>2, <1>2 DEF LockRead, Goto, ThreadState, Outside
    <3> QED
      BY <3>1 DEF Passed
  <2> QED
    BY <2>1, <2>2
<1>3. CASE t \in Process /\ LockExec(t)
  <2>1. CASE th'[t] = Idle /\ entries' = entries - 1
    BY <2>1, <1>3 DEF LockExec, LockWrite, Passed, Outside, Idle
  <2>2. CASE ~(th'[t] = Idle /\ entries' = entries - 1)
    <3>1. /\ entries' = entries /\ th[t].pc \notin Outside
          /\ th'[t].pc \notin Outside
      BY <1>0, <2>2, <1>3
      DEF LockExec, LockWrite, Exit, Counted, Goto, ThreadState, gateVars,
          Outside
    <3> QED
      BY <3>1 DEF Passed
  <2> QED
    BY <2>1, <2>2
<1>4. CASE t \in Process /\ LockLeave(t)
  <2>1. CASE th'[t] = Idle /\ entries' = entries - 1
    BY <2>1, <1>4 DEF LockLeave, LockWrite, Passed, Outside, Idle
  <2>2. CASE ~(th'[t] = Idle /\ entries' = entries - 1)
    <3>1. /\ entries' = entries /\ th[t].pc \notin Outside
          /\ th'[t].pc \notin Outside
      BY <1>0, <2>2, <1>4
      DEF LockLeave, LockWrite, Exit, Counted, ThreadState, gateVars, Outside
    <3> QED
      BY <3>1 DEF Passed
  <2> QED
    BY <2>1, <2>2
<1>5. CASE t \in Process /\ LockEnter(t)
  <2>1. /\ entries' = entries - 1 /\ th[t].pc \notin Outside
        /\ th'[t].pc \in Outside
    BY <1>0, <1>5 DEF LockEnter, LockWrite, Exit, Counted, Idle, Outside
  <2> QED
    BY <2>1 DEF Passed
<1>6. CASE t \in Process /\ Hold(t)
  <2>1. /\ entries' = entries /\ th[t].pc \notin Outside
        /\ th'[t].pc \notin Outside
    BY <1>0, <1>6 DEF Hold, Goto, ThreadState, Idle, gateVars, Outside
  <2> QED
    BY <2>1 DEF Passed
<1>7. CASE t \in Process /\ Bind(t)
  <2>1. entries' = entries /\ th[t].pc \notin Outside
    BY <1>0, <1>7 DEF Bind, gateVars, Outside
  <2>2. th'[t].pc \notin Outside
    <3>1. CASE Pin(t, Cur(t)) /\ th[t].op = "exec"
      <4>1. th'[t].pc \in {"dispatch", "hold"}
        BY <1>0, <3>1, PinMore
      <4> QED
        BY <4>1 DEF Outside
    <3>2. CASE ~(Pin(t, Cur(t)) /\ th[t].op = "exec")
      BY <1>0, <1>7, <3>2 DEF Bind, Pin, PinFails, Goto, ThreadState, Outside
    <3> QED
      BY <3>1, <3>2
  <2> QED
    BY <2>1, <2>2 DEF Passed
<1>8. CASE t \in Process /\ BindFull(t)
  <2>1. /\ entries' = entries /\ th[t].pc \notin Outside
        /\ th'[t].pc \notin Outside
    BY <1>0, <1>8 DEF BindFull, ThreadState, Idle, gateVars, Outside
  <2> QED
    BY <2>1 DEF Passed
<1>9. CASE t \in Process /\ SearchRetire(t)
  <2>1. /\ entries' = entries /\ th[t].pc \notin Outside
        /\ th'[t].pc \notin Outside
    BY <1>0, <1>9
    DEF SearchRetire, Retire, Goto, ThreadState, Idle, gateVars, Outside
  <2> QED
    BY <2>1 DEF Passed
<1>10. CASE t \in Process /\ FindWait(t)
  <2>1. /\ entries' = entries /\ th[t].pc \notin Outside
        /\ th'[t].pc \notin Outside
    BY <1>0, <1>10
    DEF FindWait, NotFound, WaitFor, ThreadState, Idle, gateVars, Outside
  <2> QED
    BY <2>1 DEF Passed
<1>11. CASE t \in Process /\ FindFlush(t)
  <2>1. /\ entries' = entries /\ th[t].pc \notin Outside
        /\ th'[t].pc \notin Outside
    BY <1>0, <1>11
    DEF FindFlush, NotFound, Flush, Flushed, ThreadState, Idle, gateVars,
        Outside
  <2> QED
    BY <2>1 DEF Passed
<1>12. CASE t \in Process /\ FindEvict(t)
  <2>1. /\ entries' = entries /\ th[t].pc \notin Outside
        /\ th'[t].pc \notin Outside
    BY <1>0, <1>12
    DEF FindEvict, NotFound, ThreadState, Idle, gateVars, Outside
  <2> QED
    BY <2>1 DEF Passed
<1>13. ASSUME t \in Process, NEW b \in Obj, FindInactive(t, b)
      PROVE  Passed(t)
  <2>1. /\ entries' = entries /\ th[t].pc \notin Outside
        /\ th'[t].pc \notin Outside
    BY <1>0, <1>13
    DEF FindInactive, Goto, ThreadState, Idle, gateVars, Outside
  <2> QED
    BY <2>1 DEF Passed
<1>14. CASE InactiveUnbind(t)
  <2>1. /\ entries' = entries /\ th[t].pc \notin Outside
        /\ th'[t].pc \notin Outside
    BY <1>0, <1>14 DEF InactiveUnbind, ThreadState, Idle, gateVars, Outside
  <2> QED
    BY <2>1 DEF Passed
<1>15. CASE InactiveEnd(t)
  <2>1. /\ entries' = entries /\ th'[t].pc = th[t].then
        /\ th[t].pc = "inactive"
    BY <1>0, <1>15 DEF InactiveEnd, ThreadState, gateVars
  <2>2. th[t].then \in {"stop", "hold", "bind"}
    BY <1>0, <2>1 DEF Place, Evicting
  <2> QED
    BY <2>1, <2>2 DEF Passed, Outside
<1>16. ASSUME NEW b \in Obj, InactivePick(t, b)
      PROVE  Passed(t)
  <2>1. /\ entries' = entries /\ th[t].pc \notin Outside
        /\ th'[t].pc \notin Outside
    BY <1>0, <1>16 DEF InactivePick, ThreadState, Idle, gateVars, Outside
  <2> QED
    BY <2>1 DEF Passed
<1>17. CASE t \in Process /\ EverythingGone(t)
  <2>1. /\ entries' = entries /\ th[t].pc \notin Outside
        /\ th'[t].pc \notin Outside
    BY <1>0, <1>17 DEF EverythingGone, ThreadState, Idle, gateVars, Outside
  <2> QED
    BY <2>1 DEF Passed
<1>18. CASE t \in Process /\ EverythingFlush(t)
  <2>1. /\ entries' = entries /\ th[t].pc \notin Outside
        /\ th'[t].pc \notin Outside
    BY <1>0, <1>18
    DEF EverythingFlush, Flush, Flushed, ThreadState, Idle, gateVars, Outside
  <2> QED
    BY <2>1 DEF Passed
<1>19. CASE t \in Process /\ EverythingIdle(t)
  <2>1. /\ entries' = entries /\ th[t].pc \notin Outside
        /\ th'[t].pc \notin Outside
    BY <1>0, <1>19
    DEF EverythingIdle, Retire, Goto, ThreadState, Idle, gateVars, Outside
  <2> QED
    BY <2>1 DEF Passed
<1>20. CASE t \in Process /\ Wait(t)
  <2>1. /\ entries' = entries /\ th'[t].pc = th[t].then /\ th[t].pc = "wait"
    BY <1>0, <1>20 DEF Wait, Goto, ThreadState, gateVars
  <2>2. th[t].then \in {"search", "done"}
    BY <1>0, <2>1 DEF Place
  <2> QED
    BY <2>1, <2>2 DEF Passed, Outside
<1>21. CASE t \in Process /\ DomainFlush(t)
  <2>1. /\ entries' = entries /\ th[t].pc \notin Outside
        /\ th'[t].pc \notin Outside
    BY <1>0, <1>21
    DEF DomainFlush, Flush, Flushed, WaitFor, ThreadState, Idle, gateVars,
        Outside
  <2> QED
    BY <2>1 DEF Passed
<1>22. CASE t \in Process /\ DomainWait(t)
  <2>1. /\ entries' = entries /\ th[t].pc \notin Outside
        /\ th'[t].pc \notin Outside
    BY <1>0, <1>22
    DEF DomainWait, WaitFor, ThreadState, Idle, gateVars, Outside
  <2> QED
    BY <2>1 DEF Passed
<1>23. CASE t \in Process /\ Domain(t)
  <2>1. /\ entries' = entries /\ th[t].pc \notin Outside
        /\ th'[t].pc \notin Outside
    BY <1>0, <1>23 DEF Domain, Goto, ThreadState, Idle, gateVars, Outside
  <2> QED
    BY <2>1 DEF Passed
<1>24. CASE t \in Process /\ Done(t)
  <2>1. /\ entries' = entries - 1 /\ th[t].pc \notin Outside
        /\ th'[t].pc \in Outside
    BY <1>0, <1>24 DEF Done, Exit, Counted, Unpinned, Released, Idle, Outside
  <2> QED
    BY <2>1 DEF Passed
<1>25. ASSUME t \in Process, NEW w \in SUBSET Obj, Dispatch(t, w)
      PROVE  Passed(t)
  <2>1. /\ entries' = entries - 1 /\ th[t].pc \notin Outside
        /\ th'[t].pc \in Outside
    BY <1>0, <1>25 DEF Dispatch, Released, Held, Idle, Outside
  <2> QED
    BY <2>1 DEF Passed
<1>26. CASE t \in Process /\ Retry(t)
  <2>1. /\ entries' = entries /\ th[t].pc \notin Outside
        /\ th'[t].pc \notin Outside
    BY <1>0, <1>26
    DEF Retry, Retries, UnpinAll, Unpinned, Released, ThreadState, Idle,
        gateVars, Outside
  <2> QED
    BY <2>1 DEF Passed
<1>27. CASE t \in Process /\ Fail(t)
  <2>1. /\ entries' = entries - 1 /\ th[t].pc \notin Outside
        /\ th'[t].pc \in Outside
    BY <1>0, <1>27
    DEF Fail, Retries, UnpinAll, Unpinned, Released, Exit, Counted, Idle,
        Outside
  <2> QED
    BY <2>1 DEF Passed
<1>28. CASE t \in Process /\ LeaveStop(t)
  <2>1. /\ entries' = entries - 1 /\ th[t].pc \notin Outside
        /\ th'[t].pc \in Outside
    BY <1>0, <1>28 DEF LeaveStop, Exit, Counted, Idle, Outside
  <2> QED
    BY <2>1 DEF Passed
<1>29. ASSUME t \in Process, NEW op \in Ops, NEW d \in Seq(Obj),
              CallOK(op, d), Call(t, op, d)
      PROVE  Passed(t)
  <2>1. entries' = entries /\ th'[t].pc = "gate" /\ th[t].pc = "idle"
    BY <1>0, <1>29 DEF Call, Idle, gateVars
  <2> QED
    BY <2>1 DEF Passed, Outside
<1> QED
  BY <1>1, <1>2, <1>3, <1>4, <1>5, <1>6, <1>7, <1>8, <1>9, <1>10, <1>11,
     <1>12, <1>13, <1>14, <1>15, <1>16, <1>17, <1>18, <1>19, <1>20, <1>21,
     <1>22, <1>23, <1>24, <1>25, <1>26, <1>27, <1>28, <1>29,
     ApertureAssumption
  DEF Moves, Step, Search, Evict

\* Only leavevt and entervt change mm.suspended.
Switches(t) ==
    \/ suspended' = suspended
    \/ t \in Process /\ (LeaveStop(t) \/ LockEnter(t))

\* Every step of a thread is such.
LEMMA SuspendMoves ==
  ASSUME NEW t \in Thread, Moves(t)
  PROVE  Switches(t)
<1>1. CASE t \in Process /\ Gate(t)
  BY <1>1 DEF Gate, Counted, Tried, Goto, Switches
<1>2. CASE t \in Process /\ LockRead(t)
  BY <1>2 DEF LockRead, Goto, Switches
<1>3. CASE t \in Process /\ LockExec(t)
  BY <1>3 DEF LockExec, LockWrite, Exit, Counted, Goto, Switches
<1>4. CASE t \in Process /\ LockLeave(t)
  BY <1>4 DEF LockLeave, LockWrite, Exit, Counted, Switches
<1>5. CASE t \in Process /\ LockEnter(t)
  BY <1>5 DEF LockEnter, LockWrite, Exit, Counted, Switches
<1>6. CASE t \in Process /\ Hold(t)
  BY <1>6 DEF Hold, Goto, Switches
<1>7. CASE t \in Process /\ Bind(t)
  BY <1>7 DEF Bind, Pin, PinFails, Faulted, Goto, Switches
<1>8. CASE t \in Process /\ BindFull(t)
  BY <1>8 DEF BindFull, Switches
<1>9. CASE t \in Process /\ SearchRetire(t)
  BY <1>9 DEF SearchRetire, Retire, Goto, Switches
<1>10. CASE t \in Process /\ FindWait(t)
  BY <1>10 DEF FindWait, NotFound, WaitFor, Switches
<1>11. CASE t \in Process /\ FindFlush(t)
  BY <1>11 DEF FindFlush, NotFound, Flush, Flushed, Switches
<1>12. CASE t \in Process /\ FindEvict(t)
  BY <1>12 DEF FindEvict, NotFound, Switches
<1>13. ASSUME t \in Process, NEW b \in Obj, FindInactive(t, b)
      PROVE  Switches(t)
  BY <1>13 DEF FindInactive, Goto, Switches
<1>14. CASE InactiveUnbind(t)
  BY <1>14 DEF InactiveUnbind, Switches
<1>15. CASE InactiveEnd(t)
  BY <1>15 DEF InactiveEnd, Switches
<1>16. ASSUME NEW b \in Obj, InactivePick(t, b)
      PROVE  Switches(t)
  BY <1>16 DEF InactivePick, Switches
<1>17. CASE t \in Process /\ EverythingGone(t)
  BY <1>17 DEF EverythingGone, Switches
<1>18. CASE t \in Process /\ EverythingFlush(t)
  BY <1>18 DEF EverythingFlush, Flush, Flushed, Switches
<1>19. CASE t \in Process /\ EverythingIdle(t)
  BY <1>19 DEF EverythingIdle, Retire, Goto, Switches
<1>20. CASE t \in Process /\ Wait(t)
  BY <1>20 DEF Wait, Retire, Goto, Switches
<1>21. CASE t \in Process /\ DomainFlush(t)
  BY <1>21 DEF DomainFlush, Flush, Flushed, WaitFor, Switches
<1>22. CASE t \in Process /\ DomainWait(t)
  BY <1>22 DEF DomainWait, WaitFor, Switches
<1>23. CASE t \in Process /\ Domain(t)
  BY <1>23 DEF Domain, Goto, Switches
<1>24. CASE t \in Process /\ Done(t)
  BY <1>24 DEF Done, Exit, Counted, Unpinned, Released, Switches
<1>25. ASSUME t \in Process, NEW w \in SUBSET Obj, Dispatch(t, w)
      PROVE  Switches(t)
  BY <1>25 DEF Dispatch, Released, Held, Switches
<1>26. CASE t \in Process /\ Retry(t)
  BY <1>26 DEF Retry, Retries, UnpinAll, Unpinned, Released, Switches
<1>27. CASE t \in Process /\ Fail(t)
  BY <1>27
  DEF Fail, Retries, UnpinAll, Unpinned, Released, Exit, Counted, Switches
<1>28. CASE t \in Process /\ LeaveStop(t)
  BY <1>28 DEF LeaveStop, Exit, Counted, Switches
<1>29. ASSUME t \in Process, NEW op \in Ops, NEW d \in Seq(Obj),
              CallOK(op, d), Call(t, op, d)
      PROVE  Switches(t)
  BY <1>29 DEF Call, Switches
<1>30. CASE t = Power /\ Suspend
  BY <1>30 DEF Suspend, Goto, Switches
<1>31. CASE t = Power /\ Quiesce
  BY <1>31 DEF Quiesce, Switches
<1>32. CASE t = Power /\ Resume
  BY <1>32 DEF Resume, Switches
<1> QED
  BY <1>1, <1>2, <1>3, <1>4, <1>5, <1>6, <1>7, <1>8, <1>9, <1>10, <1>11,
     <1>12, <1>13, <1>14, <1>15, <1>16, <1>17, <1>18, <1>19, <1>20, <1>21,
     <1>22, <1>23, <1>24, <1>25, <1>26, <1>27, <1>28, <1>29, <1>30, <1>31,
     <1>32
  DEF Moves, Step, Search, Evict

\* What asserts anything.
Asserts(t) ==
    \/ panic' = panic \/ InactiveUnbind(t) \/ InactiveEnd(t)
    \/ t \in Process /\ LockEnter(t)
    \/ t = Power /\ Quiesce

\* No other step does.
LEMMA PanicMoves ==
  ASSUME NEW t \in Thread, Moves(t)
  PROVE  Asserts(t)
<1>1. CASE t \in Process /\ Gate(t)
  BY <1>1 DEF Gate, Counted, Tried, Goto, Asserts
<1>2. CASE t \in Process /\ LockRead(t)
  BY <1>2 DEF LockRead, Goto, Asserts
<1>3. CASE t \in Process /\ LockExec(t)
  BY <1>3 DEF LockExec, LockWrite, Exit, Counted, Goto, Asserts
<1>4. CASE t \in Process /\ LockLeave(t)
  BY <1>4 DEF LockLeave, LockWrite, Exit, Counted, Asserts
<1>5. CASE t \in Process /\ LockEnter(t)
  BY <1>5 DEF Asserts
<1>6. CASE t \in Process /\ Hold(t)
  BY <1>6 DEF Hold, Goto, Asserts
<1>7. CASE t \in Process /\ Bind(t)
  BY <1>7 DEF Bind, Pin, PinFails, Faulted, Goto, Asserts
<1>8. CASE t \in Process /\ BindFull(t)
  BY <1>8 DEF BindFull, Asserts
<1>9. CASE t \in Process /\ SearchRetire(t)
  BY <1>9 DEF SearchRetire, Retire, Goto, Asserts
<1>10. CASE t \in Process /\ FindWait(t)
  BY <1>10 DEF FindWait, NotFound, WaitFor, Asserts
<1>11. CASE t \in Process /\ FindFlush(t)
  BY <1>11 DEF FindFlush, NotFound, Flush, Flushed, Asserts
<1>12. CASE t \in Process /\ FindEvict(t)
  BY <1>12 DEF FindEvict, NotFound, Asserts
<1>13. ASSUME t \in Process, NEW b \in Obj, FindInactive(t, b)
      PROVE  Asserts(t)
  BY <1>13 DEF FindInactive, Goto, Asserts
<1>14. CASE InactiveUnbind(t)
  BY <1>14 DEF Asserts
<1>15. CASE InactiveEnd(t)
  BY <1>15 DEF Asserts
<1>16. ASSUME NEW b \in Obj, InactivePick(t, b)
      PROVE  Asserts(t)
  BY <1>16 DEF InactivePick, Asserts
<1>17. CASE t \in Process /\ EverythingGone(t)
  BY <1>17 DEF EverythingGone, Asserts
<1>18. CASE t \in Process /\ EverythingFlush(t)
  BY <1>18 DEF EverythingFlush, Flush, Flushed, Asserts
<1>19. CASE t \in Process /\ EverythingIdle(t)
  BY <1>19 DEF EverythingIdle, Retire, Goto, Asserts
<1>20. CASE t \in Process /\ Wait(t)
  BY <1>20 DEF Wait, Retire, Goto, Asserts
<1>21. CASE t \in Process /\ DomainFlush(t)
  BY <1>21 DEF DomainFlush, Flush, Flushed, WaitFor, Asserts
<1>22. CASE t \in Process /\ DomainWait(t)
  BY <1>22 DEF DomainWait, WaitFor, Asserts
<1>23. CASE t \in Process /\ Domain(t)
  BY <1>23 DEF Domain, Goto, Asserts
<1>24. CASE t \in Process /\ Done(t)
  BY <1>24 DEF Done, Exit, Counted, Unpinned, Released, Asserts
<1>25. ASSUME t \in Process, NEW w \in SUBSET Obj, Dispatch(t, w)
      PROVE  Asserts(t)
  BY <1>25 DEF Dispatch, Released, Held, Asserts
<1>26. CASE t \in Process /\ Retry(t)
  BY <1>26 DEF Retry, Retries, UnpinAll, Unpinned, Released, Asserts
<1>27. CASE t \in Process /\ Fail(t)
  BY <1>27
  DEF Fail, Retries, UnpinAll, Unpinned, Released, Exit, Counted, Asserts
<1>28. CASE t \in Process /\ LeaveStop(t)
  BY <1>28 DEF LeaveStop, Exit, Counted, Asserts
<1>29. ASSUME t \in Process, NEW op \in Ops, NEW d \in Seq(Obj),
              CallOK(op, d), Call(t, op, d)
      PROVE  Asserts(t)
  BY <1>29 DEF Call, Asserts
<1>30. CASE t = Power /\ Suspend
  BY <1>30 DEF Suspend, Goto, Asserts
<1>31. CASE t = Power /\ Quiesce
  BY <1>31 DEF Asserts
<1>32. CASE t = Power /\ Resume
  BY <1>32 DEF Resume, Asserts
<1> QED
  BY <1>1, <1>2, <1>3, <1>4, <1>5, <1>6, <1>7, <1>8, <1>9, <1>10, <1>11,
     <1>12, <1>13, <1>14, <1>15, <1>16, <1>17, <1>18, <1>19, <1>20, <1>21,
     <1>22, <1>23, <1>24, <1>25, <1>26, <1>27, <1>28, <1>29, <1>30, <1>31,
     <1>32
  DEF Moves, Step, Search, Evict

\* No process opens or closes the gate.
LEMMA QuietMoves ==
  ASSUME NEW t \in Process, Moves(t)
  PROVE  quiet' = quiet
<1>1. CASE t \in Process /\ Gate(t)
  BY <1>1 DEF Gate, Counted, Tried, Goto
<1>2. CASE t \in Process /\ LockRead(t)
  BY <1>2 DEF LockRead, Goto
<1>3. CASE t \in Process /\ LockExec(t)
  BY <1>3 DEF LockExec, LockWrite, Exit, Counted, Goto, gateVars
<1>4. CASE t \in Process /\ LockLeave(t)
  BY <1>4 DEF LockLeave, LockWrite, Exit, Counted, gateVars
<1>5. CASE t \in Process /\ LockEnter(t)
  BY <1>5 DEF LockEnter, LockWrite, Exit, Counted
<1>6. CASE t \in Process /\ Hold(t)
  BY <1>6 DEF Hold, Goto, gateVars
<1>7. CASE t \in Process /\ Bind(t)
  BY <1>7 DEF Bind, Pin, PinFails, Faulted, Goto, gateVars
<1>8. CASE t \in Process /\ BindFull(t)
  BY <1>8 DEF BindFull, gateVars
<1>9. CASE t \in Process /\ SearchRetire(t)
  BY <1>9 DEF SearchRetire, Retire, Goto, gateVars
<1>10. CASE t \in Process /\ FindWait(t)
  BY <1>10 DEF FindWait, NotFound, WaitFor, gateVars
<1>11. CASE t \in Process /\ FindFlush(t)
  BY <1>11 DEF FindFlush, NotFound, Flush, Flushed, gateVars
<1>12. CASE t \in Process /\ FindEvict(t)
  BY <1>12 DEF FindEvict, NotFound, gateVars
<1>13. ASSUME t \in Process, NEW b \in Obj, FindInactive(t, b)
      PROVE  quiet' = quiet
  BY <1>13 DEF FindInactive, Goto, gateVars
<1>14. CASE InactiveUnbind(t)
  BY <1>14 DEF InactiveUnbind, gateVars
<1>15. CASE InactiveEnd(t)
  BY <1>15 DEF InactiveEnd, gateVars
<1>16. ASSUME NEW b \in Obj, InactivePick(t, b)
      PROVE  quiet' = quiet
  BY <1>16 DEF InactivePick, gateVars
<1>17. CASE t \in Process /\ EverythingGone(t)
  BY <1>17 DEF EverythingGone, gateVars
<1>18. CASE t \in Process /\ EverythingFlush(t)
  BY <1>18 DEF EverythingFlush, Flush, Flushed, gateVars
<1>19. CASE t \in Process /\ EverythingIdle(t)
  BY <1>19 DEF EverythingIdle, Retire, Goto, gateVars
<1>20. CASE t \in Process /\ Wait(t)
  BY <1>20 DEF Wait, Retire, Goto, gateVars
<1>21. CASE t \in Process /\ DomainFlush(t)
  BY <1>21 DEF DomainFlush, Flush, Flushed, WaitFor, gateVars
<1>22. CASE t \in Process /\ DomainWait(t)
  BY <1>22 DEF DomainWait, WaitFor, gateVars
<1>23. CASE t \in Process /\ Domain(t)
  BY <1>23 DEF Domain, Goto, gateVars
<1>24. CASE t \in Process /\ Done(t)
  BY <1>24 DEF Done, Exit, Counted, Unpinned, Released
<1>25. ASSUME t \in Process, NEW w \in SUBSET Obj, Dispatch(t, w)
      PROVE  quiet' = quiet
  BY <1>25 DEF Dispatch, Released, Held
<1>26. CASE t \in Process /\ Retry(t)
  BY <1>26 DEF Retry, Retries, UnpinAll, Unpinned, Released, gateVars
<1>27. CASE t \in Process /\ Fail(t)
  BY <1>27 DEF Fail, Retries, UnpinAll, Unpinned, Released, Exit, Counted
<1>28. CASE t \in Process /\ LeaveStop(t)
  BY <1>28 DEF LeaveStop, Exit, Counted
<1>29. ASSUME t \in Process, NEW op \in Ops, NEW d \in Seq(Obj),
              CallOK(op, d), Call(t, op, d)
      PROVE  quiet' = quiet
  BY <1>29 DEF Call, gateVars
<1> QED
  BY <1>1, <1>2, <1>3, <1>4, <1>5, <1>6, <1>7, <1>8, <1>9, <1>10, <1>11,
     <1>12, <1>13, <1>14, <1>15, <1>16, <1>17, <1>18, <1>19, <1>20, <1>21,
     <1>22, <1>23, <1>24, <1>25, <1>26, <1>27, <1>28, <1>29,
     ApertureAssumption
  DEF Moves, Step, Search, Evict

\* While the terminal is left, nothing is given to the GPU.
LEMMA AwayStep ==
  ASSUME Facts, [Next]_vars, StateTypes'
  PROVE  Away'
<1>0. /\ th \in [Thread -> ThreadState] /\ Away /\ Power \in Thread
      /\ dirty' \subseteq Obj
      /\ \A s \in Process : s \in Thread
  BY DEF Facts, StateTypes, Thread
<1>1. ASSUME suspended, suspended', \A o \in Obj : Lessens(o),
             \A s \in Process :
                 (th[s].op = "exec" => th[s].pc \in Waiting)
                     => (th'[s].op = "exec" => th'[s].pc \in Waiting)
      PROVE  Away'
  <2>1. Busy = {} /\ \A s \in Process : th[s].op = "exec" =>
          th[s].pc \in Waiting
    BY <1>0, <1>1 DEF Away
  <2>2. Busy' = {}
    BY <1>1, <2>1 DEF Busy, On, Lessens
  <2> QED
    BY <1>1, <2>1, <2>2 DEF Away
<1>2. ASSUME NEW t \in Thread, Moves(t), suspended' = suspended PROVE Away'
  <2>1. CASE ~suspended
    BY <1>2, <2>1 DEF Away
  <2>2. CASE suspended
    <3>1. t \in Process => \A written \in SUBSET Obj : ~Dispatch(t, written)
      <4>1. ASSUME NEW written, t \in Process,
                   Dispatch(t, written) PROVE FALSE
        <5>1. th[t].pc = "dispatch" /\ Place(t)
          BY <4>1 DEF Dispatch, Facts, Places
        <5>2. th[t].op = "exec"
          BY <5>1 DEF Place
        <5> QED
          BY <1>0, <2>2, <4>1, <5>1, <5>2 DEF Away, Waiting
      <4> QED
        BY <4>1
    <3>2. \A o \in Obj : Lessens(o)
      BY <1>2, <3>1, MovesAct, ActsLessen
    <3>3. ASSUME NEW s \in Process, th[s].op = "exec" => th[s].pc \in Waiting
          PROVE  th'[s].op = "exec" => th'[s].pc \in Waiting
      <4>1. CASE s = t
        BY <1>2, <2>2, <3>3, <4>1, OwnDrowsy DEF Drowsy
      <4>2. CASE s # t
        <5>1. th'[s] = th[s]
          BY <1>0, <1>2, <4>2, OneMoves DEF Facts
        <5> QED
          BY <3>3, <5>1
      <4> QED
        BY <4>1, <4>2
    <3> QED
      BY <1>1, <1>2, <2>2, <3>2, <3>3
  <2> QED
    BY <2>1, <2>2
<1>3. ASSUME NEW t \in Process, LockEnter(t) PROVE Away'
  BY <1>3 DEF LockEnter, Away
<1>4. ASSUME NEW t \in Process, Moves(t), LeaveStop(t) PROVE Away'
  <2>1. /\ th[t].pc = "stop" /\ Emptied(t) /\ Place(t) /\ Locked(t)
        /\ th[t] \in ThreadState /\ list' = list
    BY <1>0, <1>4 DEF LeaveStop, objVars, Facts, Places, Locks
  <2>2. Busy' = {}
    BY <2>1 DEF Emptied, Busy, On
  <2>3. th[t].op = "leave"
    BY <2>1 DEF Place, ThreadState, Ops
  <2>4. writer = t
    BY <2>1, <2>3 DEF Locked, Waiting
  <2>5. ASSUME NEW s \in Process,
               th'[s].op = "exec" PROVE th'[s].pc \in Waiting
    <3>1. CASE s = t
      BY <1>0, <1>4, <2>5, <3>1 DEF LeaveStop, Exit, Idle
    <3>2. CASE s # t
      <4>1. th'[s] = th[s] /\ Locked(s)
        BY <1>0, <1>4, <3>2, OneMoves DEF Facts, Locks
      <4> QED
        BY <2>4, <2>5, <3>2, <4>1 DEF Locked
    <3> QED
      BY <3>1, <3>2
  <2> QED
    BY <2>2, <2>5 DEF Away
<1>5. ASSUME NEW t \in Thread, Moves(t) PROVE Away'
  BY <1>2, <1>3, <1>4, <1>5, SuspendMoves DEF Switches
<1>6. CASE GpuStep \/ RetireWork \/ UNCHANGED vars
  <2>1. suspended' = suspended
    BY <1>6 DEF GpuStep, RetireWork, vars
  <2>2. CASE GpuStep
    <3>1. list' = list
      BY <2>2 DEF GpuStep
    <3>2. Busy' = Busy
      BY <3>1 DEF Busy, On
    <3>3. \A s \in Process : Counting(s)
      BY <1>0, <2>2, Uncounted DEF Facts
    <3> QED
      BY <1>0, <2>1, <3>2, <3>3 DEF Away, Counting
  <2>3. CASE RetireWork \/ UNCHANGED vars
    <3>1. Acts(Power) /\ Power \notin Process /\ th' = th
      BY <2>3, ApertureAssumption
      DEF RetireWork, vars, objVars, Acts, Leaves, Thread
    <3>2. \A o \in Obj : Lessens(o)
      BY <1>0, <3>1, ActsLessen
    <3> QED
      BY <1>0, <1>1, <2>1, <3>1, <3>2 DEF Away
  <2> QED
    BY <1>6, <2>2, <2>3
<1> QED
  BY <1>5, <1>6, Movers

\* entries is the number of calls behind the gate.
LEMMA CountsStep ==
  ASSUME Facts, [Next]_vars
  PROVE  Counts'
<1>0. /\ th \in [Thread -> ThreadState] /\ Counts /\ Power \in Thread
      /\ IsFiniteSet(Inside)
      /\ Power \notin Process /\ \A s \in Process : s \in Thread
  <2>1. Inside \subseteq Process /\ IsFiniteSet(Process)
    BY ApertureAssumption DEF Inside
  <2>2. IsFiniteSet(Inside)
    BY <2>1, FS_Subset
  <2> QED
    BY <2>2, ApertureAssumption DEF Facts, StateTypes, Thread
<1>1. ASSUME Inside' = Inside, entries' = entries PROVE Counts'
  BY <1>0, <1>1 DEF Counts
<1>2. ASSUME NEW t \in Process, Moves(t) PROVE Counts'
  <2>0. \A s \in Process \ {t} : th'[s] = th[s]
    BY <1>0, <1>2, OneMoves DEF Facts
  <2>1. Passed(t)
    BY <1>2, OwnPassed
  <2>2. CASE /\ entries' = entries
             /\ th'[t].pc \in Outside <=> th[t].pc \in Outside
    <3>1. \A s \in Process : th'[s].pc \in Outside <=> th[s].pc \in Outside
      BY <2>0, <2>2
    <3>2. Inside' = Inside
      BY <3>1 DEF Inside
    <3> QED
      BY <1>1, <2>2, <3>2
  <2>3. CASE /\ entries' = entries + 1 /\ th[t].pc \in Outside
             /\ th'[t].pc \notin Outside
    <3>1. Inside' = Inside \cup {t} /\ t \notin Inside
      BY <2>0, <2>3 DEF Inside
    <3>2. Cardinality(Inside \cup {t}) = Cardinality(Inside) + 1
      BY <1>0, <3>1, FS_AddElement
    <3> QED
      BY <1>0, <2>3, <3>1, <3>2 DEF Counts
  <2>4. CASE /\ entries' = entries - 1 /\ th[t].pc \notin Outside
             /\ th'[t].pc \in Outside
    <3>1. Inside' = Inside \ {t} /\ t \in Inside
      BY <2>0, <2>4 DEF Inside
    <3>2. Cardinality(Inside \ {t}) = Cardinality(Inside) - 1
      BY <1>0, <3>1, FS_RemoveElement
    <3> QED
      BY <1>0, <2>4, <3>1, <3>2 DEF Counts
  <2> QED
    BY <2>1, <2>2, <2>3, <2>4 DEF Passed
<1>3. ASSUME Moves(Power) PROVE Counts'
  <2>1. entries' = entries
    BY <1>0, <1>3
    DEF Moves, Suspend, Quiesce, Resume, Evict, InactiveUnbind, InactiveEnd,
        InactivePick, gateVars
  <2>2. \A s \in Process : th'[s] = th[s]
    BY <1>0, <1>3, OneMoves DEF Facts
  <2>3. Inside' = Inside
    BY <2>2 DEF Inside
  <2> QED
    BY <1>1, <2>1, <2>3
<1>4. ASSUME GpuStep \/ RetireWork \/ UNCHANGED vars PROVE Counts'
  <2>1. entries' = entries
    BY <1>4 DEF GpuStep, RetireWork, vars, gateVars
  <2>2. \A s \in Process : th'[s].pc = th[s].pc
    BY <1>0, <1>4, Uncounted DEF Counting, Facts
  <2>3. Inside' = Inside
    BY <2>2 DEF Inside
  <2> QED
    BY <1>1, <2>1, <2>3
<1> QED
  BY <1>2, <1>3, <1>4, Movers DEF Thread

\* The machine falls asleep with nobody behind the gate, and nobody gets
\* there before it wakes up.
LEMMA PowerInvStep ==
  ASSUME Facts, [Next]_vars
  PROVE  PowerInv'
<1>0. /\ th \in [Thread -> ThreadState] /\ th[Power] \in ThreadState
      /\ PowerInv
      /\ PowerPlace /\ Power \in Thread
      /\ Power \notin Process /\ \A s \in Process : s \in Thread
  BY ApertureAssumption DEF Facts, StateTypes, Thread, Places
<1>1. ASSUME NEW t \in Process, Moves(t) PROVE PowerInv'
  <2>0. \A s \in Thread \ {t} : th'[s] = th[s]
    BY <1>0, <1>1, OneMoves DEF Facts
  <2>1. th'[Power] = th[Power] /\ quiet' = quiet /\ Drowsy(t) /\ Passed(t)
    BY <1>0, <1>1, <2>0, QuietMoves, OwnDrowsy, OwnPassed
  <2>2. ASSUME th[Power].pc # "idle"
        PROVE  /\ suspended' /\ Inside' \subseteq Inside
               /\ \A s \in Process : th'[s].op = "enter" => th'[s].pc = "gate"
    <3>1. quiet /\ suspended /\ \A s \in Process : th[s].op = "enter" =>
            th[s].pc = "gate"
      BY <1>0, <2>2 DEF PowerInv
    <3>2. ~LockEnter(t)
      BY <3>1 DEF LockEnter, LockWrite
    <3>3. suspended'
      BY <1>1, <3>1, <3>2, SuspendMoves DEF Switches, LeaveStop, Thread
    <3>4. th[t].pc \in Outside => th'[t].pc \in Outside
      BY <2>1, <3>1 DEF Passed
    <3>5. Inside' \subseteq Inside
      BY <1>0, <2>0, <3>4 DEF Inside
    <3>6. ASSUME NEW s \in Process,
                 th'[s].op = "enter" PROVE th'[s].pc = "gate"
      BY <1>0, <2>0, <2>1, <3>1, <3>6 DEF Drowsy
    <3> QED
      BY <3>3, <3>5, <3>6
  <2>3. ASSUME th[Power].pc \in {"inactive", "victim", "asleep"}
        PROVE  Inside' = {}
    BY <1>0, <2>2, <2>3 DEF PowerInv
  <2>4. ASSUME th[Power].pc = "asleep" PROVE On("inactive")' = {}
    <3>1. Inside = {} /\ On("inactive") = {}
      BY <1>0, <2>4 DEF PowerInv
    <3>2. th[t].pc \in Outside
      BY <3>1 DEF Inside
    <3>3. list' = list
      BY <2>1, <3>2 DEF Drowsy
    <3> QED
      BY <3>1, <3>3 DEF On
  <2>5. th[Power].pc # "idle" => quiet
    BY <1>0 DEF PowerInv
  <2> QED
    BY <2>1, <2>2, <2>3, <2>4, <2>5 DEF PowerInv
<1>2. ASSUME Moves(Power) PROVE PowerInv'
  <2>0. \A s \in Process : th'[s] = th[s]
    BY <1>0, <1>2, OneMoves DEF Facts
  <2>1. Inside' = Inside
    BY <2>0 DEF Inside
  <2>2. CASE Suspend
    <3>1. /\ th'[Power].pc = "drain" /\ quiet' /\ suspended' = suspended
          /\ suspended
          /\ \A s \in Process : th[s].op # "enter"
      BY <1>0, <2>2 DEF Suspend, Goto, ThreadState
    <3> QED
      BY <2>0, <3>1 DEF PowerInv
  <2>3. CASE Quiesce
    <3>1. /\ th[Power].pc = "drain" /\ entries = 0
          /\ th'[Power].pc = "inactive" /\ UNCHANGED <<quiet, suspended>>
      BY <1>0, <2>3 DEF Quiesce, gateVars, ThreadState
    <3>2. Inside = {}
      <4>1. Inside \subseteq Process /\ IsFiniteSet(Process)
        BY ApertureAssumption DEF Inside
      <4>2. IsFiniteSet(Inside)
        BY <4>1, FS_Subset
      <4>3. Cardinality(Inside) = 0
        BY <3>1 DEF Facts, Counts
      <4> QED
        BY <4>2, <4>3, FS_EmptySet
    <3>3. quiet /\ suspended /\ \A s \in Process : th[s].op = "enter" =>
            th[s].pc = "gate"
      BY <1>0, <3>1 DEF PowerInv
    <3> QED
      BY <2>0, <2>1, <3>1, <3>2, <3>3 DEF PowerInv
  <2>4. CASE Resume
    BY <1>0, <2>4 DEF Resume, Idle, PowerInv
  <2>5. CASE Evict(Power)
    <3>1. /\ th[Power].pc \in {"inactive", "victim"}
          /\ UNCHANGED <<quiet, suspended>>
          /\ th'[Power].pc = "asleep" =>
               On("inactive") = {} /\ list' = list
      <4>1. CASE InactiveUnbind(Power)
        BY <1>0, <4>1 DEF InactiveUnbind, gateVars
      <4>2. CASE InactiveEnd(Power)
        BY <1>0, <4>2 DEF InactiveEnd, gateVars, objVars
      <4>3. ASSUME NEW o \in Obj, InactivePick(Power, o)
            PROVE  /\ th[Power].pc = "inactive" /\ th'[Power].pc = "victim"
                   /\ UNCHANGED <<quiet, suspended>>
        BY <1>0, <4>3 DEF InactivePick, gateVars
      <4> QED
        BY <2>5, <4>1, <4>2, <4>3 DEF Evict
    <3>2. /\ quiet /\ suspended /\ Inside = {}
          /\ \A s \in Process : th[s].op = "enter" => th[s].pc = "gate"
      BY <1>0, <3>1 DEF PowerInv
    <3>3. th'[Power].pc = "asleep" => On("inactive")' = {}
      BY <3>1 DEF On
    <3> QED
      BY <2>0, <2>1, <3>1, <3>2, <3>3 DEF PowerInv
  <2> QED
    BY <1>0, <1>2, <2>2, <2>3, <2>4, <2>5 DEF Moves
<1>3. ASSUME GpuStep \/ RetireWork \/ UNCHANGED vars PROVE PowerInv'
  <2>1. quiet' = quiet /\ suspended' = suspended
    BY <1>3 DEF GpuStep, RetireWork, vars, gateVars
  <2>2. \A s \in Thread : Counting(s)
    BY <1>3, Uncounted DEF Facts
  <2>3. Inside' = Inside
    BY <1>0, <2>2 DEF Inside, Counting
  <2>4. ASSUME th[Power].pc = "asleep" PROVE On("inactive")' = {}
    <3>1. On("inactive") = {} /\ suspended /\ Busy = {}
      BY <1>0, <2>4 DEF PowerInv, Facts, Away
    <3>2. list' = list \/ Retire
      BY <1>3 DEF GpuStep, RetireWork, vars, objVars
    <3>3. \A o \in Obj : ~Retired(o)
      BY <3>1 DEF Busy, On, Retired
    <3>4. \A o \in Obj : list'[o] = list[o]
      BY <3>2, <3>3 DEF Retire
    <3> QED
      BY <3>1, <3>4 DEF On
  <2> QED
    BY <1>0, <2>1, <2>2, <2>3, <2>4 DEF PowerInv, Counting
<1> QED
  BY <1>1, <1>2, <1>3, Movers DEF Thread

\* So no assertion fails.
LEMMA NoPanic ==
  ASSUME Facts, [Next]_vars, ~panic
  PROVE  ~panic'
<1>1. ASSUME NEW t \in Thread, InactiveUnbind(t) PROVE ~panic'
  <2>1. /\ th[t].pc = "victim" /\ held[th[t].victim] = None
        /\ panic' = (th[t].victim \in Busy \/ pins[th[t].victim] > 0)
    BY <1>1 DEF InactiveUnbind
  <2>2. th[t].victim \in Obj \ Busy
    BY <2>1 DEF Facts, Emptied
  <2>3. pins[th[t].victim] = 0
    BY <2>1, <2>2 DEF Facts, PinExact
  <2>4. ~(th[t].victim \in Busy \/ pins[th[t].victim] > 0)
    BY <2>2, <2>3
  <2> QED
    BY <2>1, <2>4
<1>2. ASSUME NEW t \in Thread, InactiveEnd(t) PROVE ~panic'
  <2>1. /\ th[t].pc = "inactive" /\ On("inactive") = {}
        /\ panic' = (th[t].all /\ ~ListsEmpty)
    BY <1>2 DEF InactiveEnd
  <2>2. th[t].all => Busy = {}
    BY <2>1 DEF Facts, Emptied
  <2> QED
    BY <2>1, <2>2 DEF ListsEmpty
<1>3. ASSUME NEW t \in Process, LockEnter(t) PROVE ~panic'
  BY <1>3 DEF LockEnter, Facts, Away
<1>4. ASSUME Quiesce PROVE ~panic'
  <2>1. suspended
    BY <1>4 DEF Quiesce, Facts, PowerInv
  <2> QED
    BY <1>4, <2>1 DEF Quiesce, Facts, Away
<1>5. ASSUME NEW t \in Thread, Moves(t) PROVE ~panic'
  BY <1>1, <1>2, <1>3, <1>4, <1>5, PanicMoves DEF Asserts
<1>6. CASE GpuStep \/ RetireWork \/ UNCHANGED vars
  BY <1>6 DEF GpuStep, RetireWork, vars
<1> QED
  BY <1>5, <1>6, Movers

-----------------------------------------------------------------------------
(* What is bound is listed.                                                *)

\* What is bound is on a list, or pinned.
ListedOf(o) == offset[o] # Unbound => list[o] # "none" \/ pins[o] > 0

\* If binding and pinning fail together or not at all, the steps of the
\* threads keep it so.
LEMMA ListedMoves ==
  ASSUME Facts, ~PinMayFail, NEW t \in Thread, Acts(t), NEW o \in Obj,
         ListedOf(o)
  PROVE  ListedOf(o)'
<1>0. /\ offset \in [Obj -> {Unbound} \cup 0..Pages]
      /\ list \in [Obj -> {"none", "active", "flushing", "inactive"}]
      /\ pins \in [Obj -> Int]
      /\ (list[o] \in {"active", "flushing"} <=> o \in Busy)
  BY DEF Facts, StateTypes, Busy, On
<1>00. pins[o] \in {0, 1}
  <2>1. held[o] \in Thread \/ held[o] = None
    BY DEF Facts, StateTypes
  <2> QED
    BY <2>1 DEF Facts, PinExact
<1>1. CASE Leaves
  BY <1>1 DEF Leaves, ListedOf
<1>2. CASE Retire /\ UNCHANGED <<offset, pending, pins>>
  <2>1. /\ list'[o] = IF ~Retired(o) THEN list[o]
                     ELSE IF o \in dirty THEN "flushing"
                     ELSE IF pins[o] > 0 THEN "none" ELSE "inactive"
        /\ UNCHANGED <<offset, pins>>
    BY <1>2 DEF Retire
  <2> QED
    BY <2>1 DEF ListedOf
<1>3. CASE Flush /\ UNCHANGED <<offset, pins>>
  <2>1. /\ list'[o] = IF o \in dirty THEN "active" ELSE list[o]
        /\ UNCHANGED <<offset, pins>>
    BY <1>3 DEF Flush, Flushed
  <2> QED
    BY <2>1 DEF ListedOf
<1>4. CASE InactiveUnbind(t)
  <2>1. /\ offset' = [offset EXCEPT ![th[t].victim] = Unbound]
        /\ list' = [list EXCEPT ![th[t].victim] = "none"]
        /\ pins' = pins
    BY <1>4 DEF InactiveUnbind
  <2>2. CASE o = th[t].victim
    BY <1>0, <2>1, <2>2 DEF ListedOf
  <2>3. CASE o # th[t].victim
    BY <1>0, <2>1, <2>3 DEF ListedOf
  <2> QED
    BY <2>2, <2>3
<1>5. CASE t \in Process /\ Bind(t)
  <2>1. Cur(t) \in Obj
    BY <1>5, BindPlace DEF Facts
  <2>2. PICK h \in 0..Pages : offset' = [offset EXCEPT ![Cur(t)] = h]
    BY <1>5, BindPlace DEF Facts
  <2>3. CASE o # Cur(t)
    <3>1. offset'[o] = offset[o]
      BY <1>0, <2>1, <2>2, <2>3
    <3>2. list'[o] = list[o] /\ pins'[o] = pins[o]
      BY <1>0, <1>5, <2>1, <2>3 DEF Bind, Pin, PinFails, Faulted
    <3> QED
      BY <3>1, <3>2 DEF ListedOf
  <2>4. CASE o = Cur(t) /\ Pin(t, Cur(t))
    <3>1. pins'[o] = pins[o] + 1
      BY <1>0, <2>1, <2>4 DEF Pin
    <3> QED
      BY <1>00, <3>1 DEF ListedOf
  <2>5. CASE o = Cur(t) /\ ~Pin(t, Cur(t))
    <3>1. list'[o] = Faulted(o) /\ pins' = pins
      BY <1>0, <1>5, <2>1, <2>5 DEF Bind, PinFails
    <3>2. list'[o] = IF offset[o] = Unbound THEN "inactive" ELSE list[o]
      BY <3>1 DEF Faulted
    <3> QED
      BY <3>1, <3>2 DEF ListedOf
  <2> QED
    BY <2>3, <2>4, <2>5
<1>6. CASE t \in Process /\ Done(t)
  <2>1. Cur(t) \in Obj /\ offset' = offset
    BY <1>6, CurObject DEF Done, Exit, Facts, HasCur
  <2>2. CASE th[t].op = "access" /\ o = Cur(t)
    <3>1. list'[o] = Unpinned(o)
      BY <1>0, <1>6, <2>1, <2>2 DEF Done
    <3>2. list'[o] # "none"
      BY <1>0, <3>1 DEF Unpinned
    <3> QED
      BY <3>2 DEF ListedOf
  <2>3. CASE ~(th[t].op = "access" /\ o = Cur(t))
    <3>1. pins'[o] = pins[o]
      BY <1>0, <1>6, <2>1, <2>3, DonePins
    <3>2. list'[o] = list[o]
      BY <1>0, <1>6, <2>1, <2>3 DEF Done
    <3> QED
      BY <2>1, <3>1, <3>2 DEF ListedOf
  <2> QED
    BY <2>2, <2>3
<1>7. CASE UnpinAll(t) /\ UNCHANGED <<offset, pending>>
  <2>1. CASE o \in PinnedBy(t)
    <3>1. list'[o] = Unpinned(o)
      BY <1>7, <2>1 DEF UnpinAll
    <3>2. list'[o] # "none"
      BY <1>0, <3>1 DEF Unpinned
    <3> QED
      BY <3>2 DEF ListedOf
  <2>2. CASE o \notin PinnedBy(t)
    BY <1>7, <2>2 DEF UnpinAll, ListedOf
  <2> QED
    BY <2>1, <2>2
<1>8. ASSUME NEW written \in SUBSET Obj, Dispatch(t, written)
      PROVE  ListedOf(o)'
  BY <1>8 DEF Dispatch, ListedOf
<1>9. ASSUME NEW b \in Obj, FindInactive(t, b)
      PROVE  ListedOf(o)'
  <2>1. /\ offset' = [offset EXCEPT ![b] = Unbound]
        /\ list' = [list EXCEPT ![b] = "none"]
        /\ pins' = pins
    BY <1>9 DEF FindInactive
  <2>2. CASE o = b
    BY <1>0, <2>1, <2>2 DEF ListedOf
  <2>3. CASE o # b
    BY <1>0, <2>1, <2>3 DEF ListedOf
  <2> QED
    BY <2>2, <2>3
<1> QED
  BY <1>1, <1>2, <1>3, <1>4, <1>5, <1>6, <1>7, <1>8, <1>9 DEF Acts

\* So is everything.
Listed == \A o \in Obj : ListedOf(o)

\* And stays so.
LEMMA ListedStep ==
  ASSUME Facts, ~PinMayFail, Listed, [Next]_vars
  PROVE  Listed'
<1>1. CASE GpuStep
  BY <1>1 DEF GpuStep, Listed, ListedOf
<1>2. CASE RetireWork \/ UNCHANGED vars
  <2>1. Acts(Power) /\ Power \in Thread
    BY <1>2 DEF RetireWork, vars, objVars, Acts, Leaves, Thread
  <2> QED
    BY <2>1, ListedMoves DEF Listed
<1>3. ASSUME NEW t \in Thread, Moves(t) PROVE Listed'
  BY <1>3, MovesAct, ListedMoves DEF Listed
<1> QED
  BY <1>1, <1>2, <1>3, Movers

-----------------------------------------------------------------------------
(* The theorems.                                                           *)

\* The inductive invariant.
Safe == Facts /\ ~panic

\* It holds at first.
LEMMA SafeInit ==
  ASSUME Init
  PROVE  Safe /\ Listed
<1>0. /\ None \notin Thread /\ Power \notin Process /\ Power \in Thread
      /\ Pages \in Nat /\ \A s \in Process : s \in Thread
  BY ApertureAssumption DEF Thread
<1>1. Idle \in ThreadState
  BY DEF Idle, ThreadState, Pcs
<1>2. \A t \in Thread : th[t] = Idle
  BY DEF Init
<1>3. StateTypes
  <2>1. th \in [Thread -> ThreadState]
    BY <1>1 DEF Init
  <2>2. /\ offset \in [Obj -> {Unbound} \cup 0..Pages]
        /\ lrs \in [Obj -> Nat] /\ pins \in [Obj -> Int]
        /\ list \in [Obj -> {"none", "active", "flushing", "inactive"}]
        /\ held \in [Obj -> Thread \cup {None}]
    BY DEF Init
  <2>3. /\ dirty \subseteq Obj /\ writer \in Thread \cup {None}
        /\ readers \subseteq Thread
        /\ pending \in Nat /\ entries \in Int /\ calls \in Nat
    BY DEF Init
  <2>4. suspended \in BOOLEAN /\ quiet \in BOOLEAN /\ panic \in BOOLEAN
    BY DEF Init
  <2> QED
    BY <2>1, <2>2, <2>3, <2>4 DEF StateTypes
<1>4. \A t \in Thread : PinnedBy(t) = {} /\ ~HasCur(t)
  BY <1>2 DEF PinnedBy, HasCur, Seeking, Evicting, Idle
<1>5. Places
  <2>1. ASSUME NEW t \in Process PROVE Place(t)
    <3>1. th[t] = Idle
      BY <1>0, <1>2
    <3> QED
      BY <3>1 DEF Place, Idle, HasCur, Seeking, Evicting
  <2> QED
    BY <1>0, <1>2, <2>1 DEF Places, PowerPlace, Idle
<1>6. Holds
  BY <1>0, <1>2, <1>4 DEF Init, Holds, HoldExact, Idle
<1>7. PinExact
  BY <1>0 DEF Init, PinExact
<1>8. Locks
  BY <1>0, <1>2 DEF Init, Locks, Locked, Idle
<1>9. Engine
  BY DEF Init, Engine, Booked
<1>10. \A t \in Thread : Emptied(t)
  BY <1>2 DEF Emptied, Idle
<1>11. Away
  BY DEF Init, Away
<1>12. Inside = {}
  BY <1>0, <1>2 DEF Inside, Outside, Idle
<1>13. Counts
  BY <1>12, FS_EmptySet DEF Init, Counts
<1>14. PowerInv
  BY <1>0, <1>2 DEF PowerInv, Idle
<1>15. Listed /\ ~panic
  BY DEF Init, Listed, ListedOf
<1> QED
  BY <1>3, <1>5, <1>6, <1>7, <1>8, <1>9, <1>10, <1>11, <1>13, <1>14, <1>15
  DEF Safe, Facts

\* Every step keeps it.
LEMMA SafeStep ==
  ASSUME Safe, [Next]_vars
  PROVE  Safe'
<1>1. StateTypes'
  BY TypesStep DEF Safe, Facts
<1>2. Places' /\ Holds' /\ PinExact' /\ Locks'
  BY PlacesStep, HoldsStep, PinExactStep, LocksStep DEF Safe, Facts
<1>3. /\ Engine' /\ (\A t \in Thread : Emptied(t)') /\ Away' /\ Counts'
      /\ PowerInv'
  BY <1>1, EngineStep, EmptiedStep, AwayStep, CountsStep, PowerInvStep
  DEF Safe
<1>4. ~panic'
  BY NoPanic DEF Safe
<1> QED
  BY <1>1, <1>2, <1>3, <1>4 DEF Safe, Facts

\* The invariant holds in every state that can be reached, whether or not a
\* pin may fail and a map may change.
THEOREM SafeAlways == Spec => []Safe
<1>1. Init => Safe
  BY SafeInit
<1>2. Safe /\ [Next]_vars => Safe'
  BY SafeStep
<1> QED
  BY <1>1, <1>2, PTL DEF Spec

\* Every variable keeps its type; in particular pin_count and the number of
\* calls behind the gate never go below zero.
THEOREM TypeCorrect == Spec => []TypeOK
<1>1. Safe => TypeOK
  <2>1. SUFFICES ASSUME Safe PROVE TypeOK
    OBVIOUS
  <2>2. StateTypes /\ PinExact /\ Counts
    BY <2>1 DEF Safe, Facts
  <2>3. pins \in [Obj -> Nat]
    <3>1. ASSUME NEW o \in Obj PROVE pins[o] \in Nat
      <4>1. held[o] \in Thread \/ held[o] = None
        BY <2>2 DEF StateTypes
      <4> QED
        BY <2>2, <4>1 DEF PinExact
    <3> QED
      BY <2>2, <3>1 DEF StateTypes
  <2>4. entries \in Nat
    <3>1. Inside \subseteq Process /\ IsFiniteSet(Process)
      BY ApertureAssumption DEF Inside
    <3>2. IsFiniteSet(Inside)
      BY <3>1, FS_Subset
    <3> QED
      BY <2>2, <3>2, FS_CardinalityType DEF Counts
  <2>5. \A t \in Thread : th[t].pc \in Pcs /\ th[t].seq \in Nat
    BY <2>2 DEF StateTypes, ThreadState
  <2> QED
    BY <2>2, <2>3, <2>4, <2>5 DEF TypeOK, StateTypes
<1> QED
  BY <1>1, SafeAlways, PTL

\* No assertion of the evictions, of entervt and of the suspend fails: what
\* evict_inactive slept for is neither pinned nor in use when it is unbound,
\* all lists are empty at the end of evict_everything, and the GPU has
\* nothing when the terminal is entered and the machine suspended.
THEOREM AssertionsHold == Spec => []AssertsHold
<1>1. Safe => AssertsHold
  BY DEF Safe, AssertsHold
<1> QED
  BY <1>1, SafeAlways, PTL

\* The same with what is bound on a list.
LEMMA ListedAlways ==
  ASSUME ~PinMayFail
  PROVE  Spec => [](Safe /\ Listed)
<1>1. Init => Safe /\ Listed
  BY SafeInit
<1>2. Safe /\ Listed /\ [Next]_vars => (Safe /\ Listed)'
  BY SafeStep, ListedStep DEF Safe
<1> QED
  BY <1>1, <1>2, PTL DEF Spec

\* If i915_gem_object_pin cannot fail after it has bound an object, what is
\* bound and held by nobody is on a list and not pinned, and so
\* evict_something can have it.  (It can fail, when a signal ends the wait
\* for a fence: MCAperture_lost.cfg.)
THEOREM NothingIsLost ==
  ASSUME ~PinMayFail
  PROVE  Spec => []NothingLost
<1>1. Safe /\ Listed => NothingLost
  <2>1. SUFFICES ASSUME Safe, Listed, NEW o \in Bound, held[o] = None
                 PROVE  list[o] # "none" /\ pins[o] = 0
    BY DEF NothingLost
  <2>2. o \in Obj /\ offset[o] # Unbound
    BY DEF Bound
  <2>3. pins[o] = 0
    BY <2>1, <2>2 DEF Safe, Facts, PinExact
  <2> QED
    BY <2>1, <2>2, <2>3 DEF Listed, ListedOf
<1> QED
  BY <1>1, ListedAlways, PTL

\* Under the same assumption, nothing is bound and nobody behind the gate
\* while the machine sleeps.
THEOREM EmptyWhenAsleep ==
  ASSUME ~PinMayFail
  PROVE  Spec => []EmptyAsleep
<1>1. Safe /\ Listed => EmptyAsleep
  <2>1. SUFFICES ASSUME Safe, Listed, th[Power].pc = "asleep"
                 PROVE  Bound = {} /\ \A t \in Process :
                          th[t].pc \in {"idle", "gate"}
    BY DEF EmptyAsleep
  <2>2. Inside = {} /\ On("inactive") = {} /\ suspended
    BY <2>1 DEF Safe, Facts, PowerInv
  <2>3. Busy = {}
    BY <2>1, <2>2 DEF Safe, Facts, Away
  <2>4. \A t \in Process : th[t].pc \in {"idle", "gate"}
    BY <2>2 DEF Inside, Outside
  <2>5. ASSUME NEW o \in Bound PROVE FALSE
    <3>1. o \in Obj /\ offset[o] # Unbound /\ list[o] = "none"
      BY <2>1, <2>2, <2>3 DEF Safe, Facts, StateTypes, Bound, Busy, On
    <3>2. pins[o] > 0
      BY <2>1, <3>1 DEF Listed, ListedOf
    <3>3. PICK t \in Thread : held[o] = t
      BY <2>1, <3>1, <3>2 DEF Safe, Facts, StateTypes, PinExact
    <3>4. t # Power /\ HoldExact(t)
      BY <2>1, <3>1, <3>3, PowerHolds DEF Safe, Facts, Holds
    <3>5. /\ t \in Process /\ Place(t) /\ th[t].pc \in {"idle", "gate"}
          /\ th[t] \in ThreadState
      BY <2>1, <2>4, <3>4 DEF Thread, Safe, Facts, Places, StateTypes
    <3>6. ~HasCur(t) /\ th[t].n = 0
      BY <3>5 DEF HasCur, Seeking, Evicting, Place
    <3>7. PinnedBy(t) = {}
      BY <3>6 DEF PinnedBy
    <3> QED
      BY <3>1, <3>3, <3>4, <3>5, <3>6, <3>7 DEF HoldExact
  <2> QED
    BY <2>4, <2>5
<1> QED
  BY <1>1, ListedAlways, PTL

-----------------------------------------------------------------------------
(* The second try.                                                         *)

\* What is bound fills the aperture from its start without a hole: no object
\* ends behind as many pages as they have together, and each of these pages
\* belongs to one of them.
Tiled ==
    LET h == Cardinality(PagesOf(Bound)) IN
    /\ \A b \in Bound : offset[b] + Size[b] <= h
    /\ \A p \in 0..(h - 1) : \E b \in Bound :
         offset[b] <= p /\ p < offset[b] + Size[b]

\* On its second try an execbuffer first evicts everything, and then binds
\* one object behind the other, with nothing but them in the aperture.
SecondTry(t) ==
    /\ th[t].pc \in Evicting \cup {"hold", "bind", "dispatch"}
    /\ th[t].pc \in Evicting => th[t].then = "hold"
    /\ th[t].pc \in {"inactive", "victim"} => th[t].all
    /\ th[t].pc \notin Evicting => Bound = PinnedBy(t) /\ Tiled

\* With a batch that fits into an empty aperture it looks for room, or has
\* given up, only while there is something to evict.
RoomFor(t) ==
    th[t].op = "exec" =>
        /\ th[t].pc \in Waiting => th[t].tries = 0
        /\ th[t].pc \notin Waiting /\ Fits(th[t].batch) =>
             /\ th[t].pc \in {"search", "find", "wait", "everything", "fail"}
                  => Bound # {}
             /\ th[t].tries # 0 => SecondTry(t)

\* So has every process.
Room == \A t \in Process : RoomFor(t)

\* An object has its pages.
LEMMA SizeType ==
  ASSUME NEW o \in Obj
  PROVE  Size[o] \in Nat /\ Size[o] > 0
<1>1. Size[o] \in Nat \ {0}
  BY ApertureAssumption
<1> QED
  BY <1>1

\* A batch has finitely many objects.
LEMMA BatchFinite ==
  ASSUME NEW b \in Seq(Obj), NEW n \in Nat
  PROVE  IsFiniteSet({b[i] : i \in 1..n})
<1> DEFINE S == {b[i] : i \in 1..n}
           f == [i \in 1..n |-> b[i]]
<1>1. f \in Surjection(1..n, S)
  BY DEF Surjection
<1>2. IsFiniteSet(1..n)
  BY FS_Interval
<1> HIDE DEF S, f
<1> QED
  BY <1>1, <1>2, FS_Surjection DEF S

\* Finitely many objects have finitely many pages.
LEMMA PagesFinite ==
  ASSUME NEW S \in SUBSET Obj, IsFiniteSet(S)
  PROVE  IsFiniteSet(PagesOf(S))
<1> DEFINE T == {{o} \X (1..Size[o]) : o \in S}
           f == [o \in S |-> {o} \X (1..Size[o])]
<1>1. f \in Surjection(S, T)
  BY DEF Surjection
<1>2. IsFiniteSet(T)
  <2> HIDE DEF T, f
  <2> QED
    BY <1>1, FS_Surjection
<1>3. ASSUME NEW x \in T PROVE IsFiniteSet(x)
  <2>1. PICK o \in S : x = {o} \X (1..Size[o])
    OBVIOUS
  <2>2. IsFiniteSet({o})
    BY FS_Singleton
  <2>3. 1 \in Int /\ Size[o] \in Int
    BY SizeType
  <2>4. IsFiniteSet(1..Size[o])
    BY <2>3, FS_Interval
  <2> QED
    BY <2>1, <2>2, <2>4, FS_Product
<1>4. PagesOf(S) = UNION T
  BY DEF PagesOf
<1> HIDE DEF T, f
<1> QED
  BY <1>2, <1>3, <1>4, FS_UNION

\* An object more has its pages more.
LEMMA PagesMore ==
  ASSUME NEW S \in SUBSET Obj, IsFiniteSet(S), NEW o \in Obj, o \notin S
  PROVE  Cardinality(PagesOf(S \cup {o})) =
             Cardinality(PagesOf(S)) + Size[o]
<1> DEFINE P == {o} \X (1..Size[o])
<1>1. Size[o] \in Nat /\ Size[o] > 0
  BY SizeType
<1>2. IsFiniteSet(P) /\ Cardinality(P) = Size[o]
  <2>1. IsFiniteSet({o}) /\ Cardinality({o}) = 1
    BY FS_Singleton
  <2>2. IsFiniteSet(1..Size[o]) /\ Cardinality(1..Size[o]) = Size[o]
    <3>1. 1 \in Int /\ Size[o] \in Int /\ ~(1 > Size[o])
      BY <1>1
    <3>2. /\ IsFiniteSet(1..Size[o])
          /\ Cardinality(1..Size[o]) = Size[o] - 1 + 1
      BY <3>1, FS_Interval
    <3> QED
      BY <1>1, <3>2
  <2>3. IsFiniteSet(P) /\ Cardinality(P) = 1 * Size[o]
    BY <2>1, <2>2, FS_Product
  <2> QED
    BY <1>1, <2>3
<1>3. PagesOf(S \cup {o}) = PagesOf(S) \cup P
  BY DEF PagesOf
<1>4. PagesOf(S) \cap P = {}
  BY DEF PagesOf
<1>5. IsFiniteSet(PagesOf(S))
  BY PagesFinite
<1>6. Cardinality(PagesOf(S)) \in Nat
  BY <1>5, FS_CardinalityType
<1> HIDE DEF P
<1>7. Cardinality(PagesOf(S) \cup P) =
          Cardinality(PagesOf(S)) + Cardinality(P)
              - Cardinality(PagesOf(S) \cap P)
  BY <1>2, <1>5, FS_Union
<1>8. Cardinality(PagesOf(S) \cap P) = 0
  BY <1>4, FS_EmptySet
<1>9. Cardinality(PagesOf(S) \cup P) = Cardinality(PagesOf(S)) + Size[o] - 0
  BY <1>2, <1>7, <1>8
<1>10. Cardinality(PagesOf(S \cup {o})) = Cardinality(PagesOf(S) \cup P)
  BY <1>3
<1>11. Cardinality(PagesOf(S)) + Size[o] - 0 =
           Cardinality(PagesOf(S)) + Size[o]
  BY <1>1, <1>6
<1> QED
  BY <1>9, <1>10, <1>11

\* More objects have no fewer pages.
LEMMA PagesMonotonic ==
  ASSUME NEW T \in SUBSET Obj, IsFiniteSet(T), NEW S \in SUBSET T
  PROVE  Cardinality(PagesOf(S)) <= Cardinality(PagesOf(T))
<1>1. PagesOf(S) \subseteq PagesOf(T)
  BY DEF PagesOf
<1> QED
  BY <1>1, PagesFinite, FS_Subset

\* No objects have none.
LEMMA NoPages == Cardinality(PagesOf({})) = 0
<1>1. PagesOf({}) = {}
  BY DEF PagesOf
<1> QED
  BY <1>1, FS_EmptySet

\* What an execbuffer has pinned are finitely many objects of its batch.
LEMMA PinnedFinite ==
  ASSUME Facts, NEW t \in Process
  PROVE  /\ PinnedBy(t) \subseteq Obj /\ IsFiniteSet(PinnedBy(t))
         /\ Cardinality(PagesOf(PinnedBy(t))) \in Nat
<1>1. /\ th[t].batch \in Seq(Obj) /\ th[t].n \in Nat
      /\ th[t].n <= Len(th[t].batch)
  BY DEF Facts, StateTypes, ThreadState, Places, Place, Thread
<1>2. PinnedBy(t) \subseteq Obj
  BY <1>1 DEF PinnedBy
<1>3. IsFiniteSet(PinnedBy(t))
  BY <1>1, BatchFinite DEF PinnedBy
<1> QED
  BY <1>2, <1>3, PagesFinite, FS_CardinalityType

\* Together with the next object they have no more pages than the batch.
LEMMA NextFits ==
  ASSUME Facts, NEW t \in Process, Fits(th[t].batch), HasCur(t),
         Cur(t) \notin PinnedBy(t)
  PROVE  Cardinality(PagesOf(PinnedBy(t))) + Size[Cur(t)] <= Pages
<1> DEFINE B == {th[t].batch[i] : i \in DOMAIN th[t].batch}
<1>1. /\ th[t].batch \in Seq(Obj) /\ th[t].n \in Nat
      /\ th[t].n < Len(th[t].batch)
  BY DEF Facts, StateTypes, ThreadState, Places, Place, Thread
<1>2. Cur(t) \in Obj
  BY CurObject DEF Facts
<1>3. B = {th[t].batch[i] : i \in 1..Len(th[t].batch)}
  BY <1>1
<1>4. B \subseteq Obj /\ IsFiniteSet(B)
  <2>1. Len(th[t].batch) \in Nat
    BY <1>1
  <2>2. IsFiniteSet({th[t].batch[i] : i \in 1..Len(th[t].batch)})
    BY <1>1, <2>1, BatchFinite
  <2>3. B \subseteq Obj
    BY <1>1
  <2> HIDE DEF B
  <2> QED
    BY <1>3, <2>2, <2>3
<1>5. PinnedBy(t) \cup {Cur(t)} \subseteq B
  BY <1>1, <1>3 DEF PinnedBy, Cur
<1>6. Cardinality(PagesOf(PinnedBy(t) \cup {Cur(t)})) =
          Cardinality(PagesOf(PinnedBy(t))) + Size[Cur(t)]
  BY <1>2, PinnedFinite, PagesMore
<1>7. Cardinality(PagesOf(PinnedBy(t) \cup {Cur(t)})) <=
          Cardinality(PagesOf(B))
  BY <1>4, <1>5, PagesMonotonic
<1>8. Cardinality(PagesOf(B)) \in Nat
  BY <1>4, PagesFinite, FS_CardinalityType
<1>9. Cardinality(PagesOf(B)) <= Pages
  BY DEF Fits
<1>10. Cardinality(PagesOf(PinnedBy(t))) \in Nat /\ Size[Cur(t)] \in Nat
  BY <1>2, PinnedFinite, SizeType
<1>11. Pages \in Nat
  BY ApertureAssumption
<1> HIDE DEF B
<1> QED
  BY <1>6, <1>7, <1>8, <1>9, <1>10, <1>11

\* What is bound has a place inside the aperture.
LEMMA BoundType ==
  ASSUME Facts, NEW b \in Bound
  PROVE  /\ b \in Obj /\ offset[b] \in Nat /\ Size[b] \in Nat /\ Size[b] > 0
<1>1. b \in Obj /\ offset[b] # Unbound
  BY DEF Bound
<1>2. offset[b] \in 0..Pages /\ Pages \in Nat
  BY <1>1, ApertureAssumption DEF Facts, StateTypes
<1> QED
  BY <1>1, <1>2, SizeType

\* Behind what fills the aperture from its start there is room for what fits
\* together with it.
LEMMA EndIsHole ==
  ASSUME Facts, Tiled, IsFiniteSet(Bound), NEW o \in Obj,
         Cardinality(PagesOf(Bound)) + Size[o] <= Pages
  PROVE  Cardinality(PagesOf(Bound)) \in Holes(o)
<1> DEFINE h == Cardinality(PagesOf(Bound))
<1>1. h \in Nat
  BY PagesFinite, FS_CardinalityType DEF Bound
<1>2. \A b \in Bound : offset[b] + Size[b] <= h
  BY DEF Tiled
<1>3. h \in {0} \cup {offset[b] + Size[b] : b \in Bound}
  <2>1. CASE h = 0
    BY <2>1
  <2>2. CASE h # 0
    <3>1. h - 1 \in 0..(h - 1)
      BY <1>1, <2>2
    <3>2. PICK b \in Bound : offset[b] <= h - 1 /\ h - 1 < offset[b] + Size[b]
      BY <3>1 DEF Tiled
    <3>3. offset[b] \in Nat /\ Size[b] \in Nat
      BY BoundType
    <3>4. offset[b] + Size[b] <= h
      BY <1>2
    <3>5. h = offset[b] + Size[b]
      BY <1>1, <3>2, <3>3, <3>4
    <3> QED
      BY <3>5
  <2> QED
    BY <2>1, <2>2
<1> HIDE DEF h
<1>4. h + Size[o] <= Pages
  BY DEF h
<1>5. h \in Holes(o)
  BY <1>2, <1>3, <1>4 DEF Holes
<1> QED
  BY <1>5 DEF h

\* There is no other place for anything.
LEMMA HoleIsEnd ==
  ASSUME Facts, Tiled, IsFiniteSet(Bound), NEW o \in Obj, NEW p \in Holes(o)
  PROVE  p = Cardinality(PagesOf(Bound))
<1> DEFINE h == Cardinality(PagesOf(Bound))
<1>1. h \in Nat
  BY PagesFinite, FS_CardinalityType DEF Bound
<1>2. /\ p = 0 \/ \E b \in Bound : p = offset[b] + Size[b]
      /\ \A b \in Bound :
           offset[b] + Size[b] <= p \/ p + Size[o] <= offset[b]
  BY DEF Holes
<1>3. p \in Nat /\ p <= h
  <2>1. CASE p = 0
    BY <1>1, <2>1
  <2>2. ASSUME NEW b \in Bound, p = offset[b] + Size[b]
        PROVE  p \in Nat /\ p <= h
    <3>1. offset[b] \in Nat /\ Size[b] \in Nat
      BY BoundType
    <3>2. offset[b] + Size[b] <= h
      BY DEF Tiled
    <3> QED
      BY <2>2, <3>1, <3>2
  <2> QED
    BY <1>2, <2>1, <2>2
<1>4. ASSUME p < h PROVE FALSE
  <2>1. p \in 0..(h - 1)
    BY <1>1, <1>3, <1>4
  <2>2. PICK b \in Bound : offset[b] <= p /\ p < offset[b] + Size[b]
    BY <2>1 DEF Tiled
  <2>3. offset[b] \in Nat /\ Size[b] \in Nat
    BY BoundType
  <2>4. offset[b] + Size[b] <= p \/ p + Size[o] <= offset[b]
    BY <1>2
  <2>5. Size[o] \in Nat /\ Size[o] > 0
    BY SizeType
  <2> HIDE DEF h
  <2> QED
    BY <1>3, <2>2, <2>3, <2>4, <2>5
<1> HIDE DEF h
<1> QED
  BY <1>1, <1>3, <1>4 DEF h

\* What is bound there fills the aperture as well.
LEMMA TiledBind ==
  ASSUME Facts, Tiled, IsFiniteSet(Bound), NEW o \in Obj, o \notin Bound,
         NEW p \in Holes(o), offset' = [offset EXCEPT ![o] = p]
  PROVE  Bound' = Bound \cup {o} /\ Tiled'
<1> DEFINE h == Cardinality(PagesOf(Bound))
           k == Cardinality(PagesOf(Bound'))
<1>1. h \in Nat /\ p = h
  BY PagesFinite, FS_CardinalityType, HoleIsEnd DEF Bound
<1>2. offset \in [Obj -> {Unbound} \cup 0..Pages] /\ Bound \subseteq Obj
  BY DEF Facts, StateTypes, Bound
<1>3. offset'[o] = h /\ \A b \in Obj \ {o} : offset'[b] = offset[b]
  BY <1>1, <1>2
<1>4. Bound' = Bound \cup {o}
  <2>1. h # Unbound
    BY <1>1 DEF Unbound
  <2> HIDE DEF h
  <2> QED
    BY <1>3, <2>1 DEF Bound
<1>5. k = h + Size[o]
  BY <1>2, <1>4, PagesMore
<1>6. Size[o] \in Nat /\ Size[o] > 0
  BY SizeType
<1>7. ASSUME NEW b \in Bound PROVE /\ offset'[b] = offset[b]
                                   /\ offset[b] \in Nat /\ Size[b] \in Nat
                                   /\ offset[b] + Size[b] <= h
  <2>1. offset'[b] = offset[b]
    BY <1>2, <1>3
  <2>2. offset[b] + Size[b] <= h
    BY DEF Tiled
  <2> QED
    BY <2>1, <2>2, BoundType
<1>8. \A q \in 0..(h - 1) : \E b \in Bound :
        offset[b] <= q /\ q < offset[b] + Size[b]
  BY DEF Tiled
<1> HIDE DEF h
<1>9. ASSUME NEW b \in Bound' PROVE offset'[b] + Size[b] <= h + Size[o]
  <2>1. CASE b = o
    BY <1>1, <1>3, <1>6, <2>1
  <2>2. CASE b # o
    <3>1. b \in Bound
      BY <1>4, <2>2
    <3> QED
      BY <1>1, <1>6, <1>7, <3>1
  <2> QED
    BY <2>1, <2>2
<1>10. ASSUME NEW q \in 0..(h + Size[o] - 1)
       PROVE  \E b \in Bound' :
                offset'[b] <= q /\ q < offset'[b] + Size[b]
  <2>1. CASE q < h
    <3>1. q \in 0..(h - 1)
      BY <1>1, <2>1
    <3>2. PICK b \in Bound : offset[b] <= q /\ q < offset[b] + Size[b]
      BY <1>8, <3>1
    <3>3. b \in Bound' /\ offset'[b] = offset[b]
      BY <1>4, <1>7
    <3> QED
      BY <3>2, <3>3
  <2>2. CASE q >= h
    <3>1. o \in Bound' /\ offset'[o] = h
      BY <1>3, <1>4
    <3>2. h <= q /\ q < h + Size[o]
      BY <1>1, <1>6, <2>2
    <3> QED
      BY <3>1, <3>2
  <2> QED
    BY <1>1, <2>1, <2>2
<1>11. Tiled'
  <2> HIDE DEF k
  <2>1. \A b \in Bound' : offset'[b] + Size[b] <= k
    BY <1>5, <1>9
  <2>2. \A q \in 0..(k - 1) : \E b \in Bound' :
          offset'[b] <= q /\ q < offset'[b] + Size[b]
    <3>1. ASSUME NEW q \in 0..(k - 1) PROVE q \in 0..(h + Size[o] - 1)
      BY <1>1, <1>5, <1>6
    <3> QED
      BY <1>10, <3>1
  <2> QED
    BY <2>1, <2>2 DEF Tiled, k
<1> QED
  BY <1>4, <1>11

\* Others leave a thread and the aperture alone while it has dev_lock for
\* writing.
LEMMA OthersLeave ==
  ASSUME Facts, NEW t \in Process, writer = t, NEW s \in Thread, s # t,
         Moves(s)
  PROVE  offset' = offset
<1>1. th[s].pc \notin Evicting \cup Seeking \cup {"stop"}
  BY WriterAlone
<1>2. Acts(s)
  BY MovesAct
<1>3. ~InactiveUnbind(s) /\ ~Bind(s) /\ \A b \in Obj : ~FindInactive(s, b)
  BY <1>1 DEF InactiveUnbind, Bind, FindInactive, Evicting, Seeking
<1>4. Done(s) => offset' = offset
  BY DEF Done, Exit
<1>5. \A w \in SUBSET Obj : Dispatch(s, w) => offset' = offset
  BY DEF Dispatch
<1> QED
  BY <1>2, <1>3, <1>4, <1>5 DEF Acts, Leaves

\* What changes neither the thread nor the aperture leaves it the room it has.
LEMMA RoomKept ==
  ASSUME NEW t \in Process, RoomFor(t), Counting(t),
         offset' = offset \/ th[t].op # "exec" \/ th[t].pc \in Waiting
  PROVE  RoomFor(t)'
<1>1. CASE th[t].op # "exec" \/ th[t].pc \in Waiting
  BY <1>1 DEF RoomFor, Counting
<1>2. CASE offset' = offset
  <2>1. Bound' = Bound
    BY <1>2 DEF Bound
  <2>2. PinnedBy(t)' = PinnedBy(t)
    BY DEF Counting, PinnedBy
  <2>3. Tiled' = Tiled
    BY <1>2, <2>1 DEF Tiled
  <2> QED
    BY <2>1, <2>2, <2>3 DEF RoomFor, SecondTry, Counting
<1> QED
  BY <1>1, <1>2

\* With dev_lock for itself, everything that is pinned is pinned by the
\* writer.
LEMMA OnlyWriterPins ==
  ASSUME Facts, NEW t \in Process, writer = t, th[t].op = "exec",
         NEW o \in Obj, pins[o] > 0
  PROVE  o \in PinnedBy(t)
<1>1. PICK s \in Thread : held[o] = s
  BY DEF Facts, StateTypes, PinExact
<1>2. Pins(s, o)
  BY <1>1 DEF Facts, PinExact
<1>3. s # Power
  BY <1>1, PowerHolds DEF Facts
<1>4. CASE s = t
  BY <1>2, <1>4 DEF Pins
<1>5. CASE s # t
  <2>1. s \in Process /\ Place(s) /\ Locked(s) /\ th[s] \in ThreadState
    BY <1>3 DEF Facts, Places, Locks, StateTypes, Thread
  <2>2. readers = {} /\ writer # s /\ t # None
    BY <1>5, ApertureAssumption DEF Facts, Locks, Thread
  <2>3. \/ th[s].op \notin {"fault", "access", "exec", "leave"}
        \/ th[s].pc \in Waiting
    BY <2>1, <2>2 DEF Locked
  <2>4. th[s].n = 0
    BY <2>1, <2>3 DEF Place, Waiting, ThreadState, Ops
  <2>5. PinnedBy(s) = {}
    BY <2>4 DEF PinnedBy
  <2>6. ~(th[s].op = "access" /\ Uses(s))
    BY <2>3 DEF Uses, Waiting
  <2> QED
    BY <1>2, <2>5, <2>6 DEF Pins
<1> QED
  BY <1>4, <1>5

\* So nothing is bound when the lists are empty and it has pinned nothing.
LEMMA NothingBound ==
  ASSUME Facts, Listed, NEW t \in Process, writer = t, th[t].op = "exec",
         th[t].n = 0, ListsEmpty
  PROVE  Bound = {}
<1>1. PinnedBy(t) = {}
  BY DEF PinnedBy
<1>2. ASSUME NEW o \in Bound PROVE FALSE
  <2>1. o \in Obj /\ offset[o] # Unbound /\ list[o] = "none"
    BY DEF Bound, ListsEmpty, Busy, On, Facts, StateTypes
  <2>2. pins[o] > 0
    BY <2>1 DEF Listed, ListedOf
  <2> QED
    BY <1>1, <2>1, <2>2, OnlyWriterPins
<1> QED
  BY <1>2

\* An empty aperture has no holes.
LEMMA TiledEmpty ==
  ASSUME Bound = {}
  PROVE  Tiled
<1>1. Cardinality(PagesOf(Bound)) = 0
  BY NoPages
<1> QED
  BY <1>1 DEF Tiled

\* Bound in its place, the object is one more of those that fill the
\* aperture.
LEMMA OwnBind ==
  ASSUME Facts, ~PinMayFail, NEW t \in Process, Bind(t), th[t].op = "exec",
         Bound = PinnedBy(t), Tiled
  PROVE  Bound' = PinnedBy(t)' /\ Tiled'
<1> DEFINE o == Cur(t)
           S == IF o \in Bound THEN {offset[o]} ELSE Holes(o)
<1>0. /\ th \in [Thread -> ThreadState] /\ t \in Thread
      /\ offset \in [Obj -> {Unbound} \cup 0..Pages]
      /\ th[t] \in ThreadState /\ th[t].n \in Nat
  BY DEF Facts, StateTypes, ThreadState, Thread
<1>1. o \in Obj
  BY CurObject DEF Facts, Bind, HasCur, Seeking
<1>2. th'[t].n = th[t].n + 1 /\ th'[t].batch = th[t].batch
  <2>1. Pin(t, o)
    BY DEF Bind, PinFails
  <2> HIDE DEF o
  <2> QED
    BY <1>0, <2>1 DEF Pin, ThreadState
<1>3. PinnedBy(t)' = PinnedBy(t) \cup {o}
  BY <1>0, <1>2 DEF PinnedBy, Cur
<1>4. IsFiniteSet(Bound)
  BY PinnedFinite
<1>5. PICK p \in S : offset' = [offset EXCEPT ![o] = p]
  BY DEF Bind
<1> HIDE DEF o
<1>6. CASE o \in Bound
  <2>1. offset' = offset
    BY <1>0, <1>1, <1>5, <1>6
  <2>2. Bound' = Bound
    BY <2>1 DEF Bound
  <2>3. Tiled' = Tiled
    BY <2>1, <2>2 DEF Tiled
  <2> QED
    BY <1>3, <1>6, <2>2, <2>3
<1>7. CASE o \notin Bound
  <2>1. Bound' = Bound \cup {o} /\ Tiled'
    BY <1>1, <1>4, <1>5, <1>7, TiledBind
  <2> QED
    BY <1>3, <2>1
<1> QED
  BY <1>6, <1>7

\* If there is no room for an object of a batch that fits, this is the first
\* try, and there is something to evict.
LEMMA OwnFull ==
  ASSUME Facts, NEW t \in Process, BindFull(t), th[t].op = "exec",
         RoomFor(t), Fits(th[t].batch)
  PROVE  th[t].tries = 0 /\ Bound # {}
<1>1. /\ HasCur(t) /\ th[t].pc = "bind" /\ Cur(t) \notin Bound
      /\ Holes(Cur(t)) = {}
  BY DEF BindFull, HasCur, Seeking
<1>2. Cur(t) \in Obj
  BY <1>1, CurObject DEF Facts
<1>3. Cur(t) \notin PinnedBy(t)
  BY <1>1 DEF Facts, Holds, HoldExact, Thread
<1>4. Cardinality(PagesOf(PinnedBy(t))) + Size[Cur(t)] <= Pages
  BY <1>1, <1>3, NextFits
<1>5. ~(Bound = PinnedBy(t) /\ Tiled)
  <2>1. SUFFICES ASSUME Bound = PinnedBy(t), Tiled PROVE FALSE
    OBVIOUS
  <2>2. IsFiniteSet(Bound)
    BY <2>1, PinnedFinite
  <2>3. Cardinality(PagesOf(Bound)) \in Holes(Cur(t))
    BY <1>2, <1>4, <2>1, <2>2, EndIsHole
  <2> QED
    BY <1>1, <2>3
<1>6. th[t].tries = 0
  BY <1>1, <1>5 DEF RoomFor, SecondTry, Waiting, Evicting
<1>7. Bound # {}
  <2>1. SUFFICES ASSUME Bound = {} PROVE FALSE
    OBVIOUS
  <2>2. /\ Cardinality(PagesOf(PinnedBy(t))) \in Nat /\ Size[Cur(t)] \in Nat
        /\ Pages \in Nat
    BY <1>2, PinnedFinite, SizeType, ApertureAssumption
  <2>3. 0 + Size[Cur(t)] <= Pages
    BY <1>4, <2>2
  <2>4. 0 \in Holes(Cur(t))
    BY <2>1, <2>3 DEF Holes
  <2> QED
    BY <1>1, <2>4
<1> QED
  BY <1>6, <1>7

\* On the first try, only what is to be evicted counts.
LEMMA RoomThere ==
  ASSUME NEW t \in Process,
         th'[t].op # "exec" \/ th'[t].tries = 0,
         th'[t].pc \in {"search", "find", "wait", "everything", "fail"}
             => Bound' # {} \/ ~Fits(th'[t].batch)
  PROVE  RoomFor(t)'
  BY DEF RoomFor

\* The steps of a process leave it the room.
LEMMA OwnRoom ==
  ASSUME Facts, Listed, ~PinMayFail, ~panic', NEW t \in Process, Moves(t),
         RoomFor(t)
  PROVE  RoomFor(t)'
<1>0. /\ th \in [Thread -> ThreadState] /\ t \in Thread /\ t # Power
      /\ th[t] \in ThreadState /\ Place(t)
  BY ApertureAssumption DEF Facts, StateTypes, Places, Thread
<1>00. th[t].op = "exec" /\ th[t].pc \notin Waiting => writer = t
  BY DEF Facts, Locks, Locked
<1>01. ASSUME th[t].op = "exec", th[t].pc \notin Waiting,
              Fits(th[t].batch), th[t].tries # 0
       PROVE  SecondTry(t)
  BY <1>01 DEF RoomFor
<1>02. ASSUME offset' = offset, th'[t].batch = th[t].batch,
              th'[t].n = th[t].n
       PROVE  /\ Bound' = Bound /\ PinnedBy(t)' = PinnedBy(t)
              /\ Tiled' = Tiled
  <2>1. Bound' = Bound
    BY <1>02 DEF Bound
  <2>2. Tiled' = Tiled
    BY <1>02, <2>1 DEF Tiled
  <2> QED
    BY <1>02, <2>1, <2>2 DEF PinnedBy
<1>1. CASE Gate(t)
  <2>1. th[t].pc = "gate" /\ th'[t].op = th[t].op /\ th'[t].tries = th[t].tries
        /\ th'[t].pc \in {"hold", "lock"}
    BY <1>0, <1>1 DEF Gate, Goto, ThreadState
  <2> QED
    BY <2>1, RoomThere DEF RoomFor, Waiting
<1>2. CASE LockRead(t)
  <2>1. th[t].op # "exec" /\ th'[t].op \in {th[t].op, "none"}
    BY <1>0, <1>2 DEF LockRead, Goto, ThreadState, Idle
  <2> QED
    BY <2>1 DEF RoomFor
<1>3. CASE LockExec(t)
  <2>1. th[t].pc = "lock" /\ th[t].op = "exec"
    BY <1>3 DEF LockExec, LockWrite
  <2>2. \/ th'[t].op = "none"
        \/ th'[t].pc = "hold" /\ th'[t].tries = th[t].tries
    BY <1>0, <1>3 DEF LockExec, Exit, Goto, Idle, ThreadState
  <2> QED
    BY <2>1, <2>2, RoomThere DEF RoomFor, Waiting
<1>4. CASE LockLeave(t) \/ LockEnter(t) \/ LeaveStop(t)
  <2>1. th[t].op # "exec"
    BY <1>0, <1>4 DEF LockLeave, LockEnter, LockWrite, LeaveStop, Place
  <2>2. th'[t].op \in {th[t].op, "none"}
    BY <1>0, <1>4 DEF LockLeave, LockEnter, LeaveStop, Exit, Idle, ThreadState
  <2> QED
    BY <2>1, <2>2 DEF RoomFor
<1>5. CASE Hold(t)
  <2>1. /\ th[t].pc = "hold" /\ th'[t].pc \in {"domain", "bind"}
        /\ th[t].op # "set_domain" => th'[t].pc = "bind"
        /\ th'[t].op = th[t].op /\ th'[t].tries = th[t].tries
        /\ th'[t].batch = th[t].batch /\ th'[t].n = th[t].n
        /\ th'[t].then = th[t].then /\ th'[t].all = th[t].all
        /\ offset' = offset
    BY <1>0, <1>5 DEF Hold, Goto, ThreadState
  <2>2. Bound' = Bound /\ PinnedBy(t)' = PinnedBy(t) /\ Tiled' = Tiled
    BY <1>02, <2>1
  <2> QED
    BY <2>1, <2>2 DEF RoomFor, SecondTry, Waiting, Evicting
<1>6. CASE Bind(t)
  <2>1. CASE th[t].op # "exec"
    <3>1. th'[t].op = th[t].op
      BY <1>0, <1>6, <2>1 DEF Bind, Pin, PinFails, Goto, ThreadState
    <3> QED
      BY <2>1, <3>1 DEF RoomFor
  <2>2. CASE th[t].op = "exec"
    <3>1. th[t].pc = "bind" /\ Pin(t, Cur(t))
      BY <1>6, <2>2 DEF Bind, PinFails
    <3>2. /\ th'[t].pc \in {"dispatch", "hold"}
          /\ th'[t].op = th[t].op /\ th'[t].tries = th[t].tries
          /\ th'[t].batch = th[t].batch
      BY <1>0, <2>2, <3>1 DEF Pin, ThreadState
    <3>3. SecondTry(t) => SecondTry(t)'
      <4>1. SecondTry(t) => Bound = PinnedBy(t) /\ Tiled
        BY <3>1 DEF SecondTry, Evicting
      <4>2. SecondTry(t) => Bound' = PinnedBy(t)' /\ Tiled'
        BY <1>6, <2>2, <4>1, OwnBind
      <4> QED
        BY <3>2, <4>2 DEF SecondTry, Evicting
    <3> QED
      BY <3>1, <3>2, <3>3 DEF RoomFor, Waiting
  <2> QED
    BY <2>1, <2>2
<1>7. CASE BindFull(t)
  <2>1. /\ th[t].pc = "bind" /\ th'[t].op = th[t].op
        /\ th'[t].tries = th[t].tries /\ th'[t].batch = th[t].batch
        /\ th'[t].pc \in {"fail", "search"} /\ offset' = offset
    BY <1>0, <1>7 DEF BindFull, ThreadState
  <2>2. Bound' = Bound
    BY <2>1 DEF Bound
  <2>3. th[t].op = "exec" /\ Fits(th[t].batch) =>
          th[t].tries = 0 /\ Bound # {}
    BY <1>7, OwnFull
  <2> QED
    BY <2>1, <2>2, <2>3 DEF RoomFor, Waiting
<1>8. CASE SearchRetire(t) \/ FindWait(t) \/ FindFlush(t) \/ FindEvict(t)
  <2>1. /\ th[t].pc \in {"search", "find"} /\ th'[t].op = th[t].op
        /\ th'[t].tries = th[t].tries /\ th'[t].batch = th[t].batch
        /\ offset' = offset
        /\ th'[t].pc \in {"find", "wait", "search", "inactive", "everything"}
    <3>1. CASE SearchRetire(t)
      BY <1>0, <3>1 DEF SearchRetire, Goto, ThreadState
    <3>2. CASE FindWait(t)
      BY <1>0, <3>2 DEF FindWait, NotFound, WaitFor, ThreadState
    <3>3. CASE FindFlush(t)
      BY <1>0, <3>3 DEF FindFlush, NotFound, ThreadState
    <3>4. CASE FindEvict(t)
      BY <1>0, <3>4 DEF FindEvict, NotFound, ThreadState
    <3> QED
      BY <1>8, <3>1, <3>2, <3>3, <3>4
  <2>2. Bound' = Bound
    BY <2>1 DEF Bound
  <2>3. ~SecondTry(t)
    BY <2>1 DEF SecondTry, Evicting
  <2> QED
    BY <1>01, <2>1, <2>2, <2>3 DEF RoomFor, Waiting
<1>9. ASSUME NEW b \in Obj, FindInactive(t, b) PROVE RoomFor(t)'
  <2>1. /\ th[t].pc = "find" /\ th'[t].op = th[t].op /\ th'[t].pc = "bind"
        /\ th'[t].tries = th[t].tries /\ th'[t].batch = th[t].batch
    BY <1>0, <1>9 DEF FindInactive, Goto, ThreadState
  <2>2. ~SecondTry(t)
    BY <2>1 DEF SecondTry, Evicting
  <2> QED
    BY <1>01, <2>1, <2>2 DEF RoomFor, Waiting
<1>10. CASE InactiveUnbind(t)
  <2>1. /\ th[t].pc = "victim" /\ th'[t].op = th[t].op
        /\ th'[t].pc = "inactive"
        /\ th'[t].tries = th[t].tries /\ th'[t].batch = th[t].batch
        /\ th'[t].then = th[t].then /\ th'[t].all = th[t].all
    BY <1>0, <1>10 DEF InactiveUnbind, ThreadState
  <2> QED
    BY <2>1 DEF RoomFor, SecondTry, Waiting, Evicting
<1>11. CASE InactiveEnd(t)
  <2>1. /\ th[t].pc = "inactive" /\ th'[t].op = th[t].op
        /\ th'[t].pc = th[t].then /\ offset' = offset
        /\ th'[t].tries = th[t].tries /\ th'[t].batch = th[t].batch
        /\ th'[t].n = th[t].n
        /\ th[t].all => ListsEmpty
    BY <1>0, <1>11 DEF InactiveEnd, ThreadState
  <2>2. CASE th[t].op # "exec"
    BY <2>1, <2>2 DEF RoomFor
  <2>3. CASE th[t].op = "exec"
    <3>1. th[t].then \in {"bind", "hold"} /\ writer = t
      BY <1>0, <1>00, <2>1, <2>3 DEF Place, Evicting, Waiting
    <3>2. Bound' = Bound /\ PinnedBy(t)' = PinnedBy(t) /\ Tiled' = Tiled
      BY <1>02, <2>1
    <3>3. SecondTry(t) => SecondTry(t)'
      <4>1. SUFFICES ASSUME SecondTry(t) PROVE SecondTry(t)'
        OBVIOUS
      <4>2. th[t].then = "hold" /\ ListsEmpty
        BY <2>1, <4>1 DEF SecondTry, Evicting
      <4>3. th[t].n = 0
        BY <1>0, <2>1, <4>2 DEF Place, Evicting
      <4>4. Bound = {}
        BY <2>3, <3>1, <4>2, <4>3, NothingBound
      <4>5. PinnedBy(t) = {} /\ Tiled
        BY <4>3, <4>4, TiledEmpty DEF PinnedBy
      <4> QED
        BY <2>1, <3>2, <4>2, <4>4, <4>5 DEF SecondTry, Evicting
    <3> QED
      BY <1>01, <2>1, <2>3, <3>1, <3>3 DEF RoomFor, Waiting
  <2> QED
    BY <2>2, <2>3
<1>12. ASSUME NEW b \in Obj, InactivePick(t, b) PROVE RoomFor(t)'
  <2>1. /\ th[t].pc = "inactive" /\ th'[t].op = th[t].op
        /\ th'[t].pc = "victim"
        /\ th'[t].tries = th[t].tries /\ th'[t].batch = th[t].batch
        /\ th'[t].then = th[t].then /\ th'[t].all = th[t].all
    BY <1>0, <1>12 DEF InactivePick, ThreadState
  <2> QED
    BY <2>1 DEF RoomFor, SecondTry, Waiting, Evicting
<1>13. CASE EverythingGone(t)
  <2>1. /\ th[t].pc = "everything" /\ th'[t].op = th[t].op
        /\ th'[t].pc \in {"stop", "fail"} /\ offset' = offset
        /\ th'[t].tries = th[t].tries /\ th'[t].batch = th[t].batch
        /\ ListsEmpty
    BY <1>0, <1>13 DEF EverythingGone, ThreadState
  <2>2. Bound' = Bound
    BY <2>1 DEF Bound
  <2>3. ASSUME th[t].op = "exec", Fits(th[t].batch), th[t].tries # 0
        PROVE  FALSE
    <3>1. SecondTry(t) /\ writer = t /\ Bound # {}
      BY <1>00, <1>01, <2>1, <2>3 DEF Waiting, RoomFor
    <3>2. th[t].then = "hold"
      BY <2>1, <3>1 DEF SecondTry, Evicting
    <3>3. th[t].n = 0
      BY <1>0, <2>1, <3>2 DEF Place, Evicting
    <3> QED
      BY <2>1, <2>3, <3>1, <3>3, NothingBound
  <2> QED
    BY <2>1, <2>2, <2>3 DEF RoomFor, Waiting
<1>14. CASE EverythingFlush(t)
  <2>1. /\ th[t].pc = "everything" /\ th'[t].op = th[t].op
        /\ th'[t].pc = "idling" /\ th'[t].then = th[t].then
        /\ th'[t].tries = th[t].tries /\ th'[t].batch = th[t].batch
    BY <1>0, <1>14 DEF EverythingFlush, ThreadState
  <2> QED
    BY <2>1 DEF RoomFor, SecondTry, Waiting, Evicting
<1>15. CASE EverythingIdle(t)
  <2>1. /\ th[t].pc = "idling" /\ th'[t].op = th[t].op
        /\ th'[t].pc = "inactive" /\ th'[t].then = th[t].then
        /\ th'[t].tries = th[t].tries /\ th'[t].batch = th[t].batch
        /\ th'[t].all = th[t].all
    BY <1>0, <1>15 DEF EverythingIdle, Goto, ThreadState
  <2>2. th[t].all
    BY <1>0, <2>1 DEF Place
  <2> QED
    BY <2>1, <2>2 DEF RoomFor, SecondTry, Waiting, Evicting
<1>16. CASE Wait(t)
  <2>1. /\ th[t].pc = "wait" /\ th'[t].op = th[t].op
        /\ th'[t].pc = th[t].then /\ offset' = offset
        /\ th'[t].tries = th[t].tries /\ th'[t].batch = th[t].batch
    BY <1>0, <1>16 DEF Wait, Goto, ThreadState
  <2>2. Bound' = Bound
    BY <2>1 DEF Bound
  <2>3. ~SecondTry(t)
    BY <2>1 DEF SecondTry, Evicting
  <2>4. th[t].op = "exec" => th[t].then = "search"
    BY <1>0, <2>1 DEF Place
  <2> QED
    BY <1>01, <2>1, <2>2, <2>3, <2>4 DEF RoomFor, Waiting
<1>17. CASE DomainFlush(t) \/ DomainWait(t) \/ Domain(t) \/ Done(t)
  <2>1. th[t].op # "exec"
    BY <1>0, <1>17 DEF DomainFlush, DomainWait, Domain, Done, Place
  <2>2. th'[t].op \in {th[t].op, "none"}
    <3>1. CASE DomainFlush(t)
      BY <1>0, <3>1 DEF DomainFlush, WaitFor, ThreadState
    <3>2. CASE DomainWait(t)
      BY <1>0, <3>2 DEF DomainWait, WaitFor, ThreadState
    <3>3. CASE Domain(t)
      BY <1>0, <3>3 DEF Domain, Goto, ThreadState
    <3>4. CASE Done(t)
      BY <1>0, <3>4 DEF Done, Exit, Idle
    <3> QED
      BY <1>17, <3>1, <3>2, <3>3, <3>4
  <2> QED
    BY <2>1, <2>2 DEF RoomFor
<1>18. ASSUME NEW w \in SUBSET Obj, Dispatch(t, w) PROVE RoomFor(t)'
  <2>1. th'[t].op = "none"
    BY <1>0, <1>18 DEF Dispatch, Idle
  <2> QED
    BY <2>1 DEF RoomFor
<1>19. CASE Retry(t)
  <2>1. /\ th[t].pc = "fail" /\ th[t].op = "exec" /\ th'[t].op = th[t].op
        /\ th'[t].pc = "everything" /\ th'[t].then = "hold"
        /\ th'[t].batch = th[t].batch /\ offset' = offset
    BY <1>0, <1>19 DEF Retry, Retries, ThreadState
  <2>2. Bound' = Bound
    BY <2>1 DEF Bound
  <2> QED
    BY <2>1, <2>2 DEF RoomFor, SecondTry, Waiting, Evicting
<1>20. CASE Fail(t)
  <2>1. th'[t].op = "none"
    BY <1>0, <1>20 DEF Fail, Exit, Idle
  <2> QED
    BY <2>1 DEF RoomFor
<1>21. ASSUME NEW op \in Ops, NEW d \in Seq(Obj), CallOK(op, d),
              Call(t, op, d)
       PROVE  RoomFor(t)'
  <2>1. th'[t].pc = "gate" /\ th'[t].tries = 0
    BY <1>0, <1>21 DEF Call, Idle
  <2> QED
    BY <2>1 DEF RoomFor, Waiting
<1> QED
  BY <1>0, <1>1, <1>2, <1>3, <1>4, <1>5, <1>6, <1>7, <1>8, <1>9, <1>10,
     <1>11, <1>12, <1>13, <1>14, <1>15, <1>16, <1>17, <1>18, <1>19, <1>20,
     <1>21
  DEF Moves, Step, Search, Evict

\* So does every step.
LEMMA RoomStep ==
  ASSUME Safe, Listed, ~PinMayFail, Room, [Next]_vars
  PROVE  Room'
<1>1. Facts /\ ~panic'
  BY SafeStep DEF Safe
<1>2. ASSUME NEW t \in Process PROVE RoomFor(t)'
  <2>0. RoomFor(t) /\ t \in Thread /\ StateTypes
    BY <1>1 DEF Room, Thread, Facts
  <2>1. CASE GpuStep \/ RetireWork \/ UNCHANGED vars
    <3>1. Counting(t)
      BY <2>0, <2>1, Uncounted
    <3>2. offset' = offset
      BY <2>1 DEF GpuStep, RetireWork, vars
    <3> QED
      BY <2>0, <3>1, <3>2, RoomKept
  <2>2. ASSUME NEW s \in Thread, Moves(s), s # t PROVE RoomFor(t)'
    <3>1. Counting(t)
      BY <2>0, <2>2, OneMoves DEF Counting
    <3>2. CASE th[t].op # "exec" \/ th[t].pc \in Waiting
      BY <2>0, <3>1, <3>2, RoomKept
    <3>3. CASE th[t].op = "exec" /\ th[t].pc \notin Waiting
      <4>1. writer = t
        BY <1>1, <3>3 DEF Facts, Locks, Locked
      <4>2. offset' = offset
        BY <1>1, <2>2, <4>1, OthersLeave
      <4> QED
        BY <2>0, <3>1, <4>2, RoomKept
    <3> QED
      BY <3>2, <3>3
  <2>3. CASE Moves(t)
    BY <1>1, <2>0, <2>3, OwnRoom
  <2> QED
    BY <2>1, <2>2, <2>3, Movers
<1> QED
  BY <1>2 DEF Room

\* If i915_gem_object_pin cannot fail after it has bound an object, execbuffer
\* is never refused on its second try a batch that would fit into an empty
\* aperture, whatever the sizes of its objects and their order: once
\* evict_everything has emptied the aperture, they are bound one behind the
\* other without a hole between them.
THEOREM SecondTryFits ==
  ASSUME ~PinMayFail
  PROVE  Spec => []Refits
<1>1. Init => Safe /\ Listed /\ Room
  <2>1. ASSUME Init PROVE Room
    <3>1. \A t \in Process : th[t].op = "none"
      BY <2>1 DEF Init, Idle, Thread
    <3> QED
      BY <3>1 DEF Room, RoomFor
  <2> QED
    BY <2>1, SafeInit
<1>2. Safe /\ Listed /\ Room /\ [Next]_vars => (Safe /\ Listed /\ Room)'
  BY SafeStep, ListedStep, RoomStep DEF Safe
<1>3. Room => Refits
  BY DEF Room, RoomFor, SecondTry, Refits, Waiting, Evicting
<1> QED
  BY <1>1, <1>2, <1>3, PTL DEF Spec

==============================================================================
