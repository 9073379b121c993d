-------------------------- MODULE Recovery_proofs --------------------------
(***************************************************************************)
(* Proofs about Recovery, for any number of clients, objects, requests,    *)
(* hangs and terminal switches, for each of the chips, and whatever the    *)
(* hang timer does.                                                        *)
(*                                                                         *)
(* Three things keep the assertions, if no signal ends leavevt: dev_lock,  *)
(* which leavevt has from its flush to the end, so that nothing but a bare *)
(* request is queued behind the one it waits for (Locks, Leaving); the     *)
(* order of the lists, in which retiring a request frees every object that *)
(* it is the last of (Lists); and that a request on the list, if not bare, *)
(* is there for an active object, unless a leavevt waits for it or the GPU *)
(* is given up (Covered): without that, empty lists would not mean an      *)
(* empty ring.                                                             *)
(*                                                                         *)
(* That who waits under a shield is told, and has a status page to read,   *)
(* needs Locks, Lists, and that an object held stays active for the        *)
(* request its holder waits for (Waits).                                   *)
(***************************************************************************)
EXTENDS Recovery, TLAPS

Ops == {"none", "exec", "sync", "irq_wait", "leave", "enter", "hung"}
ListName == {"none", "active", "flushing", "inactive"}

Types ==
    /\ hwSeq \in Nat /\ queue \subseteq Nat
    /\ nextSeq \in Nat /\ requests \subseteq Nat
    /\ list \in [Obj -> ListName] /\ lrs \in [Obj -> Nat] /\ dirty \subseteq Obj
    /\ th \in [Thread -> [pc : Pcs, op : Ops, obj : Obj \cup {None}, seq : Nat]]

\* Which thread is where, and for what.
ClientPc(c) ==
    /\ th[c].pc \in {"idle", "lock", "hold", "sleep", "woken"}
    /\ th[c].op \in {"none", "exec", "sync", "irq_wait"}
    /\ th[c].pc = "lock" => th[c].op = "exec"
    /\ th[c].pc \in {"lock", "hold"} => th[c].obj \in Obj
    /\ th[c].pc = "hold" => th[c].op \in {"exec", "sync"}

Shape ==
    /\ \A c \in Client : ClientPc(c)
    /\ th[Master].pc \in {"idle", "lock", "sleep", "woken", "evict", "stop",
                          "irqoff", "irqon"}
    /\ th[Master].op \in {"none", "leave", "enter"}
    /\ th[Master].pc \in {"sleep", "woken", "evict", "stop"} =>
           th[Master].op = "leave"
    /\ th[Worker].pc \in {"idle", "lock", "reoff", "reon", "relock", "clear",
                          "evict"}

\* Nothing is left for the GPU but bare requests; and nothing is bound either.
Quiet ==
    /\ dirty = {} /\ requests \subseteq bare
    /\ \A o \in Obj : list[o] \in {"none", "inactive"}
Empty == Quiet /\ \A o \in Obj : list[o] = "none"

\* Who has dev_lock, and what it keeps from changing.
Locks ==
    /\ \A c \in Client :
        /\ th[c].pc = "hold" /\ th[c].op = "exec" => drmW = c /\ ~suspended
        /\ drmW = c => th[c].pc = "hold" /\ th[c].op = "exec"
    /\ th[Master].pc \in {"sleep", "woken", "evict", "stop"} => drmW = Master
    /\ th[Master].pc \in {"sleep", "woken"} => ~suspended
    /\ th[Worker].pc \in {"clear", "evict"} => drmW = Worker
    /\ th[Master].pc = "lock" /\ th[Master].op = "enter" => suspended

\* What the lists, the flags and the requests have to do with each other.
Lists ==
    /\ \A r \in requests : r < nextSeq
    /\ bare \subseteq requests
    /\ \A o \in Obj : list[o] = "active" => lrs[o] \in requests \ bare
    /\ \A o \in dirty : list[o] \in {"active", "flushing"}
    /\ \A o \in Obj : list[o] = "flushing" => o \in dirty

\* What is left behind with the terminal.
Power ==
    /\ ringOn <=> ~suspended
    /\ page <=> ringOn \/ ~GfxHws
    /\ suspended => queue = {}
    /\ suspended /\ ~unreset => Quiet
    /\ suspended /\ ~unreset /\ ~page => Empty

\* What leavevt knows at each step.
Leaving ==
    /\ th[Master].pc \in {"sleep", "woken"} =>
           dirty = {} /\ \A r \in requests \ bare : r <= th[Master].seq
    /\ th[Master].pc = "evict" /\ ~suspended => Quiet
    /\ th[Master].pc = "stop" => wedged \/ Empty

\* Every request that is not bare has an active object that it, or a later one,
\* is the last of.
AllUsed ==
    \A r \in requests \ bare : \E o \in Obj : list[o] = "active" /\ r <= lrs[o]

Covered ==
    \/ th[Master].pc \in {"sleep", "woken"}
    \/ th[Master].pc = "stop" /\ wedged
    \/ suspended /\ unreset
    \/ AllUsed

\* No signal ends leavevt.
NoLeave == "leave" \notin SignalOps

Core == Locks /\ Lists /\ Power /\ Leaving /\ Covered

\* The panics that find the lists, the requests or the ring as they should not
\* be; "emit" and "page" leave all else as it was.
Failed == panic \in {"lists", "requests", "ring"}

RecInv ==
    /\ Types /\ Shape
    /\ ~Failed => Core
    /\ PanicsNot /\ (panic = "requests" => ~suspended)

USE RecoveryAssumption

-----------------------------------------------------------------------------
(* Types, and who is where.                                                *)

\* The X server and the worker are threads of their own.
LEMMA Threads ==
    /\ Master \in Thread /\ Worker \in Thread /\ Master # Worker
    /\ \A c \in Client : c \in Thread /\ c # Master /\ c # Worker
    /\ Master \in Process
    /\ \A t \in Process : t \in Thread /\ (t \in Client \/ t = Master)
  BY DEF Thread, Process

\* The types hold at the start.
LEMMA InitTypes == Init => Types /\ Shape
  BY Threads DEF Init, Types, Shape, ClientPc, Idle, ListName, Pcs, Ops

\* The engine's operators.
LEMMA FlushTypes ==
  ASSUME Types, FlushDirty
  PROVE  /\ nextSeq' \in Nat /\ requests' \subseteq Nat /\ queue' \subseteq Nat
         /\ list' \in [Obj -> ListName] /\ lrs' \in [Obj -> Nat]
         /\ dirty' \subseteq Obj
  BY DEF FlushDirty, AddRequest, Types, ListName

\* A bare request, or none.
LEMMA EmitTypes ==
  ASSUME Types, Emit
  PROVE  nextSeq' \in Nat /\ requests' \subseteq Nat /\ queue' \subseteq Nat
  <1>1. CASE ringOn
    <2>1. AddRequest
      BY <1>1 DEF Emit
    <2> QED
      BY <2>1 DEF AddRequest, Types
  <1>2. CASE ~ringOn
    BY <1>2 DEF Emit, Types, reqVars
  <1> QED
    BY <1>1, <1>2

\* Retiring keeps the types.
LEMMA RetireTypes ==
  ASSUME Types, RetireRequests
  PROVE  /\ nextSeq' \in Nat /\ requests' \subseteq Nat
         /\ list' \in [Obj -> ListName] /\ lrs' \in [Obj -> Nat]
         /\ dirty' \subseteq Obj
  BY DEF RetireRequests, InactiveList, Types, ListName

\* A step of each thread keeps the types, and leaves every thread where it
\* can be.
LEMMA TypesStep == ASSUME Types, Shape, Next PROVE Types' /\ Shape'
<1>. USE Threads DEF gpuVars, irqVars, reqVars, hangVars, vtVars, objVars,
   lockVars,
                     Types, Shape, ClientPc, Pcs, Ops
<1>. DEFINE Good == Types' /\ Shape'
<1>1. ASSUME GpuStep PROVE Good
  BY <1>1 DEF GpuStep
<1>2. ASSUME GpuStops PROVE Good
  BY <1>2 DEF GpuStops
<1>3. ASSUME Interrupt PROVE Good
  BY <1>3 DEF Interrupt, Woken
<1>4. ASSUME HangCheckIdle PROVE Good
  BY <1>4 DEF HangCheckIdle, HangCheck
<1>5. ASSUME HangCheckAgain PROVE Good
  BY <1>5 DEF HangCheckAgain, HangCheck
<1>6. ASSUME HangCheckKick PROVE Good
  BY <1>6 DEF HangCheckKick, HangCheck
<1>7. ASSUME HangCheckDeclare PROVE Good
  BY <1>7 DEF HangCheckDeclare, HangCheck, Declared, Woken
<1>8. ASSUME NEW c \in Client, NEW o \in Obj, NEW op \in {"exec", "sync"}, Call(c, op, o)
     PROVE Good
  BY <1>8 DEF Call
<1>9. ASSUME NEW c \in Client, NEW r \in Numbers, IrqWait(c, r) PROVE Good
  BY <1>9, EmitTypes DEF IrqWait
<1>10. ASSUME Call(Master, "leave", None) PROVE Good
  BY <1>10 DEF Call
<1>11. ASSUME Enter(Master) PROVE Good
  BY <1>11 DEF Enter
<1>12. ASSUME NEW c \in Process, ExecLock(c) PROVE Good
  BY <1>12 DEF ExecLock, Idle, Goto
<1>13. ASSUME NEW c \in Process, NEW w \in BOOLEAN, ExecDispatch(c, w)
     PROVE Good
  <2>1. c \in Client /\ th[c].obj \in Obj
    BY <1>13 DEF ExecDispatch
  <2>2. th' = [th EXCEPT ![c] = Idle] /\ hwSeq' = hwSeq
    BY <1>13 DEF ExecDispatch
  <2>3. th' \in [Thread -> [pc : Pcs, op : Ops, obj : Obj \cup {None}, seq : Nat]]
    BY <2>1, <2>2 DEF Idle
  <2>4. Shape'
    BY <2>1, <2>2 DEF Idle
  <2>5. CASE ringOn
    <3>1. /\ list' = [list EXCEPT ![th[c].obj] = "active"]
          /\ lrs' = [lrs EXCEPT ![th[c].obj] = nextSeq]
      BY <1>13, <2>5 DEF ExecDispatch
    <3>2. dirty' \subseteq dirty \cup {th[c].obj}
      BY <1>13, <2>5 DEF ExecDispatch
    <3>3. AddRequest
      BY <1>13, <2>5 DEF ExecDispatch
    <3>4. nextSeq' \in Nat /\ requests' \subseteq Nat /\ queue' \subseteq Nat
      BY <3>3 DEF AddRequest
    <3>5. /\ list' \in [Obj -> ListName] /\ lrs' \in [Obj -> Nat]
          /\ dirty' \subseteq Obj
      BY <2>1, <3>1, <3>2 DEF ListName
    <3> QED
      BY <2>2, <2>3, <2>4, <3>4, <3>5
  <2>6. CASE ~ringOn
    BY <1>13, <2>2, <2>3, <2>4, <2>6 DEF ExecDispatch
  <2> QED
    BY <2>5, <2>6
<1>14. ASSUME NEW c \in Process, SyncIdle(c) PROVE Good
  BY <1>14 DEF SyncIdle, Idle
<1>15. ASSUME NEW c \in Process, Sync(c) PROVE Good
  BY SMTT(60), <1>15, FlushTypes DEF Sync, Idle
<1>16. ASSUME NEW c \in Process, WaitSleep(c) PROVE Good
  BY <1>16 DEF WaitSleep, Goto
<1>17. ASSUME NEW c \in Process, WaitDone(c) PROVE Good
  BY <1>17, RetireTypes DEF WaitDone, WaitReturns, Goto, Idle
<1>18. ASSUME NEW c \in Process, WaitWedged(c) PROVE Good
  BY <1>18 DEF WaitWedged, WaitReturns, Goto, Idle
<1>19. ASSUME NEW c \in Process, Signal(c) PROVE Good
  BY <1>19 DEF Signal, Idle
<1>20. ASSUME NEW c \in Process, LeaveAgain(c) PROVE Good
  BY <1>20 DEF LeaveAgain, Goto
<1>21. ASSUME NEW c \in Process, Leave(c) PROVE Good
  BY <1>21, FlushTypes DEF Leave, Goto
<1>22. ASSUME NEW c \in Process, LeaveEvicted(c) PROVE Good
  BY <1>22 DEF LeaveEvicted, Goto
<1>23. ASSUME NEW c \in Process, LeaveStop(c) PROVE Good
  BY <1>23 DEF LeaveStop, CleanupHws, Goto
<1>24. ASSUME NEW c \in Process, LeaveIrq(c) PROVE Good
  BY <1>24 DEF LeaveIrq, SetIrq, Idle
<1>25. ASSUME NEW c \in Process, EnterLock(c) PROVE Good
  BY <1>25 DEF EnterLock, InitHws, Goto
<1>26. ASSUME NEW c \in Process, EnterIrq(c) PROVE Good
  BY <1>26 DEF EnterIrq, SetIrq, Idle
<1>27. ASSUME RetireWork PROVE Good
  BY <1>27, RetireTypes DEF RetireWork
<1>28. ASSUME HungStart PROVE Good
  BY <1>28 DEF HungStart, Idle
<1>29. ASSUME HungReset PROVE Good
  BY <1>29 DEF HungReset, Goto
<1>30. ASSUME HungIrqOff PROVE Good
  BY <1>30 DEF HungIrqOff, SetIrq, Goto
<1>31. ASSUME HungIrqOn PROVE Good
  BY <1>31 DEF HungIrqOn, SetIrq, Goto
<1>32. ASSUME HungRelock PROVE Good
  BY <1>32 DEF HungRelock, Goto
<1>33. ASSUME HungClear PROVE Good
  BY <1>33 DEF HungClear, Goto, InactiveList, ListName
<1>34. ASSUME HungEnd PROVE Good
  BY <1>34 DEF HungEnd, Idle
<1>40. ASSUME NEW c \in Client, IrqEmit(c) PROVE Good
  BY <1>40, EmitTypes DEF IrqEmit
<1>41. ASSUME NEW c \in Process, WaitNoPage(c) PROVE Good
  BY <1>41 DEF WaitNoPage
<1>35. ASSUME NEW t \in Thread, NEW o \in Obj, Evict(t, o) PROVE Good
  BY <1>35 DEF Evict, Evictable, On, ListName
<1>36. ASSUME Panicked PROVE Good
  BY <1>36 DEF Panicked, vars
<1>37. ASSUME Enters PROVE Good
  BY <1>8, <1>9, <1>10, <1>11, <1>37, <1>40 DEF Enters
<1>38. ASSUME NEW c \in Process, Step(c) PROVE Good
  BY <1>12, <1>13, <1>14, <1>15, <1>16, <1>17, <1>18, <1>20, <1>21, <1>22,
     <1>23, <1>24, <1>25, <1>26, <1>35, <1>38, <1>41
  DEF Step
<1>39. ASSUME Reset PROVE Good
  BY <1>28, <1>29, <1>30, <1>31, <1>32, <1>33, <1>34, <1>35, <1>39 DEF Reset
<1> QED
  BY <1>1, <1>2, <1>3, <1>4, <1>5, <1>6, <1>7, <1>19, <1>27, <1>36, <1>37,
     <1>38, <1>39
  DEF Next, Running, HangChecks

-----------------------------------------------------------------------------
(* The lists, and what the assertions are about.                           *)

\* Flushing puts what is dirty behind the new request, which is the last.
LEMMA FlushLists ==
  ASSUME Types, Lists, FlushDirty
  PROVE  Lists' /\ dirty' = {} /\ (dirty # {} => AllUsed')
  <1>1. Lists' /\ dirty' = {}
    BY DEF FlushDirty, AddRequest, Types, Lists
  <1>2. ASSUME NEW o \in dirty PROVE AllUsed'
    <2>1. o \in Obj /\ list'[o] = "active" /\ lrs'[o] = nextSeq
      BY <1>2 DEF FlushDirty, Types
    <2>2. \A r \in requests' : r <= nextSeq
      BY DEF FlushDirty, AddRequest, Types, Lists
    <2> QED
      BY <2>1, <2>2 DEF AllUsed
  <1> QED
    BY <1>1, <1>2

\* Only a running chip gets a bare request, and it changes nothing else that
\* matters.
LEMMA EmitLists ==
  ASSUME Types, Lists, Emit, UNCHANGED objVars
  PROVE  /\ Lists'
         /\ requests' \ bare' = requests \ bare
         /\ AllUsed => AllUsed'
         /\ Quiet => Quiet'
         /\ Empty => Empty'
         /\ ~ringOn => queue' = queue
         /\ panic' \in {panic, "emit"}
  <1>1. CASE ringOn
    <2>1. /\ nextSeq' = nextSeq + 1 /\ requests' = requests \cup {nextSeq}
          /\ bare' = bare \cup {nextSeq} /\ panic' = panic
          /\ UNCHANGED <<list, lrs, dirty>>
      BY <1>1 DEF Emit, AddRequest, objVars
    <2>2. nextSeq \notin requests /\ nextSeq \notin bare
      BY DEF Lists, Types
    <2>3. Lists'
      BY <2>1, <2>2 DEF Lists, Types
    <2>4. requests' \ bare' = requests \ bare
      BY <2>1, <2>2
    <2> QED
      BY <1>1, <2>1, <2>3, <2>4 DEF AllUsed, Quiet, Empty
  <1>2. CASE ~ringOn
    <2>1. /\ UNCHANGED <<nextSeq, requests, bare, list, lrs, dirty, queue>>
          /\ panic' = "emit"
      BY <1>2 DEF Emit, reqVars, objVars
    <2> QED
      BY <2>1 DEF Lists, AllUsed, Quiet, Empty
  <1> QED
    BY <1>1, <1>2

\* What retiring, and the reset, have in common: the objects that the retirable
\* requests were the last of are no longer active, and the rest is left alone.
Frees ==
    /\ requests' = requests \ Retirable /\ bare' = bare \ Retirable
    /\ nextSeq' = nextSeq /\ dirty' \subseteq dirty
    /\ \A o \in Obj :
        /\ Retired(o) => list'[o] # "active"
        /\ ~Retired(o) =>
            \/ list'[o] = list[o] /\ lrs'[o] = lrs[o]
               /\ (o \in dirty' <=> o \in dirty)
            \/ list[o] = "flushing" /\ list'[o] # "active"
        /\ list'[o] = "flushing" <=> list'[o] # "active" /\ o \in dirty'
        /\ list[o] = "none" => list'[o] = "none"
        /\ list[o] # "active" /\ list[o] # "flushing" => list'[o] = list[o]

\* What that keeps.
LEMMA FreesKeep ==
  ASSUME Types, Lists, Frees
  PROVE  /\ Lists'
         /\ AllUsed => AllUsed'
         /\ Quiet => Quiet'
         /\ Empty => Empty'
  <1>1. Lists'
    BY DEF Lists, Types, Retired, Frees, ListName
  <1>2. ASSUME AllUsed, NEW r \in requests' \ bare'
        PROVE  \E o \in Obj : list'[o] = "active" /\ r <= lrs'[o]
    <2>1. r \in requests \ bare /\ r \notin Retirable
      BY <1>2 DEF Frees
    <2>2. PICK o \in Obj : list[o] = "active" /\ r <= lrs[o]
      BY <1>2, <2>1 DEF AllUsed
    <2>3. lrs[o] \in Nat /\ r \in Nat /\ hwSeq \in Nat
      BY <2>1 DEF Types
    <2>4. ~Retired(o)
      BY <2>1, <2>2, <2>3 DEF Retired, Retirable
    <2> QED
      BY <2>2, <2>4 DEF Frees
  <1>3. ASSUME Quiet PROVE Quiet'
    BY <1>3 DEF Quiet, Frees
  <1>4. ASSUME Empty PROVE Empty'
    BY <1>3, <1>4 DEF Empty, Frees
  <1> QED
    BY <1>1, <1>2, <1>3, <1>4 DEF AllUsed

\* When every request is retired that is not bare, nothing is left to the GPU
\* that is not dirty.
LEMMA FreesAll ==
  ASSUME Types, Lists, Frees, list' \in [Obj -> ListName], dirty' = {},
         requests \ bare \subseteq Retirable
  PROVE  Quiet'
  <1>1. requests' \subseteq bare'
    BY DEF Frees
  <1>2. ASSUME NEW o \in Obj PROVE list'[o] \in {"none", "inactive"}
    <2>1. list'[o] # "active"
      BY DEF Lists, Retired, Frees
    <2>2. list'[o] # "flushing"
      BY <2>1 DEF Frees
    <2> QED
      BY <2>1, <2>2 DEF ListName
  <1> QED
    BY <1>1, <1>2 DEF Quiet

\* Retiring frees what the requests it takes away were the last of.
LEMMA RetireLists ==
  ASSUME Types, Lists, RetireRequests
  PROVE  /\ Lists' /\ dirty' = dirty
         /\ requests' \ bare' \subseteq requests \ bare
         /\ AllUsed => AllUsed'
         /\ Quiet => Quiet'
         /\ Empty => Empty'
         /\ page /\ dirty = {} /\ (\A r \in requests \ bare : r <= hwSeq)
               => Quiet'
  <1>1. /\ requests' = requests \ Retirable /\ bare' = bare \ Retirable
        /\ dirty' = dirty /\ nextSeq' = nextSeq
    BY DEF RetireRequests
  <1>2. \A o \in Obj :
            /\ ~Retired(o) => list'[o] = list[o] /\ lrs'[o] = lrs[o]
            /\ Retired(o) => list'[o] # "active" /\ list[o] = "active"
            /\ Retired(o) => (list'[o] = "flushing" <=> o \in dirty)
    BY DEF RetireRequests, InactiveList, Types, Retired
  <1>3. \A o \in Obj :
            list[o] = "flushing" <=> list[o] # "active" /\ o \in dirty
    BY DEF Lists
  <1>4. Frees
    BY <1>1, <1>2, <1>3 DEF Frees
  <1>5. list' \in [Obj -> ListName]
    BY RetireTypes
  <1>6. ASSUME page, dirty = {}, \A r \in requests \ bare : r <= hwSeq
        PROVE  Quiet'
    <2>1. requests \ bare \subseteq Retirable
      BY <1>6 DEF Retirable
    <2> QED
      BY <1>1, <1>4, <1>5, <1>6, <2>1, FreesAll
  <1>7. requests' \ bare' \subseteq requests \ bare
    BY <1>1
  <1> QED
    BY <1>1, <1>4, <1>6, <1>7, FreesKeep

\* The reset frees everything that is flushing as well, and what it finds
\* wedged is quiet afterwards, if there is a status page.
LEMMA ClearLists ==
  ASSUME Types, Lists, HungClear
  PROVE  /\ Lists'
         /\ AllUsed => AllUsed'
         /\ Quiet => Quiet'
         /\ Empty => Empty'
         /\ page /\ wedged => Quiet'
  <1>1. /\ requests' = requests \ Retirable /\ bare' = bare \ Retirable
        /\ nextSeq' = nextSeq /\ dirty' \subseteq dirty
    BY DEF HungClear
  <1>2. \A o \in Obj :
            /\ list[o] # "flushing" /\ ~Retired(o) =>
                   /\ list'[o] = list[o] /\ lrs'[o] = lrs[o]
                   /\ o \in dirty' <=> o \in dirty
            /\ list[o] = "flushing" \/ Retired(o) =>
                   list'[o] \in {"none", "inactive"} /\ o \notin dirty'
    BY DEF HungClear, InactiveList, Types
  <1>3. \A o \in Obj :
            list[o] = "flushing" <=> list[o] # "active" /\ o \in dirty
    BY DEF Lists
  <1>4. \A o \in Obj : Retired(o) => list[o] = "active"
    BY DEF Retired
  <1>5. Frees
    BY <1>1, <1>2, <1>3, <1>4 DEF Frees
  <1>6. list' \in [Obj -> ListName]
    BY DEF HungClear, InactiveList, Types, ListName
  <1>7. ASSUME page, wedged PROVE Quiet'
    <2>1. Retirable = requests
      BY <1>7 DEF Retirable
    <2>2. dirty' = {}
      BY <1>1, <1>2, <2>1 DEF Lists, Retired, Types
    <2> QED
      BY <1>5, <1>6, <2>1, <2>2, FreesAll
  <1> QED
    BY <1>5, <1>7, FreesKeep

\* The assertions look at the lists only.
LEMMA BusyIs ==
  ASSUME Types, Lists
  PROVE  /\ Busy = {} => /\ dirty = {}
                         /\ \A o \in Obj : list[o] \in {"none", "inactive"}
         /\ Quiet => Busy = {}
  BY DEF Types, Lists, Quiet, Busy, On, ListName

\* dev_lock is where Locks says: each step that takes it moves its thread to
\* where it has it, and no other thread is there.
LEMMA LocksStep == ASSUME Types, Shape, Locks, Running PROVE Locks'
<1>. USE Threads DEF gpuVars, irqVars, reqVars, hangVars, vtVars, objVars,
                     lockVars, Types, Shape, ClientPc, Locks
<1>. DEFINE Good == Locks'
<1>1. ASSUME GpuStep PROVE Good
  BY <1>1 DEF GpuStep
<1>2. ASSUME GpuStops PROVE Good
  BY <1>2 DEF GpuStops
<1>3. ASSUME Interrupt PROVE Good
  BY <1>3 DEF Interrupt, Woken
<1>4. ASSUME HangCheckIdle PROVE Good
  BY <1>4 DEF HangCheckIdle, HangCheck
<1>5. ASSUME HangCheckAgain PROVE Good
  BY <1>5 DEF HangCheckAgain, HangCheck
<1>6. ASSUME HangCheckKick PROVE Good
  BY <1>6 DEF HangCheckKick, HangCheck
<1>7. ASSUME HangCheckDeclare PROVE Good
  BY <1>7 DEF HangCheckDeclare, HangCheck, Declared, Woken
<1>8. ASSUME NEW c \in Client, NEW o \in Obj,
            NEW op \in {"exec", "sync"}, Call(c, op, o) PROVE Good
  BY <1>8 DEF Call
<1>9. ASSUME NEW c \in Client, NEW r \in Numbers, IrqWait(c, r) PROVE Good
  BY <1>9 DEF IrqWait
<1>10. ASSUME Call(Master, "leave", None) PROVE Good
  BY <1>10 DEF Call
<1>11. ASSUME Enter(Master) PROVE Good
  BY <1>11 DEF Enter
<1>12. ASSUME NEW c \in Process, ExecLock(c) PROVE Good
  <2>1. CASE Refused
    BY <1>12, <2>1 DEF ExecLock, Idle
  <2>2. CASE ~Refused
    <3>1. c \in Client /\ ~suspended /\ drmW = None /\ th[c].op = "exec"
      BY <1>12, <2>2 DEF ExecLock, Refused
    <3>2. /\ th' = [th EXCEPT ![c].pc = "hold"]
          /\ drmW' = c /\ suspended' = suspended
      BY <1>12, <2>2 DEF ExecLock, Goto
    <3> QED
      BY <3>1, <3>2
  <2> QED
    BY <2>1, <2>2
<1>13. ASSUME NEW c \in Process, NEW w \in BOOLEAN, ExecDispatch(c, w)
      PROVE Good
  BY <1>13 DEF ExecDispatch, Idle
<1>14. ASSUME NEW c \in Process, SyncIdle(c) PROVE Good
  BY <1>14 DEF SyncIdle, Idle
<1>15. ASSUME NEW c \in Process, Sync(c) PROVE Good
  BY <1>15 DEF Sync, Idle
<1>16. ASSUME NEW c \in Process, WaitSleep(c) PROVE Good
  BY <1>16 DEF WaitSleep, Goto
<1>17. ASSUME NEW c \in Process, WaitDone(c) PROVE Good
  BY <1>17 DEF WaitDone, WaitReturns, Goto, Idle
<1>18. ASSUME NEW c \in Process, WaitWedged(c) PROVE Good
  BY <1>18 DEF WaitWedged, WaitReturns, Goto, Idle
<1>19. ASSUME NEW c \in Process, Signal(c) PROVE Good
  BY <1>19 DEF Signal, Idle
<1>20. ASSUME NEW c \in Process, LeaveAgain(c) PROVE Good
  BY <1>20 DEF LeaveAgain, Goto
<1>21. ASSUME NEW c \in Process, Leave(c) PROVE Good
  BY <1>21 DEF Leave, Goto
<1>22. ASSUME NEW c \in Process, LeaveEvicted(c) PROVE Good
  BY <1>22 DEF LeaveEvicted, Goto
<1>23. ASSUME NEW c \in Process, LeaveStop(c) PROVE Good
  BY <1>23 DEF LeaveStop, CleanupHws, Goto
<1>24. ASSUME NEW c \in Process, LeaveIrq(c) PROVE Good
  BY <1>24 DEF LeaveIrq, SetIrq, Idle
<1>25. ASSUME NEW c \in Process, EnterLock(c) PROVE Good
  BY <1>25 DEF EnterLock, InitHws, Goto
<1>26. ASSUME NEW c \in Process, EnterIrq(c) PROVE Good
  BY <1>26 DEF EnterIrq, SetIrq, Idle
<1>27. ASSUME RetireWork PROVE Good
  BY <1>27 DEF RetireWork
<1>28. ASSUME HungStart PROVE Good
  BY <1>28 DEF HungStart, Idle
<1>29. ASSUME HungReset PROVE Good
  BY <1>29 DEF HungReset, Goto
<1>30. ASSUME HungIrqOff PROVE Good
  BY <1>30 DEF HungIrqOff, SetIrq, Goto
<1>31. ASSUME HungIrqOn PROVE Good
  BY <1>31 DEF HungIrqOn, SetIrq, Goto
<1>32. ASSUME HungRelock PROVE Good
  BY <1>32 DEF HungRelock, Goto
<1>33. ASSUME HungClear PROVE Good
  BY <1>33 DEF HungClear, Goto
<1>34. ASSUME HungEnd PROVE Good
  BY <1>34 DEF HungEnd, Idle
<1>35. ASSUME NEW t \in Thread, NEW o \in Obj, Evict(t, o) PROVE Good
  BY <1>35 DEF Evict, Evictable, On
<1>40. ASSUME NEW c \in Client, IrqEmit(c) PROVE Good
  BY <1>40 DEF IrqEmit
<1>41. ASSUME NEW c \in Process, WaitNoPage(c) PROVE Good
  BY <1>41 DEF WaitNoPage
<1>36. ASSUME Enters PROVE Good
  BY <1>8, <1>9, <1>10, <1>11, <1>36, <1>40 DEF Enters
<1>37. ASSUME NEW c \in Process, Step(c) PROVE Good
  BY <1>12, <1>13, <1>14, <1>15, <1>16, <1>17, <1>18, <1>20, <1>21, <1>22,
     <1>23, <1>24, <1>25, <1>26, <1>35, <1>37, <1>41 DEF Step
<1>38. ASSUME Reset PROVE Good
  BY <1>28, <1>29, <1>30, <1>31, <1>32, <1>33, <1>34, <1>35, <1>38 DEF Reset
<1> QED
  BY <1>1, <1>2, <1>3, <1>4, <1>5, <1>6, <1>7, <1>19, <1>27, <1>36, <1>37,
     <1>38 DEF Running, HangChecks

\* The lists, whatever the step.
LEMMA ListsStep == ASSUME Types, Shape, Lists, Running PROVE Lists'
<1>. USE Threads DEF gpuVars, irqVars, reqVars, hangVars, vtVars, objVars,
                     lockVars
<1>. DEFINE Good == Lists'
<1>1. ASSUME GpuStep PROVE Good
  BY <1>1 DEF GpuStep, Lists
<1>2. ASSUME GpuStops PROVE Good
  BY <1>2 DEF GpuStops, Lists
<1>3. ASSUME Interrupt PROVE Good
  BY <1>3 DEF Interrupt, Lists
<1>4. ASSUME HangCheckIdle PROVE Good
  BY <1>4 DEF HangCheckIdle, HangCheck, Lists
<1>5. ASSUME HangCheckAgain PROVE Good
  BY <1>5 DEF HangCheckAgain, HangCheck, Lists
<1>6. ASSUME HangCheckKick PROVE Good
  BY <1>6 DEF HangCheckKick, HangCheck, Lists
<1>7. ASSUME HangCheckDeclare PROVE Good
  BY <1>7 DEF HangCheckDeclare, HangCheck, Lists
<1>8. ASSUME NEW c \in Client, NEW o \in Obj,
            NEW op \in {"exec", "sync"}, Call(c, op, o) PROVE Good
  BY <1>8 DEF Call, Lists
<1>9. ASSUME NEW c \in Client, NEW r \in Numbers, IrqWait(c, r) PROVE Good
  BY <1>9, EmitLists DEF IrqWait, Lists
<1>10. ASSUME Call(Master, "leave", None) PROVE Good
  BY <1>10 DEF Call, Lists
<1>11. ASSUME Enter(Master) PROVE Good
  BY <1>11 DEF Enter, Lists
<1>12. ASSUME NEW c \in Process, ExecLock(c) PROVE Good
  BY <1>12 DEF ExecLock, Lists
<1>13. ASSUME NEW c \in Process, NEW w \in BOOLEAN, ExecDispatch(c, w)
      PROVE Good
  <2>1. th[c].obj \in Obj
    BY <1>13 DEF ExecDispatch, Shape, ClientPc
  <2>2. CASE ringOn
    <3>1. /\ list' = [list EXCEPT ![th[c].obj] = "active"]
          /\ lrs' = [lrs EXCEPT ![th[c].obj] = nextSeq]
          /\ dirty' \subseteq dirty \cup {th[c].obj} /\ dirty \subseteq dirty'
          /\ AddRequest /\ bare' = bare
      BY <1>13, <2>2 DEF ExecDispatch
    <3> QED
      BY <2>1, <3>1 DEF AddRequest, Lists, Types
  <2>3. CASE ~ringOn
    BY <1>13, <2>3 DEF ExecDispatch, Lists
  <2> QED
    BY <2>2, <2>3
<1>14. ASSUME NEW c \in Process, SyncIdle(c) PROVE Good
  BY <1>14 DEF SyncIdle, Lists
<1>15. ASSUME NEW c \in Process, Sync(c) PROVE Good
  BY <1>15, FlushLists DEF Sync, Lists
<1>16. ASSUME NEW c \in Process, WaitSleep(c) PROVE Good
  BY <1>16 DEF WaitSleep, Lists
<1>17. ASSUME NEW c \in Process, WaitDone(c) PROVE Good
  BY <1>17, RetireLists DEF WaitDone
<1>18. ASSUME NEW c \in Process, WaitWedged(c) PROVE Good
  BY <1>18 DEF WaitWedged, WaitReturns, Lists
<1>19. ASSUME NEW c \in Process, Signal(c) PROVE Good
  BY <1>19 DEF Signal, Lists
<1>20. ASSUME NEW c \in Process, LeaveAgain(c) PROVE Good
  BY <1>20 DEF LeaveAgain, Lists
<1>21. ASSUME NEW c \in Process, Leave(c) PROVE Good
  BY <1>21, FlushLists DEF Leave, Lists
<1>22. ASSUME NEW c \in Process, LeaveEvicted(c) PROVE Good
  BY <1>22 DEF LeaveEvicted, Lists
<1>23. ASSUME NEW c \in Process, LeaveStop(c) PROVE Good
  BY <1>23 DEF LeaveStop, CleanupHws, Lists
<1>24. ASSUME NEW c \in Process, LeaveIrq(c) PROVE Good
  BY <1>24 DEF LeaveIrq, SetIrq, Lists
<1>25. ASSUME NEW c \in Process, EnterLock(c) PROVE Good
  BY <1>25 DEF EnterLock, InitHws, Lists
<1>26. ASSUME NEW c \in Process, EnterIrq(c) PROVE Good
  BY <1>26 DEF EnterIrq, SetIrq, Lists
<1>27. ASSUME RetireWork PROVE Good
  BY <1>27, RetireLists DEF RetireWork
<1>28. ASSUME HungStart PROVE Good
  BY <1>28 DEF HungStart, Lists
<1>29. ASSUME HungReset PROVE Good
  BY <1>29 DEF HungReset, Lists
<1>30. ASSUME HungIrqOff PROVE Good
  BY <1>30 DEF HungIrqOff, SetIrq, Lists
<1>31. ASSUME HungIrqOn PROVE Good
  BY <1>31 DEF HungIrqOn, SetIrq, Lists
<1>32. ASSUME HungRelock PROVE Good
  BY <1>32 DEF HungRelock, Lists
<1>33. ASSUME HungClear PROVE Good
  BY <1>33, ClearLists
<1>34. ASSUME HungEnd PROVE Good
  BY <1>34 DEF HungEnd, Lists
<1>35. ASSUME NEW t \in Thread, NEW o \in Obj, Evict(t, o) PROVE Good
  BY <1>35 DEF Evict, Evictable, On, Lists, Types
<1>40. ASSUME NEW c \in Client, IrqEmit(c) PROVE Good
  BY <1>40, EmitLists DEF IrqEmit
<1>41. ASSUME NEW c \in Process, WaitNoPage(c) PROVE Good
  BY <1>41 DEF WaitNoPage, Lists
<1>36. ASSUME Enters PROVE Good
  BY <1>8, <1>9, <1>10, <1>11, <1>36, <1>40 DEF Enters
<1>37. ASSUME NEW c \in Process, Step(c) PROVE Good
  BY <1>12, <1>13, <1>14, <1>15, <1>16, <1>17, <1>18, <1>20, <1>21, <1>22,
     <1>23, <1>24, <1>25, <1>26, <1>35, <1>37, <1>41 DEF Step
<1>38. ASSUME Reset PROVE Good
  BY <1>28, <1>29, <1>30, <1>31, <1>32, <1>33, <1>34, <1>35, <1>38 DEF Reset
<1> QED
  BY <1>1, <1>2, <1>3, <1>4, <1>5, <1>6, <1>7, <1>19, <1>27, <1>36, <1>37,
     <1>38 DEF Running, HangChecks

-----------------------------------------------------------------------------
(* The invariant.                                                          *)

\* What a step has to show.
Fine == PanicsNot /\ (panic = "requests" => ~suspended)
Kept == ~Failed' => Core'

\* The invariant holds at the start.
LEMMA InitCore == Init => Core /\ Fine
  <1>. SUFFICES ASSUME Init PROVE Core /\ Fine
    OBVIOUS
  <1>1. Locks /\ Leaving /\ Fine
    BY Threads DEF Init, Locks, Leaving, Idle, PanicsNot, Fine
  <1>2. Lists /\ AllUsed /\ Empty /\ Quiet
    BY DEF Init, Lists, AllUsed, Empty, Quiet
  <1>3. page <=> ~GfxHws
    BY DEF Init, GfxHws
  <1>4. Power /\ Covered
    BY <1>2, <1>3 DEF Init, Power, Covered
  <1> QED
    BY <1>1, <1>2, <1>4 DEF Core

\* Most steps leave the lists, the requests and the power as they are.
LEMMA MovesKeep ==
  ASSUME Core, Types,
         UNCHANGED <<reqVars, objVars, suspended, ringOn, unreset, page, chip>>,
         queue' \subseteq queue,
         Locks', Leaving', Covered'
  PROVE  Core'
  <1>1. Lists' /\ Power'
    BY DEF Core, Lists, Power, Quiet, Empty, GfxHws, reqVars, objVars
  <1> QED
    BY <1>1 DEF Core

(* The steps that move threads only.                                       *)
Moves ==
    \/ GpuStep \/ GpuStops \/ Interrupt \/ HangChecks
    \/ \E c \in Client, o \in Obj, op \in {"exec", "sync"} : Call(c, op, o)
    \/ Call(Master, "leave", None) \/ Enter(Master)
    \/ \E c \in Process :
           \/ ExecLock(c) \/ SyncIdle(c) \/ WaitNoPage(c) \/ WaitSleep(c)
           \/ WaitWedged(c) \/ Signal(c) \/ LeaveIrq(c) \/ EnterIrq(c)
    \/ HungStart \/ HungReset \/ HungIrqOff \/ HungIrqOn \/ HungRelock
    \/ HungEnd

\* They may change the locks and wedge the GPU, and no more.
LEMMA CoreMoves ==
  ASSUME NoLeave, Types, Shape, Core, panic = "no", Types', Shape',
         Locks', Moves
  PROVE  Kept /\ Fine'
<1>. USE Threads DEF gpuVars, irqVars, reqVars, hangVars, vtVars, objVars,
   lockVars
<1>. DEFINE Good == Kept /\ Fine'
            Same == /\ UNCHANGED <<reqVars, objVars, suspended, ringOn, unreset,
                              page, chip>>
                    /\ queue' \subseteq queue
<1>1. ASSUME GpuStep PROVE Good
  <2>. USE <1>1 DEF GpuStep
  <2>1. Same /\ panic' = panic
    BY DEF Types
  <2>3. Leaving'
    BY <2>1 DEF Core, Leaving, Locks, Shape, Quiet, Empty, Types
  <2>4. Covered'
    BY <2>1 DEF Core, Covered, AllUsed, Locks, Shape
  <2> QED
    BY <2>1, <2>3, <2>4, MovesKeep DEF Kept, Fine, PanicsNot
<1>2. ASSUME GpuStops PROVE Good
  <2>. USE <1>2 DEF GpuStops
  <2>1. Same /\ panic' = panic
    BY DEF Types
  <2>3. Leaving'
    BY <2>1 DEF Core, Leaving, Locks, Shape, Quiet, Empty, Types
  <2>4. Covered'
    BY <2>1 DEF Core, Covered, AllUsed, Locks, Shape
  <2> QED
    BY <2>1, <2>3, <2>4, MovesKeep DEF Kept, Fine, PanicsNot
<1>3. ASSUME Interrupt PROVE Good
  <2>. USE <1>3 DEF Interrupt, Woken
  <2>1. Same /\ panic' = panic
    BY DEF Types
  <2>5. \A t \in Thread :
            /\ th'[t].op = th[t].op /\ th'[t].seq = th[t].seq
            /\ th'[t].pc # th[t].pc => th[t].pc = "sleep" /\ th'[t].pc = "woken"
    BY DEF Types
  <2>6. wedged => wedged'
    OBVIOUS
  <2>3. Leaving'
    BY <2>1, <2>5, <2>6 DEF Core, Leaving, Locks, Shape, Quiet, Empty, Types
  <2>4. Covered'
    BY <2>1, <2>5, <2>6 DEF Core, Covered, AllUsed, Locks, Shape
  <2> QED
    BY <2>1, <2>3, <2>4, MovesKeep DEF Kept, Fine, PanicsNot
<1>4. ASSUME HangCheckIdle PROVE Good
  <2>. USE <1>4 DEF HangCheckIdle, HangCheck
  <2>1. Same /\ panic' = panic
    BY DEF Types
  <2>3. Leaving'
    BY <2>1 DEF Core, Leaving, Locks, Shape, Quiet, Empty, Types
  <2>4. Covered'
    BY <2>1 DEF Core, Covered, AllUsed, Locks, Shape
  <2> QED
    BY <2>1, <2>3, <2>4, MovesKeep DEF Kept, Fine, PanicsNot
<1>5. ASSUME HangCheckAgain PROVE Good
  <2>. USE <1>5 DEF HangCheckAgain, HangCheck
  <2>1. Same /\ panic' = panic
    BY DEF Types
  <2>3. Leaving'
    BY <2>1 DEF Core, Leaving, Locks, Shape, Quiet, Empty, Types
  <2>4. Covered'
    BY <2>1 DEF Core, Covered, AllUsed, Locks, Shape
  <2> QED
    BY <2>1, <2>3, <2>4, MovesKeep DEF Kept, Fine, PanicsNot
<1>6. ASSUME HangCheckKick PROVE Good
  <2>. USE <1>6 DEF HangCheckKick, HangCheck
  <2>1. Same /\ panic' = panic
    BY DEF Types
  <2>3. Leaving'
    BY <2>1 DEF Core, Leaving, Locks, Shape, Quiet, Empty, Types
  <2>4. Covered'
    BY <2>1 DEF Core, Covered, AllUsed, Locks, Shape
  <2> QED
    BY <2>1, <2>3, <2>4, MovesKeep DEF Kept, Fine, PanicsNot
<1>7. ASSUME HangCheckDeclare PROVE Good
  <2>. USE <1>7 DEF HangCheckDeclare, HangCheck, Declared, Woken
  <2>1. Same /\ panic' = panic
    BY DEF Types
  <2>3. Leaving'
    BY <2>1 DEF Core, Leaving, Locks, Shape, Quiet, Empty, Types
  <2>4. Covered'
    BY <2>1 DEF Core, Covered, AllUsed, Locks, Shape
  <2> QED
    BY <2>1, <2>3, <2>4, MovesKeep DEF Kept, Fine, PanicsNot
<1>8. ASSUME NEW c \in Client, NEW o \in Obj, NEW op \in {"exec", "sync"}, Call(c, op, o)
     PROVE Good
  <2>. USE <1>8 DEF Call
  <2>1. Same /\ panic' = panic
    BY DEF Types
  <2>3. Leaving'
    BY <2>1 DEF Core, Leaving, Locks, Shape, Quiet, Empty, Types
  <2>4. Covered'
    BY <2>1 DEF Core, Covered, AllUsed, Locks, Shape
  <2> QED
    BY <2>1, <2>3, <2>4, MovesKeep DEF Kept, Fine, PanicsNot
<1>9. ASSUME NEW c \in Process, WaitNoPage(c) PROVE Good
  <2>. USE <1>9 DEF WaitNoPage
  <2>1. Same /\ panic' = "page"
    BY DEF Types
  <2>3. Leaving'
    BY <2>1 DEF Core, Leaving, Locks, Shape, Quiet, Empty, Types
  <2>4. Covered'
    BY <2>1 DEF Core, Covered, AllUsed, Locks, Shape
  <2> QED
    BY <2>1, <2>3, <2>4, MovesKeep DEF Kept, Fine, PanicsNot
<1>10. ASSUME Call(Master, "leave", None) PROVE Good
  <2>. USE <1>10 DEF Call
  <2>1. Same /\ panic' = panic
    BY DEF Types
  <2>3. Leaving'
    BY <2>1 DEF Core, Leaving, Locks, Shape, Quiet, Empty, Types
  <2>4. Covered'
    BY <2>1 DEF Core, Covered, AllUsed, Locks, Shape
  <2> QED
    BY <2>1, <2>3, <2>4, MovesKeep DEF Kept, Fine, PanicsNot
<1>11. ASSUME Enter(Master) PROVE Good
  <2>. USE <1>11 DEF Enter
  <2>1. Same /\ panic' = panic
    BY DEF Types
  <2>3. Leaving'
    BY <2>1 DEF Core, Leaving, Locks, Shape, Quiet, Empty, Types
  <2>4. Covered'
    BY <2>1 DEF Core, Covered, AllUsed, Locks, Shape
  <2> QED
    BY <2>1, <2>3, <2>4, MovesKeep DEF Kept, Fine, PanicsNot
<1>12. ASSUME NEW c \in Process, ExecLock(c) PROVE Good
  <2>. USE <1>12 DEF ExecLock, Idle, Goto, Refused
  <2>1. Same /\ panic' = panic
    BY DEF Types
  <2>3. Leaving'
    BY <2>1 DEF Core, Leaving, Locks, Shape, Quiet, Empty, Types
  <2>4. Covered'
    BY <2>1 DEF Core, Covered, AllUsed, Locks, Shape
  <2> QED
    BY <2>1, <2>3, <2>4, MovesKeep DEF Kept, Fine, PanicsNot
<1>13. ASSUME NEW c \in Process, SyncIdle(c) PROVE Good
  <2>. USE <1>13 DEF SyncIdle, Idle
  <2>1. Same /\ panic' = panic
    BY DEF Types
  <2>3. Leaving'
    BY <2>1 DEF Core, Leaving, Locks, Shape, Quiet, Empty, Types
  <2>4. Covered'
    BY <2>1 DEF Core, Covered, AllUsed, Locks, Shape
  <2> QED
    BY <2>1, <2>3, <2>4, MovesKeep DEF Kept, Fine, PanicsNot
<1>14. ASSUME NEW c \in Process, WaitSleep(c) PROVE Good
  <2>. USE <1>14 DEF WaitSleep, Goto
  <2>1. Same /\ panic' = panic
    BY DEF Types
  <2>3. Leaving'
    BY <2>1 DEF Core, Leaving, Locks, Shape, Quiet, Empty, Types
  <2>4. Covered'
    BY <2>1 DEF Core, Covered, AllUsed, Locks, Shape
  <2> QED
    BY <2>1, <2>3, <2>4, MovesKeep DEF Kept, Fine, PanicsNot
<1>15. ASSUME NEW c \in Process, WaitWedged(c) PROVE Good
  <2>. USE <1>15 DEF WaitWedged, WaitReturns, Goto, Idle
  <2>1. Same /\ panic' = panic
    BY DEF Types
  <2>3. Leaving'
    BY <2>1 DEF Core, Leaving, Locks, Shape, Quiet, Empty, Types
  <2>4. Covered'
    <3>1. CASE c \in Client
      <4>1. th' = [th EXCEPT ![c] = Idle]
        BY <3>1 DEF Shape, ClientPc
      <4> QED
        BY <2>1, <3>1, <4>1 DEF Core, Covered, AllUsed, Types
    <3>2. CASE c = Master
      BY <2>1, <3>2 DEF Core, Covered, AllUsed, Shape, Types
    <3> QED
      BY <3>1, <3>2
  <2> QED
    BY <2>1, <2>3, <2>4, MovesKeep DEF Kept, Fine, PanicsNot
<1>16. ASSUME NEW c \in Process, Signal(c) PROVE Good
  <2>. USE <1>16 DEF Signal, Idle
  <2>0. c \in Client
    BY DEF Shape, NoLeave
  <2>1. Same /\ panic' = panic
    BY DEF Types
  <2>3. Leaving'
    BY <2>0, <2>1 DEF Core, Leaving, Locks, Shape, Quiet, Empty, Types
  <2>4. Covered'
    BY <2>0, <2>1 DEF Core, Covered, AllUsed, Locks, Shape
  <2> QED
    BY <2>1, <2>3, <2>4, MovesKeep DEF Kept, Fine, PanicsNot
<1>17. ASSUME NEW c \in Process, LeaveIrq(c) PROVE Good
  <2>. USE <1>17 DEF LeaveIrq, SetIrq, Idle
  <2>1. Same /\ panic' = panic
    BY DEF Types
  <2>3. Leaving'
    BY <2>1 DEF Core, Leaving, Locks, Shape, Quiet, Empty, Types
  <2>4. Covered'
    BY <2>1 DEF Core, Covered, AllUsed, Locks, Shape
  <2> QED
    BY <2>1, <2>3, <2>4, MovesKeep DEF Kept, Fine, PanicsNot
<1>18. ASSUME NEW c \in Process, EnterIrq(c) PROVE Good
  <2>. USE <1>18 DEF EnterIrq, SetIrq, Idle
  <2>1. Same /\ panic' = panic
    BY DEF Types
  <2>3. Leaving'
    BY <2>1 DEF Core, Leaving, Locks, Shape, Quiet, Empty, Types
  <2>4. Covered'
    BY <2>1 DEF Core, Covered, AllUsed, Locks, Shape
  <2> QED
    BY <2>1, <2>3, <2>4, MovesKeep DEF Kept, Fine, PanicsNot
<1>19. ASSUME HungStart PROVE Good
  <2>. USE <1>19 DEF HungStart, Idle
  <2>1. Same /\ panic' = panic
    BY DEF Types
  <2>3. Leaving'
    BY <2>1 DEF Core, Leaving, Locks, Shape, Quiet, Empty, Types
  <2>4. Covered'
    BY <2>1 DEF Core, Covered, AllUsed, Locks, Shape
  <2> QED
    BY <2>1, <2>3, <2>4, MovesKeep DEF Kept, Fine, PanicsNot
<1>20. ASSUME HungReset PROVE Good
  <2>. USE <1>20 DEF HungReset, Goto
  <2>1. Same /\ panic' = panic
    BY DEF Types
  <2>5. drmW = None /\ drmW' \in {None, Worker}
    OBVIOUS
  <2>6. th'[Worker].pc = "clear" => drmW' = Worker
    BY DEF Types
  <2>7. /\ th'[Worker].pc \in {"clear", "reoff"}
        /\ \A t \in Process : th'[t] = th[t]
    BY DEF Types
  <2>3. Leaving'
    BY <2>1 DEF Core, Leaving, Locks, Shape, Quiet, Empty, Types
  <2>4. Covered'
    BY <2>1 DEF Core, Covered, AllUsed, Locks, Shape
  <2> QED
    BY <2>1, <2>3, <2>4, MovesKeep DEF Kept, Fine, PanicsNot
<1>21. ASSUME HungIrqOff PROVE Good
  <2>. USE <1>21 DEF HungIrqOff, SetIrq, Goto
  <2>1. Same /\ panic' = panic
    BY DEF Types
  <2>3. Leaving'
    BY <2>1 DEF Core, Leaving, Locks, Shape, Quiet, Empty, Types
  <2>4. Covered'
    BY <2>1 DEF Core, Covered, AllUsed, Locks, Shape
  <2> QED
    BY <2>1, <2>3, <2>4, MovesKeep DEF Kept, Fine, PanicsNot
<1>22. ASSUME HungIrqOn PROVE Good
  <2>. USE <1>22 DEF HungIrqOn, SetIrq, Goto
  <2>1. Same /\ panic' = panic
    BY DEF Types
  <2>3. Leaving'
    BY <2>1 DEF Core, Leaving, Locks, Shape, Quiet, Empty, Types
  <2>4. Covered'
    BY <2>1 DEF Core, Covered, AllUsed, Locks, Shape
  <2> QED
    BY <2>1, <2>3, <2>4, MovesKeep DEF Kept, Fine, PanicsNot
<1>23. ASSUME HungRelock PROVE Good
  <2>. USE <1>23 DEF HungRelock, Goto
  <2>1. Same /\ panic' = panic
    BY DEF Types
  <2>3. Leaving'
    BY <2>1 DEF Core, Leaving, Locks, Shape, Quiet, Empty, Types
  <2>4. Covered'
    BY <2>1 DEF Core, Covered, AllUsed, Locks, Shape
  <2> QED
    BY <2>1, <2>3, <2>4, MovesKeep DEF Kept, Fine, PanicsNot
<1>24. ASSUME HungEnd PROVE Good
  <2>. USE <1>24 DEF HungEnd, Idle
  <2>1. Same /\ panic' = panic
    BY DEF Types
  <2>5. /\ drmW = Worker /\ th'[Worker].pc = "idle"
        /\ \A t \in Process : th'[t] = th[t]
    BY DEF Core, Locks, Types
  <2>3. Leaving'
    BY <2>1 DEF Core, Leaving, Locks, Shape, Quiet, Empty, Types
  <2>4. Covered'
    BY <2>1 DEF Core, Covered, AllUsed, Locks, Shape
  <2> QED
    BY <2>1, <2>3, <2>4, MovesKeep DEF Kept, Fine, PanicsNot
<1> QED
  BY <1>1, <1>2, <1>3, <1>4, <1>5, <1>6, <1>7, <1>8, <1>9, <1>10, <1>11,
     <1>12, <1>13, <1>14, <1>15, <1>16, <1>17, <1>18, <1>19, <1>20, <1>21,
     <1>22, <1>23, <1>24 DEF Moves, HangChecks

\* The steps that queue, retire and evict, and those that stop and start the
\* ring.
LEMMA CoreSteps ==
  ASSUME Types, Shape, Core, panic = "no", Types', Shape', Locks', Lists'
  PROVE  /\ \A c \in Process :
               /\ (\E w \in BOOLEAN : ExecDispatch(c, w)) => Kept /\ Fine'
               /\ Sync(c) \/ WaitDone(c) => Kept /\ Fine'
               /\ LeaveAgain(c) \/ Leave(c) \/ LeaveEvicted(c) \/ LeaveStop(c) =>
                      Kept /\ Fine'
               /\ EnterLock(c) => Kept /\ Fine'
         /\ \A c \in Client : IrqEmit(c) \/ (\E r \in Numbers : IrqWait(c, r)) =>
                Kept /\ Fine'
         /\ RetireWork \/ HungClear => Kept /\ Fine'
         /\ \A t \in Thread, o \in Obj : Evict(t, o) => Kept /\ Fine'
<1>. USE Threads DEF gpuVars, irqVars, reqVars, hangVars, vtVars, objVars,
   lockVars
<1>. DEFINE Good == Kept /\ Fine'
            Same == UNCHANGED <<suspended, ringOn, unreset, page, chip>>
<1>0. Locks /\ Lists /\ Power /\ Leaving /\ Covered
  BY DEF Core
<1>1. ASSUME NEW c \in Process, NEW w \in BOOLEAN, ExecDispatch(c, w) PROVE Good
  <2>1. c \in Client /\ th[c].obj \in Obj /\ drmW = c /\ ~suspended /\ ringOn
    BY <1>0, <1>1 DEF ExecDispatch, Shape, ClientPc, Locks, Power
  <2>2. /\ th' = [th EXCEPT ![c] = Idle]
        /\ Same /\ UNCHANGED <<panic, wedged>>
    BY <1>1, <2>1 DEF ExecDispatch
  <2>3. /\ list' = [list EXCEPT ![th[c].obj] = "active"]
        /\ lrs' = [lrs EXCEPT ![th[c].obj] = nextSeq]
        /\ requests' = requests \cup {nextSeq}
    BY <1>1, <2>1 DEF ExecDispatch, AddRequest
  <2>4. Power'
    BY <1>0, <2>1, <2>2 DEF Power, GfxHws
  <2>5. Leaving'
    BY <1>0, <2>1, <2>2 DEF Leaving, Locks, Types
  <2>6. Covered'
    <3>1. \A r \in requests' : r <= nextSeq
      BY <1>0, <2>3 DEF Lists, Types
    <3>2. list'[th[c].obj] = "active" /\ lrs'[th[c].obj] = nextSeq
      BY <2>1, <2>3 DEF Types
    <3> QED
      BY <2>1, <3>1, <3>2 DEF Covered, AllUsed
  <2> QED
    BY <2>2, <2>4, <2>5, <2>6 DEF Core, Kept, Fine, PanicsNot
<1>2. ASSUME NEW c \in Process, Sync(c) PROVE Good
  <2>1. /\ c \in Client /\ th[c].pc = "hold" /\ th[c].op = "sync"
        /\ th[c].obj \in Obj
    BY <1>2 DEF Sync, Shape, ClientPc
  <2>2. /\ \A t \in Thread : t # c => th'[t] = th[t]
        /\ Same /\ UNCHANGED wedged
    BY <1>2, <2>1 DEF Sync, Types, Idle
  <2>4. CASE th[c].obj \in dirty /\ ~ringOn
    <3>1. suspended /\ ~Quiet /\ panic' = "ring" /\ unreset' = unreset
      BY <1>0, <1>2, <2>2, <2>4 DEF Sync, Power, Quiet
    <3> QED
      BY <1>0, <3>1 DEF Power, Kept, Fine, PanicsNot, Failed
  <2>5. CASE th[c].obj \in dirty /\ ringOn
    <3>1. FlushDirty /\ panic' = panic /\ ~suspended
      BY <1>0, <1>2, <2>5 DEF Sync, Power
    <3>2. AllUsed'
      BY <1>0, <2>5, <3>1, FlushLists
    <3>3. Power' /\ Covered'
      BY <1>0, <2>2, <3>1, <3>2 DEF Power, Covered, GfxHws
    <3>4. Leaving'
      BY <1>0, <2>1, <2>2, <2>5, <3>1 DEF Leaving, Quiet, Empty
    <3> QED
      BY <3>1, <3>3, <3>4 DEF Core, Kept, Fine, PanicsNot
  <2>6. CASE th[c].obj \notin dirty
    <3>1. UNCHANGED <<list, lrs, dirty, reqVars, queue, panic>>
      BY <1>2, <2>6 DEF Sync
    <3>2. Leaving' /\ Covered'
      BY <1>0, <2>1, <2>2, <3>1 DEF Leaving, Covered, AllUsed, Quiet, Empty
    <3> QED
      BY <2>2, <3>1, <3>2, MovesKeep DEF Kept, Fine, PanicsNot
  <2> QED
    BY <2>4, <2>5, <2>6
<1>3. ASSUME NEW c \in Process, WaitDone(c) PROVE Good
  <2>1. /\ RetireRequests /\ page /\ th[c].seq <= hwSeq /\ th[c].pc = "woken"
        /\ Same /\ UNCHANGED <<queue, wedged, panic>>
    BY <1>3 DEF WaitDone, WaitReturns, Passed
  <2>2. /\ dirty' = dirty
        /\ requests' \ bare' \subseteq requests \ bare
        /\ AllUsed => AllUsed'
        /\ Quiet => Quiet'
        /\ Empty => Empty'
        /\ dirty = {} /\ (\A r \in requests \ bare : r <= hwSeq) => Quiet'
    BY <1>0, <2>1, RetireLists
  <2>3. Power'
    BY <1>0, <2>1, <2>2 DEF Power, GfxHws
  <2>4. CASE c \in Client
    <3>1. th' = [th EXCEPT ![c] = Idle]
      BY <1>3, <2>4 DEF WaitDone, WaitReturns, Shape, ClientPc
    <3>2. th'[Master] = th[Master]
      BY <2>4, <3>1 DEF Types
    <3>4. Leaving' /\ Covered'
      BY <1>0, <2>1, <2>2, <3>2 DEF Leaving, Covered
    <3> QED
      BY <2>1, <2>3, <3>4 DEF Core, Kept, Fine, PanicsNot
  <2>5. CASE c = Master
    <3>1. th'[Master].pc = "evict"
      BY <1>3, <2>1, <2>5 DEF WaitDone, WaitReturns, Shape, Types
    <3>2. Quiet'
      <4>1. \A r \in requests \ bare : r <= th[Master].seq
        BY <1>0, <2>1, <2>5 DEF Leaving
      <4>2. \A r \in requests \ bare : r <= hwSeq
        BY <2>1, <2>5, <4>1 DEF Types
      <4> QED
        BY <1>0, <2>1, <2>2, <2>5, <4>2 DEF Leaving
    <3>4. Leaving' /\ Covered'
      BY <3>1, <3>2 DEF Leaving, Covered, AllUsed, Quiet
    <3> QED
      BY <2>1, <2>3, <3>4 DEF Core, Kept, Fine, PanicsNot
  <2> QED
    BY <2>4, <2>5
<1>4. ASSUME NEW c \in Process, LeaveAgain(c) PROVE Good
  <2>1. c = Master /\ suspended
    BY <1>4 DEF LeaveAgain, Shape, ClientPc
  <2>2. Same /\ UNCHANGED <<reqVars, objVars, queue, wedged>>
    BY <1>4 DEF LeaveAgain
  <2>3. CASE Busy # {}
    <3>1. ~Quiet /\ panic' = "lists"
      BY <1>0, <1>4, <2>3, BusyIs DEF LeaveAgain
    <3> QED
      BY <1>0, <2>1, <2>2, <3>1 DEF Power, Kept, Fine, PanicsNot, Failed
  <2>4. CASE Busy = {}
    <3>1. th' = [th EXCEPT ![Master].pc = "evict"] /\ panic' = panic
      BY <1>4, <2>1, <2>4 DEF LeaveAgain, Goto
    <3>3. Leaving' /\ Covered'
      BY <1>0, <1>4, <2>1, <2>2, <3>1 DEF LeaveAgain, Leaving, Covered,
         AllUsed, Types
    <3> QED
      BY <2>2, <3>1, <3>3, MovesKeep DEF Kept, Fine, PanicsNot
  <2> QED
    BY <2>3, <2>4
<1>5. ASSUME NEW c \in Process, Leave(c) PROVE Good
  <2>1. /\ c = Master /\ ~suspended /\ th[Master].pc = "lock"
        /\ Same /\ UNCHANGED <<wedged, panic>>
    BY <1>5 DEF Leave, Shape, ClientPc
  <2>2. CASE Busy \cup On("inactive") = {}
    <3>1. /\ th' = [th EXCEPT ![Master].pc = "stop"]
          /\ UNCHANGED <<objVars, reqVars, queue>>
      BY <1>5, <2>1, <2>2 DEF Leave, Goto
    <3>2. AllUsed
      BY <1>0, <2>1 DEF Covered
    <3>3. Empty
      <4>1. dirty = {} /\ \A o \in Obj : list[o] = "none"
        BY <1>0, <2>2, BusyIs DEF On
      <4>2. requests \subseteq bare
        BY <3>2, <4>1 DEF AllUsed
      <4> QED
        BY <4>1, <4>2 DEF Empty, Quiet
    <3>5. Leaving' /\ Covered'
      BY <2>1, <3>1, <3>2, <3>3 DEF Leaving, Covered, AllUsed, Quiet, Empty,
         Types
    <3> QED
      BY <2>1, <3>1, <3>5, MovesKeep DEF Kept, Fine, PanicsNot
  <2>3. CASE Busy \cup On("inactive") # {}
    <3>1. /\ FlushDirty
          /\ th' = [th EXCEPT ![Master].pc = IF wedged THEN "stop" ELSE "woken",
                              ![Master].seq = nextSeq]
      BY <1>5, <2>1, <2>3 DEF Leave
    <3>2. dirty' = {}
      BY <1>0, <3>1, FlushLists
    <3>4. Power'
      BY <1>0, <2>1 DEF Power, GfxHws
    <3>5. /\ th'[Master].pc = IF wedged THEN "stop" ELSE "woken"
          /\ th'[Master].seq = nextSeq
      BY <3>1 DEF Types
    <3>6. \A r \in requests' : r <= nextSeq
      BY <1>0, <3>1 DEF FlushDirty, AddRequest, Lists, Types
    <3>7. Leaving' /\ Covered'
      BY <2>1, <3>2, <3>5, <3>6 DEF Leaving, Covered
    <3> QED
      BY <2>1, <3>4, <3>7 DEF Core, Kept, Fine, PanicsNot
  <2> QED
    BY <2>2, <2>3
<1>6. ASSUME NEW c \in Process, LeaveEvicted(c) PROVE Good
  <2>1. c = Master /\ th[Master].pc = "evict" /\ On("inactive") = {}
    BY <1>6 DEF LeaveEvicted, Shape, ClientPc
  <2>2. Same /\ UNCHANGED <<reqVars, objVars, queue, wedged>>
    BY <1>6 DEF LeaveEvicted
  <2>3. CASE suspended
    <3>1. th' = [th EXCEPT ![Master].pc = "irqoff"] /\ panic' = panic
      BY <1>6, <2>1, <2>3 DEF LeaveEvicted, Goto
    <3>3. Leaving' /\ Covered'
      BY <1>0, <2>1, <2>2, <3>1 DEF Leaving, Covered, AllUsed, Types
    <3> QED
      BY <2>2, <3>1, <3>3, MovesKeep DEF Kept, Fine, PanicsNot
  <2>4. CASE ~suspended
    <3>1. Quiet
      BY <1>0, <2>1, <2>4 DEF Leaving
    <3>2. Empty
      BY <2>1, <3>1 DEF Quiet, Empty, On
    <3>3. th' = [th EXCEPT ![Master].pc = "stop"] /\ panic' = panic
      BY <1>6, <2>1, <2>4, <3>1, <1>0, BusyIs DEF LeaveEvicted, Goto
    <3>4. Leaving' /\ Covered'
      BY <2>2, <3>2, <3>3 DEF Leaving, Covered, AllUsed, Quiet, Empty, Types
    <3> QED
      BY <2>2, <3>3, <3>4, MovesKeep DEF Kept, Fine, PanicsNot
  <2> QED
    BY <2>3, <2>4
<1>7. ASSUME NEW c \in Process, LeaveStop(c) PROVE Good
  <2>1. c = Master /\ th[Master].pc = "stop"
    BY <1>7 DEF LeaveStop, CleanupHws, Shape, ClientPc
  <2>2. /\ UNCHANGED <<reqVars, objVars, chip, wedged, panic>>
        /\ suspended' /\ ~ringOn' /\ queue' = {}
        /\ (page' <=> ~GfxHws) /\ (unreset' <=> wedged)
        /\ th' = [th EXCEPT ![Master].pc = "irqoff"]
    BY <1>7, <2>1 DEF LeaveStop, CleanupHws, Goto
  <2>3. wedged \/ Empty
    BY <1>0, <2>1 DEF Leaving
  <2>4. Empty => Empty' /\ Quiet'
    BY <2>2 DEF Empty, Quiet
  <2>5. Power'
    BY <2>2, <2>3, <2>4 DEF Power, GfxHws
  <2>6. Leaving' /\ Covered'
    BY <2>2, <2>3, <2>4 DEF Leaving, Covered, AllUsed, Quiet, Types
  <2> QED
    BY <2>2, <2>5, <2>6 DEF Core, Kept, Fine, PanicsNot
<1>8. ASSUME NEW c \in Process, EnterLock(c) PROVE Good
  <2>1. c = Master /\ suspended /\ th[Master].pc = "lock"
    BY <1>0, <1>8 DEF EnterLock, InitHws, Shape, ClientPc, Locks
  <2>2. /\ UNCHANGED <<reqVars, objVars, chip, unreset, queue, wedged>>
        /\ ~suspended' /\ ringOn' /\ page'
        /\ th' = [th EXCEPT ![Master].pc = "irqon"]
        /\ panic' = IF Busy # {} THEN "lists"
                    ELSE IF requests # {} THEN "requests" ELSE panic
    BY <1>8, <2>1 DEF EnterLock, InitHws, Goto
  <2>3. CASE Busy # {}
    <3>1. ~Quiet /\ panic' = "lists"
      BY <1>0, <2>2, <2>3, BusyIs
    <3> QED
      BY <1>0, <2>1, <2>2, <3>1 DEF Power, Kept, Fine, PanicsNot, Failed
  <2>4. CASE Busy = {} /\ requests # {}
    <3>1. panic' = "requests" /\ (Quiet => requests' \subseteq bare')
      BY <2>2, <2>4 DEF Quiet
    <3> QED
      BY <1>0, <2>1, <2>2, <3>1 DEF Power, Kept, Fine, PanicsNot, Failed
  <2>5. CASE Busy = {} /\ requests = {}
    <3>1. panic' = panic
      BY <2>2, <2>5
    <3>2. Power'
      BY <2>2 DEF Power
    <3>4. Leaving' /\ Covered'
      BY <2>2, <2>5 DEF Leaving, Covered, AllUsed, Types
    <3> QED
      BY <3>1, <3>2, <3>4 DEF Core, Kept, Fine, PanicsNot
  <2> QED
    BY <2>3, <2>4, <2>5
<1>9. ASSUME RetireWork PROVE Good
  <2>1. /\ RetireRequests
        /\ Same /\ UNCHANGED <<queue, wedged, panic, th>>
    BY <1>9 DEF RetireWork
  <2>2. /\ dirty' = dirty
        /\ requests' \ bare' \subseteq requests \ bare
        /\ AllUsed => AllUsed'
        /\ Quiet => Quiet'
        /\ Empty => Empty'
    BY <1>0, <2>1, RetireLists
  <2>3. Power' /\ Leaving' /\ Covered'
    BY <1>0, <2>1, <2>2 DEF Power, Leaving, Covered, GfxHws
  <2> QED
    BY <2>1, <2>3 DEF Core, Kept, Fine, PanicsNot
<1>10. ASSUME HungClear PROVE Good
  <2>1. th[Worker].pc = "clear" /\ drmW = Worker
    BY <1>0, <1>10 DEF HungClear, Locks
  <2>2. /\ th' = [th EXCEPT ![Worker].pc = "evict"]
        /\ (unreset' <=> unreset /\ ~(wedged /\ page))
        /\ UNCHANGED <<suspended, ringOn, page, chip, queue, wedged, panic>>
    BY <1>10 DEF HungClear, Goto
  <2>3. /\ AllUsed => AllUsed'
        /\ Quiet \/ (page /\ wedged) => Quiet'
        /\ Empty => Empty'
    BY <1>0, <1>10, ClearLists
  <2>5. Power'
    BY <1>0, <2>2, <2>3 DEF Power, GfxHws
  <2>6. /\ th[Master].pc \notin {"sleep", "woken", "evict", "stop"}
        /\ th'[Master] = th[Master]
    BY <1>0, <2>1, <2>2 DEF Locks
  <2>7. Leaving' /\ Covered'
    BY <1>0, <2>2, <2>3, <2>6 DEF Leaving, Covered, AllUsed, Quiet
  <2> QED
    BY <2>2, <2>5, <2>7 DEF Core, Kept, Fine, PanicsNot
<1>11. ASSUME NEW t \in Thread, NEW o \in Obj, Evict(t, o) PROVE Good
  <2>1. /\ list[o] = "inactive" /\ list' = [list EXCEPT ![o] = "none"]
        /\ Same /\ UNCHANGED <<gpuVars, reqVars, lrs, dirty, wedged, th, panic>>
    BY <1>11 DEF Evict, Evictable, On
  <2>2. (Quiet => Quiet') /\ (Empty => Empty')
    BY <2>1 DEF Quiet, Empty, Types, ListName
  <2>3. AllUsed => AllUsed'
    BY <2>1 DEF AllUsed, Types
  <2>4. Power' /\ Leaving' /\ Covered'
    BY <1>0, <2>1, <2>2, <2>3 DEF Power, Leaving, Covered, GfxHws
  <2> QED
    BY <2>1, <2>4 DEF Core, Kept, Fine, PanicsNot
<1>12. ASSUME NEW c \in Client, Emit, UNCHANGED objVars, Same, wedged' = wedged,
              th'[Master] = th[Master]
       PROVE  Good
  <2>1. /\ requests' \ bare' = requests \ bare
        /\ AllUsed => AllUsed'
        /\ Quiet => Quiet'
        /\ Empty => Empty'
        /\ ~ringOn => queue' = queue
        /\ panic' \in {panic, "emit"}
    BY <1>0, <1>12, EmitLists
  <2>2. Power' /\ Leaving' /\ Covered'
    BY <1>0, <1>12, <2>1 DEF Power, Leaving, Covered, GfxHws
  <2> QED
    BY <2>1, <2>2 DEF Core, Kept, Fine, PanicsNot
<1>13. ASSUME NEW c \in Client, IrqEmit(c) PROVE Good
  BY <1>12, <1>13 DEF IrqEmit
<1>14. ASSUME NEW c \in Client, NEW r \in Numbers, IrqWait(c, r) PROVE Good
  <2>1. /\ th'[Master] = th[Master] /\ UNCHANGED objVars /\ Same /\ wedged' = wedged
        /\ Emit \/ UNCHANGED <<reqVars, queue, panic>>
    BY <1>14 DEF IrqWait
  <2>2. CASE Emit
    BY <1>12, <2>1, <2>2
  <2>3. CASE UNCHANGED <<reqVars, queue, panic>>
    <3>1. Leaving' /\ Covered'
      BY <1>0, <2>1, <2>3 DEF Leaving, Covered, AllUsed, Quiet, Empty
    <3> QED
      BY <2>1, <2>3, <3>1, MovesKeep DEF Kept, Fine, PanicsNot
  <2> QED
    BY <2>1, <2>2, <2>3
<1> QED
  BY <1>1, <1>2, <1>3, <1>4, <1>5, <1>6, <1>7, <1>8, <1>9, <1>10, <1>11, <1>13,
     <1>14

\* The invariant is inductive.
LEMMA NextInv == ASSUME NoLeave, RecInv, [Next]_vars PROVE RecInv'
  <1>1. CASE UNCHANGED vars
    BY <1>1 DEF vars, gpuVars, irqVars, reqVars, hangVars, vtVars, objVars,
       lockVars,
       RecInv, Types, Shape, ClientPc, Core, Locks, Lists, Power, Leaving, Covered,
       AllUsed, Quiet, Empty, PanicsNot, Failed, GfxHws
  <1>2. CASE panic = "no" /\ Running
    <2>1. Next
      BY <1>2 DEF Next
    <2>2. Core
      BY <1>2 DEF RecInv, Failed
    <2>3. Types' /\ Shape'
      BY <2>1, TypesStep DEF RecInv
    <2>4. Locks' /\ Lists'
      BY <1>2, <2>2, LocksStep, ListsStep DEF RecInv, Core
    <2>5. Kept /\ Fine'
      <3>1. CASE Moves
        BY <1>2, <2>2, <2>3, <2>4, <3>1, CoreMoves DEF RecInv
      <3>2. CASE ~Moves
        BY <1>2, <2>2, <2>3, <2>4, <3>2, CoreSteps, Threads
           DEF RecInv, Running, Enters, Step, Reset, Moves
      <3> QED
        BY <3>1, <3>2
    <2> QED
      BY <2>3, <2>5 DEF RecInv, Kept, Fine
  <1> QED
    BY <1>1, <1>2 DEF Next, Panicked

\* The inductive invariant of leaving, entering and resetting: who has dev_lock
\* where, what the lists are, and that every request is bare, the last of an
\* object, waited for by leavevt, or given up with the GPU.
THEOREM Invariant == ASSUME NoLeave PROVE Spec => []RecInv
  <1>1. Init => RecInv
    BY InitTypes, InitCore DEF RecInv, Fine
  <1>2. RecInv /\ [Next]_vars => RecInv'
    BY NextInv
  <1> QED
    BY <1>1, <1>2, PTL DEF Spec

\* No assertion of i915_gem_idle, evict_everything or entervt fails, and no
\* command of execbuffer, set_domain or leavevt is written without a ring,
\* unless the terminal was left with the GPU wedged and no reset has retired its
\* requests since, or what entervt finds on the list are bare requests.
THEOREM AssertionsHold == ASSUME NoLeave PROVE Spec => []PanicsNot
  <1>1. RecInv => PanicsNot
    BY DEF RecInv
  <1> QED
    BY <1>1, Invariant, PTL

-----------------------------------------------------------------------------
(* Who waits under a shield is told, and has a status page to read.        *)

\* Who holds an object that a reset would unbind is in the wait for it, and
\* the object stays active for the request waited for until that is retired:
\* nobody else can write it, so nothing flushes or moves it.
Waiting(t) == th[t].pc \in {"sleep", "woken"}
Waits ==
    \A o \in Obj \ Pinned : held[o] # None =>
        /\ Waiting(held[o]) /\ o \notin dirty
        /\ \/ list[o] = "inactive"
           \/ list[o] = "active" /\ lrs[o] = th[held[o]].seq

Holders == held \in [Obj -> Process \cup {None}]

Told ==
    /\ Types /\ Shape /\ Locks /\ Lists /\ Holders
    /\ ~Failed => Waits

\* What a step does to who waits already: it goes on, or lets its object go.
GoesOn(t) ==
    \/ Waiting(t)' /\ th'[t].seq = th[t].seq
    \/ \A o \in Obj : held'[o] # t

\* And what it does to the object: it is not written, and is on the list it
\* was on or idle.
StaysPut(o) ==
    /\ o \in dirty' => o \in dirty
    /\ (list'[o] = "inactive" \/ (list'[o] = list[o] /\ lrs'[o] = lrs[o]))

\* A step in which no object is held that was not.
LEMMA StillWaits ==
  ASSUME Holders, Waits,
         \A t \in Process : Waiting(t) => GoesOn(t),
         \A o \in Obj \ Pinned : held'[o] # None =>
             held'[o] = held[o] /\ StaysPut(o)
  PROVE  Waits'
  <1>1. ASSUME NEW o \in Obj \ Pinned, held'[o] # None
        PROVE  /\ th'[held'[o]].pc \in {"sleep", "woken"} /\ o \notin dirty'
               /\ \/ list'[o] = "inactive"
                  \/ list'[o] = "active" /\ lrs'[o] = th'[held'[o]].seq
    <2>1. StaysPut(o) /\ held'[o] = held[o]
      BY <1>1
    <2>2. held[o] \in Process /\ Waiting(held[o])
      BY <1>1, <2>1 DEF Holders, Waits
    <2>3. Waiting(held[o])' /\ th'[held[o]].seq = th[held[o]].seq
      BY <1>1, <2>1, <2>2 DEF GoesOn, Waiting
    <2> QED
      BY <1>1, <2>1, <2>3 DEF Waits, StaysPut, Waiting
  <1> QED
    BY <1>1 DEF Waits, Waiting

\* A step that leaves the objects alone, and who has them.
LEMMA MovesOn ==
  ASSUME Holders, Waits, UNCHANGED <<objVars, held>>,
         \A t \in Process : Waiting(t) => GoesOn(t)
  PROVE  Holders' /\ Waits'
  <1>1. \A o \in Obj \ Pinned : held'[o] # None => StaysPut(o)
    BY DEF StaysPut, objVars
  <1> QED
    BY <1>1, StillWaits DEF Holders

\* A step that lets go of what c holds, and no more.
LEMMA LetsGo ==
  ASSUME Holders, Waits, NEW c \in Process,
         held' = [o \in Obj |-> IF held[o] = c THEN None ELSE held[o]],
         \A o \in Obj \ Pinned : held[o] # None => StaysPut(o),
         \A t \in Process \ {c} : th'[t] = th[t]
  PROVE  Holders' /\ Waits'
  <1>1. \A o \in Obj : held'[o] # None => held'[o] = held[o] /\ held[o] # None
    OBVIOUS
  <1>2. \A o \in Obj \ Pinned : held'[o] # None => StaysPut(o)
    BY <1>1
  <1>3. \A o \in Obj : held'[o] # c
    BY Threads
  <1>4. \A t \in Process : Waiting(t) => GoesOn(t)
    BY <1>3 DEF GoesOn, Waiting
  <1> QED
    BY <1>2, <1>4, StillWaits DEF Holders

\* What nobody has written stays where it is when requests are retired, or is
\* inactive then; and a flush does not touch it.
LEMMA CleanStays ==
  ASSUME Types, RetireRequests \/ FlushDirty \/ HungClear,
         NEW o \in Obj \ Pinned, o \notin dirty, list[o] # "flushing"
  PROVE  StaysPut(o)
  <1>1. CASE RetireRequests
    <2>1. o \in Obj /\ dirty' = dirty
      BY <1>1 DEF RetireRequests
    <2>2. CASE Retired(o)
      <3>1. list'[o] = InactiveList(o)
        BY <1>1, <2>1, <2>2 DEF RetireRequests
      <3> QED
        BY <2>1, <3>1 DEF InactiveList, StaysPut
    <2>3. CASE ~Retired(o)
      BY <1>1, <2>1, <2>3 DEF RetireRequests, StaysPut
    <2> QED
      BY <2>2, <2>3
  <1>2. CASE FlushDirty
    BY <1>2 DEF FlushDirty, Types, StaysPut
  <1>3. CASE HungClear
    <2>1. o \in Obj /\ o \notin dirty'
      BY <1>3 DEF HungClear
    <2>2. CASE Retired(o)
      <3>1. list'[o] = InactiveList(o)
        BY <1>3, <2>1, <2>2 DEF HungClear
      <3> QED
        BY <2>1, <3>1 DEF InactiveList, StaysPut
    <2>3. CASE ~Retired(o)
      BY <1>3, <2>1, <2>3 DEF HungClear, StaysPut
    <2> QED
      BY <2>2, <2>3
  <1> QED
    BY <1>1, <1>2, <1>3

\* The objects that are held, whatever the step.
LEMMA WaitsStep ==
  ASSUME Types, Shape, Holders, Waits, Running
  PROVE  Holders' /\ (~Failed' => Waits')
<1>. USE Threads DEF gpuVars, irqVars, reqVars, hangVars, vtVars, lockVars
<1>. DEFINE Good == Holders' /\ (~Failed' => Waits')
<1>1. ASSUME GpuStep PROVE Good
  BY <1>1, MovesOn DEF GpuStep, Waiting, GoesOn
<1>2. ASSUME GpuStops PROVE Good
  BY <1>2, MovesOn DEF GpuStops, Waiting, GoesOn
<1>3. ASSUME Interrupt PROVE Good
  <2>1. UNCHANGED <<objVars, held>>
    BY <1>3 DEF Interrupt, Woken
  <2>2. \A t \in Process : Waiting(t) => GoesOn(t)
    BY <1>3 DEF Interrupt, Woken, Waiting, GoesOn, Types, Shape, ClientPc
  <2> QED
    BY <2>1, <2>2, MovesOn
<1>4. ASSUME HangCheckIdle PROVE Good
  <2>1. UNCHANGED <<objVars, held>>
    BY <1>4 DEF HangCheckIdle, HangCheck
  <2>2. \A t \in Process : Waiting(t) => GoesOn(t)
    BY <1>4 DEF HangCheckIdle, HangCheck, Waiting, GoesOn, Types, Shape,
       ClientPc
  <2> QED
    BY <2>1, <2>2, MovesOn
<1>5. ASSUME HangCheckAgain PROVE Good
  <2>1. UNCHANGED <<objVars, held>>
    BY <1>5 DEF HangCheckAgain, HangCheck
  <2>2. \A t \in Process : Waiting(t) => GoesOn(t)
    BY <1>5 DEF HangCheckAgain, HangCheck, Waiting, GoesOn, Types, Shape,
       ClientPc
  <2> QED
    BY <2>1, <2>2, MovesOn
<1>6. ASSUME HangCheckKick PROVE Good
  <2>1. UNCHANGED <<objVars, held>>
    BY <1>6 DEF HangCheckKick, HangCheck
  <2>2. \A t \in Process : Waiting(t) => GoesOn(t)
    BY <1>6 DEF HangCheckKick, HangCheck, Waiting, GoesOn, Types, Shape,
       ClientPc
  <2> QED
    BY <2>1, <2>2, MovesOn
<1>7. ASSUME HangCheckDeclare PROVE Good
  <2>1. UNCHANGED <<objVars, held>>
    BY <1>7 DEF HangCheckDeclare, HangCheck, Declared, Woken
  <2>2. \A t \in Process : Waiting(t) => GoesOn(t)
    BY <1>7 DEF HangCheckDeclare, HangCheck, Declared, Woken, Waiting, GoesOn,
       Types, Shape, ClientPc
  <2> QED
    BY <2>1, <2>2, MovesOn
<1>8. ASSUME NEW c \in Client, NEW o \in Obj,
            NEW op \in {"exec", "sync"}, Call(c, op, o) PROVE Good
  <2>1. UNCHANGED <<objVars, held>>
    BY <1>8 DEF Call
  <2>2. \A t \in Process : Waiting(t) => GoesOn(t)
    BY <1>8 DEF Call, Waiting, GoesOn, Types, Shape, ClientPc
  <2> QED
    BY <2>1, <2>2, MovesOn
<1>9. ASSUME NEW c \in Client, NEW r \in Numbers, IrqWait(c, r) PROVE Good
  <2>1. UNCHANGED <<objVars, held>>
    BY <1>9 DEF IrqWait
  <2>2. \A t \in Process : Waiting(t) => GoesOn(t)
    BY <1>9 DEF IrqWait, Waiting, GoesOn, Types, Shape, ClientPc
  <2> QED
    BY <2>1, <2>2, MovesOn
<1>10. ASSUME Call(Master, "leave", None) PROVE Good
  <2>1. UNCHANGED <<objVars, held>>
    BY <1>10 DEF Call
  <2>2. \A t \in Process : Waiting(t) => GoesOn(t)
    BY <1>10 DEF Call, Waiting, GoesOn, Types, Shape, ClientPc
  <2> QED
    BY <2>1, <2>2, MovesOn
<1>11. ASSUME Enter(Master) PROVE Good
  <2>1. UNCHANGED <<objVars, held>>
    BY <1>11 DEF Enter
  <2>2. \A t \in Process : Waiting(t) => GoesOn(t)
    BY <1>11 DEF Enter, Waiting, GoesOn, Types, Shape, ClientPc
  <2> QED
    BY <2>1, <2>2, MovesOn
<1>12. ASSUME NEW c \in Process, ExecLock(c) PROVE Good
  <2>1. UNCHANGED <<objVars, held>>
    BY <1>12 DEF ExecLock, Idle, Goto
  <2>2. \A t \in Process : Waiting(t) => GoesOn(t)
    BY <1>12 DEF ExecLock, Idle, Goto, Waiting, GoesOn, Types, Shape, ClientPc
  <2> QED
    BY <2>1, <2>2, MovesOn
<1>13. ASSUME NEW c \in Process, NEW w \in BOOLEAN, ExecDispatch(c, w)
      PROVE Good
  <2>1. c \in Client /\ th[c].obj \in Obj /\ held[th[c].obj] = None
    BY <1>13 DEF ExecDispatch, Shape, ClientPc
  <2>2. held' = held /\ th' = [th EXCEPT ![c] = Idle] /\ ~Waiting(c)
    BY <1>13 DEF ExecDispatch, Waiting
  <2>3. \A t \in Process : Waiting(t) => GoesOn(t)
    BY <2>2 DEF GoesOn, Waiting, Types
  <2>4. \A o \in Obj \ {th[c].obj} : StaysPut(o)
    BY <1>13, <2>1 DEF ExecDispatch, StaysPut, objVars, Types
  <2>5. \A o \in Obj \ Pinned : held'[o] # None => StaysPut(o)
    BY <2>1, <2>2, <2>4
  <2> QED
    BY <2>2, <2>3, <2>5, StillWaits DEF Holders
<1>14. ASSUME NEW c \in Process, SyncIdle(c) PROVE Good
  <2>1. UNCHANGED <<objVars, held>>
    BY <1>14 DEF SyncIdle, Idle
  <2>2. \A t \in Process : Waiting(t) => GoesOn(t)
    BY <1>14 DEF SyncIdle, Idle, Waiting, GoesOn, Types, Shape, ClientPc
  <2> QED
    BY <2>1, <2>2, MovesOn
<1>15. ASSUME NEW c \in Process, Sync(c) PROVE Good
  <2>. DEFINE o == th[c].obj
  <2>1. c \in Client /\ o \in Obj /\ held[o] = None /\ ~Waiting(c)
    BY <1>15 DEF Sync, Shape, ClientPc, Waiting
  <2>2. SUFFICES ASSUME panic' # "ring" PROVE Holders' /\ Waits'
    BY <1>15, <2>1 DEF Sync, Holders, Failed
  <2>3. FlushDirty \/ UNCHANGED objVars
    BY <1>15, <2>2 DEF Sync
  <2>4. \A x \in Obj \ Pinned : held[x] # None =>
            x \notin dirty /\ StaysPut(x)
    BY <2>3, CleanStays DEF Waits, StaysPut, objVars
  <2>5. CASE wedged
    <3>1. th' = [th EXCEPT ![c] = Idle] /\ held' = held
      BY <1>15, <2>5 DEF Sync
    <3>2. \A t \in Process : Waiting(t) => GoesOn(t)
      BY <2>1, <3>1 DEF GoesOn, Waiting
    <3>3. \A x \in Obj \ Pinned : held'[x] # None => StaysPut(x)
      BY <2>4, <3>1
    <3> QED
      BY <3>1, <3>2, <3>3, StillWaits DEF Holders
  <2>6. CASE ~wedged
    <3>1. /\ th' = [th EXCEPT ![c].pc = "woken",
                             ![c].seq = IF o \in dirty THEN nextSeq
                                        ELSE lrs[o]]
          /\ held' = [held EXCEPT ![o] = c]
      BY <1>15, <2>6 DEF Sync
    <3>2. o \notin dirty' /\ list'[o] = "active" /\ lrs'[o] = th'[c].seq
      <4>1. CASE o \in dirty
        <5>1. FlushDirty
          BY <1>15, <2>2, <4>1 DEF Sync
        <5> QED
          BY <2>1, <3>1, <4>1, <5>1 DEF FlushDirty, Types
      <4>2. CASE o \notin dirty
        <5>1. list[o] = "active" /\ UNCHANGED objVars
          BY <1>15, <4>2 DEF Sync
        <5> QED
          BY <2>1, <3>1, <4>2, <5>1 DEF objVars, Types
      <4> QED
        BY <4>1, <4>2
    <3>3. th'[c].pc = "woken" /\ \A t \in Thread \ {c} : th'[t] = th[t]
      BY <2>1, <3>1 DEF Types
    <3>4. ASSUME NEW x \in Obj \ Pinned, held'[x] # None
          PROVE  /\ th'[held'[x]].pc \in {"sleep", "woken"} /\ x \notin dirty'
                 /\ \/ list'[x] = "inactive"
                    \/ list'[x] = "active" /\ lrs'[x] = th'[held'[x]].seq
      <4>1. CASE x = o
        BY <2>1, <3>1, <3>2, <3>3, <4>1 DEF Holders
      <4>2. CASE x # o
        <5>1. held'[x] = held[x] /\ held[x] \in Process /\ Waiting(held[x])
          BY <2>1, <3>1, <3>4, <4>2 DEF Holders, Waits
        <5>2. th'[held[x]] = th[held[x]]
          BY <2>1, <3>3, <5>1
        <5> QED
          BY <2>4, <3>4, <5>1, <5>2 DEF StaysPut, Waits, Waiting
      <4> QED
        BY <4>1, <4>2
    <3> QED
      BY <2>1, <3>1, <3>4 DEF Holders, Waits, Waiting
  <2> QED
    BY <2>5, <2>6
<1>16. ASSUME NEW c \in Process, WaitSleep(c) PROVE Good
  <2>1. UNCHANGED <<objVars, held>>
    BY <1>16 DEF WaitSleep, Goto
  <2>2. \A t \in Process : Waiting(t) => GoesOn(t)
    BY <1>16 DEF WaitSleep, Goto, Waiting, GoesOn, Types, Shape, ClientPc
  <2> QED
    BY <2>1, <2>2, MovesOn
<1>17. ASSUME NEW c \in Process, WaitDone(c) PROVE Good
  <2>1. /\ held' = [o \in Obj |-> IF held[o] = c THEN None ELSE held[o]]
        /\ \A t \in Process \ {c} : th'[t] = th[t]
    BY <1>17 DEF WaitDone, WaitReturns, Goto, Idle, Types
  <2>2. \A o \in Obj \ Pinned : held[o] # None => StaysPut(o)
    BY <1>17, CleanStays DEF WaitDone, Waits
  <2> QED
    BY <2>1, <2>2, LetsGo
<1>18. ASSUME NEW c \in Process, WaitWedged(c) PROVE Good
  <2>1. /\ held' = [o \in Obj |-> IF held[o] = c THEN None ELSE held[o]]
        /\ \A t \in Process \ {c} : th'[t] = th[t]
    BY <1>18 DEF WaitWedged, WaitReturns, Goto, Idle, Types
  <2>2. \A o \in Obj \ Pinned : held[o] # None => StaysPut(o)
    BY <1>18 DEF WaitWedged, objVars, StaysPut
  <2> QED
    BY <2>1, <2>2, LetsGo
<1>19. ASSUME NEW c \in Process, Signal(c) PROVE Good
  <2>1. /\ held' = [o \in Obj |-> IF held[o] = c THEN None ELSE held[o]]
        /\ \A t \in Process \ {c} : th'[t] = th[t]
    BY <1>19 DEF Signal, Idle, Types
  <2>2. \A o \in Obj \ Pinned : held[o] # None => StaysPut(o)
    BY <1>19 DEF Signal, objVars, StaysPut
  <2> QED
    BY <2>1, <2>2, LetsGo
<1>20. ASSUME NEW c \in Process, LeaveAgain(c) PROVE Good
  <2>1. UNCHANGED <<objVars, held>>
    BY <1>20 DEF LeaveAgain, Goto
  <2>2. \A t \in Process : Waiting(t) => GoesOn(t)
    BY <1>20 DEF LeaveAgain, Goto, Waiting, GoesOn, Types, Shape, ClientPc
  <2> QED
    BY <2>1, <2>2, MovesOn
<1>21. ASSUME NEW c \in Process, Leave(c) PROVE Good
  <2>1. held' = held /\ \A t \in Process : Waiting(t) => GoesOn(t)
    BY <1>21 DEF Leave, Goto, Waiting, GoesOn, Types, Shape, ClientPc
  <2>2. FlushDirty \/ UNCHANGED objVars
    BY <1>21 DEF Leave
  <2>3. \A o \in Obj \ Pinned : held'[o] # None => StaysPut(o)
    BY <2>1, <2>2, CleanStays DEF objVars, StaysPut, Waits
  <2> QED
    BY <2>1, <2>3, StillWaits DEF Holders
<1>22. ASSUME NEW c \in Process, LeaveEvicted(c) PROVE Good
  <2>1. UNCHANGED <<objVars, held>>
    BY <1>22 DEF LeaveEvicted, Goto
  <2>2. \A t \in Process : Waiting(t) => GoesOn(t)
    BY <1>22 DEF LeaveEvicted, Goto, Waiting, GoesOn, Types, Shape, ClientPc
  <2> QED
    BY <2>1, <2>2, MovesOn
<1>23. ASSUME NEW c \in Process, LeaveStop(c) PROVE Good
  <2>1. UNCHANGED <<objVars, held>>
    BY <1>23 DEF LeaveStop, CleanupHws, Goto
  <2>2. \A t \in Process : Waiting(t) => GoesOn(t)
    BY <1>23 DEF LeaveStop, CleanupHws, Goto, Waiting, GoesOn, Types, Shape,
       ClientPc
  <2> QED
    BY <2>1, <2>2, MovesOn
<1>24. ASSUME NEW c \in Process, LeaveIrq(c) PROVE Good
  <2>1. UNCHANGED <<objVars, held>>
    BY <1>24 DEF LeaveIrq, SetIrq, Idle
  <2>2. \A t \in Process : Waiting(t) => GoesOn(t)
    BY <1>24 DEF LeaveIrq, SetIrq, Idle, Waiting, GoesOn, Types, Shape,
       ClientPc
  <2> QED
    BY <2>1, <2>2, MovesOn
<1>25. ASSUME NEW c \in Process, EnterLock(c) PROVE Good
  <2>1. UNCHANGED <<objVars, held>>
    BY <1>25 DEF EnterLock, InitHws, Goto
  <2>2. \A t \in Process : Waiting(t) => GoesOn(t)
    BY <1>25 DEF EnterLock, InitHws, Goto, Waiting, GoesOn, Types, Shape,
       ClientPc
  <2> QED
    BY <2>1, <2>2, MovesOn
<1>26. ASSUME NEW c \in Process, EnterIrq(c) PROVE Good
  <2>1. UNCHANGED <<objVars, held>>
    BY <1>26 DEF EnterIrq, SetIrq, Idle
  <2>2. \A t \in Process : Waiting(t) => GoesOn(t)
    BY <1>26 DEF EnterIrq, SetIrq, Idle, Waiting, GoesOn, Types, Shape,
       ClientPc
  <2> QED
    BY <2>1, <2>2, MovesOn
<1>27. ASSUME RetireWork PROVE Good
  <2>1. held' = held /\ \A t \in Process : Waiting(t) => GoesOn(t)
    BY <1>27 DEF RetireWork, Waiting, GoesOn, Types, Shape, ClientPc
  <2>2. \A o \in Obj \ Pinned : held'[o] # None => StaysPut(o)
    BY <1>27, <2>1, CleanStays DEF RetireWork, objVars, Waits
  <2> QED
    BY <2>1, <2>2, StillWaits DEF Holders
<1>28. ASSUME HungStart PROVE Good
  <2>1. UNCHANGED <<objVars, held>>
    BY <1>28 DEF HungStart, Idle
  <2>2. \A t \in Process : Waiting(t) => GoesOn(t)
    BY <1>28 DEF HungStart, Idle, Waiting, GoesOn, Types, Shape, ClientPc
  <2> QED
    BY <2>1, <2>2, MovesOn
<1>29. ASSUME HungReset PROVE Good
  <2>1. UNCHANGED <<objVars, held>>
    BY <1>29 DEF HungReset, Goto
  <2>2. \A t \in Process : Waiting(t) => GoesOn(t)
    BY <1>29 DEF HungReset, Goto, Waiting, GoesOn, Types, Shape, ClientPc
  <2> QED
    BY <2>1, <2>2, MovesOn
<1>30. ASSUME HungIrqOff PROVE Good
  <2>1. UNCHANGED <<objVars, held>>
    BY <1>30 DEF HungIrqOff, SetIrq, Goto
  <2>2. \A t \in Process : Waiting(t) => GoesOn(t)
    BY <1>30 DEF HungIrqOff, SetIrq, Goto, Waiting, GoesOn, Types, Shape,
       ClientPc
  <2> QED
    BY <2>1, <2>2, MovesOn
<1>31. ASSUME HungIrqOn PROVE Good
  <2>1. UNCHANGED <<objVars, held>>
    BY <1>31 DEF HungIrqOn, SetIrq, Goto
  <2>2. \A t \in Process : Waiting(t) => GoesOn(t)
    BY <1>31 DEF HungIrqOn, SetIrq, Goto, Waiting, GoesOn, Types, Shape,
       ClientPc
  <2> QED
    BY <2>1, <2>2, MovesOn
<1>32. ASSUME HungRelock PROVE Good
  <2>1. UNCHANGED <<objVars, held>>
    BY <1>32 DEF HungRelock, Goto
  <2>2. \A t \in Process : Waiting(t) => GoesOn(t)
    BY <1>32 DEF HungRelock, Goto, Waiting, GoesOn, Types, Shape, ClientPc
  <2> QED
    BY <2>1, <2>2, MovesOn
<1>33. ASSUME HungClear PROVE Good
  <2>1. held' = held /\ \A t \in Process : Waiting(t) => GoesOn(t)
    BY <1>33 DEF HungClear, Goto, Waiting, GoesOn, Types, Shape, ClientPc
  <2>2. \A o \in Obj \ Pinned : held'[o] # None => StaysPut(o)
    BY <1>33, <2>1, CleanStays DEF HungClear, objVars, Waits
  <2> QED
    BY <2>1, <2>2, StillWaits DEF Holders
<1>34. ASSUME HungEnd PROVE Good
  <2>1. UNCHANGED <<objVars, held>>
    BY <1>34 DEF HungEnd, Idle
  <2>2. \A t \in Process : Waiting(t) => GoesOn(t)
    BY <1>34 DEF HungEnd, Idle, Waiting, GoesOn, Types, Shape, ClientPc
  <2> QED
    BY <2>1, <2>2, MovesOn
<1>35. ASSUME NEW t \in Thread, NEW o \in Obj, Evict(t, o) PROVE Good
  <2>1. /\ held' = held /\ th' = th /\ held[o] = None
        /\ list' = [list EXCEPT ![o] = "none"] /\ lrs' = lrs /\ dirty' = dirty
    BY <1>35 DEF Evict, Evictable, On
  <2>2. \A x \in Obj \ Pinned : held'[x] # None => StaysPut(x)
    BY <2>1 DEF StaysPut, Types
  <2>3. \A x \in Process : Waiting(x) => GoesOn(x)
    BY <2>1 DEF GoesOn, Waiting
  <2> QED
    BY <2>1, <2>2, <2>3, StillWaits DEF Holders
<1>40. ASSUME NEW c \in Client, IrqEmit(c) PROVE Good
  <2>1. UNCHANGED <<objVars, held, th>>
    BY <1>40 DEF IrqEmit
  <2> QED
    BY <2>1, MovesOn DEF Waiting, GoesOn
<1>41. ASSUME NEW c \in Process, WaitNoPage(c) PROVE Good
  <2>1. UNCHANGED <<objVars, held, th>>
    BY <1>41 DEF WaitNoPage
  <2> QED
    BY <2>1, MovesOn DEF Waiting, GoesOn
<1>36. ASSUME Enters PROVE Good
  BY <1>8, <1>9, <1>10, <1>11, <1>36, <1>40 DEF Enters
<1>37. ASSUME NEW c \in Process, Step(c) PROVE Good
  BY <1>12, <1>13, <1>14, <1>15, <1>16, <1>17, <1>18, <1>20, <1>21, <1>22,
     <1>23, <1>24, <1>25, <1>26, <1>35, <1>37, <1>41 DEF Step
<1>38. ASSUME Reset PROVE Good
  BY <1>28, <1>29, <1>30, <1>31, <1>32, <1>33, <1>34, <1>35, <1>38 DEF Reset
<1> QED
  BY <1>1, <1>2, <1>3, <1>4, <1>5, <1>6, <1>7, <1>19, <1>27, <1>36, <1>37,
     <1>38 DEF Running, HangChecks

\* The invariant of the waits is inductive, whatever a signal may end.
LEMMA ToldHolds == Spec => []Told
  <1>1. Init => Told
    <2>1. ASSUME Init PROVE Locks /\ Lists /\ Holders /\ Waits
      BY <2>1, Threads DEF Init, Idle, Locks, Lists, Holders, Waits
    <2> QED
      BY <2>1, InitTypes DEF Told
  <1>2. ASSUME Told, [Next]_vars PROVE Told'
    <2>1. CASE UNCHANGED vars
      BY <1>2, <2>1 DEF vars, gpuVars, irqVars, reqVars, hangVars, vtVars,
         objVars, lockVars, Told, Types, Shape, ClientPc, Locks, Lists,
         Holders, Waits, Waiting, Failed
    <2>2. CASE panic = "no" /\ Running
      <3>1. Types' /\ Shape'
        BY <1>2, <2>2, TypesStep DEF Told, Next
      <3>2. Waits
        BY <1>2, <2>2 DEF Told, Failed
      <3>3. Locks' /\ Lists' /\ Holders' /\ (~Failed' => Waits')
        BY <1>2, <2>2, <3>2, LocksStep, ListsStep, WaitsStep DEF Told
      <3> QED
        BY <3>1, <3>3 DEF Told
    <2> QED
      BY <1>2, <2>1, <2>2 DEF Next, Panicked
  <1> QED
    BY <1>1, <1>2, PTL DEF Spec

\* A terminal that has been left without the GPU wedged is quiet: nothing in the
\* ring, on the lists, or to be retired but bare requests; and where the status
\* page has gone with it, nothing is bound, so that nobody holds an object and
\* waits.
THEOREM LeftQuiet == ASSUME NoLeave PROVE Spec => []AwayIsQuiet
  <1>1. ASSUME RecInv, Told, suspended, ~unreset
        PROVE  /\ queue = {} /\ Busy = {} /\ requests \subseteq bare
               /\ \A c \in Process : Shielded(c) => page
    <2>1. ~Failed
      BY <1>1 DEF RecInv, PanicsNot, Failed
    <2>2. Types /\ Locks /\ Lists /\ Power /\ Waits
      BY <1>1, <2>1 DEF RecInv, Core, Told
    <2>3. queue = {} /\ Quiet /\ (~page => Empty)
      BY <1>1, <2>2 DEF Power
    <2>4. Busy = {} /\ requests \subseteq bare
      BY <2>2, <2>3, BusyIs DEF Quiet
    <2>5. ASSUME NEW c \in Process, Shielded(c), ~page PROVE FALSE
      <3>1. drmW # c
        BY <1>1, <2>2, <2>5, Threads DEF Locks, Shielded
      <3>2. PICK o \in Obj \ Pinned : held[o] = c
        BY <2>5, <3>1 DEF Shielded
      <3>3. list[o] \in {"inactive", "active"}
        BY <2>2, <3>2, Threads DEF Waits
      <3> QED
        BY <2>3, <2>5, <3>3 DEF Empty
    <2> QED
      BY <2>3, <2>4, <2>5
  <1>2. RecInv /\ Told => AwayIsQuiet
    BY <1>1 DEF AwayIsQuiet
  <1> QED
    BY <1>2, Invariant, ToldHolds, PTL

\* Who waits under a shield waits for a request that is still on the list when
\* a reset ends, or has been told: dev_lock is the worker's then, and whatever
\* is held would be unbound if it were idle.
THEOREM EverybodyTold == Spec => EveryoneTold
  <1>1. ASSUME Told, [Next]_vars
        PROVE  [HungEnd /\ page =>
                    \A c \in Process : Shielded(c) => th[c].seq \in requests]_vars
    <2>1. ASSUME HungEnd, vars' # vars, NEW c \in Process, Shielded(c)
          PROVE  th[c].seq \in requests
      <3>1. th[Worker].pc = "evict" /\ On("inactive") = {}
        BY <2>1 DEF HungEnd
      <3>2. drmW # c
        BY <1>1, <3>1, Threads DEF Told, Locks
      <3>3. PICK o \in Obj \ Pinned : held[o] = c
        BY <2>1, <3>2 DEF Shielded
      <3>4. panic = "no"
        BY <1>1, <2>1 DEF Next, Panicked
      <3>5. list[o] # "inactive"
        BY <3>1 DEF On
      <3>6. list[o] = "active" /\ lrs[o] = th[c].seq
        BY <1>1, <3>3, <3>4, <3>5, Threads DEF Told, Waits, Failed
      <3> QED
        BY <1>1, <3>6 DEF Told, Lists
    <2> QED
      BY <2>1
  <1> QED
    BY <1>1, ToldHolds, PTL DEF Spec, EveryoneTold
=============================================================================
