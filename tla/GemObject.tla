----------------------------- MODULE GemObject -----------------------------
(***************************************************************************)
(* The life of a GEM buffer object (drm_drv.c and the entry points of      *)
(* i915_drv.c that use it): the reference count uo_refs, per-file handles, *)
(* the global flink name, user mappings, the hold, and the two sides that  *)
(* meet over a dying object, the thread that drops the last reference and  *)
(* the one that clears the inactive list.                                  *)
(*                                                                         *)
(* One action is the code between two places where a thread may block: the *)
(* entry of dev_lock, of table_lock or obj_name_lock, a hold, or an        *)
(* allocation.  A hold is a guard here; the WANTED flag and the sleep      *)
(* queue behind it are not modelled.                                       *)
(***************************************************************************)
EXTENDS Integers, FiniteSets

CONSTANTS
    Obj,            \* buffer objects
    Client,         \* threads of the processes using the device
    File,           \* open files (struct drm_file); threads may share one
    Worker,         \* the work-queue thread: retires and evicts
    NoThread,
    NoObj,
    NoFile,
    Handle,         \* bound: the handles one file can have
    MaxMaps,        \* bound: mappings one object gets
    ClientOps       \* what the clients do

Thread == Client \cup {Worker}
LookupOps == {"pread", "set_domain", "busy", "flink", "mmap"}

ASSUME GemObjectAssumption ==
    /\ Worker \notin Client
    /\ NoThread \notin Thread
    /\ NoObj \notin Obj /\ NoFile \notin File
    /\ IsFiniteSet(File \X Handle) /\ IsFiniteSet(Thread)
    /\ MaxMaps \in Nat

VARIABLES
    life,       \* of each object: not allocated, allocated, back in the pool
    refs,       \* uobj.uo_refs
    handles,    \* file_priv->obj_tree: the object of each handle
    hcount,     \* handlecount
    named,      \* objects in the name tree (name # 0)
    maps,       \* map entries of user address spaces
    active,     \* objects with I915_ACTIVE, which owns a reference
    inactive,   \* objects on mm.inactive_list
    held,       \* who has set DRM_BUSY
    drmW,       \* writer of dev_lock
    drmR,       \* readers of dev_lock
    th          \* per thread: where it is, what it does, on what

nameVars == <<handles, hcount, named, maps>>
listVars == <<active, inactive>>
lockVars == <<drmW, drmR>>
vars == <<life, refs, nameVars, listVars, held, lockVars, th>>

Idle == [pc |-> "idle", op |-> "none", obj |-> NoObj, file |-> NoFile]

Init ==
    /\ life = [o \in Obj |-> "none"]
    /\ refs = [o \in Obj |-> 0]
    /\ handles = [f \in File |-> [h \in Handle |-> NoObj]]
    /\ hcount = [o \in Obj |-> 0]
    /\ named = {} /\ maps = [o \in Obj |-> 0]
    /\ active = {} /\ inactive = {}
    /\ held = [o \in Obj |-> NoThread]
    /\ drmW = NoThread /\ drmR = {}
    /\ th = [t \in Thread |-> Idle]

Goto(t, pc) == th' = [th EXCEPT ![t].pc = pc]
Begin(t, pc, op, o, f) ==
    /\ th[t].pc = "idle"
    /\ th' = [th EXCEPT ![t] = [pc |-> pc, op |-> op, obj |-> o, file |-> f]]

\* drm_ref.
Ref(o) == refs' = [refs EXCEPT ![o] = @ + 1]

\* Where an operation goes on after it has dropped a reference.
AfterUnref(op) ==
    IF op \in {"pread", "exec", "close"} THEN "unlock"
    ELSE IF op = "exit" THEN "exit"
    ELSE IF op = "evict" THEN "scan"
    ELSE "done"

\* drm_unref_locked.  The last reference waits for the hold and frees; h is
\* the hold as it stands when the count is looked at.  (The mutant frees one
\* reference early.)
LastOfTwo(o) == refs[o] <= 2
Last(o) == refs[o] <= 1
Unref(t, o, h, next) ==
    IF Last(o)
    THEN /\ h[o] = NoThread
         /\ held' = [h EXCEPT ![o] = t]
         /\ Goto(t, "free")
         /\ UNCHANGED refs
    ELSE /\ refs' = [refs EXCEPT ![o] = @ - 1]
         /\ held' = h
         /\ Goto(t, next)

-----------------------------------------------------------------------------
(* Handles, names and mappings.                                            *)

\* drm_handle_ref.
HandleRef(o) == hcount' = [hcount EXCEPT ![o] = @ + 1]

\* i915_gem_create_ioctl: the object's first reference goes to the handle.
Create(t, f, h, o) ==
    /\ th[t].pc = "idle"
    /\ life[o] = "none" /\ handles[f][h] = NoObj
    /\ life' = [life EXCEPT ![o] = "live"]
    /\ refs' = [refs EXCEPT ![o] = 1]
    /\ handles' = [handles EXCEPT ![f][h] = o]
    /\ HandleRef(o)
    /\ UNCHANGED <<named, maps, listVars, held, lockVars, th>>

\* drm_gem_object_lookup at the head of an ioctl.
LookupPc(op) ==
    CASE op = "pread" -> "rlock"        \* pread, pwrite
      [] op = "set_domain" -> "hold"    \* set_domain, madvise, set_tiling
      [] op = "busy" -> "unref"
      [] op = "flink" -> "name"
      [] op = "mmap" -> "map"
Lookup(t, f, h, op) ==
    /\ handles[f][h] # NoObj
    /\ Begin(t, LookupPc(op), op, handles[f][h], f)
    /\ Ref(handles[f][h])
    /\ UNCHANGED <<life, nameVars, listVars, held, lockVars>>

\* The second half of flink: name the object unless it has a name, which owns
\* a reference.  (The mutant does not take it.)
NameRefNone(o) == UNCHANGED refs
NameRef(o) == IF o \in named THEN UNCHANGED refs ELSE Ref(o)
Flink(t) ==
    /\ th[t].pc = "name"
    /\ named' = named \cup {th[t].obj}
    /\ NameRef(th[t].obj)
    /\ Goto(t, "unref")
    /\ UNCHANGED <<life, handles, hcount, maps, listVars, held, lockVars>>

\* gtt_map gives the reference of its lookup to the mapping, unless uvm_map
\* fails.
Map(t) ==
    LET o == th[t].obj IN
    /\ th[t].pc = "map"
    /\ \/ /\ maps[o] < MaxMaps
          /\ maps' = [maps EXCEPT ![o] = @ + 1]
          /\ th' = [th EXCEPT ![t] = Idle]
       \/ Goto(t, "unref") /\ UNCHANGED maps
    /\ UNCHANGED <<life, refs, handles, hcount, named, listVars, held,
                   lockVars>>

\* drm_gem_open_ioctl: look the name up and take a reference, ...
OpenName(t, f, o) ==
    /\ o \in named
    /\ Begin(t, "handle", "open", o, f)
    /\ Ref(o)
    /\ UNCHANGED <<life, nameVars, listVars, held, lockVars>>

\* ... and give it to a new handle, unless that cannot be allocated.
OpenHandle(t) ==
    LET o == th[t].obj
        f == th[t].file IN
    /\ th[t].pc = "handle"
    /\ \/ /\ \E h \in Handle : /\ handles[f][h] = NoObj
                              /\ handles' = [handles EXCEPT ![f][h] = o]
          /\ HandleRef(o)
          /\ th' = [th EXCEPT ![t] = Idle]
       \/ Goto(t, "unref") /\ UNCHANGED <<handles, hcount>>
    /\ UNCHANGED <<life, refs, named, maps, listVars, held, lockVars>>

\* Threads in a page fault on o keep its map entries from being removed.
Faulting(o) == {t \in Client : th[t].op = "fault" /\ th[t].obj = o}

\* munmap reaches drm_unref through the pager, without dev_lock.
Munmap(t, o) ==
    /\ maps[o] > Cardinality(Faulting(o))
    /\ Begin(t, "unref", "munmap", o, NoFile)
    /\ maps' = [maps EXCEPT ![o] = @ - 1]
    /\ UNCHANGED <<life, refs, handles, hcount, named, listVars, held,
                   lockVars>>

\* drm_gem_close_ioctl takes the handle out of the table, ...
Close(t, f, h) ==
    /\ handles[f][h] # NoObj
    /\ Begin(t, "wlock", "close", handles[f][h], f)
    /\ handles' = [handles EXCEPT ![f][h] = NoObj]
    /\ UNCHANGED <<life, refs, hcount, named, maps, listVars, held, lockVars>>

\* ... and then, with dev_lock, drops it: the last handle of an object takes
\* the name with it.
HandleUnref(t) ==
    LET o == th[t].obj IN
    /\ th[t].pc = "hunref"
    /\ hcount' = [hcount EXCEPT ![o] = @ - 1]
    /\ Goto(t, IF hcount[o] = 1 THEN "unname" ELSE "unref")
    /\ UNCHANGED <<life, refs, handles, named, maps, listVars, held, lockVars>>

Unname(t) ==
    LET o == th[t].obj IN
    /\ th[t].pc = "unname"
    /\ named' = named \ {o}
    /\ Goto(t, IF o \in named THEN "unref_name" ELSE "unref")
    /\ UNCHANGED <<life, refs, handles, hcount, maps, listVars, held, lockVars>>

\* The reference of the name; the handle still has its own.
UnrefName(t) ==
    /\ th[t].pc = "unref_name"
    /\ Unref(t, th[t].obj, held, "unref")
    /\ UNCHANGED <<life, nameVars, listVars, lockVars>>

\* drmclose, the last close of a file: no ioctl is using it any more.
Exit(t, f) ==
    /\ \A u \in Client : th[u].file # f
    /\ \E h \in Handle : handles[f][h] # NoObj
    /\ Begin(t, "wlock", "exit", NoObj, f)
    /\ UNCHANGED <<life, refs, nameVars, listVars, held, lockVars>>

\* It drops the handles one by one, keeping dev_lock.
ExitHandle(t, h) ==
    LET f == th[t].file IN
    /\ th[t].pc = "exit"
    /\ handles[f][h] # NoObj
    /\ handles' = [handles EXCEPT ![f][h] = NoObj]
    /\ th' = [th EXCEPT ![t].pc = "hunref", ![t].obj = handles[f][h]]
    /\ UNCHANGED <<life, refs, hcount, named, maps, listVars, held, lockVars>>

ExitEnd(t) ==
    /\ th[t].pc = "exit"
    /\ \A h \in Handle : handles[th[t].file][h] = NoObj
    /\ Goto(t, "unlock")
    /\ UNCHANGED <<life, refs, nameVars, listVars, held, lockVars>>

-----------------------------------------------------------------------------
(* dev_lock, the hold, and what is done under them.                        *)

\* A page fault finds the object through its map entry, without a reference
\* of its own.
Fault(t, o) ==
    /\ maps[o] > Cardinality(Faulting(o))
    /\ drmW = NoThread
    /\ Begin(t, "hold", "fault", o, NoFile)
    /\ drmR' = drmR \cup {t}
    /\ UNCHANGED <<life, refs, nameVars, listVars, held, drmW>>

ReadLock(t) ==
    /\ th[t].pc = "rlock"
    /\ drmW = NoThread
    /\ drmR' = drmR \cup {t}
    /\ Goto(t, "hold")
    /\ UNCHANGED <<life, refs, nameVars, listVars, held, drmW>>

WriteLock(t) ==
    /\ th[t].pc = "wlock"
    /\ drmW = NoThread /\ drmR = {}
    /\ drmW' = t
    /\ Goto(t, IF th[t].op = "exit" THEN "exit"
               ELSE IF th[t].op = "evict" THEN "scan" ELSE "hunref")
    /\ UNCHANGED <<life, refs, nameVars, listVars, held, drmR>>

\* execbuffer looks its objects up with dev_lock already taken.
ExecLock(t, f, h) ==
    /\ handles[f][h] # NoObj
    /\ drmW = NoThread /\ drmR = {}
    /\ Begin(t, "hold", "exec", handles[f][h], f)
    /\ drmW' = t
    /\ Ref(handles[f][h])
    /\ UNCHANGED <<life, nameVars, listVars, held, drmR>>

\* drm_hold_object.
Hold(t) ==
    LET o == th[t].obj IN
    /\ th[t].pc = "hold"
    /\ life[o] = "live" /\ held[o] = NoThread
    /\ held' = [held EXCEPT ![o] = t]
    /\ Goto(t, "work")
    /\ UNCHANGED <<life, refs, nameVars, listVars, lockVars>>

\* What is done to the lists while the object is held.  pread, pwrite and
\* faults bind an idle object, which puts it on the inactive list.
Access(t) ==
    LET o == th[t].obj IN
    /\ th[t].pc = "work" /\ th[t].op \in {"pread", "set_domain", "fault"}
    /\ inactive' \in IF th[t].op # "set_domain" /\ o \notin active
                     THEN {inactive, inactive \cup {o}} ELSE {inactive}
    /\ Goto(t, IF th[t].op = "fault" THEN "unhold" ELSE "unhold_unref")
    /\ UNCHANGED <<life, refs, nameVars, active, held, lockVars>>

\* execbuffer makes it active; "add a reference if we're newly entering the
\* active list".
MoveToActive(t) ==
    LET o == th[t].obj IN
    /\ th[t].pc = "work" /\ th[t].op = "exec"
    /\ active' = active \cup {o}
    /\ inactive' = inactive \ {o}
    /\ IF o \in active THEN UNCHANGED refs ELSE Ref(o)
    /\ Goto(t, "unhold_unref")
    /\ UNCHANGED <<life, nameVars, held, lockVars>>

\* i915_gem_object_unbind takes it off its list.
Unbind(t) ==
    /\ th[t].pc = "work" /\ th[t].op = "evict"
    /\ inactive' = inactive \ {th[t].obj}
    /\ Goto(t, "unhold_unref")
    /\ UNCHANGED <<life, refs, nameVars, active, held, lockVars>>

Unhold(t) ==
    /\ th[t].pc = "unhold"
    /\ held' = [held EXCEPT ![th[t].obj] = NoThread]
    /\ Goto(t, "unlock")
    /\ UNCHANGED <<life, refs, nameVars, listVars, lockVars>>

\* drm_unhold_and_unref, in one section of the object lock.
UnholdUnref(t) ==
    LET o == th[t].obj IN
    /\ th[t].pc = "unhold_unref"
    /\ Unref(t, o, [held EXCEPT ![o] = NoThread], AfterUnref(th[t].op))
    /\ UNCHANGED <<life, nameVars, listVars, lockVars>>

DropRef(t) ==
    /\ th[t].pc = "unref"
    /\ Unref(t, th[t].obj, held, AfterUnref(th[t].op))
    /\ UNCHANGED <<life, nameVars, listVars, lockVars>>

\* The dying object is held.  i915_gem_free_object unbinds it, which takes it
\* off its list without list_lock.  (The mutant leaves it there.)
KeepOnList(o) == inactive
OffList(o) == inactive \ {o}
Free(t) ==
    /\ th[t].pc = "free"
    /\ inactive' = OffList(th[t].obj)
    /\ Goto(t, "put")
    /\ UNCHANGED <<life, refs, nameVars, active, held, lockVars>>

\* pool_put.
Put(t) ==
    LET o == th[t].obj IN
    /\ th[t].pc = "put"
    /\ life' = [life EXCEPT ![o] = "gone"]
    /\ refs' = [refs EXCEPT ![o] = 0]
    /\ held' = [held EXCEPT ![o] = NoThread]
    /\ Goto(t, AfterUnref(th[t].op))
    /\ UNCHANGED <<nameVars, listVars, lockVars>>

Unlock(t) ==
    /\ th[t].pc \in {"unlock", "done"}
    /\ drmR' = drmR \ {t}
    /\ drmW' = IF drmW = t THEN NoThread ELSE drmW
    /\ th' = [th EXCEPT ![t] = Idle]
    /\ UNCHANGED <<life, refs, nameVars, listVars, held>>

-----------------------------------------------------------------------------
(* The work queue: retiring what the GPU has finished, and clearing the     *)
(* inactive list after a hang.                                              *)

\* move_to_inactive_locked: the reference of I915_ACTIVE is dropped in the
\* same section of the object lock.
Retire(o) ==
    /\ th[Worker].pc = "idle"
    /\ o \in active
    /\ active' = active \ {o}
    /\ inactive' = inactive \cup {o}
    /\ IF Last(o)
       THEN /\ held[o] = NoThread
            /\ held' = [held EXCEPT ![o] = Worker]
            /\ th' = [th EXCEPT ![Worker] = [pc |-> "free", op |-> "retire",
                                             obj |-> o, file |-> NoFile]]
            /\ UNCHANGED refs
       ELSE /\ refs' = [refs EXCEPT ![o] = @ - 1]
            /\ UNCHANGED <<held, th>>
    /\ UNCHANGED <<life, nameVars, lockVars>>

\* i915_gem_evict_inactive, with dev_lock.
Evict ==
    /\ Begin(Worker, "wlock", "evict", NoObj, NoFile)
    /\ UNCHANGED <<life, refs, nameVars, listVars, held, lockVars>>

\* "reference it so that we can frob it outside the lock".
Grab(o) ==
    /\ th[Worker].pc = "scan"
    /\ o \in inactive
    /\ Ref(o)
    /\ th' = [th EXCEPT ![Worker].pc = "hold", ![Worker].obj = o]
    /\ UNCHANGED <<life, nameVars, listVars, held, lockVars>>

EvictEnd ==
    /\ th[Worker].pc = "scan" /\ inactive = {}
    /\ Goto(Worker, "unlock")
    /\ UNCHANGED <<life, refs, nameVars, listVars, held, lockVars>>

-----------------------------------------------------------------------------
Ioctl(t) ==
    \E f \in File :
      \/ \E h \in Handle, o \in Obj : Create(t, f, h, o)
      \/ \E h \in Handle, op \in LookupOps \cap ClientOps : Lookup(t, f, h, op)
      \/ "open" \in ClientOps /\ \E o \in Obj : OpenName(t, f, o)
      \/ "close" \in ClientOps /\ \E h \in Handle : Close(t, f, h)
      \/ "exec" \in ClientOps /\ \E h \in Handle : ExecLock(t, f, h)
      \/ "exit" \in ClientOps /\ Exit(t, f)

Continue(t) ==
    \/ Flink(t) \/ Map(t) \/ OpenHandle(t)
    \/ HandleUnref(t) \/ Unname(t) \/ UnrefName(t)
    \/ \E h \in Handle : ExitHandle(t, h)
    \/ ExitEnd(t)
    \/ ReadLock(t) \/ WriteLock(t) \/ Hold(t)
    \/ Access(t) \/ MoveToActive(t) \/ Unbind(t)
    \/ Unhold(t) \/ UnholdUnref(t) \/ DropRef(t)
    \/ Free(t) \/ Put(t) \/ Unlock(t)

Next ==
    \/ \E t \in Client : Ioctl(t)
    \/ \E t \in Client, o \in Obj : Munmap(t, o) \/ Fault(t, o)
    \/ \E t \in Thread : Continue(t)
    \/ \E o \in Obj : Retire(o) \/ Grab(o)
    \/ Evict \/ EvictEnd

Spec == Init /\ [][Next]_vars

-----------------------------------------------------------------------------
Pcs == {"idle", "rlock", "wlock", "hold", "work", "unhold", "unhold_unref",
        "unref", "unref_name", "name", "map", "handle", "hunref", "unname",
        "exit", "free", "put", "unlock", "done", "scan"}
LifeOps == {"none", "pread", "set_domain", "busy", "flink", "mmap", "open",
            "munmap", "close", "exit", "fault", "exec", "retire", "evict"}

\* The type invariant; no count is ever negative, the handle count included.
TypeOK ==
    /\ life \in [Obj -> {"none", "live", "gone"}]
    /\ refs \in [Obj -> Nat]
    /\ handles \in [File -> [Handle -> Obj \cup {NoObj}]]
    /\ hcount \in [Obj -> Nat]
    /\ named \subseteq Obj /\ maps \in [Obj -> Nat]
    /\ active \subseteq Obj /\ inactive \subseteq Obj
    /\ held \in [Obj -> Thread \cup {NoThread}]
    /\ drmW \in Thread \cup {NoThread} /\ drmR \subseteq Thread
    /\ th \in [Thread -> [pc : Pcs, op : LifeOps, obj : Obj \cup {NoObj},
                          file : File \cup {NoFile}]]

Handles(o) == {fh \in File \X Handle : handles[fh[1]][fh[2]] = o}
One(b) == IF b THEN 1 ELSE 0

\* A thread owns a reference from its lookup (or from the handle, name or map
\* entry it removed) until its unref; a page fault never has one.
NoRefPcs == {"idle", "unlock", "done", "scan", "exit"}
Owns(t, o) ==
    th[t].obj = o /\ th[t].pc \notin NoRefPcs /\ th[t].op # "fault"

\* handlecount is the number of handles in all tables, and of the handles
\* taken out of a table whose drm_handle_unref is still to come.
HandleCountExact ==
    \A o \in Obj :
        hcount[o] = Cardinality(Handles(o)) +
                    Cardinality({t \in Thread : th[t].obj = o /\
                                   th[t].pc \in {"wlock", "hunref"}})

\* uo_refs is exactly the number of handles, names, mappings, active-list
\* memberships and threads that have a right to the object: no path of any
\* ioctl leaks a reference or drops one twice, however they interleave; and
\* handlecount counts the handles among them.
RefsExact ==
    /\ HandleCountExact
    /\ \A o \in Obj : life[o] = "live" =>
         refs[o] = Cardinality(Handles(o)) + One(o \in named) + maps[o]
                   + One(o \in active)
                   + Cardinality({t \in Thread : Owns(t, o)})
                   + Cardinality({t \in Thread : th[t].obj = o /\
                                                 th[t].pc = "unref_name"})

\* Nothing that counts as a reference outlives the object: no handle, name,
\* mapping or active-list entry is left to an object that went back to the
\* pool, and no client works on one.
CountedLive ==
    /\ \A o \in Obj : life[o] # "live" =>
         Handles(o) = {} /\ o \notin named /\ maps[o] = 0 /\ o \notin active
    /\ \A t \in Client : th[t].obj \in Obj /\ th[t].pc \notin NoRefPcs =>
         life[th[t].obj] = "live"

\* An object that went back to the pool is not left on the inactive list,
\* although drm_unref frees without list_lock and often without dev_lock.
FreedUnlisted ==
    \A o \in inactive : life[o] = "live"

\* The sleep inside drm_unref_locked is never needed: whoever drops the last
\* reference finds nobody else holding the object, because a holder has a
\* reference, or a mapping that cannot go away under it.
LastRefNotHeld ==
    \A t \in Thread :
        th[t].pc \in {"unref", "unref_name"} /\ refs[th[t].obj] <= 1 =>
            held[th[t].obj] = NoThread

\* The comments in drm_unref_locked: "no one else can grab it now", and
\* WANTED "should never happen, not on lists".  Whoever is about to hold an
\* object, or holds it, has one that still exists.
NoUseAfterFree ==
    \A t \in Thread : th[t].pc \in {"hold", "work", "unhold", "unhold_unref"}
        => life[th[t].obj] = "live"

=============================================================================
