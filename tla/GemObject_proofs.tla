--------------------------- MODULE GemObject_proofs ---------------------------
(***************************************************************************)
(* For any number of objects, threads, files and handles: the counts of    *)
(* references and handles are exact, nothing that counts outlives the      *)
(* object, no freed object is on the inactive list, and the last reference *)
(* finds nobody holding it.  What the work queue's own reference to a      *)
(* dying object may do (NoUseAfterFree) is no part of the invariant: it    *)
(* does not hold.                                                          *)
(***************************************************************************)
EXTENDS GemObject, FiniteSetTheorems, TLAPS

USE DEF Thread, Idle, nameVars, listVars, lockVars

\* Who may be where: what each operation does at which place.
HoldOps == {"pread", "set_domain", "fault", "exec", "evict"}
DropOps == {"busy", "flink", "mmap", "open", "munmap", "close", "exit"}
Places ==
    \A t \in Thread :
      /\ th[t].pc = "idle" => th[t] = Idle
      /\ th[t].op = "none" => th[t].pc = "idle"
      /\ th[t].op \in {"none", "retire", "evict"} \/ t # Worker
      /\ th[t].op \in {"retire", "evict"} => t = Worker
      /\ th[t].op = "fault" =>
           th[t].pc \in {"hold", "work", "unhold", "unlock"}
      /\ th[t].pc = "rlock" => th[t].op = "pread"
      /\ th[t].pc = "wlock" => th[t].op \in {"close", "exit", "evict"}
      /\ th[t].pc \in {"hold", "work"} => th[t].op \in HoldOps
      /\ th[t].pc = "unhold" => th[t].op = "fault"
      /\ th[t].pc = "unhold_unref" => th[t].op \in HoldOps \ {"fault"}
      /\ th[t].pc = "unref" => th[t].op \in DropOps
      /\ th[t].pc \in {"unref_name", "hunref", "unname"} =>
           th[t].op \in {"close", "exit"}
      /\ th[t].pc = "name" => th[t].op = "flink"
      /\ th[t].pc = "map" => th[t].op = "mmap"
      /\ th[t].pc = "handle" => th[t].op = "open"
      /\ th[t].pc = "exit" => th[t].op = "exit"
      /\ th[t].pc = "scan" => th[t].op = "evict"
      /\ th[t].op \in {"open", "exit"} => th[t].file \in File
      /\ th[t].pc = "wlock" /\ th[t].op # "close" => th[t].obj = NoObj
      /\ \/ th[t].obj \in Obj
         \/ th[t].pc \in NoRefPcs
         \/ th[t].pc = "wlock" /\ th[t].op # "close"

\* The hold is DRM_BUSY of the object its holder is at work on.
HoldExact ==
    \A t \in Thread, o \in Obj :
        held[o] = t <=>
            /\ th[t].obj = o
            /\ th[t].pc \in {"work", "unhold", "unhold_unref", "free", "put"}

\* A page fault is covered by a map entry.
FaultsMapped == \A o \in Obj : Cardinality(Faulting(o)) <= maps[o]

\* Whoever is at work on an object found one that was created and, but for
\* the evictor that waits for the hold, one that still exists.
Existing ==
    \A t \in Thread :
      /\ th[t].obj \in Obj => life[th[t].obj] # "none"
      /\ /\ th[t].obj \in Obj /\ th[t].pc \notin NoRefPcs
         /\ t = Worker => th[t].pc # "hold"
         => life[th[t].obj] = "live"

\* Nothing but the evictor's grab can reach an object that is being freed.
Dying ==
    \A t \in Thread :
      LET o == th[t].obj IN
      /\ th[t].pc \in {"free", "put"} =>
           /\ \A f \in File, h \in Handle : handles[f][h] # o
           /\ o \notin named /\ maps[o] = 0 /\ o \notin active
           /\ \A u \in Client : th[u].obj = o /\ u # t =>
                th[u].pc \in NoRefPcs
      /\ th[t].pc = "put" => o \notin inactive

\* The inductive invariant.
ObjectInv ==
    /\ TypeOK /\ Places /\ HoldExact /\ FaultsMapped /\ RefsExact
    /\ CountedLive /\ Existing /\ Dying /\ FreedUnlisted

-----------------------------------------------------------------------------
(* How the counted sets change.                                            *)

\* The numbers of RefsExact, and the threads in a page fault.
HandlesOf(o) == Cardinality(Handles(o))
Owners(o) == Cardinality({t \in Thread : Owns(t, o)})
Unnaming(o) ==
    Cardinality({t \in Thread : th[t].obj = o /\ th[t].pc = "unref_name"})
Dropping(o) ==
    Cardinality({t \in Thread : th[t].obj = o /\ th[t].pc \in {"wlock", "hunref"}})
Faults(o) == Cardinality(Faulting(o))

\* They are natural numbers.
Counts(o) ==
    /\ HandlesOf(o) \in Nat /\ Owners(o) \in Nat /\ Unnaming(o) \in Nat
    /\ Dropping(o) \in Nat /\ Faults(o) \in Nat

\* RefsExact with these counts.
Exact(o) ==
    /\ hcount[o] = HandlesOf(o) + Dropping(o)
    /\ life[o] = "live" =>
         refs[o] = HandlesOf(o) + (IF o \in named THEN 1 ELSE 0) + maps[o]
                   + (IF o \in active THEN 1 ELSE 0) + Owners(o) + Unnaming(o)

\* The two agree.
LEMMA ExactIsRefsExact == RefsExact <=> \A o \in Obj : Exact(o)
<1> QED
  BY DEF RefsExact, HandleCountExact, Exact, One, HandlesOf, Owners, Unnaming,
         Dropping

\* A finite set changes its size with the members it gains and loses.
LEMMA Moved ==
  ASSUME NEW S, IsFiniteSet(S), NEW A \in SUBSET S, NEW B \in SUBSET S, NEW x,
         \A y \in S : y # x => (y \in A <=> y \in B)
  PROVE  /\ Cardinality(A) \in Nat /\ Cardinality(B) \in Nat
         /\ Cardinality(B) = Cardinality(A) - (IF x \in A THEN 1 ELSE 0)
                                            + (IF x \in B THEN 1 ELSE 0)
<1>1. IsFiniteSet(A) /\ IsFiniteSet(B)
  BY FS_Subset
<1>2. A \ {x} = B \ {x}
  OBVIOUS
<1>3. /\ Cardinality(A \ {x}) = IF x \in A THEN Cardinality(A) - 1 ELSE Cardinality(A)
      /\ Cardinality(B \ {x}) = IF x \in B THEN Cardinality(B) - 1 ELSE Cardinality(B)
  BY <1>1, FS_RemoveElement
<1>4. Cardinality(A) \in Nat /\ Cardinality(B) \in Nat
  BY <1>1, FS_CardinalityType
<1> QED
  BY <1>2, <1>3, <1>4

\* Members count, different ones count more.
LEMMA Members ==
  ASSUME NEW A, IsFiniteSet(A)
  PROVE  /\ \A x \in A : Cardinality(A) >= 1
         /\ \A x, y \in A : x # y => Cardinality(A) >= 2
<1>1. Cardinality(A) \in Nat
  BY FS_CardinalityType
<1>2. ASSUME NEW x \in A
      PROVE  /\ Cardinality(A) = Cardinality(A \ {x}) + 1
             /\ IsFiniteSet(A \ {x}) /\ Cardinality(A \ {x}) \in Nat
  <2>1. IsFiniteSet(A \ {x})
    BY FS_RemoveElement
  <2>2. Cardinality(A \ {x}) \in Nat
    BY <2>1, FS_CardinalityType
  <2>3. Cardinality(A \ {x}) = Cardinality(A) - 1
    BY FS_RemoveElement
  <2> QED
    BY <1>1, <2>1, <2>2, <2>3
<1>3. ASSUME NEW x \in A
      PROVE  Cardinality(A) >= 1
  <2>1. /\ Cardinality(A) = Cardinality(A \ {x}) + 1
        /\ Cardinality(A \ {x}) \in Nat
    BY <1>2
  <2> QED
    BY <2>1
<1>4. ASSUME NEW x \in A, NEW y \in A, x # y
      PROVE  Cardinality(A) >= 2
  <2>1. Cardinality(A \ {x}) # 0
    BY <1>2, <1>4, FS_EmptySet
  <2> QED
    BY <1>2, <2>1
<1> QED
  BY <1>3, <1>4

\* There are finitely many threads and handles.
LEMMA Finite == IsFiniteSet(Thread) /\ IsFiniteSet(Client) /\ IsFiniteSet(File \X Handle)
<1> QED
  BY GemObjectAssumption, FS_Subset

\* So the counts are natural numbers.
LEMMA CountsType == \A o : Counts(o)
<1>1. SUFFICES ASSUME NEW o PROVE Counts(o)
  OBVIOUS
<1>2. /\ {t \in Thread : Owns(t, o)} \in SUBSET Thread
      /\ {t \in Thread : th[t].obj = o /\ th[t].pc = "unref_name"} \in SUBSET Thread
      /\ {t \in Thread : th[t].obj = o /\ th[t].pc \in {"wlock", "hunref"}} \in SUBSET Thread
      /\ Faulting(o) \in SUBSET Client
      /\ Handles(o) \in SUBSET (File \X Handle)
  BY DEF Faulting, Handles
<1>3. /\ IsFiniteSet({t \in Thread : Owns(t, o)})
      /\ IsFiniteSet({t \in Thread : th[t].obj = o /\ th[t].pc = "unref_name"})
      /\ IsFiniteSet({t \in Thread : th[t].obj = o /\ th[t].pc \in {"wlock", "hunref"}})
      /\ IsFiniteSet(Faulting(o)) /\ IsFiniteSet(Handles(o))
  BY <1>2, Finite, FS_Subset
<1> QED
  BY <1>3, FS_CardinalityType DEF Counts, HandlesOf, Owners, Unnaming,
     Dropping, Faults

\* A step of thread t.
Tally(t, o) ==
    /\ Owners(o)' = Owners(o) - (IF Owns(t, o) THEN 1 ELSE 0)
                              + (IF Owns(t, o)' THEN 1 ELSE 0)
    /\ Unnaming(o)' =
         Unnaming(o)
           - (IF th[t].obj = o /\ th[t].pc = "unref_name" THEN 1 ELSE 0)
           + (IF th'[t].obj = o /\ th'[t].pc = "unref_name" THEN 1 ELSE 0)
    /\ Dropping(o)' =
         Dropping(o)
           - (IF th[t].obj = o /\ th[t].pc \in {"wlock", "hunref"} THEN 1 ELSE 0)
           + (IF th'[t].obj = o /\ th'[t].pc \in {"wlock", "hunref"} THEN 1 ELSE 0)

\* It counts the thread where it was and where it is.
LEMMA ThreadMoves ==
  ASSUME NEW t \in Thread, \A u \in Thread : u # t => th'[u] = th[u], NEW o
  PROVE  Tally(t, o)
<1>1. \A u \in Thread : u # t => (Owns(u, o)' <=> Owns(u, o))
  BY DEF Owns
<1>2. Owners(o)' = Owners(o) - (IF Owns(t, o) THEN 1 ELSE 0)
                             + (IF Owns(t, o)' THEN 1 ELSE 0)
  <2> DEFINE A == {u \in Thread : Owns(u, o)}
             B == {u \in Thread : Owns(u, o)'}
  <2>1. A \in SUBSET Thread /\ B \in SUBSET Thread
        /\ (t \in A <=> Owns(t, o)) /\ (t \in B <=> Owns(t, o)')
        /\ \A u \in Thread : u # t => (u \in A <=> u \in B)
    BY <1>1
  <2>2. Owners(o) = Cardinality(A) /\ Owners(o)' = Cardinality(B)
    BY DEF Owners
  <2> HIDE DEF A, B
  <2>3. Cardinality(B) = Cardinality(A) - (IF t \in A THEN 1 ELSE 0)
                                        + (IF t \in B THEN 1 ELSE 0)
    BY <2>1, Finite, Moved
  <2> QED
    BY <2>1, <2>2, <2>3
<1>3. Unnaming(o)' =
         Unnaming(o)
           - (IF th[t].obj = o /\ th[t].pc = "unref_name" THEN 1 ELSE 0)
           + (IF th'[t].obj = o /\ th'[t].pc = "unref_name" THEN 1 ELSE 0)
  <2> DEFINE A == {u \in Thread : th[u].obj = o /\ th[u].pc = "unref_name"}
             B == {u \in Thread : th'[u].obj = o /\ th'[u].pc = "unref_name"}
  <2>1. A \in SUBSET Thread /\ B \in SUBSET Thread
        /\ (t \in A <=> th[t].obj = o /\ th[t].pc = "unref_name")
        /\ (t \in B <=> th'[t].obj = o /\ th'[t].pc = "unref_name")
        /\ \A u \in Thread : u # t => (u \in A <=> u \in B)
    OBVIOUS
  <2>2. Unnaming(o) = Cardinality(A) /\ Unnaming(o)' = Cardinality(B)
    BY DEF Unnaming
  <2> HIDE DEF A, B
  <2>3. Cardinality(B) = Cardinality(A) - (IF t \in A THEN 1 ELSE 0)
                                        + (IF t \in B THEN 1 ELSE 0)
    BY <2>1, Finite, Moved
  <2> QED
    BY <2>1, <2>2, <2>3
<1>4. Dropping(o)' =
         Dropping(o)
           - (IF th[t].obj = o /\ th[t].pc \in {"wlock", "hunref"} THEN 1 ELSE 0)
           + (IF th'[t].obj = o /\ th'[t].pc \in {"wlock", "hunref"} THEN 1 ELSE 0)
  <2> DEFINE A == {u \in Thread : th[u].obj = o /\ th[u].pc \in {"wlock", "hunref"}}
             B == {u \in Thread : th'[u].obj = o /\ th'[u].pc \in {"wlock", "hunref"}}
  <2>1. A \in SUBSET Thread /\ B \in SUBSET Thread
        /\ (t \in A <=> th[t].obj = o /\ th[t].pc \in {"wlock", "hunref"})
        /\ (t \in B <=> th'[t].obj = o /\ th'[t].pc \in {"wlock", "hunref"})
        /\ \A u \in Thread : u # t => (u \in A <=> u \in B)
    OBVIOUS
  <2>2. Dropping(o) = Cardinality(A) /\ Dropping(o)' = Cardinality(B)
    BY DEF Dropping
  <2> HIDE DEF A, B
  <2>3. Cardinality(B) = Cardinality(A) - (IF t \in A THEN 1 ELSE 0)
                                        + (IF t \in B THEN 1 ELSE 0)
    BY <2>1, Finite, Moved
  <2> QED
    BY <2>1, <2>2, <2>3
<1> QED
  BY <1>2, <1>3, <1>4 DEF Tally

\* The threads in a page fault, and a client's step.
LEMMA FaultMoves ==
  ASSUME NEW t \in Client, \A u \in Client : u # t => th'[u] = th[u], NEW o
  PROVE  Faults(o)' =
           Faults(o) - (IF th[t].op = "fault" /\ th[t].obj = o THEN 1 ELSE 0)
                     + (IF th'[t].op = "fault" /\ th'[t].obj = o THEN 1 ELSE 0)
<1> DEFINE A == {u \in Client : th[u].op = "fault" /\ th[u].obj = o}
           B == {u \in Client : th'[u].op = "fault" /\ th'[u].obj = o}
<1>1. A \in SUBSET Client /\ B \in SUBSET Client
      /\ (t \in A <=> th[t].op = "fault" /\ th[t].obj = o)
      /\ (t \in B <=> th'[t].op = "fault" /\ th'[t].obj = o)
      /\ \A u \in Client : u # t => (u \in A <=> u \in B)
  OBVIOUS
<1>2. Faults(o) = Cardinality(A) /\ Faults(o)' = Cardinality(B)
  BY DEF Faults, Faulting
<1> HIDE DEF A, B
<1>3. Cardinality(B) = Cardinality(A) - (IF t \in A THEN 1 ELSE 0)
                                      + (IF t \in B THEN 1 ELSE 0)
  BY <1>1, Finite, Moved
<1> QED
  BY <1>1, <1>2, <1>3

\* A handle that comes or goes.
HandleTally(f, h, x, o) ==
    HandlesOf(o)' = HandlesOf(o) - (IF handles[f][h] = o THEN 1 ELSE 0)
                                 + (IF x = o THEN 1 ELSE 0)
Rehandled(f, h, x) ==
    /\ handles'[f][h] = x
    /\ \A g \in File, k \in Handle :
         g # f \/ k # h => handles'[g][k] = handles[g][k]
LEMMA HandleMoves ==
  ASSUME NEW f \in File, NEW h \in Handle, NEW x, Rehandled(f, h, x), NEW o
  PROVE  HandleTally(f, h, x, o)
<1> DEFINE A == {fh \in File \X Handle : handles[fh[1]][fh[2]] = o}
           B == {fh \in File \X Handle : handles'[fh[1]][fh[2]] = o}
<1>1. /\ A \in SUBSET (File \X Handle) /\ B \in SUBSET (File \X Handle)
      /\ <<f, h>> \in A <=> handles[f][h] = o
      /\ <<f, h>> \in B <=> x = o
      /\ \A p \in File \X Handle : p # <<f, h>> => (p \in A <=> p \in B)
  BY DEF Rehandled
<1>2. HandlesOf(o) = Cardinality(A) /\ HandlesOf(o)' = Cardinality(B)
  BY DEF HandlesOf, Handles
<1> HIDE DEF A, B
<1>3. Cardinality(B) = Cardinality(A) - (IF <<f, h>> \in A THEN 1 ELSE 0)
                                      + (IF <<f, h>> \in B THEN 1 ELSE 0)
  BY <1>1, Finite, Moved
<1> QED
  BY <1>1, <1>2, <1>3 DEF HandleTally

\* Nothing happens to the handles.
LEMMA SameHandles ==
  ASSUME handles' = handles, NEW o
  PROVE  HandlesOf(o)' = HandlesOf(o)
  BY DEF HandlesOf, Handles

\* Who is counted.
LEMMA Counted ==
  ASSUME NEW o
  PROVE  /\ \A t \in Thread : Owns(t, o) => Owners(o) >= 1
         /\ \A t, u \in Thread : Owns(t, o) /\ Owns(u, o) /\ t # u =>
              Owners(o) >= 2
         /\ \A t \in Thread : th[t].obj = o /\ th[t].pc = "unref_name" =>
              Unnaming(o) >= 1
         /\ \A t \in Thread :
              th[t].obj = o /\ th[t].pc \in {"wlock", "hunref"} =>
                Dropping(o) >= 1
         /\ \A t \in Client : th[t].obj = o /\ th[t].op = "fault" =>
              Faults(o) >= 1
         /\ \A f \in File, h \in Handle : handles[f][h] = o =>
              HandlesOf(o) >= 1
<1>1. \A t, u \in Thread : /\ Owns(t, o) => Owners(o) >= 1
                           /\ Owns(t, o) /\ Owns(u, o) /\ t # u =>
                                Owners(o) >= 2
  <2> DEFINE A == {t \in Thread : Owns(t, o)}
  <2>1. IsFiniteSet(A)
    BY Finite, FS_Subset
  <2>2. \A t \in Thread : Owns(t, o) => t \in A
    OBVIOUS
  <2>3. Owners(o) = Cardinality(A)
    BY DEF Owners
  <2> HIDE DEF A
  <2>4. /\ \A x \in A : Cardinality(A) >= 1
        /\ \A x, y \in A : x # y => Cardinality(A) >= 2
    BY <2>1, Members
  <2> QED
    BY <2>2, <2>3, <2>4
<1>2. \A t \in Thread : th[t].obj = o /\ th[t].pc = "unref_name" =>
        Unnaming(o) >= 1
  <2> DEFINE A == {t \in Thread : th[t].obj = o /\ th[t].pc = "unref_name"}
  <2>1. IsFiniteSet(A)
    BY Finite, FS_Subset
  <2>2. Unnaming(o) = Cardinality(A)
    BY DEF Unnaming
  <2>3. \A t \in Thread : th[t].obj = o /\ th[t].pc = "unref_name" => t \in A
    OBVIOUS
  <2> HIDE DEF A
  <2> QED
    BY <2>1, <2>2, <2>3, Members
<1>3. \A t \in Thread : th[t].obj = o /\ th[t].pc \in {"wlock", "hunref"} =>
        Dropping(o) >= 1
  <2> DEFINE A == {t \in Thread : th[t].obj = o /\ th[t].pc \in {"wlock", "hunref"}}
  <2>1. IsFiniteSet(A)
    BY Finite, FS_Subset
  <2>2. Dropping(o) = Cardinality(A)
    BY DEF Dropping
  <2>3. \A t \in Thread : th[t].obj = o /\ th[t].pc \in {"wlock", "hunref"} =>
          t \in A
    OBVIOUS
  <2> HIDE DEF A
  <2> QED
    BY <2>1, <2>2, <2>3, Members
<1>4. \A t \in Client : th[t].obj = o /\ th[t].op = "fault" => Faults(o) >= 1
  <2>1. IsFiniteSet(Faulting(o))
    BY Finite, FS_Subset DEF Faulting
  <2>2. \A t \in Client : th[t].obj = o /\ th[t].op = "fault" =>
          t \in Faulting(o)
    BY DEF Faulting
  <2> QED
    BY <2>1, <2>2, Members DEF Faults
<1>5. \A f \in File, h \in Handle : handles[f][h] = o => HandlesOf(o) >= 1
  <2>1. IsFiniteSet(Handles(o))
    BY Finite, FS_Subset DEF Handles
  <2>2. \A f \in File, h \in Handle : handles[f][h] = o =>
          <<f, h>> \in Handles(o)
    BY DEF Handles
  <2> QED
    BY <2>1, <2>2, Members DEF HandlesOf
<1> QED
  BY <1>1, <1>2, <1>3, <1>4, <1>5

-----------------------------------------------------------------------------
(* The steps.                                                              *)

\* Only the thread that moves changes.
LEMMA OneMoves ==
  ASSUME TypeOK, NEW t \in Thread, \E x : th' = [th EXCEPT ![t] = x]
  PROVE  \A u \in Thread : u # t => th'[u] = th[u]
  BY DEF TypeOK

\* Each operation keeps to its places.
LEMMA PlacesStep ==
  ASSUME TypeOK, Places, [Next]_vars
  PROVE  Places'
<1> USE GemObjectAssumption DEF TypeOK, Places, HoldOps, DropOps, NoRefPcs,
   AfterUnref, Pcs, LifeOps
<1>1. ASSUME NEW t \in Client, \E f \in File, h \in Handle,
             o \in Obj : Create(t, f, h, o)
      PROVE  Places'
  BY <1>1 DEF Create, HandleRef
<1>2. ASSUME NEW t \in Client, \E f \in File, h \in Handle,
             op \in LookupOps : Lookup(t, f, h, op)
      PROVE  Places'
  BY <1>2 DEF Lookup, LookupOps, LookupPc, Begin, Ref
<1>3. ASSUME NEW t \in Client, \E f \in File, o \in Obj : OpenName(t, f, o)
      PROVE  Places'
  BY <1>3 DEF OpenName, Begin, Ref
<1>4. ASSUME NEW t \in Client, \E f \in File, h \in Handle : Close(t, f, h)
      PROVE  Places'
  BY <1>4 DEF Close, Begin
<1>5. ASSUME NEW t \in Client, \E f \in File, h \in Handle : ExecLock(t, f, h)
      PROVE  Places'
  BY <1>5 DEF ExecLock, Begin, Ref
<1>6. ASSUME NEW t \in Client, \E f \in File : Exit(t, f)
      PROVE  Places'
  BY <1>6 DEF Exit, Begin
<1>7. ASSUME NEW t \in Client, \E o \in Obj : Munmap(t, o)
      PROVE  Places'
  BY <1>7 DEF Munmap, Begin
<1>8. ASSUME NEW t \in Client, \E o \in Obj : Fault(t, o)
      PROVE  Places'
  BY <1>8 DEF Fault, Begin
<1>9. ASSUME NEW t \in Thread, Flink(t)
      PROVE  Places'
  BY <1>9 DEF Flink, NameRef, Ref, Goto
<1>10. ASSUME NEW t \in Thread, Map(t)
      PROVE  Places'
  BY <1>10 DEF Map, Goto
<1>11. ASSUME NEW t \in Thread, OpenHandle(t)
      PROVE  Places'
  BY <1>11 DEF OpenHandle, HandleRef, Goto
<1>12. ASSUME NEW t \in Thread, HandleUnref(t)
      PROVE  Places'
  BY <1>12 DEF HandleUnref, Goto
<1>13. ASSUME NEW t \in Thread, Unname(t)
      PROVE  Places'
  BY <1>13 DEF Unname, Goto
<1>14. ASSUME NEW t \in Thread, UnrefName(t)
      PROVE  Places'
  BY <1>14 DEF UnrefName, Unref, Last, Goto
<1>15. ASSUME NEW t \in Thread, \E h \in Handle : ExitHandle(t, h)
      PROVE  Places'
  BY <1>15 DEF ExitHandle
<1>16. ASSUME NEW t \in Thread, ExitEnd(t)
      PROVE  Places'
  BY <1>16 DEF ExitEnd, Goto
<1>17. ASSUME NEW t \in Thread, ReadLock(t)
      PROVE  Places'
  BY <1>17 DEF ReadLock, Goto
<1>18. ASSUME NEW t \in Thread, WriteLock(t)
      PROVE  Places'
  BY <1>18 DEF WriteLock, Goto
<1>19. ASSUME NEW t \in Thread, Hold(t)
      PROVE  Places'
  BY <1>19 DEF Hold, Goto
<1>20. ASSUME NEW t \in Thread, Access(t)
      PROVE  Places'
  BY <1>20 DEF Access, Goto
<1>21. ASSUME NEW t \in Thread, MoveToActive(t)
      PROVE  Places'
  BY <1>21 DEF MoveToActive, Ref, Goto
<1>22. ASSUME NEW t \in Thread, Unbind(t)
      PROVE  Places'
  BY <1>22 DEF Unbind, Goto
<1>23. ASSUME NEW t \in Thread, Unhold(t)
      PROVE  Places'
  BY <1>23 DEF Unhold, Goto
<1>24. ASSUME NEW t \in Thread, UnholdUnref(t)
      PROVE  Places'
  BY <1>24 DEF UnholdUnref, Unref, Last, AfterUnref, Goto
<1>25. ASSUME NEW t \in Thread, DropRef(t)
      PROVE  Places'
  BY <1>25 DEF DropRef, Unref, Last, AfterUnref, Goto
<1>26. ASSUME NEW t \in Thread, Free(t)
      PROVE  Places'
  BY <1>26 DEF Free, OffList, Goto
<1>27. ASSUME NEW t \in Thread, Put(t)
      PROVE  Places'
  BY <1>27 DEF Put, AfterUnref, Goto
<1>28. ASSUME NEW t \in Thread, Unlock(t)
      PROVE  Places'
  BY <1>28 DEF Unlock
<1>29. ASSUME NEW o \in Obj, Retire(o)
      PROVE  Places'
  BY <1>29 DEF Retire, Last
<1>30. ASSUME NEW o \in Obj, Grab(o)
      PROVE  Places'
  BY <1>30 DEF Grab, Ref
<1>31. CASE Evict
  BY <1>31 DEF Evict, Begin
<1>32. CASE EvictEnd
  BY <1>32 DEF EvictEnd, Goto
<1>33. CASE UNCHANGED vars
  BY <1>33 DEF vars
<1> QED
  BY <1>1, <1>2, <1>3, <1>4, <1>5, <1>6, <1>7, <1>8, <1>9, <1>10, <1>11,
     <1>12, <1>13, <1>14, <1>15, <1>16, <1>17, <1>18, <1>19, <1>20, <1>21,
     <1>22, <1>23, <1>24, <1>25, <1>26, <1>27, <1>28, <1>29, <1>30, <1>31,
     <1>32, <1>33
     DEF Next, Ioctl, Continue

\* The hold follows its holder.
LEMMA HoldStep ==
  ASSUME TypeOK, Places, HoldExact, Dying, [Next]_vars
  PROVE  HoldExact'
<1> USE GemObjectAssumption DEF TypeOK, Places, HoldExact, HoldOps, DropOps,
   NoRefPcs, AfterUnref, Pcs, LifeOps
<1>1. ASSUME NEW t \in Client, \E f \in File, h \in Handle,
             o \in Obj : Create(t, f, h, o)
      PROVE  HoldExact'
  BY <1>1 DEF Create, HandleRef
<1>2. ASSUME NEW t \in Client, \E f \in File, h \in Handle,
             op \in LookupOps : Lookup(t, f, h, op)
      PROVE  HoldExact'
  BY <1>2 DEF Lookup, LookupOps, LookupPc, Begin, Ref
<1>3. ASSUME NEW t \in Client, \E f \in File, o \in Obj : OpenName(t, f, o)
      PROVE  HoldExact'
  BY <1>3 DEF OpenName, Begin, Ref
<1>4. ASSUME NEW t \in Client, \E f \in File, h \in Handle : Close(t, f, h)
      PROVE  HoldExact'
  BY <1>4 DEF Close, Begin
<1>5. ASSUME NEW t \in Client, \E f \in File, h \in Handle : ExecLock(t, f, h)
      PROVE  HoldExact'
  BY <1>5 DEF ExecLock, Begin, Ref
<1>6. ASSUME NEW t \in Client, \E f \in File : Exit(t, f)
      PROVE  HoldExact'
  BY <1>6 DEF Exit, Begin
<1>7. ASSUME NEW t \in Client, \E o \in Obj : Munmap(t, o)
      PROVE  HoldExact'
  BY <1>7 DEF Munmap, Begin
<1>8. ASSUME NEW t \in Client, \E o \in Obj : Fault(t, o)
      PROVE  HoldExact'
  BY <1>8 DEF Fault, Begin
<1>9. ASSUME NEW t \in Thread, Flink(t)
      PROVE  HoldExact'
  BY <1>9 DEF Flink, NameRef, Ref, Goto
<1>10. ASSUME NEW t \in Thread, Map(t)
      PROVE  HoldExact'
  BY <1>10 DEF Map, Goto
<1>11. ASSUME NEW t \in Thread, OpenHandle(t)
      PROVE  HoldExact'
  BY <1>11 DEF OpenHandle, HandleRef, Goto
<1>12. ASSUME NEW t \in Thread, HandleUnref(t)
      PROVE  HoldExact'
  BY <1>12 DEF HandleUnref, Goto
<1>13. ASSUME NEW t \in Thread, Unname(t)
      PROVE  HoldExact'
  BY <1>13 DEF Unname, Goto
<1>14. ASSUME NEW t \in Thread, UnrefName(t)
      PROVE  HoldExact'
  BY <1>14 DEF UnrefName, Unref, Last, Goto
<1>15. ASSUME NEW t \in Thread, \E h \in Handle : ExitHandle(t, h)
      PROVE  HoldExact'
  BY <1>15 DEF ExitHandle
<1>16. ASSUME NEW t \in Thread, ExitEnd(t)
      PROVE  HoldExact'
  BY <1>16 DEF ExitEnd, Goto
<1>17. ASSUME NEW t \in Thread, ReadLock(t)
      PROVE  HoldExact'
  BY <1>17 DEF ReadLock, Goto
<1>18. ASSUME NEW t \in Thread, WriteLock(t)
      PROVE  HoldExact'
  BY <1>18 DEF WriteLock, Goto
<1>19. ASSUME NEW t \in Thread, Hold(t)
      PROVE  HoldExact'
  BY <1>19 DEF Hold, Goto
<1>20. ASSUME NEW t \in Thread, Access(t)
      PROVE  HoldExact'
  BY <1>20 DEF Access, Goto
<1>21. ASSUME NEW t \in Thread, MoveToActive(t)
      PROVE  HoldExact'
  BY <1>21 DEF MoveToActive, Ref, Goto
<1>22. ASSUME NEW t \in Thread, Unbind(t)
      PROVE  HoldExact'
  BY <1>22 DEF Unbind, Goto
<1>23. ASSUME NEW t \in Thread, Unhold(t)
      PROVE  HoldExact'
  BY <1>23 DEF Unhold, Goto
<1>24. ASSUME NEW t \in Thread, UnholdUnref(t)
      PROVE  HoldExact'
  BY <1>24 DEF UnholdUnref, Unref, Last, AfterUnref, Goto
<1>25. ASSUME NEW t \in Thread, DropRef(t)
      PROVE  HoldExact'
  BY <1>25 DEF DropRef, Unref, Last, AfterUnref, Goto
<1>26. ASSUME NEW t \in Thread, Free(t)
      PROVE  HoldExact'
  BY <1>26 DEF Free, OffList, Goto
<1>27. ASSUME NEW t \in Thread, Put(t)
      PROVE  HoldExact'
  BY <1>27 DEF Put, AfterUnref, Goto
<1>28. ASSUME NEW t \in Thread, Unlock(t)
      PROVE  HoldExact'
  BY <1>28 DEF Unlock
<1>29. ASSUME NEW o \in Obj, Retire(o)
      PROVE  HoldExact'
  BY <1>29 DEF Retire, Last
<1>30. ASSUME NEW o \in Obj, Grab(o)
      PROVE  HoldExact'
  BY <1>30 DEF Grab, Ref
<1>31. CASE Evict
  BY <1>31 DEF Evict, Begin
<1>32. CASE EvictEnd
  BY <1>32 DEF EvictEnd, Goto
<1>33. CASE UNCHANGED vars
  BY <1>33 DEF vars
<1> QED
  BY <1>1, <1>2, <1>3, <1>4, <1>5, <1>6, <1>7, <1>8, <1>9, <1>10, <1>11,
     <1>12, <1>13, <1>14, <1>15, <1>16, <1>17, <1>18, <1>19, <1>20, <1>21,
     <1>22, <1>23, <1>24, <1>25, <1>26, <1>27, <1>28, <1>29, <1>30, <1>31,
     <1>32, <1>33
     DEF Next, Ioctl, Continue

\* No fault loses its map entry.
LEMMA FaultsStep ==
  ASSUME TypeOK, Places, FaultsMapped, [Next]_vars
  PROVE  FaultsMapped'
<1>0. \A o \in Obj : Faults(o) \in Nat
  BY CountsType DEF Counts
<1>00. FaultsMapped <=> \A o \in Obj : Faults(o) <= maps[o]
  BY DEF FaultsMapped, Faults
<1>000. FaultsMapped' <=> \A o \in Obj : Faults(o)' <= maps'[o]
  BY DEF FaultsMapped, Faults
<1>0000. \A t \in Client : (\A u \in Client : u # t => th'[u] = th[u]) =>
           \A o : Faults(o)' = Faults(o)
                     - (IF th[t].op = "fault" /\ th[t].obj = o THEN 1 ELSE 0)
                     + (IF th'[t].op = "fault" /\ th'[t].obj = o THEN 1 ELSE 0)
  BY FaultMoves
<1>00000. (\A u \in Client : th'[u].op = th[u].op /\ th'[u].obj = th[u].obj) =>
           \A o : Faults(o)' = Faults(o)
  BY DEF Faults, Faulting
<1> USE <1>0, <1>00, <1>000, GemObjectAssumption DEF TypeOK, NoRefPcs, Places
<1>1. ASSUME NEW t \in Client, \E f \in File, h \in Handle,
             o \in Obj : Create(t, f, h, o)
      PROVE  FaultsMapped'
  BY <1>1, <1>0000, <1>00000 DEF Create, HandleRef
<1>2. ASSUME NEW t \in Client, \E f \in File, h \in Handle,
             op \in LookupOps : Lookup(t, f, h, op)
      PROVE  FaultsMapped'
  BY <1>2, <1>0000, <1>00000 DEF Lookup, LookupOps, LookupPc, Begin, Ref
<1>3. ASSUME NEW t \in Client, \E f \in File, o \in Obj : OpenName(t, f, o)
      PROVE  FaultsMapped'
  BY <1>3, <1>0000, <1>00000 DEF OpenName, Begin, Ref
<1>4. ASSUME NEW t \in Client, \E f \in File, h \in Handle : Close(t, f, h)
      PROVE  FaultsMapped'
  BY <1>4, <1>0000, <1>00000 DEF Close, Begin
<1>5. ASSUME NEW t \in Client, \E f \in File, h \in Handle : ExecLock(t, f, h)
      PROVE  FaultsMapped'
  BY <1>5, <1>0000, <1>00000 DEF ExecLock, Begin, Ref
<1>6. ASSUME NEW t \in Client, \E f \in File : Exit(t, f)
      PROVE  FaultsMapped'
  BY <1>6, <1>0000, <1>00000 DEF Exit, Begin
<1>7. ASSUME NEW t \in Client, \E o \in Obj : Munmap(t, o)
      PROVE  FaultsMapped'
  <2>1. PICK p \in Obj : Munmap(t, p)
    BY <1>7
  <2>2. maps[p] > Faults(p) /\ maps' = [maps EXCEPT ![p] = maps[p] - 1]
    BY <2>1 DEF Munmap, Faults
  <2>3. /\ th[t].op # "fault" /\ th'[t].op # "fault"
        /\ \A u \in Client : u # t => th'[u] = th[u]
    BY <2>1 DEF Munmap, Begin
  <2>4. \A o \in Obj : Faults(o)' = Faults(o)
    BY <2>3, <1>0000
  <2> QED
    BY <2>2, <2>4
<1>8. ASSUME NEW t \in Client, \E o \in Obj : Fault(t, o)
      PROVE  FaultsMapped'
  <2>1. PICK p \in Obj : Fault(t, p)
    BY <1>8
  <2>2. maps[p] > Faults(p) /\ maps' = maps
    BY <2>1 DEF Fault, Faults
  <2>3. /\ th[t].op # "fault" /\ th'[t].op = "fault" /\ th'[t].obj = p
        /\ \A u \in Client : u # t => th'[u] = th[u]
    BY <2>1 DEF Fault, Begin
  <2>4. \A o \in Obj : Faults(o)' = Faults(o) + (IF o = p THEN 1 ELSE 0)
    BY <2>3, <1>0000
  <2> QED
    BY <2>2, <2>4
<1>9. ASSUME NEW t \in Thread, Flink(t)
      PROVE  FaultsMapped'
  BY <1>9, <1>0000, <1>00000 DEF Flink, NameRef, Ref, Goto
<1>10. ASSUME NEW t \in Thread, Map(t)
      PROVE  FaultsMapped'
  BY <1>10, <1>0000, <1>00000 DEF Map, Goto
<1>11. ASSUME NEW t \in Thread, OpenHandle(t)
      PROVE  FaultsMapped'
  BY <1>11, <1>0000, <1>00000 DEF OpenHandle, HandleRef, Goto
<1>12. ASSUME NEW t \in Thread, HandleUnref(t)
      PROVE  FaultsMapped'
  BY <1>12, <1>0000, <1>00000 DEF HandleUnref, Goto
<1>13. ASSUME NEW t \in Thread, Unname(t)
      PROVE  FaultsMapped'
  BY <1>13, <1>0000, <1>00000 DEF Unname, Goto
<1>14. ASSUME NEW t \in Thread, UnrefName(t)
      PROVE  FaultsMapped'
  BY <1>14, <1>0000, <1>00000 DEF UnrefName, Unref, Last, Goto
<1>15. ASSUME NEW t \in Thread, \E h \in Handle : ExitHandle(t, h)
      PROVE  FaultsMapped'
  BY <1>15, <1>0000, <1>00000 DEF ExitHandle
<1>16. ASSUME NEW t \in Thread, ExitEnd(t)
      PROVE  FaultsMapped'
  BY <1>16, <1>0000, <1>00000 DEF ExitEnd, Goto
<1>17. ASSUME NEW t \in Thread, ReadLock(t)
      PROVE  FaultsMapped'
  BY <1>17, <1>0000, <1>00000 DEF ReadLock, Goto
<1>18. ASSUME NEW t \in Thread, WriteLock(t)
      PROVE  FaultsMapped'
  BY <1>18, <1>0000, <1>00000 DEF WriteLock, Goto
<1>19. ASSUME NEW t \in Thread, Hold(t)
      PROVE  FaultsMapped'
  BY <1>19, <1>0000, <1>00000 DEF Hold, Goto
<1>20. ASSUME NEW t \in Thread, Access(t)
      PROVE  FaultsMapped'
  BY <1>20, <1>0000, <1>00000 DEF Access, Goto
<1>21. ASSUME NEW t \in Thread, MoveToActive(t)
      PROVE  FaultsMapped'
  BY <1>21, <1>0000, <1>00000 DEF MoveToActive, Ref, Goto
<1>22. ASSUME NEW t \in Thread, Unbind(t)
      PROVE  FaultsMapped'
  BY <1>22, <1>0000, <1>00000 DEF Unbind, Goto
<1>23. ASSUME NEW t \in Thread, Unhold(t)
      PROVE  FaultsMapped'
  BY <1>23, <1>0000, <1>00000 DEF Unhold, Goto
<1>24. ASSUME NEW t \in Thread, UnholdUnref(t)
      PROVE  FaultsMapped'
  BY <1>24, <1>0000, <1>00000 DEF UnholdUnref, Unref, Last, AfterUnref, Goto
<1>25. ASSUME NEW t \in Thread, DropRef(t)
      PROVE  FaultsMapped'
  BY <1>25, <1>0000, <1>00000 DEF DropRef, Unref, Last, AfterUnref, Goto
<1>26. ASSUME NEW t \in Thread, Free(t)
      PROVE  FaultsMapped'
  BY <1>26, <1>0000, <1>00000 DEF Free, OffList, Goto
<1>27. ASSUME NEW t \in Thread, Put(t)
      PROVE  FaultsMapped'
  BY <1>27, <1>0000, <1>00000 DEF Put, AfterUnref, Goto
<1>28. ASSUME NEW t \in Thread, Unlock(t)
      PROVE  FaultsMapped'
  BY <1>28, <1>0000, <1>00000 DEF Unlock
<1>29. ASSUME NEW o \in Obj, Retire(o)
      PROVE  FaultsMapped'
  BY <1>29, <1>0000, <1>00000 DEF Retire, Last
<1>30. ASSUME NEW o \in Obj, Grab(o)
      PROVE  FaultsMapped'
  BY <1>30, <1>0000, <1>00000 DEF Grab, Ref
<1>31. CASE Evict
  BY <1>31, <1>0000, <1>00000 DEF Evict, Begin
<1>32. CASE EvictEnd
  BY <1>32, <1>0000, <1>00000 DEF EvictEnd, Goto
<1>33. CASE UNCHANGED vars
  BY <1>33, <1>0000, <1>00000 DEF vars
<1> QED
  BY <1>1, <1>2, <1>3, <1>4, <1>5, <1>6, <1>7, <1>8, <1>9, <1>10, <1>11,
     <1>12, <1>13, <1>14, <1>15, <1>16, <1>17, <1>18, <1>19, <1>20, <1>21,
     <1>22, <1>23, <1>24, <1>25, <1>26, <1>27, <1>28, <1>29, <1>30, <1>31,
     <1>32, <1>33
     DEF Next, Ioctl, Continue

\* Every count stays exact.
LEMMA ExactStep ==
  ASSUME TypeOK, Places, FaultsMapped, CountedLive, Existing, RefsExact,
     NEW q \in Obj, [Next]_vars
  PROVE  Exact(q)'
<1>b. \A o \in Obj : Exact(o) /\ Counts(o)
  BY ExactIsRefsExact, CountsType
<1>0. Exact(q) /\ Counts(q)
  BY <1>b
<1>00. \A t \in Thread : (\A u \in Thread : u # t => th'[u] = th[u]) =>
         Tally(t, q)
  BY ThreadMoves
<1>000. handles' = handles => HandlesOf(q)' = HandlesOf(q)
  BY SameHandles
<1>a. /\ refs \in [Obj -> Nat] /\ hcount \in [Obj -> Nat] /\ maps \in [Obj -> Nat]
      /\ th \in [Thread -> [pc : Pcs, op : LifeOps, obj : Obj \cup {NoObj},
                          file : File \cup {NoFile}]]
      /\ \A f \in File, h \in Handle : handles[f][h] \in Obj \cup {NoObj}
      /\ NoObj \notin Obj
  BY GemObjectAssumption DEF TypeOK
<1> USE <1>0, <1>00, <1>000, <1>a
        DEF Exact, Counts, Tally, Owns, NoRefPcs, Places
<1>1. ASSUME NEW t \in Client, \E f \in File, h \in Handle,
             o \in Obj : Create(t, f, h, o)
      PROVE  Exact(q)'
  <2>1. PICK f \in File, h \in Handle, p \in Obj : Create(t, f, h, p)
    BY <1>1
  <2>2. /\ life[p] = "none" /\ handles[f][h] = NoObj /\ th' = th
        /\ handles' = [handles EXCEPT ![f][h] = p]
        /\ life' = [life EXCEPT ![p] = "live"]
        /\ refs' = [refs EXCEPT ![p] = 1]
        /\ hcount' = [hcount EXCEPT ![p] = hcount[p] + 1]
        /\ UNCHANGED <<named, maps, active>>
    BY <2>1 DEF Create, HandleRef
  <2>3. HandlesOf(q)' = HandlesOf(q) + (IF p = q THEN 1 ELSE 0)
    <3>1. Rehandled(f, h, p)
      BY <2>2 DEF TypeOK, Rehandled
    <3>2. HandleTally(f, h, p, q)
      BY <3>1, HandleMoves
    <3> QED
      BY <2>2, <3>2 DEF HandleTally
  <2>4. /\ Owners(q)' = Owners(q) /\ Unnaming(q)' = Unnaming(q)
                       /\ Dropping(q)' = Dropping(q)
    BY <2>2 DEF Owners, Unnaming, Dropping
  <2>5. /\ HandlesOf(p) = 0 /\ Owners(p) = 0 /\ Unnaming(p) = 0
        /\ p \notin named /\ maps[p] = 0 /\ p \notin active
    <3>1. /\ Handles(p) = {} /\ p \notin named /\ maps[p] = 0
          /\ p \notin active
          /\ \A u \in Thread : th[u].obj # p
      BY <2>2 DEF CountedLive, Existing
    <3>2. {u \in Thread : Owns(u, p)} = {}
          /\ {u \in Thread : th[u].obj = p /\ th[u].pc = "unref_name"} = {}
      BY <3>1
    <3> QED
      BY <3>1, <3>2, FS_EmptySet DEF HandlesOf, Owners, Unnaming
  <2>6. Exact(q)'
    BY <2>2, <2>3, <2>4, <2>5
  <2> QED
    BY <2>6
<1>2. ASSUME NEW t \in Client, \E f \in File, h \in Handle,
             op \in LookupOps : Lookup(t, f, h, op)
      PROVE  Exact(q)'
  <2>1. PICK f \in File, h \in Handle, op \in LookupOps : Lookup(t, f, h, op)
    BY <1>2
  <2>2. /\ LookupPc(op) \in {"rlock", "hold", "unref", "name", "map"}
        /\ op # "fault"
    BY <2>1 DEF LookupOps, LookupPc
  <2> QED
    BY <2>1, <2>2 DEF Lookup, Begin, Ref
<1>3. ASSUME NEW t \in Client, \E f \in File, o \in Obj : OpenName(t, f, o)
      PROVE  Exact(q)'
  BY <1>3 DEF OpenName, Begin, Ref
<1>4. ASSUME NEW t \in Client, \E f \in File, h \in Handle : Close(t, f, h)
      PROVE  Exact(q)'
  <2>1. PICK f \in File, h \in Handle : Close(t, f, h)
    BY <1>4
  <2>2. /\ handles[f][h] \in Obj
        /\ handles' = [handles EXCEPT ![f][h] = NoObj]
        /\ th[t].pc = "idle" /\ th[t].obj = NoObj
        /\ th' = [th EXCEPT ![t] = [pc |-> "wlock", op |-> "close",
                                   obj |-> handles[f][h], file |-> f]]
        /\ UNCHANGED <<life, refs, hcount, named, maps, active>>
    BY <2>1 DEF Close, Begin
  <2>3. HandlesOf(q)' = HandlesOf(q) - (IF handles[f][h] = q THEN 1 ELSE 0)
    <3>1. Rehandled(f, h, NoObj)
      BY <2>2 DEF TypeOK, Rehandled
    <3>2. HandleTally(f, h, NoObj, q)
      BY <3>1, HandleMoves
    <3> QED
      BY <3>2 DEF HandleTally
  <2>4. Tally(t, q)
    BY <2>2
  <2>5. /\ Owners(q)' = Owners(q) + (IF handles[f][h] = q THEN 1 ELSE 0)
                       /\ Unnaming(q)' = Unnaming(q)
                       /\ Dropping(q)' = Dropping(q) + (IF handles[f][h] = q THEN 1 ELSE 0)
    BY <2>2, <2>4
  <2> QED
    BY SMTT(60), <2>2, <2>3, <2>5
<1>5. ASSUME NEW t \in Client, \E f \in File, h \in Handle : ExecLock(t, f, h)
      PROVE  Exact(q)'
  BY <1>5 DEF ExecLock, Begin, Ref
<1>6. ASSUME NEW t \in Client, \E f \in File : Exit(t, f)
      PROVE  Exact(q)'
  <2>1. PICK f \in File : Exit(t, f)
    BY <1>6
  <2>2. /\ th[t].pc = "idle" /\ th[t].obj = NoObj
        /\ th' = [th EXCEPT ![t] = [pc |-> "wlock", op |-> "exit",
                                                  obj |-> NoObj, file |-> f]]
        /\ UNCHANGED <<handles, life, refs, hcount, named, maps, active>>
    BY <2>1 DEF Exit, Begin
  <2>3. Tally(t, q)
    BY <2>2
  <2>4. /\ Owners(q)' = Owners(q) /\ Unnaming(q)' = Unnaming(q)
                       /\ Dropping(q)' = Dropping(q)
    BY <2>2, <2>3
  <2> QED
    BY <2>2, <2>4
<1>7. ASSUME NEW t \in Client, \E o \in Obj : Munmap(t, o)
      PROVE  Exact(q)'
  <2>1. PICK p \in Obj : Munmap(t, p)
    BY <1>7
  <2>2. /\ maps[p] > 0 /\ maps' = [maps EXCEPT ![p] = maps[p] - 1]
        /\ th[t].pc = "idle" /\ th[t].obj = NoObj
        /\ th' = [th EXCEPT ![t] = [pc |-> "unref", op |-> "munmap",
                                   obj |-> p, file |-> NoFile]]
        /\ UNCHANGED <<handles, life, refs, hcount, named, active>>
    <3>1. Faults(p) \in Nat /\ maps[p] > Faults(p)
      BY <2>1, <1>b DEF Munmap, Faults
    <3> QED
      BY <2>1, <3>1 DEF Munmap, Begin
  <2>3. Tally(t, q)
    BY <2>2
  <2>4. /\ Owners(q)' = Owners(q) + (IF p = q THEN 1 ELSE 0)
                       /\ Unnaming(q)' = Unnaming(q)
                       /\ Dropping(q)' = Dropping(q)
    BY <2>2, <2>3
  <2> QED
    BY <2>2, <2>4
<1>8. ASSUME NEW t \in Client, \E o \in Obj : Fault(t, o)
      PROVE  Exact(q)'
  BY <1>8 DEF Fault, Begin
<1>9. ASSUME NEW t \in Thread, Flink(t)
      PROVE  Exact(q)'
  BY <1>9 DEF Flink, NameRef, Ref, Goto
<1>10. ASSUME NEW t \in Thread, Map(t)
      PROVE  Exact(q)'
  <2>0. /\ th[t].pc = "map" /\ th[t].op = "mmap" /\ th[t].obj \in Obj
        /\ UNCHANGED <<handles, life, refs, hcount, named, active>>
    BY <1>10 DEF Map
  <2>1. CASE /\ maps' = [maps EXCEPT ![th[t].obj] = maps[th[t].obj] + 1]
             /\ th' = [th EXCEPT ![t] = Idle]
    <3>1. Tally(t, q)
      BY <2>1
    <3>2. /\ Owners(q)' = Owners(q) - (IF th[t].obj = q THEN 1 ELSE 0)
                         /\ Unnaming(q)' = Unnaming(q)
                         /\ Dropping(q)' = Dropping(q)
      BY <2>0, <2>1, <3>1
    <3> QED
      BY SMTT(60), <2>0, <2>1, <3>2
  <2>2. CASE maps' = maps /\ th' = [th EXCEPT ![t].pc = "unref"]
    <3>1. Tally(t, q)
      BY <2>2
    <3>2. /\ Owners(q)' = Owners(q)
                         /\ Unnaming(q)' = Unnaming(q)
                         /\ Dropping(q)' = Dropping(q)
      BY <2>0, <2>2, <3>1
    <3> QED
      BY <2>0, <2>2, <3>2
  <2> QED
    BY <1>10, <2>1, <2>2 DEF Map, Goto
<1>11. ASSUME NEW t \in Thread, OpenHandle(t)
      PROVE  Exact(q)'
  <2>0. /\ th[t].pc = "handle" /\ th[t].op = "open" /\ th[t].obj \in Obj
        /\ th[t].file \in File
        /\ UNCHANGED <<life, refs, named, maps, active>>
    BY <1>11 DEF OpenHandle
  <2>1. ASSUME NEW h \in Handle, handles[th[t].file][h] = NoObj,
               handles' = [handles EXCEPT ![th[t].file][h] = th[t].obj],
               hcount' = [hcount EXCEPT ![th[t].obj] = hcount[th[t].obj] + 1],
               th' = [th EXCEPT ![t] = Idle]
        PROVE  Exact(q)'
    <3>1. Tally(t, q)
      BY <2>1
    <3>2. /\ Owners(q)' = Owners(q) - (IF th[t].obj = q THEN 1 ELSE 0)
                         /\ Unnaming(q)' = Unnaming(q)
                         /\ Dropping(q)' = Dropping(q)
      BY <2>0, <2>1, <3>1
    <3>3. HandlesOf(q)' = HandlesOf(q) + (IF th[t].obj = q THEN 1 ELSE 0)
      <4>1. Rehandled(th[t].file, h, th[t].obj)
        BY <2>0, <2>1 DEF TypeOK, Rehandled
      <4>2. HandleTally(th[t].file, h, th[t].obj, q)
        BY <2>0, <4>1, HandleMoves
      <4> QED
        BY <2>1, <4>2 DEF HandleTally
    <3>4. /\ refs' = refs /\ life' = life /\ maps' = maps /\ named' = named
          /\ active' = active
          /\ hcount'[q] = hcount[q] + (IF th[t].obj = q THEN 1 ELSE 0)
      BY <2>0, <2>1
    <3> QED
      BY <3>2, <3>3, <3>4
  <2>2. CASE /\ UNCHANGED <<handles, hcount>>
             /\ th' = [th EXCEPT ![t].pc = "unref"]
    <3>1. Tally(t, q)
      BY <2>2
    <3>2. /\ Owners(q)' = Owners(q)
                         /\ Unnaming(q)' = Unnaming(q)
                         /\ Dropping(q)' = Dropping(q)
      BY <2>0, <2>2, <3>1
    <3> QED
      BY <2>0, <2>2, <3>2
  <2> QED
    BY <1>11, <2>1, <2>2 DEF OpenHandle, HandleRef, Goto
<1>12. ASSUME NEW t \in Thread, HandleUnref(t)
      PROVE  Exact(q)'
  BY <1>12 DEF HandleUnref, Goto
<1>13. ASSUME NEW t \in Thread, Unname(t)
      PROVE  Exact(q)'
  <2>1. /\ th[t].pc = "unname" /\ th[t].op # "fault" /\ th[t].obj \in Obj
        /\ named' = named \ {th[t].obj}
        /\ th' = [th EXCEPT ![t].pc = IF th[t].obj \in named THEN "unref_name"
                                     ELSE "unref"]
        /\ UNCHANGED <<handles, life, refs, hcount, maps, active>>
    BY <1>13 DEF Unname, Goto
  <2>2. Tally(t, q)
    BY <2>1
  <2>3. /\ Owners(q)' = Owners(q) /\ Dropping(q)' = Dropping(q)
        /\ Unnaming(q)' = Unnaming(q)
             + (IF th[t].obj = q /\ q \in named THEN 1 ELSE 0)
    BY <2>1, <2>2
  <2> QED
    BY SMTT(60), <2>1, <2>3
<1>14. ASSUME NEW t \in Thread, UnrefName(t)
      PROVE  Exact(q)'
  <2>0. /\ th[t].pc = "unref_name" /\ th[t].obj \in Obj /\ t \in Client
        /\ life[th[t].obj] = "live" /\ th[t].op # "fault"
        /\ UNCHANGED <<handles, life, hcount, named, maps, active>>
    BY <1>14 DEF UnrefName, Existing
  <2>1. refs[th[t].obj] >= 2
    <3>1. Owners(th[t].obj) >= 1 /\ Unnaming(th[t].obj) >= 1
      BY <2>0, Counted
    <3>2. Exact(th[t].obj) /\ Counts(th[t].obj)
      BY <2>0, <1>b
    <3> QED
      BY <2>0, <3>1, <3>2
  <2>2. /\ refs' = [refs EXCEPT ![th[t].obj] = refs[th[t].obj] - 1]
        /\ th' = [th EXCEPT ![t].pc = "unref"]
    BY <2>0, <2>1, <1>14 DEF UnrefName, Unref, Last, Goto
  <2>3. Tally(t, q)
    BY <2>2
  <2>4. /\ Owners(q)' = Owners(q) /\ Dropping(q)' = Dropping(q)
                       /\ Unnaming(q)' = Unnaming(q) - (IF th[t].obj = q THEN 1 ELSE 0)
    BY <2>0, <2>2, <2>3
  <2>5. /\ refs'[q] = refs[q] - (IF th[t].obj = q THEN 1 ELSE 0)
        /\ hcount' = hcount /\ life' = life /\ maps' = maps /\ named' = named
        /\ active' = active /\ HandlesOf(q)' = HandlesOf(q)
    BY <2>0, <2>2
  <2> QED
    BY <2>4, <2>5
<1>15. ASSUME NEW t \in Thread, \E h \in Handle : ExitHandle(t, h)
      PROVE  Exact(q)'
  <2>1. PICK h \in Handle : ExitHandle(t, h)
    BY <1>15
  <2> DEFINE p == handles[th[t].file][h]
  <2>2. /\ th[t].pc = "exit" /\ th[t].op = "exit" /\ th[t].file \in File
        /\ p \in Obj
        /\ handles' = [handles EXCEPT ![th[t].file][h] = NoObj]
        /\ th' = [th EXCEPT ![t].pc = "hunref", ![t].obj = p]
        /\ UNCHANGED <<life, refs, hcount, named, maps, active>>
    BY <2>1 DEF ExitHandle
  <2>3. HandlesOf(q)' = HandlesOf(q) - (IF p = q THEN 1 ELSE 0)
    <3>1. Rehandled(th[t].file, h, NoObj)
      BY <2>2 DEF TypeOK, Rehandled
    <3>2. HandleTally(th[t].file, h, NoObj, q)
      BY <2>2, <3>1, HandleMoves
    <3> QED
      BY <3>2 DEF HandleTally
  <2>4. Tally(t, q)
    BY <2>2
  <2> HIDE DEF p
  <2>5. /\ Owners(q)' = Owners(q) + (IF p = q THEN 1 ELSE 0)
                       /\ Unnaming(q)' = Unnaming(q)
                       /\ Dropping(q)' = Dropping(q) + (IF p = q THEN 1 ELSE 0)
    BY <2>2, <2>4
  <2>6. /\ refs' = refs /\ hcount' = hcount /\ life' = life /\ maps' = maps
        /\ named' = named /\ active' = active
    BY <2>2
  <2>7. /\ refs'[q] \in Nat /\ hcount'[q] \in Nat /\ maps'[q] \in Nat
        /\ HandlesOf(q)' + Dropping(q)' = HandlesOf(q) + Dropping(q)
        /\ HandlesOf(q)' + Owners(q)' = HandlesOf(q) + Owners(q)
    BY <2>3, <2>5, <2>6
  <2>8. HandlesOf(q)' \in Int /\ Owners(q)' \in Int /\ Dropping(q)' \in Int
    BY <2>3, <2>5
  <2> QED
    BY SMTT(60), <2>5, <2>6, <2>7, <2>8
<1>16. ASSUME NEW t \in Thread, ExitEnd(t)
      PROVE  Exact(q)'
  BY <1>16 DEF ExitEnd, Goto
<1>17. ASSUME NEW t \in Thread, ReadLock(t)
      PROVE  Exact(q)'
  BY <1>17 DEF ReadLock, Goto
<1>18. ASSUME NEW t \in Thread, WriteLock(t)
      PROVE  Exact(q)'
  BY <1>18 DEF WriteLock, Goto
<1>19. ASSUME NEW t \in Thread, Hold(t)
      PROVE  Exact(q)'
  BY <1>19 DEF Hold, Goto
<1>20. ASSUME NEW t \in Thread, Access(t)
      PROVE  Exact(q)'
  BY <1>20 DEF Access, Goto
<1>21. ASSUME NEW t \in Thread, MoveToActive(t)
      PROVE  Exact(q)'
  BY <1>21 DEF MoveToActive, Ref, Goto
<1>22. ASSUME NEW t \in Thread, Unbind(t)
      PROVE  Exact(q)'
  BY <1>22 DEF Unbind, Goto
<1>23. ASSUME NEW t \in Thread, Unhold(t)
      PROVE  Exact(q)'
  BY <1>23 DEF Unhold, Goto
<1>24. ASSUME NEW t \in Thread, UnholdUnref(t)
      PROVE  Exact(q)'
  <2>0. /\ th[t].pc = "unhold_unref" /\ th[t].obj \in Obj
        /\ life[th[t].obj] = "live" /\ th[t].op \notin {"fault", "none"}
        /\ UNCHANGED <<handles, life, hcount, named, maps, active>>
    BY <1>24 DEF UnholdUnref, Existing, HoldOps
  <2>1. CASE refs' = refs /\ th' = [th EXCEPT ![t].pc = "free"]
    <3>1. Tally(t, q)
      BY <2>1
    <3>2. /\ Owners(q)' = Owners(q)
                         /\ Unnaming(q)' = Unnaming(q)
                         /\ Dropping(q)' = Dropping(q)
      BY <2>0, <2>1, <3>1
    <3> QED
      BY <2>0, <2>1, <3>2
  <2>2. CASE /\ refs' = [refs EXCEPT ![th[t].obj] = refs[th[t].obj] - 1]
             /\ th' = [th EXCEPT ![t].pc = AfterUnref(th[t].op)]
             /\ refs[th[t].obj] >= 2
    <3>1. Tally(t, q)
      BY <2>2
    <3>2. AfterUnref(th[t].op) \in {"unlock", "exit", "scan", "done"}
      BY DEF AfterUnref
    <3>3. /\ Owners(q)' = Owners(q) - (IF th[t].obj = q THEN 1 ELSE 0)
                         /\ Unnaming(q)' = Unnaming(q)
                         /\ Dropping(q)' = Dropping(q)
      BY <2>0, <2>2, <3>1, <3>2
    <3> QED
      BY <2>0, <2>2, <3>3
  <2> QED
    BY <2>0, <1>24, <2>1, <2>2 DEF UnholdUnref, Unref, Last, Goto
<1>25. ASSUME NEW t \in Thread, DropRef(t)
      PROVE  Exact(q)'
  BY <1>25 DEF DropRef, Unref, Last, AfterUnref, Goto
<1>26. ASSUME NEW t \in Thread, Free(t)
      PROVE  Exact(q)'
  BY <1>26 DEF Free, OffList, Goto
<1>27. ASSUME NEW t \in Thread, Put(t)
      PROVE  Exact(q)'
  <2>1. /\ th[t].pc = "put" /\ th[t].obj \in Obj /\ th[t].op # "fault"
        /\ life' = [life EXCEPT ![th[t].obj] = "gone"]
        /\ refs' = [refs EXCEPT ![th[t].obj] = 0]
        /\ th' = [th EXCEPT ![t].pc = AfterUnref(th[t].op)]
        /\ UNCHANGED <<handles, hcount, named, maps, active>>
    BY <1>27 DEF Put, Goto
  <2>2. AfterUnref(th[t].op) \in {"unlock", "exit", "scan", "done"}
    BY DEF AfterUnref
  <2>3. Tally(t, q)
    BY <2>1
  <2>4. /\ Unnaming(q)' = Unnaming(q) /\ Dropping(q)' = Dropping(q)
        /\ th[t].obj # q => Owners(q)' = Owners(q)
    BY <2>1, <2>2, <2>3
  <2>5. /\ hcount' = hcount /\ maps' = maps /\ named' = named
        /\ active' = active /\ HandlesOf(q)' = HandlesOf(q)
        /\ life'[q] = "live" => /\ th[t].obj # q
                                /\ refs'[q] = refs[q] /\ life[q] = "live"
    <3>1. life \in [Obj -> {"none", "live", "gone"}]
      BY DEF TypeOK
    <3> QED
      BY <2>1, <3>1
  <2> QED
    BY <2>4, <2>5
<1>28. ASSUME NEW t \in Thread, Unlock(t)
      PROVE  Exact(q)'
  BY <1>28 DEF Unlock
<1>29. ASSUME NEW o \in Obj, Retire(o)
      PROVE  Exact(q)'
  BY <1>29 DEF Retire, Last
<1>30. ASSUME NEW o \in Obj, Grab(o)
      PROVE  Exact(q)'
  BY <1>30 DEF Grab, Ref
<1>31. CASE Evict
  BY <1>31 DEF Evict, Begin
<1>32. CASE EvictEnd
  BY <1>32 DEF EvictEnd, Goto
<1>33. CASE UNCHANGED vars
  BY <1>33 DEF vars
<1> QED
  BY <1>1, <1>2, <1>3, <1>4, <1>5, <1>6, <1>7, <1>8, <1>9, <1>10, <1>11,
     <1>12, <1>13, <1>14, <1>15, <1>16, <1>17, <1>18, <1>19, <1>20, <1>21,
     <1>22, <1>23, <1>24, <1>25, <1>26, <1>27, <1>28, <1>29, <1>30, <1>31,
     <1>32, <1>33
     DEF Next, Ioctl, Continue

\* Nobody reaches o but thread t.
Only(t, o) ==
    /\ \A f \in File, h \in Handle : handles[f][h] # o
    /\ o \notin named /\ maps[o] = 0
    /\ \A u \in Client : th[u].obj = o /\ u # t => th[u].pc \in NoRefPcs

\* The owner of the last reference is alone with the object.
LEMMA LastAlone ==
  ASSUME TypeOK, Places, FaultsMapped, RefsExact, NEW o \in Obj,
         life[o] = "live", refs[o] <= 1
  PROVE  /\ \A t \in Thread : Owns(t, o) => Only(t, o) /\ o \notin active
         /\ o \in active => Only(NoThread, o)
<1>1. Exact(o) /\ Counts(o) /\ maps[o] \in Nat /\ refs[o] \in Nat
  BY ExactIsRefsExact, CountsType DEF TypeOK
<1>2. o \in active \/ Owners(o) >= 1 =>
        HandlesOf(o) = 0 /\ o \notin named /\ maps[o] = 0 /\ Owners(o) <= 1
  BY <1>1 DEF Exact, Counts
<1>3. o \in active => Owners(o) = 0
  BY <1>1 DEF Exact, Counts
<1>4. /\ \A t \in Thread : Owns(t, o) => Owners(o) >= 1
      /\ \A t, u \in Thread : Owns(t, o) /\ Owns(u, o) /\ t # u =>
           Owners(o) >= 2
      /\ \A u \in Client : th[u].obj = o /\ th[u].op = "fault" =>
           Faults(o) >= 1
      /\ \A f \in File, h \in Handle : handles[f][h] = o => HandlesOf(o) >= 1
  BY Counted
<1>5. maps[o] = 0 => \A u \in Client : th[u].obj = o => th[u].op # "fault"
  <2>1. Faults(o) <= maps[o] /\ Faults(o) \in Nat
    BY <1>1 DEF FaultsMapped, Faults, Counts
  <2> QED
    BY <2>1, <1>4
<1>6. \A u \in Client : th[u].obj = o /\ th[u].op # "fault" /\ ~Owns(u, o) =>
        th[u].pc \in NoRefPcs
  BY DEF Owns
<1>7. ASSUME NEW t \in Thread, Owns(t, o)
      PROVE  Only(t, o) /\ o \notin active
  <2>1. Owners(o) = 1 /\ o \notin active
    BY <1>1, <1>2, <1>3, <1>4, <1>7 DEF Counts
  <2>2. \A u \in Client : u # t => ~Owns(u, o)
    BY <1>4, <1>7, <2>1
  <2> QED
    BY <1>2, <1>4, <1>5, <1>6, <2>1, <2>2 DEF Only
<1>8. CASE o \in active
  <2>1. \A u \in Client : ~Owns(u, o)
    BY <1>3, <1>4, <1>8
  <2> QED
    BY <1>2, <1>3, <1>4, <1>5, <1>6, <1>7, <1>8, <2>1 DEF Only
<1> QED
  BY <1>7, <1>8

\* What counts, by handle.
LEMMA NoHandles ==
  /\ \A o \in Obj :
       Handles(o) = {} <=> \A f \in File, h \in Handle : handles[f][h] # o
  /\ \A o \in Obj :
       Handles(o)' = {} <=> \A f \in File, h \in Handle : handles'[f][h] # o
<1>1. ASSUME NEW o
      PROVE  Handles(o) = {} <=> \A f \in File, h \in Handle :
               handles[f][h] # o
  <2>1. ASSUME Handles(o) = {}, NEW f \in File, NEW h \in Handle
        PROVE  handles[f][h] # o
    <3>1. <<f, h>> \in Handles(o) <=> handles[f][h] = o
      BY DEF Handles
    <3> QED
      BY <2>1, <3>1
  <2>2. ASSUME \A f \in File, h \in Handle : handles[f][h] # o
        PROVE  Handles(o) = {}
    BY <2>2 DEF Handles
  <2> QED
    BY <2>1, <2>2
<1>2. ASSUME NEW o
      PROVE  Handles(o)' = {} <=> \A f \in File, h \in Handle :
               handles'[f][h] # o
  <2>1. ASSUME Handles(o)' = {}, NEW f \in File, NEW h \in Handle
        PROVE  handles'[f][h] # o
    <3>1. <<f, h>> \in Handles(o)' <=> handles'[f][h] = o
      BY DEF Handles
    <3> QED
      BY <2>1, <3>1
  <2>2. ASSUME \A f \in File, h \in Handle : handles'[f][h] # o
        PROVE  Handles(o)' = {}
    BY <2>2 DEF Handles
  <2> QED
    BY <2>1, <2>2
<1> QED
  BY <1>1, <1>2

\* The types of the threads, and of the rest.
ThreadOK ==
    th \in [Thread -> [pc : Pcs, op : LifeOps, obj : Obj \cup {NoObj},
                        file : File \cup {NoFile}]]
LEMMA ThreadStep ==
  ASSUME TypeOK, Places, [Next]_vars
  PROVE  ThreadOK'
<1>0. /\ ThreadOK /\ NoObj \notin Obj
      /\ \A f \in File, h \in Handle : handles[f][h] \in Obj \cup {NoObj}
  BY GemObjectAssumption DEF TypeOK, ThreadOK
<1> USE <1>0 DEF ThreadOK, Pcs, LifeOps
<1>1. ASSUME NEW t \in Client, \E f \in File, h \in Handle,
             o \in Obj : Create(t, f, h, o)
      PROVE  ThreadOK'
  BY <1>1 DEF Create, HandleRef
<1>2. ASSUME NEW t \in Client, \E f \in File, h \in Handle,
             op \in LookupOps : Lookup(t, f, h, op)
      PROVE  ThreadOK'
  BY <1>2 DEF Lookup, LookupOps, LookupPc, Begin, Ref
<1>3. ASSUME NEW t \in Client, \E f \in File, o \in Obj : OpenName(t, f, o)
      PROVE  ThreadOK'
  BY <1>3 DEF OpenName, Begin, Ref
<1>4. ASSUME NEW t \in Client, \E f \in File, h \in Handle : Close(t, f, h)
      PROVE  ThreadOK'
  BY <1>4 DEF Close, Begin
<1>5. ASSUME NEW t \in Client, \E f \in File, h \in Handle : ExecLock(t, f, h)
      PROVE  ThreadOK'
  BY <1>5 DEF ExecLock, Begin, Ref
<1>6. ASSUME NEW t \in Client, \E f \in File : Exit(t, f)
      PROVE  ThreadOK'
  BY <1>6 DEF Exit, Begin
<1>7. ASSUME NEW t \in Client, \E o \in Obj : Munmap(t, o)
      PROVE  ThreadOK'
  BY <1>7 DEF Munmap, Begin
<1>8. ASSUME NEW t \in Client, \E o \in Obj : Fault(t, o)
      PROVE  ThreadOK'
  BY <1>8 DEF Fault, Begin
<1>9. ASSUME NEW t \in Thread, Flink(t)
      PROVE  ThreadOK'
  BY <1>9 DEF Flink, NameRef, Ref, Goto
<1>10. ASSUME NEW t \in Thread, Map(t)
      PROVE  ThreadOK'
  BY <1>10 DEF Map, Goto
<1>11. ASSUME NEW t \in Thread, OpenHandle(t)
      PROVE  ThreadOK'
  BY <1>11 DEF OpenHandle, HandleRef, Goto
<1>12. ASSUME NEW t \in Thread, HandleUnref(t)
      PROVE  ThreadOK'
  BY <1>12 DEF HandleUnref, Goto
<1>13. ASSUME NEW t \in Thread, Unname(t)
      PROVE  ThreadOK'
  BY <1>13 DEF Unname, Goto
<1>14. ASSUME NEW t \in Thread, UnrefName(t)
      PROVE  ThreadOK'
  BY <1>14 DEF UnrefName, Unref, Last, Goto
<1>15. ASSUME NEW t \in Thread, \E h \in Handle : ExitHandle(t, h)
      PROVE  ThreadOK'
  BY <1>15 DEF ExitHandle
<1>16. ASSUME NEW t \in Thread, ExitEnd(t)
      PROVE  ThreadOK'
  BY <1>16 DEF ExitEnd, Goto
<1>17. ASSUME NEW t \in Thread, ReadLock(t)
      PROVE  ThreadOK'
  BY <1>17 DEF ReadLock, Goto
<1>18. ASSUME NEW t \in Thread, WriteLock(t)
      PROVE  ThreadOK'
  BY <1>18 DEF WriteLock, Goto
<1>19. ASSUME NEW t \in Thread, Hold(t)
      PROVE  ThreadOK'
  BY <1>19 DEF Hold, Goto
<1>20. ASSUME NEW t \in Thread, Access(t)
      PROVE  ThreadOK'
  BY <1>20 DEF Access, Goto
<1>21. ASSUME NEW t \in Thread, MoveToActive(t)
      PROVE  ThreadOK'
  BY <1>21 DEF MoveToActive, Ref, Goto
<1>22. ASSUME NEW t \in Thread, Unbind(t)
      PROVE  ThreadOK'
  BY <1>22 DEF Unbind, Goto
<1>23. ASSUME NEW t \in Thread, Unhold(t)
      PROVE  ThreadOK'
  BY <1>23 DEF Unhold, Goto
<1>24. ASSUME NEW t \in Thread, UnholdUnref(t)
      PROVE  ThreadOK'
  BY <1>24 DEF UnholdUnref, Unref, Last, AfterUnref, Goto
<1>25. ASSUME NEW t \in Thread, DropRef(t)
      PROVE  ThreadOK'
  BY <1>25 DEF DropRef, Unref, Last, AfterUnref, Goto
<1>26. ASSUME NEW t \in Thread, Free(t)
      PROVE  ThreadOK'
  BY <1>26 DEF Free, OffList, Goto
<1>27. ASSUME NEW t \in Thread, Put(t)
      PROVE  ThreadOK'
  BY <1>27 DEF Put, AfterUnref, Goto
<1>28. ASSUME NEW t \in Thread, Unlock(t)
      PROVE  ThreadOK'
  BY <1>28 DEF Unlock
<1>29. ASSUME NEW o \in Obj, Retire(o)
      PROVE  ThreadOK'
  BY <1>29 DEF Retire, Last
<1>30. ASSUME NEW o \in Obj, Grab(o)
      PROVE  ThreadOK'
  <2>1. th[Worker] \in [pc : Pcs, op : LifeOps, obj : Obj \cup {NoObj},
                        file : File \cup {NoFile}]
    OBVIOUS
  <2>2. [th[Worker] EXCEPT !.pc = "hold", !.obj = o]
          \in [pc : Pcs, op : LifeOps, obj : Obj \cup {NoObj},
              file : File \cup {NoFile}]
    BY <2>1
  <2>3. th' = [th EXCEPT ![Worker] = [th[Worker] EXCEPT !.pc = "hold", !.obj = o]]
    BY <1>30 DEF Grab
  <2> QED
    BY <2>2, <2>3
<1>31. CASE Evict
  BY <1>31 DEF Evict, Begin
<1>32. CASE EvictEnd
  BY <1>32 DEF EvictEnd, Goto
<1>33. CASE UNCHANGED vars
  BY <1>33 DEF vars
<1> QED
  BY <1>1, <1>2, <1>3, <1>4, <1>5, <1>6, <1>7, <1>8, <1>9, <1>10, <1>11,
     <1>12, <1>13, <1>14, <1>15, <1>16, <1>17, <1>18, <1>19, <1>20, <1>21,
     <1>22, <1>23, <1>24, <1>25, <1>26, <1>27, <1>28, <1>29, <1>30, <1>31,
     <1>32, <1>33
     DEF Next, Ioctl, Continue

\* The types of the rest.
DataOK ==
    /\ life \in [Obj -> {"none", "live", "gone"}]
    /\ refs \in [Obj -> Nat] /\ hcount \in [Obj -> Nat]
    /\ maps \in [Obj -> Nat]
    /\ handles \in [File -> [Handle -> Obj \cup {NoObj}]]
    /\ named \subseteq Obj /\ active \subseteq Obj /\ inactive \subseteq Obj
    /\ held \in [Obj -> Thread \cup {NoThread}]
    /\ drmW \in Thread \cup {NoThread} /\ drmR \subseteq Thread
LEMMA DataStep ==
  ASSUME TypeOK, Places, RefsExact, [Next]_vars
  PROVE  DataOK'
<1>0. \A o \in Obj : Exact(o) /\ Counts(o)
  BY ExactIsRefsExact, CountsType
<1>obj. \A t \in Thread : th[t].pc \notin NoRefPcs \cup {"wlock"} =>
          th[t].obj \in Obj
  BY DEF Places
<1>a. DataOK /\ Worker \notin Client
  BY GemObjectAssumption DEF TypeOK, DataOK
<1> USE <1>a, <1>obj DEF DataOK, NoRefPcs
<1>1. ASSUME NEW t \in Client, \E f \in File, h \in Handle,
             o \in Obj : Create(t, f, h, o)
      PROVE  DataOK'
  BY <1>1 DEF Create, HandleRef
<1>2. ASSUME NEW t \in Client, \E f \in File, h \in Handle,
             op \in LookupOps : Lookup(t, f, h, op)
      PROVE  DataOK'
  BY <1>2 DEF Lookup, LookupOps, LookupPc, Begin, Ref
<1>3. ASSUME NEW t \in Client, \E f \in File, o \in Obj : OpenName(t, f, o)
      PROVE  DataOK'
  BY <1>3 DEF OpenName, Begin, Ref
<1>4. ASSUME NEW t \in Client, \E f \in File, h \in Handle : Close(t, f, h)
      PROVE  DataOK'
  BY <1>4 DEF Close, Begin
<1>5. ASSUME NEW t \in Client, \E f \in File, h \in Handle : ExecLock(t, f, h)
      PROVE  DataOK'
  BY <1>5 DEF ExecLock, Begin, Ref
<1>6. ASSUME NEW t \in Client, \E f \in File : Exit(t, f)
      PROVE  DataOK'
  BY <1>6 DEF Exit, Begin
<1>7. ASSUME NEW t \in Client, \E o \in Obj : Munmap(t, o)
      PROVE  DataOK'
  <2>1. PICK p \in Obj : Munmap(t, p)
    BY <1>7
  <2>2. maps[p] # 0
    <3>1. Cardinality(Faulting(p)) \in Nat
      BY <1>0 DEF Counts, Faults
    <3> QED
      BY <2>1, <3>1 DEF Munmap
  <2>3. maps' \in [Obj -> Nat]
    <3>1. maps[p] \in Nat /\ maps[p] - 1 \in Nat
      BY <2>2
    <3>2. maps' = [maps EXCEPT ![p] = maps[p] - 1]
      BY <2>1 DEF Munmap
    <3> QED
      BY <3>1, <3>2
  <2> QED
    BY <2>1, <2>3 DEF Munmap
<1>8. ASSUME NEW t \in Client, \E o \in Obj : Fault(t, o)
      PROVE  DataOK'
  BY <1>8 DEF Fault, Begin
<1>9. ASSUME NEW t \in Thread, Flink(t)
      PROVE  DataOK'
  BY <1>9 DEF Flink, NameRef, Ref, Goto
<1>10. ASSUME NEW t \in Thread, Map(t)
      PROVE  DataOK'
  BY <1>10 DEF Map, Goto
<1>11. ASSUME NEW t \in Thread, OpenHandle(t)
      PROVE  DataOK'
  <2>1. th[t].obj \in Obj /\ th[t].pc = "handle"
    BY <1>11 DEF OpenHandle
  <2>2. handles' \in [File -> [Handle -> Obj \cup {NoObj}]]
    <3>1. CASE handles' = handles
      BY <3>1
    <3>2. ASSUME NEW h \in Handle,
                 handles' = [handles EXCEPT ![th[t].file][h] = th[t].obj]
          PROVE  handles' \in [File -> [Handle -> Obj \cup {NoObj}]]
      BY <2>1, <3>2
    <3> QED
      BY <1>11, <3>1, <3>2 DEF OpenHandle
  <2>3. hcount' \in [Obj -> Nat]
    BY <1>11, <2>1 DEF OpenHandle, HandleRef
  <2> QED
    BY <1>11, <2>2, <2>3 DEF OpenHandle
<1>12. ASSUME NEW t \in Thread, HandleUnref(t)
      PROVE  DataOK'
  <2>1. th[t].obj \in Obj /\ th[t].pc = "hunref"
    BY <1>12 DEF HandleUnref
  <2>2. Dropping(th[t].obj) >= 1
    BY <2>1, Counted
  <2>3. hcount[th[t].obj] >= 1
    BY <1>0, <2>1, <2>2 DEF Exact, Counts
  <2> QED
    BY <1>12, <2>1, <2>3 DEF HandleUnref, Goto
<1>13. ASSUME NEW t \in Thread, Unname(t)
      PROVE  DataOK'
  BY <1>13 DEF Unname, Goto
<1>14. ASSUME NEW t \in Thread, UnrefName(t)
      PROVE  DataOK'
  BY <1>14 DEF UnrefName, Unref, Last, Goto
<1>15. ASSUME NEW t \in Thread, \E h \in Handle : ExitHandle(t, h)
      PROVE  DataOK'
  <2>1. PICK h \in Handle : ExitHandle(t, h)
    BY <1>15
  <2>2. th[t].file \in File /\ handles[th[t].file][h] \in Obj \cup {NoObj}
    BY <2>1 DEF ExitHandle, Places
  <2>3. handles' \in [File -> [Handle -> Obj \cup {NoObj}]]
    BY <2>1, <2>2 DEF ExitHandle
  <2> QED
    BY <2>1, <2>2, <2>3 DEF ExitHandle
<1>16. ASSUME NEW t \in Thread, ExitEnd(t)
      PROVE  DataOK'
  BY <1>16 DEF ExitEnd, Goto
<1>17. ASSUME NEW t \in Thread, ReadLock(t)
      PROVE  DataOK'
  BY <1>17 DEF ReadLock, Goto
<1>18. ASSUME NEW t \in Thread, WriteLock(t)
      PROVE  DataOK'
  BY <1>18 DEF WriteLock, Goto
<1>19. ASSUME NEW t \in Thread, Hold(t)
      PROVE  DataOK'
  BY <1>19 DEF Hold, Goto
<1>20. ASSUME NEW t \in Thread, Access(t)
      PROVE  DataOK'
  BY <1>20 DEF Access, Goto
<1>21. ASSUME NEW t \in Thread, MoveToActive(t)
      PROVE  DataOK'
  BY <1>21 DEF MoveToActive, Ref, Goto
<1>22. ASSUME NEW t \in Thread, Unbind(t)
      PROVE  DataOK'
  BY <1>22 DEF Unbind, Goto
<1>23. ASSUME NEW t \in Thread, Unhold(t)
      PROVE  DataOK'
  BY <1>23 DEF Unhold, Goto
<1>24. ASSUME NEW t \in Thread, UnholdUnref(t)
      PROVE  DataOK'
  BY <1>24 DEF UnholdUnref, Unref, Last, AfterUnref, Goto
<1>25. ASSUME NEW t \in Thread, DropRef(t)
      PROVE  DataOK'
  BY <1>25 DEF DropRef, Unref, Last, AfterUnref, Goto
<1>26. ASSUME NEW t \in Thread, Free(t)
      PROVE  DataOK'
  BY <1>26 DEF Free, OffList, Goto
<1>27. ASSUME NEW t \in Thread, Put(t)
      PROVE  DataOK'
  BY <1>27 DEF Put, AfterUnref, Goto
<1>28. ASSUME NEW t \in Thread, Unlock(t)
      PROVE  DataOK'
  BY <1>28 DEF Unlock
<1>29. ASSUME NEW o \in Obj, Retire(o)
      PROVE  DataOK'
  BY <1>29 DEF Retire, Last
<1>30. ASSUME NEW o \in Obj, Grab(o)
      PROVE  DataOK'
  BY <1>30 DEF Grab, Ref
<1>31. CASE Evict
  BY <1>31 DEF Evict, Begin
<1>32. CASE EvictEnd
  BY <1>32 DEF EvictEnd, Goto
<1>33. CASE UNCHANGED vars
  BY <1>33 DEF vars
<1> QED
  BY <1>1, <1>2, <1>3, <1>4, <1>5, <1>6, <1>7, <1>8, <1>9, <1>10, <1>11,
     <1>12, <1>13, <1>14, <1>15, <1>16, <1>17, <1>18, <1>19, <1>20, <1>21,
     <1>22, <1>23, <1>24, <1>25, <1>26, <1>27, <1>28, <1>29, <1>30, <1>31,
     <1>32, <1>33
     DEF Next, Ioctl, Continue

\* Together they are the type invariant.
LEMMA TypeStep ==
  ASSUME TypeOK, Places, RefsExact, [Next]_vars
  PROVE  TypeOK'
<1>1. ThreadOK' /\ DataOK'
  BY ThreadStep, DataStep
<1> QED
  BY <1>1 DEF ThreadOK, DataOK, TypeOK

\* Whoever is at work on an object found one that exists.
LEMMA ExistingStep ==
  ASSUME TypeOK, Places, HoldExact, FaultsMapped, RefsExact, CountedLive,
     Existing, Dying, FreedUnlisted, [Next]_vars
  PROVE  Existing'
<1>live. /\ \A f \in File, h \in Handle :
              handles[f][h] # NoObj => /\ handles[f][h] \in Obj
                                       /\ life[handles[f][h]] = "live"
         /\ \A o \in Obj :
              o \in named \/ maps[o] # 0 \/ o \in active \/ o \in inactive =>
              life[o] = "live"
         /\ \A o \in Obj : maps[o] > Cardinality(Faulting(o)) => maps[o] # 0
  <2>1. \A o \in Obj : Cardinality(Faulting(o)) \in Nat
    BY CountsType DEF Counts, Faults
  <2>2. \A o \in Obj : life[o] # "live" => \A f \in File, h \in Handle :
          handles[f][h] # o
    BY NoHandles DEF CountedLive
  <2> QED
    BY <2>1, <2>2 DEF TypeOK, CountedLive, FreedUnlisted
<1>th. /\ th \in [Thread -> [pc : Pcs, op : LifeOps, obj : Obj \cup {NoObj},
                          file : File \cup {NoFile}]]
       /\ held \in [Obj -> Thread \cup {NoThread}]
       /\ life \in [Obj -> {"none", "live", "gone"}]
       /\ NoObj \notin Obj /\ Worker \notin Client
  BY GemObjectAssumption DEF TypeOK
<1> USE <1>th DEF Existing, NoRefPcs
<1>1. ASSUME NEW t \in Client, \E f \in File, h \in Handle,
             o \in Obj : Create(t, f, h, o)
      PROVE  Existing'
  BY <1>1, <1>live DEF Create, HandleRef, Places
<1>2. ASSUME NEW t \in Client, \E f \in File, h \in Handle,
             op \in LookupOps : Lookup(t, f, h, op)
      PROVE  Existing'
  <2>1. PICK f \in File, h \in Handle, op \in LookupOps : Lookup(t, f, h, op)
    BY <1>2
  <2>2. th' = [th EXCEPT ![t] = [pc |-> LookupPc(op), op |-> op,
                                 obj |-> handles[f][h], file |-> f]]
        /\ handles[f][h] # NoObj /\ life' = life
    BY <2>1 DEF Lookup, Begin
  <2> QED
    BY <2>2, <1>live
<1>3. ASSUME NEW t \in Client, \E f \in File, o \in Obj : OpenName(t, f, o)
      PROVE  Existing'
  BY <1>3, <1>live DEF OpenName, Begin, Ref, Places
<1>4. ASSUME NEW t \in Client, \E f \in File, h \in Handle : Close(t, f, h)
      PROVE  Existing'
  <2>1. PICK f \in File, h \in Handle : Close(t, f, h)
    BY <1>4
  <2> QED
    BY <2>1, <1>live DEF Close, Begin
<1>5. ASSUME NEW t \in Client, \E f \in File, h \in Handle : ExecLock(t, f, h)
      PROVE  Existing'
  <2>1. PICK f \in File, h \in Handle : ExecLock(t, f, h)
    BY <1>5
  <2> QED
    BY <2>1, <1>live DEF ExecLock, Begin
<1>6. ASSUME NEW t \in Client, \E f \in File : Exit(t, f)
      PROVE  Existing'
  BY <1>6, <1>live DEF Exit, Begin, Places
<1>7. ASSUME NEW t \in Client, \E o \in Obj : Munmap(t, o)
      PROVE  Existing'
  <2>1. PICK o \in Obj : Munmap(t, o)
    BY <1>7
  <2> QED
    BY <2>1, <1>live DEF Munmap, Begin
<1>8. ASSUME NEW t \in Client, \E o \in Obj : Fault(t, o)
      PROVE  Existing'
  <2>1. PICK o \in Obj : Fault(t, o)
    BY <1>8
  <2> QED
    BY <2>1, <1>live DEF Fault, Begin
<1>9. ASSUME NEW t \in Thread, Flink(t)
      PROVE  Existing'
  BY <1>9, <1>live DEF Flink, NameRef, Ref, Goto, Places
<1>10. ASSUME NEW t \in Thread, Map(t)
      PROVE  Existing'
  BY <1>10, <1>live DEF Map, Goto, Places
<1>11. ASSUME NEW t \in Thread, OpenHandle(t)
      PROVE  Existing'
  BY <1>11, <1>live DEF OpenHandle, HandleRef, Goto, Places
<1>12. ASSUME NEW t \in Thread, HandleUnref(t)
      PROVE  Existing'
  BY <1>12, <1>live DEF HandleUnref, Goto, Places
<1>13. ASSUME NEW t \in Thread, Unname(t)
      PROVE  Existing'
  BY <1>13, <1>live DEF Unname, Goto, Places
<1>14. ASSUME NEW t \in Thread, UnrefName(t)
      PROVE  Existing'
  BY <1>14, <1>live DEF UnrefName, Unref, Last, Goto, Places
<1>15. ASSUME NEW t \in Thread, \E h \in Handle : ExitHandle(t, h)
      PROVE  Existing'
  <2>1. PICK h \in Handle : ExitHandle(t, h)
    BY <1>15
  <2> QED
    BY <2>1, <1>live DEF ExitHandle, Places
<1>16. ASSUME NEW t \in Thread, ExitEnd(t)
      PROVE  Existing'
  BY <1>16, <1>live DEF ExitEnd, Goto, Places
<1>17. ASSUME NEW t \in Thread, ReadLock(t)
      PROVE  Existing'
  BY <1>17, <1>live DEF ReadLock, Goto, Places
<1>18. ASSUME NEW t \in Thread, WriteLock(t)
      PROVE  Existing'
  BY <1>18, <1>live DEF WriteLock, Goto, Places
<1>19. ASSUME NEW t \in Thread, Hold(t)
      PROVE  Existing'
  BY <1>19, <1>live DEF Hold, Goto, Places
<1>20. ASSUME NEW t \in Thread, Access(t)
      PROVE  Existing'
  BY <1>20, <1>live DEF Access, Goto, Places
<1>21. ASSUME NEW t \in Thread, MoveToActive(t)
      PROVE  Existing'
  BY <1>21, <1>live DEF MoveToActive, Ref, Goto, Places
<1>22. ASSUME NEW t \in Thread, Unbind(t)
      PROVE  Existing'
  BY <1>22, <1>live DEF Unbind, Goto, Places
<1>23. ASSUME NEW t \in Thread, Unhold(t)
      PROVE  Existing'
  BY <1>23, <1>live DEF Unhold, Goto, Places
<1>24. ASSUME NEW t \in Thread, UnholdUnref(t)
      PROVE  Existing'
  BY <1>24, <1>live DEF UnholdUnref, Unref, Last, AfterUnref, Goto, Places
<1>25. ASSUME NEW t \in Thread, DropRef(t)
      PROVE  Existing'
  BY <1>25, <1>live DEF DropRef, Unref, Last, AfterUnref, Goto, Places
<1>26. ASSUME NEW t \in Thread, Free(t)
      PROVE  Existing'
  BY <1>26, <1>live DEF Free, OffList, Goto, Places
<1>27. ASSUME NEW t \in Thread, Put(t)
      PROVE  Existing'
  <2>1. /\ th[t].pc = "put" /\ th[t].obj \in Obj
        /\ life' = [life EXCEPT ![th[t].obj] = "gone"]
        /\ th' = [th EXCEPT ![t].pc = AfterUnref(th[t].op)]
    BY <1>27 DEF Put, Goto, Places
  <2>2. AfterUnref(th[t].op) \in NoRefPcs
    BY DEF AfterUnref
  <2>3. \A u \in Client : u # t /\ th[u].obj = th[t].obj =>
          th[u].pc \in NoRefPcs
    BY <2>1 DEF Dying
  <2>4. /\ Worker # t /\ th[Worker].obj = th[t].obj
        /\ th[Worker].pc \notin NoRefPcs \cup {"hold"}
        => FALSE
    <3>1. th[Worker].pc \in Pcs
      OBVIOUS
    <3>2. /\ th[Worker].obj = th[t].obj
          /\ th[Worker].pc \notin NoRefPcs \cup {"hold"}
          => th[Worker].pc \in {"work", "unhold_unref", "free", "put"}
      BY <2>1, <3>1 DEF Places, HoldOps, DropOps, Pcs
    <3>3. held[th[t].obj] = t
      BY <2>1 DEF HoldExact
    <3> QED
      BY <2>1, <3>2, <3>3 DEF HoldExact
  <2> QED
    BY <2>1, <2>2, <2>3, <2>4
<1>28. ASSUME NEW t \in Thread, Unlock(t)
      PROVE  Existing'
  BY <1>28, <1>live DEF Unlock, Places
<1>29. ASSUME NEW o \in Obj, Retire(o)
      PROVE  Existing'
  BY <1>29, <1>live DEF Retire, Last, Places
<1>30. ASSUME NEW o \in Obj, Grab(o)
      PROVE  Existing'
  BY <1>30, <1>live DEF Grab, Ref, Places
<1>31. CASE Evict
  BY <1>31, <1>live DEF Evict, Begin, Places
<1>32. CASE EvictEnd
  BY <1>32, <1>live DEF EvictEnd, Goto, Places
<1>33. CASE UNCHANGED vars
  BY <1>33, <1>live DEF vars, Places
<1> QED
  BY <1>1, <1>2, <1>3, <1>4, <1>5, <1>6, <1>7, <1>8, <1>9, <1>10, <1>11,
     <1>12, <1>13, <1>14, <1>15, <1>16, <1>17, <1>18, <1>19, <1>20, <1>21,
     <1>22, <1>23, <1>24, <1>25, <1>26, <1>27, <1>28, <1>29, <1>30, <1>31,
     <1>32, <1>33
     DEF Next, Ioctl, Continue

\* A dying object stays out of reach.
LEMMA DyingStep ==
  ASSUME TypeOK, Places, HoldExact, FaultsMapped, RefsExact, CountedLive,
     Existing, Dying, FreedUnlisted, [Next]_vars
  PROVE  Dying'
<1>0. \A o \in Obj : life[o] = "live" /\ refs[o] <= 1 =>
         /\ \A t \in Thread : Owns(t, o) => Only(t, o) /\ o \notin active
         /\ o \in active => Only(NoThread, o)
  BY LastAlone
<1>th. /\ th \in [Thread -> [pc : Pcs, op : LifeOps, obj : Obj \cup {NoObj},
                          file : File \cup {NoFile}]]
       /\ handles \in [File -> [Handle -> Obj \cup {NoObj}]]
       /\ maps \in [Obj -> Nat]
       /\ NoObj \notin Obj /\ Worker \notin Client
  BY GemObjectAssumption DEF TypeOK
<1> USE <1>th DEF Dying, NoRefPcs
<1>1. ASSUME NEW t \in Client, \E f \in File, h \in Handle,
             o \in Obj : Create(t, f, h, o)
      PROVE  Dying'
  <2>1. PICK f \in File, h \in Handle, p \in Obj : Create(t, f, h, p)
    BY <1>1
  <2>2. /\ life[p] = "none" /\ handles' = [handles EXCEPT ![f][h] = p]
        /\ UNCHANGED <<th, named, maps, active, inactive>>
    BY <2>1 DEF Create
  <2>3. \A u \in Thread : th[u].pc \in {"free", "put"} => th[u].obj # p
    BY <2>2 DEF Existing
  <2>4. \A g \in File, k \in Handle : handles'[g][k] \in {handles[g][k], p}
    BY <2>2
  <2> QED
    BY <2>2, <2>3, <2>4
<1>2. ASSUME NEW t \in Client, \E f \in File, h \in Handle,
             op \in LookupOps : Lookup(t, f, h, op)
      PROVE  Dying'
  BY <1>2 DEF Lookup, LookupOps, LookupPc, Begin, Ref, Places
<1>3. ASSUME NEW t \in Client, \E f \in File, o \in Obj : OpenName(t, f, o)
      PROVE  Dying'
  BY <1>3 DEF OpenName, Begin, Ref, Places
<1>4. ASSUME NEW t \in Client, \E f \in File, h \in Handle : Close(t, f, h)
      PROVE  Dying'
  <2>1. PICK f \in File, h \in Handle : Close(t, f, h)
    BY <1>4
  <2>2. /\ handles[f][h] \in Obj
        /\ handles' = [handles EXCEPT ![f][h] = NoObj]
        /\ th' = [th EXCEPT ![t] = [pc |-> "wlock", op |-> "close",
                                   obj |-> handles[f][h], file |-> f]]
        /\ UNCHANGED <<named, maps, active, inactive>>
    BY <2>1 DEF Close, Begin
  <2>3. \A g \in File, k \in Handle :
          handles'[g][k] \in {handles[g][k], NoObj}
    BY <2>2
  <2>4. \A u \in Thread : th[u].pc \in {"free", "put"} =>
          th[u].obj # handles[f][h] /\ th[u].obj # NoObj
    BY DEF Places
  <2> QED
    BY <2>2, <2>3, <2>4
<1>5. ASSUME NEW t \in Client, \E f \in File, h \in Handle : ExecLock(t, f, h)
      PROVE  Dying'
  BY <1>5 DEF ExecLock, Begin, Ref, Places
<1>6. ASSUME NEW t \in Client, \E f \in File : Exit(t, f)
      PROVE  Dying'
  <2>1. PICK f \in File : Exit(t, f)
    BY <1>6
  <2> QED
    BY <2>1 DEF Exit, Begin, Places
<1>7. ASSUME NEW t \in Client, \E o \in Obj : Munmap(t, o)
      PROVE  Dying'
  <2>1. PICK p \in Obj : Munmap(t, p)
    BY <1>7
  <2>2. maps[p] # 0
    <3>1. Cardinality(Faulting(p)) \in Nat
      BY CountsType DEF Counts, Faults
    <3> QED
      BY <2>1, <3>1 DEF Munmap
  <2> QED
    BY <2>1, <2>2 DEF Munmap, Begin
<1>8. ASSUME NEW t \in Client, \E o \in Obj : Fault(t, o)
      PROVE  Dying'
  <2>1. PICK p \in Obj : Fault(t, p)
    BY <1>8
  <2>2. maps[p] # 0
    <3>1. Cardinality(Faulting(p)) \in Nat
      BY CountsType DEF Counts, Faults
    <3> QED
      BY <2>1, <3>1 DEF Fault
  <2> QED
    BY <2>1, <2>2 DEF Fault, Begin
<1>9. ASSUME NEW t \in Thread, Flink(t)
      PROVE  Dying'
  BY <1>9 DEF Flink, NameRef, Ref, Goto, Places
<1>10. ASSUME NEW t \in Thread, Map(t)
      PROVE  Dying'
  <2>1. /\ th[t].pc = "map" /\ th[t].obj \in Obj /\ t \in Client
        /\ UNCHANGED <<handles, named, active, inactive>>
        /\ \A o \in Obj : o # th[t].obj => maps'[o] = maps[o]
        /\ th' = [th EXCEPT ![t] = Idle] \/ th' = [th EXCEPT ![t].pc = "unref"]
    BY <1>10 DEF Map, Goto, Places
  <2>2. \A u \in Thread : th[u].pc \in {"free", "put"} =>
          th[u].obj # th[t].obj /\ th[u].obj \in Obj
    BY <2>1 DEF Places
  <2>3. th'[t].pc \notin {"free", "put"}
        /\ \A u \in Thread : u # t => th'[u] = th[u]
    BY <2>1
  <2> QED
    BY <2>1, <2>2, <2>3
<1>11. ASSUME NEW t \in Thread, OpenHandle(t)
      PROVE  Dying'
  <2>1. /\ th[t].pc = "handle" /\ th[t].obj \in Obj /\ t \in Client
        /\ th[t].file \in File
        /\ UNCHANGED <<maps, named, active, inactive>>
        /\ th' = [th EXCEPT ![t] = Idle] \/ th' = [th EXCEPT ![t].pc = "unref"]
        /\ \/ handles' = handles
           \/ \E h \in Handle :
                handles' = [handles EXCEPT ![th[t].file][h] = th[t].obj]
    BY <1>11 DEF OpenHandle, Goto, Places
  <2>0. \A f \in File, h \in Handle :
          handles'[f][h] \in {handles[f][h], th[t].obj}
    <3>1. CASE handles' = handles
      BY <3>1
    <3>2. ASSUME NEW k \in Handle,
                 handles' = [handles EXCEPT ![th[t].file][k] = th[t].obj]
          PROVE  \A f \in File, h \in Handle :
                   handles'[f][h] \in {handles[f][h], th[t].obj}
      BY <2>1, <3>2
    <3> QED
      BY <2>1, <3>1, <3>2
  <2>2. \A u \in Thread : th[u].pc \in {"free", "put"} =>
          th[u].obj # th[t].obj
    BY <2>1
  <2>3. th'[t].pc \notin {"free", "put"}
        /\ \A u \in Thread : u # t => th'[u] = th[u]
    BY <2>1
  <2>4. th'[t].obj = th[t].obj \/ th'[t].pc = "idle"
    BY <2>1
  <2>5. UNCHANGED <<maps, named, active, inactive>>
    BY <2>1
  <2>6. \A u \in Thread : th'[u].pc \in {"free", "put"} =>
          /\ u # t /\ th'[u] = th[u] /\ th[u].obj # th[t].obj
          /\ \A f \in File, h \in Handle : handles[f][h] # th[u].obj
    BY <2>2, <2>3
  <2>7. \A u \in Thread : th'[u].pc \in {"free", "put"} =>
          \A f \in File, h \in Handle : handles'[f][h] # th'[u].obj
    BY <2>0, <2>6
  <2>8. \A u \in Thread : th'[u].pc \in {"free", "put"} =>
          \A v \in Client : th'[v].obj = th'[u].obj /\ v # u =>
            th'[v].pc \in NoRefPcs
    BY <2>3, <2>4, <2>6
  <2> QED
    BY <2>5, <2>6, <2>7, <2>8
<1>12. ASSUME NEW t \in Thread, HandleUnref(t)
      PROVE  Dying'
  BY <1>12 DEF HandleUnref, Goto, Places
<1>13. ASSUME NEW t \in Thread, Unname(t)
      PROVE  Dying'
  BY <1>13 DEF Unname, Goto, Places
<1>14. ASSUME NEW t \in Thread, UnrefName(t)
      PROVE  Dying'
  <2>1. /\ th[t].pc = "unref_name" /\ th[t].obj \in Obj /\ Owns(t, th[t].obj)
        /\ life[th[t].obj] = "live"
        /\ UNCHANGED <<handles, named, maps, active, inactive>>
    BY <1>14 DEF UnrefName, Unref, Existing, Owns, Places, HoldOps, DropOps
  <2>2. CASE refs[th[t].obj] <= 1 /\ th' = [th EXCEPT ![t].pc = "free"]
    <3>1. Only(t, th[t].obj) /\ th[t].obj \notin active
      BY <2>1, <2>2, <1>0
    <3>2. /\ th'[t].pc = "free" /\ th'[t].obj = th[t].obj
          /\ \A u \in Thread : u # t => th'[u] = th[u]
      BY <2>2
    <3> QED
      BY <2>1, <3>1, <3>2 DEF Only
  <2>3. CASE \E pc \in {"unref", "unlock", "exit", "scan", "done"} :
               th' = [th EXCEPT ![t].pc = pc]
    <3>1. /\ th'[t].pc \in {"unref", "unlock", "exit", "scan", "done"}
          /\ th'[t].obj = th[t].obj
          /\ \A u \in Thread : u # t => th'[u] = th[u]
      BY <2>3
    <3> QED
      BY <2>1, <3>1
  <2> QED
    BY <1>14, <2>2, <2>3 DEF UnrefName, Unref, Last, AfterUnref, Goto
<1>15. ASSUME NEW t \in Thread, \E h \in Handle : ExitHandle(t, h)
      PROVE  Dying'
  <2>1. PICK h \in Handle : ExitHandle(t, h)
    BY <1>15
  <2>2. /\ th[t].pc = "exit" /\ th[t].file \in File
        /\ handles[th[t].file][h] \in Obj
        /\ handles' = [handles EXCEPT ![th[t].file][h] = NoObj]
        /\ th' = [th EXCEPT ![t].pc = "hunref", ![t].obj = handles[th[t].file][h]]
        /\ UNCHANGED <<maps, named, active, inactive>>
    BY <2>1 DEF ExitHandle, Places
  <2>3. \A f \in File, k \in Handle :
          handles'[f][k] \in {handles[f][k], NoObj}
    BY <2>2
  <2>4. \A u \in Thread : th[u].pc \in {"free", "put"} =>
          th[u].obj # handles[th[t].file][h] /\ th[u].obj \in Obj
    <3>1. \A u \in Thread : th[u].pc \in {"free", "put"} => th[u].obj \in Obj
      BY DEF Places
    <3> QED
      BY <2>2, <3>1
  <2>5. /\ th'[t].pc = "hunref" /\ th'[t].obj = handles[th[t].file][h]
        /\ \A u \in Thread : u # t => th'[u] = th[u]
    BY <2>2
  <2> HIDE <1>0
  <2> QED
    BY <2>2, <2>3, <2>4, <2>5
<1>16. ASSUME NEW t \in Thread, ExitEnd(t)
      PROVE  Dying'
  BY <1>16 DEF ExitEnd, Goto, Places
<1>17. ASSUME NEW t \in Thread, ReadLock(t)
      PROVE  Dying'
  BY <1>17 DEF ReadLock, Goto, Places
<1>18. ASSUME NEW t \in Thread, WriteLock(t)
      PROVE  Dying'
  BY <1>18 DEF WriteLock, Goto, Places
<1>19. ASSUME NEW t \in Thread, Hold(t)
      PROVE  Dying'
  BY <1>19 DEF Hold, Goto, Places
<1>20. ASSUME NEW t \in Thread, Access(t)
      PROVE  Dying'
  BY <1>20 DEF Access, Goto, Places
<1>21. ASSUME NEW t \in Thread, MoveToActive(t)
      PROVE  Dying'
  BY <1>21 DEF MoveToActive, Ref, Goto, Places
<1>22. ASSUME NEW t \in Thread, Unbind(t)
      PROVE  Dying'
  BY <1>22 DEF Unbind, Goto, Places
<1>23. ASSUME NEW t \in Thread, Unhold(t)
      PROVE  Dying'
  BY <1>23 DEF Unhold, Goto, Places
<1>24. ASSUME NEW t \in Thread, UnholdUnref(t)
      PROVE  Dying'
  <2>1. /\ th[t].pc = "unhold_unref" /\ th[t].obj \in Obj
        /\ Owns(t, th[t].obj)
        /\ life[th[t].obj] = "live"
        /\ UNCHANGED <<handles, named, maps, active, inactive>>
    BY <1>24 DEF UnholdUnref, Unref, Existing, Owns, Places, HoldOps, DropOps
  <2>2. CASE refs[th[t].obj] <= 1 /\ th' = [th EXCEPT ![t].pc = "free"]
    <3>1. Only(t, th[t].obj) /\ th[t].obj \notin active
      BY <2>1, <2>2, <1>0
    <3>2. /\ th'[t].pc = "free" /\ th'[t].obj = th[t].obj
          /\ \A u \in Thread : u # t => th'[u] = th[u]
      BY <2>2
    <3> QED
      BY <2>1, <3>1, <3>2 DEF Only
  <2>3. CASE \E pc \in {"unref", "unlock", "exit", "scan", "done"} :
               th' = [th EXCEPT ![t].pc = pc]
    <3>1. /\ th'[t].pc \in {"unref", "unlock", "exit", "scan", "done"}
          /\ th'[t].obj = th[t].obj
          /\ \A u \in Thread : u # t => th'[u] = th[u]
      BY <2>3
    <3> QED
      BY <2>1, <3>1
  <2> QED
    BY <1>24, <2>2, <2>3 DEF UnholdUnref, Unref, Last, AfterUnref, Goto
<1>25. ASSUME NEW t \in Thread, DropRef(t)
      PROVE  Dying'
  <2>1. /\ th[t].pc = "unref" /\ th[t].obj \in Obj /\ Owns(t, th[t].obj)
        /\ life[th[t].obj] = "live"
        /\ UNCHANGED <<handles, named, maps, active, inactive>>
    BY <1>25 DEF DropRef, Unref, Existing, Owns, Places, HoldOps, DropOps
  <2>2. CASE refs[th[t].obj] <= 1 /\ th' = [th EXCEPT ![t].pc = "free"]
    <3>1. Only(t, th[t].obj) /\ th[t].obj \notin active
      BY <2>1, <2>2, <1>0
    <3>2. /\ th'[t].pc = "free" /\ th'[t].obj = th[t].obj
          /\ \A u \in Thread : u # t => th'[u] = th[u]
      BY <2>2
    <3> QED
      BY <2>1, <3>1, <3>2 DEF Only
  <2>3. CASE \E pc \in {"unref", "unlock", "exit", "scan", "done"} :
               th' = [th EXCEPT ![t].pc = pc]
    <3>1. /\ th'[t].pc \in {"unref", "unlock", "exit", "scan", "done"}
          /\ th'[t].obj = th[t].obj
          /\ \A u \in Thread : u # t => th'[u] = th[u]
      BY <2>3
    <3> QED
      BY <2>1, <3>1
  <2> QED
    BY <1>25, <2>2, <2>3 DEF DropRef, Unref, Last, AfterUnref, Goto
<1>26. ASSUME NEW t \in Thread, Free(t)
      PROVE  Dying'
  BY <1>26 DEF Free, OffList, Goto, Places
<1>27. ASSUME NEW t \in Thread, Put(t)
      PROVE  Dying'
  BY <1>27 DEF Put, AfterUnref, Goto, Places
<1>28. ASSUME NEW t \in Thread, Unlock(t)
      PROVE  Dying'
  BY <1>28 DEF Unlock, Places
<1>29. ASSUME NEW o \in Obj, Retire(o)
      PROVE  Dying'
  <2>1. /\ th[Worker].pc = "idle" /\ o \in active /\ active' = active \ {o}
        /\ inactive' = inactive \cup {o} /\ UNCHANGED <<handles, named, maps>>
    BY <1>29 DEF Retire
  <2>2. \A u \in Thread : th[u].pc \in {"free", "put"} => th[u].obj # o
    BY <2>1
  <2>3. CASE /\ refs[o] <= 1
             /\ th' = [th EXCEPT ![Worker] = [pc |-> "free", op |-> "retire",
                                             obj |-> o, file |-> NoFile]]
    <3>1. Only(NoThread, o)
      BY <2>1, <2>3, <1>0 DEF CountedLive
    <3>2. NoThread \notin Client
      BY GemObjectAssumption
    <3>3. /\ th'[Worker].pc = "free" /\ th'[Worker].obj = o
          /\ \A u \in Thread : u # Worker => th'[u] = th[u]
      BY <2>3
    <3>4. \A u \in Client : th[u].obj = o => th[u].pc \in NoRefPcs
      BY <3>1, <3>2 DEF Only
    <3> QED
      BY <2>1, <2>2, <3>1, <3>3, <3>4 DEF Only
  <2>4. CASE th' = th
    BY <2>1, <2>2, <2>4
  <2> QED
    BY <1>29, <2>3, <2>4 DEF Retire, Last
<1>30. ASSUME NEW o \in Obj, Grab(o)
      PROVE  Dying'
  BY <1>30 DEF Grab, Ref, Places
<1>31. CASE Evict
  BY <1>31 DEF Evict, Begin, Places
<1>32. CASE EvictEnd
  BY <1>32 DEF EvictEnd, Goto, Places
<1>33. CASE UNCHANGED vars
  BY <1>33 DEF vars, Places
<1> QED
  BY <1>1, <1>2, <1>3, <1>4, <1>5, <1>6, <1>7, <1>8, <1>9, <1>10, <1>11,
     <1>12, <1>13, <1>14, <1>15, <1>16, <1>17, <1>18, <1>19, <1>20, <1>21,
     <1>22, <1>23, <1>24, <1>25, <1>26, <1>27, <1>28, <1>29, <1>30, <1>31,
     <1>32, <1>33
     DEF Next, Ioctl, Continue

\* What counts exists, and so does what is on the inactive list.
LEMMA LiveStep ==
  ASSUME TypeOK, Places, HoldExact, FaultsMapped, RefsExact, CountedLive,
     Existing, Dying, FreedUnlisted, [Next]_vars
  PROVE  CountedLive' /\ FreedUnlisted'
<1>live. /\ \A f \in File, h \in Handle :
              handles[f][h] # NoObj => /\ handles[f][h] \in Obj
                                       /\ life[handles[f][h]] = "live"
         /\ \A o \in Obj :
              o \in named \/ maps[o] # 0 \/ o \in active \/ o \in inactive =>
              life[o] = "live"
         /\ \A o \in Obj : maps[o] > Cardinality(Faulting(o)) => maps[o] # 0
  <2>1. \A o \in Obj : Cardinality(Faulting(o)) \in Nat
    BY CountsType DEF Counts, Faults
  <2>2. \A o \in Obj : life[o] # "live" => \A f \in File, h \in Handle :
          handles[f][h] # o
    BY NoHandles DEF CountedLive
  <2> QED
    BY <2>1, <2>2 DEF TypeOK, CountedLive, FreedUnlisted
<1>th. /\ th \in [Thread -> [pc : Pcs, op : LifeOps, obj : Obj \cup {NoObj},
                          file : File \cup {NoFile}]]
       /\ held \in [Obj -> Thread \cup {NoThread}]
       /\ life \in [Obj -> {"none", "live", "gone"}]
       /\ NoObj \notin Obj /\ Worker \notin Client
  BY GemObjectAssumption DEF TypeOK
<1>put. \A t \in Thread : th[t].pc = "put" =>
          LET o == th[t].obj IN
          /\ \A f \in File, h \in Handle : handles[f][h] # o
          /\ o \notin named /\ maps[o] = 0 /\ o \notin active
          /\ o \notin inactive
  BY DEF Dying
<1>work. \A t \in Thread : th[t].pc \in {"work", "name", "map", "handle"} =>
           th[t].obj \in Obj /\ life[th[t].obj] = "live"
  BY DEF Existing, Places, NoRefPcs
<1>goal. ASSUME \A f \in File, h \in Handle :
                  handles'[f][h] # NoObj => life'[handles'[f][h]] = "live",
                \A o \in Obj : \/ o \in named' \/ maps'[o] # 0
                               \/ o \in active' \/ o \in inactive'
                               => life'[o] = "live"
         PROVE  CountedLive' /\ FreedUnlisted'
  <2>1. Existing' /\ TypeOK'
    BY ExistingStep, TypeStep
  <2>2. \A o \in Obj : Handles(o)' = {} <=> \A f \in File, h \in Handle :
          handles'[f][h] # o
    BY NoHandles
  <2> QED
    BY <2>1, <2>2, <1>goal, <1>th DEF CountedLive, FreedUnlisted, Existing,
       TypeOK
<1> USE <1>th

<1>1. ASSUME NEW t \in Client, \E f \in File, h \in Handle,
             o \in Obj : Create(t, f, h, o)
      PROVE  CountedLive' /\ FreedUnlisted'
  BY <1>1, <1>live, <1>goal, <1>put, <1>work DEF Create, HandleRef
<1>2. ASSUME NEW t \in Client, \E f \in File, h \in Handle,
             op \in LookupOps : Lookup(t, f, h, op)
      PROVE  CountedLive' /\ FreedUnlisted'
  BY <1>2, <1>live, <1>goal, <1>put, <1>work DEF Lookup, LookupOps,
     LookupPc, Begin, Ref
<1>3. ASSUME NEW t \in Client, \E f \in File, o \in Obj : OpenName(t, f, o)
      PROVE  CountedLive' /\ FreedUnlisted'
  BY <1>3, <1>live, <1>goal, <1>put, <1>work DEF OpenName, Begin, Ref
<1>4. ASSUME NEW t \in Client, \E f \in File, h \in Handle : Close(t, f, h)
      PROVE  CountedLive' /\ FreedUnlisted'
  BY <1>4, <1>live, <1>goal, <1>put, <1>work DEF Close, Begin
<1>5. ASSUME NEW t \in Client, \E f \in File, h \in Handle : ExecLock(t, f, h)
      PROVE  CountedLive' /\ FreedUnlisted'
  BY <1>5, <1>live, <1>goal, <1>put, <1>work DEF ExecLock, Begin, Ref
<1>6. ASSUME NEW t \in Client, \E f \in File : Exit(t, f)
      PROVE  CountedLive' /\ FreedUnlisted'
  BY <1>6, <1>live, <1>goal, <1>put, <1>work DEF Exit, Begin
<1>7. ASSUME NEW t \in Client, \E o \in Obj : Munmap(t, o)
      PROVE  CountedLive' /\ FreedUnlisted'
  BY <1>7, <1>live, <1>goal, <1>put, <1>work DEF Munmap, Begin
<1>8. ASSUME NEW t \in Client, \E o \in Obj : Fault(t, o)
      PROVE  CountedLive' /\ FreedUnlisted'
  BY <1>8, <1>live, <1>goal, <1>put, <1>work DEF Fault, Begin
<1>9. ASSUME NEW t \in Thread, Flink(t)
      PROVE  CountedLive' /\ FreedUnlisted'
  BY <1>9, <1>live, <1>goal, <1>put, <1>work DEF Flink, NameRef, Ref, Goto
<1>10. ASSUME NEW t \in Thread, Map(t)
      PROVE  CountedLive' /\ FreedUnlisted'
  <2>1. /\ th[t].obj \in Obj /\ life[th[t].obj] = "live" /\ life' = life
        /\ \A o \in Obj : o # th[t].obj => maps'[o] = maps[o]
        /\ UNCHANGED <<handles, named, active, inactive>>
    BY <1>10, <1>work DEF Map, TypeOK
  <2> QED
    BY <2>1, <1>live, <1>goal
<1>11. ASSUME NEW t \in Thread, OpenHandle(t)
      PROVE  CountedLive' /\ FreedUnlisted'
  <2>1. /\ th[t].obj \in Obj /\ life[th[t].obj] = "live" /\ life' = life
        /\ UNCHANGED <<maps, named, active, inactive>>
    BY <1>11, <1>work DEF OpenHandle
  <2>2. \A f \in File, h \in Handle :
          handles'[f][h] \in {handles[f][h], th[t].obj}
    <3>1. CASE handles' = handles
      BY <3>1
    <3>2. ASSUME NEW k \in Handle,
                 handles' = [handles EXCEPT ![th[t].file][k] = th[t].obj]
          PROVE  \A f \in File, h \in Handle :
                   handles'[f][h] \in {handles[f][h], th[t].obj}
      BY <2>1, <3>2 DEF TypeOK
    <3> QED
      BY <1>11, <3>1, <3>2 DEF OpenHandle
  <2> QED
    BY <2>1, <2>2, <1>live, <1>goal
<1>12. ASSUME NEW t \in Thread, HandleUnref(t)
      PROVE  CountedLive' /\ FreedUnlisted'
  BY <1>12, <1>live, <1>goal, <1>put, <1>work DEF HandleUnref, Goto
<1>13. ASSUME NEW t \in Thread, Unname(t)
      PROVE  CountedLive' /\ FreedUnlisted'
  BY <1>13, <1>live, <1>goal, <1>put, <1>work DEF Unname, Goto
<1>14. ASSUME NEW t \in Thread, UnrefName(t)
      PROVE  CountedLive' /\ FreedUnlisted'
  BY <1>14, <1>live, <1>goal, <1>put, <1>work DEF UnrefName, Unref, Last, Goto
<1>15. ASSUME NEW t \in Thread, \E h \in Handle : ExitHandle(t, h)
      PROVE  CountedLive' /\ FreedUnlisted'
  BY <1>15, <1>live, <1>goal, <1>put, <1>work DEF ExitHandle
<1>16. ASSUME NEW t \in Thread, ExitEnd(t)
      PROVE  CountedLive' /\ FreedUnlisted'
  BY <1>16, <1>live, <1>goal, <1>put, <1>work DEF ExitEnd, Goto
<1>17. ASSUME NEW t \in Thread, ReadLock(t)
      PROVE  CountedLive' /\ FreedUnlisted'
  BY <1>17, <1>live, <1>goal, <1>put, <1>work DEF ReadLock, Goto
<1>18. ASSUME NEW t \in Thread, WriteLock(t)
      PROVE  CountedLive' /\ FreedUnlisted'
  BY <1>18, <1>live, <1>goal, <1>put, <1>work DEF WriteLock, Goto
<1>19. ASSUME NEW t \in Thread, Hold(t)
      PROVE  CountedLive' /\ FreedUnlisted'
  BY <1>19, <1>live, <1>goal, <1>put, <1>work DEF Hold, Goto
<1>20. ASSUME NEW t \in Thread, Access(t)
      PROVE  CountedLive' /\ FreedUnlisted'
  <2>1. /\ th[t].obj \in Obj /\ life[th[t].obj] = "live" /\ life' = life
        /\ active' = active /\ inactive' \subseteq inactive \cup {th[t].obj}
        /\ UNCHANGED nameVars
    BY <1>20, <1>work DEF Access
  <2> QED
    BY <2>1, <1>live, <1>goal
<1>21. ASSUME NEW t \in Thread, MoveToActive(t)
      PROVE  CountedLive' /\ FreedUnlisted'
  <2>1. /\ th[t].obj \in Obj /\ life[th[t].obj] = "live" /\ life' = life
        /\ active' = active \cup {th[t].obj} /\ inactive' \subseteq inactive
        /\ UNCHANGED nameVars
    BY <1>21, <1>work DEF MoveToActive
  <2> QED
    BY <2>1, <1>live, <1>goal
<1>22. ASSUME NEW t \in Thread, Unbind(t)
      PROVE  CountedLive' /\ FreedUnlisted'
  BY <1>22, <1>live, <1>goal, <1>put, <1>work DEF Unbind, Goto
<1>23. ASSUME NEW t \in Thread, Unhold(t)
      PROVE  CountedLive' /\ FreedUnlisted'
  BY <1>23, <1>live, <1>goal, <1>put, <1>work DEF Unhold, Goto
<1>24. ASSUME NEW t \in Thread, UnholdUnref(t)
      PROVE  CountedLive' /\ FreedUnlisted'
  BY <1>24, <1>live, <1>goal, <1>put, <1>work DEF UnholdUnref, Unref, Last,
     AfterUnref, Goto
<1>25. ASSUME NEW t \in Thread, DropRef(t)
      PROVE  CountedLive' /\ FreedUnlisted'
  BY <1>25, <1>live, <1>goal, <1>put, <1>work DEF DropRef, Unref, Last,
     AfterUnref, Goto
<1>26. ASSUME NEW t \in Thread, Free(t)
      PROVE  CountedLive' /\ FreedUnlisted'
  BY <1>26, <1>live, <1>goal, <1>put, <1>work DEF Free, OffList, Goto
<1>27. ASSUME NEW t \in Thread, Put(t)
      PROVE  CountedLive' /\ FreedUnlisted'
  BY <1>27, <1>live, <1>goal, <1>put, <1>work DEF Put, AfterUnref, Goto
<1>28. ASSUME NEW t \in Thread, Unlock(t)
      PROVE  CountedLive' /\ FreedUnlisted'
  BY <1>28, <1>live, <1>goal, <1>put, <1>work DEF Unlock
<1>29. ASSUME NEW o \in Obj, Retire(o)
      PROVE  CountedLive' /\ FreedUnlisted'
  BY <1>29, <1>live, <1>goal, <1>put, <1>work DEF Retire, Last
<1>30. ASSUME NEW o \in Obj, Grab(o)
      PROVE  CountedLive' /\ FreedUnlisted'
  BY <1>30, <1>live, <1>goal, <1>put, <1>work DEF Grab, Ref
<1>31. CASE Evict
  BY <1>31, <1>live, <1>goal, <1>put, <1>work DEF Evict, Begin
<1>32. CASE EvictEnd
  BY <1>32, <1>live, <1>goal, <1>put, <1>work DEF EvictEnd, Goto
<1>33. CASE UNCHANGED vars
  BY <1>33, <1>live, <1>goal, <1>put, <1>work DEF vars
<1> QED
  BY <1>1, <1>2, <1>3, <1>4, <1>5, <1>6, <1>7, <1>8, <1>9, <1>10, <1>11,
     <1>12, <1>13, <1>14, <1>15, <1>16, <1>17, <1>18, <1>19, <1>20, <1>21,
     <1>22, <1>23, <1>24, <1>25, <1>26, <1>27, <1>28, <1>29, <1>30, <1>31,
     <1>32, <1>33
     DEF Next, Ioctl, Continue

-----------------------------------------------------------------------------
(* The invariant, and what follows from it.                                *)

\* It holds at attach, before any object exists.
LEMMA InvInit == Init => ObjectInv
<1>1. SUFFICES ASSUME Init PROVE ObjectInv
  OBVIOUS
<1>2. TypeOK /\ Places
  BY <1>1, GemObjectAssumption DEF Init, TypeOK, Places, NoRefPcs, HoldOps,
     DropOps,
     Pcs, LifeOps
<1>3. HoldExact /\ Existing /\ Dying /\ FreedUnlisted
  BY <1>1, GemObjectAssumption DEF Init, HoldExact, Existing, Dying,
     FreedUnlisted,
     NoRefPcs
<1>4. \A o \in Obj : Handles(o) = {}
  <2>1. \A f \in File, h \in Handle : handles[f][h] = NoObj
    BY <1>1 DEF Init
  <2> QED
    BY <2>1, NoHandles, GemObjectAssumption
<1>5. \A o \in Obj : /\ {t \in Thread : Owns(t, o)} = {}
                     /\ {t \in Thread : th[t].obj = o /\ th[t].pc = "unref_name"} = {}
                     /\ {t \in Thread : th[t].obj = o /\
                                        th[t].pc \in {"wlock", "hunref"}} = {}
                     /\ Faulting(o) = {}
  BY <1>1 DEF Init, Owns, NoRefPcs, Faulting
<1>6. \A o \in Obj : /\ HandlesOf(o) = 0 /\ Owners(o) = 0 /\ Unnaming(o) = 0
                     /\ Dropping(o) = 0 /\ Cardinality(Faulting(o)) = 0
  BY <1>4, <1>5, FS_EmptySet DEF HandlesOf, Owners, Unnaming, Dropping
<1>7. /\ \A o \in Obj : life[o] = "none" /\ maps[o] = 0 /\ hcount[o] = 0
      /\ named = {} /\ active = {} /\ \A t \in Thread : th[t].obj = NoObj
  BY <1>1 DEF Init
<1>8. FaultsMapped
  BY <1>6, <1>7 DEF FaultsMapped
<1>9. RefsExact
  BY <1>6, <1>7, ExactIsRefsExact DEF Exact
<1>10. CountedLive
  BY <1>4, <1>7, GemObjectAssumption DEF CountedLive
<1> QED
  BY <1>2, <1>3, <1>8, <1>9, <1>10 DEF ObjectInv

\* Every step keeps it.
LEMMA InvStep == ObjectInv /\ [Next]_vars => ObjectInv'
<1>1. SUFFICES ASSUME ObjectInv, [Next]_vars PROVE ObjectInv'
  OBVIOUS
<1>2. /\ TypeOK /\ Places /\ HoldExact /\ FaultsMapped /\ RefsExact
      /\ CountedLive /\ Existing /\ Dying /\ FreedUnlisted
  BY <1>1 DEF ObjectInv
<1>3. TypeOK' /\ Places' /\ HoldExact' /\ FaultsMapped'
  BY <1>1, <1>2, TypeStep, PlacesStep, HoldStep, FaultsStep
<1>4. RefsExact'
  <2>1. \A o \in Obj : Exact(o)'
    BY <1>1, <1>2, ExactStep
  <2> QED
    BY <2>1 DEF RefsExact, HandleCountExact, Exact, One, HandlesOf, Owners,
       Unnaming, Dropping
<1>5. CountedLive' /\ FreedUnlisted' /\ Existing' /\ Dying'
  BY <1>1, <1>2, LiveStep, ExistingStep, DyingStep
<1> QED
  BY <1>3, <1>4, <1>5 DEF ObjectInv

\* So it holds in every state.
LEMMA Inv == Spec => []ObjectInv
<1> QED
  BY InvInit, InvStep, PTL DEF Spec

\* No count ever becomes negative, and every operation keeps to its types.
THEOREM TypeCorrect == Spec => []TypeOK
<1>1. ObjectInv => TypeOK
  BY DEF ObjectInv
<1> QED
  BY <1>1, Inv, PTL

\* uo_refs is the number of handles, names, mappings, active-list memberships
\* and threads with a right to the object, and handlecount the number of its
\* handles: drm_ref and drm_unref pair on every path, however threads
\* interleave.
THEOREM ReferencesExact == Spec => []RefsExact
<1>1. ObjectInv => RefsExact
  BY DEF ObjectInv
<1> QED
  BY <1>1, Inv, PTL

\* No handle, name, mapping or active-list entry outlives its object, and no
\* client works on an object that went back to the pool.
THEOREM NothingOutlives == Spec => []CountedLive
<1>1. ObjectInv => CountedLive
  BY DEF ObjectInv
<1> QED
  BY <1>1, Inv, PTL

\* i915_gem_free_object leaves no freed object on the inactive list, although
\* drm_unref takes neither list_lock nor, often, dev_lock.
THEOREM FreedLeaveTheList == Spec => []FreedUnlisted
<1>1. ObjectInv => FreedUnlisted
  BY DEF ObjectInv
<1> QED
  BY <1>1, Inv, PTL

\* Whoever drops the last reference finds nobody holding the object: the
\* sleep in drm_unref_locked is never needed.
THEOREM LastFindsNoHolder == Spec => []LastRefNotHeld
<1>1. ObjectInv => LastRefNotHeld
  <2>1. SUFFICES ASSUME ObjectInv, NEW t \in Thread,
                        th[t].pc \in {"unref", "unref_name"}, refs[th[t].obj] <= 1
                 PROVE  held[th[t].obj] = NoThread
    BY DEF LastRefNotHeld
  <2> DEFINE o == th[t].obj
  <2>2. /\ TypeOK /\ Places /\ HoldExact /\ FaultsMapped /\ RefsExact
        /\ Existing
    BY <2>1 DEF ObjectInv
  <2>3. o \in Obj /\ t \in Client /\ life[o] = "live" /\ Owns(t, o)
    BY <2>1, <2>2 DEF Places, Existing, NoRefPcs, DropOps, Owns
  <2>4. Only(t, o)
    BY <2>1, <2>2, <2>3, LastAlone
  <2>5. ASSUME NEW u \in Thread, held[o] = u
        PROVE  FALSE
    <3>1. th[u].obj = o
          /\ th[u].pc \in {"work", "unhold", "unhold_unref", "free", "put"}
      BY <2>2, <2>3, <2>5 DEF HoldExact
    <3>2. u # t /\ th[u].pc \notin NoRefPcs
      BY <2>1, <3>1 DEF NoRefPcs
    <3>3. CASE u \in Client
      BY <2>4, <3>1, <3>2, <3>3 DEF Only
    <3>4. CASE u = Worker
      <4>1. Owns(u, o)
        BY <2>2, <3>1, <3>2, <3>4 DEF Owns, Places
      <4>2. Owners(o) >= 2
        BY <2>3, <3>2, <4>1, Counted
      <4>3. Exact(o) /\ Counts(o) /\ maps[o] \in Nat /\ refs[o] \in Nat
        BY <2>2, <2>3, ExactIsRefsExact, CountsType DEF TypeOK
      <4> QED
        BY <2>1, <2>3, <4>2, <4>3 DEF Exact, Counts
    <3> QED
      BY <3>3, <3>4
  <2> QED
    BY <2>2, <2>3, <2>5 DEF TypeOK
<1> QED
  BY <1>1, Inv, PTL
=============================================================================
