---------------------------- MODULE Vblank_proofs ----------------------------
(***************************************************************************)
(* For any number of threads, files, crtcs and events: vbl_refs counts its *)
(* users exactly, a crtc that is in use interrupts, and one that is no     *)
(* longer in use has a timer to switch it off; nobody sleeps on what has   *)
(* come, no event stays behind that is due, and no room for events is lost.*)
(***************************************************************************)
EXTENDS Vblank, FiniteSetTheorems, TLAPS

\* The lists of events are finite: drm_queue_vblank_event adds one at a time.
ListsFinite == \A c \in Crtc : IsFiniteSet(pending[c])

\* vbl_enabled may be stale in one direction only: a crtc it calls enabled
\* interrupts.
EnabledIsOn == \A c \in Crtc : enabled[c] => c \in pipestat

\* A pipe interrupts that is not enabled only if a removal has left it so, and
\* the timer is running if a crtc is enabled for nobody.
Accounted == \A c \in pipestat : enabled[c] \/ c \in left
Timed == \A c \in Crtc : enabled[c] /\ refs[c] = 0 => timer

\* A thread that is in the kernel is there for a file.
HasFile == \A t \in Thread : pc[t] # "out" => file[t] # NoFile

\* An event structure is in one list at most, and a file that is not open has
\* no events to be read.
OnePlace ==
    \A c, d \in Crtc : \A e \in pending[c], g \in pending[d] :
        e.id = g.id => c = d /\ e = g
ClosedEmpty == \A f \in File \ open : ready[f] = 0
Room == OnePlace /\ ClosedEmpty /\ SpaceExact

VbInv ==
    /\ TypeOK /\ ListsFinite /\ HasFile /\ RefsExact
    /\ EnabledIsOn /\ Interrupting /\ Accounted /\ Timed
    /\ NoneOversleeps /\ EventsOnTime /\ Room

-----------------------------------------------------------------------------
\* The operators of the model.

\* Counts stay in 32 bits.
LEMMA CountType == \A n, d \in Int : Plus(n, d) \in Count
<1>1. CountMod \in Nat \ {0}
  BY VblankAssumption
<1>. QED
  BY <1>1 DEF Plus, Count

\* Taking a part of a finite set away leaves the difference of their sizes.
LEMMA TakeAway ==
    ASSUME NEW S, IsFiniteSet(S), NEW T \in SUBSET S
    PROVE  /\ IsFiniteSet(T) /\ IsFiniteSet(S \ T)
           /\ Cardinality(T) \in Nat
           /\ Cardinality(S \ T) = Cardinality(S) - Cardinality(T)
<1>1. IsFiniteSet(T) /\ IsFiniteSet(S \ T)
  BY FS_Subset
<1>2. (S \ T) \cup T = S /\ (S \ T) \cap T = {}
  OBVIOUS
<1>3. Cardinality(S) = Cardinality(S \ T) + Cardinality(T) - Cardinality({})
  BY <1>1, <1>2, FS_Union
<1>4. Cardinality(T) \in Nat /\ Cardinality(S \ T) \in Nat
  BY <1>1, FS_CardinalityType
<1>. QED
  BY <1>1, <1>3, <1>4, FS_EmptySet

\* There are finitely many threads.
LEMMA WaitingFinite ==
    \A c : IsFiniteSet(Waiting(c)) /\ Cardinality(Waiting(c)) \in Nat
<1>1. IsFiniteSet(Thread)
  BY VblankAssumption, FS_Union DEF Thread
<1>2. \A c : Waiting(c) \in SUBSET Thread
  BY DEF Waiting
<1>. QED
  BY <1>1, <1>2, FS_Subset, FS_CardinalityType

\* What a handler or a close takes from a list is a finite part of it.
LEMMA PartsFinite ==
    ASSUME ListsFinite, NEW c \in Crtc
    PROVE  /\ Cardinality(pending[c]) \in Nat
           /\ \A now : /\ Due(c, now) \in SUBSET pending[c]
                       /\ Cardinality(Due(c, now)) \in Nat
           /\ \A f : /\ Of(f, pending[c]) \in SUBSET pending[c]
                     /\ Dropped(f, c) \in Nat
<1>1. IsFiniteSet(pending[c])
  BY DEF ListsFinite
<1>2. \A now : Due(c, now) \in SUBSET pending[c]
  BY DEF Due
<1>3. \A f : Of(f, pending[c]) \in SUBSET pending[c]
  BY DEF Of
<1>. QED
  BY <1>1, <1>2, <1>3, TakeAway, FS_CardinalityType DEF Dropped

\* The locked part of drm_vblank_get and of drm_vblank_put keep the types.
LEMMA GetType ==
    ASSUME TypeOK, NEW c \in Crtc, Get(c)
    PROVE  /\ refs' \in [Crtc -> Int] /\ enabled' \in [Crtc -> BOOLEAN]
           /\ count' \in [Crtc -> Count]
           /\ pipestat' \subseteq Crtc /\ latched' \subseteq Crtc
           /\ left' \subseteq Crtc
<1>. USE DEF TypeOK
<1>1. Count \subseteq Int
  BY VblankAssumption DEF Count
<1>2. \A missed \in Count : Plus(count[c], missed) \in Count
  BY <1>1, CountType
<1>3. refs' \in [Crtc -> Int]
  BY DEF Get
<1>4. CASE FirstGet(c)
  <2>1. PICK missed \in Count : count' = [count EXCEPT ![c] = Plus(@, missed)]
    BY <1>4 DEF Get
  <2>2. count' \in [Crtc -> Count]
    BY <1>2, <2>1
  <2>3. enabled' \in [Crtc -> BOOLEAN] /\ left' \subseteq Crtc
    BY <1>4 DEF Get
  <2>4. pipestat' \subseteq Crtc /\ latched' \subseteq Crtc
    BY <1>4 DEF Get
  <2>. QED
    BY <1>3, <2>2, <2>3, <2>4
<1>5. CASE ~FirstGet(c)
  BY <1>3, <1>5 DEF Get
<1>. QED
  BY <1>4, <1>5

\* drm_wait_vblank settles the number of its request.
LEMMA Reseq ==
    ASSUME NEW r \in [crtc : Crtc, seq : Count, relative : BOOLEAN,
                      nextOnMiss : BOOLEAN, event : BOOLEAN],
           NEW seq \in Count
    PROVE  [r EXCEPT !.seq = seq, !.relative = FALSE] \in
               [crtc : Crtc, seq : Count, relative : BOOLEAN,
                nextOnMiss : BOOLEAN, event : BOOLEAN]
<1>. QED
  OBVIOUS

LEMMA PutType ==
    ASSUME TypeOK, NEW c \in Crtc, NEW n \in Nat, Put(c, n)
    PROVE  refs' \in [Crtc -> Int] /\ timer' \in BOOLEAN
<1>. QED
  BY DEF TypeOK, Put, Arm

-----------------------------------------------------------------------------
\* The type invariant.
LEMMA TypeInit == Init => TypeOK
<1>1. SUFFICES ASSUME Init PROVE TypeOK
  OBVIOUS
<1>2. 0 \in Crtc /\ 0 \in Count /\ EventSpace \in Nat /\ MaxLost \in Nat
  BY VblankAssumption DEF Crtc, Count
<1>3. handler \in [at : {"idle", "count", "read", "events"},
                  todo : SUBSET Crtc, crtc : Crtc, seq : Count]
  BY <1>1, <1>2 DEF Init, Quiet
<1>4. req \in [Thread -> [crtc : Crtc, seq : Count, relative : BOOLEAN,
                         nextOnMiss : BOOLEAN, event : BOOLEAN]]
  BY <1>1, <1>2 DEF Init, NoReq
<1>5. lost \in [Crtc -> 0..MaxLost] /\ count \in [Crtc -> Count]
  BY <1>1, <1>2 DEF Init
<1>6. pending \in [Crtc -> SUBSET [id : Event, file : File, seq : Count]]
  BY <1>1 DEF Init
<1>7. file \in [Thread -> open \cup {NoFile}]
  BY <1>1 DEF Init
<1>8. ready \in [File -> Nat] /\ space \in [File -> Nat]
  BY <1>1, <1>2 DEF Init
<1>9. refs \in [Crtc -> Int] /\ enabled \in [Crtc -> BOOLEAN]
      /\ inModeset \in [Crtc -> {"no", "flagged", "holding"}]
  BY <1>1 DEF Init
<1>. QED
  BY <1>1, <1>3, <1>4, <1>5, <1>6, <1>7, <1>8, <1>9 DEF Init, TypeOK

LEMMA TypeStep == TypeOK /\ ListsFinite /\ HasFile /\ [Next]_vars => TypeOK'
<1>1. SUFFICES ASSUME TypeOK, ListsFinite, HasFile, [Next]_vars PROVE TypeOK'
  OBVIOUS
<1>. USE DEF TypeOK, hwVars, irqVars, crtcVars, eventVars, callVars
<1>2. 0 \in Crtc /\ 0 \in Count /\ 1 \in Int /\ Count \subseteq Int
  BY VblankAssumption DEF Crtc, Count
<1>3. Quiet \in [at : {"idle", "count", "read", "events"},
                  todo : SUBSET Crtc, crtc : Crtc, seq : Count]
  BY <1>2 DEF Quiet
<1>4. NoReq \in [crtc : Crtc, seq : Count, relative : BOOLEAN,
                  nextOnMiss : BOOLEAN, event : BOOLEAN]
  BY <1>2 DEF NoReq
<1>5. ASSUME NEW c \in Crtc, Frame(c) PROVE TypeOK'
  BY <1>1, <1>5 DEF Frame
<1>6. ASSUME NEW c \in Crtc, PreModeset(c) PROVE TypeOK'
  <2>1. CASE irqEnabled /\ Get(c)
    BY <1>1, <1>6, <2>1, GetType DEF PreModeset
  <2>2. CASE ~(irqEnabled /\ Get(c))
    BY <1>1, <1>6, <2>2 DEF PreModeset
  <2>. QED
    BY <2>1, <2>2
<1>7. ASSUME NEW c \in Crtc, PostModeset(c) PROVE TypeOK'
  BY <1>1, <1>7, PutType DEF PostModeset
<1>8. ASSUME Disable PROVE TypeOK'
  BY <1>1, <1>8 DEF Disable
<1>9. ASSUME Interrupt PROVE TypeOK'
  BY <1>1, <1>3, <1>9 DEF Interrupt
<1>10. ASSUME HandleVblank PROVE TypeOK'
  <2>1. PICK c \in handler.todo : HandleVblank!2!(c)
    BY <1>10 DEF HandleVblank
  <2>2. c \in Crtc /\ Plus(count[c], 1) \in Count
    BY <1>1, <1>2, CountType
  <2>. QED
    BY <1>1, <1>10, <2>1, <2>2 DEF HandleVblank, Woken
<1>11. ASSUME ReadCount PROVE TypeOK'
  BY <1>1, <1>11 DEF ReadCount
<1>12. ASSUME HandleEvents PROVE TypeOK'
  <2>. DEFINE c == handler.crtc
              due == Due(c, handler.seq)
  <2>1. c \in Crtc /\ due \in SUBSET pending[c] /\ Cardinality(due) \in Nat
    BY <1>1, PartsFinite
  <2>2. \A f : Of(f, due) \in SUBSET pending[c]
    BY <2>1 DEF Of
  <2>3. \A f : Cardinality(Of(f, due)) \in Nat
    BY <1>1, <2>1, <2>2, TakeAway DEF ListsFinite
  <2>4. refs' \in [Crtc -> Int] /\ timer' \in BOOLEAN
    BY <1>1, <1>12, <2>1, PutType DEF HandleEvents
  <2>5. handler' \in [at : {"idle", "count", "read", "events"},
                      todo : SUBSET Crtc, crtc : Crtc, seq : Count]
    BY <1>1, <1>3, <1>12 DEF HandleEvents
  <2>6. ready' \in [File -> Nat]
    BY <1>1, <1>12, <2>3 DEF HandleEvents
  <2>7. pending' \in [Crtc -> SUBSET [id : Event, file : File, seq : Count]]
    BY <1>1, <1>12 DEF HandleEvents
  <2>8. pc' = ReadersWoken({e.file : e \in due})
    BY <1>12 DEF HandleEvents
  <2>. QED
    BY <1>1, <1>12, <2>4, <2>5, <2>6, <2>7, <2>8
       DEF HandleEvents, ReadersWoken
<1>13. ASSUME Install \/ InstallHw \/ Uninstall \/ UninstallWake \/ UninstallHw
       PROVE  TypeOK'
  BY <1>1, <1>13
     DEF Install, InstallHw, Restored, Uninstall, UninstallWake, UninstallHw,
         Woken
<1>14. ASSUME NEW t \in Asker, Ask(t) PROVE TypeOK'
  <2>1. Request \subseteq [crtc : Crtc, seq : Count, relative : BOOLEAN,
                            nextOnMiss : BOOLEAN, event : BOOLEAN]
    BY VblankAssumption
  <2>2. PICK f \in open, r \in Request :
            file' = [file EXCEPT ![t] = f] /\ req' = [req EXCEPT ![t] = r]
    BY <1>14 DEF Ask
  <2>3. req' \in [Thread -> [crtc : Crtc, seq : Count, relative : BOOLEAN,
                            nextOnMiss : BOOLEAN, event : BOOLEAN]]
    BY <1>1, <2>1, <2>2
  <2>4. file' \in [Thread -> open \cup {NoFile}]
    BY <1>1, <2>2
  <2>. QED
    BY <1>1, <1>14, <2>3, <2>4 DEF Ask, Goto
<1>15. ASSUME NEW t \in Asker, TakeRef(t) PROVE TypeOK'
  <2>1. t \in Thread /\ req[t].crtc \in Crtc
    BY <1>1 DEF Thread
  <2>. QED
    BY <1>1, <1>15, <2>1, GetType DEF TakeRef, Goto
<1>16. ASSUME NEW t \in Asker, RefuseRef(t) PROVE TypeOK'
  BY <1>1, <1>4, <1>16 DEF RefuseRef, Return, Goto
<1>17. ASSUME NEW t \in Asker, Aim(t) PROVE TypeOK'
  <2>1. t \in Thread /\ req[t].crtc \in Crtc /\ req[t].seq \in Count
    BY <1>1 DEF Thread
  <2>2. count[req[t].crtc] \in Count
    BY <1>1, <2>1
  <2>3. \A r : \A seq \in Count :
            NextIfMissed(r, count[req[t].crtc], seq) \in Count
    BY <1>2, <2>2, CountType DEF NextIfMissed
  <2>4. Plus(req[t].seq, count[req[t].crtc]) \in Count
    BY <1>2, <2>1, <2>2, CountType
  <2>5. PICK seq \in Count :
            req' = [req EXCEPT ![t].seq = seq, ![t].relative = FALSE]
    BY <1>1, <1>17, <2>1, <2>3, <2>4 DEF Aim
  <2>6. req' \in [Thread -> [crtc : Crtc, seq : Count, relative : BOOLEAN,
                            nextOnMiss : BOOLEAN, event : BOOLEAN]]
    <3>1. [req[t] EXCEPT !.seq = seq, !.relative = FALSE] \in
              [crtc : Crtc, seq : Count, relative : BOOLEAN,
               nextOnMiss : BOOLEAN, event : BOOLEAN]
      BY <1>1, <2>1, Reseq
    <3>2. req' = [req EXCEPT ![t] = [req[t] EXCEPT !.seq = seq,
                                                  !.relative = FALSE]]
      BY <1>1, <2>1, <2>5
    <3>. QED
      BY <1>1, <3>1, <3>2
  <2>7. pc' \in [Thread -> {"out", "get", "aim", "check", "sleep", "put",
                           "queue", "read_sleep", "read"}]
    BY <1>1, <1>17 DEF Aim, Goto
  <2>. QED
    BY <1>1, <1>17, <2>6, <2>7 DEF Aim
<1>18. ASSUME NEW t \in Asker, Check(t) \/ GiveUp(t) PROVE TypeOK'
  BY <1>1, <1>18 DEF Check, GiveUp, Goto
<1>19. ASSUME NEW t \in Asker, Release(t) PROVE TypeOK'
  <2>1. t \in Thread /\ req[t].crtc \in Crtc
    BY <1>1 DEF Thread
  <2>2. refs' \in [Crtc -> Int] /\ timer' \in BOOLEAN
    BY <1>1, <1>19, <2>1, PutType DEF Release
  <2>. QED
    BY <1>1, <1>4, <1>19, <2>2 DEF Release, Return, Goto
<1>20. ASSUME NEW t \in Asker, QueueFails(t) PROVE TypeOK'
  <2>1. t \in Thread /\ req[t].crtc \in Crtc /\ MaxLost \in Nat
    BY <1>1, VblankAssumption DEF Thread
  <2>2. lost' \in [Crtc -> 0..MaxLost]
    BY <1>1, <1>20, <2>1 DEF QueueFails
  <2>. QED
    BY <1>1, <1>4, <1>20, <2>2 DEF QueueFails, Return, Goto
<1>21. ASSUME NEW t \in Asker, Queue(t) PROVE TypeOK'
  <2>. DEFINE c == req[t].crtc
              f == file[t]
              new == NextIfMissed(req[t], count[c], req[t].seq)
  <2>1. t \in Thread /\ c \in Crtc /\ count[c] \in Count /\ req[t].seq \in Count
    BY <1>1 DEF Thread
  <2>2. new \in Count
    BY <1>2, <2>1, CountType DEF NextIfMissed
  <2>3. f \in File
    BY <1>1, <1>21, <2>1 DEF Queue, HasFile
  <2>4. req' \in [Thread -> [crtc : Crtc, seq : Count, relative : BOOLEAN,
                            nextOnMiss : BOOLEAN, event : BOOLEAN]]
    BY <1>1, <1>4, <1>21 DEF Queue
  <2>5. space' \in [File -> Nat]
    BY <1>1, <1>21, <2>3 DEF Queue
  <2>6. CASE DueAtOnce(count[c], new)
    <3>1. Put(c, 1) /\ UNCHANGED pending
      BY <1>21, <2>6 DEF Queue
    <3>2. refs' \in [Crtc -> Int] /\ timer' \in BOOLEAN
      BY <1>1, <2>1, <3>1, PutType
    <3>3. ready' \in [File -> Nat]
      BY <1>1, <1>21, <2>3, <2>6 DEF Queue
    <3>4. pc' \in [Thread -> {"out", "get", "aim", "check", "sleep", "put",
                             "queue", "read_sleep", "read"}]
      <4>1. ReadersWoken({f}) \in
                [Thread -> {"out", "get", "aim", "check", "sleep", "put",
                            "queue", "read_sleep", "read"}]
        BY <1>1 DEF ReadersWoken
      <4>2. pc' = [ReadersWoken({f}) EXCEPT ![t] = "out"]
        BY <1>21, <2>6 DEF Queue
      <4> QED
        BY <2>1, <4>1, <4>2
    <3>. QED
      BY <1>1, <1>21, <2>4, <2>5, <3>1, <3>2, <3>3, <3>4 DEF Queue
  <2>7. CASE ~DueAtOnce(count[c], new)
    <3>1. PICK i \in Event : pending' = [pending EXCEPT ![c] =
              @ \cup {[id |-> i, file |-> f, seq |-> new]}]
      BY <1>21, <2>7 DEF Queue
    <3>2. [id |-> i, file |-> f, seq |-> new] \in
              [id : Event, file : File, seq : Count]
      BY <2>2, <2>3
    <3>3. pending' \in [Crtc -> SUBSET [id : Event, file : File, seq : Count]]
      BY <1>1, <2>1, <3>1, <3>2
    <3>. QED
      BY <1>1, <1>21, <2>4, <2>5, <2>7, <3>3 DEF Queue
  <2>. QED
    BY <2>6, <2>7
<1>22. ASSUME NEW t \in Reader, Read(t) PROVE TypeOK'
  BY SMTT(60), <1>1, <1>4, <1>22
     DEF Read, Dequeue, SpaceBack, Return, Goto, Thread
<1>23. ASSUME NEW t \in Reader, ReadEnd(t) PROVE TypeOK'
  BY <1>1, <1>4, <1>23 DEF ReadEnd, Return, Goto, Thread
<1>24. ASSUME NEW f \in File, Open(f) PROVE TypeOK'
  BY <1>1, <1>24, VblankAssumption DEF Open
<1>25. ASSUME NEW f \in File, Close(f) PROVE TypeOK'
  <2>1. \A c \in Crtc : Dropped(f, c) \in Nat
    BY <1>1, PartsFinite
  <2>2. refs' \in [Crtc -> Int]
    BY <1>1, <1>25, <2>1 DEF Close
  <2>3. timer' \in BOOLEAN
    BY <1>1, <1>25 DEF Close
  <2>4. file' \in [Thread -> open' \cup {NoFile}]
    BY <1>1, <1>25 DEF Close
  <2>. QED
    BY <1>1, <1>25, <2>2, <2>3, <2>4 DEF Close
<1>26. CASE UNCHANGED vars
  BY <1>1, <1>26 DEF vars
<1>. QED
  BY <1>1, <1>5, <1>6, <1>7, <1>8, <1>9, <1>10, <1>11, <1>12, <1>13, <1>14,
     <1>15, <1>16, <1>17, <1>18, <1>19, <1>20, <1>21, <1>22, <1>23, <1>24,
     <1>25, <1>26 DEF Next

-----------------------------------------------------------------------------
\* The lists stay finite, and threads in the kernel keep their file.
LEMMA FrameStep ==
    TypeOK /\ ListsFinite /\ HasFile /\ [Next]_vars => ListsFinite' /\ HasFile'
<1>1. SUFFICES ASSUME TypeOK, ListsFinite, HasFile, [Next]_vars
               PROVE  ListsFinite' /\ HasFile'
  OBVIOUS
<1>. USE DEF ListsFinite, HasFile, hwVars, irqVars, crtcVars, eventVars,
            callVars
<1>2. ASSUME NEW c \in Crtc, Frame(c) \/ PreModeset(c) \/ PostModeset(c)
      PROVE  ListsFinite' /\ HasFile'
  BY <1>1, <1>2 DEF Frame, PreModeset, PostModeset
<1>3. ASSUME \/ Disable \/ Interrupt \/ ReadCount \/ Install \/ InstallHw
             \/ Uninstall \/ UninstallHw
      PROVE  ListsFinite' /\ HasFile'
  BY <1>1, <1>3
     DEF Disable, Interrupt, ReadCount, Install, InstallHw, Uninstall,
         UninstallHw
<1>4. ASSUME HandleVblank \/ UninstallWake PROVE ListsFinite' /\ HasFile'
  BY <1>1, <1>4 DEF HandleVblank, UninstallWake, Woken
<1>5. ASSUME HandleEvents PROVE ListsFinite' /\ HasFile'
  <2>. DEFINE c == handler.crtc
              due == Due(c, handler.seq)
  <2>1. c \in Crtc /\ due \in SUBSET pending[c]
    BY <1>1, PartsFinite DEF TypeOK
  <2>2. IsFiniteSet(pending[c] \ due)
    BY <1>1, <2>1, TakeAway
  <2>3. pending' = [pending EXCEPT ![c] = @ \ due]
    BY <1>5 DEF HandleEvents
  <2>4. ListsFinite'
    BY <1>1, <2>1, <2>2, <2>3 DEF TypeOK
  <2>5. pc' = ReadersWoken({e.file : e \in due}) /\ file' = file
    BY <1>5 DEF HandleEvents
  <2>6. HasFile'
    BY <1>1, <2>5 DEF ReadersWoken
  <2>. QED
    BY <2>4, <2>6
<1>6. ASSUME NEW t \in Asker, Ask(t) PROVE ListsFinite' /\ HasFile'
  BY <1>1, <1>6, VblankAssumption DEF Ask, Goto, TypeOK
<1>7. ASSUME NEW t \in Asker,
             \/ TakeRef(t) \/ RefuseRef(t) \/ Aim(t) \/ Check(t) \/ GiveUp(t)
             \/ Release(t) \/ QueueFails(t)
      PROVE  ListsFinite' /\ HasFile'
  BY <1>1, <1>7
     DEF TakeRef, RefuseRef, Aim, Check, GiveUp, Release, QueueFails, Return,
         Goto, TypeOK, Thread
<1>8. ASSUME NEW t \in Asker, Queue(t) PROVE ListsFinite' /\ HasFile'
  <2>. DEFINE c == req[t].crtc
              f == file[t]
              new == NextIfMissed(req[t], count[c], req[t].seq)
  <2>1. c \in Crtc
    BY <1>1 DEF TypeOK, Thread
  <2>2. HasFile'
    BY <1>1, <1>8 DEF Queue, ReadersWoken, TypeOK
  <2>3. CASE DueAtOnce(count[c], new)
    BY <1>1, <1>8, <2>2, <2>3 DEF Queue
  <2>4. CASE ~DueAtOnce(count[c], new)
    <3>1. PICK i \in Event : pending' = [pending EXCEPT ![c] =
              @ \cup {[id |-> i, file |-> f, seq |-> new]}]
      BY <1>8, <2>4 DEF Queue
    <3>2. IsFiniteSet(pending[c] \cup {[id |-> i, file |-> f, seq |-> new]})
      BY <1>1, <2>1, FS_AddElement
    <3>. QED
      BY <1>1, <2>1, <2>2, <3>1, <3>2 DEF TypeOK
  <2>. QED
    BY <2>3, <2>4
<1>9. ASSUME NEW t \in Reader, Read(t) \/ ReadEnd(t)
      PROVE  ListsFinite' /\ HasFile'
  BY <1>1, <1>9, VblankAssumption
     DEF Read, ReadEnd, Dequeue, Return, Goto, TypeOK, Thread
<1>10. ASSUME NEW f \in File, Open(f) PROVE ListsFinite' /\ HasFile'
  BY <1>1, <1>10 DEF Open
<1>11. ASSUME NEW f \in File, Close(f) PROVE ListsFinite' /\ HasFile'
  <2>1. \A c \in Crtc : IsFiniteSet(pending[c] \ Of(f, pending[c]))
    BY <1>1, PartsFinite, TakeAway
  <2>. QED
    BY <1>1, <1>11, <2>1 DEF Close
<1>12. CASE UNCHANGED vars
  BY <1>1, <1>12 DEF vars
<1>. QED
  BY <1>1, <1>2, <1>3, <1>4, <1>5, <1>6, <1>7, <1>8, <1>9, <1>10, <1>11, <1>12
     DEF Next

-----------------------------------------------------------------------------
\* Who waits for a crtc.
InUse(t) == pc[t] \in {"aim", "check", "sleep", "put", "queue"}

\* t is as much in WAIT_VBLANK as before, for the same crtc.
Stays(t) ==
    /\ InUse(t)' <=> InUse(t)
    /\ InUse(t) => req'[t].crtc = req[t].crtc

LEMMA AllStay ==
    ASSUME \A t \in Thread : Stays(t)
    PROVE  \A c : Waiting(c)' = Waiting(c)
<1>. QED
  BY DEF Stays, InUse, Waiting

LEMMA OneJoins ==
    ASSUME NEW t \in Thread, ~InUse(t), InUse(t)', req'[t].crtc = req[t].crtc,
           \A u \in Thread \ {t} : Stays(u)
    PROVE  \A c : Cardinality(Waiting(c))' =
                  Cardinality(Waiting(c)) + (IF req[t].crtc = c THEN 1 ELSE 0)
<1>1. SUFFICES ASSUME NEW c
               PROVE  Cardinality(Waiting(c))' = Cardinality(Waiting(c))
                          + (IF req[t].crtc = c THEN 1 ELSE 0)
  OBVIOUS
<1>2. CASE req[t].crtc = c
  <2>1. Waiting(c)' = Waiting(c) \cup {t} /\ t \notin Waiting(c)
    BY <1>2 DEF Stays, InUse, Waiting
  <2>. QED
    BY <1>2, <2>1, WaitingFinite, FS_AddElement
<1>3. CASE req[t].crtc # c
  <2>1. Waiting(c)' = Waiting(c)
    BY <1>3 DEF Stays, InUse, Waiting
  <2>. QED
    BY <1>3, <2>1, WaitingFinite
<1>. QED
  BY <1>2, <1>3

LEMMA OneLeaves ==
    ASSUME NEW t \in Thread, InUse(t), ~InUse(t)',
           \A u \in Thread \ {t} : Stays(u)
    PROVE  \A c : Cardinality(Waiting(c))' =
                  Cardinality(Waiting(c)) - (IF req[t].crtc = c THEN 1 ELSE 0)
<1>1. SUFFICES ASSUME NEW c
               PROVE  Cardinality(Waiting(c))' = Cardinality(Waiting(c))
                          - (IF req[t].crtc = c THEN 1 ELSE 0)
  OBVIOUS
<1>2. CASE req[t].crtc = c
  <2>1. Waiting(c)' = Waiting(c) \ {t} /\ t \in Waiting(c)
    BY <1>2 DEF Stays, InUse, Waiting
  <2>. QED
    BY <1>2, <2>1, WaitingFinite, FS_RemoveElement
<1>3. CASE req[t].crtc # c
  <2>1. Waiting(c)' = Waiting(c)
    BY <1>3 DEF Stays, InUse, Waiting
  <2>. QED
    BY <1>3, <2>1, WaitingFinite
<1>. QED
  BY <1>2, <1>3

-----------------------------------------------------------------------------
\* vbl_refs is exact.
LEMMA RefsInit == Init => ListsFinite /\ HasFile /\ RefsExact
<1>1. SUFFICES ASSUME Init PROVE ListsFinite /\ HasFile /\ RefsExact
  OBVIOUS
<1>2. ASSUME NEW c \in Crtc PROVE Waiting(c) = {}
  BY <1>1 DEF Init, Waiting
<1>. QED
  BY <1>1, <1>2, FS_EmptySet
     DEF Init, ListsFinite, HasFile, RefsExact, Users

LEMMA RefsStep ==
    TypeOK /\ ListsFinite /\ RefsExact /\ [Next]_vars => RefsExact'
<1>1. SUFFICES ASSUME TypeOK, ListsFinite, RefsExact, [Next]_vars
               PROVE  RefsExact'
  OBVIOUS
<1>. DEFINE Sizes(c) == /\ Cardinality(Waiting(c)) \in Nat
                        /\ Cardinality(pending[c]) \in Nat
                        /\ refs[c] \in Int /\ lost[c] \in Int
<1>2. \A c \in Crtc : Sizes(c)
  BY <1>1, WaitingFinite, PartsFinite DEF TypeOK
<1>. USE DEF hwVars, irqVars, crtcVars, eventVars, callVars
<1>3. ASSUME UNCHANGED <<refs, inModeset, lost, pending>>,
             \A t \in Thread : Stays(t)
      PROVE  RefsExact'
  BY <1>1, <1>3, AllStay DEF RefsExact, Users
<1>4. ASSUME UNCHANGED <<refs, inModeset, lost, pending, pc, req>>
      PROVE  RefsExact'
  BY <1>3, <1>4 DEF Stays, InUse
<1>5. ASSUME NEW c \in Crtc, Frame(c) PROVE RefsExact'
  BY <1>4, <1>5 DEF Frame
<1>6. ASSUME NEW c \in Crtc, PreModeset(c) PROVE RefsExact'
  <2>1. \A d : Waiting(d)' = Waiting(d)
    BY <1>6 DEF PreModeset, Waiting
  <2>2. CASE Get(c) /\ inModeset' = [inModeset EXCEPT ![c] = "holding"]
    BY <1>1, <1>2, <1>6, <2>1, <2>2
       DEF PreModeset, Get, RefsExact, Users, TypeOK
  <2>3. CASE refs' = refs /\ inModeset' = [inModeset EXCEPT ![c] = "flagged"]
    BY <1>1, <1>2, <1>6, <2>1, <2>3 DEF PreModeset, RefsExact, Users, TypeOK
  <2>. QED
    BY <1>6, <2>2, <2>3 DEF PreModeset
<1>7. ASSUME NEW c \in Crtc, PostModeset(c) PROVE RefsExact'
  <2>1. \A d : Waiting(d)' = Waiting(d)
    BY <1>7 DEF PostModeset, Waiting
  <2>. QED
    BY <1>1, <1>2, <1>7, <2>1 DEF PostModeset, Put, RefsExact, Users, TypeOK
<1>8. ASSUME \/ Disable \/ Interrupt \/ ReadCount \/ Install \/ InstallHw
             \/ Uninstall \/ UninstallHw
      PROVE  RefsExact'
  BY <1>4, <1>8
     DEF Disable, Interrupt, ReadCount, Install, InstallHw, Uninstall,
         UninstallHw
<1>9. ASSUME HandleVblank \/ UninstallWake PROVE RefsExact'
  BY <1>1, <1>3, <1>9 DEF HandleVblank, UninstallWake, Woken, Stays, InUse
<1>10. ASSUME HandleEvents PROVE RefsExact'
  <2>. DEFINE c == handler.crtc
              due == Due(c, handler.seq)
              n == Cardinality(due)
  <2>1. c \in Crtc /\ due \in SUBSET pending[c] /\ IsFiniteSet(pending[c])
    BY <1>1, PartsFinite DEF TypeOK, ListsFinite
  <2>2. n \in Nat /\ Cardinality(pending[c] \ due) = Cardinality(pending[c]) - n
    BY <2>1, TakeAway
  <2>3. pc' = ReadersWoken({e.file : e \in due}) /\ req' = req
    BY <1>10 DEF HandleEvents
  <2>4. \A d : Waiting(d)' = Waiting(d)
    BY <1>1, <2>3, AllStay DEF ReadersWoken, Stays, InUse
  <2>5. refs' = [refs EXCEPT ![c] = @ - n]
        /\ pending' = [pending EXCEPT ![c] = @ \ due]
        /\ UNCHANGED <<inModeset, lost>>
    BY <1>10 DEF HandleEvents, Put
  <2>. HIDE DEF n, due, c
  <2>. QED
    BY <1>1, <1>2, <2>1, <2>2, <2>4, <2>5 DEF RefsExact, Users, TypeOK
<1>11. ASSUME NEW t \in Asker, Ask(t) \/ RefuseRef(t) PROVE RefsExact'
  BY <1>1, <1>3, <1>11
     DEF Ask, RefuseRef, Return, Goto, Stays, InUse, TypeOK, Thread
<1>12. ASSUME NEW t \in Asker, TakeRef(t) PROVE RefsExact'
  <2>1. t \in Thread /\ req[t].crtc \in Crtc
    BY <1>1 DEF TypeOK, Thread
  <2>2. ~InUse(t) /\ InUse(t)' /\ req' = req
        /\ \A u \in Thread \ {t} : Stays(u)
    BY <1>1, <1>12, <2>1 DEF TakeRef, Goto, InUse, Stays, TypeOK
  <2>3. \A c : Cardinality(Waiting(c))' =
              Cardinality(Waiting(c)) + (IF req[t].crtc = c THEN 1 ELSE 0)
    BY <2>1, <2>2, OneJoins
  <2>4. ASSUME NEW c \in Crtc
        PROVE  refs'[c] = refs[c] + (IF req[t].crtc = c THEN 1 ELSE 0)
    BY <1>1, <1>12, <2>1 DEF TakeRef, Get, TypeOK
  <2>5. UNCHANGED <<inModeset, lost, pending>>
    BY <1>12 DEF TakeRef
  <2>. QED
    BY <1>1, <1>2, <2>3, <2>4, <2>5 DEF RefsExact, Users
<1>13. ASSUME NEW t \in Asker, Aim(t) PROVE RefsExact'
  <2>1. t \in Thread
    BY DEF Thread
  <2>2. \A u \in Thread : Stays(u)
    BY <1>1, <1>13, <2>1 DEF Aim, Goto, Stays, InUse, TypeOK
  <2>. QED
    BY <1>3, <1>13, <2>2 DEF Aim
<1>14. ASSUME NEW t \in Asker, Check(t) \/ GiveUp(t) PROVE RefsExact'
  BY <1>1, <1>3, <1>14 DEF Check, GiveUp, Goto, Stays, InUse, TypeOK, Thread
<1>15. ASSUME NEW t \in Asker, Release(t) PROVE RefsExact'
  <2>1. t \in Thread /\ req[t].crtc \in Crtc
    BY <1>1 DEF TypeOK, Thread
  <2>2. InUse(t) /\ ~InUse(t)' /\ \A u \in Thread \ {t} : Stays(u)
    BY <1>1, <1>15, <2>1 DEF Release, Return, Goto, InUse, Stays, TypeOK
  <2>3. \A c : Cardinality(Waiting(c))' =
              Cardinality(Waiting(c)) - (IF req[t].crtc = c THEN 1 ELSE 0)
    BY <2>1, <2>2, OneLeaves
  <2>4. refs' = [refs EXCEPT ![req[t].crtc] = @ - 1]
        /\ UNCHANGED <<inModeset, lost, pending>>
    BY <1>15 DEF Release, Put
  <2>5. ASSUME NEW d \in Crtc
        PROVE  refs'[d] = refs[d] - (IF req[t].crtc = d THEN 1 ELSE 0)
    BY <1>1, <2>1, <2>4 DEF TypeOK
  <2>. QED
    BY <1>1, <1>2, <2>3, <2>4, <2>5 DEF RefsExact, Users
<1>16. ASSUME NEW t \in Asker, QueueFails(t) PROVE RefsExact'
  <2>1. t \in Thread /\ req[t].crtc \in Crtc
    BY <1>1 DEF TypeOK, Thread
  <2>2. InUse(t) /\ ~InUse(t)' /\ \A u \in Thread \ {t} : Stays(u)
    BY <1>1, <1>16, <2>1 DEF QueueFails, Return, Goto, InUse, Stays, TypeOK
  <2>3. \A c : Cardinality(Waiting(c))' =
              Cardinality(Waiting(c)) - (IF req[t].crtc = c THEN 1 ELSE 0)
    BY <2>1, <2>2, OneLeaves
  <2>4. ASSUME NEW c \in Crtc
        PROVE  lost'[c] = lost[c] + (IF req[t].crtc = c THEN 1 ELSE 0)
    BY <1>1, <1>2, <1>16, <2>1 DEF QueueFails, TypeOK
  <2>5. UNCHANGED <<inModeset, refs, pending>>
    BY <1>16 DEF QueueFails
  <2>. QED
    BY <1>1, <1>2, <2>3, <2>4, <2>5 DEF RefsExact, Users
<1>17. ASSUME NEW t \in Asker, Queue(t) PROVE RefsExact'
  <2>. DEFINE c == req[t].crtc
              f == file[t]
              new == NextIfMissed(req[t], count[c], req[t].seq)
  <2>1. t \in Thread /\ c \in Crtc
    BY <1>1 DEF TypeOK, Thread
  <2>2. InUse(t) /\ ~InUse(t)' /\ \A u \in Thread \ {t} : Stays(u)
    BY <1>1, <1>17, <2>1 DEF Queue, ReadersWoken, InUse, Stays, TypeOK
  <2>3. \A d : Cardinality(Waiting(d))' =
              Cardinality(Waiting(d)) - (IF c = d THEN 1 ELSE 0)
    BY <2>1, <2>2, OneLeaves
  <2>4. CASE DueAtOnce(count[c], new)
    <3>1. refs' = [refs EXCEPT ![c] = @ - 1]
          /\ UNCHANGED <<inModeset, lost, pending>>
      BY <1>17, <2>4 DEF Queue, Put
    <3>2. ASSUME NEW d \in Crtc
          PROVE  refs'[d] = refs[d] - (IF c = d THEN 1 ELSE 0)
      BY <1>1, <2>1, <3>1 DEF TypeOK
    <3>. QED
      BY <1>1, <1>2, <2>3, <3>1, <3>2 DEF RefsExact, Users
  <2>5. CASE ~DueAtOnce(count[c], new)
    <3>1. PICK i \in Event :
            /\ \A d \in Crtc : \A e \in pending[d] : e.id # i
            /\ pending' = [pending EXCEPT ![c] =
                  @ \cup {[id |-> i, file |-> f, seq |-> new]}]
      BY <1>17, <2>5 DEF Queue
    <3>. DEFINE event == [id |-> i, file |-> f, seq |-> new]
    <3>2. event.id = i
      OBVIOUS
    <3>3. event \notin pending[c]
      BY <2>1, <3>1, <3>2
    <3>4. Cardinality(pending[c] \cup {event}) = Cardinality(pending[c]) + 1
      BY <1>1, <2>1, <3>3, FS_AddElement DEF ListsFinite
    <3>5. UNCHANGED <<refs, inModeset, lost>>
      BY <1>17, <2>5 DEF Queue
    <3>6. pending' = [pending EXCEPT ![c] = @ \cup {event}]
      BY <3>1
    <3>. HIDE DEF event
    <3>. QED
      BY <1>1, <1>2, <2>1, <2>3, <3>4, <3>5, <3>6 DEF RefsExact, Users, TypeOK
  <2>. QED
    BY <2>4, <2>5
<1>18. ASSUME NEW t \in Reader, Read(t) \/ ReadEnd(t) PROVE RefsExact'
  <2>1. t \in Thread /\ \A u \in Thread : Stays(u)
    BY <1>1, <1>18
       DEF Read, ReadEnd, Return, Goto, Stays, InUse, TypeOK, Thread
  <2>. QED
    BY <1>3, <1>18, <2>1 DEF Read, ReadEnd
<1>19. ASSUME NEW f \in File, Open(f) PROVE RefsExact'
  BY <1>4, <1>19 DEF Open
<1>20. ASSUME NEW f \in File, Close(f) PROVE RefsExact'
  <2>1. ASSUME NEW c \in Crtc
        PROVE  /\ Dropped(f, c) \in Nat
               /\ Cardinality(pending[c] \ Of(f, pending[c])) =
                      Cardinality(pending[c]) - Dropped(f, c)
    BY <1>1, PartsFinite, TakeAway DEF Dropped, ListsFinite
  <2>2. \A d : Waiting(d)' = Waiting(d)
    BY <1>20 DEF Close, Waiting
  <2>3. ASSUME NEW c \in Crtc
        PROVE  /\ refs'[c] = refs[c] - Dropped(f, c)
               /\ pending'[c] = pending[c] \ Of(f, pending[c])
               /\ UNCHANGED <<inModeset, lost>>
    BY <1>20 DEF Close
  <2>. QED
    BY <1>1, <1>2, <2>1, <2>2, <2>3 DEF RefsExact, Users
<1>21. CASE UNCHANGED vars
  BY <1>4, <1>21 DEF vars
<1>. QED
  BY <1>1, <1>5, <1>6, <1>7, <1>8, <1>9, <1>10, <1>11, <1>12, <1>13, <1>14,
     <1>15, <1>16, <1>17, <1>18, <1>19, <1>20, <1>21 DEF Next

-----------------------------------------------------------------------------
\* The switching on and off.
Switch == EnabledIsOn /\ Interrupting /\ Accounted /\ Timed

LEMMA SwitchInit == Init => Switch
<1>. QED
  BY DEF Init, Switch, EnabledIsOn, Interrupting, Accounted, Timed

LEMMA RefsNat ==
    ASSUME TypeOK, ListsFinite, RefsExact
    PROVE  \A c \in Crtc : refs[c] \in Nat
<1>1. ASSUME NEW c \in Crtc
      PROVE  /\ Cardinality(Waiting(c)) \in Nat
             /\ Cardinality(pending[c]) \in Nat
             /\ lost[c] \in Nat
  BY WaitingFinite, PartsFinite, VblankAssumption DEF TypeOK
<1>. QED
  BY <1>1 DEF RefsExact, Users

\* drm_vblank_get leaves the crtc interrupting.
LEMMA GetSwitch ==
    ASSUME TypeOK, Switch, NEW c \in Crtc, refs[c] \in Nat, Get(c),
           timer' = timer
    PROVE  Switch'
<1>1. CASE FirstGet(c)
  BY <1>1 DEF Get, Switch, EnabledIsOn, Interrupting, Accounted, Timed, TypeOK
<1>2. CASE ~FirstGet(c)
  BY <1>2
     DEF Get, FirstGet, Switch, EnabledIsOn, Interrupting, Accounted, Timed, TypeOK
<1>. QED
  BY <1>1, <1>2

\* drm_vblank_put arms the timer when it releases the last reference.
LEMMA PutSwitch ==
    ASSUME TypeOK, Switch, NEW c \in Crtc, NEW n \in Nat, Put(c, n),
           UNCHANGED <<pipestat, enabled, left>>
    PROVE  Switch'
<1>1. \A d \in Crtc : refs'[d] = refs[d] - (IF d = c THEN n ELSE 0)
  BY DEF Put, TypeOK
<1>2. EnabledIsOn' /\ Accounted'
  BY DEF Switch, EnabledIsOn, Accounted
<1>5. Interrupting'
  <2>1. ASSUME NEW d \in Crtc, refs'[d] > 0 PROVE d \in pipestat
    <3>1. refs[d] \in Int
      BY DEF TypeOK
    <3>2. refs[d] > 0
      BY <1>1, <2>1, <3>1
    <3>. QED
      BY <3>2 DEF Switch, Interrupting
  <2>. QED
    BY <2>1 DEF Interrupting
<1>3. timer \/ (n > 0 /\ refs[c] = n) => timer'
  BY DEF Put, Arm, TypeOK
<1>4. ASSUME NEW d \in Crtc, enabled[d], refs'[d] = 0 PROVE timer'
  <2>1. CASE refs[d] = 0
    BY <1>3, <1>4, <2>1 DEF Switch, Timed
  <2>2. CASE refs[d] # 0
    <3>1. refs[d] \in Int
      BY DEF TypeOK
    <3>2. d = c /\ refs[c] = n /\ n > 0
      BY <1>1, <1>4, <2>2, <3>1
    <3>. QED
      BY <1>3, <3>2
  <2>. QED
    BY <2>1, <2>2
<1>. QED
  BY <1>2, <1>4, <1>5 DEF Switch, Timed

LEMMA SwitchStep ==
    TypeOK /\ ListsFinite /\ RefsExact /\ Switch /\ [Next]_vars => Switch'
<1>1. SUFFICES ASSUME TypeOK, ListsFinite, RefsExact, Switch, [Next]_vars
               PROVE  Switch'
  OBVIOUS
<1>2. \A c \in Crtc : refs[c] \in Nat
  BY <1>1, RefsNat
<1>. USE DEF hwVars, irqVars, crtcVars, eventVars, callVars
<1>3. ASSUME UNCHANGED <<pipestat, refs, enabled, left, timer>> PROVE Switch'
  BY <1>1, <1>3 DEF Switch, EnabledIsOn, Interrupting, Accounted, Timed
<1>4. ASSUME NEW c \in Crtc, Frame(c) PROVE Switch'
  BY <1>3, <1>4 DEF Frame
<1>5. ASSUME NEW c \in Crtc, PreModeset(c) PROVE Switch'
  <2>1. CASE Get(c)
    BY <1>1, <1>2, <1>5, <2>1, GetSwitch DEF PreModeset
  <2>2. CASE ~Get(c)
    BY <1>3, <1>5, <2>2 DEF PreModeset
  <2>. QED
    BY <2>1, <2>2
<1>6. ASSUME NEW c \in Crtc, PostModeset(c) PROVE Switch'
  BY <1>1, <1>6, PutSwitch DEF PostModeset
<1>7. ASSUME Disable PROVE Switch'
  <2>1. ASSUME NEW c \in Crtc, enabled'[c] PROVE c \in pipestat' /\ refs[c] # 0
    <3>1. enabled[c] /\ ~Unused(c)
      BY <1>7, <2>1 DEF Disable
    <3>. QED
      BY <1>1, <1>7, <3>1 DEF Disable, Unused, Switch, EnabledIsOn
  <2>2. Interrupting'
    BY <1>1, <1>2, <1>7 DEF Disable, Unused, Switch, Interrupting
  <2>3. refs' = refs
    BY <1>7 DEF Disable
  <2>4. Accounted'
    <3>1. ASSUME NEW c \in pipestat' PROVE enabled'[c] \/ c \in left'
      <4>1. c \in pipestat /\ ~Unused(c) /\ left' = left /\ c \in Crtc
        BY <1>1, <1>7, <3>1 DEF Disable, TypeOK
      <4>2. enabled'[c] = (enabled[c] /\ ~Unused(c))
        BY <1>7, <4>1 DEF Disable
      <4>. QED
        BY <1>1, <4>1, <4>2 DEF Switch, Accounted
    <3>. QED
      BY <3>1 DEF Accounted
  <2>. QED
    BY <2>1, <2>2, <2>3, <2>4 DEF Switch, EnabledIsOn, Timed
<1>8. ASSUME Interrupt \/ HandleVblank \/ ReadCount PROVE Switch'
  BY <1>3, <1>8 DEF Interrupt, HandleVblank, ReadCount
<1>9. ASSUME HandleEvents PROVE Switch'
  <2>1. /\ handler.crtc \in Crtc
        /\ Cardinality(Due(handler.crtc, handler.seq)) \in Nat
    BY <1>1, PartsFinite DEF TypeOK
  <2>. QED
    BY <1>1, <1>9, <2>1, PutSwitch DEF HandleEvents
<1>10. ASSUME Install \/ InstallHw \/ Uninstall \/ UninstallHw PROVE Switch'
  BY <1>3, <1>10 DEF Install, InstallHw, Restored, Uninstall, UninstallHw
<1>11. ASSUME UninstallWake PROVE Switch'
  <2>1. \A c \in Crtc : ~enabled'[c]
    BY <1>11 DEF UninstallWake
  <2>2. UNCHANGED <<pipestat, refs>> /\ pipestat \subseteq Crtc
    BY <1>1, <1>11 DEF UninstallWake, TypeOK
  <2>3. left' = left \cup {c \in Crtc : enabled[c]}
    BY <1>11 DEF UninstallWake
  <2>4. Accounted'
    BY <1>1, <2>2, <2>3 DEF Switch, Accounted
  <2>. QED
    BY <1>1, <2>1, <2>2, <2>4
       DEF Switch, EnabledIsOn, Interrupting, Timed
<1>12. ASSUME NEW t \in Asker,
              \/ Ask(t) \/ RefuseRef(t) \/ Aim(t) \/ Check(t) \/ GiveUp(t)
              \/ QueueFails(t)
       PROVE  Switch'
  BY <1>3, <1>12 DEF Ask, RefuseRef, Aim, Check, GiveUp, QueueFails
<1>13. ASSUME NEW t \in Asker, TakeRef(t) PROVE Switch'
  <2>1. req[t].crtc \in Crtc
    BY <1>1 DEF TypeOK, Thread
  <2>. QED
    BY <1>1, <1>2, <1>13, <2>1, GetSwitch DEF TakeRef
<1>14. ASSUME NEW t \in Asker, Release(t) \/ Queue(t) PROVE Switch'
  <2>1. req[t].crtc \in Crtc
    BY <1>1 DEF TypeOK, Thread
  <2>2. CASE Put(req[t].crtc, 1)
    BY <1>1, <1>14, <2>1, <2>2, PutSwitch DEF Release, Queue
  <2>3. CASE ~Put(req[t].crtc, 1)
    BY <1>3, <1>14, <2>3 DEF Release, Queue
  <2>. QED
    BY <2>2, <2>3
<1>15. ASSUME NEW t \in Reader, Read(t) \/ ReadEnd(t) PROVE Switch'
  BY <1>3, <1>15 DEF Read, ReadEnd
<1>16. ASSUME NEW f \in File, Open(f) PROVE Switch'
  BY <1>3, <1>16 DEF Open
<1>17. ASSUME NEW f \in File, Close(f) PROVE Switch'
  <2>1. \A c \in Crtc : Dropped(f, c) \in Nat
    BY <1>1, PartsFinite
  <2>2. \A c \in Crtc : refs'[c] = refs[c] - Dropped(f, c)
    BY <1>17 DEF Close
  <2>3. EnabledIsOn' /\ Interrupting' /\ Accounted'
    BY <1>1, <1>2, <1>17, <2>1, <2>2
       DEF Close, Switch, EnabledIsOn, Interrupting, Accounted
  <2>4. timer \/ (\E d \in Crtc : Arm(d, Dropped(f, d))) => timer'
    BY <1>1, <1>17 DEF Close, TypeOK
  <2>5. ASSUME NEW c \in Crtc, enabled'[c], refs'[c] = 0 PROVE timer'
    <3>1. CASE Dropped(f, c) = 0
      <4>1. refs[c] = 0 /\ enabled[c]
        BY <1>2, <1>17, <2>2, <2>5, <3>1 DEF Close
      <4>. QED
        BY <1>1, <2>4, <4>1 DEF Switch, Timed
    <3>2. CASE Dropped(f, c) > 0
      <4>1. refs[c] = Dropped(f, c)
        BY <1>2, <2>1, <2>2, <2>5
      <4>. QED
        BY <2>4, <3>2, <4>1 DEF Arm
    <3>. QED
      BY <2>1, <3>1, <3>2
  <2>. QED
    BY <2>3, <2>5 DEF Switch, Timed
<1>18. CASE UNCHANGED vars
  BY <1>3, <1>18 DEF vars
<1>. QED
  BY <1>1, <1>4, <1>5, <1>6, <1>7, <1>8, <1>9, <1>10, <1>11, <1>12, <1>13,
     <1>14, <1>15, <1>16, <1>17, <1>18 DEF Next

-----------------------------------------------------------------------------
\* Nobody waits for a crtc without a reference.
LEMMA Unreferenced ==
    ASSUME TypeOK, ListsFinite, RefsExact, NEW c \in Crtc, refs[c] = 0
    PROVE  Waiting(c) = {} /\ pending[c] = {}
<1>1. /\ Cardinality(Waiting(c)) \in Nat
      /\ Cardinality(pending[c]) \in Nat
      /\ lost[c] \in Nat
  BY WaitingFinite, PartsFinite, VblankAssumption DEF TypeOK
<1>2. Cardinality(Waiting(c)) = 0 /\ Cardinality(pending[c]) = 0
  BY <1>1 DEF RefsExact, Users
<1>3. IsFiniteSet(Waiting(c)) /\ IsFiniteSet(pending[c])
  BY WaitingFinite DEF ListsFinite
<1>. QED
  BY <1>2, <1>3, FS_EmptySet

\* So a first reference, which may make the count jump, surprises nobody.
LEMMA JumpsUnseen ==
    ASSUME TypeOK, ListsFinite, RefsExact, NEW c \in Crtc, Get(c),
           NEW d \in Crtc, count'[d] # count[d]
    PROVE  Waiting(d) = {} /\ pending[d] = {}
<1>1. d = c /\ FirstGet(c)
  BY DEF Get, TypeOK
<1>. QED
  BY <1>1, Unreferenced DEF FirstGet

\* A thread that sleeps after a step slept before it, on the same request, and
\* nothing has come that it waits for.
Asleep(t) == pc[t] \in {"sleep", "read_sleep"}
SleepsOn(t) ==
    Asleep(t)' => /\ pc'[t] = pc[t] /\ req'[t] = req[t] /\ file'[t] = file[t]
                  /\ pc[t] = "sleep" =>
                       /\ count'[req[t].crtc] = count[req[t].crtc]
                       /\ irqEnabled \/ admin = "wake" =>
                            irqEnabled' \/ admin' = "wake"
                  /\ pc[t] = "read_sleep" /\ ready[file[t]] = 0 =>
                       ready'[file[t]] = 0

LEMMA AllSleepOn ==
    ASSUME NoneOversleeps, \A t \in Thread : SleepsOn(t)
    PROVE  NoneOversleeps'
<1>1. ASSUME NEW t \in Thread, pc'[t] = "sleep"
      PROVE  /\ ~Passed(count'[req'[t].crtc], req'[t].seq)
             /\ irqEnabled' \/ admin' = "wake"
  BY <1>1 DEF NoneOversleeps, SleepsOn, Asleep
<1>2. ASSUME NEW t \in Thread, pc'[t] = "read_sleep"
      PROVE  ready'[file'[t]] = 0
  BY <1>2 DEF NoneOversleeps, SleepsOn, Asleep
<1>. QED
  BY <1>1, <1>2 DEF NoneOversleeps

LEMMA SleepStep ==
    TypeOK /\ ListsFinite /\ HasFile /\ RefsExact /\ NoneOversleeps
      /\ [Next]_vars => NoneOversleeps'
<1>1. SUFFICES ASSUME TypeOK, ListsFinite, HasFile, RefsExact, NoneOversleeps,
                      [Next]_vars
               PROVE  NoneOversleeps'
  OBVIOUS
<1>. USE DEF hwVars, irqVars, crtcVars, eventVars, callVars
<1>2. ASSUME UNCHANGED <<count, irqEnabled, admin, ready, pc, file, req>>
      PROVE  NoneOversleeps'
  BY <1>1, <1>2, AllSleepOn DEF SleepsOn, Asleep
<1>3. \A t \in Thread : req[t].crtc \in Crtc
  BY <1>1 DEF TypeOK
<1>4. ASSUME NEW c \in Crtc, Get(c)
      PROVE  \A t \in Thread : pc[t] = "sleep" =>
                 count'[req[t].crtc] = count[req[t].crtc]
  <2>1. SUFFICES ASSUME NEW t \in Thread, pc[t] = "sleep",
                        count'[req[t].crtc] # count[req[t].crtc]
                 PROVE  FALSE
    OBVIOUS
  <2>2. Waiting(req[t].crtc) = {}
    BY <1>1, <1>3, <1>4, <2>1, JumpsUnseen
  <2>3. t \in Waiting(req[t].crtc)
    BY <2>1 DEF Waiting
  <2>. QED
    BY <2>2, <2>3
<1>5. ASSUME NEW c \in Crtc, Frame(c) \/ PostModeset(c)
      PROVE  NoneOversleeps'
  BY <1>2, <1>5 DEF Frame, PostModeset
<1>6. ASSUME NEW c \in Crtc, PreModeset(c) PROVE NoneOversleeps'
  <2>1. CASE Get(c)
    BY <1>1, <1>4, <1>6, <2>1, AllSleepOn DEF PreModeset, SleepsOn, Asleep
  <2>2. CASE ~Get(c)
    BY <1>2, <1>6, <2>2 DEF PreModeset
  <2>. QED
    BY <2>1, <2>2
<1>7. ASSUME Disable \/ Interrupt \/ ReadCount PROVE NoneOversleeps'
  BY <1>2, <1>7 DEF Disable, Interrupt, ReadCount
<1>8. ASSUME HandleVblank PROVE NoneOversleeps'
  <2>1. PICK c \in handler.todo : HandleVblank!2!(c)
    BY <1>8 DEF HandleVblank
  <2>2. ASSUME NEW t \in Thread PROVE SleepsOn(t)
    BY <1>1, <1>3, <1>8, <2>1, <2>2
       DEF HandleVblank, SleepsOn, Asleep, Woken, TypeOK
  <2>. QED
    BY <1>1, <2>2, AllSleepOn
<1>9. ASSUME HandleEvents PROVE NoneOversleeps'
  <2>. DEFINE due == Due(handler.crtc, handler.seq)
  <2>1. /\ pc' = ReadersWoken({e.file : e \in due})
        /\ ready' = [f \in File |-> ready[f] + Cardinality(Of(f, due))]
        /\ UNCHANGED <<count, irqEnabled, admin, file, req>>
    BY <1>9 DEF HandleEvents
  <2>2. ASSUME NEW t \in Thread PROVE SleepsOn(t)
    <3>1. ASSUME pc'[t] = "read_sleep" PROVE ready'[file[t]] = ready[file[t]]
      <4>1. pc[t] = "read_sleep" /\ file[t] \notin {e.file : e \in due}
        BY <2>1, <3>1 DEF ReadersWoken
      <4>2. file[t] \in File
        BY <1>1, <4>1 DEF HasFile, TypeOK
      <4>3. Of(file[t], due) = {}
        BY <4>1 DEF Of
      <4>4. ready'[file[t]] = ready[file[t]] + Cardinality(Of(file[t], due))
        BY <2>1, <4>2
      <4>5. ready[file[t]] \in Nat /\ Cardinality({}) = 0
        BY <1>1, <4>2, FS_EmptySet DEF TypeOK
      <4>. QED
        BY <4>3, <4>4, <4>5
    <3>. QED
      BY <1>1, <2>1, <3>1 DEF SleepsOn, Asleep, ReadersWoken
  <2>. QED
    BY <1>1, <2>2, AllSleepOn
<1>10. ASSUME Install \/ InstallHw \/ Uninstall \/ UninstallHw
       PROVE  NoneOversleeps'
  <2>1. ASSUME NEW t \in Thread PROVE SleepsOn(t)
    BY <1>1, <1>10, <2>1
       DEF Install, InstallHw, Uninstall, UninstallHw, SleepsOn, Asleep
  <2>. QED
    BY <1>1, <2>1, AllSleepOn
<1>11. ASSUME UninstallWake PROVE NoneOversleeps'
  <2>1. ASSUME NEW t \in Thread PROVE SleepsOn(t)
    BY <1>3, <1>11, <2>1 DEF UninstallWake, SleepsOn, Asleep, Woken
  <2>. QED
    BY <1>1, <2>1, AllSleepOn
<1>12. ASSUME NEW t \in Asker,
              \/ Ask(t) \/ RefuseRef(t) \/ Aim(t) \/ GiveUp(t) \/ Release(t)
              \/ QueueFails(t)
       PROVE  NoneOversleeps'
  <2>1. t \in Thread
    BY DEF Thread
  <2>2. ASSUME NEW u \in Thread PROVE SleepsOn(u)
    <3>1. CASE u = t
      BY <1>1, <1>12, <2>1, <3>1
         DEF Ask, RefuseRef, Aim, GiveUp, Release, QueueFails, Return, Goto,
             SleepsOn, Asleep, TypeOK
    <3>2. CASE u # t
      BY <1>1, <1>12, <2>1, <3>2
         DEF Ask, RefuseRef, Aim, GiveUp, Release, QueueFails, Return, Goto,
             SleepsOn, Asleep, TypeOK
    <3>. QED
      BY <3>1, <3>2
  <2>. QED
    BY <1>1, <2>2, AllSleepOn
<1>13. ASSUME NEW t \in Asker, TakeRef(t) PROVE NoneOversleeps'
  <2>1. t \in Thread /\ Get(req[t].crtc)
    BY <1>13 DEF TakeRef, Thread
  <2>2. ASSUME NEW u \in Thread PROVE SleepsOn(u)
    BY <1>1, <1>3, <1>4, <1>13, <2>1, <2>2
       DEF TakeRef, Goto, SleepsOn, Asleep, TypeOK
  <2>. QED
    BY <1>1, <2>2, AllSleepOn
<1>14. ASSUME NEW t \in Asker, Check(t) PROVE NoneOversleeps'
  <2>1. t \in Thread /\ pc' = [pc EXCEPT ![t] =
            IF Passed(count[req[t].crtc], req[t].seq) \/ ~irqEnabled
            THEN "put" ELSE "sleep"]
    BY <1>14 DEF Check, Goto, Thread
  <2>2. UNCHANGED <<count, irqEnabled, admin, ready, file, req>>
    BY <1>14 DEF Check
  <2>. QED
    BY <1>1, <2>1, <2>2 DEF NoneOversleeps, TypeOK
<1>15. ASSUME NEW t \in Asker, Queue(t) PROVE NoneOversleeps'
  <2>. DEFINE f == file[t]
  <2>1. t \in Thread /\ f \in File
    BY <1>1, <1>15 DEF Queue, HasFile, TypeOK, Thread
  <2>2. /\ UNCHANGED <<count, irqEnabled, admin>>
        /\ file' = [file EXCEPT ![t] = NoFile]
        /\ req' = [req EXCEPT ![t] = NoReq]
    BY <1>15 DEF Queue
  <2>3. \/ /\ ready' = [ready EXCEPT ![f] = @ + 1]
           /\ pc' = [ReadersWoken({f}) EXCEPT ![t] = "out"]
        \/ /\ ready' = ready
           /\ pc' = [pc EXCEPT ![t] = "out"]
    BY <1>15 DEF Queue
  <2>4. ASSUME NEW u \in Thread PROVE SleepsOn(u)
    <3>1. CASE u = t
      BY <1>1, <2>1, <2>3, <3>1 DEF SleepsOn, Asleep, ReadersWoken, TypeOK
    <3>2. CASE u # t
      <4>1. pc[u] = "read_sleep" => file[u] \in File
        BY <1>1 DEF HasFile, TypeOK
      <4>2. file'[u] = file[u] /\ req'[u] = req[u]
        BY <1>1, <2>2, <3>2 DEF TypeOK
      <4>3. CASE ready' = [ready EXCEPT ![f] = @ + 1]
                 /\ pc' = [ReadersWoken({f}) EXCEPT ![t] = "out"]
        <5>1. Asleep(u)' => pc'[u] = pc[u]
                            /\ (pc[u] = "read_sleep" => file[u] # f)
          BY <3>2, <4>3 DEF Asleep, ReadersWoken
        <5>. QED
          BY <1>1, <2>1, <2>2, <4>1, <4>2, <4>3, <5>1
             DEF SleepsOn, Asleep, TypeOK
      <4>4. CASE ready' = ready /\ pc' = [pc EXCEPT ![t] = "out"]
        BY <1>1, <2>1, <2>2, <3>2, <4>2, <4>4 DEF SleepsOn, Asleep, TypeOK
      <4>. QED
        BY <2>3, <4>3, <4>4
    <3>. QED
      BY <3>1, <3>2
  <2>. QED
    BY <1>1, <2>4, AllSleepOn
<1>16. ASSUME NEW t \in Reader, Read(t) PROVE NoneOversleeps'
  <2>1. t \in Thread /\ UNCHANGED <<count, irqEnabled, admin>>
    BY <1>16 DEF Read, Thread
  <2>2. PICK f \in IF pc[t] = "out" THEN open ELSE {file[t]} :
            \/ Dequeue(f) /\ Return(t)
            \/ /\ ready[f] = 0 /\ Goto(t, "read_sleep")
               /\ file' = [file EXCEPT ![t] = f]
               /\ UNCHANGED <<ready, space, req>>
    BY <1>16 DEF Read
  <2>3. f \in File
    BY <1>1, <1>16, <2>1, <2>2 DEF Read, HasFile, TypeOK
  <2>4. CASE Dequeue(f) /\ Return(t)
    <3>1. ASSUME NEW u \in Thread PROVE SleepsOn(u)
      BY <1>1, <2>1, <2>3, <2>4
         DEF Dequeue, Return, Goto, SleepsOn, Asleep, TypeOK
    <3>. QED
      BY <1>1, <3>1, AllSleepOn
  <2>5. CASE /\ ready[f] = 0 /\ Goto(t, "read_sleep")
             /\ file' = [file EXCEPT ![t] = f]
             /\ UNCHANGED <<ready, space, req>>
    BY <1>1, <2>1, <2>5 DEF Goto, NoneOversleeps, TypeOK
  <2>. QED
    BY <2>2, <2>4, <2>5
<1>17. ASSUME NEW t \in Reader, ReadEnd(t) PROVE NoneOversleeps'
  <2>1. t \in Thread
    BY DEF Thread
  <2>2. ASSUME NEW u \in Thread PROVE SleepsOn(u)
    BY <1>1, <1>17, <2>1 DEF ReadEnd, Return, Goto, SleepsOn, Asleep, TypeOK
  <2>. QED
    BY <1>1, <2>2, AllSleepOn
<1>18. ASSUME NEW f \in File, Open(f) PROVE NoneOversleeps'
  BY <1>2, <1>18 DEF Open
<1>19. ASSUME NEW f \in File, Close(f) PROVE NoneOversleeps'
  <2>1. \A t \in Thread : file[t] # f
    BY <1>19 DEF Close
  <2>2. irqEnabled \/ admin = "wake" => irqEnabled' \/ admin' = "wake"
    BY <1>19 DEF Close
  <2>3. ready' = [ready EXCEPT ![f] = 0] /\ UNCHANGED <<count, pc, file, req>>
    BY <1>19 DEF Close
  <2>4. ASSUME NEW t \in Thread PROVE SleepsOn(t)
    BY <1>1, <2>1, <2>2, <2>3 DEF SleepsOn, Asleep, TypeOK
  <2>. QED
    BY <1>1, <2>4, AllSleepOn
<1>20. CASE UNCHANGED vars
  BY <1>2, <1>20 DEF vars
<1>. QED
  BY <1>1, <1>5, <1>6, <1>7, <1>8, <1>9, <1>10, <1>11, <1>12, <1>13, <1>14,
     <1>15, <1>16, <1>17, <1>18, <1>19, <1>20 DEF Next

-----------------------------------------------------------------------------
\* Events that are due leave the lists.
LEMMA OnTimeStep ==
    TypeOK /\ ListsFinite /\ RefsExact /\ EventsOnTime /\ [Next]_vars
      => EventsOnTime'
<1>1. SUFFICES ASSUME TypeOK, ListsFinite, RefsExact, EventsOnTime,
                      [Next]_vars
               PROVE  EventsOnTime'
  OBVIOUS
<1>. USE DEF hwVars, irqVars, crtcVars, eventVars, callVars
<1>2. ASSUME UNCHANGED <<count, handler>>,
             \A c \in Crtc : pending'[c] \subseteq pending[c]
      PROVE  EventsOnTime'
  BY <1>1, <1>2 DEF EventsOnTime
<1>3. ASSUME NEW c \in Crtc, Get(c), UNCHANGED <<pending, handler>>
      PROVE  EventsOnTime'
  <2>1. \A d \in Crtc : count'[d] # count[d] => pending[d] = {}
    BY <1>1, <1>3, JumpsUnseen
  <2>2. ASSUME NEW d \in Crtc, NEW e \in pending'[d], Passed(count'[d], e.seq)
        PROVE  /\ handler'.crtc = d
               /\ \/ handler'.at = "read"
                  \/ handler'.at = "events" /\ Passed(handler'.seq, e.seq)
    <3>1. pending' = pending /\ handler' = handler
      BY <1>3
    <3>2. e \in pending[d] /\ count'[d] = count[d]
      BY <2>1, <2>2, <3>1
    <3>. QED
      BY <1>1, <2>2, <3>1, <3>2 DEF EventsOnTime
  <2>. QED
    BY <2>2 DEF EventsOnTime
<1>4. ASSUME NEW c \in Crtc, Frame(c) \/ PostModeset(c)
      PROVE  EventsOnTime'
  BY <1>2, <1>4 DEF Frame, PostModeset
<1>5. ASSUME NEW c \in Crtc, PreModeset(c) PROVE EventsOnTime'
  <2>1. CASE Get(c)
    BY <1>3, <1>5, <2>1 DEF PreModeset
  <2>2. CASE ~Get(c)
    BY <1>2, <1>5, <2>2 DEF PreModeset
  <2>. QED
    BY <2>1, <2>2
<1>6. ASSUME Disable \/ Install \/ InstallHw \/ Uninstall \/ UninstallWake
             \/ UninstallHw
      PROVE  EventsOnTime'
  BY <1>2, <1>6
     DEF Disable, Install, InstallHw, Uninstall, UninstallWake, UninstallHw
<1>7. ASSUME Interrupt PROVE EventsOnTime'
  <2>1. handler.at = "idle" /\ UNCHANGED <<count, pending>>
    BY <1>7 DEF Interrupt
  <2>. QED
    BY <1>1, <2>1 DEF EventsOnTime
<1>8. ASSUME HandleVblank PROVE EventsOnTime'
  <2>1. PICK c \in handler.todo : HandleVblank!2!(c)
    BY <1>8 DEF HandleVblank
  <2>2. /\ handler.at = "count" /\ c \in Crtc /\ UNCHANGED pending
        /\ count' = [count EXCEPT ![c] = Plus(@, 1)]
        /\ handler' = [handler EXCEPT !.at = "read", !.crtc = c]
    BY <1>1, <1>8, <2>1 DEF HandleVblank, TypeOK
  <2>3. handler'.at = "read" /\ handler'.crtc = c
    BY <1>1, <2>2 DEF TypeOK
  <2>4. \A d \in Crtc : d # c => count'[d] = count[d]
    BY <1>1, <2>2 DEF TypeOK
  <2>. QED
    BY <1>1, <2>2, <2>3, <2>4 DEF EventsOnTime
<1>9. ASSUME ReadCount PROVE EventsOnTime'
  <2>1. /\ handler.at = "read" /\ UNCHANGED <<count, pending>>
        /\ handler' = [handler EXCEPT !.at = "events",
                                      !.seq = count[handler.crtc]]
    BY <1>9 DEF ReadCount
  <2>2. /\ handler'.at = "events" /\ handler'.crtc = handler.crtc
        /\ handler'.seq = count[handler.crtc]
    BY <1>1, <2>1 DEF TypeOK
  <2>. QED
    BY <1>1, <2>1, <2>2 DEF EventsOnTime
<1>10. ASSUME HandleEvents PROVE EventsOnTime'
  <2>. DEFINE c == handler.crtc
  <2>1. /\ handler.at = "events" /\ c \in Crtc
        /\ pending' = [pending EXCEPT ![c] = @ \ Due(c, handler.seq)]
        /\ UNCHANGED count
    BY <1>1, <1>10 DEF HandleEvents, TypeOK
  <2>2. ASSUME NEW d \in Crtc, NEW e \in pending'[d], Passed(count'[d], e.seq)
        PROVE  FALSE
    <3>1. e \in pending[d]
      BY <1>1, <2>1, <2>2 DEF TypeOK
    <3>2. d = c /\ Passed(handler.seq, e.seq)
      BY <1>1, <2>1, <2>2, <3>1 DEF EventsOnTime
    <3>3. e \in Due(c, handler.seq)
      BY <3>1, <3>2 DEF Due
    <3>. QED
      BY <1>1, <2>1, <2>2, <3>2, <3>3 DEF TypeOK
  <2>. QED
    BY <2>2 DEF EventsOnTime
<1>11. ASSUME NEW t \in Asker,
              \/ Ask(t) \/ RefuseRef(t) \/ Aim(t) \/ Check(t) \/ GiveUp(t)
              \/ Release(t) \/ QueueFails(t)
       PROVE  EventsOnTime'
  BY <1>2, <1>11 DEF Ask, RefuseRef, Aim, Check, GiveUp, Release, QueueFails
<1>12. ASSUME NEW t \in Asker, TakeRef(t) PROVE EventsOnTime'
  <2>1. req[t].crtc \in Crtc
    BY <1>1 DEF TypeOK, Thread
  <2>. QED
    BY <1>3, <1>12, <2>1 DEF TakeRef
<1>13. ASSUME NEW t \in Asker, Queue(t) PROVE EventsOnTime'
  <2>. DEFINE c == req[t].crtc
              new == NextIfMissed(req[t], count[c], req[t].seq)
  <2>1. CASE DueAtOnce(count[c], new)
    BY <1>2, <1>13, <2>1 DEF Queue
  <2>2. CASE ~DueAtOnce(count[c], new)
    <3>1. PICK i \in Event : pending' = [pending EXCEPT ![c] =
              @ \cup {[id |-> i, file |-> file[t], seq |-> new]}]
      BY <1>13, <2>2 DEF Queue
    <3>2. UNCHANGED <<count, handler>>
      BY <1>13 DEF Queue
    <3>3. ~Passed(count[c], new)
      BY <2>2 DEF DueAtOnce
    <3>. QED
      BY <1>1, <3>1, <3>2, <3>3 DEF EventsOnTime, TypeOK
  <2>. QED
    BY <2>1, <2>2
<1>14. ASSUME NEW t \in Reader, Read(t) \/ ReadEnd(t) PROVE EventsOnTime'
  BY <1>2, <1>14 DEF Read, ReadEnd
<1>15. ASSUME NEW f \in File, Open(f) \/ Close(f) PROVE EventsOnTime'
  BY <1>2, <1>15 DEF Open, Close
<1>16. CASE UNCHANGED vars
  BY <1>2, <1>16 DEF vars
<1>. QED
  BY <1>1, <1>4, <1>5, <1>6, <1>7, <1>8, <1>9, <1>10, <1>11, <1>12, <1>13,
     <1>14, <1>15, <1>16 DEF Next

-----------------------------------------------------------------------------
\* The room of the files.

Outstanding(f) == Of(f, UNION {pending[c] : c \in Crtc})

LEMMA OutstandingFinite ==
    ASSUME TypeOK, ListsFinite, NEW f
    PROVE  IsFiniteSet(Outstanding(f)) /\ PendingTo(f) \in Nat
           /\ PendingTo(f) = Cardinality(Outstanding(f))
<1>1. IsFiniteSet(Crtc)
  BY FS_Interval, VblankAssumption DEF Crtc
<1>. DEFINE Lists == {pending[c] : c \in Crtc}
<1>2. pending \in Surjection(Crtc, Lists)
  BY DEF TypeOK, Surjection
<1>3. IsFiniteSet(Lists)
  BY <1>1, <1>2, FS_Surjection
<1>4. IsFiniteSet(UNION Lists)
  BY <1>3, FS_UNION DEF ListsFinite
<1>5. Outstanding(f) \in SUBSET UNION Lists
  BY DEF Outstanding, Of
<1>6. PendingTo(f) = Cardinality(Outstanding(f))
  BY DEF PendingTo, Outstanding
<1>. QED
  BY <1>4, <1>5, <1>6, FS_Subset, FS_CardinalityType

\* How many events a step adds to those outstanding for a file.
LEMMA NoneAdded ==
    ASSUME NEW f, Outstanding(f)' = Outstanding(f)
    PROVE  PendingTo(f)' = PendingTo(f)
<1>. QED
  BY DEF Outstanding, PendingTo

LEMMA OneAdded ==
    ASSUME TypeOK, ListsFinite, NEW f, NEW e, e \notin Outstanding(f),
           Outstanding(f)' = Outstanding(f) \cup {e}
    PROVE  PendingTo(f)' = PendingTo(f) + 1
<1>1. PendingTo(f)' = Cardinality(Outstanding(f) \cup {e})
  BY DEF PendingTo, Outstanding
<1>. QED
  BY <1>1, OutstandingFinite, FS_AddElement

LEMMA SomeTaken ==
    ASSUME TypeOK, ListsFinite, NEW f, NEW S \in SUBSET Outstanding(f),
           Outstanding(f)' = Outstanding(f) \ S
    PROVE  Cardinality(S) \in Nat
           /\ PendingTo(f)' = PendingTo(f) - Cardinality(S)
<1>1. PendingTo(f)' = Cardinality(Outstanding(f) \ S)
  BY DEF PendingTo, Outstanding
<1>. QED
  BY <1>1, OutstandingFinite, TakeAway

LEMMA RoomInit == Init => Room
<1>1. SUFFICES ASSUME Init PROVE Room
  OBVIOUS
<1>2. OnePlace /\ ClosedEmpty
  BY <1>1 DEF Init, OnePlace, ClosedEmpty
<1>3. ASSUME NEW f \in File PROVE PendingTo(f) = 0
  <2>1. Of(f, UNION {pending[c] : c \in Crtc}) = {}
    BY <1>1 DEF Init, Of
  <2>. QED
    BY <2>1, FS_EmptySet DEF PendingTo
<1>. QED
  BY <1>1, <1>2, <1>3 DEF Init, Room, SpaceExact

LEMMA RoomStep ==
    TypeOK /\ ListsFinite /\ HasFile /\ Room /\ [Next]_vars => Room'
<1>1. SUFFICES ASSUME TypeOK, ListsFinite, HasFile, Room, [Next]_vars
               PROVE  Room'
  OBVIOUS
<1>. USE DEF hwVars, irqVars, crtcVars, eventVars, callVars
<1>2. \A f \in File : PendingTo(f) \in Nat /\ ready[f] \in Nat
                      /\ space[f] \in Nat
  BY <1>1, OutstandingFinite DEF TypeOK
<1>3. ASSUME UNCHANGED <<pending, ready, space, open>> PROVE Room'
  BY <1>1, <1>3
     DEF Room, OnePlace, ClosedEmpty, SpaceExact, PendingTo, Of
<1>4. ASSUME UNCHANGED pending
      PROVE  OnePlace' /\ \A f \in File : PendingTo(f)' = PendingTo(f)
  BY <1>1, <1>4 DEF Room, OnePlace, PendingTo, Of
<1>5. ASSUME NEW c \in Crtc, Frame(c) \/ PreModeset(c) \/ PostModeset(c)
      PROVE  Room'
  BY <1>3, <1>5 DEF Frame, PreModeset, PostModeset
<1>6. ASSUME \/ Disable \/ Interrupt \/ HandleVblank \/ ReadCount \/ Install
             \/ InstallHw \/ Uninstall \/ UninstallWake \/ UninstallHw
      PROVE  Room'
  BY <1>3, <1>6
     DEF Disable, Interrupt, HandleVblank, ReadCount, Install, InstallHw,
         Uninstall, UninstallWake, UninstallHw
<1>7. ASSUME HandleEvents PROVE Room'
  <2>. DEFINE c == handler.crtc
              due == Due(c, handler.seq)
  <2>1. c \in Crtc /\ due \in SUBSET pending[c]
    BY <1>1, PartsFinite DEF TypeOK
  <2>2. /\ pending' = [pending EXCEPT ![c] = @ \ due]
        /\ ready' = [f \in File |-> ready[f] + Cardinality(Of(f, due))]
        /\ UNCHANGED <<space, open>>
    BY <1>7 DEF HandleEvents
  <2>. HIDE DEF c, due
  <2>3. \A d \in Crtc : pending'[d] = pending[d] \ due
    <3>1. pending'[c] = pending[c] \ due
      BY <1>1, <2>1, <2>2 DEF TypeOK
    <3>2. ASSUME NEW d \in Crtc, d # c
          PROVE  pending'[d] = pending[d] /\ pending[d] \cap due = {}
      <4>1. \A e \in pending[d] : e \notin pending[c]
        BY <1>1, <2>1, <3>2 DEF Room, OnePlace
      <4>. QED
        BY <1>1, <2>1, <2>2, <3>2, <4>1 DEF TypeOK
    <3>. QED
      BY <3>1, <3>2
  <2>4. OnePlace'
    BY <1>1, <2>3 DEF Room, OnePlace
  <2>5. ASSUME NEW f \in File
        PROVE  /\ Cardinality(Of(f, due)) \in Nat
               /\ PendingTo(f)' = PendingTo(f) - Cardinality(Of(f, due))
    <3>1. Outstanding(f)' = Outstanding(f) \ Of(f, due)
      BY <2>3 DEF Outstanding, Of
    <3>2. Of(f, due) \in SUBSET Outstanding(f)
      BY <2>1 DEF Outstanding, Of
    <3>. QED
      BY <1>1, <3>1, <3>2, SomeTaken
  <2>6. ASSUME NEW f \in File \ open PROVE Cardinality(Of(f, due)) = 0
    <3>1. PendingTo(f) = 0
      BY <1>1, <2>6 DEF Room, SpaceExact
    <3>2. Outstanding(f) = {}
      BY <1>1, <3>1, OutstandingFinite, FS_EmptySet
    <3>3. Of(f, due) = {}
      BY <2>1, <3>2 DEF Outstanding, Of
    <3>. QED
      BY <3>3, FS_EmptySet
  <2>7. \A f \in File : ready'[f] = ready[f] + Cardinality(Of(f, due))
    BY <2>2
  <2>8. ClosedEmpty'
    BY <1>1, <2>2, <2>6, <2>7 DEF Room, ClosedEmpty
  <2>9. ASSUME NEW f \in File
        PROVE  IF f \in open
               THEN PendingTo(f)' + ready'[f] + space[f] = EventSpace
               ELSE PendingTo(f)' = 0
    BY <1>1, <1>2, <2>5, <2>6, <2>7 DEF Room, SpaceExact
  <2>10. SpaceExact'
    BY <2>2, <2>9 DEF SpaceExact
  <2>. QED
    BY <2>4, <2>8, <2>10 DEF Room
<1>8. ASSUME NEW t \in Asker,
             \/ Ask(t) \/ TakeRef(t) \/ RefuseRef(t) \/ Aim(t) \/ Check(t)
             \/ GiveUp(t) \/ Release(t) \/ QueueFails(t)
      PROVE  Room'
  BY <1>3, <1>8
     DEF Ask, TakeRef, RefuseRef, Aim, Check, GiveUp, Release, QueueFails
<1>9. ASSUME NEW t \in Asker, Queue(t) PROVE Room'
  <2>. DEFINE c == req[t].crtc
              f == file[t]
              new == NextIfMissed(req[t], count[c], req[t].seq)
  <2>1. c \in Crtc /\ f \in open
    BY <1>1, <1>9 DEF Queue, HasFile, TypeOK, Thread
  <2>2. f \in File /\ space[f] > 0
    BY <1>1, <1>9, <2>1 DEF Queue, TypeOK
  <2>3. space' = [space EXCEPT ![f] = @ - 1] /\ UNCHANGED open
    BY <1>9 DEF Queue
  <2>4. \A g \in File :
            space'[g] = space[g] - (IF g = f THEN 1 ELSE 0)
    BY <1>1, <1>2, <2>3 DEF TypeOK
  <2>5. CASE DueAtOnce(count[c], new)
    <3>1. ready' = [ready EXCEPT ![f] = @ + 1] /\ UNCHANGED pending
      BY <1>9, <2>5 DEF Queue
    <3>2. \A g \in File :
              ready'[g] = ready[g] + (IF g = f THEN 1 ELSE 0)
      BY <1>1, <1>2, <3>1 DEF TypeOK
    <3>3. ClosedEmpty'
      BY <1>1, <1>2, <2>1, <2>3, <3>2 DEF Room, ClosedEmpty
    <3>4. ASSUME NEW g \in File
          PROVE  IF g \in open'
                 THEN PendingTo(g)' + ready'[g] + space'[g] = EventSpace
                 ELSE PendingTo(g)' = 0
      BY <1>1, <1>2, <1>4, <2>3, <2>4, <3>1, <3>2 DEF Room, SpaceExact
    <3>5. SpaceExact'
      BY <3>4 DEF SpaceExact
    <3>. QED
      BY <1>4, <3>1, <3>3, <3>5 DEF Room
  <2>6. CASE ~DueAtOnce(count[c], new)
    <3>1. PICK i \in Event :
            /\ \A d \in Crtc : \A e \in pending[d] : e.id # i
            /\ pending' = [pending EXCEPT ![c] =
                  @ \cup {[id |-> i, file |-> f, seq |-> new]}]
      BY <1>9, <2>6 DEF Queue
    <3>. DEFINE event == [id |-> i, file |-> f, seq |-> new]
    <3>2. event.id = i /\ event.file = f
      OBVIOUS
    <3>3. \A d \in Crtc : event \notin pending[d]
      BY <3>1, <3>2
    <3>4. pending' = [pending EXCEPT ![c] = @ \cup {event}]
      BY <3>1
    <3>5. UNCHANGED <<ready, open>>
      BY <1>9, <2>6 DEF Queue
    <3>. HIDE DEF event
    <3>6. \A d \in Crtc : pending'[d] =
              IF d = c THEN pending[d] \cup {event} ELSE pending[d]
      BY <1>1, <2>1, <3>4 DEF TypeOK
    <3>7. OnePlace'
      BY <1>1, <3>1, <3>2, <3>6 DEF Room, OnePlace
    <3>8. ClosedEmpty'
      BY <1>1, <3>5 DEF Room, ClosedEmpty
    <3>9. ASSUME NEW g \in File
          PROVE  PendingTo(g)' = PendingTo(g) + (IF g = f THEN 1 ELSE 0)
      <4>1. \A e : e \in Outstanding(g) <=>
                  e.file = g /\ \E d \in Crtc : e \in pending[d]
        BY DEF Outstanding, Of
      <4>2. \A e : e \in Outstanding(g)' <=>
                  e.file = g /\ (e = event \/ \E d \in Crtc : e \in pending[d])
        <5>1. \A e : e \in Outstanding(g)' <=>
                    e.file = g /\ \E d \in Crtc : e \in pending'[d]
          BY DEF Outstanding, Of
        <5>2. ASSUME NEW e, NEW d \in Crtc, e \in pending'[d]
              PROVE  e = event \/ e \in pending[d]
          BY <3>6, <5>2
        <5>3. event \in pending'[c]
          BY <2>1, <3>6
        <5>4. ASSUME NEW e, NEW d \in Crtc, e \in pending[d]
              PROVE  e \in pending'[d]
          BY <3>6, <5>4
        <5>5. \A e : (\E d \in Crtc : e \in pending'[d]) <=>
                    e = event \/ \E d \in Crtc : e \in pending[d]
          BY <2>1, <5>2, <5>3, <5>4
        <5>. QED
          BY <5>1, <5>5
      <4>3. CASE g = f
        <5>1. Outstanding(g)' = Outstanding(g) \cup {event}
          BY <2>1, <3>2, <4>3, <4>1, <4>2
        <5>2. event \notin Outstanding(g)
          BY <3>3 DEF Outstanding, Of
        <5>. QED
          BY <1>1, <4>3, <5>1, <5>2, OneAdded
      <4>4. CASE g # f
        <5>1. Outstanding(g)' = Outstanding(g)
          BY <3>2, <4>4, <4>1, <4>2
        <5>. QED
          BY <1>2, <4>4, <5>1, NoneAdded
      <4>. QED
        BY <4>3, <4>4
    <3>10. ASSUME NEW g \in File
          PROVE  IF g \in open'
                 THEN PendingTo(g)' + ready'[g] + space'[g] = EventSpace
                 ELSE PendingTo(g)' = 0
      BY <1>1, <1>2, <2>1, <2>4, <3>5, <3>9 DEF Room, SpaceExact
    <3>11. SpaceExact'
      BY <3>10 DEF SpaceExact
    <3>. QED
      BY <3>7, <3>8, <3>11 DEF Room
  <2>. QED
    BY <2>5, <2>6
<1>10. ASSUME NEW t \in Reader, Read(t) PROVE Room'
  <2>1. UNCHANGED <<pending, open>>
    BY <1>10 DEF Read
  <2>2. CASE UNCHANGED <<ready, space>>
    BY <1>3, <2>1, <2>2
  <2>3. CASE \E f \in IF pc[t] = "out" THEN open ELSE {file[t]} : Dequeue(f)
    <3>1. PICK f \in IF pc[t] = "out" THEN open ELSE {file[t]} : Dequeue(f)
      BY <2>3
    <3>2. f \in File
      BY <1>1, <1>10, <3>1 DEF Read, HasFile, TypeOK, Thread
    <3>3. \A g \in File :
              /\ ready'[g] = ready[g] - (IF g = f THEN 1 ELSE 0)
              /\ space'[g] = space[g] + (IF g = f THEN 1 ELSE 0)
      BY <1>1, <1>2, <3>1 DEF Dequeue, SpaceBack, TypeOK
    <3>4. ready[f] > 0
      BY <3>1 DEF Dequeue
    <3>5. ClosedEmpty'
      BY <1>1, <1>2, <2>1, <3>2, <3>3, <3>4 DEF Room, ClosedEmpty
    <3>6. ASSUME NEW g \in File
          PROVE  IF g \in open'
                 THEN PendingTo(g)' + ready'[g] + space'[g] = EventSpace
                 ELSE PendingTo(g)' = 0
      BY <1>1, <1>2, <1>4, <2>1, <3>3 DEF Room, SpaceExact
    <3>7. SpaceExact'
      BY <3>6 DEF SpaceExact
    <3>. QED
      BY <1>4, <2>1, <3>5, <3>7 DEF Room
  <2>. QED
    BY <1>10, <2>2, <2>3 DEF Read
<1>11. ASSUME NEW t \in Reader, ReadEnd(t) PROVE Room'
  BY <1>3, <1>11 DEF ReadEnd
<1>12. ASSUME NEW f \in File, Open(f) PROVE Room'
  <2>1. /\ f \notin open /\ open' = open \cup {f}
        /\ space' = [space EXCEPT ![f] = EventSpace]
        /\ UNCHANGED <<pending, ready>>
    BY <1>12 DEF Open
  <2>2. ClosedEmpty'
    BY <1>1, <2>1 DEF Room, ClosedEmpty
  <2>3. ASSUME NEW g \in File
        PROVE  IF g \in open'
               THEN PendingTo(g)' + ready'[g] + space'[g] = EventSpace
               ELSE PendingTo(g)' = 0
    <3>1. CASE g = f
      <4>1. PendingTo(f) = 0 /\ ready[f] = 0
        BY <1>1, <2>1 DEF Room, ClosedEmpty, SpaceExact
      <4>2. space'[f] = EventSpace /\ EventSpace \in Nat
        BY <1>1, <2>1, VblankAssumption DEF TypeOK
      <4>. QED
        BY <1>4, <2>1, <3>1, <4>1, <4>2
    <3>2. CASE g # f
      BY <1>1, <1>2, <1>4, <2>1, <3>2 DEF Room, SpaceExact, TypeOK
    <3>. QED
      BY <3>1, <3>2
  <2>4. SpaceExact'
    BY <2>3 DEF SpaceExact
  <2>. QED
    BY <1>4, <2>1, <2>2, <2>4 DEF Room
<1>13. ASSUME NEW f \in File, Close(f) PROVE Room'
  <2>1. /\ open' = open \ {f}
        /\ pending' = [c \in Crtc |-> pending[c] \ Of(f, pending[c])]
        /\ ready' = [ready EXCEPT ![f] = 0]
        /\ space' = [space EXCEPT ![f] = 0]
    BY <1>13 DEF Close
  <2>2. \A c \in Crtc : pending'[c] = pending[c] \ Of(f, pending[c])
    BY <2>1
  <2>3. OnePlace'
    BY <1>1, <2>2 DEF Room, OnePlace
  <2>4. ClosedEmpty'
    BY <1>1, <2>1 DEF Room, ClosedEmpty, TypeOK
  <2>5. ASSUME NEW g \in File
        PROVE  IF g \in open'
               THEN PendingTo(g)' + ready'[g] + space'[g] = EventSpace
               ELSE PendingTo(g)' = 0
    <3>1. CASE g = f
      <4>1. Of(f, UNION {pending'[c] : c \in Crtc}) = {}
        BY <2>2 DEF Of
      <4>. QED
        BY <2>1, <3>1, <4>1, FS_EmptySet DEF PendingTo
    <3>2. CASE g # f
      <4>1. Outstanding(g)' = Outstanding(g)
        BY <2>2, <3>2 DEF Outstanding, Of
      <4>2. PendingTo(g)' = PendingTo(g)
        BY <4>1, NoneAdded
      <4>. QED
        BY <1>1, <2>1, <3>2, <4>2 DEF Room, SpaceExact, TypeOK
    <3>. QED
      BY <3>1, <3>2
  <2>6. SpaceExact'
    BY <2>5 DEF SpaceExact
  <2>. QED
    BY <2>3, <2>4, <2>6 DEF Room
<1>14. CASE UNCHANGED vars
  BY <1>3, <1>14 DEF vars
<1>. QED
  BY <1>1, <1>5, <1>6, <1>7, <1>8, <1>9, <1>10, <1>11, <1>12, <1>13, <1>14
     DEF Next

-----------------------------------------------------------------------------
\* The inductive invariant: types, exact references, the switch, the waits, the
\* events that are due and the room for events together.
THEOREM Invariant == Spec => []VbInv
<1>1. Init => NoneOversleeps /\ EventsOnTime
  BY DEF Init, NoneOversleeps, EventsOnTime
<1>2. Init => VbInv
  BY <1>1, TypeInit, RefsInit, SwitchInit, RoomInit DEF VbInv, Switch
<1>3. VbInv /\ [Next]_vars => VbInv'
  BY TypeStep, FrameStep, RefsStep, SwitchStep, SleepStep, OnTimeStep, RoomStep
     DEF VbInv, Switch
<1>. QED
  BY <1>2, <1>3, PTL DEF Spec

\* Every variable keeps its type: vbl_count stays in 32 bits.
THEOREM TypeCorrect == Spec => []TypeOK
<1>1. VbInv => TypeOK
  BY DEF VbInv
<1>. QED
  BY <1>1, Invariant, PTL

\* vbl_refs counts exactly the threads, the events and the mode set that hold
\* the crtc, and what failed calls have lost: drm_vblank_put never underflows.
THEOREM ReferencesExact == Spec => []RefsExact
<1>1. VbInv => RefsExact
  BY DEF VbInv
<1>. QED
  BY <1>1, Invariant, PTL

\* A crtc that is in use interrupts, however often the X server removes and
\* restores the interrupt handler meanwhile.
THEOREM InUseInterrupts == Spec => []Interrupting
<1>1. VbInv => Interrupting
  BY DEF VbInv
<1>. QED
  BY <1>1, Invariant, PTL

\* A pipe that interrupts for nobody has the timer running that switches it off,
\* unless a removal of the handler has left it on.
THEOREM UnusedIsTimed == Spec => []UnusedExpires
<1>1. VbInv => UnusedExpires
  BY DEF VbInv, Accounted, Timed, UnusedExpires, TypeOK
<1>. QED
  BY <1>1, Invariant, PTL

\* Nobody sleeps on in WAIT_VBLANK when the number has passed or the handler
\* has been removed, nor in read when there is an event for its file.
THEOREM SleepersAreWoken == Spec => []NoneOversleeps
<1>1. VbInv => NoneOversleeps
  BY DEF VbInv
<1>. QED
  BY <1>1, Invariant, PTL

\* Although drm_handle_vblank_events and drm_wait_vblank read the count long
\* before they take event_lock, one of the two sends each event in time.
THEOREM DueEventsLeave == Spec => []EventsOnTime
<1>1. VbInv => EventsOnTime
  BY DEF VbInv
<1>. QED
  BY <1>1, Invariant, PTL

\* The room of an open file and its events always make up event_space, and no
\* list holds an event of a file that was closed.
THEOREM RoomIsExact == Spec => []SpaceExact
<1>1. VbInv => SpaceExact
  BY DEF VbInv, Room
<1>. QED
  BY <1>1, Invariant, PTL

-----------------------------------------------------------------------------
\* The frame counter.

\* Quotient and remainder.
LEMMA Divided ==
  ASSUME NEW x \in Int, NEW v \in Nat, v > 0
  PROVE  /\ x \div v \in Int /\ x % v \in Int
         /\ 0 <= x % v /\ x % v < v
         /\ x = (v * (x \div v)) + (x % v)
  OBVIOUS

\* drm_update_vblank_count finds the frames between frame l, when the interrupt
\* was switched off, and frame f, less than a round of the counter later; but
\* it adds vb_max for a wrap, where the counter has vb_max + 1 values, and so
\* the count falls behind by one frame whenever the counter has wrapped.
THEOREM WrapLosesOne ==
  ASSUME NEW vbMax \in Nat, NEW l \in Nat, NEW f \in Nat,
         l <= f, f - l <= vbMax
  PROVE  Missed(f % (vbMax + 1), l % (vbMax + 1), vbMax) =
           IF f \div (vbMax + 1) = l \div (vbMax + 1) THEN f - l
                                                     ELSE f - l - 1
<1> DEFINE v == vbMax + 1
           qf == f \div v
           ql == l \div v
           rf == f % v
           rl == l % v
<1>1. v \in Nat /\ v > 0 /\ f - l < v
  OBVIOUS
<1> HIDE DEF v
<1>2. /\ qf \in Int /\ rf \in Int /\ 0 <= rf /\ rf < v
      /\ f = (v * qf) + rf
  BY <1>1, Divided
<1>3. /\ ql \in Int /\ rl \in Int /\ 0 <= rl /\ rl < v
      /\ l = (v * ql) + rl
  BY <1>1, Divided
<1> HIDE DEF qf, ql, rf, rl
<1> DEFINE k == qf - ql
<1>4. k \in Int /\ f - l = (v * k) + (rf - rl)
  BY <1>1, <1>2, <1>3
<1>5. k = 0 <=> qf = ql
  BY <1>2, <1>3
<1> HIDE DEF k
<1>6. k < 2
  <2>1. SUFFICES ASSUME k >= 2 PROVE FALSE
    BY <1>4
  <2>2. v * k >= v * 2
    BY <1>1, <1>4, <2>1
  <2> QED
    BY <1>1, <1>2, <1>3, <1>4, <2>2
<1>7. k > -1
  <2>1. SUFFICES ASSUME k <= -1 PROVE FALSE
    BY <1>4
  <2>2. v * k <= v * (-1)
    BY <1>1, <1>4, <2>1
  <2> QED
    BY <1>1, <1>2, <1>3, <1>4, <2>2
<1>8. CASE k = 0
  <2>1. v * k = 0
    BY <1>1, <1>8
  <2>2. rf - rl = f - l /\ ~(rf < rl)
    BY <1>2, <1>3, <1>4, <2>1
  <2> QED
    BY <1>5, <1>8, <2>2 DEF Missed, v, qf, ql, rf, rl
<1>9. CASE k = 1
  <2>1. v * k = v
    BY <1>1, <1>9
  <2>2. rf - rl = f - l - v /\ rf < rl
    BY <1>1, <1>2, <1>3, <1>4, <2>1
  <2>3. rf - rl + vbMax = f - l - 1
    BY <2>2 DEF v
  <2> QED
    BY <1>5, <1>9, <2>2, <2>3 DEF Missed, v, qf, ql, rf, rl
<1> QED
  BY <1>4, <1>6, <1>7, <1>8, <1>9

=============================================================================
