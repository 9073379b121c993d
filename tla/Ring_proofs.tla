----------------------------- MODULE Ring_proofs -----------------------------
(***************************************************************************)
(* Proofs about Ring, for rings and packets of every size.                 *)
(*                                                                         *)
(* Everything is measured from the head, upwards and around: Ahead(a) is   *)
(* the number of words the GPU reads before it comes to a.  The driver is  *)
(* safe because what it was given, its tail and the gap follow each other  *)
(* in this order (InOrder), and the GPU only ever shortens the distances.  *)
(* It is a queue because the words between the head and the published tail *)
(* never change (GivenStays), and what is written behind them is one       *)
(* packet, after no-ops up to the end of the ring if need be (InRing).     *)
(***************************************************************************)
EXTENDS Ring, SequenceTheorems, TLAPS

Ahead(a) == IF a >= head THEN a - head ELSE a - head + Size

\* The order of the positions, and a count of space that is there.
InOrder ==
    /\ Ahead(hwTail) <= Ahead(tail)
    /\ Ahead(tail) <= Size - Gap
    /\ 0 <= space /\ space <= Size - Gap - Ahead(tail)

\* Where the driver is in a packet, and what it has to write.
InPacket ==
    /\ pc = "idle" => hwTail = tail /\ (tail # 0 => woffset = tail)
    /\ pc = "wrap" => hwTail = tail /\ woffset = tail /\ tail + left > Size
    /\ pc = "room" => tail + left <= Size
    /\ pc = "out" =>
           /\ woffset + left <= Size /\ tail = Mask(woffset + left)
           /\ left > 0 => /\ Ahead(hwTail) <= Ahead(woffset)
                          /\ Ahead(woffset) + left <= Size - Gap

RingInv ==
    /\ TypeOK
    /\ pc \in {"wrap", "room"} => left \in Lengths
    /\ ~running => pc = "idle"
    /\ kept /\ running => InOrder /\ InPacket

USE RingAssumption DEF Gap

LEMMA SizeIs == Size \in Nat /\ 0 \in Slot /\ 0 \in 0..(Ids - 1) /\ 2 < Size
  BY DEF Slot

LEMMA InitInv == Init => RingInv
<1> SUFFICES ASSUME Init PROVE RingInv
  OBVIOUS
<1>1. mem \in [Slot -> ((0..(Ids - 1)) \X Nat) \cup {Noop}]
  BY DEF Init
<1>2. TypeOK
  <2>1. stalled \in BOOLEAN
    BY DEF Init
  <2> QED  BY <1>1, <2>1, SizeIs DEF Init, TypeOK
<1>3. InOrder /\ InPacket
  BY SizeIs DEF Init, InOrder, InPacket, Ahead
<1> QED  BY <1>2, <1>3 DEF Init, RingInv

\* (id + 1) % Ids is a packet number.
LEMMA NextId == ASSUME id \in 0..(Ids - 1) PROVE (id + 1) % Ids \in 0..(Ids - 1)
  OBVIOUS

LEMMA BeginInv == ASSUME RingInv, NEW n \in Lengths, Begin(n) PROVE RingInv'
  BY DEF RingInv, TypeOK, InOrder, InPacket, Ahead, Slot, Mask, Begin, hwVars

\* Room is what the order leaves free.
LEMMA RoomIs == ASSUME TypeOK, Ahead(tail) <= Size - Gap
                PROVE Room(tail) = Size - Gap - Ahead(tail)
  BY DEF TypeOK, Ahead, Slot, Room

LEMMA WrapInv == ASSUME RingInv, Wrap PROVE RingInv'
<1>1. mem' \in [Slot -> ((0..(Ids - 1)) \X Nat) \cup {Noop}]
  BY DEF RingInv, TypeOK, Wrap, Padded
<1>2. TypeOK' /\ left \in Lengths /\ left' = left /\ pc' = "room" /\ running' = running
  <2>1. Room(tail) \in Int
    BY DEF RingInv, TypeOK, Room, Slot
  <2> QED  BY <1>1, <2>1 DEF RingInv, TypeOK, Wrap, Slot, hwVars
<1>3. ASSUME kept, running PROVE InOrder' /\ InPacket'
  <2>1. InOrder /\ InPacket /\ Room(tail) = Size - Gap - Ahead(tail)
    BY <1>3, RoomIs DEF RingInv, InOrder
  <2> DEFINE has == IF TooLittle(Size - tail) THEN Room(tail) ELSE space
  <2>2. /\ has >= Size - tail /\ has <= Size - Gap - Ahead(tail)
        /\ space' = has - (Size - tail) /\ tail' = 0 /\ head' = head /\ hwTail' = hwTail
    BY <2>1, <1>3
       DEF RingInv, TypeOK, Wrap, InOrder, TooLittle, MayWrap, Slot,
           Ahead
  <2>3. hwTail = tail
    BY <2>1 DEF Wrap, InPacket
  <2>4. has \in Int
    BY <2>1 DEF RingInv, TypeOK, Ahead, Slot
  <2> HIDE DEF has
  <2>5. InOrder'
    BY <2>1, <2>2, <2>3, <2>4 DEF RingInv, TypeOK, InOrder, Ahead, Slot
  <2>6. InPacket'
    BY <1>2, <2>2 DEF InPacket, RingInv, TypeOK
  <2> QED  BY <2>5, <2>6
<1> QED  BY <1>2, <1>3 DEF RingInv, Wrap, hwVars

LEMMA ReserveInv == ASSUME RingInv, Reserve PROVE RingInv'
<1>1. left \in Lengths /\ 2 * left <= Size /\ left \in Nat \ {0}
  BY DEF RingInv, Reserve
<1>2. Room(tail) \in Int
  BY DEF RingInv, TypeOK, Room, Slot
<1>3. TypeOK'
  BY <1>1, <1>2 DEF RingInv, TypeOK, Reserve, TakeWords, Slot, Mask, hwVars
<1>4. ASSUME kept, running PROVE InOrder' /\ InPacket'
  <2>1. InOrder /\ InPacket /\ Room(tail) = Size - Gap - Ahead(tail)
    BY <1>4, RoomIs DEF RingInv, InOrder
  <2> QED  BY <1>1, <1>2, <2>1 DEF RingInv, TypeOK, Reserve, TakeWords, InOrder,
                                InPacket, Ahead, Slot, Mask, hwVars
<1> QED  BY <1>3, <1>4 DEF RingInv, Reserve, TakeWords, hwVars

LEMMA GiveUpInv == ASSUME RingInv, WrapGiveUp \/ ReserveGiveUp PROVE RingInv'
<1>1. Room(tail) \in Int
  BY DEF RingInv, TypeOK, Room, Slot
<1>2. CASE WrapGiveUp
  BY <1>1, <1>2 DEF RingInv, TypeOK, WrapGiveUp, hwVars
<1>3. CASE ReserveGiveUp
  <2>1. kept' \in BOOLEAN
    BY <1>3 DEF ReserveGiveUp
  <2> QED  BY <2>1, SizeIs, <1>1, <1>3
              DEF RingInv, TypeOK, ReserveGiveUp, TakeWords,
                  Slot, Mask, hwVars
<1> QED  BY <1>2, <1>3

LEMMA OutInv == ASSUME RingInv, Out PROVE RingInv'
<1>1. mem' \in [Slot -> ((0..(Ids - 1)) \X Nat) \cup {Noop}]
  BY DEF RingInv, TypeOK, Out
<1>2. TypeOK'
  BY SizeIs, <1>1 DEF RingInv, TypeOK, Out, hwVars
<1>3. ASSUME kept, running PROVE InOrder' /\ InPacket'
  BY SizeIs, <1>3
     DEF RingInv, TypeOK, Out, InOrder, InPacket, Ahead, Slot, Mask,
         hwVars
<1> QED  BY <1>2, <1>3 DEF RingInv, Out, hwVars

LEMMA AdvanceInv == ASSUME RingInv, Advance PROVE RingInv'
  BY NextId
     DEF RingInv, TypeOK, Advance, Published, InOrder, InPacket, Ahead,
         Slot, Mask, hwVars

LEMMA FetchInv == ASSUME RingInv, Fetch PROVE RingInv'
<1>1. TypeOK'
  BY DEF RingInv, TypeOK, Fetch, Slot, Mask, hwVars
<1>2. ASSUME kept PROVE InOrder' /\ InPacket'
  BY SizeIs, <1>2
     DEF RingInv, TypeOK, Fetch, InOrder, InPacket, Ahead, Slot, Mask,
         hwVars
<1> QED  BY <1>1, <1>2 DEF RingInv, Fetch, hwVars

\* Starting and stopping the ring.
LEMMA RestartInv ==
    ASSUME RingInv, Reset \/ Cleanup \/ CleanupGiveUp \/ InitRing \/ Stall
    PROVE RingInv'
<1>1. CASE Reset
  <2>1. stalled' \in BOOLEAN
    BY <1>1 DEF Reset
  <2> QED  BY <2>1, SizeIs, <1>1
              DEF RingInv, TypeOK, Reset, Restarted, InOrder,
                  InPacket, Ahead, Slot
<1>2. CASE Cleanup
  <2>1. running' \in BOOLEAN /\ stalled' \in BOOLEAN
    BY <1>2 DEF Cleanup, StopRing
  <2> QED  BY <2>1, SizeIs, <1>2 DEF RingInv, TypeOK, Cleanup, StopRing, Slot
<1>3. CASE CleanupGiveUp
  <2>1. running' \in BOOLEAN /\ stalled' \in BOOLEAN /\ kept' \in BOOLEAN
    BY <1>3 DEF CleanupGiveUp, StopRing
  <2> QED  BY <2>1, SizeIs, <1>3
              DEF RingInv, TypeOK, CleanupGiveUp, StopRing, Slot
<1>4. CASE InitRing
  BY SizeIs, <1>4
     DEF RingInv, TypeOK, InitRing, Restarted, InOrder, InPacket, Ahead,
         Slot
<1>5. CASE Stall
  BY <1>5 DEF RingInv, TypeOK, Stall, InOrder, InPacket, Ahead
<1> QED  BY <1>1, <1>2, <1>3, <1>4, <1>5

LEMMA NextInv == RingInv /\ [Next]_vars => RingInv'
<1> SUFFICES ASSUME RingInv, [Next]_vars PROVE RingInv'
  OBVIOUS
<1>1. CASE UNCHANGED vars
  BY <1>1 DEF vars, hwVars, RingInv, TypeOK, InOrder, InPacket, Ahead
<1>2. CASE Next
  BY <1>2, BeginInv, WrapInv, ReserveInv, GiveUpInv, OutInv, AdvanceInv,
     FetchInv, RestartInv DEF Next, Driver
<1> QED  BY <1>1, <1>2

\* The inductive invariant: positions follow each other from the head on.
THEOREM Invariant == Spec => []RingInv
  BY InitInv, NextInv, PTL DEF Spec

\* Positions stay inside the ring whatever happens, waits that give up
\* included.
THEOREM TypeCorrect == Spec => []TypeOK
  BY Invariant, PTL DEF RingInv

\* The space the driver counts on is always there, for rings and packets of
\* every size and however the GPU reads.
THEOREM SpaceIsThere == Spec => []SpaceThere
<1>1. RingInv => SpaceThere
  <2> SUFFICES ASSUME RingInv, kept, running
               PROVE 0 <= space /\ space <= Room(tail)
    BY DEF SpaceThere
  <2>1. InOrder /\ Room(tail) = Size - Gap - Ahead(tail)
    BY RoomIs DEF RingInv, InOrder
  <2> QED  BY <2>1 DEF InOrder
<1> QED  BY <1>1, Invariant, PTL

\* What the GPU has not read lies before the published tail.
LEMMA UnreadAhead ==
    ASSUME TypeOK, NEW i \in Unread PROVE i \in Slot /\ Ahead(i) < Ahead(hwTail)
  BY DEF TypeOK, Unread, Between, Ahead, Slot

\* No wait for room having given up, the driver writes inside the ring only,
\* and never where the GPU has something to read.
THEOREM WritesAreFree == Spec => []WritesFree
<1>1. RingInv => WritesFree
  <2> SUFFICES ASSUME RingInv, kept PROVE WritesFree
    BY DEF WritesFree
  <2>1. ASSUME pc = "out", left > 0 PROVE woffset \in Slot \ Unread
    <3>1. InOrder /\ InPacket /\ TypeOK
      BY <2>1 DEF RingInv
    <3>2. woffset \in Slot /\ Ahead(hwTail) <= Ahead(woffset)
      BY <2>1, <3>1 DEF InPacket, TypeOK, Slot
    <3> QED  BY <3>1, <3>2, UnreadAhead DEF TypeOK, Ahead, Slot
  <2>2. ASSUME pc = "wrap", MayWrap(Size - tail), NEW i \in Unread
        PROVE woffset = tail /\ i < tail
    <3>1. InOrder /\ InPacket /\ TypeOK /\ Room(tail) = Size - Gap - Ahead(tail)
      BY <2>2, RoomIs DEF RingInv, InOrder
    <3>2. Size - tail <= Size - Gap - Ahead(tail)
      BY <2>2, <3>1 DEF MayWrap, TooLittle, InOrder, TypeOK, Slot, Ahead
    <3>3. hwTail = tail /\ woffset = tail
      BY <2>2, <3>1 DEF InPacket
    <3> QED  BY <3>1, <3>2, <3>3, UnreadAhead DEF TypeOK, Ahead, Slot
  <2>3. ASSUME pc = "wrap", MayWrap(Size - tail) PROVE woffset = tail
    BY <2>3 DEF RingInv, InPacket
  <2> QED  BY <2>1, <2>2, <2>3 DEF WritesFree
<1> QED  BY <1>1, Invariant, PTL

----------------------------------------------------------------------------
(* The ring is a queue.                                                    *)

\* What the ring object can hold, and the words of it that the GPU has still
\* to read.
Word == ((0..(Ids - 1)) \X Nat) \cup {Noop}
Given == From(head, hwTail)

\* Where a packet may start behind what was given: at once, or at the start
\* of the ring, with no-ops in between, because it did not fit.
StartsAt(a, n) ==
    \/ a = hwTail
    \/ /\ a = 0 /\ hwTail + n > Size
       /\ \A i \in Slot : i >= hwTail => mem[i] = Noop

\* The words of a packet of length n that are written already.
Written(n) ==
    /\ left <= n
    /\ n - left <= woffset
    /\ StartsAt(woffset - (n - left), n)
    /\ \A i \in Slot : woffset - (n - left) <= i /\ i < woffset =>
         mem[i] = <<id, left + woffset - i>>

\* What the driver has written since the last packet it gave to the GPU.
InRing ==
    kept /\ running =>
      /\ pc = "room" => StartsAt(tail, left)
      /\ pc = "out" => \E n \in Lengths : Written(n)

\* The words given are a sequence, as long as the way to the tail.
GivenOK ==
    /\ Given \in Seq(Word) /\ Len(Given) = Ahead(hwTail)
    /\ Ahead(hwTail) \in Nat /\ Ahead(hwTail) < Size
    /\ \A i \in 1..Ahead(hwTail) : /\ Given[i] = mem[Mask(head + i - 1)]
                                   /\ Mask(head + i - 1) \in Slot
                                   /\ Ahead(Mask(head + i - 1)) = i - 1
LEMMA GivenIs == TypeOK => GivenOK
<1> SUFFICES ASSUME TypeOK PROVE GivenOK
  OBVIOUS
<1>1. Ahead(hwTail) \in Nat /\ Ahead(hwTail) < Size
  BY DEF TypeOK, Ahead, Slot
<1>2. Distance(head, hwTail) = Ahead(hwTail)
  BY DEF TypeOK, Ahead, Slot, Distance
<1>3. ASSUME NEW i \in 1..Ahead(hwTail)
      PROVE  Mask(head + i - 1) \in Slot /\ Ahead(Mask(head + i - 1)) = i - 1
  BY <1>1, <1>3 DEF TypeOK, Slot, Mask, Ahead
<1>4. Given = [i \in 1..Ahead(hwTail) |-> mem[Mask(head + i - 1)]]
  BY <1>2 DEF Given, From
<1>5. \A i \in 1..Ahead(hwTail) : mem[Mask(head + i - 1)] \in Word
  BY <1>3 DEF TypeOK, Word
<1>6. Given \in [1..Ahead(hwTail) -> Word]
  BY <1>4, <1>5
<1>7. Given \in Seq(Word) /\ Len(Given) = Ahead(hwTail)
  BY <1>1, <1>6, SeqDef, LenProperties
<1> QED
  BY <1>1, <1>3, <1>4, <1>7 DEF GivenOK

\* They stay the same as long as nothing is written between head and tail.
LEMMA GivenStays ==
    ASSUME TypeOK, head' = head, hwTail' = hwTail,
           \A i \in Slot : Ahead(i) < Ahead(hwTail) => mem'[i] = mem[i]
    PROVE  Given' = Given
<1>1. Distance(head, hwTail)' = Distance(head, hwTail)
  BY DEF Distance
<1>2. Distance(head, hwTail) = Ahead(hwTail)
  BY DEF TypeOK, Ahead, Slot, Distance
<1>3. ASSUME NEW i \in 1..Ahead(hwTail)
      PROVE  mem'[Mask(head + i - 1)] = mem[Mask(head + i - 1)]
  BY <1>3, GivenIs DEF GivenOK
<1>4. Given' = [i \in 1..Ahead(hwTail) |-> mem'[Mask(head + i - 1)]]
  BY <1>1, <1>2 DEF Given, From, Mask
<1>5. Given = [i \in 1..Ahead(hwTail) |-> mem[Mask(head + i - 1)]]
  BY <1>2 DEF Given, From
<1> QED
  BY <1>3, <1>4, <1>5

\* The GPU reads the first of them.
LEMMA GivenRead ==
    ASSUME TypeOK, TypeOK', Fetch
    PROVE  Given # <<>> /\ Given' = Tail(Given)
<1>1. /\ Ahead(hwTail) > 0 /\ Ahead(hwTail)' = Ahead(hwTail) - 1
      /\ head' = Mask(head + 1) /\ hwTail' = hwTail /\ mem' = mem
  BY DEF Fetch, TypeOK, Ahead, Slot, Mask
<1>2. /\ Given \in Seq(Word) /\ Len(Given) = Ahead(hwTail)
      /\ Ahead(hwTail) \in Nat /\ Ahead(hwTail) < Size
      /\ \A i \in 1..Ahead(hwTail) : Given[i] = mem[Mask(head + i - 1)]
  BY GivenIs DEF GivenOK
<1>3. /\ (Given \in Seq(Word))' /\ Len(Given') = Ahead(hwTail) - 1
      /\ \A i \in 1..(Ahead(hwTail) - 1) :
           Given'[i] = mem[Mask(head' + i - 1)]
  <2>1. GivenOK'
    BY GivenIs, PTL
  <2> QED
    BY <1>1, <2>1 DEF GivenOK
<1>4. Given # <<>>
  BY <1>1, <1>2, EmptySeq
<1>5. /\ Tail(Given) \in Seq(Word) /\ Len(Tail(Given)) = Ahead(hwTail) - 1
      /\ \A i \in 1..(Ahead(hwTail) - 1) : Tail(Given)[i] = Given[i + 1]
  BY <1>2, <1>4, HeadTailProperties
<1>6. ASSUME NEW i \in 1..(Ahead(hwTail) - 1)
      PROVE  Given'[i] = Tail(Given)[i]
  <2>1. Mask(head' + i - 1) = Mask(head + (i + 1) - 1)
    BY <1>1, <1>2, <1>6 DEF Mask, TypeOK, Slot
  <2>2. i + 1 \in 1..Ahead(hwTail)
    BY <1>2, <1>6
  <2> QED
    BY <1>2, <1>3, <1>5, <1>6, <2>1, <2>2
<1> QED
  BY <1>3, <1>4, <1>5, <1>6, SeqEqual DEF Word

\* Where a packet that is written starts, and where the next tail is: behind
\* the words given and, if it did not fit there, the padding.
LEMMA Placed ==
    ASSUME RingInv, kept, running, pc = "out", left = 0,
           NEW n \in Lengths, Written(n)
    PROVE  \E m \in 0..Size :
             /\ Ahead(tail) = Ahead(hwTail) + m + n
             /\ \A i \in 1..m :
                  mem[Mask(head + Ahead(hwTail) + i - 1)] = Noop
             /\ \A i \in 1..n :
                  mem[Mask(head + Ahead(hwTail) + m + i - 1)]
                    = <<id, n + 1 - i>>
<1> DEFINE a == Ahead(hwTail)
<1>0. /\ n \in Nat /\ n > 0 /\ 2 * n <= Size /\ Size \in Nat /\ Size > 2
      /\ head \in Slot /\ hwTail \in Slot /\ tail \in Slot /\ woffset \in Nat
      /\ n <= woffset /\ woffset <= Size /\ tail = Mask(woffset)
      /\ Ahead(hwTail) <= Ahead(tail) /\ Ahead(tail) <= Size - 2
  BY SizeIs DEF RingInv, TypeOK, InOrder, InPacket, Written
<1>1. StartsAt(woffset - n, n)
  <2>1. woffset - (n - left) = woffset - n
    BY <1>0
  <2> QED
    BY <2>1 DEF Written
<1>2. \A i \in Slot : woffset - n <= i /\ i < woffset =>
        mem[i] = <<id, woffset - i>>
  <2>1. woffset - (n - left) = woffset - n
    BY <1>0
  <2>2. ASSUME NEW i \in Slot, woffset - n <= i, i < woffset
        PROVE  mem[i] = <<id, woffset - i>>
    <3>1. left + woffset - i = woffset - i
      BY <1>0 DEF Slot
    <3> QED
      BY <2>1, <2>2, <3>1 DEF Written
  <2> QED
    BY <2>2
<1>3. CASE woffset - n = hwTail
  <2>1. Ahead(tail) = a + 0 + n
    BY <1>0, <1>3 DEF Ahead, Slot, Mask
  <2>2. ASSUME NEW i \in 1..n
        PROVE  mem[Mask(head + a + 0 + i - 1)] = <<id, n + 1 - i>>
    <3>1. Mask(head + a + 0 + i - 1) = hwTail + i - 1
      BY <1>0, <1>3, <2>2 DEF Ahead, Slot, Mask
    <3>2. hwTail + i - 1 \in Slot /\ woffset - (hwTail + i - 1) = n + 1 - i
      BY <1>0, <1>3, <2>2 DEF Slot
    <3> QED
      BY <1>0, <1>2, <1>3, <3>1, <3>2 DEF Slot
  <2> QED
    BY <1>0, <2>1, <2>2
<1>4. CASE /\ woffset - n = 0 /\ hwTail + n > Size
           /\ \A i \in Slot : i >= hwTail => mem[i] = Noop
  <2> DEFINE m == Size - hwTail
  <2>0. m \in 0..Size /\ n < hwTail /\ woffset = n /\ tail = n
    BY <1>0, <1>4 DEF Slot, Mask
  <2>1. Ahead(tail) = a + m + n
    BY <1>0, <2>0 DEF Ahead, Slot
  <2>2. ASSUME NEW i \in 1..m
        PROVE  mem[Mask(head + a + i - 1)] = Noop
    <3>1. Mask(head + a + i - 1) = hwTail + i - 1
      BY <1>0, <2>0, <2>2 DEF Ahead, Slot, Mask
    <3>2. hwTail + i - 1 \in Slot /\ hwTail + i - 1 >= hwTail
      BY <1>0, <2>0, <2>2 DEF Slot
    <3> QED
      BY <1>4, <3>1, <3>2
  <2>3. ASSUME NEW i \in 1..n
        PROVE  mem[Mask(head + a + m + i - 1)] = <<id, n + 1 - i>>
    <3>1. Mask(head + a + m + i - 1) = i - 1
      <4>1. CASE hwTail >= head
        <5>1. head + a + m + i - 1 = Size + i - 1
          BY <1>0, <2>0, <2>3, <4>1 DEF Ahead, Slot
        <5> QED
          BY <1>0, <2>0, <2>3, <5>1 DEF Mask, Slot
      <4>2. CASE hwTail < head
        <5>1. FALSE
          BY <1>0, <2>0, <4>2 DEF Ahead, Slot
        <5> QED
          BY <5>1
      <4> QED
        BY <1>0, <4>1, <4>2 DEF Slot
    <3>2. i - 1 \in Slot /\ woffset - (i - 1) = n + 1 - i /\ i - 1 < woffset
      BY <1>0, <2>0, <2>3 DEF Slot
    <3> QED
      BY <1>0, <1>2, <1>4, <3>1, <3>2 DEF Slot
  <2> HIDE DEF m
  <2> QED
    BY <2>0, <2>1, <2>2, <2>3
<1> QED
  BY <1>1, <1>3, <1>4 DEF StartsAt

\* What the driver gives the GPU is one packet, behind padding or none.
LEMMA GivenMore ==
    ASSUME RingInv, TypeOK', InRing, kept, Advance
    PROVE  \E pad \in Padding, p \in Packet : Given' = (Given \o pad) \o p
<1>1. running /\ pc = "out" /\ left = 0 /\ TypeOK
  BY DEF RingInv, Advance
<1>2. PICK n \in Lengths : Written(n)
  BY <1>1 DEF InRing
<1>3. PICK m \in 0..Size :
             /\ Ahead(tail) = Ahead(hwTail) + m + n
             /\ \A i \in 1..m :
                  mem[Mask(head + Ahead(hwTail) + i - 1)] = Noop
             /\ \A i \in 1..n :
                  mem[Mask(head + Ahead(hwTail) + m + i - 1)]
                    = <<id, n + 1 - i>>
  BY <1>1, <1>2, Placed
<1> DEFINE a == Ahead(hwTail)
           pad == Noops(m)
           p == Words(n, id)
<1>4. /\ n \in Nat /\ n > 0 /\ m \in Nat /\ id \in 0..(Ids - 1)
      /\ head \in Slot
  BY <1>1, SizeIs DEF TypeOK
<1>5. /\ Given \in Seq(Word) /\ Len(Given) = a /\ a \in Nat
      /\ \A i \in 1..a : Given[i] = mem[Mask(head + i - 1)]
  BY <1>1, GivenIs DEF GivenOK
<1>6. /\ Given' \in Seq(Word) /\ Len(Given') = a + m + n
      /\ \A i \in 1..(a + m + n) : Given'[i] = mem[Mask(head + i - 1)]
  <2>1. GivenOK'
    BY GivenIs, PTL
  <2>2. Ahead(hwTail)' = Ahead(tail) /\ head' = head /\ mem' = mem
    BY DEF Advance, Published, Ahead
  <2> QED
    BY <1>3, <2>1, <2>2 DEF GivenOK, Word, Mask
<1>7. pad \in Seq(Word) /\ Len(pad) = m /\ \A i \in 1..m : pad[i] = Noop
  <2>1. pad \in [1..m -> Word] /\ m \in Nat
    BY DEF Noops, Word
  <2> QED
    BY <2>1, SeqDef, LenProperties DEF Noops
<1>8. /\ p \in Seq(Word) /\ Len(p) = n
      /\ \A i \in 1..n : p[i] = <<id, n + 1 - i>>
  <2>1. \A i \in 1..n : <<id, n + 1 - i>> \in Word
    BY <1>4 DEF Word
  <2>2. p \in [1..n -> Word] /\ \A i \in 1..n : p[i] = <<id, n + 1 - i>>
    BY <2>1 DEF Words
  <2> HIDE DEF p
  <2> QED
    BY <1>4, <2>2, SeqDef, LenProperties
<1> HIDE DEF pad, p, a
<1>9. /\ Given \o pad \in Seq(Word) /\ Len(Given \o pad) = a + m
      /\ \A i \in 1..(a + m) : (Given \o pad)[i] =
           IF i <= a THEN Given[i] ELSE pad[i - a]
  <2>1. /\ Given \o pad \in Seq(Word)
        /\ Len(Given \o pad) = Len(Given) + Len(pad)
        /\ \A i \in 1..(Len(Given) + Len(pad)) : (Given \o pad)[i] =
             IF i <= Len(Given) THEN Given[i] ELSE pad[i - Len(Given)]
    BY <1>5, <1>7, ConcatProperties
  <2> QED
    BY <1>5, <1>7, <2>1
<1>10. /\ (Given \o pad) \o p \in Seq(Word)
       /\ Len((Given \o pad) \o p) = a + m + n
       /\ \A i \in 1..(a + m + n) : ((Given \o pad) \o p)[i] =
            IF i <= a + m THEN (Given \o pad)[i] ELSE p[i - (a + m)]
  <2>1. LET q == Given \o pad IN
        /\ q \o p \in Seq(Word) /\ Len(q \o p) = Len(q) + Len(p)
        /\ \A i \in 1..(Len(q) + Len(p)) :
             (q \o p)[i] = IF i <= Len(q) THEN q[i] ELSE p[i - Len(q)]
    BY <1>8, <1>9, ConcatProperties
  <2> QED
    BY <1>8, <1>9, <2>1
<1>11. ASSUME NEW i \in 1..(a + m + n)
       PROVE  Given'[i] = ((Given \o pad) \o p)[i]
  <2>0. /\ a \in Int /\ m \in Int /\ n \in Int /\ i \in Int
        /\ 1 <= i /\ i <= a + m + n
    BY <1>4, <1>5, <1>11
  <2>1. CASE i <= a
    <3>1. i \in 1..a /\ i \in 1..(a + m) /\ i <= a + m
      BY <1>4, <2>0, <2>1
    <3>2. ((Given \o pad) \o p)[i] = Given[i]
      BY <1>9, <1>10, <1>11, <2>1, <3>1
    <3> QED
      BY <1>5, <1>6, <1>11, <3>1, <3>2
  <2>2. CASE a < i /\ i <= a + m
    <3>1. i - a \in 1..m /\ head + a + (i - a) - 1 = head + i - 1
      BY <1>4, <1>5, <1>11, <2>2 DEF Slot
    <3>2. mem[Mask(head + a + (i - a) - 1)] = Noop
      BY <1>3, <3>1 DEF a
    <3>3. ((Given \o pad) \o p)[i] = pad[i - a]
      BY <1>4, <1>5, <1>9, <1>10, <1>11, <2>2
    <3> QED
      BY <1>6, <1>7, <1>11, <3>1, <3>2, <3>3
  <2>3. CASE a + m < i
    <3>1. /\ i - (a + m) \in 1..n
          /\ head + a + m + (i - (a + m)) - 1 = head + i - 1
      BY <1>4, <1>5, <1>11, <2>3 DEF Slot
    <3>2. mem[Mask(head + a + m + (i - (a + m)) - 1)]
            = <<id, n + 1 - (i - (a + m))>>
      BY <1>3, <3>1 DEF a
    <3>3. ((Given \o pad) \o p)[i] = p[i - (a + m)]
      BY <1>4, <1>5, <1>10, <1>11, <2>3
    <3> QED
      BY <1>6, <1>8, <1>11, <3>1, <3>2, <3>3
  <2> QED
    <3>1. i <= a \/ (a < i /\ i <= a + m) \/ a + m < i
      BY <2>0
    <3> QED
      BY <3>1, <2>1, <2>2, <2>3
<1>12. Given' = (Given \o pad) \o p
  <2>1. /\ Len(Given') = Len((Given \o pad) \o p)
        /\ \A i \in 1..Len(Given') : Given'[i] = ((Given \o pad) \o p)[i]
    BY <1>6, <1>10, <1>11
  <2> QED
    BY <1>6, <1>10, <2>1, SeqEqual
<1> QED
  BY <1>2, <1>4, <1>12 DEF pad, p, Padding, Packet

\* Every step keeps what the driver has written.
LEMMA InRingStep ==
    ASSUME RingInv, RingInv', InRing, [Next]_vars
    PROVE  InRing'
<1>0. TypeOK /\ Size \in Nat /\ Size > 2
  BY SizeIs DEF RingInv
<1>1. ASSUME NEW n \in Lengths, Begin(n) PROVE InRing'
  BY <1>1 DEF RingInv, InPacket, Begin, InRing, StartsAt
<1>2. CASE Wrap
  <2>1. SUFFICES ASSUME kept, running PROVE StartsAt(tail, left)'
    BY <1>2 DEF Wrap, InRing, hwVars
  <2>2. woffset = tail /\ hwTail = tail /\ tail + left > Size
    BY <1>2, <2>1 DEF RingInv, InPacket, Wrap
  <2>3. /\ tail' = 0 /\ hwTail' = hwTail /\ left' = left
        /\ mem' = Padded(Size - tail)
    BY <1>2 DEF Wrap
  <2>4. ASSUME NEW i \in Slot, i >= hwTail PROVE mem'[i] = Noop
    BY <1>0, <2>2, <2>3, <2>4 DEF Padded, Slot, TypeOK
  <2> QED
    BY <2>2, <2>3, <2>4 DEF StartsAt
<1>3. CASE WrapGiveUp \/ ReserveGiveUp
  BY <1>3 DEF WrapGiveUp, ReserveGiveUp, TakeWords, InRing
<1>4. CASE Reserve
  <2>1. SUFFICES ASSUME kept, running PROVE Written(left)' /\ left \in Lengths
    BY <1>4 DEF Reserve, TakeWords, InRing, hwVars
  <2>2. /\ left \in Lengths /\ left \in Nat /\ tail \in Nat
        /\ StartsAt(tail, left)
    BY <1>0, <1>4, <2>1 DEF RingInv, InRing, Reserve, TypeOK, Slot
  <2>3. woffset' = tail /\ left' = left /\ hwTail' = hwTail /\ mem' = mem
    BY <1>4 DEF Reserve, TakeWords
  <2>4. woffset' - (left' - left') = tail
    BY <2>2, <2>3
  <2>5. StartsAt(woffset - (left - left), left)'
    BY <2>2, <2>3, <2>4 DEF StartsAt
  <2> QED
    BY <2>2, <2>3, <2>4, <2>5 DEF Written, Slot
<1>5. CASE Out
  <2>1. SUFFICES ASSUME kept, running,
                        NEW n \in Lengths, Written(n)
                 PROVE  Written(n)'
    BY <1>5 DEF Out, InRing, hwVars
  <2>2. /\ n \in Nat /\ n > 0 /\ left \in Nat /\ left > 0 /\ woffset \in Nat
        /\ hwTail \in Slot /\ woffset + left <= Size /\ 2 * n <= Size
        /\ left <= n /\ n - left <= woffset
    BY <1>0, <1>5, <2>1 DEF RingInv, InPacket, Out, TypeOK, Written
  <2>3. /\ woffset' = woffset + 1 /\ left' = left - 1 /\ hwTail' = hwTail
        /\ id' = id
        /\ mem' = [i \in Slot |->
                     IF i = woffset THEN <<id, left>> ELSE mem[i]]
    BY <1>5 DEF Out
  <2>4. /\ woffset' - (n - left') = woffset - (n - left)
        /\ left' <= n /\ n - left' <= woffset'
    BY <2>2, <2>3
  <2>5. ASSUME NEW i \in Slot, woffset - (n - left) <= i, i < woffset + 1
        PROVE  mem'[i] = <<id, left' + woffset' - i>>
    <3>1. CASE i = woffset
      <4>1. left' + woffset' - i = left
        BY <2>2, <2>3, <3>1
      <4> QED
        BY <2>3, <2>5, <3>1, <4>1
    <3>2. CASE i < woffset
      <4>1. left' + woffset' - i = left + woffset - i
        BY <2>2, <2>3 DEF Slot
      <4>2. mem[i] = <<id, left + woffset - i>>
        BY <2>1, <2>5, <3>2 DEF Written
      <4> QED
        BY <2>2, <2>3, <2>5, <3>2, <4>1, <4>2 DEF Slot
    <3> QED
      BY <2>2, <2>5, <3>1, <3>2 DEF Slot
  <2>6. StartsAt(woffset - (n - left), n)'
    <3>1. StartsAt(woffset - (n - left), n)
      BY <2>1 DEF Written
    <3>2. CASE woffset - (n - left) = hwTail
      BY <2>3, <2>4, <3>2 DEF StartsAt
    <3>3. CASE /\ woffset - (n - left) = 0 /\ hwTail + n > Size
               /\ \A i \in Slot : i >= hwTail => mem[i] = Noop
      <4>1. woffset < hwTail
        BY <1>0, <2>2, <3>3 DEF Slot
      <4>2. ASSUME NEW i \in Slot, i >= hwTail PROVE mem'[i] = Noop
        <5>1. i # woffset
          BY <2>2, <4>1, <4>2 DEF Slot
        <5> QED
          BY <2>3, <3>3, <4>2, <5>1
      <4> QED
        BY <2>3, <2>4, <3>3, <4>2 DEF StartsAt
    <3> QED
      BY <3>1, <3>2, <3>3 DEF StartsAt
  <2> QED
    BY <2>3, <2>4, <2>5, <2>6 DEF Written
<1>6. CASE Advance \/ Reset \/ Cleanup \/ CleanupGiveUp \/ InitRing
  BY <1>6
  DEF Advance, Reset, Cleanup, CleanupGiveUp, StopRing, InitRing, InRing
<1>7. CASE Fetch \/ Stall \/ UNCHANGED vars
  <2>1. UNCHANGED <<kept, running, pc, tail, left, woffset, hwTail, mem, id>>
    BY <1>7 DEF Fetch, Stall, vars, hwVars
  <2>2. \A n \in Lengths : Written(n) => Written(n)'
    BY <2>1 DEF Written, StartsAt
  <2> QED
    BY <2>1, <2>2 DEF InRing, StartsAt
<1> QED
  BY <1>1, <1>2, <1>3, <1>4, <1>5, <1>6, <1>7 DEF Next, Driver

\* What the driver writes before it gives the packet to the GPU does not touch
\* what it has given.
LEMMA WritesBehind ==
    ASSUME RingInv, RingInv', kept, Wrap \/ Out
    PROVE  Given' = Given
<1>0. TypeOK /\ Size \in Nat /\ Size > 2 /\ running
  BY SizeIs DEF RingInv, Wrap, Out
<1>1. InOrder /\ InPacket /\ head' = head /\ hwTail' = hwTail
  BY <1>0 DEF RingInv, Wrap, Out
<1>2. CASE Out
  <2>1. /\ Ahead(hwTail) <= Ahead(woffset)
        /\ mem' = [i \in Slot |->
                     IF i = woffset THEN <<id, left>> ELSE mem[i]]
    BY <1>1, <1>2 DEF InPacket, Out
  <2>2. \A i \in Slot : Ahead(i) < Ahead(hwTail) => mem'[i] = mem[i]
    BY <1>0, <2>1 DEF Ahead, TypeOK, Slot
  <2> QED
    BY <1>0, <1>1, <2>2, GivenStays
<1>3. CASE Wrap
  <2>1. /\ woffset = tail /\ hwTail = tail /\ mem' = Padded(Size - tail)
        /\ Room(tail) = Size - Gap - Ahead(tail)
    BY <1>0, <1>1, <1>3, RoomIs DEF InOrder, InPacket, Wrap
  <2>2. Size - tail <= Size - Gap - Ahead(tail)
    BY <1>0, <1>1, <1>3, <2>1
    DEF Wrap, MayWrap, TooLittle, InOrder, TypeOK, Slot, Ahead
  <2>3. ASSUME NEW i \in Slot, Ahead(i) < Ahead(hwTail) PROVE mem'[i] = mem[i]
    <3>1. i < woffset
      BY <1>0, <2>1, <2>2, <2>3 DEF Ahead, TypeOK, Slot
    <3> QED
      BY <1>0, <2>1, <2>3, <3>1 DEF Padded, TypeOK, Slot
  <2> QED
    BY <1>0, <1>1, <2>3, GivenStays
<1> QED
  BY <1>2, <1>3

\* A ring that has nothing to be read.
LEMMA NothingGiven == TypeOK /\ head = hwTail => Given = <<>>
<1> SUFFICES ASSUME TypeOK, head = hwTail PROVE Given = <<>>
  OBVIOUS
<1>1. GivenOK /\ Ahead(hwTail) = 0
  BY GivenIs DEF TypeOK, Ahead, Slot
<1> QED
  BY <1>1, EmptySeq DEF GivenOK

\* Every step of the ring is one of the queue, or nothing at all.
LEMMA QueueStep ==
    RingInv /\ RingInv' /\ InRing /\ [Next]_vars =>
      [Queue!Next]_<<IF kept /\ running THEN Given ELSE <<>>, kept>>
<1> DEFINE q == IF kept /\ running THEN Given ELSE <<>>
<1>0. SUFFICES ASSUME RingInv, RingInv', InRing, [Next]_vars
               PROVE  Queue!Next \/ (q' = q /\ kept' = kept)
  OBVIOUS
<1>1. TypeOK /\ TypeOK'
  BY <1>0 DEF RingInv
<1>2. ASSUME kept' = kept, running' = running, Given' = Given
      PROVE  q' = q /\ kept' = kept
  BY <1>2
<1>3. CASE Stall \/ UNCHANGED vars \/ Reserve \/ \E n \in Lengths : Begin(n)
  <2>1. /\ kept' = kept /\ running' = running /\ mem' = mem
        /\ head' = head /\ hwTail' = hwTail
    BY <1>3 DEF Stall, vars, hwVars, Reserve, TakeWords, Begin
  <2>2. Given' = Given
    BY <1>1, <2>1, GivenStays
  <2> QED
    BY <1>2, <2>1, <2>2
<1>4. CASE Wrap \/ Out
  <2>1. kept' = kept /\ running' = running
    BY <1>4 DEF Wrap, Out, hwVars
  <2>2. CASE kept
    BY <1>0, <1>2, <1>4, <2>1, <2>2, WritesBehind
  <2>3. CASE ~kept
    BY <2>1, <2>3
  <2> QED
    BY <2>2, <2>3
<1>5. CASE WrapGiveUp \/ ReserveGiveUp \/ CleanupGiveUp
  <2>1. kept' = FALSE
    BY <1>5 DEF WrapGiveUp, ReserveGiveUp, CleanupGiveUp
  <2> QED
    BY <2>1 DEF Queue!Next, Queue!Break
<1>6. CASE Advance
  <2>1. kept' = kept /\ running' = running
    BY <1>6 DEF Advance, hwVars
  <2>2. CASE kept
    <3>1. PICK pad \in Padding, p \in Packet : Given' = (Given \o pad) \o p
      BY <1>0, <1>1, <1>6, <2>2, GivenMore
    <3>2. running
      BY <1>0, <1>6 DEF RingInv, Advance
    <3>3. q = Given /\ q' = Given'
      BY <2>1, <2>2, <3>2
    <3>4. Queue!Submit(pad, p)
      BY <2>1, <3>1, <3>3 DEF Queue!Submit, Given
    <3> QED
      BY <2>2, <3>1, <3>4 DEF Queue!Next
  <2>3. CASE ~kept
    BY <2>1, <2>3
  <2> QED
    BY <2>2, <2>3
<1>7. CASE Fetch
  <2>1. kept' = kept /\ running' = running /\ running
    BY <1>7 DEF Fetch, hwVars
  <2>2. CASE kept
    <3>1. Given # <<>> /\ Given' = Tail(Given)
      BY <1>1, <1>7, GivenRead
    <3>2. q = Given /\ q' = Given'
      BY <2>1, <2>2
    <3>3. Queue!Execute
      BY <2>1, <3>1, <3>2 DEF Queue!Execute, Given
    <3> QED
      BY <2>2, <3>3 DEF Queue!Next
  <2>3. CASE ~kept
    BY <2>1, <2>3
  <2> QED
    BY <2>2, <2>3
<1>8. CASE Reset \/ InitRing
  <2>1. kept' = TRUE /\ head' = hwTail'
    BY <1>8 DEF Reset, InitRing
  <2>2. Given' = <<>>
    <3>1. GivenOK'
      BY <1>1, GivenIs, PTL
    <3>2. Ahead(hwTail)' = 0
      <4>1. head' = 0 /\ hwTail' = 0
        BY <1>8 DEF Reset, InitRing
      <4> QED
        BY <4>1 DEF Ahead
    <3>3. Given' \in Seq(Word) /\ Len(Given') = 0
      BY <3>1, <3>2 DEF GivenOK, Word
    <3> QED
      BY <3>3, EmptySeq
  <2>3. Queue!Start
    BY <2>1, <2>2 DEF Queue!Start, Given
  <2> QED
    BY <2>3 DEF Queue!Next
<1>9. CASE Cleanup
  <2>1. kept' = kept /\ running /\ running' = FALSE
    BY <1>9 DEF Cleanup, StopRing
  <2>2. CASE kept
    <3>1. hwTail = tail /\ Ahead(tail) <= Size - Gap
      BY <1>0, <1>9, <2>1, <2>2 DEF RingInv, InOrder, InPacket, Cleanup
    <3>2. head = hwTail
      BY <1>1, <1>9, <3>1, SizeIs DEF Cleanup, Room, TypeOK, Slot, Ahead
    <3> QED
      BY <1>1, <2>1, <3>2, NothingGiven
  <2>3. CASE ~kept
    BY <2>1, <2>3
  <2> QED
    BY <2>2, <2>3
<1> QED
  BY <1>0, <1>3, <1>4, <1>5, <1>6, <1>7, <1>8, <1>9 DEF Next, Driver

\* The words the driver has written are in the ring.
LEMMA InRingAlways == Spec => [](RingInv /\ InRing)
<1>1. Init => RingInv /\ InRing
  BY InitInv DEF Init, InRing
<1>2. RingInv /\ InRing /\ [Next]_vars => RingInv' /\ InRing'
  BY NextInv, InRingStep
<1> QED
  BY <1>1, <1>2, PTL DEF Spec

\* The ring is the queue of CommandQueue: what the driver gives to the GPU is
\* executed word by word, once, in order, and with nothing but no-ops between
\* two packets, for rings and packets of every size and whatever the GPU
\* stops for, until a wait for room gives up and again from the next start.
THEOREM IsAQueue == Spec => ImplementsQueue
<1>1. Init => Queue!Init
  <2>1. SUFFICES ASSUME Init PROVE Given = <<>> /\ kept = TRUE
    BY DEF Queue!Init, Given
  <2>2. TypeOK /\ head = hwTail /\ kept = TRUE
    BY <2>1, InitInv DEF RingInv, Init
  <2> QED
    BY <2>2, NothingGiven
<1> QED
  BY <1>1, QueueStep, InRingAlways, PTL
  DEF Spec, ImplementsQueue, Queue!Spec, Given
=============================================================================
