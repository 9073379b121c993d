-------------------------------- MODULE Ring --------------------------------
(***************************************************************************)
(* The ring buffer between the driver and the command streamer of the GPU  *)
(* (i915_drv.c: inteldrm_begin_ring, wrap_ring, wait_ring, out_ring,       *)
(* advance_ring, update_ring, start_ring and cleanup_ringbuffer).          *)
(*                                                                         *)
(* One packet at a time is written: BEGIN_LP_RING, OUT_RING ... and        *)
(* ADVANCE_LP_RING run under request_lock without sleeping, and what       *)
(* restarts or stops the ring has dev_lock and the kernel lock.  The GPU   *)
(* reads meanwhile, and moves the head.  All positions count 32-bit words. *)
(***************************************************************************)
EXTENDS Integers, Sequences

CONSTANTS
    Size,           \* ring.size
    Lengths,        \* lengths of packets, the arguments of BEGIN_LP_RING
    Ids             \* packets are numbered 0 .. Ids - 1, over and over

Gap == 2            \* the 8 bytes that keep a full ring from looking empty

ASSUME RingAssumption ==
    /\ Size \in Nat /\ Ids \in Nat \ {0}
    /\ Lengths \subseteq Nat \ {0} /\ \A n \in Lengths : 2 * n <= Size
    /\ Gap < Size

VARIABLES
    mem,            \* the words of the ring object
    head, hwTail,   \* PRB0_HEAD and PRB0_TAIL
    running,        \* PRB0_CTL: RING_VALID
    stalled,        \* the GPU waits for something, or hangs
    tail, woffset, space,       \* of struct inteldrm_ring
    pc, left,       \* where the driver is in a packet, and its words to go
    id,             \* the number of the packet
    kept            \* history: no wait for room has given up since the start

hwVars == <<running, stalled>>
vars == <<mem, head, hwTail, running, stalled, tail, woffset, space,
          pc, left, id, kept>>

Noop == <<-1, 0>>
Slot == 0..(Size - 1)

Init ==
    /\ mem = [i \in Slot |-> Noop]
    /\ head = 0 /\ hwTail = 0 /\ running = TRUE /\ stalled = FALSE
    /\ tail = 0 /\ woffset = 0 /\ space = Size - Gap
    /\ pc = "idle" /\ left = 0 /\ id = 0 /\ kept = TRUE

\* wait_ring and update_ring: what lies between the tail, with the gap, and
\* the head.
Room(t) == LET r == head - (t + Gap) IN IF r < 0 THEN r + Size ELSE r

\* tail &= ring.size - 1, for a size that is a power of two and a tail below
\* twice the size.
Mask(t) == IF t < Size THEN t ELSE t - Size

\* wrap_ring compares the signed space with the unsigned rest of the ring.
\* (The mutant does not look.)
TooLittleNever(rem) == FALSE
TooLittle(rem) == 0 <= space /\ space < rem

\* Either the count says there is room, or wait_ring finds it.
MayWrap(rem) == TooLittle(rem) => Room(tail) >= rem

\* bus_space_set_region_4 from woffset on.  (The mutant leaves the old words.)
PaddedNone(rem) == mem
Padded(rem) ==
    [i \in Slot |-> IF woffset <= i /\ i < woffset + rem THEN Noop ELSE mem[i]]

\* begin_ring.
Begin(n) ==
    /\ pc = "idle" /\ running
    /\ left' = n
    /\ pc' = IF tail + n > Size THEN "wrap" ELSE "room"
    /\ UNCHANGED <<mem, head, hwTail, hwVars, tail, woffset, space, id, kept>>

\* wrap_ring, with the room it wants or once wait_ring has found it: fill the
\* rest of the ring, and start over.
Wrap ==
    LET rem == Size - tail
        has == IF TooLittle(rem) THEN Room(tail) ELSE space IN
    /\ pc = "wrap"
    /\ MayWrap(rem)
    /\ space' = has - rem
    /\ mem' = Padded(rem)
    /\ tail' = 0
    /\ pc' = "room"
    /\ UNCHANGED <<head, hwTail, hwVars, woffset, left, id, kept>>

\* wait_ring gives up when the GPU has not moved for a while, and wrap_ring
\* returns with the tail where it was.
WrapGiveUp ==
    LET rem == Size - tail IN
    /\ pc = "wrap" /\ stalled /\ ~MayWrap(rem)
    /\ space' = Room(tail)
    /\ pc' = "room" /\ kept' = FALSE
    /\ UNCHANGED <<mem, head, hwTail, hwVars, tail, woffset, left, id>>

\* begin_ring takes the words of the packet.
TakeWords(has) ==
    /\ woffset' = tail
    /\ tail' = Mask(tail + left)
    /\ space' = has - left
    /\ pc' = "out"
    /\ UNCHANGED <<mem, head, hwTail, hwVars, left, id>>

Reserve ==
    LET has == IF space < left THEN Room(tail) ELSE space IN
    /\ pc = "room"
    /\ has >= left
    /\ TakeWords(has)
    /\ kept' = kept

\* The same after wait_ring has given up: its result is not looked at.
ReserveGiveUp ==
    /\ pc = "room" /\ stalled
    /\ space < left /\ Room(tail) < left
    /\ TakeWords(Room(tail))
    /\ kept' = FALSE

\* out_ring.  A word beyond the end is not in the ring at all.
Out ==
    /\ pc = "out" /\ left > 0
    /\ mem' = [i \in Slot |-> IF i = woffset THEN <<id, left>> ELSE mem[i]]
    /\ woffset' = woffset + 1
    /\ left' = left - 1
    /\ UNCHANGED <<head, hwTail, hwVars, tail, space, pc, id, kept>>

\* advance_ring writes the tail register.  (The mutant does not.)
PublishedNot == hwTail
Published == tail
Advance ==
    /\ pc = "out" /\ left = 0
    /\ hwTail' = Published
    /\ pc' = "idle"
    /\ id' = (id + 1) % Ids
    /\ UNCHANGED <<mem, head, hwVars, tail, woffset, space, left, kept>>

\* The command streamer executes the word at the head.
Fetch ==
    /\ running /\ ~stalled /\ head # hwTail
    /\ head' = Mask(head + 1)
    /\ UNCHANGED <<mem, hwTail, hwVars, tail, woffset, space, pc, left, id,
                   kept>>

\* It stops for a while, or for good.
Stall ==
    /\ running /\ stalled' = ~stalled
    /\ UNCHANGED <<mem, head, hwTail, running, tail, woffset, space, pc, left,
                   id, kept>>

\* start_ring after a GPU reset: registers and driver start at 0.
Restarted == tail' = 0 /\ space' = Size - Gap
Reset ==
    /\ pc = "idle" /\ running
    /\ head' = 0 /\ hwTail' = 0 /\ stalled' = FALSE /\ kept' = TRUE
    /\ Restarted
    /\ UNCHANGED <<mem, running, woffset, pc, left, id>>

\* cleanup_ringbuffer, after update_ring, waits for the ring to be empty, or
\* gives up, and turns it off.
StopRing ==
    /\ tail' = 0 /\ woffset' = 0 /\ space' = 0
    /\ running' = FALSE /\ stalled' = FALSE
    /\ UNCHANGED <<mem, head, hwTail, pc, left, id>>

Cleanup ==
    /\ pc = "idle" /\ running /\ Room(hwTail) >= Size - Gap
    /\ StopRing
    /\ kept' = kept

CleanupGiveUp ==
    /\ pc = "idle" /\ running /\ stalled /\ Room(hwTail) < Size - Gap
    /\ StopRing
    /\ kept' = FALSE

\* init_ringbuffer: a new object, full of zeros.
InitRing ==
    /\ pc = "idle" /\ ~running
    /\ mem' = [i \in Slot |-> Noop]
    /\ head' = 0 /\ hwTail' = 0 /\ running' = TRUE /\ kept' = TRUE
    /\ Restarted
    /\ UNCHANGED <<stalled, woffset, pc, left, id>>

Driver == \/ \E n \in Lengths : Begin(n)
          \/ Wrap \/ WrapGiveUp \/ Reserve \/ ReserveGiveUp \/ Out \/ Advance
          \/ Reset \/ Cleanup \/ CleanupGiveUp \/ InitRing

Next == Driver \/ Fetch \/ Stall

Spec == Init /\ [][Next]_vars

\* A GPU that can read, however often it stops in between, reads on, and the
\* driver is not preempted for ever.
FairSpec ==
    /\ Spec
    /\ SF_vars(Fetch) /\ WF_vars(Wrap \/ WrapGiveUp)
    /\ WF_vars(Reserve \/ ReserveGiveUp) /\ WF_vars(Out) /\ WF_vars(Advance)

----------------------------------------------------------------------------
\* The slots from a to b, going up and around.
Between(a, b) == IF a <= b THEN {i \in Slot : a <= i /\ i < b}
                           ELSE {i \in Slot : i >= a \/ i < b}

\* What the GPU has been given and not read.
Unread == Between(head, hwTail)

TypeOK ==
    /\ mem \in [Slot -> ((0..(Ids - 1)) \X Nat) \cup {Noop}]
    /\ head \in Slot /\ hwTail \in Slot /\ tail \in Slot
    /\ running \in BOOLEAN /\ stalled \in BOOLEAN /\ kept \in BOOLEAN
    /\ woffset \in Nat /\ space \in Int /\ left \in Nat
    /\ id \in 0..(Ids - 1)
    /\ pc \in {"idle", "wrap", "room", "out"}

\* The space the driver counts on is there: it is less than what separates its
\* tail from the head, however far the GPU has come since it was read.  This
\* is about the counting of begin_ring and wrap_ring, which read the head only
\* when the count is too small.
SpaceThere == kept /\ running => 0 <= space /\ space <= Room(tail)

\* A word is only ever written where the GPU has nothing to read, and inside
\* the ring, as out_ring's comment promises ("don't need to deal with wrap
\* here because we padded the ring out if we would wrap"): unless a wait for
\* room has given up.
WritesFree ==
    kept => /\ pc = "out" /\ left > 0 => woffset \in Slot \ Unread
            /\ pc = "wrap" /\ MayWrap(Size - tail) =>
                   woffset = tail /\ \A i \in Unread : i < tail

\* How many words come before b, going up and around from a; and these words.
Distance(a, b) == IF a <= b THEN b - a ELSE b - a + Size
From(a, b) == [i \in 1..Distance(a, b) |-> mem[Mask(a + i - 1)]]

Words(n, k) == [i \in 1..n |-> <<k, n + 1 - i>>]
Packet == {Words(n, k) : n \in Lengths, k \in 0..(Ids - 1)}
Noops(n) == [i \in 1..n |-> Noop]
Padding == {Noops(n) : n \in 0..Size}

Queue == INSTANCE CommandQueue WITH
             queue <- IF kept /\ running THEN From(head, hwTail) ELSE <<>>

\* The ring is the queue of the abstract specification: no word is lost,
\* changed, executed twice or out of order, and nothing but no-ops comes between
\* two packets, through any number of wraps, restarts and stops, as long as no
\* wait for room gives up.
ImplementsQueue == Queue!Spec

\* BEGIN_LP_RING comes back and its packet gets out: the wait for room ends
\* with the GPU or without it.
PacketsEnd == pc # "idle" ~> pc = "idle"
=============================================================================
