------------------------------ MODULE MmapRing ------------------------------
(***************************************************************************)
(* The shared memory ring that carries pixels to a local client:           *)
(* mmap_write(), mmap_read() and read_pointer() in xpra/net/mmap/io.py.    *)
(*                                                                         *)
(* The area starts with two pointers of 4 bytes.  data_end is moved by the *)
(* writer (the server's encode thread), data_start by the reader (the      *)
(* client).  A write yields one or two chunks, whose offsets and lengths   *)
(* are sent to the client in a draw packet.  The client's decode thread    *)
(* calls mmap_read() on each packet in turn: two chunks are copied and     *)
(* freed at once, one chunk is used in place and freed later, by the paint *)
(* callback that runs in the client's UI thread.                           *)
(***************************************************************************)
EXTENDS Integers, Sequences

CONSTANTS
    MmapSize,      \* size of the area, header included
    Sizes,         \* sizes of the data written
    MaxWrites,     \* bound: number of writes
    ALWAYS_WRAP    \* the environment option of that name

HeaderSize == 8

ASSUME MmapSizeAssumption == MmapSize \in Nat /\ MmapSize > HeaderSize
ASSUME SizesAssumption == Sizes \subseteq (Nat \ {0})
ASSUME MaxWritesAssumption == MaxWrites \in Nat
ASSUME AlwaysWrapAssumption == ALWAYS_WRAP \in BOOLEAN

VARIABLES
    data_start,    \* the reader's pointer, 0 before it is first moved
    data_end,      \* the writer's pointer, 0 before it is first moved
    writes,        \* the chunks of every write, oldest first
    status,        \* of each write: "sent", "held" by a painter, "done"
    filled,        \* history: some write took all of the available space
    overtook       \* history: a copied read freed past a chunk in use

vars == <<data_start, data_end, writes, status, filled, overtook>>

\* One write: its first chunk, and the second one when it was split (the
\* second chunk, always at the start of the data, may be empty).
Write == [offset : Nat, length : Nat, split : BOOLEAN, rest : Nat]

\* read_pointer(): a pointer that was never moved stands for the first byte.
read_pointer(value) == IF value < HeaderSize THEN HeaderSize ELSE value

Start == read_pointer(data_start)
End == read_pointer(data_end)

\* Mutant of Available: a writer that has wrapped around is not told apart.
AvailableUnwrapped == (MmapSize - End) + (Start - HeaderSize)

\* The space of the first chunk, from data_end, and all of the space available.
Chunk == IF End < Start THEN Start - End ELSE MmapSize - End
Available == IF End < Start THEN Start - End ELSE Chunk + (Start - HeaderSize)

\* mmap_free_size() tells the statistics how much is left.
mmap_free_size ==
    IF End < Start THEN Start - End ELSE (Start - HeaderSize) + (MmapSize - End)

Init ==
    /\ data_start = 0
    /\ data_end = 0
    /\ writes = <<>>
    /\ status = <<>>
    /\ filled = FALSE
    /\ overtook = FALSE

\* "still plenty of free space, don't wrap around: just start again"
StartAgain(size) ==
    /\ ~ALWAYS_WRAP
    /\ Available >= MmapSize \div 2
    /\ Available >= size * 3
    /\ size < Start - HeaderSize

\* Mutant of ChunksOf: the data is never split.
ChunksUnsplit(size) == [offset |-> End, length |-> size, split |-> FALSE, rest |-> 0]

\* The chunks mmap_write() uses for data that fits in the available space.
ChunksOf(size) ==
    IF size < Chunk
        THEN [offset |-> End, length |-> size, split |-> FALSE, rest |-> 0]
    ELSE IF StartAgain(size)
        THEN [offset |-> HeaderSize, length |-> size, split |-> FALSE, rest |-> 0]
    ELSE [offset |-> End, length |-> Chunk, split |-> TRUE, rest |-> size - Chunk]

\* Where a write ends, which is where the pointer goes that follows it.
EndOf(w) == IF w.split THEN HeaderSize + w.rest ELSE w.offset + w.length

\* Data that does not fit in the area, or in what is free, is not written.
Fits(size) == size <= MmapSize - HeaderSize /\ size <= Available

mmap_write(size) ==
    /\ Len(writes) < MaxWrites
    /\ Fits(size)
    /\ writes' = Append(writes, ChunksOf(size))
    /\ status' = Append(status, "sent")
    /\ data_end' = EndOf(ChunksOf(size))
    /\ filled' = (filled \/ size = Available)
    /\ UNCHANGED <<data_start, overtook>>

\* Mutant of FreedUpTo: the pointer is moved to the data instead of past it.
FreedNothing(w) == w.offset

\* What the reader stores in data_start once it is done with a write.
FreedUpTo(w) == EndOf(w)

Oldest(i, s) == status[i] = s /\ \A j \in 1..(i - 1) : status[j] # s

\* mmap_read() of one chunk: a zero copy buffer, freed by the paint callback.
ReadInPlace(i) ==
    /\ Oldest(i, "sent")
    /\ ~writes[i].split
    /\ status' = [status EXCEPT ![i] = "held"]
    /\ UNCHANGED <<data_start, data_end, writes, filled, overtook>>

\* mmap_read() of two chunks: the data is copied and the space freed at once.
ReadCopy(i) ==
    /\ Oldest(i, "sent")
    /\ writes[i].split
    /\ status' = [status EXCEPT ![i] = "done"]
    /\ data_start' = FreedUpTo(writes[i])
    /\ overtook' = (overtook \/ \E j \in DOMAIN status : status[j] = "held")
    /\ UNCHANGED <<data_end, writes, filled>>

\* free_mem(), called when the paint is done; paints run in their order.
free_mem(i) ==
    /\ Oldest(i, "held")
    /\ status' = [status EXCEPT ![i] = "done"]
    /\ data_start' = FreedUpTo(writes[i])
    /\ UNCHANGED <<data_end, writes, filled, overtook>>

Next ==
    \/ \E size \in Sizes : mmap_write(size)
    \/ \E i \in DOMAIN writes : ReadInPlace(i) \/ ReadCopy(i) \/ free_mem(i)

Spec == Init /\ [][Next]_vars

-----------------------------------------------------------------------------
TypeOK ==
    /\ data_start \in Nat /\ data_end \in Nat
    /\ writes \in Seq(Write)
    /\ status \in Seq({"sent", "held", "done"}) /\ Len(status) = Len(writes)
    /\ filled \in BOOLEAN /\ overtook \in BOOLEAN

\* The bytes of the area that a write occupies until it is done.
Occupies(w, byte) ==
    \/ w.offset <= byte /\ byte < w.offset + w.length
    \/ w.split /\ HeaderSize <= byte /\ byte < HeaderSize + w.rest

Outstanding(i) == status[i] # "done"

\* No byte belongs to two writes that the client has not finished with: what
\* was sent and not read yet, or is being painted, is not written over.
Intact ==
    \A i, j \in DOMAIN writes : i < j /\ Outstanding(i) /\ Outstanding(j) =>
        \A byte \in 0..MmapSize : ~(Occupies(writes[i], byte) /\ Occupies(writes[j], byte))

\* The same, as long as no write has filled the area to the last byte and no
\* copied read has freed the space of a chunk still being painted.
SafeIntact == ~filled /\ ~overtook => Intact

\* The same for a reader that paints each packet before it reads the next one.
InOrderIntact == ~overtook => Intact

\* Chunks lie within the area, clear of its header: validate_chunks() accepts
\* them, and the pointers are in the range that read_pointer() accepts.
WithinArea ==
    /\ Start \in HeaderSize..MmapSize /\ End \in HeaderSize..MmapSize
    /\ \A i \in DOMAIN writes :
        /\ writes[i].offset >= HeaderSize
        /\ writes[i].offset + writes[i].length <= MmapSize
        /\ HeaderSize + writes[i].rest <= MmapSize

\* Once everything that was written has been read and freed, in order, all of
\* the area is available again.
AllFreed ==
    (~filled /\ ~overtook /\ \A i \in DOMAIN status : status[i] = "done")
        => Available = MmapSize - HeaderSize /\ mmap_free_size = Available
=============================================================================
