--------------------------- MODULE MmapRingProofs ---------------------------
(***************************************************************************)
(* Proofs about MmapRing, for every size of the area and of the writes.    *)
(*                                                                         *)
(* Chunks stay within the area in every state.  That no byte is shared by  *)
(* two writes in use needs a description of the whole ring.  While data_end *)
(* is not before data_start the writes in use lie between the two pointers,*)
(* in order.  Once it has wrapped around, some of them lie ahead of        *)
(* data_start, then at most one is split across the end of the area, and   *)
(* the rest lie at the front, before data_end.  A reader that is done with *)
(* the oldest of them moves data_start to the next.                        *)
(***************************************************************************)
EXTENDS MmapRing, TLAPS

\* A pointer is unset, or within the area.
Pointer == {0} \cup (HeaderSize..MmapSize)

\* A write lies within the area.
Inside(w) ==
    /\ w.offset >= HeaderSize
    /\ w.offset + w.length <= MmapSize
    /\ HeaderSize + w.rest <= MmapSize

\* Everything lies within the area.
Bounded ==
    /\ data_start \in Pointer /\ data_end \in Pointer
    /\ \A i \in 1..Len(writes) : Inside(writes[i])

\* The packets are read in order: what is being painted was sent before what
\* was not read yet.
HeldFirst ==
    \A i, j \in 1..Len(writes) : i < j /\ status[j] = "held" => status[i] # "sent"

\* The writes that are done come before those in use.
DonePrefix ==
    \A i, j \in 1..Len(writes) : i < j /\ status[j] = "done" => status[i] = "done"

\* The pointers after a write: data_end follows it, and so does data_start once
\* everything was read.
EndFollows ==
    /\ End < MmapSize
    /\ Len(writes) > 0 => End = EndOf(writes[Len(writes)])
    /\ (\A i \in 1..Len(writes) : ~Outstanding(i)) => Start = End

\* Where a write in use may lie.
Placed(w) ==
    IF End < Start
    THEN \/ w.split /\ Start <= w.offset /\ HeaderSize + w.rest <= End
         \/ ~w.split /\ (Start <= w.offset \/ w.offset + w.length <= End)
    ELSE ~w.split /\ Start <= w.offset /\ w.offset + w.length <= End

AllPlaced == \A i \in 1..Len(writes) : Outstanding(i) => Placed(writes[i])

\* A write that lies between data_start and the end of the area.
Ahead(v) == ~v.split /\ Start <= v.offset

\* The order of two writes in use.
Follows(v, w) ==
    IF Ahead(v)
    THEN w.offset < Start \/ EndOf(v) <= w.offset
    ELSE w.offset < Start /\ EndOf(v) <= w.offset

AllOrdered ==
    \A i, j \in 1..Len(writes) :
        i < j /\ Outstanding(i) /\ Outstanding(j) => Follows(writes[i], writes[j])

Ring == DonePrefix /\ EndFollows /\ AllPlaced /\ AllOrdered

\* The inductive invariant.
IInv == TypeOK /\ Bounded /\ HeldFirst /\ (~filled /\ ~overtook => Ring)

-----------------------------------------------------------------------------
\* read_pointer() yields positions within the area.
LEMMA Pointers == Bounded => Start \in HeaderSize..MmapSize /\ End \in HeaderSize..MmapSize
  BY MmapSizeAssumption DEF Bounded, Pointer, Start, End, read_pointer, HeaderSize

\* Starting again at the front is only done before data_start.
LEMMA FrontIsFree ==
    ASSUME NEW size, StartAgain(size)
    PROVE  size < Start - HeaderSize
  BY DEF StartAgain

\* The three ways in which mmap_write() places its data.
LEMMA Placements ==
    ASSUME Bounded, NEW size \in Nat, Fits(size), NEW w, w = ChunksOf(size)
    PROVE  /\ w \in Write
           /\ \/ /\ ~w.split /\ w.offset = End /\ w.length = size /\ w.rest = 0
                 /\ size < Chunk
              \/ /\ ~w.split /\ w.offset = HeaderSize /\ w.length = size /\ w.rest = 0
                 /\ size >= Chunk /\ size < Start - HeaderSize
              \/ /\ w.split /\ w.offset = End /\ w.length = Chunk
                 /\ w.rest = size - Chunk /\ size >= Chunk
<1>1. Start \in Nat /\ End \in Nat /\ Chunk \in Nat
  BY Pointers, MmapSizeAssumption DEF HeaderSize, Chunk
<1>2. CASE size < Chunk
  BY <1>1, <1>2 DEF ChunksOf, Write
<1>3. CASE ~(size < Chunk) /\ StartAgain(size)
  <2>1. size < Start - HeaderSize
    BY <1>3, FrontIsFree
  <2>2. w = [offset |-> HeaderSize, length |-> size, split |-> FALSE, rest |-> 0]
    BY <1>3 DEF ChunksOf
  <2> QED
    BY <1>1, <1>3, <2>1, <2>2 DEF Write, HeaderSize
<1>4. CASE ~(size < Chunk) /\ ~StartAgain(size)
  <2>1. w = [offset |-> End, length |-> Chunk, split |-> TRUE, rest |-> size - Chunk]
    BY <1>4 DEF ChunksOf
  <2>2. size - Chunk \in Nat
    BY <1>1, <1>4
  <2> QED
    BY <1>1, <1>4, <2>1, <2>2 DEF Write
<1> QED
  BY <1>2, <1>3, <1>4

\* What mmap_write() stores lies within the area, whatever room there is.
LEMMA WriteInside ==
    ASSUME Bounded, NEW size \in Nat \ {0}, Fits(size), NEW w, w = ChunksOf(size)
    PROVE  Inside(w) /\ EndOf(w) \in HeaderSize..MmapSize
<1> USE DEF HeaderSize
<1>1. Start \in 8..MmapSize /\ End \in 8..MmapSize /\ MmapSize \in Nat
  BY Pointers, MmapSizeAssumption
<1>2. w.offset \in Nat /\ w.length \in Nat /\ w.rest \in Nat
  BY Placements DEF Write
<1>3. CASE ~w.split
  BY <1>1, <1>2, <1>3, Placements DEF Inside, EndOf, Chunk
<1>4. CASE w.split
  BY <1>1, <1>2, <1>4, Placements DEF Inside, EndOf, Chunk, Fits, Available
<1> QED
  BY <1>3, <1>4

\* A write ends at a position.
LEMMA EndOfType == ASSUME NEW w \in Write PROVE EndOf(w) \in Nat
<1>1. w.offset \in Nat /\ w.length \in Nat /\ w.rest \in Nat
  BY DEF Write
<1>2. HeaderSize + w.rest \in Nat /\ w.offset + w.length \in Nat
  BY <1>1 DEF HeaderSize
<1> QED
  BY <1>2, Zenon DEF EndOf

\* What a read is done with lies within the area.
LEMMA ReadInside ==
    ASSUME TypeOK, Bounded, NEW i \in 1..Len(writes)
    PROVE  FreedUpTo(writes[i]) \in HeaderSize..MmapSize
<1> USE DEF HeaderSize
<1>1. writes[i] \in Write /\ Inside(writes[i]) /\ MmapSize \in Nat
  BY MmapSizeAssumption DEF TypeOK, Bounded
<1> QED
  BY <1>1 DEF FreedUpTo, EndOf, Inside, Write

\* What mmap_write() changes, entry by entry.
Appended(size, w) ==
    /\ w = ChunksOf(size) /\ Fits(size) /\ size \in Nat \ {0}
    /\ writes' \in Seq(Write)
    /\ Len(writes') = Len(writes) + 1 /\ Len(writes) \in Nat
    /\ \A k \in 1..Len(writes) : writes'[k] = writes[k]
    /\ writes'[Len(writes) + 1] = w
    /\ status' \in Seq({"sent", "held", "done"})
    /\ Len(status') = Len(writes')
    /\ \A k \in 1..Len(writes) : status'[k] = status[k]
    /\ status'[Len(writes) + 1] = "sent"
    /\ data_end' = EndOf(w) /\ data_start' = data_start
    /\ filled' = (filled \/ size = Available) /\ overtook' = overtook

\* mmap_write() keeps the invariant.
LEMMA WriteStep ==
    ASSUME TypeOK, Bounded, NEW size \in Sizes, mmap_write(size)
    PROVE  \E w \in Write : Appended(size, w)
<1> DEFINE w == ChunksOf(size)
<1>1. size \in Nat \ {0} /\ Fits(size)
  BY SizesAssumption DEF mmap_write
<1>2. w \in Write
  BY <1>1, Placements
<1> HIDE DEF w
<1>3. /\ writes' = Append(writes, w) /\ status' = Append(status, "sent")
      /\ data_end' = EndOf(w) /\ data_start' = data_start
      /\ filled' = (filled \/ size = Available) /\ overtook' = overtook
  BY DEF mmap_write, w
<1>4. /\ writes' \in Seq(Write) /\ Len(writes') = Len(writes) + 1 /\ Len(writes) \in Nat
      /\ \A k \in 1..Len(writes) : writes'[k] = writes[k]
      /\ writes'[Len(writes) + 1] = w
  BY <1>2, <1>3 DEF TypeOK
<1>5. /\ status' \in Seq({"sent", "held", "done"}) /\ Len(status') = Len(writes) + 1
      /\ \A k \in 1..Len(writes) : status'[k] = status[k]
      /\ status'[Len(writes) + 1] = "sent"
  BY <1>3 DEF TypeOK
<1> QED
  BY <1>1, <1>2, <1>3, <1>4, <1>5 DEF w, Appended

\* What a read or the end of a paint changes in the status of the writes.
LEMMA StatusStep ==
    ASSUME TypeOK, NEW i \in DOMAIN writes, NEW s \in {"held", "done"},
           status' = [status EXCEPT ![i] = s]
    PROVE  /\ i \in 1..Len(writes) /\ Len(writes) \in Nat
           /\ status' \in Seq({"sent", "held", "done"}) /\ Len(status') = Len(writes)
           /\ status'[i] = s
           /\ \A k \in 1..Len(writes) : k # i => status'[k] = status[k]
  BY DEF TypeOK

\* Types, bounds and the order of the reads are kept by every step.
LEMMA BoundedInductive ==
    TypeOK /\ Bounded /\ HeldFirst /\ [Next]_vars => TypeOK' /\ Bounded' /\ HeldFirst'
<1> SUFFICES ASSUME TypeOK, Bounded, HeldFirst, [Next]_vars
             PROVE  TypeOK' /\ Bounded' /\ HeldFirst'
  OBVIOUS
<1>1. ASSUME NEW size \in Sizes, mmap_write(size) PROVE TypeOK' /\ Bounded' /\ HeldFirst'
  <2>1. PICK w \in Write : Appended(size, w)
    BY <1>1, WriteStep
  <2>2. Inside(w) /\ EndOf(w) \in HeaderSize..MmapSize
    BY <2>1, WriteInside DEF Appended
  <2>3. TypeOK'
    BY <2>1, <2>2, MmapSizeAssumption DEF Appended, TypeOK, HeaderSize
  <2>4. Bounded'
    BY <2>1, <2>2 DEF Appended, Bounded, Pointer, Inside
  <2>5. HeldFirst'
    BY <2>1 DEF Appended, HeldFirst
  <2> QED
    BY <2>3, <2>4, <2>5
<1>2. ASSUME NEW i \in DOMAIN writes, ReadInPlace(i) PROVE TypeOK' /\ Bounded' /\ HeldFirst'
  <2>1. status' = [status EXCEPT ![i] = "held"] /\ Oldest(i, "sent")
        /\ UNCHANGED <<data_start, data_end, writes, filled, overtook>>
    BY <1>2 DEF ReadInPlace
  <2>2. /\ i \in 1..Len(writes) /\ Len(writes) \in Nat
        /\ status' \in Seq({"sent", "held", "done"}) /\ Len(status') = Len(writes)
        /\ status'[i] = "held"
        /\ \A k \in 1..Len(writes) : k # i => status'[k] = status[k]
    BY <2>1, StatusStep
  <2> QED
    BY <2>1, <2>2 DEF TypeOK, Bounded, Inside, HeldFirst, Oldest
<1>3. ASSUME NEW i \in DOMAIN writes, ReadCopy(i) \/ free_mem(i)
      PROVE  TypeOK' /\ Bounded' /\ HeldFirst'
  <2>1. status' = [status EXCEPT ![i] = "done"] /\ data_start' = FreedUpTo(writes[i])
        /\ UNCHANGED <<data_end, writes, filled>> /\ overtook' \in BOOLEAN
    BY <1>3 DEF ReadCopy, free_mem, TypeOK
  <2>2. /\ i \in 1..Len(writes) /\ Len(writes) \in Nat
        /\ status' \in Seq({"sent", "held", "done"}) /\ Len(status') = Len(writes)
        /\ status'[i] = "done"
        /\ \A k \in 1..Len(writes) : k # i => status'[k] = status[k]
    BY <2>1, StatusStep
  <2>3. FreedUpTo(writes[i]) \in HeaderSize..MmapSize
    BY <2>2, ReadInside
  <2> QED
    BY <2>1, <2>2, <2>3, MmapSizeAssumption
    DEF TypeOK, Bounded, Pointer, Inside, HeldFirst, HeaderSize
<1>4. CASE UNCHANGED vars
  BY <1>4 DEF vars, TypeOK, Bounded, Inside, HeldFirst
<1> QED
  BY <1>1, <1>2, <1>3, <1>4 DEF Next

-----------------------------------------------------------------------------
\* A write that leaves a byte keeps the ring in order.
LEMMA RingWrite ==
    ASSUME TypeOK, Bounded, Ring, NEW size, NEW w \in Write, Appended(size, w),
           size # Available
    PROVE  Ring'
<1> USE DEF HeaderSize
<1>1. Start \in 8..MmapSize /\ End \in 8..MmapSize /\ MmapSize \in Nat /\ size \in Nat \ {0}
  BY Pointers, MmapSizeAssumption DEF Appended
<1>2. EndOf(w) \in 8..MmapSize
  BY WriteInside DEF Appended
<1>3. Start' = Start /\ End' = EndOf(w)
  BY <1>2 DEF Appended, Start, End, read_pointer
<1>4. w.offset \in Nat /\ w.length \in Nat /\ w.rest \in Nat /\ w.split \in BOOLEAN
  BY DEF Write
<1>5. \/ /\ ~w.split /\ w.offset = End /\ w.length = size /\ size < Chunk
      \/ /\ ~w.split /\ w.offset = 8 /\ w.length = size /\ End >= Start
         /\ size < Start - 8
      \/ /\ w.split /\ w.offset = End /\ w.rest = size - Chunk /\ size >= Chunk
         /\ End >= Start
  BY <1>1, Placements DEF Appended, Fits, Available, Chunk
<1>6. size < Available
  BY <1>1 DEF Appended, Fits, Available, Chunk
<1>7. End' < MmapSize /\ Placed(w)'
  BY <1>1, <1>3, <1>4, <1>5, <1>6 DEF EndOf, Placed, Chunk, Available
<1>8. ASSUME NEW v \in Write, Inside(v), Placed(v) PROVE Placed(v)' /\ Follows(v, w)'
  <2>1. v.offset \in Nat /\ v.length \in Nat /\ v.rest \in Nat /\ v.split \in BOOLEAN
    BY DEF Write
  <2>2. Placed(v)'
    BY <1>1, <1>3, <1>4, <1>5, <1>6, <1>8, <2>1 DEF EndOf, Placed, Chunk, Available, Inside
  <2>3. Follows(v, w)'
    BY <1>1, <1>3, <1>4, <1>5, <1>6, <1>8, <2>1
    DEF EndOf, Placed, Chunk, Available, Inside, Follows, Ahead
  <2> QED
    BY <2>2, <2>3
<1>9. \A k \in 1..Len(writes) : writes[k] \in Write /\ Inside(writes[k])
  BY DEF TypeOK, Bounded
<1>10. DonePrefix'
  BY DEF Appended, Ring, DonePrefix
<1>11. EndFollows'
  BY <1>3, <1>7 DEF Appended, EndFollows, Outstanding
<1>12. AllPlaced'
  <2> SUFFICES ASSUME NEW k \in 1..Len(writes'), Outstanding(k)' PROVE Placed(writes[k])'
    BY DEF AllPlaced
  <2>1. CASE k \in 1..Len(writes)
    BY <1>8, <1>9, <2>1 DEF Appended, Ring, AllPlaced, Outstanding, Placed
  <2>2. CASE k = Len(writes) + 1
    BY <1>7, <2>2 DEF Appended, Placed
  <2> QED
    BY <2>1, <2>2 DEF Appended
<1>13. AllOrdered'
  <2> SUFFICES ASSUME NEW j \in 1..Len(writes'), NEW k \in 1..Len(writes'), j < k,
                      Outstanding(j)', Outstanding(k)'
               PROVE  Follows(writes[j], writes[k])'
    BY DEF AllOrdered
  <2>1. j \in 1..Len(writes)
    BY DEF Appended
  <2>2. CASE k \in 1..Len(writes)
    BY <1>3, <2>1, <2>2 DEF Appended, Ring, AllOrdered, Outstanding, Follows, Ahead, EndOf
  <2>3. CASE k = Len(writes) + 1
    <3>1. Follows(writes[j], w)'
      BY <1>8, <1>9, <2>1 DEF Appended, Ring, AllPlaced, Outstanding, Follows, Ahead, EndOf
    <3> QED
      BY <2>3, <3>1 DEF Appended, Follows, Ahead, EndOf
  <2> QED
    BY <2>2, <2>3 DEF Appended
<1> QED
  BY <1>10, <1>11, <1>12, <1>13 DEF Ring

\* A reader that is done with the oldest write in use keeps the ring in order.
LEMMA RingFree ==
    ASSUME TypeOK, Bounded, Ring, NEW i \in 1..Len(writes), Outstanding(i),
           \A k \in 1..(i - 1) : ~Outstanding(k),
           status' = [status EXCEPT ![i] = "done"], data_start' = FreedUpTo(writes[i]),
           UNCHANGED <<data_end, writes>>
    PROVE  Ring'
<1> USE DEF HeaderSize
<1> DEFINE v == writes[i]
<1>1. Start \in 8..MmapSize /\ End \in 8..MmapSize /\ MmapSize \in Nat
  BY Pointers, MmapSizeAssumption
<1>2. FreedUpTo(v) \in 8..MmapSize
  BY ReadInside
<1>3. Start' = EndOf(v) /\ End' = End
  BY <1>2 DEF FreedUpTo, Start, End, read_pointer
<1>4. /\ Len(writes) \in Nat /\ Len(writes') = Len(writes) /\ status'[i] = "done"
      /\ \A k \in 1..Len(writes) : k # i => status'[k] = status[k]
  BY StatusStep DEF TypeOK
<1>5. /\ v \in Write /\ Inside(v) /\ Placed(v)
      /\ v.offset \in Nat /\ v.length \in Nat /\ v.rest \in Nat /\ v.split \in BOOLEAN
  <2>1. v \in Write /\ Inside(v) /\ Placed(v)
    BY DEF TypeOK, Bounded, Ring, AllPlaced
  <2> QED
    BY <2>1 DEF Write
<1>6. ASSUME NEW k \in 1..Len(writes), Outstanding(k)'
      PROVE  /\ i < k /\ Outstanding(k) /\ writes[k] \in Write
             /\ Inside(writes[k]) /\ Placed(writes[k]) /\ Follows(v, writes[k])
  <2>1. k # i /\ Outstanding(k)
    BY <1>4, <1>6 DEF Outstanding
  <2>2. i < k
    BY <1>4, <2>1
  <2> QED
    BY <2>1, <2>2 DEF TypeOK, Bounded, Ring, AllPlaced, AllOrdered
<1> HIDE DEF v
<1>a. \/ /\ Ahead(v) /\ Start' >= Start /\ Start' = v.offset + v.length
         /\ (End < Start <=> End < Start')
      \/ ~Ahead(v) /\ End < Start /\ Start' <= End
  <2>1. CASE Ahead(v)
    <3>1. ~v.split /\ Start <= v.offset /\ Start' = v.offset + v.length /\ Start' >= Start
      BY <1>1, <1>3, <1>5, <2>1 DEF Ahead, EndOf
    <3>2. CASE End < Start
      BY <1>1, <1>3, <2>1, <3>1, <3>2
    <3>3. CASE ~(End < Start)
      <4>1. v.offset + v.length <= End
        BY <1>5, <3>1, <3>3 DEF Placed
      <4> QED
        BY <1>1, <1>3, <2>1, <3>1, <3>3, <4>1
    <3> QED
      BY <3>2, <3>3
  <2>2. CASE ~Ahead(v)
    <3>1. End < Start
      BY <1>1, <1>5, <2>2 DEF Placed, Ahead
    <3>2. EndOf(v) <= End
      BY <1>1, <1>5, <2>2, <3>1 DEF Placed, Ahead, EndOf
    <3> QED
      BY <1>3, <2>2, <3>1, <3>2
  <2> QED
    BY <2>1, <2>2
<1>7. ASSUME NEW w \in Write, Inside(w), Placed(w), Follows(v, w) PROVE Placed(w)'
  <2>1. w.offset \in Nat /\ w.length \in Nat /\ w.rest \in Nat /\ w.split \in BOOLEAN
    BY DEF Write
  <2>2. CASE Ahead(v)
    BY <1>1, <1>2, <1>3, <1>5, <1>a, <1>7, <2>1, <2>2 DEF Placed, Follows
  <2>3. CASE ~Ahead(v)
    BY <1>1, <1>2, <1>3, <1>5, <1>a, <1>7, <2>1, <2>3 DEF Placed, Follows
  <2> QED
    BY <2>2, <2>3
<1>8. ASSUME NEW u \in Write, Inside(u), Placed(u), Follows(v, u),
             NEW w \in Write, Inside(w), Placed(w), Follows(v, w), Follows(u, w)
      PROVE  Follows(u, w)'
  <2>1. /\ w.offset \in Nat /\ w.length \in Nat /\ w.rest \in Nat /\ w.split \in BOOLEAN
        /\ u.offset \in Nat /\ u.length \in Nat /\ u.rest \in Nat /\ u.split \in BOOLEAN
    BY DEF Write
  <2>2. EndOf(u) \in Nat /\ EndOf(v) \in Nat
    BY <1>5, EndOfType
  <2>3. CASE Ahead(v)
    <3>1. Ahead(u) <=> Ahead(u)'
      BY <1>1, <1>2, <1>3, <1>a, <1>8, <2>1, <2>2, <2>3 DEF Placed, Follows, Ahead
    <3> QED
      <4>1. Follows(u, w)' <=> IF Ahead(u)' THEN w.offset < Start' \/ EndOf(u) <= w.offset
                               ELSE w.offset < Start' /\ EndOf(u) <= w.offset
        BY DEF Follows, EndOf
      <4>2. Start <= Start' /\ Start \in Int /\ Start' \in Int
        BY <1>1, <1>3, <1>a, <2>2, <2>3
      <4>3. w.offset < Start => w.offset < Start'
        BY <2>1, <4>2
      <4> QED
        BY <1>8, <3>1, <4>1, <4>3 DEF Follows
  <2>4. CASE ~Ahead(v)
    <3>1. ~Ahead(u) /\ EndOf(u) <= w.offset
      BY <1>1, <1>8, <2>1, <2>2, <2>4 DEF Follows, Ahead
    <3> QED
      BY <1>1, <1>2, <1>3, <1>a, <1>8, <2>1, <2>2, <2>4, <3>1 DEF Placed, Follows, Ahead, EndOf
  <2> QED
    BY <2>3, <2>4
<1>9. DonePrefix'
  BY <1>4 DEF Ring, DonePrefix, Outstanding
<1>10. EndFollows'
  <2>1. End' < MmapSize /\ (Len(writes') > 0 => End' = EndOf(writes'[Len(writes')]))
    BY <1>3 DEF Ring, EndFollows
  <2>2. ASSUME \A k \in 1..Len(writes') : ~Outstanding(k)' PROVE Start' = End'
    <3>1. i = Len(writes)
      <4>1. ASSUME i < Len(writes) PROVE FALSE
        <5>1. status[Len(writes)] = "done"
          BY <1>4, <2>2, <4>1 DEF Outstanding
        <5> QED
          BY <1>4, <4>1, <5>1 DEF Ring, DonePrefix, Outstanding
      <4> QED
        BY <1>4, <4>1
    <3> QED
      BY <1>3, <1>4, <3>1 DEF Ring, EndFollows, v
  <2> QED
    BY <2>1, <2>2 DEF EndFollows, EndOf
<1>11. AllPlaced'
  BY <1>4, <1>6, <1>7 DEF AllPlaced, Placed
<1>12. AllOrdered'
  <2> SUFFICES ASSUME NEW j \in 1..Len(writes'), NEW k \in 1..Len(writes'), j < k,
                      Outstanding(j)', Outstanding(k)'
               PROVE  Follows(writes[j], writes[k])'
    BY DEF AllOrdered
  <2>1. Follows(writes[j], writes[k])
    BY <1>4, <1>6 DEF Ring, AllOrdered
  <2> QED
    BY <1>4, <1>6, <1>8, <2>1 DEF Follows, Ahead, EndOf
<1> QED
  BY <1>9, <1>10, <1>11, <1>12 DEF Ring

\* The ring stays in order as long as nothing fills it or overtakes a paint.
LEMMA RingInductive ==
    IInv /\ [Next]_vars => (~filled' /\ ~overtook' => Ring')
<1> SUFFICES ASSUME IInv, [Next]_vars, ~filled', ~overtook' PROVE Ring'
  OBVIOUS
<1>1. ASSUME NEW size \in Sizes, mmap_write(size) PROVE Ring'
  <2>1. PICK w \in Write : Appended(size, w)
    BY <1>1, WriteStep DEF IInv
  <2>2. ~filled /\ ~overtook /\ size # Available
    BY <2>1 DEF Appended
  <2> QED
    BY <2>1, <2>2, RingWrite DEF IInv
<1>2. ASSUME NEW i \in DOMAIN writes, ReadInPlace(i) PROVE Ring'
  <2>1. /\ status' = [status EXCEPT ![i] = "held"] /\ status[i] = "sent"
        /\ UNCHANGED <<data_start, data_end, writes, filled, overtook>>
    BY <1>2 DEF ReadInPlace, Oldest
  <2>2. /\ i \in 1..Len(writes) /\ status'[i] = "held"
        /\ \A k \in 1..Len(writes) : k # i => status'[k] = status[k]
    BY <2>1, StatusStep DEF IInv
  <2>3. \A k \in 1..Len(writes) : (status'[k] = "done" <=> status[k] = "done")
    BY <2>1, <2>2
  <2>4. Ring /\ Start' = Start /\ End' = End
    BY <2>1 DEF IInv, Start, End
  <2> QED
    BY <2>1, <2>3, <2>4
    DEF Ring, DonePrefix, EndFollows, AllPlaced, AllOrdered, Outstanding, Placed, Follows,
        Ahead, EndOf
<1>3. ASSUME NEW i \in DOMAIN writes, ReadCopy(i) \/ free_mem(i) PROVE Ring'
  <2>1. /\ status' = [status EXCEPT ![i] = "done"] /\ data_start' = FreedUpTo(writes[i])
        /\ UNCHANGED <<data_end, writes, filled>>
    BY <1>3 DEF ReadCopy, free_mem
  <2>2. ~overtook /\ Ring
    <3>1. ~overtook
      BY <1>3, Zenon DEF ReadCopy, free_mem
    <3>2. ~filled
      BY <2>1
    <3> QED
      BY <3>1, <3>2, Zenon DEF IInv
  <2>3. i \in 1..Len(writes) /\ DOMAIN status = 1..Len(writes) /\ Len(writes) \in Nat
    BY DEF IInv, TypeOK
  <2>4. Outstanding(i) /\ \A k \in 1..(i - 1) : ~Outstanding(k)
    <3>1. CASE ReadCopy(i)
      <4>1. \A k \in 1..Len(writes) : status[k] # "held"
        BY <2>3, <3>1 DEF ReadCopy
      <4> QED
        BY <2>3, <3>1, <4>1 DEF ReadCopy, Oldest, Outstanding, IInv, TypeOK
    <3>2. CASE free_mem(i)
      <4>1. \A k \in 1..(i - 1) : status[k] # "sent" /\ status[k] # "held"
        BY <2>3, <3>2 DEF free_mem, Oldest, IInv, HeldFirst
      <4> QED
        BY <2>3, <3>2, <4>1 DEF free_mem, Oldest, Outstanding, IInv, TypeOK
    <3> QED
      BY <1>3, <3>1, <3>2
  <2> QED
    BY <2>1, <2>2, <2>3, <2>4, RingFree DEF IInv
<1>4. CASE UNCHANGED vars
  BY <1>4 DEF vars, IInv, Ring, DonePrefix, EndFollows, AllPlaced, AllOrdered, Outstanding,
              Placed, Follows, Ahead, EndOf, Start, End
<1> QED
  BY <1>1, <1>2, <1>3, <1>4 DEF Next

\* The invariant always holds.
LEMMA Invariance == Spec => []IInv
<1>1. Init => IInv
  <2> SUFFICES ASSUME Init PROVE IInv
    OBVIOUS
  <2>1. TypeOK /\ Bounded /\ HeldFirst /\ Len(writes) = 0
    <3>1. Len(writes) = 0 /\ Len(status) = 0 /\ 1..0 = {}
      BY DEF Init
    <3>2. TypeOK
      <4>1. <<>> \in Seq(Write) /\ <<>> \in Seq({"sent", "held", "done"})
        OBVIOUS
      <4> QED
        BY <3>1, <4>1 DEF Init, TypeOK
    <3> QED
      BY <3>1, <3>2 DEF Init, Bounded, Pointer, HeldFirst
  <2>2. Start = HeaderSize /\ End = HeaderSize
    BY DEF Init, Start, End, read_pointer, HeaderSize
  <2>3. Ring
    BY <2>1, <2>2, MmapSizeAssumption
    DEF Ring, DonePrefix, EndFollows, AllPlaced, AllOrdered, HeaderSize
  <2> QED
    BY <2>1, <2>3 DEF IInv
<1>2. IInv /\ [Next]_vars => IInv'
  BY BoundedInductive, RingInductive DEF IInv
<1> QED
  BY <1>1, <1>2, PTL DEF Spec

-----------------------------------------------------------------------------
\* For every size of the area and of the writes, the chunks that mmap_write()
\* returns lie within the area and clear of its header, and so do both pointers:
\* read_pointer() and validate_chunks() never refuse what the peer stored.
THEOREM WithinAreaHolds == Spec => []WithinArea
<1>1. IInv => WithinArea
  <2> SUFFICES ASSUME IInv PROVE WithinArea
    OBVIOUS
  <2>1. DOMAIN writes = 1..Len(writes)
    BY DEF IInv, TypeOK
  <2> QED
    BY <2>1, Pointers DEF IInv, Bounded, Inside, WithinArea
<1> QED
  BY <1>1, Invariance, PTL

\* For every size of the area and of the writes, mmap_write() never stores to a
\* byte of a write still in use, as long as no write took all of the available
\* space and no copied read moved data_start past a buffer being painted.
THEOREM SafeIntactHolds == Spec => []SafeIntact
<1>1. IInv => SafeIntact
  <2> SUFFICES ASSUME IInv, ~filled, ~overtook,
                      NEW i \in DOMAIN writes, NEW j \in DOMAIN writes,
                      i < j, Outstanding(i), Outstanding(j),
                      NEW byte \in 0..MmapSize,
                      Occupies(writes[i], byte), Occupies(writes[j], byte)
               PROVE  FALSE
    BY DEF SafeIntact, Intact
  <2> DEFINE v == writes[i]
             w == writes[j]
  <2>1. /\ i \in 1..Len(writes) /\ j \in 1..Len(writes)
        /\ v \in Write /\ w \in Write
    BY DEF IInv, TypeOK
  <2>2. Placed(v) /\ Placed(w) /\ Follows(v, w)
    BY <2>1 DEF IInv, Ring, AllPlaced, AllOrdered
  <2>3. Inside(v) /\ Inside(w)
    BY <2>1 DEF IInv, Bounded
  <2>4. Occupies(v, byte) /\ Occupies(w, byte)
    OBVIOUS
  <2>5. Start \in HeaderSize..MmapSize /\ End \in HeaderSize..MmapSize /\ MmapSize \in Nat
    BY Pointers, MmapSizeAssumption DEF IInv
  <2> HIDE DEF v, w
  <2>6. /\ w.offset \in Nat /\ w.length \in Nat /\ w.rest \in Nat /\ w.split \in BOOLEAN
        /\ v.offset \in Nat /\ v.length \in Nat /\ v.rest \in Nat /\ v.split \in BOOLEAN
    BY <2>1 DEF Write
  <2> QED
    BY <2>2, <2>3, <2>4, <2>5, <2>6
    DEF Placed, Follows, Ahead, EndOf, Occupies, Inside, HeaderSize
<1> QED
  BY <1>1, Invariance, PTL

\* Under the same conditions a client that has finished with everything leaves
\* all of the area available to mmap_write(): no space is lost by wrapping around
\* or by starting again at the front.
THEOREM AllFreedHolds == Spec => []AllFreed
<1>1. IInv => AllFreed
  <2> SUFFICES ASSUME IInv, ~filled, ~overtook, \A i \in DOMAIN status : status[i] = "done"
               PROVE  Available = MmapSize - HeaderSize /\ mmap_free_size = Available
    BY DEF AllFreed
  <2>1. Start = End
    BY DEF IInv, TypeOK, Ring, EndFollows, Outstanding
  <2>2. Start \in HeaderSize..MmapSize /\ MmapSize \in Nat
    BY Pointers, MmapSizeAssumption DEF IInv
  <2> QED
    BY <2>1, <2>2 DEF Available, Chunk, mmap_free_size, HeaderSize
<1> QED
  BY <1>1, Invariance, PTL
=============================================================================
