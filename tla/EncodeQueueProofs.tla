-------------------------- MODULE EncodeQueueProofs --------------------------
(***************************************************************************)
(* Proofs about EncodeQueue, for any number of functions.                  *)
(*                                                                         *)
(* The inductive invariant says where every accepted function is: those    *)
(* called, then the one in the hands of the thread, then those in the      *)
(* queue are the accepted ones in order, and the marker, once the queue is *)
(* sealed, comes behind all of them.                                       *)
(***************************************************************************)
EXTENDS EncodeQueue, TLAPS

\* How many functions the thread holds outside the queue.
InHand == IF encode_thread = "calling" THEN 1 ELSE 0

\* How many markers are in the queue.
Markers == IF queue_closed /\ encode_thread # "ended" THEN 1 ELSE 0

\* The marker is never called.
CallsItems == encode_thread = "calling" => current \in Item

\* The thread only ends on the marker, the last entry of the queue.
EndedSealed == encode_thread = "ended" => queue_closed /\ encode_work_queue = <<>>

\* Nothing is lost and nothing is added.
Counted ==
    /\ Len(called) + InHand <= Len(accepted)
    /\ Len(accepted) + Markers = Len(called) + InHand + Len(encode_work_queue)

\* What is where.
CalledInOrder == \A i \in 1..Len(called) : called[i] = accepted[i]
HandInOrder == encode_thread = "calling" => current = accepted[Len(called) + 1]
QueueInOrder ==
    \A i \in 1..Len(encode_work_queue) :
        encode_work_queue[i] = IF Len(called) + InHand + i <= Len(accepted)
                               THEN accepted[Len(called) + InHand + i]
                               ELSE Marker

\* Work is accepted before the seal, registered functions with it.
KindsInOrder ==
    /\ ~queue_closed => \A i \in 1..Len(accepted) : accepted[i].kind = "work"
    /\ \A i \in 1..Len(encode_at_end) : encode_at_end[i].kind = "end"
    /\ \A i, j \in 1..Len(accepted) :
        i < j => ~(accepted[i].kind = "end" /\ accepted[j].kind = "work")

Conserved ==
    /\ EndedSealed /\ Counted /\ CalledInOrder /\ HandInOrder /\ QueueInOrder
    /\ KindsInOrder

IInv == TypeOK /\ CallsItems /\ Conserved

-----------------------------------------------------------------------------
\* The marker is not a function.
LEMMA MarkerIsNoItem == Marker \notin Item
  BY DEF Marker, Item

\* The variables keep their types, whatever is queued and called.
LEMMA TypeInductive == TypeOK /\ CallsItems /\ [Next]_vars => TypeOK' /\ CallsItems'
<1> SUFFICES ASSUME TypeOK, CallsItems, [Next]_vars PROVE TypeOK' /\ CallsItems'
  OBVIOUS
<1> USE DEF CallsItems
<1> USE MaxWorkAssumption, MaxAtEndAssumption
<1>1. CASE start_queue_encode
  <2> DEFINE item == [kind |-> "work", id |-> offered + 1]
  <2>1. item \in Item
    BY DEF TypeOK, Item
  <2> HIDE DEF item
  <2>2. Append(encode_work_queue, item) \in Seq(Item \cup {Marker})
    BY <2>1 DEF TypeOK
  <2>3. Append(accepted, item) \in Seq(Item)
    BY <2>1 DEF TypeOK
  <2>4. /\ encode_work_queue' \in {encode_work_queue, Append(encode_work_queue, item)}
        /\ accepted' \in {accepted, Append(accepted, item)}
        /\ encode_thread' \in {encode_thread, Started}
    BY <1>1 DEF start_queue_encode, Queued, item
  <2>5. encode_work_queue' \in Seq(Item \cup {Marker}) /\ accepted' \in Seq(Item)
    BY <2>2, <2>3, <2>4 DEF TypeOK
  <2>6. /\ offered' \in 0..MaxWork
        /\ UNCHANGED <<encode_at_end, queue_closed, current, registered, called>>
    BY <1>1 DEF start_queue_encode, TypeOK
  <2> QED
    BY <2>4, <2>5, <2>6 DEF TypeOK, Started
<1>2. CASE StartFails
  BY <1>2 DEF TypeOK, StartFails
<1>3. CASE call_in_encode_thread_at_end
  <2> DEFINE item == [kind |-> "end", id |-> registered + 1]
  <2>1. item \in Item
    BY DEF TypeOK, Item
  <2> HIDE DEF item
  <2>2. Append(encode_at_end, item) \in Seq(Item)
    BY <2>1 DEF TypeOK
  <2> QED
    BY <1>3, <2>2 DEF TypeOK, call_in_encode_thread_at_end, item
<1>4. CASE stop_encode_thread
  <2>1. encode_at_end \in Seq(Item \cup {Marker}) /\ <<Marker>> \in Seq(Item \cup {Marker})
    BY DEF TypeOK
  <2>2. SealedTail \in Seq(Item \cup {Marker})
    BY <2>1 DEF SealedTail
  <2>3. encode_work_queue \o SealedTail \in Seq(Item \cup {Marker})
    BY <2>2 DEF TypeOK
  <2>4. accepted \o encode_at_end \in Seq(Item) /\ <<>> \in Seq(Item)
    BY DEF TypeOK
  <2> QED
    BY <1>4, <2>3, <2>4 DEF TypeOK, stop_encode_thread, Started
<1>5. CASE TakeItem
  BY <1>5 DEF TypeOK, TakeItem, EndsThread
<1>6. CASE CallItem
  BY <1>6 DEF TypeOK, CallItem
<1>7. CASE UNCHANGED vars
  BY <1>7 DEF TypeOK, vars
<1> QED
  BY <1>1, <1>2, <1>3, <1>4, <1>5, <1>6, <1>7 DEF Next

\* Every step keeps each accepted function in its place.
LEMMA ConservedInductive ==
    TypeOK /\ CallsItems /\ Conserved /\ [Next]_vars => Conserved'
<1> SUFFICES ASSUME TypeOK, CallsItems, Conserved, [Next]_vars PROVE Conserved'
  OBVIOUS
<1> USE DEF Conserved, EndedSealed, Counted, CalledInOrder, HandInOrder, QueueInOrder,
            KindsInOrder, InHand, Markers
<1>1. CASE start_queue_encode
  <2>1. CASE Admitted
    <3> DEFINE item == [kind |-> "work", id |-> offered + 1]
    <3>1. item.kind = "work"
      OBVIOUS
    <3>2. /\ ~queue_closed /\ encode_thread' = Started
          /\ encode_work_queue' = Append(encode_work_queue, item)
          /\ accepted' = Append(accepted, item)
          /\ UNCHANGED <<encode_at_end, queue_closed, current, called>>
      BY <1>1, <2>1 DEF start_queue_encode, Queued, Admitted
    <3> HIDE DEF item
    <3>3. /\ Len(accepted') = Len(accepted) + 1
          /\ \A i \in 1..Len(accepted) : accepted'[i] = accepted[i]
          /\ accepted'[Len(accepted) + 1] = item
          /\ Len(accepted) \in Nat
      BY <3>2 DEF TypeOK
    <3>4. /\ Len(encode_work_queue') = Len(encode_work_queue) + 1
          /\ \A i \in 1..Len(encode_work_queue) : encode_work_queue'[i] = encode_work_queue[i]
          /\ encode_work_queue'[Len(encode_work_queue) + 1] = item
          /\ Len(encode_work_queue) \in Nat
      BY <3>2 DEF TypeOK
    <3>5. Len(called) \in Nat
      BY DEF TypeOK
    <3>a. encode_thread' # "ended" /\ (encode_thread' = "calling" <=> encode_thread = "calling")
      BY <3>2 DEF Started
    <3>b. InHand' = InHand /\ InHand \in {0, 1} /\ Markers = 0 /\ Markers' = 0
      BY <3>2, <3>a
    <3>c. Counted'
      <4> HIDE DEF InHand, Markers
      <4> QED
        BY <3>2, <3>3, <3>4, <3>5, <3>b
    <3>6. EndedSealed' /\ Counted'
      BY <3>a, <3>c
    <3>7. CalledInOrder' /\ HandInOrder'
      BY <3>2, <3>3, <3>5, <3>a, <3>b
    <3>8. QueueInOrder'
      <4> HIDE DEF InHand, Markers
      <4>1. Len(accepted) = Len(called) + InHand + Len(encode_work_queue)
        BY <3>3, <3>4, <3>5, <3>b
      <4> SUFFICES ASSUME NEW i \in 1..Len(encode_work_queue')
                   PROVE encode_work_queue'[i] = IF Len(called') + InHand' + i <= Len(accepted')
                                                 THEN accepted'[Len(called') + InHand' + i]
                                                 ELSE Marker
        OBVIOUS
      <4>a. Len(called') = Len(called) /\ Len(accepted') = Len(called) + InHand + Len(encode_work_queue) + 1
        BY <3>2, <3>3, <4>1
      <4>2. CASE i = Len(encode_work_queue) + 1
        BY <3>3, <3>4, <3>5, <3>b, <4>a, <4>1, <4>2
      <4>3. CASE i \in 1..Len(encode_work_queue)
        BY <3>3, <3>4, <3>5, <3>b, <4>a, <4>1, <4>3
      <4> QED
        BY <3>4, <4>2, <4>3
    <3>9. KindsInOrder'
      BY <3>1, <3>2, <3>3
    <3> QED
      BY <3>6, <3>7, <3>8, <3>9
  <2>2. CASE ~Admitted
    BY <1>1, <2>2 DEF start_queue_encode
  <2> QED
    BY <2>1, <2>2
<1>2. CASE StartFails
  BY <1>2 DEF StartFails
<1>3. CASE call_in_encode_thread_at_end
  BY <1>3 DEF TypeOK, call_in_encode_thread_at_end
<1>4. CASE stop_encode_thread
  <2> DEFINE n == Len(encode_at_end)
  <2>1. /\ ~queue_closed /\ queue_closed' = TRUE /\ encode_thread' = Started
        /\ encode_at_end' = <<>> /\ called' = called /\ current' = current
        /\ accepted' = accepted \o encode_at_end
        /\ encode_work_queue' = encode_work_queue \o (encode_at_end \o <<Marker>>)
    BY <1>4 DEF stop_encode_thread, SealedTail
  <2>2. /\ n \in Nat /\ Len(called) \in Nat /\ Len(accepted) \in Nat
        /\ Len(encode_work_queue) \in Nat
        /\ Len(accepted') = Len(accepted) + n
        /\ \A i \in 1..Len(accepted) : accepted'[i] = accepted[i]
        /\ \A i \in 1..n : accepted'[Len(accepted) + i] = encode_at_end[i]
    BY <2>1 DEF TypeOK
  <2>3. /\ encode_at_end \in Seq(Item \cup {Marker}) /\ <<Marker>> \in Seq(Item \cup {Marker})
        /\ Len(encode_at_end \o <<Marker>>) = n + 1
        /\ \A i \in 1..n : (encode_at_end \o <<Marker>>)[i] = encode_at_end[i]
        /\ (encode_at_end \o <<Marker>>)[n + 1] = Marker
        /\ (encode_at_end \o <<Marker>>) \in Seq(Item \cup {Marker})
    BY DEF TypeOK
  <2>4. /\ Len(encode_work_queue') = Len(encode_work_queue) + n + 1
        /\ \A i \in 1..Len(encode_work_queue) : encode_work_queue'[i] = encode_work_queue[i]
        /\ \A i \in 1..(n + 1) : encode_work_queue'[Len(encode_work_queue) + i]
                                   = (encode_at_end \o <<Marker>>)[i]
    <3> DEFINE tail == encode_at_end \o <<Marker>>
    <3>1. tail \in Seq(Item \cup {Marker}) /\ Len(tail) = n + 1
      BY <2>3
    <3>2. encode_work_queue \in Seq(Item \cup {Marker}) /\ encode_work_queue' = encode_work_queue \o tail
      BY <2>1 DEF TypeOK
    <3> HIDE DEF tail, n, Conserved
    <3>3. /\ Len(encode_work_queue') = Len(encode_work_queue) + Len(tail)
          /\ \A i \in 1..Len(encode_work_queue) : encode_work_queue'[i] = encode_work_queue[i]
          /\ \A i \in 1..Len(tail) : encode_work_queue'[Len(encode_work_queue) + i] = tail[i]
      <4>1. /\ Len(encode_work_queue \o tail) = Len(encode_work_queue) + Len(tail)
            /\ \A i \in 1..Len(encode_work_queue) : (encode_work_queue \o tail)[i] = encode_work_queue[i]
            /\ \A i \in 1..Len(tail) : (encode_work_queue \o tail)[Len(encode_work_queue) + i] = tail[i]
        <5> DEFINE E == Item \cup {Marker}
        <5>1. encode_work_queue \in Seq(E) /\ tail \in Seq(E)
          BY <3>1, <3>2
        <5> HIDE DEF E
        <5> QED
          BY <5>1
      <4> QED
        BY <3>2, <4>1, Zenon
    <3>4. Len(tail) = n + 1 /\ 1..Len(tail) = 1..(n + 1)
      BY <3>1
    <3>5. Len(encode_work_queue') = Len(encode_work_queue) + n + 1
      BY <2>2, <3>1, <3>3
    <3> QED
      BY <3>3, <3>4, <3>5 DEF tail
  <2> HIDE DEF n
  <2>5. encode_thread' # "ended" /\ (encode_thread' = "calling" <=> encode_thread = "calling")
    BY <2>1 DEF Started
  <2>6. InHand' = InHand /\ InHand \in {0, 1} /\ Markers = 0 /\ Markers' = 1
    BY <2>1, <2>5
  <2>7. Len(accepted) = Len(called) + InHand + Len(encode_work_queue)
    <3> HIDE DEF InHand, Markers
    <3> QED
      BY <2>2, <2>6
  <2>8. Counted' /\ EndedSealed'
    <3> HIDE DEF InHand, Markers
    <3> QED
      BY <2>1, <2>2, <2>4, <2>5, <2>6, <2>7
  <2>9. CalledInOrder' /\ HandInOrder'
    BY <2>1, <2>2, <2>5, <2>6, <2>7
  <2>10. QueueInOrder'
    <3> HIDE DEF InHand, Markers
    <3> SUFFICES ASSUME NEW i \in 1..Len(encode_work_queue')
                 PROVE encode_work_queue'[i] = IF Len(called') + InHand' + i <= Len(accepted')
                                               THEN accepted'[Len(called') + InHand' + i]
                                               ELSE Marker
      OBVIOUS
    <3>a. Len(called') = Len(called) /\ Len(accepted') = Len(called) + InHand + Len(encode_work_queue) + n
      BY <2>1, <2>2, <2>7
    <3>1. CASE i \in 1..Len(encode_work_queue)
      <4>1. QueueInOrder
        OBVIOUS
      <4> HIDE DEF Conserved, QueueInOrder
      <4>2. Len(called) + InHand + i \in 1..Len(accepted)
        BY <2>2, <2>6, <2>7, <3>1
      <4>3. encode_work_queue[i] = accepted[Len(called) + InHand + i]
        BY <2>2, <3>1, <4>1, <4>2 DEF QueueInOrder
      <4> QED
        BY <2>2, <2>4, <2>6, <3>1, <3>a, <4>3, <4>2
    <3>2. CASE i \notin 1..Len(encode_work_queue)
      <4> DEFINE k == i - Len(encode_work_queue)
      <4>1. k \in 1..(n + 1) /\ i = Len(encode_work_queue) + k
        BY <2>2, <2>4, <3>2
      <4> HIDE DEF k
      <4>2. encode_work_queue'[i] = (encode_at_end \o <<Marker>>)[k]
        BY <2>4, <4>1
      <4>3. CASE k <= n
        <5>1. Len(called) + InHand + i = Len(accepted) + k /\ k \in 1..n
          BY <2>2, <2>6, <2>7, <4>1, <4>3
        <5>2. encode_work_queue'[i] = encode_at_end[k]
          BY <2>3, <4>2, <5>1
        <5>3. accepted'[Len(accepted) + k] = encode_at_end[k]
          BY <2>2, <5>1
        <5>4. Len(called') + InHand' + i = Len(accepted) + k
          BY <2>6, <3>a, <5>1
        <5>5. Len(accepted) + k <= Len(accepted')
          BY <2>2, <5>1
        <5> HIDE DEF Conserved
        <5> QED
          BY <5>2, <5>3, <5>4, <5>5
      <4>4. CASE k = n + 1
        BY <2>2, <2>3, <2>6, <3>a, <4>1, <4>2, <4>4
      <4> QED
        BY <2>2, <4>1, <4>3, <4>4
    <3> QED
      BY <3>1, <3>2
  <2>11. KindsInOrder'
    <3>1. \A i \in 1..Len(accepted') :
            accepted'[i].kind = IF i <= Len(accepted) THEN "work" ELSE "end"
      <4>0. \A i \in 1..Len(accepted) : accepted'[i].kind = "work"
        BY <2>1, <2>2
      <4> HIDE DEF Conserved
      <4> SUFFICES ASSUME NEW i \in 1..Len(accepted'), i > Len(accepted)
                   PROVE accepted'[i].kind = "end"
        BY <2>2, <4>0
      <4> USE DEF Conserved
      <4> DEFINE k == i - Len(accepted)
      <4>1. k \in 1..n /\ i = Len(accepted) + k
        BY <2>2
      <4> HIDE DEF k
      <4>2. accepted'[i] = encode_at_end[k]
        BY <2>2, <4>1
      <4>3. encode_at_end[k].kind = "end"
        BY <4>1 DEF n
      <4> QED
        BY <4>2, <4>3
    <3> HIDE DEF Conserved
    <3>2. ASSUME NEW i \in 1..Len(accepted'), NEW j \in 1..Len(accepted'), i < j
          PROVE  ~(accepted'[i].kind = "end" /\ accepted'[j].kind = "work")
      BY <2>2, <3>1, <3>2
    <3>3. queue_closed' /\ encode_at_end' = <<>> /\ Len(<<>>) = 0
      BY <2>1
    <3> QED
      BY <3>2, <3>3
  <2> QED
    BY <2>8, <2>9, <2>10, <2>11
<1>5. CASE TakeItem
  <2>1. /\ encode_thread = "waiting" /\ encode_work_queue # <<>>
        /\ encode_work_queue' = Tail(encode_work_queue)
        /\ UNCHANGED <<encode_at_end, queue_closed, accepted, called>>
    BY <1>5 DEF TakeItem
  <2>2. /\ Len(encode_work_queue) \in Nat \ {0} /\ Len(called) \in Nat /\ Len(accepted) \in Nat
        /\ encode_work_queue' \in Seq(Item \cup {Marker})
        /\ Len(encode_work_queue') = Len(encode_work_queue) - 1
        /\ \A i \in 1..Len(encode_work_queue') : encode_work_queue'[i] = encode_work_queue[i + 1]
        /\ Head(encode_work_queue) = encode_work_queue[1]
    BY <2>1 DEF TypeOK
  <2>3. CASE Head(encode_work_queue) = Marker
    <3>1. encode_thread' = "ended" /\ current' = current
      BY <1>5, <2>3 DEF TakeItem, EndsThread
    <3>2. Len(called) = Len(accepted)
      <4>1. ASSUME Len(called) < Len(accepted) PROVE FALSE
        <5>1. encode_work_queue[1] = accepted[Len(called) + 1]
          BY <2>1, <2>2, <4>1
        <5>2. accepted[Len(called) + 1] \in Item
          BY <2>2, <4>1 DEF TypeOK
        <5> QED
          BY <2>2, <2>3, <5>1, <5>2, MarkerIsNoItem
      <4> QED
        BY <2>1, <2>2, <4>1
    <3>3. Len(encode_work_queue') = 0 /\ queue_closed
      BY <2>1, <2>2, <3>2 DEF TypeOK
    <3>4. encode_work_queue' = <<>>
      BY <2>2, <3>3
    <3> QED
      BY <2>1, <3>1, <3>2, <3>3, <3>4
  <2>4. CASE Head(encode_work_queue) # Marker
    <3>1. encode_thread' = "calling" /\ current' = encode_work_queue[1]
      BY <1>5, <2>2, <2>4 DEF TakeItem, EndsThread
    <3>2. Len(called) + 1 <= Len(accepted) /\ current' = accepted[Len(called) + 1]
      BY <2>1, <2>2, <2>4, <3>1
    <3>3. Counted' /\ EndedSealed'
      <4>1. Markers' = Markers /\ Markers \in Nat /\ InHand = 0 /\ InHand' = 1
        BY <2>1, <3>1
      <4>2. Len(accepted) + Markers = Len(called) + Len(encode_work_queue)
        BY <2>1, <2>2, <4>1
      <4>3. Len(accepted') = Len(accepted) /\ Len(called') = Len(called)
        BY <2>1
      <4>4. EndedSealed'
        BY <3>1
      <4> HIDE DEF InHand, Markers, Conserved, EndedSealed
      <4>5. Len(called') + InHand' <= Len(accepted')
        BY <2>2, <3>2, <4>1, <4>3
      <4>6. Len(accepted') + Markers' = Len(called') + InHand' + Len(encode_work_queue')
        <5> DEFINE a == Len(accepted)
                   c == Len(called)
                   q == Len(encode_work_queue)
                   m == Markers
        <5>1. a \in Int /\ c \in Int /\ q \in Int /\ m \in Int /\ a + m = c + q
          BY <2>2, <4>1, <4>2
        <5> HIDE DEF a, c, q, m
        <5>2. a + m = c + 1 + (q - 1)
          BY <5>1
        <5> QED
          BY <2>2, <4>1, <4>3, <5>2 DEF a, c, q, m
      <4> QED
        BY <4>4, <4>5, <4>6
    <3>4. QueueInOrder'
      BY <2>1, <2>2, <3>1
    <3> QED
      BY <2>1, <3>1, <3>2, <3>3, <3>4
  <2> QED
    BY <2>3, <2>4
<1>6. CASE CallItem
  <2>1. /\ encode_thread = "calling" /\ encode_thread' = "waiting"
        /\ called' = Append(called, current)
        /\ UNCHANGED <<encode_work_queue, encode_at_end, queue_closed, current, accepted>>
    BY <1>6 DEF CallItem
  <2>2. /\ Len(called') = Len(called) + 1
        /\ \A i \in 1..Len(called) : called'[i] = called[i]
        /\ called'[Len(called) + 1] = current
        /\ Len(called) \in Nat /\ Len(accepted) \in Nat /\ Len(encode_work_queue) \in Nat
    BY <2>1 DEF TypeOK, CallsItems
  <2>3. Counted' /\ EndedSealed'
    BY <2>1, <2>2
  <2>4. CalledInOrder' /\ HandInOrder'
    BY <2>1, <2>2
  <2>5. QueueInOrder'
    BY <2>1, <2>2
  <2> QED
    BY <2>1, <2>3, <2>4, <2>5
<1>7. CASE UNCHANGED vars
  BY <1>7 DEF vars
<1> QED
  BY <1>1, <1>2, <1>3, <1>4, <1>5, <1>6, <1>7 DEF Next

-----------------------------------------------------------------------------
\* The empty queue has it.
LEMMA InitialIInv == Init => IInv
<1> SUFFICES ASSUME Init PROVE IInv
  OBVIOUS
<1>1. TypeOK /\ CallsItems
  <2>1. <<>> \in Seq(Item) /\ <<>> \in Seq(Item \cup {Marker})
    OBVIOUS
  <2>2. 0 \in 0..MaxWork /\ 0 \in 0..MaxAtEnd
    BY MaxWorkAssumption, MaxAtEndAssumption
  <2> QED
    BY <2>1, <2>2 DEF Init, TypeOK, CallsItems
<1>2. Conserved
  BY DEF Init, Conserved, EndedSealed, Counted, CalledInOrder, HandInOrder,
         QueueInOrder, KindsInOrder, InHand, Markers
<1> QED
  BY <1>1, <1>2 DEF IInv

\* The encode queue keeps its inductive invariant.
LEMMA Invariance == Spec => []IInv
<1>1. IInv /\ [Next]_vars => IInv'
  BY TypeInductive, ConservedInductive DEF IInv
<1> QED
  BY <1>1, InitialIInv, PTL DEF Spec

\* Every variable of the encode queue keeps its type; in particular the end
\* marker of stop_encode_thread() is never called as a function.
THEOREM TypeCorrect == Spec => []TypeOK
<1>1. IInv => TypeOK
  BY DEF IInv
<1> QED
  BY <1>1, Invariance, PTL

\* encode_loop() calls the functions in the order in which they were accepted,
\* each once, and those of call_in_encode_thread_at_end() after all others.
THEOREM CallOrderHolds == Spec => []CallOrder
<1>1. IInv => CallOrder
  <2> SUFFICES ASSUME IInv PROVE CallOrder
    OBVIOUS
  <2>1. /\ Len(called) \in Nat /\ Len(accepted) \in Nat
        /\ DOMAIN called = 1..Len(called)
        /\ Len(called) <= Len(accepted)
    BY DEF IInv, TypeOK, Conserved, Counted, InHand
  <2> QED
    BY <2>1 DEF IInv, Conserved, CalledInOrder, KindsInOrder, CallOrder
<1> QED
  BY <1>1, Invariance, PTL

\* When encode_loop() returns, every function accepted by start_queue_encode()
\* or registered before the seal has been called: none is left in the queue.
THEOREM NothingLeftHolds == Spec => []NothingLeft
<1>1. IInv => NothingLeft
  BY DEF IInv, TypeOK, Conserved, Counted, QueueInOrder, EndedSealed, InHand, Markers,
         NothingLeft
<1> QED
  BY <1>1, Invariance, PTL
=============================================================================
