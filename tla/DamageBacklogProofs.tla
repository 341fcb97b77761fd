------------------------- MODULE DamageBacklogProofs -------------------------
(***************************************************************************)
(* Proofs that the backlog of a window source is real, that the chunks in  *)
(* the shared ring are those of the packets on their way to the client,    *)
(* and that every variable of the pipeline keeps its type, for any         *)
(* windows, encodings and bounds.                                          *)
(*                                                                         *)
(* The argument is about identity: one function offered to the encode      *)
(* queue makes at most one packet.  A packet that is queued, on the wire   *)
(* or pending was published by a function that is done with, so that the   *)
(* one in the hands of the encode thread is none of them; and as long as   *)
(* the connection lives a pending packet has an owner, or the parse thread *)
(* has just taken it from there.  Whoever takes the owner away therefore   *)
(* also sees to the pending entry.                                         *)
(***************************************************************************)
EXTENDS DamagePacketsProofs

QueuedPacket == [id : Nat, drain : BOOLEAN]

QueueTypes ==
    /\ packet_queue \in Seq(QueuedPacket)
    /\ format = "pixels" => packet_queue # <<>>

\* Work is accepted in the order in which it was offered.
WorkAscends ==
    \A i, j \in 1..Len(accepted) :
        i < j /\ accepted[i].kind = "work" /\ accepted[j].kind = "work"
        => accepted[i].id < accepted[j].id

\* Whether the function has queued whatever it was going to queue.
IsDone(n) ==
    \/ \E i \in 1..Len(called) : called[i].kind = "work" /\ called[i].id = n
    \/ enc = "finish" /\ current.id = n

PacketsDone ==
    /\ \A i \in 1..Len(packet_queue) : IsDone(packet_queue[i].id)
    /\ \A n \in unacked \cup ack_pending : IsDone(n)

\* A packet that is about to be queued has an owner.
CallbackOwned == enc = "callback" => current.id \in owners

\* A pending packet has an owner, or had one until its acknowledgement came.
PendingOwned ==
    ~closing => \A n \in ack_pending : n \in owners \/ (parse = "acking" /\ acked = n)

BInv == QueueTypes /\ WorkAscends /\ PacketsDone /\ CallbackOwned /\ PendingOwned /\ BacklogIsReal

-----------------------------------------------------------------------------
(* What the steps have in common. *)

\* What is done stays done; the function that has finished is called next.
LEMMA DoneStays ==
    ASSUME DInv,
           called' = called \/ called' = Append(called, current),
           enc = "finish" => \/ enc' = "finish" /\ current' = current
                             \/ called' = Append(called, current)
    PROVE  \A n : IsDone(n) => IsDone(n)'
<1>1. Len(called) \in Nat /\ called \in Seq(Item)
  BY DEF DInv, IInv, TypeOK
<1>2. enc = "finish" => current.kind = "work" /\ current \in Item
  BY DEF DInv, IInv, CallsItems, PInv, Operations, Encoding
<1>3. ASSUME NEW n, NEW i \in 1..Len(called), called[i].kind = "work", called[i].id = n
      PROVE  IsDone(n)'
  <2>1. i \in 1..Len(called') /\ called'[i] = called[i]
    <3>1. CASE called' = called
      BY <3>1
    <3>2. CASE called' = Append(called, current)
      BY <1>1, <3>2
    <3> QED
      BY <3>1, <3>2
  <2> QED
    BY <1>3, <2>1 DEF IsDone
<1>4. ASSUME NEW n, enc = "finish", current.id = n PROVE IsDone(n)'
  <2>1. CASE enc' = "finish" /\ current' = current
    BY <1>4, <2>1 DEF IsDone
  <2>2. CASE called' = Append(called, current)
    <3>1. Len(called) + 1 \in 1..Len(called') /\ called'[Len(called) + 1] = current
      BY <1>1, <2>2
    <3> QED
      BY <1>2, <1>4, <3>1 DEF IsDone
  <2> QED
    BY <1>4, <2>1, <2>2
<1> QED
  BY <1>3, <1>4 DEF IsDone

\* What is done was offered before what the encode thread has in its hands.
LEMMA DoneBefore ==
    ASSUME DInv, WorkAscends, enc \notin {"idle", "finish"}, NEW n, IsDone(n)
    PROVE  n < current.id
<1>1. encode_thread = "calling" /\ current.kind = "work"
  BY DEF DInv, PInv, Operations, Encoding
<1>2. /\ Len(called) \in Nat /\ Len(called) + 1 \in 1..Len(accepted)
      /\ current = accepted[Len(called) + 1]
      /\ \A i \in 1..Len(called) : i \in 1..Len(accepted) /\ called[i] = accepted[i]
  BY <1>1 DEF DInv, IInv, TypeOK, Conserved, Counted, InHand, HandInOrder, CalledInOrder
<1>3. PICK i \in 1..Len(called) : called[i].kind = "work" /\ called[i].id = n
  BY DEF IsDone
<1>4. i < Len(called) + 1
  BY <1>2
<1> QED
  BY <1>1, <1>2, <1>3, <1>4 DEF WorkAscends

\* The function in the hands of the encode thread has queued nothing yet.
LEMMA InHandNotDone ==
    ASSUME DInv, WorkAscends, enc \notin {"idle", "finish"}
    PROVE  ~IsDone(current.id)
<1>1. current.id \in Nat
  BY DEF DInv, PInv, Operations, Encoding, IInv, CallsItems, Item
<1> QED
  BY <1>1, DoneBefore

\* queue_encode() adds the highest number so far.
LEMMA AscendsOffered ==
    ASSUME DInv, WorkAscends, NEW j, Offer(j) PROVE WorkAscends'
<1>1. CASE UNCHANGED accepted
  BY <1>1 DEF WorkAscends
<1>2. CASE accepted' = Append(accepted, [kind |-> "work", id |-> offered + 1])
  <2>1. /\ Len(accepted) \in Nat /\ Len(accepted') = Len(accepted) + 1
        /\ \A i \in 1..Len(accepted) : accepted'[i] = accepted[i]
        /\ accepted'[Len(accepted) + 1].id = offered + 1
    BY <1>2 DEF DInv, IInv, TypeOK
  <2>2. offered \in Nat
    BY DEF DInv, IInv, TypeOK
  <2>3. \A i \in 1..Len(accepted) : accepted[i].kind = "work" => accepted[i].id < offered + 1
    BY <2>2 DEF DInv, PInv, Operations, AcceptedOffered
  <2> SUFFICES ASSUME NEW i \in 1..Len(accepted'), NEW k \in 1..Len(accepted'), i < k,
                      accepted'[i].kind = "work", accepted'[k].kind = "work"
               PROVE  accepted'[i].id < accepted'[k].id
    BY DEF WorkAscends
  <2>4. CASE k \in 1..Len(accepted)
    <3>1. i \in 1..Len(accepted)
      BY <2>1, <2>4
    <3> QED
      BY <2>1, <2>4, <3>1 DEF WorkAscends
  <2>5. CASE k = Len(accepted) + 1
    <3>1. i \in 1..Len(accepted)
      BY <2>1, <2>5
    <3> QED
      BY <2>1, <2>3, <2>5, <3>1
  <2> QED
    BY <2>1, <2>4, <2>5
<1> QED
  BY <1>1, <1>2 DEF Offer, start_queue_encode, StartFails

\* stop_encode_thread() adds no work.
LEMMA AscendsSealed ==
    ASSUME DInv, WorkAscends, stop_encode_thread PROVE WorkAscends'
<1>1. \A i \in 1..Len(encode_at_end) : encode_at_end[i].kind = "end"
  BY DEF DInv, IInv, Conserved, KindsInOrder
<1>2. accepted' = accepted \o encode_at_end /\ accepted \in Seq(Item) /\ encode_at_end \in Seq(Item)
  BY DEF stop_encode_thread, DInv, IInv, TypeOK
<1>3. /\ Len(accepted) \in Nat /\ Len(encode_at_end) \in Nat
      /\ Len(accepted') = Len(accepted) + Len(encode_at_end)
      /\ \A i \in 1..Len(accepted) : accepted'[i] = accepted[i]
      /\ \A i \in 1..Len(encode_at_end) : accepted'[Len(accepted) + i] = encode_at_end[i]
  BY <1>2
<1>4. ASSUME NEW i \in 1..Len(accepted'), accepted'[i].kind = "work" PROVE i \in 1..Len(accepted)
  <2>1. CASE i \notin 1..Len(accepted)
    <3>1. i - Len(accepted) \in 1..Len(encode_at_end) /\ Len(accepted) + (i - Len(accepted)) = i
      BY <1>3, <2>1
    <3> QED
      BY <1>1, <1>3, <1>4, <3>1
  <2> QED
    BY <2>1
<1> QED
  BY <1>3, <1>4 DEF WorkAscends

\* A step keeps the backlog real if it moves no packet and takes no owner away
\* from a pending one.
LEMMA BacklogKept ==
    ASSUME BInv, UNCHANGED <<packet_queue, unacked, parse, acked>>,
           format' = format \/ packet_queue # <<>>,
           WorkAscends', \A n : IsDone(n) => IsDone(n)',
           ack_pending' \subseteq ack_pending, closing => closing',
           closing' \/ \A n \in ack_pending' : n \in owners => n \in owners',
           CallbackOwned'
    PROVE  BInv'
<1>1. QueueTypes'
  BY DEF BInv, QueueTypes
<1>2. PacketsDone'
  BY DEF BInv, PacketsDone
<1>3. PendingOwned'
  BY DEF BInv, PendingOwned
<1>4. BacklogIsReal'
  BY DEF BInv, BacklogIsReal, Draw
<1> QED
  BY <1>1, <1>2, <1>3, <1>4 DEF BInv

\* The packet that is about to be queued keeps its owner as long as a source
\* that is idle loses its owners, because its own source is not idle.
LEMMA CallbackPinned ==
    ASSUME DInv, enc = "callback", NEW w \in Windows, Idle(w)
    PROVE  current.id \notin Of(w, owners)
<1>1. Here # w
  BY DEF DInv, PInv, Operations, OperationsCounted, EncodeBorrows, ParseBorrows, Idle
<1> QED
  BY <1>1 DEF Of, Here, J, DInv, PInv, Operations, Encoding

-----------------------------------------------------------------------------
(* The steps. *)

\* Steps that neither move a packet nor touch an owner or a pending entry.
LEMMA OtherSteps ==
    ASSUME DInv, BInv,
           UNCHANGED <<packet_queue, unacked, parse, acked, owners, ack_pending, called, enc,
                       current>>,
           format' = format \/ packet_queue # <<>>,
           WorkAscends', closing => closing'
    PROVE  BInv'
<1>1. \A n : IsDone(n) => IsDone(n)'
  BY DEF IsDone
<1>2. CallbackOwned'
  BY DEF BInv, CallbackOwned
<1> QED
  BY <1>1, <1>2, BacklogKept

\* The windows, the ordinary packets and the beginning of the end.
LEMMA QuietSteps ==
    ASSUME DInv, BInv,
           \/ \E w \in Windows :
                 \/ new_window(w) \/ map_window(w) \/ resize_window(w) \/ lost_window(w)
                 \/ ui_cleanup(w) \/ \E c \in Codings : Capture(w, c)
           \/ ResizeSent \/ remove_window \/ unregister_damage_packets
           \/ NextOrdinary \/ NoOrdinary \/ close \/ cleanup
    PROVE  BInv'
<1>1. /\ UNCHANGED <<packet_queue, unacked, parse, acked, owners, ack_pending, called, enc,
                     current, accepted>>
      /\ format' = format \/ packet_queue # <<>>
      /\ closing => closing'
  <2>1. ASSUME NEW w \in Windows,
               \/ new_window(w) \/ map_window(w) \/ resize_window(w) \/ lost_window(w)
               \/ ui_cleanup(w) \/ \E c \in Codings : Capture(w, c)
        PROVE  UNCHANGED <<packet_queue, unacked, parse, acked, owners, ack_pending, called, enc,
                           current, accepted, format, closing>>
    BY <2>1 DEF new_window, map_window, resize_window, lost_window, Capture, ui_cleanup,
       vars, threads, outbound
  <2>2. CASE ResizeSent \/ remove_window \/ unregister_damage_packets \/ NextOrdinary
             \/ NoOrdinary \/ close \/ cleanup
    BY <2>2 DEF ResizeSent, remove_window, unregister_damage_packets, NextOrdinary, NoOrdinary,
       close, cleanup, vars, threads, registry, outbound, notFormat, notConn
  <2> QED
    BY <2>1, <2>2
<1>2. WorkAscends'
  BY <1>1 DEF BInv, WorkAscends
<1> QED
  BY <1>1, <1>2, OtherSteps

\* unmap_window() resets the statistics: pending entries only go.
LEMMA UnmapKeeps ==
    ASSUME DInv, BInv, NEW w \in Windows, unmap_window(w) PROVE BInv'
<1>1. /\ UNCHANGED <<packet_queue, format, unacked, parse, acked, owners, called, enc, current,
                     accepted, closing>>
      /\ ack_pending' \subseteq ack_pending
  BY DEF unmap_window, vars, threads, outbound
<1>2. WorkAscends' /\ CallbackOwned' /\ \A n : IsDone(n) => IsDone(n)'
  BY <1>1 DEF BInv, WorkAscends, CallbackOwned, IsDone
<1> QED
  BY <1>1, <1>2, BacklogKept

\* What is offered to the encode queue is new, and not published yet.
LEMMA OfferKeeps ==
    ASSUME DInv, BInv,
           OfferDamage \/ SourceCleaned \/ \E w \in Windows : CleanupSource(w)
    PROVE  BInv'
<1>1. /\ UNCHANGED <<packet_queue, format, unacked, parse, acked, owners, enc, closing>>
      /\ ack_pending' \subseteq ack_pending
      /\ UNCHANGED <<vars, job>> \/ \E j : Offer(j)
  BY DEF OfferDamage, SourceCleaned, CleanupSource, CleanSource, registry, outbound, notConn
<1>2. UNCHANGED <<called, current>>
  BY <1>1 DEF vars, Offer, start_queue_encode, StartFails
<1>3. WorkAscends'
  BY <1>1, AscendsOffered DEF BInv, WorkAscends, vars
<1>4. CallbackOwned' /\ \A n : IsDone(n) => IsDone(n)'
  BY <1>1, <1>2 DEF BInv, CallbackOwned, IsDone
<1> QED
  BY <1>1, <1>3, <1>4, BacklogKept

\* unregister_damage_packets() takes owners and pending entries of one source.
LEMMA UnregisteredKeeps == ASSUME DInv, BInv, Unregistered PROVE BInv'
<1>1. /\ UNCHANGED <<packet_queue, format, unacked, parse, acked, called, enc, current,
                     accepted, closing>>
      /\ target \in Windows /\ Idle(target)
      /\ owners' = owners \ Of(target, owners)
      /\ ack_pending' = ack_pending \ Of(target, ack_pending)
  BY DEF Unregistered, MainMay, vars, outbound, DInv, PInv, SourceTypes
<1>2. WorkAscends' /\ \A n : IsDone(n) => IsDone(n)'
  BY <1>1 DEF BInv, WorkAscends, IsDone
<1>3. CallbackOwned'
  BY <1>1, CallbackPinned DEF BInv, CallbackOwned
<1>4. \A n \in ack_pending' : n \in owners => n \in owners'
  BY <1>1 DEF Of
<1> QED
  BY <1>1, <1>2, <1>3, <1>4, BacklogKept

\* cleanup() of the connection takes all of the owners, when no source is used.
LEMMA CleanupWaitedKeeps == ASSUME DInv, BInv, CleanupWaited PROVE BInv'
<1>1. /\ UNCHANGED <<packet_queue, format, unacked, parse, acked, ack_pending, called, enc,
                     current, accepted, closing>>
      /\ closing /\ \A w \in Windows : Idle(w)
  BY DEF CleanupWaited, notConn, vars, outbound, DInv, PInv, Lifecycle, Closing
<1>2. WorkAscends' /\ \A n : IsDone(n) => IsDone(n)'
  BY <1>1 DEF BInv, WorkAscends, IsDone
<1>3. enc # "callback"
  <2>1. CASE enc = "callback"
    <3>1. Here \in Windows /\ active_ops[Here] # 0
      BY <2>1, CurrentOffered, PacketsOfWindows DEF DInv, PInv, Operations, Encoding, Here, J,
         OperationsCounted, EncodeBorrows, ParseBorrows
    <3> QED
      BY <1>1, <3>1 DEF Idle
  <2> QED
    BY <2>1
<1> QED
  BY <1>1, <1>2, <1>3, BacklogKept DEF CallbackOwned

\* The end of the encode queue adds no work.
LEMMA QueueEndKeeps == ASSUME DInv, BInv, CleanupAreas \/ CleanupQueue PROVE BInv'
<1>1. UNCHANGED <<packet_queue, format, unacked, parse, acked, owners, ack_pending, called, enc,
                  current, closing>>
  BY DEF CleanupAreas, CleanupQueue, call_in_encode_thread_at_end, stop_encode_thread,
     threads, registry, outbound, notConn
<1>2. WorkAscends'
  BY AscendsSealed DEF BInv, WorkAscends, CleanupAreas, CleanupQueue,
     call_in_encode_thread_at_end
<1> QED
  BY <1>1, <1>2, OtherSteps

\* The encode thread takes the next function.
LEMMA TakesKeeps == ASSUME DInv, BInv, EncodeTakes PROVE BInv'
<1>1. /\ UNCHANGED <<packet_queue, format, unacked, parse, acked, owners, ack_pending, called,
                     enc, accepted, closing>>
      /\ enc = "idle"
  BY DEF EncodeTakes, TakeItem, threads, registry, outbound, DInv, PInv, Operations, Encoding
<1>2. WorkAscends' /\ CallbackOwned' /\ \A n : IsDone(n) => IsDone(n)'
  BY <1>1 DEF BInv, WorkAscends, CallbackOwned, IsDone
<1> QED
  BY <1>1, <1>2, BacklogKept

\* Steps of the encode thread that queue nothing, and leave the owners of what
\* is done as they are.
LEMMA EncodeKeeps ==
    ASSUME DInv, BInv,
           \/ CallOther \/ claim_damage_packet_publication \/ EncodeMmap \/ EncodePixels
           \/ publish_damage_packet \/ PublishFails \/ queue_mmap_drain \/ PublishFinished
           \/ release_damage_packet_publication
    PROVE  BInv'
<1>1. /\ UNCHANGED <<packet_queue, format, unacked, parse, acked, ack_pending, current, accepted,
                     closing>>
      /\ enc' # "idle" => UNCHANGED called
      /\ enc' = "idle" => called' = Append(called, current)
  BY DEF CallOther, claim_damage_packet_publication, EncodeMmap, EncodePixels,
     publish_damage_packet, PublishFails, queue_mmap_drain, PublishFinished,
     release_damage_packet_publication, Go, Return, CallItem, vars, registry, outbound, notEncode
<1>2. \/ UNCHANGED owners
      \/ owners' = owners \cup {current.id}
      \/ enc = "callback" /\ owners' = owners \ {current.id}
  BY DEF CallOther, claim_damage_packet_publication, EncodeMmap, EncodePixels,
     publish_damage_packet, PublishFails, queue_mmap_drain, PublishFinished,
     release_damage_packet_publication, Working, registry
<1>3. enc = "finish" => enc' = "idle"
  BY DEF CallOther, claim_damage_packet_publication, EncodeMmap, EncodePixels,
     publish_damage_packet, PublishFails, queue_mmap_drain, PublishFinished,
     release_damage_packet_publication, Working, Go, Return
<1>4. WorkAscends' /\ \A n : IsDone(n) => IsDone(n)'
  BY <1>1, <1>3, DoneStays DEF BInv, WorkAscends
<1>5. CallbackOwned'
  <2>1. CASE enc' = "callback"
    <3>1. owners' = owners \cup {current.id}
      BY <2>1 DEF CallOther, claim_damage_packet_publication, EncodeMmap, EncodePixels,
         publish_damage_packet, PublishFails, queue_mmap_drain, PublishFinished,
         release_damage_packet_publication, Go, Return
    <3> QED
      BY <1>1, <3>1 DEF CallbackOwned
  <2> QED
    BY <2>1 DEF CallbackOwned
<1>6. \A n \in ack_pending' : n \in owners => n \in owners'
  BY <1>1, <1>2, InHandNotDone DEF BInv, PacketsDone
<1> QED
  BY <1>1, <1>4, <1>5, <1>6, BacklogKept

\* A packet that joins the queue belongs to the function that has just finished.
LEMMA QueueGrows ==
    ASSUME DInv, BInv, enc' = "finish", current' = current, UNCHANGED called, enc # "finish",
           NEW p, p \in QueuedPacket, p.id = current.id,
           packet_queue' = Append(packet_queue, p), UNCHANGED <<unacked, format>>,
           ack_pending' \subseteq ack_pending \cup {current.id}
    PROVE  /\ QueueTypes' /\ PacketsDone'
           /\ \A i \in 1..Len(packet_queue) :
                 i \in 1..Len(packet_queue') /\ packet_queue'[i] = packet_queue[i]
           /\ \E i \in 1..Len(packet_queue') : packet_queue'[i] = p
<1>1. packet_queue \in Seq(QueuedPacket)
  BY DEF BInv, QueueTypes
<1>2. /\ packet_queue' \in Seq(QueuedPacket) /\ packet_queue' # <<>>
      /\ Len(packet_queue) \in Nat /\ Len(packet_queue') = Len(packet_queue) + 1
      /\ \A i \in 1..Len(packet_queue) : packet_queue'[i] = packet_queue[i]
      /\ packet_queue'[Len(packet_queue) + 1] = p
  BY <1>1
<1>3. IsDone(current.id)' /\ \A n : IsDone(n) => IsDone(n)'
  BY DEF IsDone
<1>4. PacketsDone'
  BY <1>2, <1>3 DEF BInv, PacketsDone
<1> QED
  BY <1>2, <1>4 DEF QueueTypes

\* publish() of queue_damage_packet(): the pending packet is queued and owned.
LEMMA PublishedKeeps == ASSUME DInv, BInv, Published PROVE BInv'
<1>1. /\ enc = "callback" /\ encode_thread = "calling" /\ enc' = "finish"
      /\ UNCHANGED <<current, called, accepted, unacked, format, owners, parse, acked, closing>>
      /\ packet_queue' = Append(packet_queue, Draw(current.id))
      /\ ack_pending' = ack_pending \cup {current.id}
  BY DEF Published, Working, Go, vars, notEncode
<1>2. Draw(current.id) \in QueuedPacket /\ Draw(current.id).id = current.id
  BY <1>1 DEF Draw, QueuedPacket, DInv, IInv, CallsItems, Item
<1>3. /\ QueueTypes' /\ PacketsDone'
      /\ \A i \in 1..Len(packet_queue) :
            i \in 1..Len(packet_queue') /\ packet_queue'[i] = packet_queue[i]
      /\ \E i \in 1..Len(packet_queue') : packet_queue'[i] = Draw(current.id)
  BY <1>1, <1>2, QueueGrows
<1>4. WorkAscends' /\ CallbackOwned'
  BY <1>1 DEF BInv, WorkAscends, CallbackOwned
<1>5. PendingOwned'
  BY <1>1 DEF BInv, PendingOwned, CallbackOwned
<1>6. BacklogIsReal'
  <2> SUFFICES ASSUME ~closing, NEW n \in ack_pending'
               PROVE  \/ \E i \in 1..Len(packet_queue') : packet_queue'[i] = Draw(n)
                      \/ n \in unacked
                      \/ parse = "acking" /\ acked = n
    <3>1. DOMAIN packet_queue' = 1..Len(packet_queue')
      BY <1>3 DEF QueueTypes
    <3> QED
      BY <1>1, <3>1 DEF BacklogIsReal, Draw
  <2>1. DOMAIN packet_queue = 1..Len(packet_queue)
    BY DEF BInv, QueueTypes
  <2>2. CASE n \in ack_pending
    BY <1>3, <2>1, <2>2 DEF BInv, BacklogIsReal
  <2>3. CASE n = current.id
    BY <1>3, <2>3
  <2> QED
    BY <1>1, <2>2, <2>3
<1> QED
  BY <1>3, <1>4, <1>5, <1>6 DEF BInv

\* A terminal publisher queues a packet for no window.
LEMMA TerminalKeeps == ASSUME DInv, BInv, terminal_publisher PROVE BInv'
<1>1. /\ enc = "terminal" /\ encode_thread = "calling" /\ enc' = "finish"
      /\ UNCHANGED <<current, called, accepted, unacked, format, owners, ack_pending, parse, acked,
                     closing>>
      /\ packet_queue' = Append(packet_queue, Drain(current.id))
  BY DEF terminal_publisher, Terminal, Working, Go, vars, registry, notEncode
<1>2. Drain(current.id) \in QueuedPacket /\ Drain(current.id).id = current.id
  BY <1>1 DEF Drain, QueuedPacket, DInv, IInv, CallsItems, Item
<1>3. /\ QueueTypes' /\ PacketsDone'
      /\ \A i \in 1..Len(packet_queue) :
            i \in 1..Len(packet_queue') /\ packet_queue'[i] = packet_queue[i]
  BY <1>1, <1>2, QueueGrows
<1>4. WorkAscends' /\ CallbackOwned' /\ PendingOwned'
  BY <1>1 DEF BInv, WorkAscends, CallbackOwned, PendingOwned
<1>5. DOMAIN packet_queue' = 1..Len(packet_queue') /\ DOMAIN packet_queue = 1..Len(packet_queue)
  BY <1>3 DEF BInv, QueueTypes
<1>6. BacklogIsReal'
  BY <1>1, <1>3, <1>5 DEF BInv, BacklogIsReal, Draw
<1> QED
  BY <1>3, <1>4, <1>6 DEF BInv

\* next_packet() sends a draw, or drops it with its pending entry.
LEMMA NextPixelsKeeps == ASSUME DInv, BInv, NextPixels PROVE BInv'
<1> DEFINE p == Head(packet_queue)
           passes == p.drain \/ Rechecked(p)
<1>1. /\ format = "pixels" /\ format' = "idle" /\ packet_queue' = Tail(packet_queue)
      /\ unacked' = IF passes /\ ~p.drain THEN unacked \cup {p.id} ELSE unacked
      /\ owners' = IF passes THEN owners ELSE owners \ {p.id}
      /\ ack_pending' = IF passes THEN ack_pending ELSE Unaccounted(p.id)
      /\ UNCHANGED <<called, accepted, current, enc, parse, acked, closing>>
  BY DEF NextPixels, vars, notFormat
<1>2. /\ packet_queue \in Seq(QueuedPacket) /\ packet_queue # <<>>
  BY <1>1 DEF BInv, QueueTypes
<1>3. /\ packet_queue' \in Seq(QueuedPacket)
      /\ p = packet_queue[1] /\ 1 \in 1..Len(packet_queue) /\ p.drain \in BOOLEAN
      /\ Len(packet_queue') = Len(packet_queue) - 1 /\ Len(packet_queue) \in Nat
      /\ \A i \in 1..Len(packet_queue') : /\ i + 1 \in 1..Len(packet_queue)
                                          /\ packet_queue'[i] = packet_queue[i + 1]
  <2>1. /\ p = packet_queue[1] /\ 1 \in 1..Len(packet_queue) /\ Len(packet_queue) \in Nat
        /\ packet_queue[1] \in QueuedPacket
    BY <1>2
  <2>2. p.drain \in BOOLEAN
    BY <2>1 DEF QueuedPacket
  <2>3. packet_queue' = Tail(packet_queue)
    BY <1>1
  <2>4. /\ packet_queue' \in Seq(QueuedPacket)
        /\ Len(packet_queue') = Len(packet_queue) - 1
        /\ \A i \in 1..Len(packet_queue') : /\ i + 1 \in 1..Len(packet_queue)
                                            /\ packet_queue'[i] = packet_queue[i + 1]
    BY <1>2, <2>3
  <2> QED
    BY <2>1, <2>2, <2>4
<1> HIDE DEF p, passes
<1>4. QueueTypes'
  BY <1>1, <1>3 DEF QueueTypes
<1>5. WorkAscends'
  BY <1>1 DEF BInv, WorkAscends
<1>6. ack_pending' \subseteq ack_pending /\ \A n \in ack_pending' : n \in owners => n \in owners'
  BY <1>1 DEF Unaccounted
<1>7. PacketsDone'
  <2>1. \A n : IsDone(n) => IsDone(n)'
    BY <1>1 DEF IsDone
  <2>2. IsDone(p.id)
    BY <1>3 DEF BInv, PacketsDone
  <2> QED
    BY <1>1, <1>3, <1>6, <2>1, <2>2 DEF BInv, PacketsDone
<1>8. CallbackOwned'
  <2>1. IsDone(p.id)
    BY <1>3 DEF BInv, PacketsDone
  <2>2. enc = "callback" => p.id # current.id
    BY <2>1, InHandNotDone DEF BInv
  <2> QED
    BY <1>1, <2>2 DEF BInv, CallbackOwned
<1>9. PendingOwned'
  BY <1>1, <1>6 DEF BInv, PendingOwned
<1>10. BacklogIsReal'
  <2> SUFFICES ASSUME ~closing, NEW n \in ack_pending'
               PROVE  \/ \E i \in 1..Len(packet_queue') : packet_queue'[i] = Draw(n)
                      \/ n \in unacked'
                      \/ parse = "acking" /\ acked = n
    <3>1. DOMAIN packet_queue' = 1..Len(packet_queue')
      BY <1>3
    <3> QED
      BY <1>1, <3>1 DEF BacklogIsReal, Draw
  <2>1. n \in ack_pending /\ DOMAIN packet_queue = 1..Len(packet_queue)
    BY <1>2, <1>6
  <2>2. CASE n \in unacked
    BY <1>1, <2>2
  <2>3. CASE parse = "acking" /\ acked = n
    BY <2>3
  <2>4. ASSUME NEW i \in 1..Len(packet_queue), packet_queue[i] = Draw(n), i # 1
        PROVE  \E k \in 1..Len(packet_queue') : packet_queue'[k] = Draw(n)
    <3>1. i - 1 \in 1..Len(packet_queue') /\ (i - 1) + 1 = i
      BY <1>3, <2>4
    <3> QED
      BY <1>3, <2>4, <3>1
  <2>5. CASE p = Draw(n)
    <3>1. p.id = n /\ ~p.drain
      BY <2>5 DEF Draw
    <3>2. CASE passes
      BY <1>1, <3>1, <3>2
    <3>3. CASE ~passes
      <4>1. n \notin owners
        BY <1>1, <3>1, <3>3 DEF Unaccounted
      <4> QED
        BY <2>1, <4>1 DEF BInv, PendingOwned
    <3> QED
      BY <3>2, <3>3
  <2> QED
    BY <1>3, <2>1, <2>2, <2>3, <2>4, <2>5 DEF BInv, BacklogIsReal
<1> QED
  BY <1>4, <1>5, <1>7, <1>8, <1>9, <1>10 DEF BInv

\* client_ack_damage() takes the owner of a packet and handles it, or finds
\* none and nothing pending either.
LEMMA AckKeeps == ASSUME DInv, BInv, client_ack_damage PROVE BInv'
<1>1. PICK n \in unacked :
         /\ parse = "idle" /\ unacked' = unacked \ {n} /\ owners' = owners \ {n}
         /\ IF n \in owners
            THEN parse' = "acking" /\ acked' = n
            ELSE UNCHANGED <<parse, acked>>
  BY DEF client_ack_damage
<1>2. UNCHANGED <<packet_queue, format, ack_pending, called, accepted, current, enc, closing>>
  BY DEF client_ack_damage, vars, notParse
<1>3. \A m : IsDone(m) <=> IsDone(m)'
  BY <1>2 DEF IsDone
<1>4. QueueTypes' /\ WorkAscends'
  BY <1>2 DEF BInv, QueueTypes, WorkAscends
<1>5. PacketsDone'
  BY <1>1, <1>2, <1>3 DEF BInv, PacketsDone
<1>6. CallbackOwned'
  BY <1>1, <1>2, InHandNotDone DEF BInv, CallbackOwned, PacketsDone
<1>7. PendingOwned'
  BY <1>1, <1>2 DEF BInv, PendingOwned
<1>8. BacklogIsReal'
  BY <1>1, <1>2 DEF BInv, BacklogIsReal, PendingOwned, Draw
<1> QED
  BY <1>4, <1>5, <1>6, <1>7, <1>8 DEF BInv

\* damage_packet_acked() settles the pending entry.
LEMMA AckedKeeps == ASSUME DInv, BInv, damage_packet_acked PROVE BInv'
<1>1. /\ UNCHANGED <<packet_queue, format, unacked, owners, called, accepted, current, enc, closing>>
      /\ parse = "acking" /\ ack_pending' = ack_pending \ {acked}
  BY DEF damage_packet_acked, vars, notParse, outbound
<1>2. \A m : IsDone(m) <=> IsDone(m)'
  BY <1>1 DEF IsDone
<1>3. QueueTypes' /\ WorkAscends' /\ CallbackOwned'
  BY <1>1 DEF BInv, QueueTypes, WorkAscends, CallbackOwned
<1>4. PacketsDone' /\ PendingOwned'
  BY <1>1, <1>2 DEF BInv, PacketsDone, PendingOwned
<1>5. BacklogIsReal'
  BY <1>1 DEF BInv, BacklogIsReal, Draw
<1> QED
  BY <1>3, <1>4, <1>5 DEF BInv

-----------------------------------------------------------------------------
\* Every step keeps the backlog real.
LEMMA BacklogInductive == DInv /\ BInv /\ [DamageNext]_dvars => BInv'
<1> SUFFICES ASSUME DInv, BInv, [DamageNext]_dvars PROVE BInv'
  OBVIOUS
<1>1. CASE \E w \in Windows :
              \/ new_window(w) \/ map_window(w) \/ unmap_window(w) \/ resize_window(w)
              \/ lost_window(w)
              \/ \E c \in Codings : Capture(w, c)
  BY <1>1, QuietSteps, UnmapKeeps
<1>2. CASE MainContinues
  BY <1>2, QuietSteps, OfferKeeps, UnregisteredKeeps DEF MainContinues
<1>3. CASE EncodeStep
  BY <1>3, TakesKeeps, EncodeKeeps, PublishedKeeps, TerminalKeeps DEF EncodeStep
<1>4. CASE NextOrdinary \/ NoOrdinary \/ NextPixels \/ client_ack_damage
           \/ damage_packet_acked \/ close
  BY <1>4, QuietSteps, NextPixelsKeeps, AckKeeps, AckedKeeps
<1>5. CASE CloseContinues
  BY <1>5, QuietSteps, CleanupWaitedKeeps, QueueEndKeeps, OfferKeeps DEF CloseContinues
<1>6. CASE UNCHANGED dvars
  <2>1. UNCHANGED <<packet_queue, unacked, parse, acked, owners, ack_pending, called, enc, current,
                    format, accepted, closing>>
    BY <1>6 DEF dvars, vars, threads, registry, outbound
  <2> QED
    BY <2>1, OtherSteps DEF BInv, WorkAscends
<1> QED
  BY <1>1, <1>2, <1>3, <1>4, <1>5, <1>6 DEF DamageNext

\* The pipeline and its backlog are as their invariants say.
LEMMA BacklogAlways == DamageSpec => [](DInv /\ BInv)
<1>1. DamageInit => BInv
  <2> SUFFICES ASSUME DamageInit PROVE BInv
    OBVIOUS
  <2>1. <<>> \in Seq(QueuedPacket) /\ Len(<<>>) = 0
    OBVIOUS
  <2> QED
    BY <2>1 DEF DamageInit, Init, BInv, QueueTypes, WorkAscends, PacketsDone, CallbackOwned,
       PendingOwned, BacklogIsReal
<1> QED
  BY <1>1, BacklogInductive, Always, PTL DEF DamageSpec

\* The backlog that a window source sees is real: while the connection lives,
\* each pending entry is a draw that is queued, on its way, or being handled.
THEOREM BacklogIsRealHolds == DamageSpec => []BacklogIsReal
<1>1. BInv => BacklogIsReal
  BY DEF BInv
<1> QED
  BY <1>1, BacklogAlways, PTL

-----------------------------------------------------------------------------
(* The chunks in the ring.                                                 *)
(*                                                                         *)
(* The functions are called in the order in which they were offered, which *)
(* is the order of their numbers: what is done comes before what is in     *)
(* hand.  So the packets are queued in ascending order, and whatever       *)
(* becomes of a packet that was written to the ring, the encode thread     *)
(* holds it until it is queued, as a draw or to be drained.                *)

QueueAscends ==
    \A i, j \in 1..Len(packet_queue) : i < j => packet_queue[i].id < packet_queue[j].id

RingTypes == ring \in Seq(Nat) /\ \A i \in 1..Len(ring) : ring[i] \in DOMAIN job

RingAscends == ~closing => \A i, j \in 1..Len(ring) : i < j => ring[i] < ring[j]

IsQueued(n) == \E i \in 1..Len(packet_queue) : packet_queue[i].id = n
IsHeld(n) == enc \in {"publish", "callback", "terminal", "drain"} /\ current.id = n
InRing(n) == \E i \in 1..Len(ring) : ring[i] = n

\* The chunks in the ring are those of the packets that are queued or held.
RingExact ==
    ~closing =>
        \A n : InRing(n) <=> (IsQueued(n) \/ IsHeld(n)) /\ job[n].coding = "mmap"

RInv == QueueAscends /\ RingTypes /\ RingAscends /\ RingExact

\* What is done was offered.
LEMMA DoneOffered ==
    ASSUME DInv, NEW n, IsDone(n) PROVE n \in DOMAIN job /\ n \in Nat
<1>1. DOMAIN job = 1..offered /\ offered \in Nat
  BY DEF DInv, PInv, JobTypes, IInv, TypeOK
<1>2. CASE enc = "finish" /\ current.id = n
  BY <1>1, <1>2, CurrentOffered DEF DInv, PInv, Operations, Encoding
<1>3. ASSUME NEW i \in 1..Len(called), called[i].kind = "work", called[i].id = n
      PROVE  n \in 1..offered
  <2>1. i \in 1..Len(accepted) /\ called[i] = accepted[i]
    BY DEF DInv, IInv, TypeOK, Conserved, Counted, InHand, CalledInOrder
  <2> QED
    BY <1>3, <2>1 DEF DInv, PInv, Operations, AcceptedOffered
<1> QED
  BY <1>1, <1>2, <1>3 DEF IsDone

\* What is in the ring, queued or held was offered.
LEMMA ComingOffered ==
    ASSUME DInv, BInv, RInv, NEW n, InRing(n) \/ IsQueued(n) \/ IsHeld(n)
    PROVE  n \in DOMAIN job /\ n \in Nat
<1>1. DOMAIN job = 1..offered /\ offered \in Nat
  BY DEF DInv, PInv, JobTypes, IInv, TypeOK
<1>2. CASE InRing(n)
  BY <1>1, <1>2 DEF InRing, RInv, RingTypes
<1>3. CASE IsQueued(n)
  BY <1>3, DoneOffered DEF IsQueued, BInv, PacketsDone
<1>4. CASE IsHeld(n)
  BY <1>1, <1>4, CurrentOffered DEF IsHeld, DInv, PInv, Operations, Encoding
<1> QED
  BY <1>2, <1>3, <1>4

\* A step that leaves the ring and the queue alone keeps them, if the packet
\* that is held stays held, or has no chunks.
LEMMA RingKept ==
    ASSUME DInv, BInv, RInv, UNCHANGED <<packet_queue, ring>>,
           \A n \in DOMAIN job : n \in DOMAIN job' /\ job'[n] = job[n],
           closing => closing',
           closing' \/ \A n : job[n].coding = "mmap" => (IsHeld(n)' <=> IsHeld(n)),
           closing' \/ \A n : IsHeld(n)' => n \in DOMAIN job
    PROVE  RInv'
<1>1. QueueAscends' /\ RingTypes' /\ RingAscends'
  BY DEF RInv, QueueAscends, RingTypes, RingAscends
<1>2. ASSUME ~closing', NEW n
      PROVE  InRing(n)' <=> (IsQueued(n) \/ IsHeld(n))' /\ job'[n].coding = "mmap"
  <2>1. (IsQueued(n)' <=> IsQueued(n)) /\ (InRing(n)' <=> InRing(n)) /\ ~closing
    BY <1>2 DEF IsQueued, InRing
  <2>2. InRing(n) <=> (IsQueued(n) \/ IsHeld(n)) /\ job[n].coding = "mmap"
    BY <2>1 DEF RInv, RingExact
  <2>3. CASE n \in DOMAIN job
    BY <1>2, <2>1, <2>2, <2>3
  <2>4. CASE n \notin DOMAIN job
    BY <1>2, <2>1, <2>4, ComingOffered
  <2> QED
    BY <2>3, <2>4
<1>3. RingExact'
  BY <1>2 DEF RingExact
<1> QED
  BY <1>1, <1>3 DEF RInv

\* The other threads leave the ring alone.
LEMMA RingElsewhere ==
    ASSUME DInv, BInv, RInv, UNCHANGED <<packet_queue, ring, enc, current>>,
           \A n \in DOMAIN job : n \in DOMAIN job' /\ job'[n] = job[n],
           closing => closing'
    PROVE  RInv'
<1>1. \A n : IsHeld(n)' <=> IsHeld(n)
  BY DEF IsHeld
<1> QED
  BY <1>1, RingKept, ComingOffered

\* The windows, the ordinary packets and the acknowledgements.
LEMMA RingQuiet ==
    ASSUME DInv, BInv, RInv,
           \/ \E w \in Windows :
                 \/ new_window(w) \/ map_window(w) \/ unmap_window(w) \/ resize_window(w)
                 \/ lost_window(w) \/ ui_cleanup(w) \/ \E c \in Codings : Capture(w, c)
           \/ ResizeSent \/ remove_window \/ unregister_damage_packets \/ Unregistered
           \/ NextOrdinary \/ NoOrdinary \/ client_ack_damage \/ damage_packet_acked
           \/ close \/ cleanup \/ CleanupWaited
    PROVE  RInv'
<1>1. UNCHANGED <<packet_queue, ring, enc, current, job, accepted>> /\ (closing => closing')
  <2>1. ASSUME NEW w \in Windows,
               \/ new_window(w) \/ map_window(w) \/ unmap_window(w) \/ resize_window(w)
               \/ lost_window(w) \/ ui_cleanup(w) \/ \E c \in Codings : Capture(w, c)
        PROVE  UNCHANGED <<packet_queue, ring, enc, current, job, accepted, closing>>
    BY <2>1 DEF new_window, map_window, unmap_window, resize_window, lost_window, Capture,
       ui_cleanup, vars, threads, outbound
  <2>2. CASE ResizeSent \/ remove_window \/ unregister_damage_packets \/ Unregistered
             \/ NextOrdinary \/ NoOrdinary
    BY <2>2 DEF ResizeSent, remove_window, unregister_damage_packets, Unregistered,
       NextOrdinary, NoOrdinary, vars, threads, registry, outbound, notFormat
  <2>3. CASE client_ack_damage \/ damage_packet_acked \/ close \/ cleanup \/ CleanupWaited
    BY <2>3 DEF client_ack_damage, damage_packet_acked, close, cleanup, CleanupWaited, vars,
       registry, outbound, notParse, notConn
  <2> QED
    BY <2>1, <2>2, <2>3
<1> QED
  BY <1>1, RingElsewhere

\* queue_encode() changes nothing of what is in the ring.
LEMMA RingOffer ==
    ASSUME DInv, BInv, RInv,
           OfferDamage \/ SourceCleaned \/ \E w \in Windows : CleanupSource(w)
    PROVE  RInv'
<1>1. /\ UNCHANGED <<packet_queue, ring, enc, closing>>
      /\ UNCHANGED <<vars, job>> \/ \E j : Offer(j)
  BY DEF OfferDamage, SourceCleaned, CleanupSource, CleanSource, registry, outbound, notConn
<1>2. UNCHANGED current
  BY <1>1 DEF vars, Offer, start_queue_encode, StartFails
<1>3. \A n \in DOMAIN job : n \in DOMAIN job' /\ job'[n] = job[n]
  <2>1. job \in Seq(Jobs)
    BY DEF DInv, PInv, JobTypes
  <2>2. ASSUME NEW j, job' = Append(job, j)
        PROVE  \A n \in DOMAIN job : n \in DOMAIN job' /\ job'[n] = job[n]
    BY <2>1, <2>2
  <2> QED
    BY <1>1, <2>2 DEF Offer
<1> QED
  BY <1>1, <1>2, <1>3, RingElsewhere

\* Nor does the end of the encode queue.
LEMMA RingQueueEnd ==
    ASSUME DInv, BInv, RInv, CleanupAreas \/ CleanupQueue PROVE RInv'
<1>1. UNCHANGED <<packet_queue, ring, enc, current, job, closing>>
  BY DEF CleanupAreas, CleanupQueue, call_in_encode_thread_at_end, stop_encode_thread,
     threads, registry, outbound, notConn
<1> QED
  BY <1>1, RingElsewhere

\* Steps of the encode thread that neither write to the ring nor queue: the
\* packet is given up only if it has no chunks, or the connection is closing.
LEMMA RingEncode ==
    ASSUME DInv, BInv, RInv,
           \/ EncodeTakes \/ CallOther \/ claim_damage_packet_publication \/ EncodePixels
           \/ publish_damage_packet \/ PublishFails \/ queue_mmap_drain \/ PublishFinished
           \/ release_damage_packet_publication
    PROVE  RInv'
<1> DEFINE Holds(e) == e \in {"publish", "callback", "terminal", "drain"}
<1>1. UNCHANGED <<packet_queue, ring, job, accepted, closing>>
  BY DEF EncodeTakes, TakeItem, CallOther, claim_damage_packet_publication, EncodePixels,
     publish_damage_packet, PublishFails, queue_mmap_drain, PublishFinished,
     release_damage_packet_publication, Go, Return, CallItem, vars, registry, outbound, notEncode
<1>2. CASE EncodeTakes
  <2>1. enc = "idle" /\ enc' = "idle"
    BY <1>2 DEF EncodeTakes, TakeItem, threads, DInv, PInv, Operations, Encoding
  <2>2. \A n : ~IsHeld(n) /\ ~IsHeld(n)'
    BY <2>1 DEF IsHeld
  <2> QED
    BY <1>1, <2>2, RingKept
<1>3. CASE ~EncodeTakes
  <2>1. UNCHANGED current /\ encode_thread = "calling"
    BY <1>3 DEF CallOther, claim_damage_packet_publication, EncodePixels,
       publish_damage_packet, PublishFails, queue_mmap_drain, PublishFinished,
       release_damage_packet_publication, Go, Return, CallItem, vars, Working
  <2>2. closing \/ J.coding # "mmap" \/ (Holds(enc') <=> Holds(enc))
    BY <1>3 DEF CallOther, claim_damage_packet_publication, EncodePixels,
       publish_damage_packet, PublishFails, queue_mmap_drain, PublishFinished,
       release_damage_packet_publication, Go, Return, Working
  <2>3. Holds(enc') => current.kind = "work"
    BY <1>3 DEF CallOther, claim_damage_packet_publication, EncodePixels,
       publish_damage_packet, PublishFails, queue_mmap_drain, PublishFinished,
       release_damage_packet_publication, Go, Return, Working, J, NoImage,
       DInv, PInv, Operations, Encoding
  <2>4. Holds(enc) => current.kind = "work"
    BY DEF DInv, PInv, Operations, Encoding
  <2>5. closing \/ \A n : job[n].coding = "mmap" => (IsHeld(n)' <=> IsHeld(n))
    BY <2>1, <2>2, <2>3, <2>4 DEF IsHeld, J
  <2>6. \A n : IsHeld(n)' => n \in DOMAIN job
    BY <2>1, <2>3, CurrentOffered DEF IsHeld
  <2> QED
    BY <1>1, <2>5, <2>6, RingKept
<1> QED
  BY <1>2, <1>3

\* mmap_encode() writes the chunks of the packet that it then holds, behind
\* those of all earlier packets.
LEMMA RingWritten == ASSUME DInv, BInv, RInv, EncodeMmap PROVE RInv'
<1>1. /\ enc = "encode" /\ encode_thread = "calling"
      /\ UNCHANGED <<packet_queue, job, accepted, closing, current>>
  BY DEF EncodeMmap, Working, Go, vars, registry
<1>2. \A n : ~IsHeld(n)
  BY <1>1 DEF IsHeld
<1>3. CASE enc' = "release" /\ UNCHANGED ring
  <2>1. \A n : ~IsHeld(n)'
    BY <1>3 DEF IsHeld
  <2> QED
    BY <1>1, <1>2, <1>3, <2>1, RingKept
<1>4. CASE enc' \in {"publish", "drain"} /\ ring' = Append(ring, current.id)
  <2>1. /\ current.kind = "work" /\ job[current.id].coding = "mmap"
        /\ current.id \in DOMAIN job
    BY <1>1, CurrentOffered DEF DInv, PInv, Operations, Encoding, J
  <2>2. current.id \in Nat /\ ring \in Seq(Nat)
    BY <1>1 DEF DInv, IInv, CallsItems, Item, RInv, RingTypes
  <2>3. /\ ring' \in Seq(Nat) /\ Len(ring) \in Nat /\ Len(ring') = Len(ring) + 1
        /\ \A i \in 1..Len(ring) : ring'[i] = ring[i]
        /\ ring'[Len(ring) + 1] = current.id
    BY <1>4, <2>2
  <2>4. QueueAscends'
    BY <1>1 DEF RInv, QueueAscends
  <2>5. RingTypes'
    <3>1. \A i \in 1..Len(ring') : i \in 1..Len(ring) \/ i = Len(ring) + 1
      BY <2>3
    <3>2. \A i \in 1..Len(ring') : ring'[i] \in DOMAIN job
      BY <2>1, <2>3, <3>1 DEF RInv, RingTypes
    <3> QED
      BY <1>1, <2>3, <3>2 DEF RingTypes
  <2>6. \A n : InRing(n)' <=> InRing(n) \/ n = current.id
    <3>1. \A i \in 1..Len(ring') : i \in 1..Len(ring) \/ i = Len(ring) + 1
      BY <2>3
    <3>2. Len(ring) + 1 \in 1..Len(ring') /\ \A i \in 1..Len(ring) : i \in 1..Len(ring')
      BY <2>3
    <3> QED
      BY <2>3, <3>1, <3>2, Zenon DEF InRing
  <2>7. \A n : IsQueued(n)' <=> IsQueued(n)
    BY <1>1 DEF IsQueued
  <2>8. \A n : IsHeld(n)' <=> n = current.id
    BY <1>1, <1>4 DEF IsHeld
  <2>9. RingExact'
    BY <1>1, <1>2, <2>1, <2>6, <2>7, <2>8 DEF RInv, RingExact
  <2>10. ASSUME ~closing, NEW i \in 1..Len(ring) PROVE ring[i] < current.id
    <3>1. IsQueued(ring[i])
      BY <1>2, <2>10 DEF RInv, RingExact, InRing
    <3>2. IsDone(ring[i])
      BY <3>1 DEF IsQueued, BInv, PacketsDone
    <3> QED
      BY <1>1, <3>2, DoneBefore DEF BInv
  <2>11. RingAscends'
    <3> SUFFICES ASSUME ~closing, NEW i \in 1..Len(ring'), NEW k \in 1..Len(ring'), i < k
                 PROVE  ring'[i] < ring'[k]
      BY <1>1 DEF RingAscends
    <3>1. i \in 1..Len(ring)
      BY <2>3
    <3>2. CASE k \in 1..Len(ring)
      BY <2>3, <3>1, <3>2 DEF RInv, RingAscends
    <3>3. CASE k = Len(ring) + 1
      BY <2>3, <2>10, <3>1, <3>3
    <3> QED
      BY <2>3, <3>2, <3>3
  <2> QED
    BY <2>4, <2>5, <2>9, <2>11 DEF RInv
<1> QED
  BY <1>3, <1>4 DEF EncodeMmap, Go

\* The packet that was held is queued, behind all earlier packets.
LEMMA RingQueued ==
    ASSUME DInv, BInv, RInv, enc \in {"callback", "terminal"}, enc' = "finish",
           UNCHANGED <<ring, job, accepted, closing, current>>,
           NEW p, p.id = current.id, packet_queue' = Append(packet_queue, p)
    PROVE  RInv'
<1>1. packet_queue \in Seq(QueuedPacket)
  BY DEF BInv, QueueTypes
<1>2. /\ Len(packet_queue) \in Nat /\ Len(packet_queue') = Len(packet_queue) + 1
      /\ \A i \in 1..Len(packet_queue) : packet_queue'[i] = packet_queue[i]
      /\ packet_queue'[Len(packet_queue) + 1] = p
  BY <1>1
<1>3. RingTypes' /\ RingAscends'
  BY DEF RInv, RingTypes, RingAscends
<1>4. \A i \in 1..Len(packet_queue) : packet_queue[i].id < current.id
  BY DoneBefore DEF BInv, PacketsDone
<1>5. QueueAscends'
  <2> SUFFICES ASSUME NEW i \in 1..Len(packet_queue'), NEW k \in 1..Len(packet_queue'), i < k
               PROVE  packet_queue'[i].id < packet_queue'[k].id
    BY DEF QueueAscends
  <2>1. i \in 1..Len(packet_queue)
    BY <1>2
  <2>2. CASE k \in 1..Len(packet_queue)
    BY <1>2, <2>1, <2>2 DEF RInv, QueueAscends
  <2>3. CASE k = Len(packet_queue) + 1
    BY <1>2, <1>4, <2>1, <2>3
  <2> QED
    BY <1>2, <2>2, <2>3
<1>6. \A n : IsQueued(n)' <=> IsQueued(n) \/ n = current.id
  BY <1>2 DEF IsQueued
<1>7. \A n : (IsHeld(n) <=> n = current.id) /\ ~IsHeld(n)'
  BY DEF IsHeld
<1>8. \A n : InRing(n)' <=> InRing(n)
  BY DEF InRing
<1>9. RingExact'
  BY <1>6, <1>7, <1>8 DEF RInv, RingExact
<1> QED
  BY <1>3, <1>5, <1>9 DEF RInv

\* What is left of the ring once the chunks of a packet were freed.
LEMMA FreedRing ==
    ASSUME ring \in Seq(Nat), NEW n
    PROVE  /\ Freed(n) \in Seq(Nat)
           /\ \A i \in 1..Len(Freed(n)) : InRing(Freed(n)[i])
           /\ (\A i, j \in 1..Len(ring) : i < j => ring[i] < ring[j]) =>
                 /\ \A i, j \in 1..Len(Freed(n)) : i < j => Freed(n)[i] < Freed(n)[j]
                 /\ \A m : (\E i \in 1..Len(Freed(n)) : Freed(n)[i] = m) <=> InRing(m) /\ m # n
<1>1. DOMAIN ring = 1..Len(ring) /\ Len(ring) \in Nat /\ \A i \in 1..Len(ring) : ring[i] \in Nat
  OBVIOUS
<1>2. CASE ~InRing(n)
  <2>1. Freed(n) = ring
    BY <1>1, <1>2 DEF Freed, InRing
  <2> QED
    BY <1>1, <1>2, <2>1 DEF InRing
<1>3. CASE InRing(n)
  <2>1. PICK k \in 1..Len(ring) :
           /\ ring[k] = n
           /\ Freed(n) = SubSeq(ring, 1, k - 1) \o SubSeq(ring, k + 1, Len(ring))
    BY <1>1, <1>3 DEF Freed, InRing
  <2> DEFINE a == SubSeq(ring, 1, k - 1)
             b == SubSeq(ring, k + 1, Len(ring))
  <2>2. Freed(n) = a \o b
    BY <2>1
  <2>3. /\ a \in Seq(Nat) /\ Len(a) = k - 1
        /\ \A i \in 1..(k - 1) : a[i] = ring[i]
    BY <1>1, <2>1
  <2>4. /\ b \in Seq(Nat) /\ Len(b) = Len(ring) - k
        /\ \A i \in 1..(Len(ring) - k) : b[i] = ring[i + k]
    <3>1. b \in Seq(Nat) /\ Len(b) = Len(ring) - k
      <4>1. CASE k = Len(ring)
        BY <1>1, <2>1, <4>1
      <4>2. CASE k < Len(ring)
        <5>1. k + 1 \in 1..Len(ring) /\ \A i \in (k + 1)..Len(ring) : ring[i] \in Nat
          BY <1>1, <2>1, <4>2
        <5>2. Len(b) = Len(ring) - k
          BY <1>1, <2>1, <5>1
        <5>3. b \in Seq(Nat)
          BY <1>1, <2>1, <5>1
        <5> QED
          BY <5>2, <5>3
      <4>3. Len(ring) \in Nat
        BY <1>1
      <4> QED
        BY <4>1, <4>2, <4>3, k <= Len(ring)
    <3> SUFFICES ASSUME NEW i \in 1..(Len(ring) - k) PROVE b[i] = ring[i + k]
      BY <3>1
    <3>2. b[i] = ring[(k + 1) + i - 1]
      BY <1>1, <2>1
    <3>3. (k + 1) + i - 1 = i + k
      BY <1>1, <2>1
    <3> QED
      BY <3>2, <3>3
  <2> HIDE DEF a, b
  <2> DEFINE f == a \o b
  <2>0. a \in Seq(Nat) /\ b \in Seq(Nat)
    BY <2>3, <2>4
  <2>5. f \in Seq(Nat) /\ Len(f) = Len(a) + Len(b)
    BY <2>0
  <2>6. /\ \A i \in 1..Len(a) : f[i] = a[i]
        /\ \A i \in (Len(a) + 1)..(Len(a) + Len(b)) : f[i] = b[i - Len(a)]
    BY <2>0
  <2> HIDE DEF f
  <2>7. Len(f) = Len(ring) - 1
    BY <1>1, <2>1, <2>3, <2>4, <2>5
  <2>8. \A i \in 1..Len(f) : i < k => i \in 1..Len(ring) /\ f[i] = ring[i]
    <3> SUFFICES ASSUME NEW i \in 1..Len(f), i < k
                 PROVE  i \in 1..Len(ring) /\ f[i] = ring[i]
      OBVIOUS
    <3>1. i \in 1..Len(ring) /\ i \in 1..Len(a) /\ i \in 1..(k - 1)
      BY <1>1, <2>1, <2>3, <2>7
    <3> QED
      BY <2>3, <2>6, <3>1
  <2>9. \A i \in 1..Len(f) : i >= k => i + 1 \in 1..Len(ring) /\ f[i] = ring[i + 1]
    <3> SUFFICES ASSUME NEW i \in 1..Len(f), i >= k
                 PROVE  i + 1 \in 1..Len(ring) /\ f[i] = ring[i + 1]
      OBVIOUS
    <3>1. /\ i \in (Len(a) + 1)..(Len(a) + Len(b)) /\ i - Len(a) \in 1..(Len(ring) - k)
          /\ (i - Len(a)) + k = i + 1 /\ i + 1 \in 1..Len(ring)
      BY <1>1, <2>1, <2>3, <2>4, <2>7
    <3> QED
      BY <2>4, <2>6, <3>1
  <2>10. \A i \in 1..Len(f) : InRing(f[i])
    <3> SUFFICES ASSUME NEW i \in 1..Len(f) PROVE InRing(f[i])
      OBVIOUS
    <3>1. i < k \/ i >= k
      BY <1>1, <2>1, <2>7
    <3> QED
      BY <2>8, <2>9, <3>1 DEF InRing
  <2>11. ASSUME \A i, j \in 1..Len(ring) : i < j => ring[i] < ring[j],
                NEW i \in 1..Len(f), NEW j \in 1..Len(f), i < j
         PROVE  f[i] < f[j]
    <3>1. CASE j < k
      <4>1. i < k
        BY <1>1, <2>1, <2>7, <2>11, <3>1
      <4> QED
        BY <2>8, <2>11, <3>1, <4>1
    <3>2. CASE i < k /\ j >= k
      <4>1. i < j + 1
        BY <2>7, <1>1, <2>11
      <4> QED
        BY <2>8, <2>9, <2>11, <3>2, <4>1
    <3>3. CASE i >= k
      <4>1. j >= k /\ i + 1 < j + 1
        BY <1>1, <2>1, <2>7, <2>11, <3>3
      <4> QED
        BY <2>9, <2>11, <3>3, <4>1
    <3>4. (i < k \/ i >= k) /\ (j < k \/ j >= k)
      BY <1>1, <2>1, <2>7
    <3> QED
      BY <3>1, <3>2, <3>3, <3>4
  <2>12. ASSUME \A i, j \in 1..Len(ring) : i < j => ring[i] < ring[j], NEW m
         PROVE  (\E i \in 1..Len(f) : f[i] = m) <=> InRing(m) /\ m # n
    <3>1. \A i, j \in 1..Len(ring) : i # j => ring[i] # ring[j]
      <4> SUFFICES ASSUME NEW i \in 1..Len(ring), NEW j \in 1..Len(ring), i # j
                   PROVE  ring[i] # ring[j]
        OBVIOUS
      <4>1. i < j \/ j < i
        BY <1>1
      <4>2. ring[i] \in Nat /\ ring[j] \in Nat
        BY <1>1
      <4> QED
        BY <2>12, <4>1, <4>2
    <3>2. ASSUME NEW i \in 1..Len(f) PROVE f[i] # n
      <4>1. CASE i < k
        <5>1. i # k
          BY <4>1, <1>1, <2>1
        <5> QED
          BY <2>1, <2>8, <3>1, <4>1, <5>1
      <4>2. CASE i >= k
        <5>1. i + 1 # k
          BY <4>2, <1>1, <2>1, <2>7
        <5> QED
          BY <2>1, <2>9, <3>1, <4>2, <5>1
      <4> QED
        BY <1>1, <2>1, <2>7, <4>1, <4>2
    <3>3. ASSUME NEW i \in 1..Len(ring), ring[i] = m, m # n PROVE \E j \in 1..Len(f) : f[j] = m
      <4>1. CASE i < k
        <5>1. i \in 1..Len(f)
          BY <1>1, <2>1, <2>7, <4>1
        <5> QED
          BY <2>8, <3>3, <4>1, <5>1
      <4>2. CASE i > k
        <5>1. i - 1 \in 1..Len(f) /\ i - 1 >= k /\ (i - 1) + 1 = i
          BY <1>1, <2>1, <2>7, <4>2
        <5>2. f[i - 1] = ring[i]
          BY <2>9, <5>1
        <5> QED
          BY <3>3, <5>1, <5>2
      <4>3. i # k
        BY <2>1, <3>3
      <4> QED
        BY <1>1, <2>1, <4>1, <4>2, <4>3
    <3> QED
      BY <2>10, <3>2, <3>3 DEF InRing
  <2>13. Freed(n) = f
    BY <2>2 DEF f
  <2> QED
    BY <2>5, <2>10, <2>11, <2>12, <2>13
<1> QED
  BY <1>2, <1>3

\* next_packet() takes the first packet from the queue, and its chunks from
\* the ring, whether it is sent, retargeted or dropped.
LEMMA RingTaken == ASSUME DInv, BInv, RInv, NextPixels PROVE RInv'
<1> DEFINE n == Head(packet_queue).id
<1>1. /\ format = "pixels" /\ packet_queue' = Tail(packet_queue)
      /\ ring' = IF job[n].coding = "mmap" THEN Freed(n) ELSE ring
      /\ UNCHANGED <<enc, current, job, accepted, closing>>
  BY DEF NextPixels, vars, notFormat
<1>2. packet_queue \in Seq(QueuedPacket) /\ packet_queue # <<>>
  BY <1>1 DEF BInv, QueueTypes
<1>3. /\ n = packet_queue[1].id /\ 1 \in 1..Len(packet_queue) /\ Len(packet_queue) \in Nat
      /\ Len(packet_queue') = Len(packet_queue) - 1
      /\ \A i \in 1..Len(packet_queue') : /\ i + 1 \in 1..Len(packet_queue)
                                          /\ packet_queue'[i] = packet_queue[i + 1]
  <2>1. packet_queue' = Tail(packet_queue)
    BY <1>1
  <2> QED
    BY <1>2, <2>1
<1> HIDE DEF n
<1>4. IsDone(n) /\ IsQueued(n)
  BY <1>3 DEF BInv, PacketsDone, IsQueued
<1>5. \A m : (IsHeld(m)' <=> IsHeld(m)) /\ (IsHeld(m) => m # n)
  BY <1>1, <1>4, InHandNotDone DEF IsHeld, BInv
<1>6. QueueAscends'
  <2> SUFFICES ASSUME NEW i \in 1..Len(packet_queue'), NEW k \in 1..Len(packet_queue'), i < k
               PROVE  packet_queue'[i].id < packet_queue'[k].id
    BY DEF QueueAscends
  <2>1. i + 1 < k + 1
    BY <1>3
  <2> QED
    BY <1>3, <2>1 DEF RInv, QueueAscends
<1>7. \A m : IsQueued(m)' <=> IsQueued(m) /\ m # n
  <2>1. ASSUME NEW i \in 1..Len(packet_queue)
        PROVE  /\ packet_queue[i].id \in Nat
               /\ i # 1 => packet_queue[1].id < packet_queue[i].id
    <3>1. i # 1 => 1 < i
      BY <1>3
    <3>2. packet_queue[i] \in QueuedPacket
      BY <1>2
    <3> QED
      BY <1>3, <3>1, <3>2 DEF RInv, QueueAscends, QueuedPacket
  <2>2. \A i \in 1..Len(packet_queue) : i # 1 => packet_queue[i].id # n
    BY <1>3, <2>1
  <2>3. \A i \in 1..Len(packet_queue') : i + 1 # 1
    BY <1>3
  <2>4. \A i \in 1..Len(packet_queue) :
           i # 1 => i - 1 \in 1..Len(packet_queue') /\ packet_queue'[i - 1] = packet_queue[i]
    <3> SUFFICES ASSUME NEW i \in 1..Len(packet_queue), i # 1
                 PROVE  i - 1 \in 1..Len(packet_queue') /\ packet_queue'[i - 1] = packet_queue[i]
      OBVIOUS
    <3>1. i - 1 \in 1..Len(packet_queue') /\ (i - 1) + 1 = i
      BY <1>3
    <3> QED
      BY <1>3, <3>1
  <2>5. ASSUME NEW m, IsQueued(m)' PROVE IsQueued(m) /\ m # n
    BY <1>3, <2>2, <2>3, <2>5 DEF IsQueued
  <2>6. ASSUME NEW m, IsQueued(m), m # n PROVE IsQueued(m)'
    BY <1>3, <2>4, <2>6 DEF IsQueued
  <2> QED
    BY <2>5, <2>6
<1>8. CASE job[n].coding # "mmap"
  <2>1. UNCHANGED ring
    BY <1>1, <1>8
  <2>2. \A m : InRing(m)' <=> InRing(m)
    BY <2>1 DEF InRing
  <2>3. RingTypes' /\ RingAscends'
    BY <1>1, <2>1 DEF RInv, RingTypes, RingAscends
  <2>4. RingExact'
    BY <1>1, <1>5, <1>7, <1>8, <2>2 DEF RInv, RingExact
  <2> QED
    BY <1>6, <2>3, <2>4 DEF RInv
<1>9. CASE job[n].coding = "mmap"
  <2>1. ring' = Freed(n) /\ ring \in Seq(Nat)
    BY <1>1, <1>9 DEF RInv, RingTypes
  <2>2. RingTypes'
    BY <1>1, <2>1, FreedRing DEF RInv, RingTypes, InRing
  <2>3. ~closing => /\ \A i, j \in 1..Len(ring') : i < j => ring'[i] < ring'[j]
                    /\ \A m : InRing(m)' <=> InRing(m) /\ m # n
    <3> SUFFICES ASSUME ~closing
                 PROVE  /\ \A i, j \in 1..Len(ring') : i < j => ring'[i] < ring'[j]
                        /\ \A m : InRing(m)' <=> InRing(m) /\ m # n
      OBVIOUS
    <3>1. \A i, j \in 1..Len(ring) : i < j => ring[i] < ring[j]
      BY DEF RInv, RingAscends
    <3>2. /\ \A i, j \in 1..Len(Freed(n)) : i < j => Freed(n)[i] < Freed(n)[j]
          /\ \A m : (\E i \in 1..Len(Freed(n)) : Freed(n)[i] = m) <=> InRing(m) /\ m # n
      BY <2>1, <3>1, FreedRing
    <3>3. \A m : InRing(m)' <=> \E i \in 1..Len(Freed(n)) : Freed(n)[i] = m
      BY <2>1 DEF InRing
    <3> QED
      BY <2>1, <3>2, <3>3
  <2>4. RingAscends'
    BY <1>1, <2>3 DEF RingAscends
  <2>5. RingExact'
    BY <1>1, <1>5, <1>7, <2>3 DEF RInv, RingExact
  <2> QED
    BY <1>6, <2>2, <2>4, <2>5 DEF RInv
<1> QED
  BY <1>8, <1>9

\* Every step keeps the ring exact.
LEMMA RingInductive == DInv /\ BInv /\ RInv /\ [DamageNext]_dvars => RInv'
<1> SUFFICES ASSUME DInv, BInv, RInv, [DamageNext]_dvars PROVE RInv'
  OBVIOUS
<1>1. CASE \E w \in Windows :
              \/ new_window(w) \/ map_window(w) \/ unmap_window(w) \/ resize_window(w)
              \/ lost_window(w)
              \/ \E c \in Codings : Capture(w, c)
  BY <1>1, RingQuiet
<1>2. CASE MainContinues
  BY <1>2, RingQuiet, RingOffer DEF MainContinues
<1>3. CASE Published
  <2>1. /\ enc = "callback" /\ enc' = "finish" /\ Draw(current.id).id = current.id
        /\ UNCHANGED <<ring, job, accepted, closing, current>>
        /\ packet_queue' = Append(packet_queue, Draw(current.id))
    BY <1>3 DEF Published, Working, Go, vars, Draw
  <2> QED
    BY <2>1, RingQueued
<1>4. CASE terminal_publisher
  <2>1. /\ enc = "terminal" /\ enc' = "finish" /\ Drain(current.id).id = current.id
        /\ UNCHANGED <<ring, job, accepted, closing, current>>
        /\ packet_queue' = Append(packet_queue, Drain(current.id))
    BY <1>4 DEF terminal_publisher, Terminal, Working, Go, vars, registry, Drain
  <2> QED
    BY <2>1, RingQueued
<1>5. CASE EncodeStep
  BY <1>3, <1>4, <1>5, RingEncode, RingWritten DEF EncodeStep
<1>6. CASE NextOrdinary \/ NoOrdinary \/ NextPixels \/ client_ack_damage
           \/ damage_packet_acked \/ close
  BY <1>6, RingQuiet, RingTaken
<1>7. CASE CloseContinues
  BY <1>7, RingQuiet, RingOffer, RingQueueEnd DEF CloseContinues
<1>8. CASE UNCHANGED dvars
  <2>1. UNCHANGED <<packet_queue, ring, enc, current, job, accepted, closing>>
    BY <1>8 DEF dvars, vars, threads, registry, outbound
  <2> QED
    BY <2>1, RingElsewhere
<1> QED
  BY <1>1, <1>2, <1>5, <1>6, <1>7, <1>8 DEF DamageNext

\* The pipeline, the backlog and the ring are as their invariants say.
LEMMA RingAlways == DamageSpec => [](DInv /\ BInv /\ RInv)
<1>1. DamageInit => RInv
  <2> SUFFICES ASSUME DamageInit PROVE RInv
    OBVIOUS
  <2>1. <<>> \in Seq(Nat) /\ Len(<<>>) = 0 /\ \A i \in 1..0 : FALSE
    OBVIOUS
  <2> QED
    BY <2>1 DEF DamageInit, RInv, QueueAscends, RingTypes, RingAscends, RingExact, IsQueued,
       IsHeld, InRing
<1> QED
  BY <1>1, RingInductive, BacklogAlways, PTL DEF DamageSpec

\* "we MUST send an encoded mmap descriptor even if the window is cancelled":
\* as long as the connection lives, the chunks in the ring are those of the
\* packets on their way to the client, in the order in which they were written.
THEOREM ChunksReachTheClientHolds == DamageSpec => []ChunksReachTheClient
<1>1. DInv /\ BInv /\ RInv => ChunksReachTheClient
  <2> SUFFICES ASSUME DInv, BInv, RInv, ~closing
               PROVE  /\ Ascending(ring) /\ Ascending(Coming)
                      /\ {ring[i] : i \in DOMAIN ring} =
                            {n \in {Coming[i] : i \in DOMAIN Coming} : job[n].coding = "mmap"}
    BY DEF ChunksReachTheClient
  <2> DEFINE q == [i \in DOMAIN packet_queue |-> packet_queue[i].id]
             l == Len(packet_queue)
  <2>1. /\ packet_queue \in Seq(QueuedPacket) /\ ring \in Seq(Nat)
        /\ DOMAIN packet_queue = 1..l /\ l \in Nat /\ DOMAIN ring = 1..Len(ring)
    BY DEF BInv, QueueTypes, RInv, RingTypes
  <2>2. \A i \in 1..l : packet_queue[i].id \in Nat
    <3>1. \A i \in 1..l : packet_queue[i] \in QueuedPacket
      BY <2>1
    <3> QED
      BY <3>1 DEF QueuedPacket
  <2>3. q \in Seq(Nat) /\ Len(q) = l /\ \A i \in 1..l : q[i] = packet_queue[i].id
    BY <2>1, <2>2
  <2>4. Held <=> enc \in {"publish", "callback", "terminal", "drain"}
    BY DEF Held, Working, DInv, PInv, Operations, Encoding
  <2>5. Held => current.id \in Nat
    BY <2>4 DEF DInv, PInv, Operations, Encoding, IInv, CallsItems, Item
  <2>6. Ascending(ring)
    BY <2>1 DEF RInv, RingAscends, Ascending
  <2>7. \A n : (\E i \in DOMAIN ring : ring[i] = n)
               <=> (IsQueued(n) \/ IsHeld(n)) /\ job[n].coding = "mmap"
    BY <2>1 DEF RInv, RingExact, InRing
  <2>8. CASE ~Held
    <3>1. Coming = q
      <4>1. Coming = q \o <<>>
        BY <2>8 DEF Coming
      <4> HIDE DEF q
      <4> QED
        BY <2>3, <4>1
    <3> HIDE DEF q
    <3>2. Ascending(Coming)
      <4>1. DOMAIN Coming = 1..l /\ \A i \in 1..l : Coming[i] = packet_queue[i].id
        BY <2>3, <3>1
      <4> QED
        BY <4>1 DEF RInv, QueueAscends, Ascending
    <3>3. \A n : (\E i \in DOMAIN Coming : Coming[i] = n) <=> IsQueued(n) \/ IsHeld(n)
      BY <2>3, <2>4, <2>8, <3>1 DEF IsQueued, IsHeld
    <3> QED
      BY <2>6, <2>7, <3>2, <3>3
  <2>9. CASE Held
    <3>1. Coming = q \o <<current.id>>
      BY <2>9 DEF Coming
    <3> HIDE DEF q
    <3>2. /\ DOMAIN Coming = 1..(l + 1) /\ \A i \in 1..l : Coming[i] = packet_queue[i].id
          /\ Coming[l + 1] = current.id
      <4>1. <<current.id>> \in Seq(Nat) /\ Len(<<current.id>>) = 1 /\ <<current.id>>[1] = current.id
        BY <2>5, <2>9
      <4>2. Coming \in Seq(Nat) /\ Len(Coming) = l + 1
        BY <2>3, <3>1, <4>1
      <4>3. \A i \in 1..l : Coming[i] = q[i]
        BY <2>1, <2>3, <3>1, <4>1
      <4>4. Coming[l + 1] = current.id
        BY <2>1, <2>3, <3>1, <4>1
      <4> QED
        BY <2>3, <4>2, <4>3, <4>4
    <3>3. \A i \in 1..l : packet_queue[i].id < current.id
      BY <2>4, <2>9, DoneBefore DEF BInv, PacketsDone
    <3>4. \A i \in 1..(l + 1) : i \in 1..l \/ i = l + 1
      BY <2>1
    <3>5. Ascending(Coming)
      <4> SUFFICES ASSUME NEW i \in 1..(l + 1), NEW j \in 1..(l + 1), i < j
                   PROVE  Coming[i] < Coming[j]
        BY <3>2 DEF Ascending
      <4>1. i \in 1..l
        BY <2>1
      <4>2. CASE j \in 1..l
        BY <3>2, <4>1, <4>2 DEF RInv, QueueAscends
      <4>3. CASE j = l + 1
        BY <3>2, <3>3, <4>1, <4>3
      <4> QED
        BY <3>4, <4>2, <4>3
    <3>6. l + 1 \in 1..(l + 1) /\ 1..l \subseteq 1..(l + 1)
      BY <2>1
    <3>7. \A n : (\E i \in DOMAIN Coming : Coming[i] = n) <=> IsQueued(n) \/ IsHeld(n)
      BY <2>4, <2>9, <3>2, <3>4, <3>6 DEF IsQueued, IsHeld
    <3> QED
      BY <2>6, <2>7, <3>5, <3>7
  <2> QED
    BY <2>8, <2>9
<1> QED
  BY <1>1, RingAlways, PTL

-----------------------------------------------------------------------------
(* The types of all variables. *)

\* The part of the types that no other invariant needs.
ThreadTypes ==
    /\ main \in {"idle", "resized", "captured", "removing", "detached", "waiting", "cleaning"}
    /\ target \in Windows \cup {NoWindow} /\ image \in JobType
    /\ parse \in {"idle", "acking"}
    /\ closer \in {"none", "main", "parse"}
    /\ format \in {"idle", "pixels"}
    /\ to_clean \subseteq Windows /\ cancelled \in [Windows -> Nat]

\* The packet being acknowledged was offered.
AckedType == acked \in {0} \cup DOMAIN job

TInv == ThreadTypes /\ AckedType

\* The main thread.
LEMMA MainTypes ==
    ASSUME DInv, TInv,
           \/ \E w \in Windows :
                 \/ new_window(w) \/ map_window(w) \/ unmap_window(w) \/ resize_window(w)
                 \/ lost_window(w) \/ ui_cleanup(w)
           \/ ResizeSent \/ remove_window \/ unregister_damage_packets \/ Unregistered
    PROVE  TInv'
<1>1. UNCHANGED <<image, parse, closer, format, to_clean, acked, job>>
  BY DEF new_window, map_window, unmap_window, resize_window, lost_window, ui_cleanup,
     ResizeSent, remove_window, unregister_damage_packets, Unregistered, threads
<1>2. /\ main' \in {"idle", "resized", "removing", "detached", "waiting", "cleaning"}
      /\ target' \in Windows \cup {NoWindow}
  <2>1. ASSUME NEW w \in Windows,
               \/ new_window(w) \/ map_window(w) \/ unmap_window(w) \/ resize_window(w)
               \/ lost_window(w) \/ ui_cleanup(w)
        PROVE  /\ main' \in {"idle", "resized", "removing"}
               /\ target' \in {target, w}
    BY <2>1 DEF new_window, map_window, unmap_window, resize_window, lost_window, ui_cleanup,
       threads, MainMay
  <2>2. CASE ResizeSent \/ remove_window \/ unregister_damage_packets \/ Unregistered
    BY <2>2 DEF ResizeSent, remove_window, unregister_damage_packets, Unregistered,
       TInv, ThreadTypes
  <2> QED
    BY <2>1, <2>2 DEF TInv, ThreadTypes
<1>3. cancelled' = cancelled \/ \E w \in Windows : cancelled' = [cancelled EXCEPT ![w] = captured[w]]
  BY DEF new_window, map_window, unmap_window, resize_window, lost_window, ui_cleanup,
     ResizeSent, remove_window, unregister_damage_packets, Unregistered, registry
<1>4. cancelled' \in [Windows -> Nat]
  BY <1>3 DEF TInv, ThreadTypes, DInv, PInv, SourceTypes
<1> QED
  BY <1>1, <1>2, <1>4 DEF TInv, ThreadTypes, AckedType

\* The capture of damage.
LEMMA CaptureTypes ==
    ASSUME DInv, TInv, NEW w \in Windows, NEW c \in Codings, Capture(w, c) PROVE TInv'
<1>1. /\ UNCHANGED <<parse, closer, format, to_clean, acked, job, cancelled>>
      /\ main' = "captured" /\ target' = w /\ image' = Damage(w, c, captured[w] + 1)
  BY DEF Capture
<1>2. captured[w] + 1 \in Nat /\ epoch[w] \in Nat
  BY DEF DInv, PInv, SourceTypes
<1>3. Damage(w, c, captured[w] + 1) \in JobType
  BY <1>2 DEF Damage, JobType
<1> QED
  BY <1>1, <1>3 DEF TInv, ThreadTypes, AckedType

\* The steps that offer something to the encode queue.
LEMMA OfferTypes ==
    ASSUME DInv, TInv,
           OfferDamage \/ SourceCleaned \/ \E w \in Windows : CleanupSource(w)
    PROVE  TInv'
<1>1. /\ UNCHANGED <<parse, closer, format, acked>>
      /\ to_clean' \subseteq to_clean
      /\ main' \in {main, "idle"} /\ target' \in {target, NoWindow}
      /\ image' \in {image, NoImage}
      /\ UNCHANGED <<vars, job>> \/ \E j : Offer(j)
  BY DEF OfferDamage, SourceCleaned, CleanupSource, CleanSource, notConn
<1>2. NoImage \in JobType
  BY DEF NoImage, JobType
<1>3. cancelled' \in [Windows -> Nat]
  <2>1. Never \in Nat
    BY MaxWorkAssumption DEF Never
  <2>2. cancelled' = cancelled \/ \E w \in Windows : cancelled' = [cancelled EXCEPT ![w] = Never]
    BY DEF OfferDamage, SourceCleaned, CleanupSource, CleanSource, registry, MainMay,
       DInv, PInv, SourceTypes
  <2> QED
    BY <2>1, <2>2 DEF TInv, ThreadTypes
<1>4. DOMAIN job \subseteq DOMAIN job'
  <2>1. job \in Seq(Jobs)
    BY DEF DInv, PInv, JobTypes
  <2>2. ASSUME NEW j, job' = Append(job, j) PROVE DOMAIN job \subseteq DOMAIN job'
    BY <2>1, <2>2
  <2> QED
    BY <1>1, <2>2 DEF Offer
<1>5. AckedType'
  BY <1>1, <1>4 DEF TInv, AckedType
<1>6. ThreadTypes'
  BY <1>1, <1>2, <1>3 DEF TInv, ThreadTypes
<1> QED
  BY <1>5, <1>6 DEF TInv

\* The encode thread has no state of its own here.
LEMMA EncodeTypes == ASSUME DInv, TInv, EncodeStep PROVE TInv'
<1>1. UNCHANGED <<main, target, image, parse, closer, format, to_clean, acked, job, cancelled>>
  BY DEF EncodeStep, EncodeTakes, CallOther, claim_damage_packet_publication, EncodeMmap,
     EncodePixels, publish_damage_packet, Published, PublishFails, queue_mmap_drain,
     terminal_publisher, PublishFinished, release_damage_packet_publication, threads, registry,
     notEncode
<1> QED
  BY <1>1 DEF TInv, ThreadTypes, AckedType

\* The format thread, the parse thread and close().
LEMMA OtherTypes ==
    ASSUME DInv, TInv,
           \/ NextOrdinary \/ NoOrdinary \/ NextPixels
           \/ client_ack_damage \/ damage_packet_acked
           \/ close \/ cleanup \/ CleanupWaited \/ CleanupAreas \/ CleanupQueue
    PROVE  TInv'
<1>1. UNCHANGED <<main, target, image, job, cancelled>>
  BY DEF NextOrdinary, NoOrdinary, NextPixels, client_ack_damage, damage_packet_acked, close,
     cleanup, CleanupWaited, CleanupAreas, CleanupQueue, threads, registry, notFormat, notParse,
     notConn
<1>2. /\ parse' \in {parse, "idle", "acking"} /\ closer' \in {closer, "main", "parse"}
      /\ format' \in {format, "idle", "pixels"}
  BY DEF NextOrdinary, NoOrdinary, NextPixels, client_ack_damage, damage_packet_acked, close,
     cleanup, CleanupWaited, CleanupAreas, CleanupQueue, threads, notFormat, notParse, notConn
<1>3. to_clean' \subseteq Windows
  BY DEF NextOrdinary, NoOrdinary, NextPixels, client_ack_damage, damage_packet_acked, close,
     cleanup, CleanupWaited, CleanupAreas, CleanupQueue, threads, notFormat, notParse, notConn,
     TInv, ThreadTypes
<1>4. acked' \in {acked, 0} \cup owners
  BY DEF NextOrdinary, NoOrdinary, NextPixels, client_ack_damage, damage_packet_acked, close,
     cleanup, CleanupWaited, CleanupAreas, CleanupQueue, threads, notFormat, notParse, notConn
<1>5. AckedType'
  BY <1>1, <1>4 DEF TInv, AckedType, DInv, PInv, JobTypes
<1>6. ThreadTypes'
  BY <1>1, <1>2, <1>3 DEF TInv, ThreadTypes
<1> QED
  BY <1>5, <1>6 DEF TInv

\* Every step keeps the types.
LEMMA TypesInductive == DInv /\ TInv /\ [DamageNext]_dvars => TInv'
<1> SUFFICES ASSUME DInv, TInv, [DamageNext]_dvars PROVE TInv'
  OBVIOUS
<1>1. CASE \E w \in Windows :
              \/ new_window(w) \/ map_window(w) \/ unmap_window(w) \/ resize_window(w)
              \/ lost_window(w)
              \/ \E c \in Codings : Capture(w, c)
  BY <1>1, MainTypes, CaptureTypes
<1>2. CASE MainContinues
  BY <1>2, MainTypes, OfferTypes DEF MainContinues
<1>3. CASE EncodeStep
  BY <1>3, EncodeTypes
<1>4. CASE NextOrdinary \/ NoOrdinary \/ NextPixels \/ client_ack_damage
           \/ damage_packet_acked \/ close
  BY <1>4, OtherTypes
<1>5. CASE CloseContinues
  BY <1>5, OtherTypes, OfferTypes DEF CloseContinues
<1>6. CASE UNCHANGED dvars
  BY <1>6 DEF dvars, threads, registry, TInv, ThreadTypes, AckedType
<1> QED
  BY <1>1, <1>2, <1>3, <1>4, <1>5, <1>6 DEF DamageNext

\* Every variable keeps its type, and whatever is queued, on the wire, pending
\* or in the ring was offered to the encode thread.
THEOREM DamageTypeCorrect == DamageSpec => []DamageTypeOK
<1>1. DamageInit => TInv
  <2>1. NoImage \in JobType
    BY DEF NoImage, JobType
  <2> QED
    BY <2>1 DEF DamageInit, TInv, ThreadTypes, AckedType
<1>2. DInv /\ BInv /\ RInv /\ TInv => DamageTypeOK
  <2> SUFFICES ASSUME DInv, BInv, RInv, TInv PROVE DamageTypeOK
    OBVIOUS
  <2>1. job \in Seq(JobType) /\ Len(job) = offered
    <3>1. Jobs \subseteq JobType
      BY DEF Jobs, JobType
    <3>2. job \in Seq(Jobs) /\ Len(job) = offered
      BY DEF DInv, PInv, JobTypes
    <3> QED
      BY <3>1, <3>2
  <2>2. active_ops \in [Windows -> Nat]
    <3>1. \A w \in Windows : active_ops[w] \in Nat
      BY DEF DInv, PInv, Operations, OperationsCounted
    <3> QED
      BY <3>1 DEF DInv, PInv, SourceTypes
  <2>3. owners \subseteq DOMAIN job /\ ack_pending \subseteq DOMAIN job /\ unacked \subseteq DOMAIN job
    BY DoneOffered DEF BInv, PacketsDone, DInv, PInv, JobTypes
  <2>4. packet_queue \in Seq([id : DOMAIN job, drain : BOOLEAN])
    <3> DEFINE P == [id : DOMAIN job, drain : BOOLEAN]
    <3>1. packet_queue \in Seq(QueuedPacket)
      BY DEF BInv, QueueTypes
    <3>2. ASSUME NEW i \in 1..Len(packet_queue) PROVE packet_queue[i] \in P
      <4>1. packet_queue[i].id \in DOMAIN job
        BY DoneOffered DEF BInv, PacketsDone
      <4>2. packet_queue[i] \in QueuedPacket
        BY <3>1
      <4> QED
        BY <4>1, <4>2 DEF QueuedPacket
    <3> HIDE DEF P
    <3>3. packet_queue \in Seq(P)
      BY <3>1, <3>2
    <3> QED
      BY <3>3 DEF P
  <2>5. ring \in Seq(DOMAIN job)
    BY DEF RInv, RingTypes
  <2>6. ordinary \in Seq([type : {"new", "resized", "destroy"}, win : Windows, epoch : Nat])
    BY DEF DInv, PInv, Fence, CanvasTypes, Announcement
  <2>7. /\ announced \in [Windows -> {"no", "yes", "gone"}]
        /\ source \in [Windows -> {"none", "live", "detached", "cleaned", "ended",
                                   "released", "stranded"}]
        /\ active \subseteq Windows
        /\ epoch \in [Windows -> Nat] /\ canvas \in [Windows -> Nat]
        /\ captured \in [Windows -> Nat]
        /\ lease \in BOOLEAN /\ closing \in BOOLEAN
        /\ enc \in {"idle", "encode", "publish", "callback", "terminal", "drain", "finish",
                    "release"}
        /\ conn \in {"open", "closing", "waiting", "sources", "done"}
    <3>1. {"none", "live", "detached"} \cup Parked =
             {"none", "live", "detached", "cleaned", "ended", "released", "stranded"}
      BY DEF Parked
    <3> QED
      BY <3>1 DEF DInv, PInv, SourceTypes, Stages, Fence, CanvasTypes
  <2> QED
    BY <2>1, <2>2, <2>3, <2>4, <2>5, <2>6, <2>7 DEF DamageTypeOK, TInv, ThreadTypes, AckedType
<1> QED
  BY <1>1, <1>2, RingAlways, TypesInductive, PTL DEF DamageSpec

=============================================================================
