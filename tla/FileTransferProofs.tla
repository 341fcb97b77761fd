------------------------- MODULE FileTransferProofs -------------------------
(***************************************************************************)
(* Proofs about FileTransfer, for any files, sizes and limits: its types,  *)
(* that no transfer in a table is ever forgotten, and that a transfer has  *)
(* one chunk or acknowledgement under way, is started with the user's      *)
(* approval only, leaves no descriptor and no name behind, and is reported *)
(* complete only when the whole file was written.                          *)
(*                                                                         *)
(* WatchInv follows the timers.  FileInv follows one file through both     *)
(* ends: its token (the chunk or acknowledgement under way), its entries,  *)
(* the owners of its descriptor and of its name, its chunk numbers and,    *)
(* unless a descriptor was closed under its owner, its content.  Each step *)
(* is about one file; that it is aloof from the others is shown once, in   *)
(* the Aloof lemmas.                                                       *)
(***************************************************************************)
EXTENDS FileTransfer, FiniteSetTheorems, TLAPS

\* What send() does to the channels keeps their types.
LEMMA TransmitType ==
    ASSUME to_receiver \in Seq(Announcement), NEW m \in Announcement, Transmit(m)
    PROVE  to_receiver' \in Seq(Announcement)
BY DEF Transmit

\* An acknowledgement keeps the type of its channel.
LEMMA ReplyType ==
    ASSUME to_sender \in Seq(Acknowledgement),
           NEW f \in Files, NEW ok \in BOOLEAN, NEW n \in Nat, Reply(f, ok, n)
    PROVE  to_sender' \in Seq(Acknowledgement)
<1>1. [file |-> f, ok |-> ok, chunk |-> n] \in Acknowledgement
  BY DEF Acknowledgement
<1>2. QED
  BY <1>1 DEF Reply

\* A timer armed anew is armed, and leaves those of other files alone.
LEMMA RearmType ==
    ASSUME NEW timers \in SUBSET (Files \X Nat), NEW f \in Files, NEW n \in Nat
    PROVE  /\ Rearm(timers, f, n) \subseteq Files \X Nat
           /\ <<f, n>> \in Rearm(timers, f, n)
           /\ \A t \in timers : t[1] # f => t \in Rearm(timers, f, n)
BY DEF Rearm, TimersOf

\* Cancelling the timers of a file leaves those of other files alone.
LEMMA UnarmType ==
    ASSUME NEW timers \in SUBSET (Files \X Nat), NEW f \in Files
    PROVE  /\ timers \ TimersOf(timers, f) \subseteq Files \X Nat
           /\ \A t \in timers : t[1] # f => t \in timers \ TimersOf(timers, f)
BY DEF TimersOf

\* do_send_file() adds to the sender's table and announces the file.
LEMMA SendType ==
    ASSUME SenderTypeOK, to_receiver \in Seq(Announcement), NEW f \in Files, do_send_file(f)
    PROVE  /\ to_receiver' \in Seq(Announcement)
           /\ sending' \subseteq Files /\ sent_chunk' \in [Files -> Nat]
           /\ send_timers' \subseteq Files \X Nat
           /\ reports' \subseteq Files \X {"done", "refused"}
<1>0. [kind |-> "send", file |-> f, chunk |-> 0] \in Announcement
  BY DEF Announcement
<1>1. CASE chunks[f] = 0
  BY <1>0, <1>1, TransmitType DEF SenderTypeOK, do_send_file
<1>2. CASE chunks[f] # 0 /\ Cardinality(sending) < MaxConcurrent
  <2>1. /\ sending' = sending \cup {f} /\ sent_chunk' = [sent_chunk EXCEPT ![f] = 0]
        /\ send_timers' = Rearm(send_timers, f, 0) /\ reports' = reports
        /\ Transmit([kind |-> "send", file |-> f, chunk |-> 0])
    BY <1>2 DEF do_send_file
  <2>2. send_timers' \subseteq Files \X Nat
    <3>1. send_timers \in SUBSET (Files \X Nat)
      BY DEF SenderTypeOK
    <3>2. QED
      BY <2>1, <3>1, RearmType
  <2>3. to_receiver' \in Seq(Announcement)
    BY <1>0, <2>1, TransmitType
  <2>4. QED
    BY <2>1, <2>2, <2>3 DEF SenderTypeOK
<1>3. CASE chunks[f] # 0 /\ ~(Cardinality(sending) < MaxConcurrent)
  BY <1>3 DEF SenderTypeOK, do_send_file
<1>4. QED
  BY <1>1, <1>2, <1>3

\* cancel_sending() keeps the types of the sender.
LEMMA CancelSendingType ==
    ASSUME SenderTypeOK, NEW f \in Files, cancel_sending(f)
    PROVE  sending' \subseteq Files /\ send_timers' \subseteq Files \X Nat
BY UnarmType DEF SenderTypeOK, cancel_sending

\* The first message of a channel, and the rest of it.
LEMMA HeadOfReceiver ==
    ASSUME to_receiver \in Seq(Announcement), NEW kind, NextFor(kind)
    PROVE  /\ Head(to_receiver).file \in Files /\ Head(to_receiver).chunk \in Nat
           /\ to_receiver' \in Seq(Announcement)
<1>1. Head(to_receiver) \in Announcement
  BY DEF NextFor
<1>2. QED
  BY <1>1 DEF NextFor, Announcement

\* The first acknowledgement, and the rest of them.
LEMMA HeadOfSender ==
    ASSUME to_sender \in Seq(Acknowledgement), to_sender # <<>>
    PROVE  /\ Head(to_sender).file \in Files /\ Head(to_sender).chunk \in Nat
           /\ Head(to_sender).ok \in BOOLEAN
           /\ Tail(to_sender) \in Seq(Acknowledgement)
<1>1. Head(to_sender) \in Acknowledgement
  OBVIOUS
<1>2. QED
  BY <1>1 DEF Acknowledgement

\* What an action leaves alone keeps its type.
ReceiverTypeOK == TableTypeOK /\ PlaceTypeOK /\ StoreTypeOK

\* What a step leaves alone keeps its types, part by part.
LEMMA ReceiverSame == ASSUME ReceiverTypeOK, UNCHANGED receiverVars PROVE ReceiverTypeOK'
BY DEF ReceiverTypeOK, TableTypeOK, PlaceTypeOK, StoreTypeOK, receiverVars, tableVars, storeVars

\* The same for the sender.
LEMMA SenderSame == ASSUME SenderTypeOK, UNCHANGED senderVars PROVE SenderTypeOK'
BY DEF SenderTypeOK, senderVars

\* The same for the connection.
LEMMA LinkSame == ASSUME LinkTypeOK, UNCHANGED linkVars PROVE LinkTypeOK'
BY DEF LinkTypeOK, linkVars

\* The same for the tables of the receiver.
LEMMA TableSame == ASSUME TableTypeOK, UNCHANGED tableVars PROVE TableTypeOK'
BY DEF TableTypeOK, tableVars

\* The same for descriptors, names and content.
LEMMA StoreSame == ASSUME StoreTypeOK, UNCHANGED storeVars PROVE StoreTypeOK'
BY DEF StoreTypeOK, storeVars

\* Places of a thread.
LEMMA PlaceFields ==
    ASSUME NEW labels, NEW pc \in {Idle} \cup Labels(labels), pc.at # "idle"
    PROVE  pc.at \in labels /\ pc.file \in Files /\ pc.chunk \in Nat
BY DEF Idle, Labels

\* A thread that is given a place is in one.
LEMMA PlaceMade ==
    ASSUME NEW labels, NEW label \in labels, NEW f \in Files, NEW n \in Nat
    PROVE  At(label, f, n) \in Labels(labels)
BY DEF At, Labels

\* The steps of the sender keep the types.
LEMMA SenderStepType ==
    ASSUME TypeOK, SenderMain \/ SenderThreads
    PROVE  TypeOK'
<1> USE DEF TypeOK
<1>r. ReceiverTypeOK
  BY DEF ReceiverTypeOK
<1>1. ASSUME NEW f \in Files, SendFile(f) PROVE TypeOK'
  <2>1. CASE f \in Ask
    <3>1. /\ SenderTypeOK' /\ LinkTypeOK'
          /\ to_receiver' = to_receiver /\ to_sender' = to_sender
      BY <1>1, <2>1 DEF SendFile, SenderTypeOK, LinkTypeOK
    <3>2. ReceiverTypeOK'
      BY <1>1, <1>r, ReceiverSame DEF SendFile
    <3>3. QED
      BY <3>1, <3>2 DEF ReceiverTypeOK
  <2>2. CASE f \notin Ask
    <3>0. do_send_file(f)
      BY <1>1, <2>2 DEF SendFile
    <3>1. /\ to_receiver' \in Seq(Announcement) /\ to_sender' = to_sender
          /\ SenderTypeOK' /\ LinkTypeOK'
      BY <1>1, <2>2, <3>0, SendType DEF SendFile, SenderTypeOK, LinkTypeOK
    <3>2. ReceiverTypeOK'
      BY <1>1, <1>r, ReceiverSame DEF SendFile
    <3>3. QED
      BY <3>1, <3>2 DEF ReceiverTypeOK
  <2>3. QED
    BY <2>1, <2>2
<1>2. ASSUME NEW f \in Files, AskTimeout(f) PROVE TypeOK'
  <2>1. SenderTypeOK' /\ UNCHANGED <<linkVars, to_receiver, to_sender, receiverVars>>
    BY <1>2 DEF AskTimeout, SenderTypeOK
  <2>2. QED
    BY <2>1, <1>r, ReceiverSame, LinkSame DEF ReceiverTypeOK
<1>3. ASSUME NEW t \in send_timers, SendTimeout(t[1], t[2]) PROVE TypeOK'
  <2>0. t[1] \in Files /\ t[2] \in Nat
    BY DEF SenderTypeOK
  <2>1. SenderTypeOK' /\ UNCHANGED <<linkVars, to_receiver, to_sender, receiverVars>>
    BY <1>3, <2>0, PlaceMade DEF SendTimeout, SenderTypeOK
  <2>2. QED
    BY <2>1, <1>r, ReceiverSame, LinkSame DEF ReceiverTypeOK
<1>4. ASSUME SendGiveUp PROVE TypeOK'
  <2>0. sender_main.file \in Files
    <3>1. sender_main \in {Idle} \cup Labels({"giveup"}) /\ sender_main.at # "idle"
      BY <1>4 DEF SendGiveUp, SenderTypeOK
    <3>2. QED
      BY <3>1, PlaceFields
  <2>1. sending' \subseteq Files /\ send_timers' \subseteq Files \X Nat
    BY <1>4, <2>0, CancelSendingType DEF SendGiveUp
  <2>2. SenderTypeOK' /\ UNCHANGED <<linkVars, to_receiver, to_sender, receiverVars>>
    BY <1>4, <2>1 DEF SendGiveUp, SenderTypeOK
  <2>3. QED
    BY <2>2, <1>r, ReceiverSame, LinkSame DEF ReceiverTypeOK
<1>5. ASSUME NEW f \in Files, NEW yes \in BOOLEAN, DataResponse(f, yes) PROVE TypeOK'
  <2>1. SenderTypeOK' /\ LinkTypeOK' /\ UNCHANGED <<to_receiver, to_sender, receiverVars>>
    BY <1>5 DEF DataResponse, SenderTypeOK, LinkTypeOK
  <2>2. QED
    BY <2>1, <1>r, ReceiverSame DEF ReceiverTypeOK
<1>6. ASSUME NEW f \in Files, SendApproved(f) PROVE TypeOK'
  <2>1. /\ to_receiver' \in Seq(Announcement) /\ SenderTypeOK'
        /\ UNCHANGED <<linkVars, to_sender, receiverVars>>
    BY <1>6, SendType DEF SendApproved, SenderTypeOK
  <2>2. QED
    BY <2>1, <1>r, ReceiverSame, LinkSame DEF ReceiverTypeOK
<1>7. ASSUME AckChunk PROVE TypeOK'
  <2> DEFINE f == Head(to_sender).file
             n == Head(to_sender).chunk
  <2>0. f \in Files /\ n \in Nat /\ to_sender' \in Seq(Acknowledgement)
    BY <1>7, HeadOfSender DEF AckChunk
  <2>1. /\ UNCHANGED <<linkVars, to_receiver, receiverVars, chunks, offered, pending, approved,
                       sent_chunk, sender_main>>
        /\ reports' \in {reports, reports \cup {<<f, "done">>}}
        /\ \/ sender_io' = At("carve", f, n) /\ UNCHANGED <<sending, send_timers>>
           \/ cancel_sending(f) /\ UNCHANGED sender_io
    BY <1>7 DEF AckChunk
  <2>2. /\ sender_io' \in {Idle} \cup Labels({"carve"})
        /\ sending' \subseteq Files /\ send_timers' \subseteq Files \X Nat
    <3>1. At("carve", f, n) \in Labels({"carve"})
      BY <2>0, PlaceMade
    <3>2. cancel_sending(f) => sending' \subseteq Files /\ send_timers' \subseteq Files \X Nat
      BY <2>0, CancelSendingType
    <3>3. QED
      BY <2>1, <3>1, <3>2 DEF SenderTypeOK
  <2>3. SenderTypeOK'
    BY <2>0, <2>1, <2>2 DEF SenderTypeOK
  <2>4. QED
    BY <2>0, <2>1, <2>3, <1>r, ReceiverSame, LinkSame DEF ReceiverTypeOK
<1>8. ASSUME CarveChunk PROVE TypeOK'
  <2> DEFINE f == sender_io.file
             n == NextChunk(sender_io.chunk)
  <2>0. f \in Files /\ n \in Nat
    <3>1. sender_io \in {Idle} \cup Labels({"carve"}) /\ sender_io.at # "idle"
      BY <1>8 DEF CarveChunk, SenderTypeOK
    <3>2. f \in Files /\ sender_io.chunk \in Nat
      BY <3>1, PlaceFields
    <3>3. QED
      BY <3>2 DEF NextChunk
  <2>1. [kind |-> "chunk", file |-> f, chunk |-> n] \in Announcement
    BY <2>0 DEF Announcement
  <2>2. to_receiver' \in Seq(Announcement)
    BY <1>8, <2>1, TransmitType DEF CarveChunk
  <2>3. send_timers' \subseteq Files \X Nat
    <3>1. send_timers' = Rearm(send_timers, f, n)
      BY <1>8 DEF CarveChunk
    <3>2. send_timers \in SUBSET (Files \X Nat)
      BY DEF SenderTypeOK
    <3>3. QED
      BY <2>0, <3>1, <3>2, RearmType
  <2>4. /\ sent_chunk' = [sent_chunk EXCEPT ![f] = n] /\ sender_io' = Idle
        /\ UNCHANGED <<linkVars, to_sender, receiverVars, chunks, offered, pending, approved,
                       sending, sender_main, reports>>
    BY <1>8 DEF CarveChunk
  <2>6. SenderTypeOK'
    BY <2>0, <2>3, <2>4 DEF SenderTypeOK
  <2>5. QED
    BY <2>2, <2>4, <2>6, <1>r, ReceiverSame, LinkSame DEF ReceiverTypeOK
<1>9. QED
  BY <1>1, <1>2, <1>3, <1>4, <1>5, <1>6, <1>7, <1>8 DEF SenderMain, SenderThreads

\* The two steps of cancel_file(), taken by either thread of the receiver.
LEMMA CancelType ==
    ASSUME TypeOK, NEW pc, NEW pcNext, NEW labels, {"cancel", "discard"} \subseteq labels,
           pc \in {Idle} \cup Labels(labels), CancelStep(pc, pcNext) \/ DiscardStep(pc, pcNext)
    PROVE  /\ pcNext \in {Idle} \cup Labels(labels)
           /\ LinkTypeOK' /\ SenderTypeOK' /\ TableTypeOK' /\ StoreTypeOK'
           /\ to_receiver' \in Seq(Announcement) /\ to_sender' \in Seq(Acknowledgement)
<1> DEFINE f == pc.file
<1>0. f \in Files /\ pc.chunk \in Nat /\ pc \in Labels(labels)
  BY PlaceFields DEF CancelStep, DiscardStep, Idle, Labels
<1>1. Reply(f, FALSE, pc.chunk) => to_sender' \in Seq(Acknowledgement)
  BY <1>0, ReplyType DEF TypeOK
<1>2. UNCHANGED <<linkVars, to_receiver, senderVars>>
  BY DEF CancelStep, DiscardStep
<1>3. LinkTypeOK' /\ SenderTypeOK' /\ to_receiver' \in Seq(Announcement)
  BY <1>2, SenderSame, LinkSame DEF TypeOK
<1>4. CASE CancelStep(pc, pcNext)
  <2>1. /\ UNCHANGED <<storeVars, accepted, receiving, chunk, fd, name, reapers>>
        /\ cancelled' \subseteq cancelled \cup {f}
        /\ receive_timers' \subseteq receive_timers
        /\ pcNext \in {Idle, [pc EXCEPT !.at = "discard"]}
        /\ UNCHANGED to_sender \/ Reply(f, FALSE, pc.chunk)
    BY <1>4 DEF CancelStep
  <2>2. TableTypeOK'
    BY <1>0, <2>1 DEF TypeOK, TableTypeOK
  <2>3. pcNext \in {Idle} \cup Labels(labels)
    BY <1>0, <2>1 DEF Labels
  <2>4. QED
    BY <1>1, <1>3, <2>1, <2>2, <2>3, StoreSame DEF TypeOK
<1>5. CASE DiscardStep(pc, pcNext)
  <2>1. /\ handles' = [handles EXCEPT ![fd[f]] = Nobody] /\ crossed' \in BOOLEAN
        /\ disk' = [disk EXCEPT ![name[f]] = Nobody]
        /\ reapers' = reapers \cup {f} /\ Reply(f, FALSE, pc.chunk) /\ pcNext = Idle
        /\ UNCHANGED <<accepted, receiving, cancelled, chunk, fd, name, receive_timers, content,
                       processed>>
    BY <1>5 DEF DiscardStep, Close, Unlinked, TypeOK, StoreTypeOK
  <2>2. TableTypeOK'
    BY <1>0, <2>1 DEF TypeOK, TableTypeOK
  <2>3. StoreTypeOK'
    BY <2>1 DEF TypeOK, StoreTypeOK
  <2>4. QED
    BY <1>1, <1>3, <2>1, <2>2, <2>3
<1>6. QED
  BY <1>4, <1>5

\* The steps of the receiver's main thread keep the types.
LEMMA ReceiverMainType ==
    ASSUME TypeOK, ReceiverMain
    PROVE  TypeOK'
<1>1. ASSUME NEW f \in Files, NEW yes \in BOOLEAN, AnswerUser(f, yes) PROVE TypeOK'
  <2>1. /\ LinkTypeOK' /\ TableTypeOK'
        /\ UNCHANGED <<to_receiver, to_sender, senderVars, storeVars, receiver_main, receiver_io>>
    BY <1>1 DEF AnswerUser, TypeOK, LinkTypeOK, TableTypeOK
  <2>2. QED
    BY <2>1, SenderSame, StoreSame DEF TypeOK, PlaceTypeOK
<1>2. ASSUME NEW f \in Files, CancelDownload(f) PROVE TypeOK'
  <2>1. /\ receiver_main' = At("cancel", f, 0)
        /\ UNCHANGED <<linkVars, to_receiver, to_sender, senderVars, tableVars, storeVars,
                       receiver_io>>
    BY <1>2 DEF CancelDownload
  <2>2. PlaceTypeOK'
    BY <2>1, PlaceMade DEF TypeOK, PlaceTypeOK
  <2>3. QED
    BY <2>1, <2>2, SenderSame, LinkSame, TableSame, StoreSame DEF TypeOK
<1>3. ASSUME NEW f \in Files, Reap(f) PROVE TypeOK'
  <2>1. /\ TableTypeOK' /\ UNCHANGED <<linkVars, to_receiver, to_sender, senderVars, storeVars,
                                       receiver_main, receiver_io>>
    BY <1>3 DEF Reap, TypeOK, TableTypeOK
  <2>2. QED
    BY <2>1, SenderSame, LinkSame, StoreSame DEF TypeOK, PlaceTypeOK
<1>4. ASSUME NEW t \in receive_timers, ReceiveTimeout(t[1], t[2]) PROVE TypeOK'
  <2>0. t[1] \in Files /\ t[2] \in Nat
    BY DEF TypeOK, TableTypeOK
  <2>1. /\ receiver_main' \in {At("cancel", t[1], t[2]), Idle}
        /\ UNCHANGED <<linkVars, to_receiver, to_sender, senderVars, storeVars, receiver_io>>
    BY <1>4 DEF ReceiveTimeout
  <2>2. TableTypeOK'
    BY <1>4 DEF ReceiveTimeout, TypeOK, TableTypeOK
  <2>3. At("cancel", t[1], t[2]) \in Labels({"cancel", "discard"})
    BY <2>0, PlaceMade
  <2>4. PlaceTypeOK'
    BY <2>1, <2>3 DEF TypeOK, PlaceTypeOK
  <2>5. QED
    BY <2>1, <2>2, <2>4, SenderSame, LinkSame, StoreSame DEF TypeOK
<1>5. ASSUME MainCancel \/ MainDiscard PROVE TypeOK'
  <2>1. /\ CancelStep(receiver_main, receiver_main') \/ DiscardStep(receiver_main, receiver_main')
        /\ UNCHANGED receiver_io
    BY <1>5 DEF MainCancel, MainDiscard
  <2>2. receiver_main \in {Idle} \cup Labels({"cancel", "discard"})
    BY DEF TypeOK, PlaceTypeOK
  <2>3. QED
    BY <2>1, <2>2, CancelType DEF TypeOK, PlaceTypeOK
<1>6. QED
  BY <1>1, <1>2, <1>3, <1>4, <1>5 DEF ReceiverMain

\* The steps of the receiver's file thread keep the types.
LEMMA FileThreadType ==
    ASSUME TypeOK, ReceiverFileThread
    PROVE  TypeOK'
<1> DEFINE f == Head(to_receiver).file
           n == Head(to_receiver).chunk
           g == receiver_io.file
<1>h. ASSUME NEW kind, NextFor(kind)
      PROVE  f \in Files /\ n \in Nat /\ to_receiver' \in Seq(Announcement)
  BY <1>h, HeadOfReceiver DEF TypeOK
<1>p. ASSUME receiver_io.at # "idle" PROVE g \in Files /\ receiver_io.chunk \in Nat
  BY <1>p, PlaceFields DEF TypeOK, PlaceTypeOK
<1>1. ASSUME RefuseFile PROVE TypeOK'
  <2>0. f \in Files /\ to_receiver' \in Seq(Announcement)
    BY <1>1, <1>h DEF RefuseFile
  <2>1. /\ Reply(f, FALSE, 0) \/ UNCHANGED to_sender
        /\ accepted' = accepted \ {f}
        /\ UNCHANGED <<linkVars, senderVars, receiving, cancelled, chunk, fd, name, receive_timers,
                       reapers, storeVars, receiver_main, receiver_io>>
    BY <1>1 DEF RefuseFile
  <2>2. to_sender' \in Seq(Acknowledgement)
    BY <2>0, <2>1, ReplyType DEF TypeOK
  <2>3. TableTypeOK'
    BY <2>1 DEF TypeOK, TableTypeOK
  <2>4. QED
    BY <2>0, <2>1, <2>2, <2>3, SenderSame, LinkSame, StoreSame DEF TypeOK, PlaceTypeOK
<1>2. ASSUME AcceptFile PROVE TypeOK'
  <2>0. f \in Files /\ to_receiver' \in Seq(Announcement)
    BY <1>2, <1>h DEF AcceptFile
  <2>1. PICK d \in Slots, k \in Slots :
        /\ accepted' = accepted \ {f}
        /\ handles' = [handles EXCEPT ![d] = f] /\ disk' = [disk EXCEPT ![k] = f]
        /\ fd' = [fd EXCEPT ![f] = d] /\ name' = [name EXCEPT ![f] = k]
        /\ chunk' = [chunk EXCEPT ![f] = 0]
        /\ receiving' = receiving \cup {f} /\ cancelled' = cancelled \ {f}
        /\ receive_timers' = Rearm(receive_timers, f, 0)
        /\ Reply(f, TRUE, 0)
    BY <1>2 DEF AcceptFile
  <2>2. UNCHANGED <<linkVars, senderVars, reapers, content, processed, crossed,
                   receiver_main, receiver_io>>
    BY <1>2 DEF AcceptFile
  <2>3. to_sender' \in Seq(Acknowledgement)
    BY <2>0, <2>1, ReplyType DEF TypeOK
  <2>4. receive_timers' \subseteq Files \X Nat
    BY <2>0, <2>1, RearmType DEF TypeOK, TableTypeOK
  <2>5. TableTypeOK'
    BY <2>0, <2>1, <2>2, <2>4 DEF TypeOK, TableTypeOK
  <2>6. StoreTypeOK'
    BY <2>0, <2>1, <2>2 DEF TypeOK, StoreTypeOK
  <2>7. QED
    BY <2>0, <2>2, <2>3, <2>5, <2>6, SenderSame, LinkSame DEF TypeOK, PlaceTypeOK
<1>3. ASSUME StoreWhole PROVE TypeOK'
  <2>0. f \in Files /\ to_receiver' \in Seq(Announcement)
    BY <1>3, <1>h DEF StoreWhole
  <2>1. PICK k \in Slots :
        /\ accepted' = accepted \ {f} /\ disk' = [disk EXCEPT ![k] = f]
        /\ name' = [name EXCEPT ![f] = k] /\ processed' = processed \cup {<<f, k>>}
    BY <1>3 DEF StoreWhole
  <2>2. UNCHANGED <<linkVars, to_sender, senderVars, receiving, cancelled, chunk, fd, receive_timers,
                   reapers, handles, content, crossed, receiver_main, receiver_io>>
    BY <1>3 DEF StoreWhole
  <2>3. TableTypeOK' /\ StoreTypeOK'
    BY <2>0, <2>1, <2>2 DEF TypeOK, TableTypeOK, StoreTypeOK
  <2>4. QED
    BY <2>0, <2>2, <2>3, SenderSame, LinkSame DEF TypeOK, PlaceTypeOK
<1>4. ASSUME ReceiveChunk PROVE TypeOK'
  <2>0. f \in Files /\ n \in Nat /\ to_receiver' \in Seq(Announcement)
    BY <1>4, <1>h DEF ReceiveChunk
  <2>1. /\ chunk' \in {chunk, [chunk EXCEPT ![f] = n]}
        /\ receiver_io' \in {Idle, At("write", f, n), At("cancel", f, n)}
        /\ UNCHANGED <<linkVars, to_sender, senderVars, accepted, receiving, cancelled, fd, name,
                       receive_timers, reapers, storeVars, receiver_main>>
    BY <1>4 DEF ReceiveChunk
  <2>2. TableTypeOK'
    BY <2>0, <2>1 DEF TypeOK, TableTypeOK
  <2>3. PlaceTypeOK'
    BY <2>0, <2>1 DEF TypeOK, PlaceTypeOK, At, Labels
  <2>4. QED
    BY <2>0, <2>1, <2>2, <2>3, SenderSame, LinkSame, StoreSame DEF TypeOK
<1>5. ASSUME WriteChunk PROVE TypeOK'
  <2>0. g \in Files /\ receiver_io.chunk \in Nat
    BY <1>5, <1>p DEF WriteChunk
  <2>1. /\ receiver_io' \in {[receiver_io EXCEPT !.at = "written"], [receiver_io EXCEPT !.at = "cancel"]}
        /\ \/ content' = content
           \/ handles[fd[g]] # Nobody /\ content' = [content EXCEPT ![handles[fd[g]]] = Append(@, <<g, receiver_io.chunk>>)]
        /\ Reply(g, TRUE, receiver_io.chunk) \/ UNCHANGED to_sender
        /\ UNCHANGED <<linkVars, to_receiver, senderVars, tableVars, handles, disk, processed,
                       crossed, receiver_main>>
    BY <1>5 DEF WriteChunk, AfterWrite
  <2>2. to_sender' \in Seq(Acknowledgement)
    BY <2>0, <2>1, ReplyType DEF TypeOK
  <2>3. PlaceTypeOK'
    <3>1. receiver_io \in Labels({"write", "written", "finish", "cancel", "discard"})
      BY <1>5 DEF WriteChunk, TypeOK, PlaceTypeOK, Idle
    <3>2. receiver_io' \in Labels({"write", "written", "finish", "cancel", "discard"})
      BY <2>1, <3>1 DEF Labels
    <3>3. QED
      BY <2>1, <3>2 DEF TypeOK, PlaceTypeOK
  <2>4. content' \in [Files -> Seq(Files \X Nat)]
    <3>1. CASE content' = content
      BY <3>1 DEF TypeOK, StoreTypeOK
    <3>2. ASSUME NEW h, h = handles[fd[g]], h # Nobody,
                 content' = [content EXCEPT ![h] = Append(@, <<g, receiver_io.chunk>>)]
          PROVE  content' \in [Files -> Seq(Files \X Nat)]
      <4>1. content \in [Files -> Seq(Files \X Nat)] /\ <<g, receiver_io.chunk>> \in Files \X Nat
        BY <2>0 DEF TypeOK, StoreTypeOK
      <4>2. CASE h \in Files
        <5>1. Append(content[h], <<g, receiver_io.chunk>>) \in Seq(Files \X Nat)
          BY <4>1, <4>2
        <5>2. QED
          BY <3>2, <4>1, <4>2, <5>1
      <4>3. CASE h \notin Files
        BY <3>2, <4>1, <4>3
      <4>4. QED
        BY <4>2, <4>3
    <3>3. QED
      BY <2>1, <3>1, <3>2
  <2>5. StoreTypeOK'
    BY <2>1, <2>4 DEF TypeOK, StoreTypeOK
  <2>6. QED
    BY <2>1, <2>2, <2>3, <2>5, SenderSame, LinkSame, TableSame DEF TypeOK
<1>6. ASSUME AfterChunk PROVE TypeOK'
  <2>0. g \in Files /\ receiver_io.chunk \in Nat
    BY <1>6, <1>p DEF AfterChunk
  <2>1. /\ receiver_io' \in {Idle, At("cancel", g, receiver_io.chunk), At("finish", g, receiver_io.chunk)}
        /\ receive_timers' \in {receive_timers, Rearm(receive_timers, g, receiver_io.chunk)}
        /\ UNCHANGED <<linkVars, to_receiver, to_sender, senderVars, accepted, receiving, cancelled,
                       chunk, fd, name, reapers, storeVars, receiver_main>>
    BY <1>6 DEF AfterChunk, Awaited
  <2>2. receive_timers' \subseteq Files \X Nat
    BY <2>0, <2>1, RearmType DEF TypeOK, TableTypeOK
  <2>3. TableTypeOK'
    BY <2>1, <2>2 DEF TypeOK, TableTypeOK
  <2>4. PlaceTypeOK'
    BY <2>0, <2>1 DEF TypeOK, PlaceTypeOK, At, Labels
  <2>5. QED
    BY <2>1, <2>3, <2>4, SenderSame, LinkSame, StoreSame DEF TypeOK
<1>7. ASSUME FinishFile PROVE TypeOK'
  <2>0. g \in Files
    BY <1>7, <1>p DEF FinishFile
  <2>1. /\ receiving' = receiving \ {g} /\ handles' = [handles EXCEPT ![fd[g]] = Nobody]
        /\ crossed' \in BOOLEAN /\ processed' = processed \cup {<<g, name[g]>>}
        /\ receiver_io' = Idle
        /\ UNCHANGED <<linkVars, to_receiver, to_sender, senderVars, accepted, cancelled, chunk,
                       fd, name, receive_timers, reapers, disk, content, receiver_main>>
    BY <1>7 DEF FinishFile, Close, TypeOK, StoreTypeOK
  <2>2. TableTypeOK' /\ PlaceTypeOK'
    BY <2>1 DEF TypeOK, TableTypeOK, PlaceTypeOK
  <2>3. StoreTypeOK'
    <3>1. name[g] \in Slots \cup {0}
      BY <2>0 DEF TypeOK, TableTypeOK
    <3>2. processed' \subseteq Files \X (Slots \cup {0})
      BY <2>0, <2>1, <3>1 DEF TypeOK, StoreTypeOK
    <3>3. handles' \in [Slots -> Files \cup {Nobody}]
      BY <2>1 DEF TypeOK, StoreTypeOK
    <3>4. QED
      BY <2>1, <3>2, <3>3 DEF TypeOK, StoreTypeOK
  <2>4. QED
    BY <2>1, <2>2, <2>3, SenderSame, LinkSame DEF TypeOK
<1>8. ASSUME FileThreadCancel \/ FileThreadDiscard PROVE TypeOK'
  <2>1. /\ CancelStep(receiver_io, receiver_io') \/ DiscardStep(receiver_io, receiver_io')
        /\ UNCHANGED receiver_main
    BY <1>8 DEF FileThreadCancel, FileThreadDiscard
  <2>2. receiver_io \in {Idle} \cup Labels({"write", "written", "finish", "cancel", "discard"})
    BY DEF TypeOK, PlaceTypeOK
  <2>3. QED
    BY <2>1, <2>2, CancelType DEF TypeOK, PlaceTypeOK
<1>9. QED
  BY <1>1, <1>2, <1>3, <1>4, <1>5, <1>6, <1>7, <1>8 DEF ReceiverFileThread

\* Disconnect and cleanup().
LEMMA EndType ==
    ASSUME TypeOK, Disconnect \/ Cleanups
    PROVE  TypeOK'
<1>1. ASSUME Disconnect PROVE TypeOK'
  <2>1. LinkTypeOK' /\ UNCHANGED <<senderVars, receiverVars>>
    BY <1>1 DEF Disconnect, TypeOK, LinkTypeOK
  <2>2. to_receiver' \in Seq(Announcement) /\ to_sender' \in Seq(Acknowledgement)
    BY <1>1 DEF Disconnect, TypeOK
  <2>3. QED
    BY <2>1, <2>2, SenderSame, ReceiverSame DEF TypeOK, ReceiverTypeOK
<1>2. ASSUME CleanupSender PROVE TypeOK'
  <2>1. /\ LinkTypeOK' /\ SenderTypeOK' /\ UNCHANGED <<to_receiver, to_sender, receiverVars>>
    BY <1>2 DEF CleanupSender, TypeOK, LinkTypeOK, SenderTypeOK
  <2>2. QED
    BY <2>1, ReceiverSame DEF TypeOK, ReceiverTypeOK
<1>3. ASSUME CleanupReceiver PROVE TypeOK'
  <2>1. /\ LinkTypeOK' /\ TableTypeOK'
        /\ UNCHANGED <<to_receiver, to_sender, senderVars, receiver_main, receiver_io>>
    BY <1>3 DEF CleanupReceiver, TypeOK, LinkTypeOK, TableTypeOK
  <2>2. StoreTypeOK'
    BY <1>3 DEF CleanupReceiver, Swept, TypeOK, StoreTypeOK
  <2>3. QED
    BY <2>1, <2>2, SenderSame DEF TypeOK, PlaceTypeOK
<1>4. QED
  BY <1>1, <1>2, <1>3 DEF Cleanups

\* Every step keeps the types.
LEMMA TypeStep == ASSUME TypeOK, [Next]_vars PROVE TypeOK'
<1>1. CASE UNCHANGED vars
  BY <1>1, SenderSame, ReceiverSame, LinkSame DEF vars, TypeOK, ReceiverTypeOK
<1>2. QED
  BY <1>1, SenderStepType, ReceiverMainType, FileThreadType, EndType DEF Next

\* The tables, timers and threads of both ends keep the form the code gives them.
THEOREM TypeCorrect == Spec => []TypeOK
<1>1. ASSUME Init PROVE TypeOK
  <2>0. LinkTypeOK /\ PlaceTypeOK
    BY <1>1 DEF Init, LinkTypeOK, PlaceTypeOK
  <2>1. TableTypeOK /\ StoreTypeOK
    <3>1. TableTypeOK
      BY <1>1 DEF Init, TableTypeOK
    <3>2. content \in [Files -> Seq(Files \X Nat)]
      BY <1>1 DEF Init
    <3>3. StoreTypeOK
      BY <1>1, <3>2 DEF Init, StoreTypeOK
    <3>4. QED
      BY <3>1, <3>3
  <2>2. chunks \in [Files -> Nat]
    BY <1>1, SizesAssumption DEF Init
  <2>3. SenderTypeOK
    BY <1>1, <2>2 DEF Init, SenderTypeOK
  <2>4. to_receiver \in Seq(Announcement) /\ to_sender \in Seq(Acknowledgement)
    BY <1>1 DEF Init
  <2>5. QED
    BY <2>0, <2>1, <2>3, <2>4 DEF TypeOK
<1>2. TypeOK /\ [Next]_vars => TypeOK'
  BY TypeStep
<1>3. QED
  BY <1>1, <1>2, PTL DEF Spec

(***************************************************************************)
(* No transfer is forgotten.  For the receiver this takes two more facts:  *)
(* a transfer marked as cancelled is about to be closed by the thread that *)
(* marked it, or will be reaped, and the file thread's chunk is the one    *)
(* that the table has.                                                     *)
(***************************************************************************)
Discarding(pc, f) == pc.at = "discard" /\ pc.file = f

CancelledWatched ==
    \A f \in receiving \cap cancelled :
        f \in reapers \/ Discarding(receiver_main, f) \/ Discarding(receiver_io, f)

ChunkInHand ==
    receiver_io.at \in {"write", "written"} => chunk[receiver_io.file] = receiver_io.chunk

WatchInv == SendingWatched /\ ReceivingWatched /\ CancelledWatched /\ ChunkInHand

\* An idle thread works on no file.
LEMMA IdleFields == Idle.file = Nobody /\ Idle.at = "idle" /\ Nobody \notin Files
BY NobodyAssumption DEF Idle

\* do_send_file() arms the timer of what it adds to the table.
LEMMA SendWatched ==
    ASSUME SenderTypeOK, SendingWatched, NEW f \in Files, do_send_file(f),
           UNCHANGED <<sender_main, sender_io>>
    PROVE  SendingWatched'
<1>1. CASE chunks[f] = 0 \/ ~(Cardinality(sending) < MaxConcurrent)
  BY <1>1 DEF do_send_file, SendingWatched
<1>2. CASE chunks[f] # 0 /\ Cardinality(sending) < MaxConcurrent
  <2>1. /\ sending' = sending \cup {f} /\ sent_chunk' = [sent_chunk EXCEPT ![f] = 0]
        /\ send_timers' = Rearm(send_timers, f, 0)
    BY <1>2 DEF do_send_file
  <2>2. SUFFICES ASSUME NEW g \in sending'
                 PROVE  \/ <<g, sent_chunk'[g]>> \in send_timers'
                        \/ g \in {sender_main.file, sender_io.file}'
    BY DEF SendingWatched
  <2>3. QED
    BY <2>1, <2>2, RearmType DEF SendingWatched, SenderTypeOK
<1>3. QED
  BY <1>1, <1>2

\* cancel_sending() takes the timer with the entry.
LEMMA CancelSendingWatched ==
    ASSUME SenderTypeOK, SendingWatched, NEW f \in Files, cancel_sending(f), UNCHANGED sent_chunk,
           \A g \in sending \ {f} : g \in {sender_main.file, sender_io.file} =>
                                       g \in {sender_main.file, sender_io.file}'
    PROVE  SendingWatched'
<1>1. \A t \in send_timers : t[1] # f => t \in send_timers'
  BY UnarmType DEF SenderTypeOK, cancel_sending
<1>2. QED
  BY <1>1 DEF SendingWatched, cancel_sending

\* The steps of the sender keep its table watched.
LEMMA SenderStepWatched ==
    ASSUME TypeOK, WatchInv, SenderMain \/ SenderThreads
    PROVE  WatchInv'
<1> USE DEF TypeOK
<1>r. UNCHANGED receiverVars => ReceivingWatched' /\ CancelledWatched' /\ ChunkInHand'
  BY DEF WatchInv, ReceivingWatched, CancelledWatched, ChunkInHand, Discarding, receiverVars, tableVars
<1>1. ASSUME NEW f \in Files, SendFile(f) PROVE WatchInv'
  <2>1. UNCHANGED <<receiverVars, sender_main, sender_io>>
    BY <1>1 DEF SendFile
  <2>2. CASE f \in Ask
    BY <1>1, <2>1, <2>2, <1>r DEF SendFile, WatchInv, SendingWatched
  <2>3. CASE f \notin Ask
    BY <1>1, <2>1, <2>3, <1>r, SendWatched DEF SendFile, WatchInv
  <2>4. QED
    BY <2>2, <2>3
<1>2. ASSUME NEW f \in Files, AskTimeout(f) PROVE WatchInv'
  BY <1>2, <1>r DEF AskTimeout, WatchInv, SendingWatched
<1>3. ASSUME NEW t \in send_timers, SendTimeout(t[1], t[2]) PROVE WatchInv'
  <2>0. t = <<t[1], t[2]>>
    BY DEF SenderTypeOK
  <2>1. /\ send_timers' = send_timers \ {t} /\ sender_main = Idle
        /\ t[1] \in sending /\ sent_chunk[t[1]] = t[2] => sender_main'.file = t[1]
        /\ UNCHANGED <<sending, sent_chunk, sender_io, receiverVars>>
    BY <1>3, <2>0 DEF SendTimeout, At
  <2>2. SendingWatched'
    BY <2>1, IdleFields DEF WatchInv, SendingWatched, SenderTypeOK
  <2>3. QED
    BY <2>1, <2>2, <1>r DEF WatchInv
<1>4. ASSUME SendGiveUp PROVE WatchInv'
  <2>1. sender_main.file \in Files
    <3>1. sender_main \in {Idle} \cup Labels({"giveup"}) /\ sender_main.at # "idle"
      BY <1>4 DEF SendGiveUp, SenderTypeOK
    <3>2. QED
      BY <3>1, PlaceFields
  <2>2. cancel_sending(sender_main.file) /\ UNCHANGED <<sent_chunk, sender_io, receiverVars>>
    BY <1>4 DEF SendGiveUp
  <2>3. QED
    BY <2>1, <2>2, <1>r, CancelSendingWatched DEF WatchInv
<1>5. ASSUME NEW f \in Files, NEW yes \in BOOLEAN, DataResponse(f, yes) PROVE WatchInv'
  BY <1>5, <1>r DEF DataResponse, WatchInv, SendingWatched
<1>6. ASSUME NEW f \in Files, SendApproved(f) PROVE WatchInv'
  BY <1>6, <1>r, SendWatched DEF SendApproved, WatchInv
<1>7. ASSUME AckChunk PROVE WatchInv'
  <2> DEFINE f == Head(to_sender).file
             n == Head(to_sender).chunk
  <2>0. f \in Files
    BY <1>7, HeadOfSender DEF AckChunk
  <2>1. /\ UNCHANGED <<receiverVars, sent_chunk, sender_main>> /\ sender_io = Idle
        /\ \/ sender_io' = At("carve", f, n) /\ UNCHANGED <<sending, send_timers>>
           \/ cancel_sending(f) /\ UNCHANGED sender_io
    BY <1>7 DEF AckChunk
  <2>2. CASE sender_io' = At("carve", f, n) /\ UNCHANGED <<sending, send_timers>>
    BY <2>1, <2>2, <1>r, IdleFields DEF WatchInv, SendingWatched, SenderTypeOK
  <2>3. CASE cancel_sending(f) /\ UNCHANGED sender_io
    BY <2>0, <2>1, <2>3, <1>r, CancelSendingWatched DEF WatchInv
  <2>4. QED
    BY <2>1, <2>2, <2>3
<1>8. ASSUME CarveChunk PROVE WatchInv'
  <2> DEFINE f == sender_io.file
             n == NextChunk(sender_io.chunk)
  <2>0. f \in Files /\ n \in Nat
    <3>1. sender_io \in {Idle} \cup Labels({"carve"}) /\ sender_io.at # "idle"
      BY <1>8 DEF CarveChunk, SenderTypeOK
    <3>2. QED
      BY <3>1, PlaceFields DEF NextChunk
  <2>1. /\ sent_chunk' = [sent_chunk EXCEPT ![f] = n] /\ send_timers' = Rearm(send_timers, f, n)
        /\ UNCHANGED <<receiverVars, sending, sender_main>>
    BY <1>8 DEF CarveChunk
  <2>2. /\ <<f, n>> \in send_timers'
        /\ \A t \in send_timers : t[1] # f => t \in send_timers'
    BY <2>0, <2>1, RearmType DEF SenderTypeOK
  <2>3. SendingWatched'
    BY <2>0, <2>1, <2>2 DEF WatchInv, SendingWatched, SenderTypeOK
  <2>4. QED
    BY <2>1, <2>3, <1>r DEF WatchInv
<1>9. QED
  BY <1>1, <1>2, <1>3, <1>4, <1>5, <1>6, <1>7, <1>8 DEF SenderMain, SenderThreads

\* cancel_file() by a thread at pc, the other one being at other.
LEMMA CancelWatched ==
    ASSUME TypeOK, NEW pc, NEW pcNext, NEW other,
           pc.file \in Files, CancelStep(pc, pcNext) \/ DiscardStep(pc, pcNext),
           \A f \in receiving : \/ <<f, chunk[f]>> \in receive_timers
                               \/ f \in reapers \cup {pc.file, other.file},
           \A f \in receiving \cap cancelled :
               f \in reapers \/ Discarding(pc, f) \/ Discarding(other, f),
           pc \in [at : {"cancel", "discard"}, file : Files, chunk : Nat]
    PROVE  /\ \A f \in receiving' : \/ <<f, chunk'[f]>> \in receive_timers'
                                   \/ f \in reapers' \cup {pcNext.file, other.file}
           /\ \A f \in receiving' \cap cancelled' :
                  f \in reapers' \/ Discarding(pcNext, f) \/ Discarding(other, f)
<1>1. UNCHANGED <<receiving, chunk>>
  BY DEF CancelStep, DiscardStep
<1>2. CASE CancelStep(pc, pcNext) /\ Cancels(pc.file)
  <2>1. /\ cancelled' = cancelled \cup {pc.file} /\ UNCHANGED reapers
        /\ receive_timers' = receive_timers \ TimersOf(receive_timers, pc.file)
        /\ pcNext.file = pc.file /\ pcNext.at = "discard" /\ pc.at = "cancel"
    BY <1>2 DEF CancelStep
  <2>2. \A t \in receive_timers : t[1] # pc.file => t \in receive_timers'
    BY <2>1, UnarmType DEF TypeOK, TableTypeOK
  <2>3. QED
    BY <1>1, <2>1, <2>2 DEF Discarding
<1>3. CASE CancelStep(pc, pcNext) /\ ~Cancels(pc.file)
  <2>1. /\ UNCHANGED <<cancelled, reapers, receive_timers>> /\ pc.at = "cancel"
        /\ pc.file \in receiving => pc.file \in cancelled
    BY <1>3 DEF CancelStep, Cancels
  <2>2. QED
    BY <1>1, <2>1 DEF Discarding
<1>4. CASE DiscardStep(pc, pcNext)
  <2>1. UNCHANGED <<cancelled, receive_timers>> /\ reapers' = reapers \cup {pc.file}
    BY <1>4 DEF DiscardStep
  <2>2. QED
    BY <1>1, <2>1 DEF Discarding
<1>5. QED
  BY <1>2, <1>3, <1>4

\* What WatchInv says of the receiver depends on these variables only.
watchVars == <<receiving, cancelled, chunk, receive_timers, reapers, receiver_main, receiver_io>>

\* So does a step that leaves the sender alone.
LEMMA SenderUnwatched ==
    ASSUME SendingWatched, UNCHANGED senderVars
    PROVE  SendingWatched'
BY DEF SendingWatched, senderVars

\* The receiver's main thread keeps both tables watched.
LEMMA ReceiverMainWatched ==
    ASSUME TypeOK, WatchInv, ReceiverMain
    PROVE  WatchInv'
<1> USE DEF TypeOK
<1>1. ASSUME NEW f \in Files, NEW yes \in BOOLEAN, AnswerUser(f, yes) PROVE WatchInv'
  <2>1. UNCHANGED <<senderVars, watchVars>>
    BY <1>1 DEF AnswerUser, watchVars
  <2>2. QED
    BY <2>1, SenderUnwatched
       DEF WatchInv, ReceivingWatched, CancelledWatched, ChunkInHand, Discarding, watchVars
<1>2. ASSUME NEW f \in Files, CancelDownload(f) PROVE WatchInv'
  <2>1. /\ receiver_main = Idle
        /\ UNCHANGED <<senderVars, receiving, cancelled, chunk, receive_timers, reapers, receiver_io>>
    BY <1>2 DEF CancelDownload, tableVars
  <2>2. QED
    BY <2>1, SenderUnwatched, IdleFields
       DEF WatchInv, ReceivingWatched, CancelledWatched, ChunkInHand, Discarding, TableTypeOK
<1>3. ASSUME NEW f \in Files, Reap(f) PROVE WatchInv'
  <2>1. /\ reapers' = reapers \ {f} /\ receiving' = receiving \ {f}
        /\ UNCHANGED <<senderVars, cancelled, chunk, receive_timers, receiver_main, receiver_io>>
    BY <1>3 DEF Reap
  <2>2. QED
    BY <2>1, SenderUnwatched
       DEF WatchInv, ReceivingWatched, CancelledWatched, ChunkInHand, Discarding
<1>4. ASSUME NEW t \in receive_timers, ReceiveTimeout(t[1], t[2]) PROVE WatchInv'
  <2>0. t = <<t[1], t[2]>>
    BY DEF TableTypeOK
  <2>1. /\ receive_timers' = receive_timers \ {t} /\ receiver_main = Idle
        /\ t[1] \in receiving \ cancelled /\ chunk[t[1]] = t[2] => receiver_main'.file = t[1]
        /\ UNCHANGED <<senderVars, receiving, cancelled, chunk, reapers, receiver_io>>
    BY <1>4, <2>0 DEF ReceiveTimeout, At
  <2>2. ReceivingWatched'
    BY <2>1, IdleFields DEF WatchInv, ReceivingWatched, CancelledWatched, Discarding, TableTypeOK
  <2>3. CancelledWatched' /\ ChunkInHand'
    BY <2>1, IdleFields DEF WatchInv, CancelledWatched, ChunkInHand, Discarding
  <2>4. QED
    BY <2>1, <2>2, <2>3, SenderUnwatched DEF WatchInv
<1>5. ASSUME MainCancel \/ MainDiscard PROVE WatchInv'
  <2>1. /\ CancelStep(receiver_main, receiver_main') \/ DiscardStep(receiver_main, receiver_main')
        /\ UNCHANGED receiver_io
    BY <1>5 DEF MainCancel, MainDiscard
  <2>2. UNCHANGED <<senderVars, chunk>>
    BY <2>1 DEF CancelStep, DiscardStep
  <2>3. receiver_main \in [at : {"cancel", "discard"}, file : Files, chunk : Nat]
    <3>1. receiver_main.at \in {"cancel", "discard"}
      BY <2>1 DEF CancelStep, DiscardStep
    <3>2. receiver_main \in Labels({"cancel", "discard"})
      BY <3>1, IdleFields DEF PlaceTypeOK
    <3>3. QED
      BY <3>2 DEF Labels
  <2>4. receiver_main.file \in Files
    BY <2>3
  <2>5. /\ \A f \in receiving : \/ <<f, chunk[f]>> \in receive_timers
                               \/ f \in reapers \cup {receiver_main.file, receiver_io.file}
        /\ \A f \in receiving \cap cancelled :
               f \in reapers \/ Discarding(receiver_main, f) \/ Discarding(receiver_io, f)
    BY DEF WatchInv, ReceivingWatched, CancelledWatched
  <2>6. /\ \A f \in receiving' : \/ <<f, chunk'[f]>> \in receive_timers'
                                \/ f \in reapers' \cup {receiver_main'.file, receiver_io.file}
        /\ \A f \in receiving' \cap cancelled' :
               f \in reapers' \/ Discarding(receiver_main', f) \/ Discarding(receiver_io, f)
    BY <2>1, <2>3, <2>4, <2>5, CancelWatched
  <2>7. ReceivingWatched' /\ CancelledWatched'
    BY <2>1, <2>6 DEF ReceivingWatched, CancelledWatched, Discarding
  <2>8. QED
    BY <2>1, <2>2, <2>7, SenderUnwatched DEF WatchInv, ChunkInHand
<1>6. QED
  BY <1>1, <1>2, <1>3, <1>4, <1>5 DEF ReceiverMain

\* The receiver's file thread keeps both tables watched.
LEMMA FileThreadWatched ==
    ASSUME TypeOK, WatchInv, ReceiverFileThread
    PROVE  WatchInv'
<1> USE DEF TypeOK
<1> DEFINE f == Head(to_receiver).file
           n == Head(to_receiver).chunk
           g == receiver_io.file
<1>1. ASSUME RefuseFile \/ StoreWhole PROVE WatchInv'
  <2>1. UNCHANGED <<senderVars, watchVars>>
    BY <1>1 DEF RefuseFile, StoreWhole, watchVars
  <2>2. QED
    BY <2>1, SenderUnwatched
       DEF WatchInv, ReceivingWatched, CancelledWatched, ChunkInHand, Discarding, watchVars
<1>2. ASSUME AcceptFile PROVE WatchInv'
  <2>0. f \in Files /\ receiver_io = Idle
    BY <1>2, HeadOfReceiver DEF AcceptFile, NextFor
  <2>1. /\ chunk' = [chunk EXCEPT ![f] = 0] /\ receiving' = receiving \cup {f}
        /\ cancelled' = cancelled \ {f} /\ receive_timers' = Rearm(receive_timers, f, 0)
        /\ UNCHANGED <<senderVars, reapers, receiver_main, receiver_io>>
    BY <1>2 DEF AcceptFile
  <2>2. /\ <<f, 0>> \in receive_timers'
        /\ \A t \in receive_timers : t[1] # f => t \in receive_timers'
    BY <2>0, <2>1, RearmType DEF TableTypeOK
  <2>3. ReceivingWatched'
    <3>1. /\ chunk'[f] = 0
          /\ \A h \in receiving \ {f} : chunk'[h] = chunk[h] /\ <<h, chunk[h]>>[1] # f
      BY <2>0, <2>1 DEF TableTypeOK
    <3>2. SUFFICES ASSUME NEW h \in receiving'
                   PROVE  \/ <<h, chunk'[h]>> \in receive_timers'
                          \/ h \in reapers' \cup {receiver_main.file, receiver_io.file}'
      BY DEF ReceivingWatched
    <3>3. QED
      BY <2>1, <2>2, <3>1, <3>2 DEF WatchInv, ReceivingWatched
  <2>4. CancelledWatched'
    BY <2>1 DEF WatchInv, CancelledWatched, Discarding
  <2>5. ChunkInHand'
    BY <2>0, <2>1, IdleFields DEF ChunkInHand
  <2>6. QED
    BY <2>1, <2>3, <2>4, <2>5, SenderUnwatched DEF WatchInv
<1>3. ASSUME ReceiveChunk PROVE WatchInv'
  <2>0. f \in Files /\ n \in Nat /\ receiver_io = Idle
    BY <1>3, HeadOfReceiver DEF ReceiveChunk, NextFor
  <2>1. UNCHANGED <<senderVars, receiving, cancelled, receive_timers, reapers, receiver_main>>
    BY <1>3 DEF ReceiveChunk
  <2>2. \/ chunk' = [chunk EXCEPT ![f] = n] /\ receiver_io' = At("write", f, n)
        \/ chunk' = chunk /\ receiver_io' \in {Idle, At("cancel", f, n)}
    BY <1>3 DEF ReceiveChunk
  <2>3. CASE chunk' = [chunk EXCEPT ![f] = n] /\ receiver_io' = At("write", f, n)
    <3>1. receiver_io'.file = f /\ receiver_io'.chunk = n
      BY <2>3 DEF At
    <3>2. ReceivingWatched' /\ ChunkInHand'
      BY <2>0, <2>1, <2>3, <3>1, IdleFields DEF WatchInv, ReceivingWatched, ChunkInHand, TableTypeOK
    <3>3. CancelledWatched'
      BY <2>0, <2>1, IdleFields DEF WatchInv, CancelledWatched, Discarding
    <3>4. QED
      BY <2>1, <3>2, <3>3, SenderUnwatched DEF WatchInv
  <2>4. CASE chunk' = chunk /\ receiver_io' \in {Idle, At("cancel", f, n)}
    <3>1. receiver_io'.at \in {"idle", "cancel"}
      BY <2>4 DEF At, Idle
    <3>2. ReceivingWatched' /\ ChunkInHand'
      BY <2>0, <2>1, <2>4, <3>1, IdleFields DEF WatchInv, ReceivingWatched, ChunkInHand, TableTypeOK
    <3>3. CancelledWatched'
      BY <2>0, <2>1, IdleFields DEF WatchInv, CancelledWatched, Discarding
    <3>4. QED
      BY <2>1, <3>2, <3>3, SenderUnwatched DEF WatchInv
  <2>5. QED
    BY <2>2, <2>3, <2>4
<1>4. ASSUME WriteChunk PROVE WatchInv'
  <2>1. /\ UNCHANGED <<senderVars, tableVars, receiver_main>> /\ receiver_io.at = "write"
        /\ receiver_io' \in {[receiver_io EXCEPT !.at = "written"], [receiver_io EXCEPT !.at = "cancel"]}
    BY <1>4 DEF WriteChunk, AfterWrite
  <2>2. receiver_io \in Labels({"write", "written", "finish", "cancel", "discard"})
    BY <2>1 DEF PlaceTypeOK, Idle
  <2>3. receiver_io'.file = receiver_io.file /\ receiver_io'.chunk = receiver_io.chunk
    BY <2>1, <2>2 DEF Labels
  <2>4. QED
    BY <2>1, <2>3, SenderUnwatched
       DEF WatchInv, ReceivingWatched, CancelledWatched, ChunkInHand, Discarding, tableVars
<1>5. ASSUME AfterChunk PROVE WatchInv'
  <2>0. g \in Files /\ receiver_io.chunk \in Nat
    BY <1>5, PlaceFields DEF AfterChunk, PlaceTypeOK
  <2>1. /\ receiver_io.at = "written"
        /\ UNCHANGED <<senderVars, receiving, cancelled, chunk, reapers, receiver_main>>
    BY <1>5 DEF AfterChunk
  <2>2. chunk[g] = receiver_io.chunk
    BY <2>1 DEF WatchInv, ChunkInHand
  <2>3. receiver_io'.at \in {"idle", "cancel", "finish"}
    BY <1>5 DEF AfterChunk, At, Idle
  <2>4. CancelledWatched' /\ ChunkInHand'
    BY <2>1, <2>3 DEF WatchInv, CancelledWatched, ChunkInHand, Discarding
  <2>5. CASE receive_timers' = Rearm(receive_timers, g, receiver_io.chunk)
    <3>1. /\ <<g, receiver_io.chunk>> \in receive_timers'
          /\ \A t \in receive_timers : t[1] # g => t \in receive_timers'
      BY <2>0, <2>5, RearmType DEF TableTypeOK
    <3>2. ReceivingWatched'
      BY <2>1, <2>2, <3>1 DEF WatchInv, ReceivingWatched
    <3>3. QED
      BY <2>1, <2>4, <3>2, SenderUnwatched DEF WatchInv
  <2>6. CASE UNCHANGED receive_timers /\ g \in cancelled
    <3>1. g \in receiving => g \in reapers \cup {receiver_main.file}
      BY <2>1, <2>6 DEF WatchInv, CancelledWatched, Discarding
    <3>2. ReceivingWatched'
      BY <2>1, <2>6, <3>1 DEF WatchInv, ReceivingWatched
    <3>3. QED
      BY <2>1, <2>4, <3>2, SenderUnwatched DEF WatchInv
  <2>7. CASE UNCHANGED receive_timers /\ receiver_io'.file = g
    <3>1. ReceivingWatched'
      BY <2>1, <2>7 DEF WatchInv, ReceivingWatched
    <3>2. QED
      BY <2>1, <2>4, <3>1, SenderUnwatched DEF WatchInv
  <2>8. \/ receive_timers' = Rearm(receive_timers, g, receiver_io.chunk)
        \/ UNCHANGED receive_timers /\ g \in cancelled
        \/ UNCHANGED receive_timers /\ receiver_io'.file = g
    BY <1>5 DEF AfterChunk, Awaited, At
  <2>9. QED
    BY <2>5, <2>6, <2>7, <2>8
<1>6. ASSUME FinishFile PROVE WatchInv'
  <2>1. /\ receiver_io.at = "finish" /\ receiving' = receiving \ {g} /\ receiver_io' = Idle
        /\ UNCHANGED <<senderVars, cancelled, chunk, receive_timers, reapers, receiver_main>>
    BY <1>6 DEF FinishFile
  <2>2. QED
    BY <2>1, SenderUnwatched, IdleFields
       DEF WatchInv, ReceivingWatched, CancelledWatched, ChunkInHand, Discarding
<1>7. ASSUME FileThreadCancel \/ FileThreadDiscard PROVE WatchInv'
  <2>1. /\ CancelStep(receiver_io, receiver_io') \/ DiscardStep(receiver_io, receiver_io')
        /\ UNCHANGED receiver_main
    BY <1>7 DEF FileThreadCancel, FileThreadDiscard
  <2>2. UNCHANGED <<senderVars, chunk>> /\ receiver_io'.at \in {"idle", "discard"}
    <3>1. receiver_io' = [receiver_io EXCEPT !.at = "discard"] \/ receiver_io' = Idle
      BY <2>1 DEF CancelStep, DiscardStep
    <3>2. receiver_io.at \in {"cancel", "discard"}
      BY <2>1 DEF CancelStep, DiscardStep
    <3>3. receiver_io \in Labels({"write", "written", "finish", "cancel", "discard"})
      BY <3>2, IdleFields DEF PlaceTypeOK
    <3>4. receiver_io'.at \in {"idle", "discard"}
      BY <3>1, <3>3, IdleFields DEF Labels
    <3>5. QED
      BY <2>1, <3>4 DEF CancelStep, DiscardStep
  <2>3. receiver_io \in [at : {"cancel", "discard"}, file : Files, chunk : Nat]
    <3>1. receiver_io.at \in {"cancel", "discard"}
      BY <2>1 DEF CancelStep, DiscardStep
    <3>2. receiver_io \in Labels({"write", "written", "finish", "cancel", "discard"})
      BY <3>1, IdleFields DEF PlaceTypeOK
    <3>3. QED
      BY <3>1, <3>2 DEF Labels
  <2>4. receiver_io.file \in Files
    BY <2>3
  <2>5. /\ \A h \in receiving : \/ <<h, chunk[h]>> \in receive_timers
                               \/ h \in reapers \cup {receiver_io.file, receiver_main.file}
        /\ \A h \in receiving \cap cancelled :
               h \in reapers \/ Discarding(receiver_io, h) \/ Discarding(receiver_main, h)
    BY DEF WatchInv, ReceivingWatched, CancelledWatched
  <2>6. /\ \A h \in receiving' : \/ <<h, chunk'[h]>> \in receive_timers'
                                \/ h \in reapers' \cup {receiver_io'.file, receiver_main.file}
        /\ \A h \in receiving' \cap cancelled' :
               h \in reapers' \/ Discarding(receiver_io', h) \/ Discarding(receiver_main, h)
    BY <2>1, <2>3, <2>4, <2>5, CancelWatched
  <2>7. ReceivingWatched' /\ CancelledWatched'
    BY <2>1, <2>6 DEF ReceivingWatched, CancelledWatched, Discarding
  <2>8. QED
    BY <2>1, <2>2, <2>7, SenderUnwatched DEF WatchInv, ChunkInHand
<1>8. QED
  BY <1>1, <1>2, <1>3, <1>4, <1>5, <1>6, <1>7 DEF ReceiverFileThread

\* Every step keeps both tables watched.
LEMMA WatchStep == ASSUME TypeOK, WatchInv, [Next]_vars PROVE WatchInv'
<1>1. ASSUME Disconnect \/ UNCHANGED vars PROVE WatchInv'
  <2>1. UNCHANGED <<senderVars, watchVars>>
    BY <1>1 DEF Disconnect, vars, receiverVars, tableVars, watchVars
  <2>2. QED
    BY <2>1, SenderUnwatched
       DEF WatchInv, ReceivingWatched, CancelledWatched, ChunkInHand, Discarding, watchVars
<1>2. ASSUME CleanupSender PROVE WatchInv'
  <2>1. sending' = {} /\ UNCHANGED receiverVars
    BY <1>2 DEF CleanupSender
  <2>2. QED
    BY <2>1 DEF WatchInv, SendingWatched, ReceivingWatched, CancelledWatched, ChunkInHand,
                Discarding, receiverVars, tableVars
<1>3. ASSUME CleanupReceiver PROVE WatchInv'
  <2>1. receiving' = {} /\ UNCHANGED <<senderVars, chunk, receiver_io>>
    BY <1>3 DEF CleanupReceiver
  <2>2. QED
    BY <2>1, SenderUnwatched
       DEF WatchInv, ReceivingWatched, CancelledWatched, ChunkInHand
<1>4. QED
  BY <1>1, <1>2, <1>3, SenderStepWatched, ReceiverMainWatched, FileThreadWatched DEF Next, Cleanups

\* No entry of the tables of either end is ever without its timer or a thread
\* that is dealing with it, whatever is cancelled, late or lost.
THEOREM WatchedHolds == Spec => []Watched
<1>1. Init => WatchInv
  BY IdleFields DEF Init, WatchInv, SendingWatched, ReceivingWatched, CancelledWatched, ChunkInHand
<1>2. TypeOK /\ WatchInv /\ [Next]_vars => WatchInv'
  BY WatchStep
<1>3. WatchInv => Watched
  BY DEF WatchInv, Watched
<1>4. QED
  BY <1>1, <1>2, <1>3, TypeCorrect, PTL DEF Spec

-----------------------------------------------------------------------------
(***************************************************************************)
(* What becomes of one file.  The proofs below follow a single transfer:   *)
(* its token, which is the one message, positive acknowledgement or chunk  *)
(* in the hands of a thread that lets it go on; the tables it is in; the   *)
(* descriptor and the name it has; and the chunks stored for it.  All of   *)
(* it is one invariant, FileInv, of every file; a step concerns one file,  *)
(* and the others stay Aloof.                                              *)
(***************************************************************************)
Held(s) == {s[i] : i \in DOMAIN s}
AtMostOne(s, S) == \A i, j \in DOMAIN s : s[i] \in S /\ s[j] \in S => i = j

\* The messages of a file on their way, and those that acknowledge a chunk.
Sent(f) == {m \in Held(to_receiver) : m.file = f}
Confirmed(f) == {m \in Held(to_sender) : m.file = f /\ m.ok}

\* The four places of the token.
OnWay(f) == Sent(f) # {}
Acked(f) == Confirmed(f) # {}
Carving(f) == sender_io.file = f /\ sender_io.at = "carve"
Doing(f, labels) == receiver_io.file = f /\ receiver_io.at \in labels
Writing(f) == Doing(f, {"write"})

NoToken(f) == ~OnWay(f) /\ ~Acked(f) /\ ~Carving(f) /\ ~Writing(f)

OneToken(f) ==
    /\ AtMostOne(to_receiver, Sent(f)) /\ AtMostOne(to_sender, Confirmed(f))
    /\ OnWay(f) => ~Acked(f) /\ ~Carving(f) /\ ~Writing(f)
    /\ Acked(f) => ~Carving(f) /\ ~Writing(f)
    /\ Carving(f) => ~Writing(f)

\* The receiver has nothing of a file that is yet to be announced to it.
Unreceived(f) ==
    /\ f \notin receiving /\ f \notin cancelled /\ f \notin reapers /\ f \notin Completed
    /\ receiver_main.file # f /\ receiver_io.file # f
    /\ \A t \in receive_timers : t[1] # f
    /\ \A k \in Slots : handles[k] # f /\ disk[k] # f
    /\ crossed \/ content[f] = <<>>

Refused(f) == <<f, "refused">> \in reports
Unsent(f) == f \notin offered \/ f \in pending \/ f \in approved \/ Refused(f)

\* A transfer starts once, from the main loop or with the user's approval.
Starts(f) ==
    /\ f \in pending => f \in offered /\ f \notin approved
    /\ f \in approved => f \in offered
    /\ Refused(f) => f \in offered /\ f \notin pending /\ f \notin approved
    /\ Unsent(f) =>
         /\ NoToken(f) /\ Unreceived(f)
         /\ f \notin sending /\ <<f, "done">> \notin reports /\ sent_chunk[f] = 0
    /\ \A m \in Sent(f) : m.kind = "send" => Unreceived(f)

\* The user is asked once, and before anything else happens.
AskedOnce(f) ==
    /\ f \notin offered =>
         f \notin asked /\ f \notin accepted /\ \A yes \in BOOLEAN : <<f, yes>> \notin answers
    /\ f \in asked =>
         /\ up /\ f \notin accepted /\ \A yes \in BOOLEAN : <<f, yes>> \notin answers
         /\ f \in pending \/ Refused(f)

\* What the tables and the threads of the receiver have in common.
Opened(f) == fd[f] \in Slots /\ name[f] \in Slots
Tabled(f) ==
    /\ f \in receiving => chunks[f] > 0
    /\ f \in receiving \/ f \in cancelled \/ Doing(f, {"write", "written", "finish"}) => Opened(f)
    /\ Discarding(receiver_main, f) => f \in cancelled /\ ~Discarding(receiver_io, f)
    /\ Discarding(receiver_io, f) => f \in cancelled
    /\ f \in reapers => f \in cancelled /\ ~Discarding(receiver_main, f) /\ ~Discarding(receiver_io, f)
    /\ f \in Completed => f \notin receiving /\ ~Doing(f, {"write", "written", "finish"})

\* An open descriptor, or a name that is taken, has an owner that will free it.
Discarded(f) == Discarding(receiver_main, f) \/ Discarding(receiver_io, f)
Stored(f) ==
    \A k \in Slots :
        /\ handles[k] = f => fd[f] = k /\ f \in receiving /\ (f \notin cancelled \/ Discarded(f))
        /\ disk[k] = f =>
             /\ name[f] = k
             /\ (f \in receiving /\ f \notin cancelled) \/ f \in Completed \/ Discarded(f)

\* The chunk numbers of the two ends.
Counted(f) ==
    /\ sent_chunk[f] <= chunks[f]
    /\ Carving(f) => sender_io.chunk = sent_chunk[f] /\ sent_chunk[f] < chunks[f]
    /\ \A m \in Sent(f) : m.chunk = sent_chunk[f] /\ (m.kind = "send" => m.chunk = 0)
    /\ \A m \in Confirmed(f) : m.chunk = sent_chunk[f]
    /\ Doing(f, {"write", "written", "finish"}) => receiver_io.chunk <= chunks[f]
    /\ Writing(f) => receiver_io.chunk = sent_chunk[f] /\ receiver_io.chunk = chunk[f]

\* The chunks stored, as long as no descriptor was closed under its owner.
Filled(f, n) == Len(content[f]) = n
Written(f) ==
    /\ \A n \in DOMAIN content[f] : content[f][n] = <<f, n>>
    /\ f \in receiving /\ f \notin cancelled =>
         /\ handles[fd[f]] = f
         /\ Doing(f, {"write", "cancel"}) \/ Filled(f, chunk[f])
    /\ Writing(f) => handles[fd[f]] \in {f, Nobody} /\ Filled(f, receiver_io.chunk - 1)
    /\ \A m \in Confirmed(f) : Filled(f, m.chunk)
    /\ Doing(f, {"written", "finish"}) => Filled(f, receiver_io.chunk)
    /\ Doing(f, {"finish"}) => receiver_io.chunk = chunks[f]
    /\ f \in Completed => Filled(f, chunks[f])

\* Nothing of a transfer reported complete is under way any more.
Reported(f) ==
    chunks[f] > 0 /\ <<f, "done">> \in reports =>
        NoToken(f) /\ (crossed \/ Filled(f, chunks[f]))

FileInv(f) ==
    /\ OneToken(f) /\ Starts(f) /\ AskedOnce(f) /\ Tabled(f) /\ Stored(f) /\ Counted(f)
    /\ crossed \/ Written(f)
    /\ Reported(f)

FilesInv == \A f \in Files : FileInv(f)

-----------------------------------------------------------------------------
(***************************************************************************)
(* A step that does not concern file g.                                    *)
(***************************************************************************)
Thinned(s, S, t, T) == T \subseteq S /\ (AtMostOne(s, S) => AtMostOne(t, T))

AloofWire(g) ==
    /\ Thinned(to_receiver, Sent(g), to_receiver', Sent(g)')
    /\ Thinned(to_sender, Confirmed(g), to_sender', Confirmed(g)')

AloofSender(g) ==
    /\ sender_io'.file = g => sender_io' = sender_io
    /\ g \in sending' => g \in sending
    /\ g \in offered' <=> g \in offered
    /\ g \in pending' => g \in pending
    /\ g \in approved' => g \in approved
    /\ Refused(g)' <=> Refused(g)
    /\ <<g, "done">> \in reports' => <<g, "done">> \in reports
    /\ sent_chunk'[g] = sent_chunk[g] /\ chunks'[g] = chunks[g]

AloofUser(g) ==
    /\ g \in asked' => g \in asked /\ (up => up') /\ (g \in pending => g \in pending')
    /\ \A yes \in BOOLEAN : <<g, yes>> \in answers' => <<g, yes>> \in answers
    /\ g \in accepted' => g \in accepted

SameThread(pc, pcNext, g) == pc.file = g \/ pcNext.file = g => pcNext = pc

AloofTable(g) ==
    /\ SameThread(receiver_main, receiver_main', g) /\ SameThread(receiver_io, receiver_io', g)
    /\ g \in receiving' => g \in receiving
    /\ g \in cancelled' <=> g \in cancelled
    /\ g \in reapers' => g \in reapers
    /\ g \in Completed' <=> g \in Completed
    /\ chunk'[g] = chunk[g] /\ fd'[g] = fd[g] /\ name'[g] = name[g]
    /\ \A t \in receive_timers' : t[1] = g => t \in receive_timers

AloofStore(g) ==
    /\ \A k \in Slots : handles'[k] = g \/ disk'[k] = g => (g \in receiving <=> g \in receiving')
    /\ \A k \in Slots : (handles'[k] = g => handles[k] = g) /\ (disk'[k] = g => disk[k] = g)
    /\ crossed => crossed'
    /\ crossed' \/ /\ content'[g] = content[g]
                   /\ \A k \in Slots :
                        /\ handles[k] = g /\ g \in receiving' => handles'[k] = g
                        /\ handles[k] \in {g, Nobody} /\ Writing(g)' => handles'[k] \in {g, Nobody}

Aloof(g) == AloofWire(g) /\ AloofSender(g) /\ AloofUser(g) /\ AloofTable(g) /\ AloofStore(g)

\* A step aloof from a file keeps its token one ...
LEMMA AloofToken == ASSUME NEW g \in Files, OneToken(g), Aloof(g) PROVE OneToken(g)'
<1>1. /\ OnWay(g)' => OnWay(g)
      /\ Acked(g)' => Acked(g)
  BY DEF Aloof, AloofWire, Thinned, OnWay, Acked
<1>2. Carving(g)' => Carving(g)
  BY DEF Aloof, AloofSender, Carving
<1>3. Writing(g)' => Writing(g)
  BY DEF Aloof, AloofTable, SameThread, Writing, Doing
<1>4. AtMostOne(to_receiver', Sent(g)') /\ AtMostOne(to_sender', Confirmed(g)')
  BY DEF Aloof, AloofWire, Thinned, OneToken
<1>5. AtMostOne(to_receiver, Sent(g))' /\ AtMostOne(to_sender, Confirmed(g))'
  BY <1>4 DEF AtMostOne
<1> QED
  BY <1>1, <1>2, <1>3, <1>5 DEF OneToken

\* ... or none,
LEMMA AloofNoToken == ASSUME NEW g \in Files, NoToken(g), Aloof(g) PROVE NoToken(g)'
<1>1. ~OnWay(g)' /\ ~Acked(g)'
  BY DEF Aloof, AloofWire, Thinned, OnWay, Acked, NoToken
<1>2. ~Carving(g)'
  BY DEF Aloof, AloofSender, Carving, NoToken
<1>3. ~Writing(g)'
  BY DEF Aloof, AloofTable, SameThread, Writing, Doing, NoToken
<1> QED
  BY <1>1, <1>2, <1>3 DEF NoToken

\* ... unknown to the receiver,
LEMMA AloofUnreceived == ASSUME NEW g \in Files, Unreceived(g), AloofTable(g), AloofStore(g) PROVE Unreceived(g)'
<1>1. /\ g \notin receiving' /\ g \notin cancelled' /\ g \notin reapers' /\ g \notin Completed'
      /\ receiver_main'.file # g /\ receiver_io'.file # g
      /\ \A t \in receive_timers' : t[1] # g
  BY DEF Unreceived, AloofTable, SameThread
<1>2. /\ \A k \in Slots : handles'[k] # g /\ disk'[k] # g
      /\ crossed' \/ content'[g] = <<>>
  BY DEF Unreceived, AloofStore
<1>3. Slots' = Slots
  BY DEF Slots
<1> QED
  BY <1>1, <1>2, <1>3 DEF Unreceived

\* ... its start,
LEMMA AloofStarts == ASSUME NEW g \in Files, Starts(g), Aloof(g) PROVE Starts(g)'
<1>1. Unsent(g)' => Unsent(g)
  BY DEF Unsent, Aloof, AloofSender
<1>2. Unsent(g)' => NoToken(g)' /\ Unreceived(g)'
  BY <1>1, AloofNoToken, AloofUnreceived DEF Starts, Aloof
<1>3. \A m \in Sent(g)' : m.kind = "send" => Unreceived(g)'
  BY AloofUnreceived DEF Starts, Aloof, AloofWire, Thinned
<1> QED
  BY <1>1, <1>2, <1>3 DEF Starts, Aloof, AloofSender

\* ... the question to the user,
LEMMA AloofAsked == ASSUME NEW g \in Files, AskedOnce(g), AloofSender(g), AloofUser(g) PROVE AskedOnce(g)'
  BY DEF AskedOnce, AloofSender, AloofUser

\* ... its entries in the tables,
LEMMA AloofTabled ==
    ASSUME NEW g \in Files, Tabled(g), AloofTable(g), chunks'[g] = chunks[g]
    PROVE  Tabled(g)'
<1>1. /\ Discarding(receiver_main, g)' <=> Discarding(receiver_main, g)
      /\ Discarding(receiver_io, g)' <=> Discarding(receiver_io, g)
  BY DEF AloofTable, SameThread, Discarding
<1>2. Doing(g, {"write", "written", "finish"})' => Doing(g, {"write", "written", "finish"})
  BY DEF AloofTable, SameThread, Doing
<1>3. Opened(g)' <=> Opened(g)
  BY DEF AloofTable, Opened, Slots
<1> QED
  BY <1>1, <1>2, <1>3 DEF Tabled, AloofTable

\* ... the owners of its descriptor and name,
LEMMA AloofStored == ASSUME NEW g \in Files, Stored(g), AloofTable(g), AloofStore(g) PROVE Stored(g)'
<1>1. Discarded(g)' <=> Discarded(g)
  BY DEF AloofTable, SameThread, Discarding, Discarded
<1>2. Slots' = Slots
  BY DEF Slots
<1> QED
  BY <1>1, <1>2 DEF Stored, AloofTable, AloofStore

\* ... its chunk numbers,
LEMMA AloofCounted == ASSUME NEW g \in Files, Counted(g), Aloof(g) PROVE Counted(g)'
<1>1. Carving(g)' => Carving(g) /\ sender_io' = sender_io
  BY DEF Aloof, AloofSender, Carving
<1>2. /\ Doing(g, {"write", "written", "finish"})' =>
           Doing(g, {"write", "written", "finish"}) /\ receiver_io' = receiver_io
      /\ Writing(g)' => Writing(g) /\ receiver_io' = receiver_io
  BY DEF Aloof, AloofTable, SameThread, Doing, Writing
<1>3. Sent(g)' \subseteq Sent(g) /\ Confirmed(g)' \subseteq Confirmed(g)
  BY DEF Aloof, AloofWire, Thinned
<1>4. sent_chunk'[g] = sent_chunk[g] /\ chunks'[g] = chunks[g] /\ chunk'[g] = chunk[g]
  BY DEF Aloof, AloofSender, AloofTable
<1> QED
  BY <1>1, <1>2, <1>3, <1>4 DEF Counted

\* ... its content,
LEMMA AloofWritten ==
    ASSUME NEW g \in Files, Tabled(g), Written(g), ~crossed', AloofTable(g), AloofStore(g),
           Confirmed(g)' \subseteq Confirmed(g), chunks'[g] = chunks[g]
    PROVE  Written(g)'
<1>1. content'[g] = content[g] /\ (g \in receiving' => g \in receiving)
  BY DEF AloofStore, AloofTable
<1>2. \A n : Filled(g, n)' <=> Filled(g, n)
  BY <1>1 DEF Filled
<1>3. /\ Writing(g)' => Writing(g) /\ receiver_io' = receiver_io
      /\ Doing(g, {"write", "cancel"})' <=> Doing(g, {"write", "cancel"})
      /\ Doing(g, {"written", "finish"})' => Doing(g, {"written", "finish"}) /\ receiver_io' = receiver_io
      /\ Doing(g, {"finish"})' => Doing(g, {"finish"}) /\ receiver_io' = receiver_io
  BY DEF AloofTable, SameThread, Doing, Writing
<1>5. /\ fd'[g] = fd[g] /\ chunk'[g] = chunk[g] /\ chunks'[g] = chunks[g]
      /\ g \in cancelled' <=> g \in cancelled
      /\ g \in Completed' <=> g \in Completed
  BY DEF AloofTable
<1>6. ASSUME g \in receiving', g \notin cancelled'
      PROVE  /\ handles'[fd'[g]] = g
             /\ Doing(g, {"write", "cancel"})' \/ Filled(g, chunk[g])'
  <2>1. g \in receiving /\ g \notin cancelled /\ fd[g] \in Slots /\ handles[fd[g]] = g
    BY <1>1, <1>5, <1>6 DEF Tabled, Opened, Written
  <2>2. handles'[fd'[g]] = g
    BY <1>5, <1>6, <2>1 DEF AloofStore
  <2>3. Doing(g, {"write", "cancel"})' \/ Filled(g, chunk[g])'
    BY <1>2, <1>3, <1>5, <2>1 DEF Written, Filled
  <2> QED
    BY <2>2, <2>3
<1>7. ASSUME Writing(g)'
      PROVE  handles'[fd'[g]] \in {g, Nobody} /\ Filled(g, receiver_io.chunk - 1)'
  <2>1. Writing(g) /\ receiver_io' = receiver_io
    BY <1>3, <1>7
  <2>2. fd[g] \in Slots
    BY <2>1 DEF Tabled, Opened, Writing, Doing
  <2>3. handles[fd[g]] \in {g, Nobody} /\ Filled(g, receiver_io.chunk - 1)
    BY <2>1 DEF Written
  <2>4. handles'[fd'[g]] \in {g, Nobody}
    BY <1>5, <1>7, <2>2, <2>3 DEF AloofStore
  <2>5. Filled(g, receiver_io.chunk - 1)'
    BY <1>1, <2>1, <2>3 DEF Filled
  <2> QED
    BY <2>4, <2>5
<1>8. \A m \in Confirmed(g)' : Filled(g, m.chunk)'
  BY <1>1 DEF Written, Filled
<1>9. /\ Doing(g, {"written", "finish"})' => Filled(g, receiver_io.chunk)'
      /\ Doing(g, {"finish"})' => receiver_io'.chunk = chunks'[g]
      /\ g \in Completed' => Filled(g, chunks[g])'
  BY <1>1, <1>3, <1>5 DEF Written, Filled
<1>10. \A n \in DOMAIN content'[g] : content'[g][n] = <<g, n>>
  BY <1>1 DEF Written
<1> QED
  BY <1>6, <1>7, <1>8, <1>9, <1>10 DEF Written

\* ... and its report.
LEMMA AloofReported == ASSUME NEW g \in Files, Reported(g), Aloof(g) PROVE Reported(g)'
<1>1. SUFFICES ASSUME chunks'[g] > 0, <<g, "done">> \in reports'
               PROVE  NoToken(g)' /\ (crossed' \/ Filled(g, chunks[g])')
  BY DEF Reported
<1>2. NoToken(g) /\ (crossed \/ Filled(g, chunks[g]))
  BY <1>1 DEF Reported, Aloof, AloofSender
<1>3. crossed' \/ Filled(g, chunks[g])'
  BY <1>2 DEF Aloof, AloofSender, AloofStore, Filled
<1> QED
  BY <1>2, <1>3, AloofNoToken

\* What is true of a file stays true when a step does not concern it.
LEMMA AloofKeeps == ASSUME NEW g \in Files, FileInv(g), Aloof(g) PROVE FileInv(g)'
<1>1. chunks'[g] = chunks[g] /\ Confirmed(g)' \subseteq Confirmed(g)
  BY DEF Aloof, AloofSender, AloofWire, Thinned
<1>2. crossed' \/ Written(g)'
  BY <1>1, AloofWritten DEF FileInv, Aloof, AloofStore
<1>3. Tabled(g)' /\ Stored(g)' /\ AskedOnce(g)'
  BY <1>1, AloofTabled, AloofStored, AloofAsked DEF FileInv, Aloof
<1> QED
  BY <1>2, <1>3, AloofToken, AloofStarts, AloofCounted, AloofReported DEF FileInv

-----------------------------------------------------------------------------
(***************************************************************************)
(* What send() and the reading of a message do to the channels.            *)
(***************************************************************************)
\* A channel that is left alone is thinned.
LEMMA ThinnedSame == ASSUME NEW s, NEW S PROVE Thinned(s, S, s, S)
  BY DEF Thinned

\* What a channel holds once a message was added.
LEMMA Appended ==
    ASSUME NEW M, NEW s \in Seq(M), NEW m \in M
    PROVE  /\ Held(Append(s, m)) = Held(s) \cup {m}
           /\ DOMAIN Append(s, m) = 1..(Len(s) + 1) /\ DOMAIN s = 1..Len(s) /\ Len(s) \in Nat
           /\ \A i \in DOMAIN s : Append(s, m)[i] = s[i]
           /\ Append(s, m)[Len(s) + 1] = m
<1>1. /\ DOMAIN Append(s, m) = 1..(Len(s) + 1) /\ DOMAIN s = 1..Len(s) /\ Len(s) \in Nat
      /\ \A i \in DOMAIN s : Append(s, m)[i] = s[i]
      /\ Append(s, m)[Len(s) + 1] = m
  OBVIOUS
<1>2. Held(Append(s, m)) \subseteq Held(s) \cup {m}
  BY <1>1 DEF Held
<1>3. Held(s) \cup {m} \subseteq Held(Append(s, m))
  <2>1. Len(s) + 1 \in DOMAIN Append(s, m) /\ DOMAIN s \subseteq DOMAIN Append(s, m)
    BY <1>1
  <2> QED
    BY <1>1, <2>1 DEF Held
<1> QED
  BY <1>1, <1>2, <1>3

\* A message that does not count, and the only one that does.
LEMMA AppendedOne ==
    ASSUME NEW M, NEW s \in Seq(M), NEW m \in M, NEW S, NEW T
    PROVE  /\ AtMostOne(s, S) /\ T \subseteq S /\ m \notin T => AtMostOne(Append(s, m), T)
           /\ T \cap Held(s) = {} => AtMostOne(Append(s, m), T)
<1>1. \A i \in DOMAIN Append(s, m) : i \in DOMAIN s \/ i = Len(s) + 1
  BY Appended
<1>2. ASSUME AtMostOne(s, S), T \subseteq S, m \notin T PROVE AtMostOne(Append(s, m), T)
  <2>1. ASSUME NEW i \in DOMAIN Append(s, m), Append(s, m)[i] \in T
        PROVE  i \in DOMAIN s /\ s[i] \in S
    BY <1>1, <1>2, <2>1, Appended
  <2> QED
    BY <1>2, <2>1 DEF AtMostOne
<1>3. ASSUME T \cap Held(s) = {} PROVE AtMostOne(Append(s, m), T)
  <2>1. ASSUME NEW i \in DOMAIN Append(s, m), Append(s, m)[i] \in T
        PROVE  i = Len(s) + 1
    BY <1>1, <1>3, <2>1, Appended DEF Held
  <2> QED
    BY <2>1 DEF AtMostOne
<1> QED
  BY <1>2, <1>3

\* What it holds once the first message was taken.
LEMMA Removed ==
    ASSUME NEW M, NEW s \in Seq(M), s # <<>>
    PROVE  /\ Held(Tail(s)) \subseteq Held(s) /\ Head(s) \in Held(s)
           /\ \A S, T : T \subseteq S => Thinned(s, S, Tail(s), T)
           /\ \A S : Head(s) \in S /\ AtMostOne(s, S) => Held(Tail(s)) \cap S = {}
<1>1. /\ Tail(s) \in Seq(M) /\ Len(Tail(s)) = Len(s) - 1 /\ Len(s) \in Nat \ {0}
      /\ DOMAIN s = 1..Len(s) /\ DOMAIN Tail(s) = 1..(Len(s) - 1)
      /\ \A i \in DOMAIN Tail(s) : Tail(s)[i] = s[i + 1] /\ i + 1 \in DOMAIN s
      /\ Head(s) = s[1] /\ 1 \in DOMAIN s
  OBVIOUS
<1>2. Held(Tail(s)) \subseteq Held(s) /\ Head(s) \in Held(s)
  BY <1>1 DEF Held
<1>3. ASSUME NEW S, NEW T, T \subseteq S PROVE Thinned(s, S, Tail(s), T)
  <2>1. ASSUME AtMostOne(s, S), NEW i \in DOMAIN Tail(s), NEW j \in DOMAIN Tail(s),
               Tail(s)[i] \in T, Tail(s)[j] \in T
        PROVE  i = j
    <3>1. i + 1 = j + 1
      BY <1>1, <1>3, <2>1 DEF AtMostOne
    <3>2. i \in Int /\ j \in Int
      BY <1>1
    <3> QED
      BY <3>1, <3>2
  <2> QED
    BY <1>3, <2>1 DEF Thinned, AtMostOne
<1>4. ASSUME NEW S, Head(s) \in S, AtMostOne(s, S), NEW m \in Held(Tail(s)) \cap S PROVE FALSE
  <2>1. PICK i \in DOMAIN Tail(s) : Tail(s)[i] = m
    BY <1>4 DEF Held
  <2>2. i + 1 = 1
    BY <1>1, <1>4, <2>1 DEF AtMostOne
  <2> QED
    BY <1>1, <2>2
<1> QED
  BY <1>2, <1>3, <1>4

\* What it holds once the last messages were lost.
LEMMA Shortened ==
    ASSUME NEW M, NEW s \in Seq(M), NEW n \in 0..Len(s)
    PROVE  /\ Held(SubSeq(s, 1, n)) \subseteq Held(s)
           /\ \A S, T : T \subseteq S => Thinned(s, S, SubSeq(s, 1, n), T)
<1>1. /\ DOMAIN SubSeq(s, 1, n) = 1..n /\ DOMAIN s = 1..Len(s)
      /\ \A i \in DOMAIN SubSeq(s, 1, n) : SubSeq(s, 1, n)[i] = s[i] /\ i \in DOMAIN s
  OBVIOUS
<1>2. Held(SubSeq(s, 1, n)) \subseteq Held(s)
  BY <1>1 DEF Held
<1>3. ASSUME NEW S, NEW T, T \subseteq S PROVE Thinned(s, S, SubSeq(s, 1, n), T)
  BY <1>1, <1>3 DEF Thinned, AtMostOne
<1> QED
  BY <1>2, <1>3

\* send() of a message of another file, or of the only one of its file.
LEMMA Transmits ==
    ASSUME to_receiver \in Seq(Announcement), NEW m \in Announcement, Transmit(m)
    PROVE  /\ \A g \in Files : g # m.file => Thinned(to_receiver, Sent(g), to_receiver', Sent(g)')
           /\ Sent(m.file) = {} => Sent(m.file)' \subseteq {m} /\ AtMostOne(to_receiver, Sent(m.file))'
<1>1. CASE ~up
  <2>1. to_receiver' = to_receiver
    BY <1>1 DEF Transmit
  <2>2. \A g : Sent(g)' = Sent(g)
    BY <2>1 DEF Sent
  <2>3. Sent(m.file) = {} => AtMostOne(to_receiver, Sent(m.file))'
    BY <2>1, <2>2 DEF AtMostOne
  <2> QED
    BY <2>1, <2>2, <2>3, ThinnedSame
<1>2. CASE up
  <2>1. to_receiver' = Append(to_receiver, m)
    BY <1>2 DEF Transmit
  <2>2. Held(to_receiver') = Held(to_receiver) \cup {m}
    BY <2>1, Appended
  <2>3. ASSUME NEW g \in Files, g # m.file
        PROVE  Thinned(to_receiver, Sent(g), to_receiver', Sent(g)')
    <3>1. Sent(g)' \subseteq Sent(g) /\ m \notin Sent(g)'
      BY <2>2, <2>3 DEF Sent
    <3> QED
      BY <2>1, <3>1, AppendedOne DEF Thinned
  <2>4. ASSUME Sent(m.file) = {}
        PROVE  Sent(m.file)' \subseteq {m} /\ AtMostOne(to_receiver, Sent(m.file))'
    <3>1. Sent(m.file)' \subseteq {m} /\ Sent(m.file)' \cap Held(to_receiver) = {}
      BY <2>2, <2>4 DEF Sent
    <3>2. AtMostOne(to_receiver', Sent(m.file)')
      BY <2>1, <3>1, AppendedOne
    <3> QED
      BY <3>1, <3>2 DEF AtMostOne
  <2> QED
    BY <2>3, <2>4
<1> QED
  BY <1>1, <1>2

Ack(f, ok, n) == [file |-> f, ok |-> ok, chunk |-> n]

\* The same for acknowledgements; a refusal is not counted.
LEMMA Replies ==
    ASSUME to_sender \in Seq(Acknowledgement),
           NEW f \in Files, NEW ok \in BOOLEAN, NEW n \in Nat, Reply(f, ok, n)
    PROVE  /\ \A g \in Files : g # f \/ ~ok => Thinned(to_sender, Confirmed(g), to_sender', Confirmed(g)')
           /\ Confirmed(f) = {} =>
                Confirmed(f)' \subseteq {Ack(f, ok, n)} /\ AtMostOne(to_sender, Confirmed(f))'
<1> DEFINE m == Ack(f, ok, n)
<1>0. m \in Acknowledgement /\ m.file = f /\ m.ok = ok
  BY DEF Ack, Acknowledgement
<1>1. CASE ~up
  <2>1. to_sender' = to_sender
    BY <1>1 DEF Reply
  <2>2. \A g : Confirmed(g)' = Confirmed(g)
    BY <2>1 DEF Confirmed
  <2>3. Confirmed(f) = {} => AtMostOne(to_sender, Confirmed(f))'
    BY <2>1, <2>2 DEF AtMostOne
  <2> QED
    BY <2>1, <2>2, <2>3, ThinnedSame
<1>2. CASE up
  <2>1. to_sender' = Append(to_sender, m)
    BY <1>2 DEF Reply, Ack
  <2> HIDE DEF m
  <2>2. Held(to_sender') = Held(to_sender) \cup {m}
    BY <1>0, <2>1, Appended
  <2>3. ASSUME NEW g \in Files, g # f \/ ~ok
        PROVE  Thinned(to_sender, Confirmed(g), to_sender', Confirmed(g)')
    <3>1. Confirmed(g)' \subseteq Confirmed(g) /\ m \notin Confirmed(g)'
      BY <1>0, <2>2, <2>3 DEF Confirmed
    <3> QED
      BY <1>0, <2>1, <3>1, AppendedOne DEF Thinned
  <2>4. ASSUME Confirmed(f) = {}
        PROVE  Confirmed(f)' \subseteq {m} /\ AtMostOne(to_sender, Confirmed(f))'
    <3>1. Confirmed(f)' \subseteq {m} /\ Confirmed(f)' \cap Held(to_sender) = {}
      BY <1>0, <2>2, <2>4 DEF Confirmed
    <3>2. AtMostOne(to_sender', Confirmed(f)')
      BY <1>0, <2>1, <3>1, AppendedOne
    <3> QED
      BY <3>1, <3>2 DEF AtMostOne
  <2> QED
    BY <2>3, <2>4 DEF m
<1> QED
  BY <1>1, <1>2

\* The first message is taken off a channel.
LEMMA Takes ==
    ASSUME to_receiver \in Seq(Announcement), to_receiver # <<>>, to_receiver' = Tail(to_receiver),
           NEW f, f = Head(to_receiver).file
    PROVE  /\ \A g \in Files : Thinned(to_receiver, Sent(g), to_receiver', Sent(g)')
           /\ Head(to_receiver) \in Sent(f)
           /\ AtMostOne(to_receiver, Sent(f)) => Sent(f)' = {}
<1>1. \A g : Sent(g)' \subseteq Sent(g) /\ Sent(g)' \subseteq Held(to_receiver')
  BY Removed DEF Sent
<1>2. Head(to_receiver) \in Sent(f)
  BY Removed DEF Sent
<1>3. AtMostOne(to_receiver, Sent(f)) => Held(to_receiver') \cap Sent(f) = {}
  BY <1>2, Removed
<1>4. \A g \in Files : Thinned(to_receiver, Sent(g), to_receiver', Sent(g)')
  BY <1>1, Removed
<1> QED
  BY <1>1, <1>2, <1>3, <1>4

\* The sender takes an acknowledgement: the token of that file leaves the channel.
LEMMA TakesAck ==
    ASSUME to_sender \in Seq(Acknowledgement), to_sender # <<>>, to_sender' = Tail(to_sender),
           NEW f, f = Head(to_sender).file
    PROVE  /\ \A g \in Files : Thinned(to_sender, Confirmed(g), to_sender', Confirmed(g)')
           /\ Head(to_sender).ok =>
                /\ Head(to_sender) \in Confirmed(f)
                /\ AtMostOne(to_sender, Confirmed(f)) => Confirmed(f)' = {}
<1>1. \A g : Confirmed(g)' \subseteq Confirmed(g) /\ Confirmed(g)' \subseteq Held(to_sender')
  BY Removed DEF Confirmed
<1>2. ASSUME Head(to_sender).ok PROVE Head(to_sender) \in Confirmed(f)
  BY <1>2, Removed DEF Confirmed
<1>3. ASSUME Head(to_sender).ok, AtMostOne(to_sender, Confirmed(f))
      PROVE  Held(to_sender') \cap Confirmed(f) = {}
  BY <1>2, <1>3, Removed
<1>4. \A g \in Files : Thinned(to_sender, Confirmed(g), to_sender', Confirmed(g)')
  BY <1>1, Removed
<1> QED
  BY <1>1, <1>2, <1>3, <1>4

\* Frames for the steps of one end, and for a channel that is left alone.
LEMMA SameSent == ASSUME UNCHANGED to_receiver, NEW g
                  PROVE  Sent(g)' = Sent(g) /\ Thinned(to_receiver, Sent(g), to_receiver', Sent(g)')
<1>1. Sent(g)' = Sent(g)
  BY DEF Sent
<1> QED
  BY <1>1, ThinnedSame

\* The acknowledgements are left alone.
LEMMA SameConfirmed == ASSUME UNCHANGED to_sender, NEW g
                       PROVE  /\ Confirmed(g)' = Confirmed(g)
                              /\ Thinned(to_sender, Confirmed(g), to_sender', Confirmed(g)')
<1>1. Confirmed(g)' = Confirmed(g)
  BY DEF Confirmed
<1> QED
  BY <1>1, ThinnedSame

\* A step that leaves the sender alone is aloof there.
LEMMA SenderAloof == ASSUME UNCHANGED senderVars, NEW g PROVE AloofSender(g)
  BY DEF AloofSender, senderVars, Refused

\* The same for descriptors, names and content.
LEMMA StoreAloof ==
    ASSUME UNCHANGED <<storeVars, receiving>>, NEW g
    PROVE  AloofStore(g)
  BY DEF AloofStore, storeVars

\* The same for all of the receiver.
LEMMA ReceiverAloof ==
    ASSUME UNCHANGED receiverVars, NEW g
    PROVE  AloofTable(g) /\ AloofStore(g)
<1>1. UNCHANGED <<tableVars, storeVars, receiver_main, receiver_io>>
  BY DEF receiverVars
<1>2. AloofTable(g)
  BY <1>1 DEF AloofTable, SameThread, tableVars, storeVars, Completed
<1>3. UNCHANGED <<storeVars, receiving>>
  BY <1>1 DEF tableVars
<1> QED
  BY <1>2, <1>3, StoreAloof

-----------------------------------------------------------------------------
(***************************************************************************)
(* The steps of the sender.                                                *)
(***************************************************************************)
\* A file that was not sent is announced.
LEMMA SendsFile ==
    ASSUME TypeOK, FilesInv, NEW f \in Files, Unsent(f), ~Refused(f), f \notin asked, do_send_file(f),
           f \in offered', f \notin pending', f \notin approved',
           \A g \in Files : g # f => /\ g \in offered' <=> g \in offered
                                     /\ g \in pending' <=> g \in pending
                                     /\ g \in approved' <=> g \in approved,
           UNCHANGED <<up, asked, answers, to_sender, chunks, sender_io, receiverVars>>
    PROVE  FilesInv'
<1> DEFINE m == [kind |-> "send", file |-> f, chunk |-> 0]
<1>f. /\ FileInv(f) /\ NoToken(f) /\ Unreceived(f)
      /\ sent_chunk[f] = 0 /\ <<f, "done">> \notin reports
  BY DEF FilesInv, FileInv, Starts
<1>1. m \in Announcement /\ m.file = f /\ m.kind = "send" /\ m.chunk = 0
  BY DEF Announcement
<1>2. /\ Transmit(m) \/ UNCHANGED to_receiver
      /\ sending' \subseteq sending \cup {f}
      /\ sent_chunk'[f] = 0 /\ \A g \in Files : g # f => sent_chunk'[g] = sent_chunk[g]
      /\ reports' = reports \/ (chunks[f] = 0 /\ reports' = reports \cup {<<f, "done">>})
  <2>1. CASE chunks[f] = 0
    BY <1>f, <2>1 DEF do_send_file
  <2>2. CASE chunks[f] # 0 /\ Cardinality(sending) < MaxConcurrent
    BY <1>f, <2>2 DEF do_send_file, TypeOK, SenderTypeOK
  <2>3. CASE chunks[f] # 0 /\ ~(Cardinality(sending) < MaxConcurrent)
    BY <1>f, <2>3 DEF do_send_file
  <2> QED
    BY <2>1, <2>2, <2>3
<1>3. /\ \A g : Refused(g)' <=> Refused(g)
      /\ \A g : g # f => (<<g, "done">> \in reports' <=> <<g, "done">> \in reports)
      /\ <<f, "done">> \in reports' => chunks[f] = 0
  BY <1>f, <1>2 DEF Refused
<1>4. /\ \A g \in Files : g # f => Thinned(to_receiver, Sent(g), to_receiver', Sent(g)')
      /\ Sent(f)' \subseteq {m} /\ AtMostOne(to_receiver, Sent(f))'
  <2>1. Sent(f) = {}
    BY <1>f DEF NoToken, OnWay
  <2>2. CASE Transmit(m)
    BY <1>1, <2>1, <2>2, Transmits DEF TypeOK
  <2>3. CASE UNCHANGED to_receiver
    <3>1. Sent(f)' = {}
      BY <2>1, <2>3, SameSent
    <3> QED
      BY <2>3, <3>1, SameSent DEF AtMostOne
  <2> QED
    BY <1>2, <2>2, <2>3
<1>5. \A g : AloofTable(g) /\ AloofStore(g)
  BY ReceiverAloof
<1>6. \A g : Confirmed(g)' = Confirmed(g) /\ Thinned(to_sender, Confirmed(g), to_sender', Confirmed(g)')
  BY SameConfirmed
<1>a. UNCHANGED accepted
  BY DEF receiverVars, tableVars
<1>7. ASSUME NEW g \in Files, g # f PROVE FileInv(g)'
  <2>1. AloofWire(g)
    BY <1>4, <1>6, <1>7 DEF AloofWire
  <2>2. AloofSender(g)
    BY <1>2, <1>3, <1>7 DEF AloofSender
  <2>3. AloofUser(g)
    BY <1>7, <1>a DEF AloofUser
  <2> QED
    BY <1>5, <2>1, <2>2, <2>3, AloofKeeps DEF Aloof, FilesInv
<1>8. FileInv(f)'
  <2>1. ~Acked(f)' /\ ~Carving(f)' /\ ~Writing(f)'
    <3>1. ~Acked(f)' /\ ~Carving(f)'
      BY <1>f, <1>6 DEF NoToken, Acked, Carving
    <3>2. UNCHANGED receiver_io
      BY DEF receiverVars
    <3> QED
      BY <1>f, <3>1, <3>2 DEF NoToken, Writing, Doing
  <2>2. OneToken(f)'
    <3>1. AtMostOne(to_sender, Confirmed(f))'
      BY <2>1 DEF Acked, AtMostOne
    <3> QED
      BY <1>4, <2>1, <3>1 DEF OneToken
  <2>3. Unreceived(f)'
    BY <1>5, <1>f, AloofUnreceived
  <2>4. Starts(f)'
    BY <1>3, <2>3 DEF Starts, Unsent
  <2>5. AskedOnce(f)'
    BY DEF AskedOnce
  <2>6. Tabled(f)' /\ Stored(f)'
    BY <1>5, <1>f, AloofTabled, AloofStored DEF FileInv
  <2>7. Counted(f)'
    <3>1. sent_chunk'[f] = 0 /\ sent_chunk'[f] <= chunks'[f] /\ chunks'[f] = chunks[f]
      BY <1>2 DEF TypeOK, SenderTypeOK
    <3>2. \A x \in Sent(f)' : x.chunk = 0
      BY <1>1, <1>4
    <3>3. Confirmed(f)' = {}
      BY <2>1 DEF Acked
    <3>4. Doing(f, {"write", "written", "finish"})' => receiver_io'.chunk <= chunks'[f]
      BY <1>f DEF FileInv, Counted, Doing, receiverVars
    <3> QED
      BY <2>1, <3>1, <3>2, <3>3, <3>4 DEF Counted
  <2>8. crossed' \/ Written(f)'
    <3>1. crossed' = crossed
      BY DEF receiverVars, storeVars
    <3> QED
      BY <1>5, <1>6, <1>f, <3>1, AloofWritten DEF FileInv
  <2>9. Reported(f)'
    BY <1>3 DEF Reported
  <2> QED
    BY <2>2, <2>4, <2>5, <2>6, <2>7, <2>8, <2>9 DEF FileInv
<1> QED
  BY <1>7, <1>8 DEF FilesInv

\* What only concerns the way to the approval of file f.
LEMMA Negotiates ==
    ASSUME TypeOK, FilesInv, NEW f \in Files, Starts(f)', AskedOnce(f)',
           UNCHANGED <<to_receiver, to_sender, chunks, sending, sent_chunk, sender_io, tableVars, storeVars,
                       receiver_main, receiver_io, up>>
               \/ UNCHANGED <<to_receiver, to_sender, senderVars, receiving, cancelled, chunk, fd, name,
                              receive_timers, reapers, storeVars, receiver_main, receiver_io, up>>,
           \A g \in Files : g # f => AloofSender(g) /\ AloofUser(g),
           <<f, "done">> \in reports' => <<f, "done">> \in reports
    PROVE  FilesInv'
<1>1. UNCHANGED <<to_receiver, to_sender, chunks, sent_chunk, sender_io, storeVars, receiving, cancelled,
                  chunk, fd, name, receive_timers, reapers, receiver_main, receiver_io>>
  BY DEF tableVars, senderVars
<1>2. \A g : AloofTable(g) /\ AloofStore(g)
  <2>1. \A g : AloofTable(g)
    BY <1>1 DEF AloofTable, SameThread, storeVars, Completed
  <2> QED
    BY <1>1, <2>1, StoreAloof
<1>3. \A g : AloofWire(g) /\ Sent(g)' = Sent(g) /\ Confirmed(g)' = Confirmed(g)
  BY <1>1, SameSent, SameConfirmed DEF AloofWire
<1>4. ASSUME NEW g \in Files, g # f PROVE FileInv(g)'
  BY <1>2, <1>3, <1>4, AloofKeeps DEF Aloof, FilesInv
<1>5. FileInv(f)'
  <2>1. FileInv(f)
    BY DEF FilesInv
  <2>2. Tabled(f)' /\ Stored(f)'
    BY <1>1, <1>2, <2>1, AloofTabled, AloofStored DEF FileInv
  <2>3. crossed' \/ Written(f)'
    <3>1. crossed' = crossed
      BY <1>1 DEF storeVars
    <3> QED
      BY <1>1, <1>2, <1>3, <2>1, <3>1, AloofWritten DEF FileInv
  <2>4. /\ OnWay(f)' <=> OnWay(f)
        /\ Acked(f)' <=> Acked(f)
        /\ Carving(f)' <=> Carving(f)
        /\ Writing(f)' <=> Writing(f)
    BY <1>1, <1>3 DEF OnWay, Acked, Carving, Writing, Doing
  <2>5. OneToken(f)'
    BY <1>1, <1>3, <2>1, <2>4 DEF FileInv, OneToken, AtMostOne
  <2>6. Counted(f)'
    BY <1>1, <1>3, <2>1, <2>4 DEF FileInv, Counted, Doing
  <2>7. Reported(f)'
    BY <1>1, <2>1, <2>4 DEF FileInv, Reported, NoToken, Filled, storeVars
  <2> QED
    BY <2>2, <2>3, <2>5, <2>6, <2>7 DEF FileInv
<1> QED
  BY <1>4, <1>5 DEF FilesInv

\* For the frames of those steps.
LEMMA StillUnsent ==
    ASSUME NEW f \in Files, FileInv(f), Unsent(f),
           UNCHANGED <<to_receiver, to_sender, sender_io, storeVars, receiving, cancelled, reapers,
                       receive_timers, receiver_main, receiver_io>>
    PROVE  NoToken(f)' /\ Unreceived(f)'
<1>1. NoToken(f) /\ Unreceived(f)
  BY DEF FileInv, Starts
<1>2. Sent(f)' = Sent(f) /\ Confirmed(f)' = Confirmed(f)
  BY SameSent, SameConfirmed
<1>3. NoToken(f)'
  BY <1>1, <1>2 DEF NoToken, OnWay, Acked, Carving, Writing, Doing
<1>4. Unreceived(f)'
  BY <1>1 DEF Unreceived, storeVars, Completed, Slots
<1> QED
  BY <1>3, <1>4

\* An acknowledgement: the next chunk, the end of the transfer, or neither.
LEMMA AckFiles == ASSUME TypeOK, FilesInv, AckChunk PROVE FilesInv'
<1>1. PICK f \in Files : f = Head(to_sender).file
  BY HeadOfSender DEF AckChunk, TypeOK
<1>2. PICK n \in Nat : n = Head(to_sender).chunk
  BY HeadOfSender DEF AckChunk, TypeOK
<1> DEFINE ok == Head(to_sender).ok
<1>3. /\ to_sender # <<>> /\ to_sender' = Tail(to_sender) /\ sender_io = Idle
      /\ UNCHANGED <<linkVars, to_receiver, chunks, offered, pending, approved, sent_chunk, receiverVars>>
      /\ sending' \subseteq sending
      /\ \/ /\ ok /\ sent_chunk[f] = n /\ sent_chunk[f] # chunks[f] /\ f \in sending
            /\ sender_io' = At("carve", f, n) /\ UNCHANGED reports
         \/ /\ ok /\ sent_chunk[f] = n /\ sent_chunk[f] = chunks[f] /\ f \in sending
            /\ reports' = reports \cup {<<f, "done">>} /\ UNCHANGED sender_io
         \/ UNCHANGED <<reports, sender_io>>
  BY <1>1, <1>2 DEF AckChunk, AllSent, cancel_sending
<1>4. /\ \A g \in Files : Thinned(to_sender, Confirmed(g), to_sender', Confirmed(g)')
      /\ ok => Head(to_sender) \in Confirmed(f) /\ (AtMostOne(to_sender, Confirmed(f)) => Confirmed(f)' = {})
  BY <1>1, <1>3, TakesAck DEF TypeOK
<1>5. \A g : AloofTable(g) /\ AloofStore(g)
  BY <1>3, ReceiverAloof
<1>6. \A g \in Files : AloofWire(g) /\ Sent(g)' = Sent(g)
  BY <1>3, <1>4, SameSent DEF AloofWire
<1>7. \A g \in Files : AloofUser(g)
  BY <1>3 DEF AloofUser, linkVars, receiverVars, tableVars
<1>8. \A g : Refused(g)' <=> Refused(g)
  BY <1>3 DEF Refused
<1>9. ASSUME NEW g \in Files, g # f \/ UNCHANGED <<reports, sender_io>> PROVE FileInv(g)'
  <2>1. sender_io'.file = g => sender_io' = sender_io
    BY <1>3, <1>9 DEF At
  <2>2. AloofSender(g)
    BY <1>3, <1>8, <1>9, <2>1 DEF AloofSender
  <2> QED
    BY <1>5, <1>6, <1>7, <2>2, AloofKeeps DEF Aloof, FilesInv
<1>10. ASSUME ok, sent_chunk[f] = n, f \in sending,
              \/ /\ sent_chunk[f] # chunks[f] /\ sender_io' = At("carve", f, n) /\ UNCHANGED reports
              \/ /\ sent_chunk[f] = chunks[f] /\ reports' = reports \cup {<<f, "done">>}
                 /\ UNCHANGED sender_io
       PROVE  FileInv(f)'
  <2>0. FileInv(f) /\ Acked(f) /\ Confirmed(f)' = {} /\ ~OnWay(f) /\ ~Writing(f) /\ ~Unsent(f)
    <3>1. FileInv(f) /\ Acked(f)
      BY <1>4, <1>10 DEF FilesInv, Acked
    <3> QED
      BY <1>4, <1>10, <3>1 DEF FileInv, OneToken, Starts, NoToken
  <2>1. ~OnWay(f)' /\ ~Acked(f)' /\ ~Writing(f)'
    <3>1. UNCHANGED receiver_io
      BY <1>3 DEF receiverVars
    <3> QED
      BY <1>6, <2>0, <3>1 DEF OnWay, Acked, Writing, Doing
  <2>2. OneToken(f)'
    BY <2>1 DEF OneToken, OnWay, Acked, AtMostOne
  <2>3. Starts(f)'
    <3>1. ~Unsent(f)'
      BY <1>3, <1>8, <2>0 DEF Unsent
    <3> QED
      BY <2>1, <3>1 DEF Starts, Unsent, OnWay
  <2>4. AskedOnce(f)'
    BY <1>3, <1>8, <2>0 DEF FileInv, AskedOnce, linkVars, receiverVars, tableVars
  <2>5. Tabled(f)' /\ Stored(f)'
    BY <1>3, <1>5, <2>0, AloofTabled, AloofStored DEF FileInv
  <2>6. crossed' = crossed /\ (crossed' \/ Written(f)')
    <3>1. crossed' = crossed
      BY <1>3 DEF receiverVars, storeVars
    <3> QED
      BY <1>3, <1>5, <2>0, <3>1, AloofWritten DEF FileInv
  <2>7. sent_chunk[f] \in Nat /\ chunks[f] \in Nat /\ sent_chunk[f] <= chunks[f]
    BY <2>0 DEF TypeOK, SenderTypeOK, FileInv, Counted
  <2>8. Counted(f)'
    <3>1. Carving(f)' => sender_io'.chunk = sent_chunk[f] /\ sent_chunk[f] < chunks[f]
      <4>1. CASE sent_chunk[f] # chunks[f] /\ sender_io' = At("carve", f, n)
        BY <1>10, <2>7, <4>1 DEF At
      <4>2. CASE UNCHANGED sender_io
        BY <1>3, <4>2, IdleFields DEF Carving
      <4> QED
        BY <1>10, <4>1, <4>2
    <3>2. Doing(f, {"write", "written", "finish"})' => receiver_io'.chunk <= chunks[f]
      BY <1>3, <2>0 DEF FileInv, Counted, Doing, receiverVars
    <3> QED
      BY <1>3, <2>1, <2>7, <3>1, <3>2 DEF Counted, OnWay, Acked
  <2>9. Reported(f)'
    <3>1. CASE sent_chunk[f] # chunks[f] /\ UNCHANGED reports
      <4>1. ~(chunks[f] > 0 /\ <<f, "done">> \in reports)
        BY <2>0 DEF FileInv, Reported, NoToken
      <4> QED
        BY <1>3, <3>1, <4>1 DEF Reported
    <3>2. CASE sent_chunk[f] = chunks[f] /\ UNCHANGED sender_io
      <4>1. NoToken(f)'
        BY <1>3, <2>1, <3>2, IdleFields DEF NoToken, Carving
      <4>2. crossed \/ Filled(f, chunks[f])
        BY <1>2, <1>4, <1>10, <2>0, <3>2 DEF FileInv, Written
      <4> QED
        BY <1>3, <4>1, <4>2 DEF Reported, Filled, receiverVars, storeVars
    <3> QED
      BY <1>10, <3>1, <3>2
  <2> QED
    BY <2>2, <2>3, <2>4, <2>5, <2>6, <2>8, <2>9 DEF FileInv
<1> QED
  BY <1>3, <1>9, <1>10 DEF FilesInv

\* The next chunk is sent.
LEMMA CarveFiles == ASSUME TypeOK, FilesInv, CarveChunk PROVE FilesInv'
<1>1. PICK f \in Files, n \in Nat : f = sender_io.file /\ n = sender_io.chunk
  BY PlaceFields DEF CarveChunk, TypeOK, SenderTypeOK
<1> DEFINE m == [kind |-> "chunk", file |-> f, chunk |-> n + 1]
<1>2. m \in Announcement /\ m.file = f /\ m.kind = "chunk" /\ m.chunk = n + 1
  BY DEF Announcement
<1>3. /\ sender_io.at = "carve" /\ sender_io' = Idle /\ Transmit(m)
      /\ sent_chunk' = [sent_chunk EXCEPT ![f] = n + 1]
      /\ UNCHANGED <<linkVars, to_sender, chunks, offered, pending, approved, sending, reports, receiverVars>>
  BY <1>1 DEF CarveChunk, NextChunk
<1> HIDE DEF m
<1>f. FileInv(f) /\ Carving(f) /\ Sent(f) = {} /\ ~Acked(f) /\ ~Writing(f) /\ ~Unsent(f)
  <2>1. FileInv(f) /\ Carving(f)
    BY <1>1, <1>3 DEF FilesInv, Carving
  <2> QED
    BY <2>1 DEF FileInv, OneToken, OnWay, Starts, NoToken
<1>4. /\ \A g \in Files : g # f => Thinned(to_receiver, Sent(g), to_receiver', Sent(g)')
      /\ Sent(f)' \subseteq {m} /\ AtMostOne(to_receiver, Sent(f))'
  BY <1>2, <1>3, <1>f, Transmits DEF TypeOK
<1>5. \A g : AloofTable(g) /\ AloofStore(g)
  BY <1>3, ReceiverAloof
<1>6. \A g : Confirmed(g)' = Confirmed(g) /\ Thinned(to_sender, Confirmed(g), to_sender', Confirmed(g)')
  BY <1>3, SameConfirmed
<1>7. \A g : AloofUser(g)
  BY <1>3 DEF AloofUser, linkVars, receiverVars, tableVars
<1>8. \A g : Refused(g)' <=> Refused(g)
  BY <1>3 DEF Refused
<1>9. ASSUME NEW g \in Files, g # f PROVE FileInv(g)'
  <2>1. AloofSender(g)
    BY <1>3, <1>8, <1>9, IdleFields DEF AloofSender, TypeOK, SenderTypeOK
  <2> QED
    BY <1>4, <1>5, <1>6, <1>7, <1>9, <2>1, AloofKeeps DEF Aloof, AloofWire, FilesInv
<1>10. FileInv(f)'
  <2>1. ~Acked(f)' /\ ~Carving(f)' /\ ~Writing(f)'
    <3>1. ~Acked(f)' /\ ~Carving(f)'
      BY <1>3, <1>6, <1>f, IdleFields DEF Acked, Carving
    <3>2. UNCHANGED receiver_io
      BY <1>3 DEF receiverVars
    <3> QED
      BY <1>f, <3>1, <3>2 DEF Writing, Doing
  <2>2. OneToken(f)'
    BY <1>4, <2>1 DEF OneToken, Acked, AtMostOne
  <2>3. Starts(f)'
    <3>1. ~Unsent(f)'
      BY <1>3, <1>8, <1>f DEF Unsent
    <3>2. \A x \in Sent(f)' : x.kind # "send"
      BY <1>2, <1>4
    <3> QED
      BY <3>1, <3>2 DEF Starts, Unsent
  <2>4. AskedOnce(f)'
    BY <1>3, <1>8, <1>f DEF FileInv, AskedOnce, linkVars, receiverVars, tableVars
  <2>5. Tabled(f)' /\ Stored(f)'
    BY <1>3, <1>5, <1>f, AloofTabled, AloofStored DEF FileInv
  <2>6. crossed' \/ Written(f)'
    <3>1. crossed' = crossed
      BY <1>3 DEF receiverVars, storeVars
    <3> QED
      BY <1>3, <1>5, <1>6, <1>f, <3>1, AloofWritten DEF FileInv
  <2>7. Counted(f)'
    <3>1. n = sent_chunk[f] /\ n < chunks[f] /\ chunks[f] \in Nat
      BY <1>1, <1>f DEF FileInv, Counted, TypeOK, SenderTypeOK
    <3>2. sent_chunk'[f] = n + 1 /\ n + 1 <= chunks[f]
      BY <1>3, <3>1 DEF TypeOK, SenderTypeOK
    <3>3. \A x \in Sent(f)' : x.chunk = n + 1 /\ x.kind # "send"
      BY <1>2, <1>4
    <3>4. Doing(f, {"write", "written", "finish"})' => receiver_io'.chunk <= chunks[f]
      BY <1>3, <1>f DEF FileInv, Counted, Doing, receiverVars
    <3> QED
      BY <1>3, <2>1, <3>2, <3>3, <3>4 DEF Counted, Acked
  <2>8. Reported(f)'
    BY <1>3, <1>f DEF FileInv, Reported, NoToken
  <2> QED
    BY <2>2, <2>3, <2>4, <2>5, <2>6, <2>7, <2>8 DEF FileInv
<1> QED
  BY <1>9, <1>10 DEF FilesInv

\* Steps that concern no file.
LEMMA AllAloof == ASSUME FilesInv, \A g \in Files : Aloof(g) PROVE FilesInv'
  BY AloofKeeps DEF FilesInv

\* The sender keeps the invariant of every file.
LEMMA SenderFiles == ASSUME TypeOK, FilesInv, SenderMain \/ SenderThreads PROVE FilesInv'
<1>1. ASSUME NEW f \in Files, SendFile(f) PROVE FilesInv'
  <2>0. /\ FileInv(f) /\ f \notin offered /\ offered' = offered \cup {f} /\ Unsent(f)
        /\ ~Refused(f) /\ f \notin asked /\ f \notin pending /\ f \notin approved
    BY <1>1 DEF SendFile, FilesInv, FileInv, Starts, AskedOnce, Unsent
  <2>1. CASE f \notin Ask
    <3>1. /\ do_send_file(f)
          /\ UNCHANGED <<up, asked, answers, to_sender, chunks, sender_io, receiverVars, pending, approved>>
      BY <1>1, <2>1 DEF SendFile
    <3> QED
      BY <2>0, <3>1, SendsFile
  <2>2. CASE f \in Ask
    <3>1. /\ pending' \subseteq pending \cup {f} /\ pending \subseteq pending'
          /\ asked' \subseteq asked \cup {f}
          /\ f \in asked' => up /\ f \in pending'
          /\ UNCHANGED <<up, answers, to_receiver, to_sender, chunks, approved, sending, sent_chunk, reports,
                         sender_io, receiverVars>>
      BY <1>1, <2>0, <2>2 DEF SendFile
    <3>2. UNCHANGED <<tableVars, storeVars, receiver_main, receiver_io>> /\ UNCHANGED accepted
      BY <3>1 DEF receiverVars, tableVars
    <3>3. \A g : Refused(g)' <=> Refused(g)
      BY <3>1 DEF Refused
    <3>4. \A g \in Files : g # f => AloofSender(g) /\ AloofUser(g)
      BY <2>0, <3>1, <3>2, <3>3 DEF AloofSender, AloofUser
    <3>5. Starts(f)'
      <4>1. NoToken(f)' /\ Unreceived(f)'
        BY <2>0, <3>1, <3>2, StillUnsent DEF tableVars
      <4> QED
        BY <2>0, <3>1, <3>3, <4>1 DEF FileInv, Starts
    <3>6. AskedOnce(f)'
      BY <2>0, <3>1, <3>2 DEF FileInv, AskedOnce
    <3> QED
      BY <3>1, <3>2, <3>4, <3>5, <3>6, Negotiates
  <2> QED
    BY <2>1, <2>2
<1>2. ASSUME NEW f \in Files, AskTimeout(f) PROVE FilesInv'
  <2>0. FileInv(f) /\ Unsent(f) /\ f \in pending /\ f \in offered /\ f \notin approved
    BY <1>2 DEF AskTimeout, FilesInv, FileInv, Starts, Unsent
  <2>1. /\ pending' = pending \ {f} /\ reports' = reports \cup {<<f, "refused">>}
        /\ UNCHANGED <<linkVars, to_receiver, to_sender, chunks, offered, approved, sending, sent_chunk,
                       sender_io, receiverVars>>
    BY <1>2 DEF AskTimeout
  <2>2. /\ UNCHANGED <<tableVars, storeVars, receiver_main, receiver_io>>
        /\ UNCHANGED <<accepted, asked, answers, up>>
    BY <2>1 DEF receiverVars, tableVars, linkVars
  <2>3. Refused(f)' /\ \A g : g # f => (Refused(g)' <=> Refused(g))
    BY <2>1 DEF Refused
  <2>4. \A g \in Files : g # f => AloofSender(g) /\ AloofUser(g)
    BY <2>1, <2>2, <2>3 DEF AloofSender, AloofUser
  <2>5. Starts(f)'
    <3>1. NoToken(f)' /\ Unreceived(f)'
      BY <2>0, <2>1, <2>2, StillUnsent DEF tableVars
    <3> QED
      BY <2>0, <2>1, <2>3, <3>1 DEF FileInv, Starts
  <2>6. AskedOnce(f)'
    BY <2>0, <2>1, <2>2, <2>3 DEF FileInv, AskedOnce
  <2> QED
    BY <2>1, <2>2, <2>4, <2>5, <2>6, Negotiates
<1>3. ASSUME NEW f \in Files, NEW yes \in BOOLEAN, DataResponse(f, yes) PROVE FilesInv'
  <2>0. FileInv(f)
    BY DEF FilesInv
  <2>1. /\ <<f, yes>> \in answers /\ answers' = answers \ {<<f, yes>>} /\ pending' = pending \ {f}
        /\ approved' \in {approved, approved \cup {f}}
        /\ f \in approved' => f \in approved \/ f \in pending
        /\ UNCHANGED <<up, asked, to_receiver, to_sender, chunks, offered, sending, sent_chunk, sender_io,
                       reports, receiverVars>>
    BY <1>3 DEF DataResponse, Answered
  <2>2. UNCHANGED <<tableVars, storeVars, receiver_main, receiver_io>> /\ UNCHANGED accepted
    BY <2>1 DEF receiverVars, tableVars
  <2>3. \A g : Refused(g)' <=> Refused(g)
    BY <2>1 DEF Refused
  <2>4. \A g \in Files : g # f => AloofSender(g) /\ AloofUser(g)
    BY <2>1, <2>2, <2>3 DEF AloofSender, AloofUser
  <2>5. Starts(f)'
    <3>1. Unsent(f)' => Unsent(f)
      BY <2>1, <2>3 DEF Unsent
    <3>2. Unsent(f)' => NoToken(f)' /\ Unreceived(f)'
      BY <2>0, <2>1, <2>2, <3>1, StillUnsent DEF tableVars
    <3>3. \A m \in Sent(f)' : m.kind = "send" => Unreceived(f)'
      <4>1. Unreceived(f) => Unreceived(f)'
        BY <2>2 DEF Unreceived, tableVars, storeVars, Completed, Slots
      <4> QED
        BY <2>0, <2>1, <4>1, SameSent DEF FileInv, Starts
    <3> QED
      BY <2>0, <2>1, <2>3, <3>1, <3>2, <3>3 DEF FileInv, Starts
  <2>6. AskedOnce(f)'
    BY <2>0, <2>1, <2>2, <2>3 DEF FileInv, AskedOnce
  <2> QED
    BY <2>1, <2>2, <2>4, <2>5, <2>6, Negotiates
<1>4. ASSUME NEW f \in Files, SendApproved(f) PROVE FilesInv'
  <2>1. /\ f \in approved /\ approved' = approved \ {f} /\ do_send_file(f)
        /\ UNCHANGED <<linkVars, to_sender, chunks, offered, pending, sender_io, receiverVars>>
    BY <1>4 DEF SendApproved
  <2>2. UNCHANGED <<up, asked, answers>>
    BY <2>1 DEF linkVars
  <2>3. Unsent(f) /\ ~Refused(f) /\ f \notin asked /\ f \in offered /\ f \notin pending
    BY <2>1 DEF FilesInv, FileInv, Starts, AskedOnce, Unsent
  <2> QED
    BY <2>1, <2>2, <2>3, SendsFile
<1>5. ASSUME SendGiveUp \/ (\E t \in send_timers : SendTimeout(t[1], t[2])) PROVE FilesInv'
  <2>1. /\ UNCHANGED <<linkVars, to_receiver, to_sender, chunks, offered, pending, approved, sent_chunk,
                       sender_io, reports, receiverVars>>
        /\ sending' \subseteq sending
    BY <1>5 DEF SendGiveUp, SendTimeout, cancel_sending
  <2>2. \A g : AloofTable(g) /\ AloofStore(g) /\ AloofWire(g)
    BY <2>1, ReceiverAloof, SameSent, SameConfirmed DEF AloofWire
  <2>3. \A g : AloofSender(g) /\ AloofUser(g)
    BY <2>1 DEF AloofSender, AloofUser, Refused, linkVars, receiverVars, tableVars
  <2> QED
    BY <2>2, <2>3, AllAloof DEF Aloof
<1> QED
  BY <1>1, <1>2, <1>3, <1>4, <1>5, AckFiles, CarveFiles DEF SenderMain, SenderThreads

-----------------------------------------------------------------------------
(***************************************************************************)
(* The steps of the receiver.                                              *)
(***************************************************************************)
\* A step of the receiver on a file that was announced, which sends nothing but refusals.
LEMMA Moved ==
    ASSUME NEW f \in Files, FileInv(f), ~Unsent(f), \A m \in Sent(f)' : m.kind # "send",
           UNCHANGED <<senderVars, linkVars>>, accepted' \subseteq accepted,
           Thinned(to_receiver, Sent(f), to_receiver', Sent(f)'),
           Thinned(to_sender, Confirmed(f), to_sender', Confirmed(f)'),
           chunk'[f] = chunk[f],
           Writing(f)' => Writing(f) /\ receiver_io' = receiver_io,
           Doing(f, {"write", "written", "finish"})' => receiver_io'.chunk <= chunks[f],
           crossed => crossed', crossed' \/ content'[f] = content[f],
           Tabled(f)', Stored(f)', crossed' \/ Written(f)'
    PROVE  FileInv(f)'
<1>2. Sent(f)' \subseteq Sent(f) /\ AtMostOne(to_receiver, Sent(f))'
  BY DEF FileInv, OneToken, Thinned, AtMostOne
<1>3. Confirmed(f)' \subseteq Confirmed(f) /\ AtMostOne(to_sender, Confirmed(f))'
  BY DEF FileInv, OneToken, Thinned, AtMostOne
<1>4. UNCHANGED <<chunks, offered, pending, approved, sending, sent_chunk, sender_io, reports, asked,
                  answers, up>>
  BY DEF senderVars, linkVars
<1>5. /\ OnWay(f)' => OnWay(f)
      /\ Acked(f)' => Acked(f)
      /\ Carving(f)' <=> Carving(f)
  BY <1>2, <1>3, <1>4 DEF OnWay, Acked, Carving
<1>6. OneToken(f)'
  BY <1>2, <1>3, <1>5 DEF FileInv, OneToken
<1>7. Starts(f)'
  <2>1. ~Unsent(f)'
    BY <1>4 DEF Unsent, Refused
  <2> QED
    BY <2>1 DEF Starts, Unsent
<1>8. AskedOnce(f)'
  BY <1>4 DEF FileInv, AskedOnce, Refused
<1>9. Counted(f)'
  BY <1>2, <1>3, <1>4, <1>5 DEF FileInv, Counted
<1>10. Reported(f)'
  <2>1. SUFFICES ASSUME chunks[f] > 0, <<f, "done">> \in reports
                 PROVE  NoToken(f)' /\ (crossed' \/ Filled(f, chunks[f])')
    BY <1>4 DEF Reported
  <2>2. NoToken(f) /\ (crossed \/ Filled(f, chunks[f]))
    BY <2>1 DEF FileInv, Reported
  <2> QED
    BY <1>4, <1>5, <2>2 DEF NoToken, Filled
<1> QED
  BY <1>6, <1>7, <1>8, <1>9, <1>10 DEF FileInv

\* The same, when no message is read and the receiver has something of the file.
LEMMA Handled ==
    ASSUME NEW f \in Files, FileInv(f), ~Unreceived(f),
           UNCHANGED <<senderVars, linkVars, to_receiver>>, accepted' \subseteq accepted,
           Thinned(to_sender, Confirmed(f), to_sender', Confirmed(f)'),
           chunk'[f] = chunk[f],
           Writing(f)' => Writing(f) /\ receiver_io' = receiver_io,
           Doing(f, {"write", "written", "finish"})' => receiver_io'.chunk <= chunks[f],
           crossed => crossed', crossed' \/ content'[f] = content[f],
           Tabled(f)', Stored(f)', crossed' \/ Written(f)'
    PROVE  FileInv(f)'
<1>1. ~Unsent(f) /\ \A m \in Sent(f) : m.kind # "send"
  BY DEF FileInv, Starts
<1>2. Sent(f)' = Sent(f) /\ Thinned(to_receiver, Sent(f), to_receiver', Sent(f)')
  BY SameSent
<1> QED
  BY <1>1, <1>2, Moved

\* What both steps of cancel_file() do to the thread that runs them.
LEMMA CancelMoves ==
    ASSUME NEW labels, NEW pc \in Labels(labels), NEW pcNext, CancelStep(pc, pcNext)
    PROVE  /\ pc.at = "cancel"
           /\ \/ /\ Cancels(pc.file) /\ cancelled' = cancelled \cup {pc.file}
                 /\ receive_timers' \subseteq receive_timers
                 /\ pcNext.file = pc.file /\ pcNext.at = "discard" /\ UNCHANGED to_sender
              \/ /\ ~Cancels(pc.file) /\ UNCHANGED <<cancelled, receive_timers>>
                 /\ pcNext = Idle /\ Reply(pc.file, FALSE, pc.chunk)
           /\ UNCHANGED <<linkVars, to_receiver, senderVars, accepted, receiving, chunk, fd, name,
                          reapers, storeVars>>
  BY DEF CancelStep, Labels

\* Where the threads of the receiver are while one of them cancels file f.
AtCancel(pc, f, label) == pc.file = f /\ pc.at = label

\* Cancelling a transfer at the receiver keeps it.
LEMMA CancelFiles == ASSUME TypeOK, FilesInv, MainCancel \/ FileThreadCancel PROVE FilesInv'
<1>1. PICK f \in Files, n \in Nat :
        /\ \/ AtCancel(receiver_main, f, "cancel") /\ UNCHANGED receiver_io
              /\ (receiver_main' = Idle \/ AtCancel(receiver_main', f, "discard"))
           \/ AtCancel(receiver_io, f, "cancel") /\ UNCHANGED receiver_main
              /\ (receiver_io' = Idle \/ AtCancel(receiver_io', f, "discard"))
        /\ \/ /\ f \in receiving /\ f \notin cancelled /\ cancelled' = cancelled \cup {f}
              /\ receive_timers' \subseteq receive_timers /\ UNCHANGED to_sender
              /\ AtCancel(receiver_main', f, "discard") \/ AtCancel(receiver_io', f, "discard")
           \/ /\ f \notin receiving \/ f \in cancelled
              /\ UNCHANGED <<cancelled, receive_timers>> /\ Reply(f, FALSE, n)
              /\ \/ receiver_main' = Idle /\ UNCHANGED receiver_io /\ ~Discarding(receiver_main, f)
                 \/ receiver_io' = Idle /\ UNCHANGED receiver_main /\ ~Discarding(receiver_io, f)
  <2>1. CASE MainCancel
    <3>1. receiver_main \in Labels({"cancel", "discard"}) /\ CancelStep(receiver_main, receiver_main')
      BY <2>1, IdleFields DEF MainCancel, CancelStep, TypeOK, PlaceTypeOK
    <3>2. receiver_main.file \in Files /\ receiver_main.chunk \in Nat
      BY <3>1 DEF Labels
    <3>3. /\ receiver_main.at = "cancel" /\ UNCHANGED receiver_io
          /\ \/ /\ Cancels(receiver_main.file) /\ cancelled' = cancelled \cup {receiver_main.file}
                /\ receive_timers' \subseteq receive_timers
                /\ receiver_main'.file = receiver_main.file /\ receiver_main'.at = "discard" /\ UNCHANGED to_sender
             \/ /\ ~Cancels(receiver_main.file) /\ UNCHANGED <<cancelled, receive_timers>>
                /\ receiver_main' = Idle /\ Reply(receiver_main.file, FALSE, receiver_main.chunk)
      BY <2>1, <3>1, CancelMoves DEF MainCancel
    <3> QED
      BY <3>2, <3>3 DEF AtCancel, Cancels, Discarding
  <2>2. CASE FileThreadCancel
    <3>1. /\ receiver_io \in Labels({"write", "written", "finish", "cancel", "discard"})
          /\ CancelStep(receiver_io, receiver_io')
      BY <2>2, IdleFields DEF FileThreadCancel, CancelStep, TypeOK, PlaceTypeOK
    <3>2. receiver_io.file \in Files /\ receiver_io.chunk \in Nat
      BY <3>1 DEF Labels
    <3>3. /\ receiver_io.at = "cancel" /\ UNCHANGED receiver_main
          /\ \/ /\ Cancels(receiver_io.file) /\ cancelled' = cancelled \cup {receiver_io.file}
                /\ receive_timers' \subseteq receive_timers
                /\ receiver_io'.file = receiver_io.file /\ receiver_io'.at = "discard" /\ UNCHANGED to_sender
             \/ /\ ~Cancels(receiver_io.file) /\ UNCHANGED <<cancelled, receive_timers>>
                /\ receiver_io' = Idle /\ Reply(receiver_io.file, FALSE, receiver_io.chunk)
      BY <2>2, <3>1, CancelMoves DEF FileThreadCancel
    <3> QED
      BY <3>2, <3>3 DEF AtCancel, Cancels, Discarding
  <2> QED
    BY <2>1, <2>2
<1>2. UNCHANGED <<linkVars, to_receiver, senderVars, accepted, receiving, chunk, fd, name, reapers, storeVars>>
  BY DEF MainCancel, FileThreadCancel, CancelStep
<1>3. \A g \in Files : Thinned(to_sender, Confirmed(g), to_sender', Confirmed(g)')
  BY <1>1, Replies, SameConfirmed DEF TypeOK
<1>4. /\ \A g : AloofSender(g)
      /\ \A g : AloofStore(g)
      /\ \A g : AloofUser(g)
  BY <1>2, SenderAloof, StoreAloof DEF AloofUser, linkVars, senderVars
<1>5. ASSUME NEW g \in Files, g # f PROVE FileInv(g)'
  <2>1. SameThread(receiver_main, receiver_main', g) /\ SameThread(receiver_io, receiver_io', g)
    BY <1>1, <1>5, IdleFields DEF SameThread, AtCancel
  <2>2. AloofTable(g)
    BY <1>1, <1>2, <1>5, <2>1 DEF AloofTable, storeVars, Completed
  <2>3. AloofWire(g)
    BY <1>2, <1>3, SameSent DEF AloofWire
  <2> QED
    BY <1>4, <2>2, <2>3, AloofKeeps DEF Aloof, FilesInv
<1>6. FileInv(f)'
  <2>0. FileInv(f) /\ ~Unreceived(f)
    BY <1>1 DEF FilesInv, Unreceived, AtCancel
  <2>1. /\ Writing(f)' => Writing(f) /\ receiver_io' = receiver_io
        /\ \A L \in SUBSET {"write", "written", "finish"} :
             Doing(f, L)' => Doing(f, L) /\ receiver_io' = receiver_io
    BY <1>1, IdleFields DEF Writing, Doing, AtCancel
  <2>2. f \in Completed' <=> f \in Completed
    BY <1>2 DEF storeVars, Completed
  <2>3. /\ Slots' = Slots /\ (Opened(f)' <=> Opened(f)) /\ chunks' = chunks
        /\ handles' = handles /\ disk' = disk /\ content' = content /\ crossed' = crossed
    BY <1>2 DEF Slots, Opened, storeVars, senderVars
  <2>4. CASE f \in receiving /\ f \notin cancelled
    <3>1. /\ f \in cancelled' /\ f \in receiving' /\ Discarded(f)'
          /\ ~(Discarding(receiver_main, f)' /\ Discarding(receiver_io, f)')
      BY <1>1, <1>2, <2>0, <2>4, IdleFields DEF FileInv, Tabled, Discarded, Discarding, AtCancel
    <3>2. f \notin reapers'
      BY <1>2, <2>0, <2>4 DEF FileInv, Tabled
    <3>3. Tabled(f)'
      BY <1>2, <2>0, <2>1, <2>2, <2>3, <2>4, <3>1, <3>2 DEF FileInv, Tabled
    <3>4. Stored(f)'
      BY <1>2, <2>0, <2>3, <3>1 DEF FileInv, Stored
    <3>5. crossed' \/ Written(f)'
      <4>1. SUFFICES ASSUME ~crossed PROVE Written(f)'
        BY <2>3
      <4>2. Written(f) /\ Confirmed(f)' \subseteq Confirmed(f)
        BY <1>3, <2>0, <4>1 DEF FileInv, Thinned
      <4> QED
        BY <1>2, <2>1, <2>2, <2>3, <3>1, <4>2 DEF Written, Filled
    <3> QED
      BY <1>2, <1>3, <2>0, <2>1, <2>3, <3>3, <3>4, <3>5, Handled DEF FileInv, Counted
  <2>5. CASE ~(f \in receiving /\ f \notin cancelled)
    <3>1. /\ Discarding(receiver_main, f)' <=> Discarding(receiver_main, f)
          /\ Discarding(receiver_io, f)' <=> Discarding(receiver_io, f)
          /\ UNCHANGED cancelled
      BY <1>1, <2>5, IdleFields DEF Discarding, AtCancel
    <3>2. Tabled(f)'
      BY <1>2, <2>0, <2>1, <2>2, <2>3, <3>1 DEF FileInv, Tabled
    <3>3. Stored(f)'
      BY <1>2, <2>0, <2>2, <2>3, <3>1 DEF FileInv, Stored, Discarded
    <3>4. crossed' \/ Written(f)'
      <4>1. SUFFICES ASSUME ~crossed PROVE Written(f)'
        BY <2>3
      <4>2. Written(f) /\ Confirmed(f)' \subseteq Confirmed(f)
        BY <1>3, <2>0, <4>1 DEF FileInv, Thinned
      <4> QED
        BY <1>2, <2>1, <2>2, <2>3, <2>5, <3>1, <4>2 DEF Written, Filled
    <3> QED
      BY <1>2, <1>3, <2>0, <2>1, <2>3, <3>2, <3>3, <3>4, Handled DEF FileInv, Counted
  <2> QED
    BY <2>4, <2>5
<1> QED
  BY <1>5, <1>6 DEF FilesInv

\* cancel_file() closes the descriptor that has the file's number and frees its name.
LEMMA DiscardFiles == ASSUME TypeOK, FilesInv, MainDiscard \/ FileThreadDiscard PROVE FilesInv'
<1>1. PICK f \in Files, n \in Nat :
        /\ \/ Discarding(receiver_main, f) /\ receiver_main' = Idle /\ UNCHANGED receiver_io
           \/ Discarding(receiver_io, f) /\ receiver_io' = Idle /\ UNCHANGED receiver_main
        /\ Close(f) /\ reapers' = reapers \cup {f} /\ disk' = Unlinked(f) /\ Reply(f, FALSE, n)
        /\ UNCHANGED <<linkVars, to_receiver, senderVars, accepted, receiving, cancelled, chunk, fd, name,
                       receive_timers, content, processed>>
  <2>1. CASE MainDiscard
    <3>1. receiver_main.file \in Files /\ receiver_main.chunk \in Nat
      BY <2>1, PlaceFields DEF MainDiscard, DiscardStep, TypeOK, PlaceTypeOK
    <3> QED
      BY <2>1, <3>1 DEF MainDiscard, DiscardStep, Discarding
  <2>2. CASE FileThreadDiscard
    <3>1. receiver_io.file \in Files /\ receiver_io.chunk \in Nat
      BY <2>2, PlaceFields DEF FileThreadDiscard, DiscardStep, TypeOK, PlaceTypeOK
    <3> QED
      BY <2>2, <3>1 DEF FileThreadDiscard, DiscardStep, Discarding
  <2> QED
    BY <2>1, <2>2
<1>f. FileInv(f) /\ f \in cancelled /\ Opened(f) /\ Discarded(f)
  BY <1>1 DEF FilesInv, FileInv, Tabled, Discarded
<1>2. /\ Slots' = Slots
      /\ \A k \in Slots : handles'[k] = IF k = fd[f] THEN Nobody ELSE handles[k]
      /\ \A k \in Slots : disk'[k] = IF k = name[f] THEN Nobody ELSE disk[k]
      /\ crossed' = (crossed \/ handles[fd[f]] \notin {f, Nobody})
  <2>1. handles \in [Slots -> Files \cup {Nobody}] /\ disk \in [Slots -> Files \cup {Nobody}]
    BY DEF TypeOK, StoreTypeOK
  <2> QED
    BY <1>1, <2>1 DEF Close, Unlinked, Slots
<1>3. \A g \in Files : Thinned(to_sender, Confirmed(g), to_sender', Confirmed(g)')
  BY <1>1, Replies DEF TypeOK
<1>4. UNCHANGED Completed /\ ~Discarding(receiver_main, f)' /\ ~Discarding(receiver_io, f)'
  BY <1>1, <1>f, IdleFields DEF Completed, Discarding, FileInv, Tabled
<1>5. ASSUME NEW g \in Files, g # f PROVE FileInv(g)'
  <2>1. SameThread(receiver_main, receiver_main', g) /\ SameThread(receiver_io, receiver_io', g)
    BY <1>1, <1>5, IdleFields DEF SameThread, Discarding
  <2>2. AloofTable(g)
    BY <1>1, <1>4, <1>5, <2>1 DEF AloofTable
  <2>3. AloofStore(g)
    BY <1>1, <1>2, <1>5, <1>f, IdleFields DEF AloofStore, Opened
  <2>4. AloofSender(g) /\ AloofUser(g)
    BY <1>1, SenderAloof DEF AloofUser, linkVars, senderVars
  <2>5. AloofWire(g)
    BY <1>1, <1>3, SameSent DEF AloofWire
  <2> QED
    BY <2>2, <2>3, <2>4, <2>5, AloofKeeps DEF Aloof, FilesInv
<1>6. FileInv(f)'
  <2>1. \A L \in SUBSET {"write", "written", "finish"} :
             Doing(f, L)' => Doing(f, L) /\ receiver_io' = receiver_io
    BY <1>1, IdleFields DEF Doing
  <2>2. Writing(f)' => Writing(f) /\ receiver_io' = receiver_io
    BY <1>1, IdleFields DEF Writing, Doing
  <2>3. UNCHANGED <<chunks, Opened(f)>>
    BY <1>1 DEF Opened, Slots, senderVars
  <2>4. Tabled(f)'
    BY <1>1, <1>4, <1>f, <2>1, <2>3 DEF FileInv, Tabled
  <2>5. \A k \in Slots : handles'[k] # f /\ disk'[k] # f
    BY <1>2, <1>f, IdleFields DEF FileInv, Stored
  <2>6. Stored(f)'
    BY <1>2, <2>5 DEF Stored
  <2>7. crossed' \/ Written(f)'
    <3>1. SUFFICES ASSUME ~crossed' PROVE Written(f)'
      OBVIOUS
    <3>2. Written(f) /\ Confirmed(f)' \subseteq Confirmed(f)
      BY <1>2, <1>3, <1>f, <3>1 DEF FileInv, Thinned
    <3>3. handles'[fd'[f]] = Nobody /\ f \in cancelled' /\ content' = content
      BY <1>1, <1>2, <1>f DEF Opened
    <3> QED
      BY <1>4, <2>1, <2>2, <2>3, <3>2, <3>3 DEF Written, Filled
  <2>8. ~Unreceived(f)
    BY <1>f DEF Unreceived
  <2>9. Doing(f, {"write", "written", "finish"})' => receiver_io'.chunk <= chunks[f]
    BY <1>f, <2>1 DEF FileInv, Counted
  <2> QED
    BY <1>1, <1>2, <1>3, <1>f, <2>2, <2>4, <2>6, <2>7, <2>8, <2>9, Handled
<1> QED
  BY <1>5, <1>6 DEF FilesInv

\* The main loop starts to cancel a transfer of the table.
LEMMA CancelBegins ==
    ASSUME TypeOK, FilesInv, NEW f \in Files, f \in receiving, NEW n,
           receiver_main = Idle, receiver_main' = At("cancel", f, n), receive_timers' \subseteq receive_timers,
           UNCHANGED <<linkVars, to_receiver, to_sender, senderVars, accepted, receiving, cancelled, chunk,
                       fd, name, reapers, storeVars, receiver_io>>
    PROVE  FilesInv'
<1>1. UNCHANGED Completed /\ UNCHANGED <<handles, disk, content, crossed>>
  BY DEF Completed, storeVars
<1>2. \A g : AloofSender(g) /\ AloofUser(g) /\ AloofStore(g) /\ AloofWire(g)
  BY SenderAloof, StoreAloof, SameSent, SameConfirmed DEF AloofUser, AloofWire, linkVars, senderVars
<1>3. ASSUME NEW g \in Files, g # f PROVE FileInv(g)'
  <2>1. SameThread(receiver_main, receiver_main', g) /\ SameThread(receiver_io, receiver_io', g)
    BY <1>3, IdleFields DEF SameThread, At
  <2>2. AloofTable(g)
    BY <1>1, <2>1 DEF AloofTable
  <2> QED
    BY <1>2, <2>2, AloofKeeps DEF Aloof, FilesInv
<1>4. FileInv(f)'
  <2>0. FileInv(f) /\ ~Unreceived(f)
    BY DEF FilesInv, Unreceived
  <2>1. /\ ~Discarding(receiver_main, f)' /\ ~Discarding(receiver_main, f)
        /\ UNCHANGED <<Discarding(receiver_io, f), Writing(f), Opened(f), chunks, Slots>>
        /\ \A L : Doing(f, L)' <=> Doing(f, L)
    BY IdleFields DEF Discarding, Writing, Doing, Opened, Slots, At, senderVars
  <2>2. Tabled(f)' /\ Stored(f)'
    BY <1>1, <2>0, <2>1 DEF FileInv, Tabled, Stored, Discarded
  <2>3. crossed' \/ Written(f)'
    BY <1>1, <2>0, <2>1, SameConfirmed DEF FileInv, Written, Filled
  <2>4. Doing(f, {"write", "written", "finish"})' => receiver_io'.chunk <= chunks[f]
    BY <2>0, <2>1 DEF FileInv, Counted
  <2> QED
    BY <1>1, <2>0, <2>1, <2>2, <2>3, <2>4, Handled, SameConfirmed
<1> QED
  BY <1>3, <1>4 DEF FilesInv

\* The receiver's main thread keeps it.
LEMMA ReceiverMainFiles == ASSUME TypeOK, FilesInv, ReceiverMain PROVE FilesInv'
<1>1. ASSUME NEW f \in Files, NEW yes \in BOOLEAN, AnswerUser(f, yes) PROVE FilesInv'
  <2>1. /\ f \in asked /\ asked' = asked \ {f} /\ accepted' \subseteq accepted \cup {f}
        /\ answers' \subseteq answers \cup {<<f, yes>>}
        /\ UNCHANGED <<up, to_receiver, to_sender, senderVars, receiving, cancelled, chunk, fd, name,
                       receive_timers, reapers, storeVars, receiver_main, receiver_io>>
    BY <1>1 DEF AnswerUser
  <2>2. UNCHANGED <<sender_io, offered, pending, approved, sending, reports, sent_chunk>>
    BY <2>1 DEF senderVars
  <2>3. FileInv(f) /\ Unsent(f) /\ f \in offered
    BY <2>1 DEF FilesInv, FileInv, AskedOnce, Unsent
  <2>4. NoToken(f)' /\ Unreceived(f)'
    BY <2>1, <2>2, <2>3, StillUnsent
  <2>5. Starts(f)' /\ AskedOnce(f)'
    BY <2>1, <2>2, <2>3, <2>4 DEF FileInv, Starts, AskedOnce, Refused
  <2>6. \A g \in Files : g # f => AloofSender(g) /\ AloofUser(g)
    BY <2>1, <2>2, SenderAloof DEF AloofUser
  <2> QED
    BY <2>1, <2>2, <2>5, <2>6, Negotiates
<1>2. ASSUME NEW f \in Files, CancelDownload(f) PROVE FilesInv'
  <2>1. UNCHANGED <<accepted, receiving, cancelled, chunk, fd, name, receive_timers, reapers>>
    BY <1>2 DEF CancelDownload, tableVars
  <2> QED
    BY <1>2, <2>1, CancelBegins DEF CancelDownload
<1>3. ASSUME NEW f \in Files, Reap(f) PROVE FilesInv'
  <2>1. /\ f \in reapers /\ reapers' = reapers \ {f} /\ receiving' = receiving \ {f}
        /\ UNCHANGED <<linkVars, to_receiver, to_sender, senderVars, accepted, cancelled, chunk, fd, name,
                       receive_timers, storeVars, receiver_main, receiver_io>>
    BY <1>3 DEF Reap
  <2>2. f \in cancelled /\ ~Discarded(f) /\ Tabled(f) /\ Stored(f)
    BY <2>1 DEF FilesInv, FileInv, Tabled, Discarded
  <2>3. UNCHANGED <<handles, disk, content, crossed, Completed>>
    BY <2>1 DEF storeVars, Completed
  <2>4. \A k \in Slots : handles[k] # f /\ (disk[k] = f => f \notin receiving)
    BY <2>2 DEF Stored, Tabled
  <2>5. \A g \in Files : AloofStore(g)
    BY <2>1, <2>3, <2>4 DEF AloofStore
  <2>6. \A g \in Files : AloofTable(g)
    BY <2>1, <2>3 DEF AloofTable, SameThread
  <2>7. \A g : AloofSender(g) /\ AloofUser(g) /\ AloofWire(g)
    BY <2>1, SenderAloof, SameSent, SameConfirmed DEF AloofUser, AloofWire, linkVars, senderVars
  <2> QED
    BY <2>5, <2>6, <2>7, AllAloof DEF Aloof
<1>4. ASSUME NEW t \in receive_timers, ReceiveTimeout(t[1], t[2]) PROVE FilesInv'
  <2>1. PICK f \in Files, n \in Nat : f = t[1] /\ n = t[2]
    BY DEF TypeOK, TableTypeOK
  <2>2. /\ receiver_main = Idle /\ receive_timers' \subseteq receive_timers
        /\ UNCHANGED <<linkVars, to_receiver, to_sender, senderVars, accepted, receiving, cancelled, chunk,
                       fd, name, reapers, storeVars, receiver_io>>
        /\ (f \in receiving /\ receiver_main' = At("cancel", f, n)) \/ receiver_main' = Idle
    BY <1>4, <2>1 DEF ReceiveTimeout
  <2>3. CASE f \in receiving /\ receiver_main' = At("cancel", f, n)
    BY <2>2, <2>3, CancelBegins
  <2>4. CASE receiver_main' = Idle
    <3>1. \A g : AloofSender(g) /\ AloofUser(g) /\ AloofStore(g) /\ AloofWire(g)
      BY <2>2, SenderAloof, StoreAloof, SameSent, SameConfirmed DEF AloofUser, AloofWire, linkVars, senderVars
    <3>2. \A g : AloofTable(g)
      BY <2>2, <2>4 DEF AloofTable, SameThread, Completed, storeVars
    <3> QED
      BY <3>1, <3>2, AllAloof DEF Aloof
  <2> QED
    BY <2>2, <2>3, <2>4
<1> QED
  BY <1>1, <1>2, <1>3, <1>4, CancelFiles, DiscardFiles DEF ReceiverMain

\* One more download is complete.
LEMMA Completes ==
    ASSUME NEW f, NEW k, processed' = processed \cup {<<f, k>>}
    PROVE  Completed' = Completed \cup {f}
<1>1. ASSUME NEW x \in Completed' PROVE x \in Completed \cup {f}
  <2>1. PICK p \in processed' : x = p[1]
    BY <1>1 DEF Completed
  <2>2. CASE p \in processed
    BY <2>1, <2>2 DEF Completed
  <2>3. CASE p = <<f, k>>
    BY <2>1, <2>3
  <2> QED
    BY <2>2, <2>3
<1>2. ASSUME NEW x \in Completed PROVE x \in Completed'
  BY <1>2 DEF Completed
<1>3. f \in Completed'
  <2>1. <<f, k>> \in processed' /\ <<f, k>>[1] = f
    OBVIOUS
  <2> QED
    BY <2>1 DEF Completed
<1> QED
  BY <1>1, <1>2, <1>3

\* What a message of the given kind is about, once the file thread has taken it.
LEMMA HeadTaken ==
    ASSUME TypeOK, FilesInv, NEW kind, NextFor(kind)
    PROVE  \E f \in Files, n \in Nat :
             /\ f = Head(to_receiver).file /\ n = Head(to_receiver).chunk
             /\ FileInv(f) /\ ~Unsent(f) /\ Sent(f)' = {} /\ OnWay(f) /\ ~Acked(f) /\ ~Carving(f) /\ ~Writing(f)
             /\ n = sent_chunk[f] /\ (kind = "send" => n = 0 /\ Unreceived(f))
             /\ ~(chunks[f] > 0 /\ <<f, "done">> \in reports)
             /\ \A g \in Files : Thinned(to_receiver, Sent(g), to_receiver', Sent(g)')
<1>1. PICK f \in Files, n \in Nat : f = Head(to_receiver).file /\ n = Head(to_receiver).chunk
  BY HeadOfReceiver DEF TypeOK
<1>2. FileInv(f) /\ to_receiver # <<>> /\ to_receiver' = Tail(to_receiver) /\ Head(to_receiver).kind = kind
  BY DEF FilesInv, NextFor
<1>3. /\ \A g \in Files : Thinned(to_receiver, Sent(g), to_receiver', Sent(g)')
      /\ Head(to_receiver) \in Sent(f) /\ Sent(f)' = {}
  BY <1>1, <1>2, Takes DEF TypeOK, FileInv, OneToken
<1>4. OnWay(f) /\ ~Acked(f) /\ ~Carving(f) /\ ~Writing(f)
  BY <1>2, <1>3 DEF OnWay, FileInv, OneToken
<1>5. ~Unsent(f) /\ ~(chunks[f] > 0 /\ <<f, "done">> \in reports)
  BY <1>2, <1>4 DEF FileInv, Starts, Reported, NoToken
<1>6. n = sent_chunk[f] /\ (kind = "send" => n = 0 /\ Unreceived(f))
  BY <1>1, <1>2, <1>3 DEF FileInv, Counted, Starts
<1> QED
  BY <1>1, <1>2, <1>3, <1>4, <1>5, <1>6

\* Refusing an announced file keeps it.
LEMMA RefuseFiles == ASSUME TypeOK, FilesInv, RefuseFile PROVE FilesInv'
<1>1. PICK f \in Files : f = Head(to_receiver).file
  BY HeadOfReceiver DEF RefuseFile, TypeOK
<1>2. /\ accepted' \subseteq accepted /\ (Reply(f, FALSE, 0) \/ UNCHANGED to_sender)
      /\ UNCHANGED <<linkVars, senderVars, receiving, cancelled, chunk, fd, name, receive_timers, reapers,
                     storeVars, receiver_main, receiver_io>>
  BY <1>1 DEF RefuseFile
<1>3. \A g \in Files : Thinned(to_receiver, Sent(g), to_receiver', Sent(g)')
  BY HeadTaken DEF RefuseFile
<1>4. \A g \in Files : Thinned(to_sender, Confirmed(g), to_sender', Confirmed(g)')
  BY <1>2, Replies, SameConfirmed DEF TypeOK
<1>5. \A g \in Files : AloofSender(g) /\ AloofUser(g) /\ AloofStore(g) /\ AloofWire(g)
  BY <1>2, <1>3, <1>4, SenderAloof, StoreAloof DEF AloofUser, AloofWire, linkVars, senderVars
<1>6. \A g : AloofTable(g)
  BY <1>2 DEF AloofTable, SameThread, Completed, storeVars
<1> QED
  BY <1>5, <1>6, AllAloof DEF Aloof

\* A large file gets a descriptor, a name and an entry in the table.
LEMMA AcceptFiles == ASSUME TypeOK, FilesInv, AcceptFile PROVE FilesInv'
<1>1. NextFor("send") /\ receiver_io = Idle
  BY DEF AcceptFile, NextFor
<1>f. PICK f \in Files, n \in Nat :
        /\ f = Head(to_receiver).file /\ n = Head(to_receiver).chunk
        /\ FileInv(f) /\ ~Unsent(f) /\ Sent(f)' = {} /\ OnWay(f) /\ ~Acked(f) /\ ~Carving(f) /\ ~Writing(f)
        /\ n = sent_chunk[f] /\ n = 0 /\ Unreceived(f)
        /\ ~(chunks[f] > 0 /\ <<f, "done">> \in reports)
        /\ \A g \in Files : Thinned(to_receiver, Sent(g), to_receiver', Sent(g)')
  BY <1>1, HeadTaken
<1>2. PICK d \in Slots, k \in Slots :
        /\ chunks[f] > 0 /\ handles[d] = Nobody /\ disk[k] = Nobody
        /\ accepted' = accepted \ {f}
        /\ handles' = [handles EXCEPT ![d] = f] /\ disk' = [disk EXCEPT ![k] = f]
        /\ fd' = [fd EXCEPT ![f] = d] /\ name' = [name EXCEPT ![f] = k] /\ chunk' = [chunk EXCEPT ![f] = 0]
        /\ receiving' = receiving \cup {f} /\ cancelled' = cancelled \ {f}
        /\ receive_timers' = Rearm(receive_timers, f, 0)
        /\ Reply(f, TRUE, 0)
  BY <1>f DEF AcceptFile, FirstFree
<1>3. UNCHANGED <<linkVars, senderVars, reapers, content, processed, crossed, receiver_main, receiver_io>>
  BY DEF AcceptFile
<1>4. /\ Slots' = Slots
      /\ \A j \in Slots : handles'[j] = (IF j = d THEN f ELSE handles[j]) /\ disk'[j] = (IF j = k THEN f ELSE disk[j])
      /\ fd'[f] = d /\ name'[f] = k /\ chunk'[f] = 0
      /\ \A g \in Files : g # f => fd'[g] = fd[g] /\ name'[g] = name[g] /\ chunk'[g] = chunk[g]
  <2>1. /\ handles \in [Slots -> Files \cup {Nobody}] /\ disk \in [Slots -> Files \cup {Nobody}]
        /\ fd \in [Files -> Slots \cup {0}] /\ name \in [Files -> Slots \cup {0}] /\ chunk \in [Files -> Nat]
    BY DEF TypeOK, StoreTypeOK, TableTypeOK
  <2> QED
    BY <1>2, <2>1 DEF Slots
<1>5. /\ \A g \in Files : g # f => Thinned(to_sender, Confirmed(g), to_sender', Confirmed(g)')
      /\ Confirmed(f)' \subseteq {Ack(f, TRUE, 0)} /\ AtMostOne(to_sender, Confirmed(f))'
  BY <1>2, <1>f, Replies DEF TypeOK, Acked
<1>6. UNCHANGED <<Completed, chunks, sent_chunk, sender_io, reports, offered, pending, approved, sending,
                  asked, answers, up>>
  BY <1>3 DEF Completed, senderVars, linkVars
<1>7. ASSUME NEW g \in Files, g # f PROVE FileInv(g)'
  <2>1. \A t \in receive_timers' : t[1] = g => t \in receive_timers
    BY <1>2, <1>7 DEF Rearm
  <2>2. AloofTable(g)
    BY <1>2, <1>3, <1>4, <1>6, <1>7, <2>1 DEF AloofTable, SameThread
  <2>3. ~Writing(g)'
    BY <1>1, <1>3, IdleFields DEF Writing, Doing
  <2>4. AloofStore(g)
    BY <1>2, <1>3, <1>4, <1>7, <2>3, IdleFields DEF AloofStore
  <2>5. AloofSender(g) /\ AloofUser(g)
    BY <1>2, <1>3, <1>6, SenderAloof DEF AloofUser
  <2>6. AloofWire(g)
    BY <1>f, <1>5, <1>7 DEF AloofWire
  <2> QED
    BY <2>2, <2>4, <2>5, <2>6, AloofKeeps DEF Aloof, FilesInv
<1>8. FileInv(f)'
  <2>1. ~OnWay(f)' /\ ~Carving(f)' /\ ~Writing(f)' /\ \A L : ~Doing(f, L)'
    BY <1>1, <1>3, <1>6, <1>f, IdleFields DEF OnWay, Carving, Writing, Doing
  <2>2. OneToken(f)'
    BY <1>5, <1>f, <2>1 DEF OneToken, AtMostOne
  <2>3. Starts(f)' /\ AskedOnce(f)'
    <3>1. ~Unsent(f)'
      BY <1>6, <1>f DEF Unsent, Refused
    <3> QED
      BY <1>2, <1>6, <1>f, <3>1 DEF Starts, Unsent, FileInv, AskedOnce, Refused
  <2>4. /\ f \in receiving' /\ f \notin cancelled' /\ f \notin reapers' /\ f \notin Completed'
        /\ ~Discarding(receiver_main, f)' /\ ~Discarding(receiver_io, f)'
    BY <1>1, <1>2, <1>3, <1>6, <1>f, IdleFields DEF Unreceived, Discarding
  <2>5. Tabled(f)'
    BY <1>2, <1>4, <1>6, <2>4 DEF Tabled, Opened
  <2>6. Stored(f)'
    BY <1>4, <1>f, <2>4 DEF Stored, Unreceived
  <2>7. \A m \in Confirmed(f)' : m.chunk = 0
    BY <1>5 DEF Ack
  <2>8. Counted(f)'
    BY <1>6, <1>f, <2>1, <2>7 DEF FileInv, Counted
  <2>9. crossed' \/ Written(f)'
    <3>1. SUFFICES ASSUME ~crossed PROVE Written(f)'
      BY <1>3
    <3>2. content'[f] = <<>> /\ Filled(f, 0)' /\ DOMAIN content'[f] = {}
      BY <1>3, <1>f, <3>1 DEF Unreceived, Filled
    <3>3. handles'[fd'[f]] = f /\ Filled(f, chunk[f])'
      BY <1>4, <3>2 DEF Filled
    <3>4. \A m \in Confirmed(f)' : Filled(f, m.chunk)'
      BY <2>7, <3>2 DEF Filled
    <3> QED
      BY <2>1, <2>4, <3>2, <3>3, <3>4 DEF Written
  <2>10. Reported(f)'
    BY <1>6, <1>f DEF Reported
  <2> QED
    BY <2>2, <2>3, <2>5, <2>6, <2>8, <2>9, <2>10 DEF FileInv
<1> QED
  BY <1>7, <1>8 DEF FilesInv

\* A small file gets a name and is complete.
LEMMA StoreFiles == ASSUME TypeOK, FilesInv, StoreWhole PROVE FilesInv'
<1>1. NextFor("send") /\ receiver_io = Idle
  BY DEF StoreWhole, NextFor
<1>f. PICK f \in Files, n \in Nat :
        /\ f = Head(to_receiver).file /\ n = Head(to_receiver).chunk
        /\ FileInv(f) /\ ~Unsent(f) /\ Sent(f)' = {} /\ OnWay(f) /\ ~Acked(f) /\ ~Carving(f) /\ ~Writing(f)
        /\ n = sent_chunk[f] /\ n = 0 /\ Unreceived(f)
        /\ \A g \in Files : Thinned(to_receiver, Sent(g), to_receiver', Sent(g)')
  BY <1>1, HeadTaken
<1>2. PICK k \in Slots :
        /\ chunks[f] = 0 /\ disk[k] = Nobody
        /\ accepted' = accepted \ {f} /\ disk' = [disk EXCEPT ![k] = f] /\ name' = [name EXCEPT ![f] = k]
        /\ processed' = processed \cup {<<f, k>>}
  BY <1>f DEF StoreWhole, FirstFree
<1>3. UNCHANGED <<linkVars, to_sender, senderVars, receiving, cancelled, chunk, fd,
                  receive_timers, reapers, handles, content, crossed, receiver_main, receiver_io>>
  BY DEF StoreWhole
<1>4. /\ Slots' = Slots
      /\ \A j \in Slots : disk'[j] = (IF j = k THEN f ELSE disk[j])
      /\ name'[f] = k /\ \A g \in Files : g # f => name'[g] = name[g]
  <2>1. disk \in [Slots -> Files \cup {Nobody}] /\ name \in [Files -> Slots \cup {0}]
    BY DEF TypeOK, StoreTypeOK, TableTypeOK
  <2> QED
    BY <1>2, <2>1 DEF Slots
<1>5. Completed' = Completed \cup {f}
  BY <1>2, Completes
<1>6. UNCHANGED <<chunks, sent_chunk, sender_io, reports, offered, pending, approved, sending,
                  asked, answers, up>>
  BY <1>3 DEF senderVars, linkVars
<1>7. \A g : Confirmed(g)' = Confirmed(g) /\ Thinned(to_sender, Confirmed(g), to_sender', Confirmed(g)')
  BY <1>3, SameConfirmed
<1>8. ASSUME NEW g \in Files, g # f PROVE FileInv(g)'
  <2>1. AloofTable(g)
    BY <1>3, <1>4, <1>5, <1>8 DEF AloofTable, SameThread
  <2>2. AloofStore(g)
    BY <1>3, <1>4, <1>8 DEF AloofStore
  <2>3. AloofSender(g) /\ AloofUser(g)
    BY <1>2, <1>3, <1>6, SenderAloof DEF AloofUser
  <2>4. AloofWire(g)
    BY <1>f, <1>7 DEF AloofWire
  <2> QED
    BY <2>1, <2>2, <2>3, <2>4, AloofKeeps DEF Aloof, FilesInv
<1>9. FileInv(f)'
  <2>1. ~OnWay(f)' /\ Confirmed(f)' = {} /\ ~Acked(f)' /\ ~Carving(f)' /\ ~Writing(f)' /\ \A L : ~Doing(f, L)'
    BY <1>1, <1>3, <1>6, <1>7, <1>f, IdleFields DEF OnWay, Acked, Carving, Writing, Doing
  <2>2. OneToken(f)'
    BY <1>f, <2>1 DEF OneToken, AtMostOne
  <2>3. Starts(f)' /\ AskedOnce(f)'
    <3>1. ~Unsent(f)'
      BY <1>6, <1>f DEF Unsent, Refused
    <3> QED
      BY <1>2, <1>6, <1>f, <3>1 DEF Starts, Unsent, FileInv, AskedOnce, Refused
  <2>4. /\ f \notin receiving' /\ f \notin cancelled' /\ f \notin reapers'
        /\ ~Discarding(receiver_main, f)' /\ ~Discarding(receiver_io, f)'
    BY <1>1, <1>3, <1>f, IdleFields DEF Unreceived, Discarding
  <2>5. Tabled(f)'
    BY <2>1, <2>4 DEF Tabled
  <2>6. Stored(f)'
    BY <1>3, <1>4, <1>5, <1>f DEF Stored, Unreceived
  <2>7. Counted(f)'
    BY <1>6, <1>f, <2>1 DEF FileInv, Counted
  <2>8. crossed' \/ Written(f)'
    <3>1. SUFFICES ASSUME ~crossed PROVE Written(f)'
      BY <1>3
    <3>2. content'[f] = <<>> /\ chunks'[f] = 0 /\ DOMAIN content'[f] = {}
      BY <1>2, <1>3, <1>6, <1>f, <3>1 DEF Unreceived
    <3> QED
      BY <2>1, <2>4, <3>2 DEF Written, Filled
  <2>9. Reported(f)'
    BY <1>2, <1>6 DEF Reported
  <2> QED
    BY <2>2, <2>3, <2>5, <2>6, <2>7, <2>8, <2>9 DEF FileInv
<1> QED
  BY <1>8, <1>9 DEF FilesInv

\* A chunk is taken: it is to be written, refused or ignored.
LEMMA ReceiveFiles == ASSUME TypeOK, FilesInv, ReceiveChunk PROVE FilesInv'
<1>1. NextFor("chunk") /\ receiver_io = Idle
  BY DEF ReceiveChunk, NextFor
<1>f. PICK f \in Files, n \in Nat :
        /\ f = Head(to_receiver).file /\ n = Head(to_receiver).chunk
        /\ FileInv(f) /\ ~Unsent(f) /\ Sent(f)' = {} /\ OnWay(f) /\ ~Acked(f) /\ ~Carving(f) /\ ~Writing(f)
        /\ n = sent_chunk[f]
        /\ ~(chunks[f] > 0 /\ <<f, "done">> \in reports)
        /\ \A g \in Files : Thinned(to_receiver, Sent(g), to_receiver', Sent(g)')
  BY <1>1, HeadTaken
<1>2. \/ /\ f \in receiving /\ chunk[f] + 1 = n /\ f \notin cancelled
         /\ chunk' = [chunk EXCEPT ![f] = n] /\ receiver_io' = At("write", f, n)
      \/ receiver_io' = At("cancel", f, n) /\ UNCHANGED chunk
      \/ UNCHANGED <<receiver_io, chunk>>
  BY <1>1, <1>f DEF ReceiveChunk
<1>3. UNCHANGED <<linkVars, to_sender, senderVars, accepted, receiving, cancelled, fd, name,
                  receive_timers, reapers, storeVars, receiver_main>>
  BY DEF ReceiveChunk
<1>4. UNCHANGED <<Completed, handles, disk, content, crossed, Slots, Opened(f), chunks, sent_chunk, sender_io,
                  reports, offered, pending, approved, sending, asked, answers, up>>
  BY <1>3 DEF Completed, storeVars, Slots, Opened, senderVars, linkVars
<1>5. \A g : Confirmed(g)' = Confirmed(g) /\ Thinned(to_sender, Confirmed(g), to_sender', Confirmed(g)')
  BY <1>3, SameConfirmed
<1>6. \A g \in Files : AloofSender(g) /\ AloofUser(g) /\ AloofStore(g) /\ AloofWire(g)
  BY <1>3, <1>5, <1>f, SenderAloof, StoreAloof DEF AloofUser, AloofWire, linkVars, senderVars
<1>7. ASSUME NEW g \in Files, g # f \/ UNCHANGED <<receiver_io, chunk>> PROVE FileInv(g)'
  <2>1. SameThread(receiver_io, receiver_io', g) /\ chunk'[g] = chunk[g]
    BY <1>1, <1>2, <1>7, IdleFields DEF SameThread, At, TypeOK, TableTypeOK
  <2>2. AloofTable(g)
    BY <1>3, <1>4, <2>1 DEF AloofTable, SameThread
  <2> QED
    BY <1>6, <2>2, AloofKeeps DEF Aloof, FilesInv
<1>8. ASSUME receiver_io' = At("cancel", f, n), UNCHANGED chunk PROVE FileInv(f)'
  <2>1. /\ receiver_io'.file = f /\ receiver_io'.at = "cancel"
        /\ ~Writing(f)' /\ ~Doing(f, {"write", "written", "finish"})' /\ ~Doing(f, {"written", "finish"})'
        /\ ~Doing(f, {"finish"})' /\ Doing(f, {"write", "cancel"})'
        /\ ~Discarding(receiver_io, f) /\ ~Discarding(receiver_io, f)'
        /\ UNCHANGED <<Discarding(receiver_main, f)>>
    BY <1>1, <1>3, <1>8, IdleFields DEF At, Writing, Doing, Discarding
  <2>2. Tabled(f)' /\ Stored(f)'
    BY <1>3, <1>4, <1>f, <2>1 DEF FileInv, Tabled, Stored, Discarded
  <2>3. crossed' \/ Written(f)'
    BY <1>3, <1>4, <1>5, <1>f, <2>1 DEF FileInv, Written, Filled
  <2> QED
    BY <1>3, <1>4, <1>5, <1>8, <1>f, <2>1, <2>2, <2>3, Moved
<1>9. ASSUME f \in receiving, chunk[f] + 1 = n, f \notin cancelled,
             chunk' = [chunk EXCEPT ![f] = n], receiver_io' = At("write", f, n)
      PROVE  FileInv(f)'
  <2>1. /\ receiver_io'.file = f /\ receiver_io'.at = "write" /\ receiver_io'.chunk = n /\ chunk'[f] = n
        /\ ~OnWay(f)' /\ ~Acked(f)' /\ ~Carving(f)' /\ Confirmed(f)' = {}
    <3>1. receiver_io'.file = f /\ receiver_io'.at = "write" /\ receiver_io'.chunk = n
      BY <1>9 DEF At
    <3>2. chunk'[f] = n
      BY <1>9 DEF TypeOK, TableTypeOK
    <3> QED
      BY <1>4, <1>5, <1>f, <3>1, <3>2 DEF OnWay, Acked, Carving
  <2>2. OneToken(f)'
    BY <1>f, <2>1 DEF OneToken, AtMostOne
  <2>3. Starts(f)' /\ AskedOnce(f)'
    <3>1. ~Unsent(f)'
      BY <1>4, <1>f DEF Unsent, Refused
    <3> QED
      BY <1>3, <1>4, <1>f, <3>1 DEF Starts, Unsent, FileInv, AskedOnce, Refused
  <2>4. ~Discarding(receiver_io, f) /\ ~Discarding(receiver_io, f)' /\ UNCHANGED <<Discarding(receiver_main, f)>>
    BY <1>1, <1>3, <2>1, IdleFields DEF Discarding
  <2>5. f \notin Completed /\ Opened(f)
    BY <1>9, <1>f DEF FileInv, Tabled
  <2>6. Tabled(f)' /\ Stored(f)'
    BY <1>3, <1>4, <1>f, <2>4, <2>5 DEF FileInv, Tabled, Stored, Discarded
  <2>7. Counted(f)'
    <3>1. sent_chunk[f] <= chunks[f]
      BY <1>f DEF FileInv, Counted
    <3> QED
      BY <1>4, <1>f, <2>1, <3>1 DEF Counted
  <2>8. crossed' \/ Written(f)'
    <3>1. SUFFICES ASSUME ~crossed PROVE Written(f)'
      BY <1>4
    <3>2. Written(f) /\ ~Doing(f, {"write", "cancel"})
      BY <1>1, <1>f, <3>1, IdleFields DEF FileInv, Doing
    <3>3. handles[fd[f]] = f /\ Filled(f, chunk[f]) /\ chunk[f] = n - 1
      <4>1. chunk[f] \in Nat
        BY DEF TypeOK, TableTypeOK
      <4> QED
        BY <1>9, <3>2, <4>1 DEF Written
    <3>4. handles'[fd'[f]] = f /\ Filled(f, receiver_io.chunk - 1)' /\ Doing(f, {"write", "cancel"})'
      BY <1>3, <1>4, <2>1, <3>3 DEF Filled, Doing
    <3>5. ~Doing(f, {"written", "finish"})' /\ ~Doing(f, {"finish"})'
      BY <2>1 DEF Doing
    <3> QED
      BY <1>4, <2>1, <2>5, <3>2, <3>4, <3>5 DEF Written
  <2>9. Reported(f)'
    BY <1>4, <1>f DEF Reported
  <2> QED
    BY <2>2, <2>3, <2>6, <2>7, <2>8, <2>9 DEF FileInv
<1> QED
  BY <1>2, <1>7, <1>8, <1>9 DEF FilesInv

\* A chunk is written to the descriptor that has the number of the file's.
LEMMA WriteFiles == ASSUME TypeOK, FilesInv, WriteChunk PROVE FilesInv'
<1>1. PICK f \in Files, n \in Nat : f = receiver_io.file /\ n = receiver_io.chunk
  BY PlaceFields DEF WriteChunk, TypeOK, PlaceTypeOK
<1> DEFINE target == handles[fd[f]]
<1>2. /\ receiver_io.at = "write" /\ receiver_io'.file = f /\ receiver_io'.chunk = n
      /\ \/ receiver_io'.at = "cancel" /\ UNCHANGED <<content, to_sender>>
         \/ /\ receiver_io'.at = "written" /\ target # Nobody
            /\ content' = [content EXCEPT ![target] = Append(@, <<f, n>>)]
            /\ Reply(f, TRUE, n)
  <2>1. receiver_io \in Labels({"write", "written", "finish", "cancel", "discard"}) /\ receiver_io.at = "write"
    BY IdleFields DEF WriteChunk, TypeOK, PlaceTypeOK
  <2>2. PICK failed \in BOOLEAN :
           /\ target = Nobody => failed
           /\ receiver_io' = [receiver_io EXCEPT !.at = AfterWrite(failed)]
           /\ content' = IF failed THEN content ELSE [content EXCEPT ![target] = Append(@, <<f, n>>)]
           /\ IF AfterWrite(failed) = "written" THEN Reply(f, TRUE, n) ELSE UNCHANGED to_sender
    BY <1>1 DEF WriteChunk
  <2>3. CASE failed
    BY <1>1, <2>1, <2>2, <2>3 DEF AfterWrite, Labels
  <2>4. CASE ~failed
    BY <1>1, <2>1, <2>2, <2>4 DEF AfterWrite, Labels
  <2> QED
    BY <2>3, <2>4
<1>3. UNCHANGED <<linkVars, to_receiver, senderVars, tableVars, handles, disk, processed, crossed, receiver_main>>
  BY DEF WriteChunk
<1>4. UNCHANGED <<accepted, receiving, cancelled, chunk, fd, name, receive_timers, reapers>>
  BY <1>3 DEF tableVars
<1>5. UNCHANGED <<Completed, Slots, Opened(f), chunks, sent_chunk, sender_io,
                  reports, offered, pending, approved, sending, asked, answers, up>>
  BY <1>3, <1>4 DEF Completed, Slots, Opened, senderVars, linkVars
<1>f. /\ FileInv(f) /\ Writing(f) /\ ~OnWay(f) /\ ~Acked(f) /\ ~Carving(f) /\ ~Unreceived(f) /\ ~Unsent(f)
      /\ Opened(f) /\ f \notin Completed /\ ~(chunks[f] > 0 /\ <<f, "done">> \in reports)
      /\ n = sent_chunk[f] /\ n = chunk[f] /\ n <= chunks[f]
  <2>1. FileInv(f) /\ Writing(f) /\ Doing(f, {"write", "written", "finish"})
    BY <1>1, <1>2 DEF FilesInv, Writing, Doing
  <2>2. ~OnWay(f) /\ ~Acked(f) /\ ~Carving(f) /\ ~Unreceived(f)
    BY <1>1, <2>1 DEF FileInv, OneToken, Unreceived
  <2>3. ~Unsent(f) /\ Opened(f) /\ f \notin Completed /\ ~(chunks[f] > 0 /\ <<f, "done">> \in reports)
    BY <2>1 DEF FileInv, Starts, NoToken, Tabled, Reported
  <2>4. n = sent_chunk[f] /\ n = chunk[f] /\ n <= chunks[f]
    BY <1>1, <2>1 DEF FileInv, Counted
  <2> QED
    BY <2>1, <2>2, <2>3, <2>4
<1>6. /\ ~Writing(f)' /\ ~Discarding(receiver_io, f) /\ ~Discarding(receiver_io, f)'
      /\ UNCHANGED <<Discarding(receiver_main, f)>>
  BY <1>2, <1>3 DEF Writing, Doing, Discarding
<1>7. Tabled(f)' /\ Stored(f)'
  <2>1. Tabled(f)'
    BY <1>3, <1>4, <1>5, <1>6, <1>f DEF FileInv, Tabled
  <2>2. Stored(f)'
    BY <1>3, <1>4, <1>5, <1>6, <1>f DEF FileInv, Stored, Discarded
  <2> QED
    BY <2>1, <2>2
<1>8. crossed \/ target \in {f, Nobody}
  BY <1>f DEF FileInv, Written
<1>9. ASSUME NEW g \in Files, g # f PROVE FileInv(g)'
  <2>1. AloofTable(g)
    BY <1>1, <1>2, <1>3, <1>4, <1>5, <1>9 DEF AloofTable, SameThread
  <2>2. crossed' \/ content'[g] = content[g]
    <3>1. content \in [Files -> Seq(Files \X Nat)]
      BY DEF TypeOK, StoreTypeOK
    <3> QED
      BY <1>2, <1>3, <1>8, <1>9, <3>1
  <2>3. AloofStore(g)
    BY <1>3, <1>4, <2>2 DEF AloofStore
  <2>4. AloofSender(g) /\ AloofUser(g)
    BY <1>3, <1>4, <1>5, SenderAloof DEF AloofUser
  <2>5. Thinned(to_sender, Confirmed(g), to_sender', Confirmed(g)')
    BY <1>2, <1>9, Replies, SameConfirmed DEF TypeOK
  <2>6. AloofWire(g)
    BY <1>3, <2>5, SameSent DEF AloofWire
  <2> QED
    BY <2>1, <2>3, <2>4, <2>6, AloofKeeps DEF Aloof, FilesInv
<1>10. ASSUME receiver_io'.at = "cancel", UNCHANGED <<content, to_sender>> PROVE FileInv(f)'
  <2>1. /\ ~Doing(f, {"write", "written", "finish"})' /\ ~Doing(f, {"written", "finish"})'
        /\ ~Doing(f, {"finish"})' /\ Doing(f, {"write", "cancel"})'
    BY <1>2, <1>10 DEF Doing
  <2>2. Confirmed(f)' = Confirmed(f) /\ Thinned(to_sender, Confirmed(f), to_sender', Confirmed(f)')
    BY <1>10, SameConfirmed
  <2>3. crossed' \/ Written(f)'
    BY <1>3, <1>4, <1>5, <1>6, <1>10, <1>f, <2>1, <2>2 DEF FileInv, Written, Filled
  <2> QED
    BY <1>3, <1>4, <1>6, <1>7, <1>10, <1>f, <2>1, <2>2, <2>3, Handled
<1>11. ASSUME receiver_io'.at = "written", target # Nobody,
              content' = [content EXCEPT ![target] = Append(@, <<f, n>>)], Reply(f, TRUE, n)
       PROVE  FileInv(f)'
  <2>1. Confirmed(f)' \subseteq {Ack(f, TRUE, n)} /\ AtMostOne(to_sender, Confirmed(f))'
    BY <1>11, <1>f, Replies DEF TypeOK, Acked
  <2>2. Sent(f)' = {} /\ ~OnWay(f)' /\ ~Carving(f)'
    BY <1>3, <1>5, <1>f, SameSent DEF OnWay, Carving
  <2>3. OneToken(f)'
    BY <1>6, <2>1, <2>2 DEF OneToken, AtMostOne
  <2>4. Starts(f)' /\ AskedOnce(f)'
    <3>1. ~Unsent(f)'
      BY <1>5, <1>f DEF Unsent, Refused
    <3> QED
      BY <1>4, <1>5, <1>f, <2>2, <3>1 DEF Starts, Unsent, FileInv, AskedOnce, Refused
  <2>5. \A m \in Confirmed(f)' : m.chunk = n
    BY <2>1 DEF Ack
  <2>6. Counted(f)'
    BY <1>2, <1>5, <1>6, <1>f, <2>2, <2>5 DEF FileInv, Counted
  <2>7. crossed' \/ Written(f)'
    <3>1. SUFFICES ASSUME ~crossed PROVE Written(f)'
      BY <1>3
    <3>2. target = f /\ Written(f) /\ Filled(f, n - 1)
      BY <1>1, <1>8, <1>11, <1>f, <3>1 DEF FileInv, Written
    <3>3. content[f] \in Seq(Files \X Nat) /\ Len(content[f]) = n - 1 /\ Len(content[f]) \in Nat
      BY <3>2 DEF TypeOK, StoreTypeOK, Filled
    <3>4. content'[f] = Append(content[f], <<f, n>>)
      BY <1>11, <3>2 DEF TypeOK, StoreTypeOK
    <3>5. Len(content'[f]) = n /\ \A i \in DOMAIN content'[f] : content'[f][i] = <<f, i>>
      <4>1. /\ DOMAIN content'[f] = 1..(Len(content[f]) + 1) /\ DOMAIN content[f] = 1..Len(content[f])
            /\ \A i \in DOMAIN content[f] : content'[f][i] = content[f][i]
            /\ content'[f][Len(content[f]) + 1] = <<f, n>>
        BY <3>3, <3>4, Appended
      <4>2. Len(content'[f]) = Len(content[f]) + 1
        BY <3>3, <3>4
      <4>3. ASSUME NEW i \in DOMAIN content'[f] PROVE content'[f][i] = <<f, i>>
        <5>1. CASE i \in DOMAIN content[f]
          BY <3>2, <4>1, <5>1 DEF Written
        <5>2. CASE i \notin DOMAIN content[f]
          <6>1. i = Len(content[f]) + 1 /\ i = n
            BY <3>3, <4>1, <4>3, <5>2
          <6> QED
            BY <4>1, <6>1
        <5> QED
          BY <5>1, <5>2
      <4> QED
        BY <3>3, <4>2, <4>3
    <3>6. Filled(f, n)' /\ Filled(f, chunk[f])' /\ Filled(f, receiver_io.chunk)' /\ chunk'[f] = n
      BY <1>2, <1>4, <1>f, <3>5 DEF Filled
    <3>7. f \in receiving' /\ f \notin cancelled' => handles'[fd'[f]] = f
      BY <1>3, <1>4, <3>2
    <3>8. ~Doing(f, {"finish"})' /\ \A m \in Confirmed(f)' : Filled(f, m.chunk)'
      BY <1>2, <1>11, <2>5, <3>6 DEF Doing, Filled
    <3> QED
      BY <1>5, <1>6, <1>f, <3>5, <3>6, <3>7, <3>8 DEF Written
  <2>8. Reported(f)'
    BY <1>5, <1>f DEF Reported
  <2> QED
    BY <1>7, <2>3, <2>4, <2>6, <2>7, <2>8 DEF FileInv
<1> QED
  BY <1>2, <1>9, <1>10, <1>11 DEF FilesInv

\* After a chunk is stored: wait for more, cancel, or go on to finish the file.
LEMMA AfterFiles == ASSUME TypeOK, FilesInv, AfterChunk PROVE FilesInv'
<1>1. PICK f \in Files, n \in Nat : f = receiver_io.file /\ n = receiver_io.chunk
  BY PlaceFields DEF AfterChunk, TypeOK, PlaceTypeOK
<1>2. /\ receiver_io.at = "written"
      /\ \/ receiver_io' = Idle
         \/ receiver_io' = At("cancel", f, n)
         \/ receiver_io' = At("finish", f, n) /\ ~(n < chunks[f])
      /\ receive_timers' = receive_timers \/ receive_timers' = Rearm(receive_timers, f, n)
      /\ UNCHANGED <<linkVars, to_receiver, to_sender, senderVars, accepted, receiving, cancelled,
                     chunk, fd, name, reapers, storeVars, receiver_main>>
  BY <1>1 DEF AfterChunk, Awaited
<1>3. UNCHANGED <<Completed, handles, disk, content, crossed, Slots, Opened(f), chunks>>
  BY <1>2 DEF Completed, storeVars, Slots, Opened, senderVars
<1>4. \A g : AloofSender(g) /\ AloofUser(g) /\ AloofStore(g) /\ AloofWire(g) /\ Confirmed(g)' = Confirmed(g)
  BY <1>2, SenderAloof, StoreAloof, SameSent, SameConfirmed DEF AloofUser, AloofWire, linkVars, senderVars
<1>5. ASSUME NEW g \in Files, g # f PROVE FileInv(g)'
  <2>1. \A t \in receive_timers' : t[1] = g => t \in receive_timers
    BY <1>2, <1>5 DEF Rearm
  <2>2. SameThread(receiver_main, receiver_main', g) /\ SameThread(receiver_io, receiver_io', g)
    BY <1>1, <1>2, <1>5, IdleFields DEF SameThread, At
  <2>3. AloofTable(g)
    BY <1>2, <1>3, <2>1, <2>2 DEF AloofTable
  <2> QED
    BY <1>4, <2>3, AloofKeeps DEF Aloof, FilesInv
<1>6. FileInv(f)'
  <2>0. FileInv(f) /\ ~Unreceived(f) /\ Doing(f, {"write", "written", "finish"}) /\ Doing(f, {"written", "finish"})
    BY <1>1, <1>2 DEF FilesInv, Unreceived, Doing
  <2>1. /\ ~Writing(f)' /\ ~Doing(f, {"write", "cancel"})
        /\ ~Discarding(receiver_io, f) /\ ~Discarding(receiver_io, f)'
        /\ UNCHANGED <<Discarding(receiver_main, f)>>
    BY <1>1, <1>2, IdleFields DEF Writing, Doing, Discarding, At
  <2>2. ASSUME Doing(f, {"write", "written", "finish"})' \/ Doing(f, {"written", "finish"})' \/ Doing(f, {"finish"})'
        PROVE  receiver_io'.chunk = n /\ n = chunks[f]
    <3>1. receiver_io' = At("finish", f, n) /\ ~(n < chunks[f])
      BY <1>2, <2>2, IdleFields DEF Doing, At
    <3>2. n <= chunks[f] /\ chunks[f] \in Nat
      BY <1>1, <2>0 DEF FileInv, Counted, TypeOK, SenderTypeOK
    <3> QED
      BY <3>1, <3>2 DEF At
  <2>3. Tabled(f)' /\ Stored(f)'
    <3>1. Opened(f) /\ f \notin Completed
      BY <2>0 DEF FileInv, Tabled
    <3> QED
      BY <1>2, <1>3, <2>0, <2>1, <3>1 DEF FileInv, Tabled, Stored, Discarded
  <2>4. crossed' \/ Written(f)'
    <3>1. SUFFICES ASSUME ~crossed PROVE Written(f)'
      BY <1>3
    <3>2. Written(f) /\ Filled(f, n)
      BY <1>1, <2>0, <3>1 DEF FileInv, Written
    <3>3. Doing(f, {"written", "finish"})' => Filled(f, receiver_io.chunk)'
      BY <1>3, <2>2, <3>2 DEF Filled
    <3>4. f \in receiving' /\ f \notin cancelled' => handles'[fd'[f]] = f /\ Filled(f, chunk[f])'
      BY <1>2, <1>3, <2>1, <3>2 DEF Written, Filled
    <3> QED
      BY <1>2, <1>3, <1>4, <2>1, <2>2, <3>2, <3>3, <3>4 DEF Written, Filled
  <2>5. Doing(f, {"write", "written", "finish"})' => receiver_io'.chunk <= chunks[f]
    BY <2>2
  <2> QED
    BY <1>2, <1>3, <1>4, <2>0, <2>1, <2>3, <2>4, <2>5, Handled, SameConfirmed
<1> QED
  BY <1>5, <1>6 DEF FilesInv

\* The file is closed and the download is complete.
LEMMA FinishFiles == ASSUME TypeOK, FilesInv, FinishFile PROVE FilesInv'
<1>1. PICK f \in Files, n \in Nat : f = receiver_io.file /\ n = receiver_io.chunk
  BY PlaceFields DEF FinishFile, TypeOK, PlaceTypeOK
<1>2. /\ receiver_io.at = "finish" /\ receiver_io' = Idle
      /\ receiving' = receiving \ {f} /\ Close(f) /\ processed' = processed \cup {<<f, name[f]>>}
      /\ UNCHANGED <<linkVars, to_receiver, to_sender, senderVars, accepted, cancelled, chunk,
                     fd, name, receive_timers, reapers, disk, content, receiver_main>>
  BY <1>1 DEF FinishFile
<1>f. /\ FileInv(f) /\ ~Unreceived(f) /\ Opened(f)
      /\ Doing(f, {"finish"}) /\ Doing(f, {"written", "finish"})
  <2>1. FileInv(f) /\ ~Unreceived(f) /\ Doing(f, {"finish"}) /\ Doing(f, {"written", "finish"})
    BY <1>1, <1>2 DEF FilesInv, Unreceived, Doing
  <2>2. Doing(f, {"write", "written", "finish"})
    BY <1>1, <1>2 DEF Doing
  <2> QED
    BY <2>1, <2>2 DEF FileInv, Tabled
<1>3. /\ Slots' = Slots
      /\ \A k \in Slots : handles'[k] = IF k = fd[f] THEN Nobody ELSE handles[k]
      /\ crossed' = (crossed \/ handles[fd[f]] \notin {f, Nobody})
  <2>1. handles \in [Slots -> Files \cup {Nobody}]
    BY DEF TypeOK, StoreTypeOK
  <2> QED
    BY <1>2, <2>1 DEF Close, Slots
<1>4. Completed' = Completed \cup {f}
  BY <1>2, Completes
<1>5. \A g : AloofSender(g) /\ AloofUser(g) /\ AloofWire(g) /\ Confirmed(g)' = Confirmed(g)
  BY <1>2, SenderAloof, SameSent, SameConfirmed DEF AloofUser, AloofWire, linkVars, senderVars
<1>6. ASSUME NEW g \in Files, g # f PROVE FileInv(g)'
  <2>1. SameThread(receiver_main, receiver_main', g) /\ SameThread(receiver_io, receiver_io', g)
    BY <1>1, <1>2, <1>6, IdleFields DEF SameThread
  <2>2. AloofTable(g)
    BY <1>2, <1>4, <1>6, <2>1 DEF AloofTable
  <2>3. AloofStore(g)
    BY <1>2, <1>3, <1>6, <1>f, IdleFields DEF AloofStore, Opened
  <2> QED
    BY <1>5, <2>2, <2>3, AloofKeeps DEF Aloof, FilesInv
<1>7. FileInv(f)'
  <2>1. /\ \A L \in SUBSET {"write", "written", "finish"} : ~Doing(f, L)'
        /\ ~Writing(f)' /\ ~Discarding(receiver_io, f) /\ ~Discarding(receiver_io, f)'
        /\ UNCHANGED <<Discarding(receiver_main, f), chunks>>
    BY <1>1, <1>2, IdleFields DEF Writing, Doing, Discarding, senderVars
  <2>2. Tabled(f)'
    <3>1. Opened(f)' /\ f \notin receiving'
      BY <1>2, <1>3, <1>f DEF Opened
    <3> QED
      BY <1>2, <1>f, <2>1, <3>1 DEF FileInv, Tabled
  <2>3. Stored(f)'
    <3>1. \A k \in Slots : handles'[k] # f
      BY <1>3, <1>f, IdleFields DEF FileInv, Stored
    <3>2. \A k \in Slots : disk'[k] = f => name'[f] = k
      BY <1>2, <1>f DEF FileInv, Stored
    <3> QED
      BY <1>3, <1>4, <3>1, <3>2 DEF Stored
  <2>4. crossed' \/ Written(f)'
    <3>1. SUFFICES ASSUME ~crossed' PROVE Written(f)'
      OBVIOUS
    <3>2. Written(f) /\ Filled(f, chunks[f])
      BY <1>3, <1>f, <3>1 DEF FileInv, Written
    <3> QED
      BY <1>2, <1>5, <2>1, <3>2 DEF Written, Filled
  <2>5. chunk' = chunk /\ content' = content
    BY <1>2
  <2> QED
    BY <1>2, <1>3, <1>5, <1>f, <2>1, <2>2, <2>3, <2>4, <2>5, Handled, SameConfirmed
<1> QED
  BY <1>6, <1>7 DEF FilesInv

\* The receiver's file thread keeps it.
LEMMA FileThreadFiles == ASSUME TypeOK, FilesInv, ReceiverFileThread PROVE FilesInv'
  BY RefuseFiles, AcceptFiles, StoreFiles, ReceiveFiles, WriteFiles, AfterFiles, FinishFiles,
     CancelFiles, DiscardFiles
     DEF ReceiverFileThread

\* The end of the connection concerns no file in particular.
LEMMA EndFiles == ASSUME TypeOK, FilesInv, Disconnect \/ Cleanups \/ UNCHANGED vars PROVE FilesInv'
<1>1. ASSUME UNCHANGED vars PROVE FilesInv'
  <2>1. UNCHANGED <<linkVars, to_receiver, to_sender, senderVars, receiverVars>>
    BY <1>1 DEF vars
  <2>2. \A g : AloofSender(g) /\ AloofTable(g) /\ AloofStore(g) /\ AloofWire(g)
    BY <2>1, ReceiverAloof, SenderAloof, SameSent, SameConfirmed DEF AloofWire
  <2>3. \A g : AloofUser(g)
    BY <2>1 DEF AloofUser, linkVars, senderVars, receiverVars, tableVars
  <2> QED
    BY <2>2, <2>3, AllAloof DEF Aloof
<1>2. ASSUME Disconnect PROVE FilesInv'
  <2>1. asked' = {} /\ answers' = {} /\ UNCHANGED <<senderVars, receiverVars>>
    BY <1>2 DEF Disconnect
  <2>2. \A g : AloofSender(g) /\ AloofTable(g) /\ AloofStore(g)
    BY <2>1, ReceiverAloof, SenderAloof
  <2>3. \A g : AloofUser(g)
    BY <2>1 DEF AloofUser, receiverVars, tableVars
  <2>4. PICK i \in 0 .. Len(to_receiver) : to_receiver' = SubSeq(to_receiver, 1, i)
    BY <1>2 DEF Disconnect
  <2>5. PICK j \in 0 .. Len(to_sender) : to_sender' = SubSeq(to_sender, 1, j)
    BY <1>2 DEF Disconnect
  <2>6. ASSUME NEW g \in Files PROVE AloofWire(g)
    <3>1. Held(to_receiver') \subseteq Held(to_receiver) /\ Held(to_sender') \subseteq Held(to_sender)
      BY <2>4, <2>5, Shortened DEF TypeOK
    <3>2. Sent(g)' \subseteq Sent(g) /\ Confirmed(g)' \subseteq Confirmed(g)
      BY <3>1 DEF Sent, Confirmed
    <3> QED
      BY <2>4, <2>5, <3>2, Shortened DEF TypeOK, AloofWire
  <2> QED
    BY <2>2, <2>3, <2>6, AllAloof DEF Aloof
<1>3. ASSUME CleanupSender PROVE FilesInv'
  <2>1. /\ ~up /\ pending' = {} /\ sending' = {}
        /\ UNCHANGED <<up, asked, answers, to_receiver, to_sender, chunks, offered, approved, sent_chunk,
                       sender_io, reports, receiverVars>>
    BY <1>3 DEF CleanupSender
  <2>2. \A g : AloofSender(g) /\ AloofTable(g) /\ AloofStore(g) /\ AloofWire(g)
    BY <2>1, ReceiverAloof, SameSent, SameConfirmed DEF AloofWire, AloofSender, Refused
  <2>3. UNCHANGED accepted
    BY <2>1 DEF receiverVars, tableVars
  <2>4. \A g \in Files : AloofUser(g)
    BY <2>1, <2>3 DEF AloofUser, FilesInv, FileInv, AskedOnce
  <2> QED
    BY <2>2, <2>4, AllAloof DEF Aloof
<1>4. ASSUME CleanupReceiver PROVE FilesInv'
  <2>1. /\ receiving' = {} /\ receive_timers' = {} /\ accepted' = {}
        /\ handles' = [k \in Slots |-> Nobody] /\ disk' = Swept
        /\ UNCHANGED <<up, asked, answers, to_receiver, to_sender, senderVars, cancelled, chunk,
                       fd, name, reapers, content, processed, crossed, receiver_main, receiver_io>>
    BY <1>4 DEF CleanupReceiver
  <2>2. \A g : AloofSender(g) /\ AloofWire(g)
    BY <2>1, SenderAloof, SameSent, SameConfirmed DEF AloofWire
  <2>3. \A g : AloofUser(g)
    BY <2>1 DEF AloofUser, senderVars
  <2>4. \A g : AloofTable(g)
    BY <2>1 DEF AloofTable, SameThread, Completed
  <2>5. \A g \in Files : AloofStore(g)
    <3>1. /\ \A k \in Slots : handles'[k] = Nobody
          /\ \A k \in Slots : disk'[k] = IF \E h \in receiving : name[h] = k THEN Nobody ELSE disk[k]
      BY <2>1 DEF Swept
    <3>2. ASSUME NEW g \in Files, NEW k \in Slots, disk'[k] = g PROVE disk[k] = g /\ g \notin receiving
      <4>1. disk[k] = g /\ ~\E h \in receiving : name[h] = k
        BY <3>1, <3>2, IdleFields
      <4>2. name[g] = k
        BY <4>1 DEF FilesInv, FileInv, Stored
      <4> QED
        BY <4>1, <4>2
    <3> QED
      BY <2>1, <3>1, <3>2, IdleFields DEF AloofStore
  <2> QED
    BY <2>2, <2>3, <2>4, <2>5, AllAloof DEF Aloof
<1> QED
  BY <1>1, <1>2, <1>3, <1>4 DEF Cleanups

-----------------------------------------------------------------------------
(***************************************************************************)
(* FilesInv is an invariant, and what it says of each transfer.            *)
(***************************************************************************)
\* It holds before anything is offered.
LEMMA FilesInit == ASSUME Init PROVE FilesInv
<1>1. SUFFICES ASSUME NEW f \in Files PROVE FileInv(f)
  BY DEF FilesInv
<1>2. /\ to_receiver = <<>> /\ to_sender = <<>> /\ sender_io = Idle
      /\ receiver_main = Idle /\ receiver_io = Idle
      /\ asked = {} /\ answers = {} /\ offered = {} /\ pending = {} /\ approved = {} /\ sending = {}
      /\ reports = {} /\ accepted = {} /\ receiving = {} /\ cancelled = {} /\ receive_timers = {}
      /\ reapers = {} /\ processed = {} /\ crossed = FALSE
      /\ sent_chunk[f] = 0 /\ content[f] = <<>>
      /\ \A k \in Slots : handles[k] = Nobody /\ disk[k] = Nobody
  BY DEF Init
<1>3. chunks[f] \in Nat
  <2>1. chunks[f] \in Sizes[f]
    BY DEF Init
  <2> QED
    BY <2>1, SizesAssumption
<1>4. Completed = {}
  BY <1>2 DEF Completed
<1>5. Sent(f) = {} /\ Confirmed(f) = {}
  <2>1. DOMAIN to_receiver = {} /\ DOMAIN to_sender = {}
    BY <1>2
  <2> QED
    BY <2>1 DEF Sent, Confirmed, Held
<1>6. NoToken(f) /\ Unreceived(f) /\ \A L : ~Doing(f, L)
  BY <1>2, <1>4, <1>5, IdleFields DEF NoToken, OnWay, Acked, Carving, Writing, Doing, Unreceived
<1>7. OneToken(f)
  BY <1>5, <1>6 DEF OneToken, NoToken, AtMostOne
<1>8. Starts(f) /\ AskedOnce(f)
  BY <1>2, <1>6 DEF Starts, AskedOnce, Refused
<1>9. Tabled(f) /\ Stored(f)
  BY <1>2, <1>4, <1>6, IdleFields DEF Tabled, Stored, Discarding
<1>10. Counted(f)
  BY <1>2, <1>3, <1>5, <1>6 DEF Counted, NoToken
<1>11. Written(f)
  <2>1. DOMAIN content[f] = {}
    BY <1>2
  <2> QED
    BY <1>2, <1>4, <1>5, <1>6, <2>1 DEF Written, NoToken
<1>12. Reported(f)
  BY <1>2 DEF Reported
<1> QED
  BY <1>7, <1>8, <1>9, <1>10, <1>11, <1>12 DEF FileInv

\* Every step keeps it.
LEMMA FilesStep == ASSUME TypeOK, FilesInv, [Next]_vars PROVE FilesInv'
  BY SenderFiles, ReceiverMainFiles, FileThreadFiles, EndFiles DEF Next

\* FilesInv, with the types it needs, holds in every reachable state.
LEMMA FilesAlways == Spec => [](TypeOK /\ FilesInv)
<1>1. Init => FilesInv
  BY FilesInit
<1>2. TypeOK /\ FilesInv /\ [Next]_vars => FilesInv'
  BY FilesStep
<1> QED
  BY <1>1, <1>2, TypeCorrect, PTL DEF Spec

\* How many of the messages of a channel are in S, if it is at most one.
LEMMA CountOne ==
    ASSUME NEW M, NEW s \in Seq(M), NEW S, AtMostOne(s, S)
    PROVE  LET I == {i \in 1 .. Len(s) : s[i] \in S}
           IN  Cardinality(I) = IF Held(s) \cap S = {} THEN 0 ELSE 1
<1> DEFINE I == {i \in 1 .. Len(s) : s[i] \in S}
<1>1. DOMAIN s = 1 .. Len(s)
  OBVIOUS
<1>2. CASE Held(s) \cap S = {}
  <2>1. I = {}
    BY <1>1, <1>2 DEF Held
  <2> QED
    BY <1>2, <2>1, FS_EmptySet
<1>3. CASE Held(s) \cap S # {}
  <2>1. PICK i \in I : TRUE
    BY <1>1, <1>3 DEF Held
  <2>2. I = {i}
    BY <1>1 DEF AtMostOne
  <2> HIDE DEF I
  <2>3. Cardinality(I) = 1
    BY <2>2, FS_Singleton
  <2> QED
    BY <1>3, <2>3 DEF I
<1> QED
  BY <1>2, <1>3

\* Stop and wait: at most one chunk or positive acknowledgement of a transfer
\* is on the way or in the hands of a file thread, whatever times out, is
\* cancelled or lost (do_process_file_ack_chunk(), do_process_file_send_chunk()).
THEOREM OneInFlightHolds == Spec => []OneInFlight
<1>1. ASSUME TypeOK, FilesInv, NEW f \in Files
      PROVE  Cardinality(InFlight(f)) + Cardinality(Acks(f))
               + At1(sender_io, f, {"carve"}) + At1(receiver_io, f, {"write"}) <= 1
  <2>1. OneToken(f)
    BY <1>1 DEF FilesInv, FileInv
  <2>2. InFlight(f) = {i \in 1 .. Len(to_receiver) : to_receiver[i] \in Sent(f)}
    <3>1. DOMAIN to_receiver = 1 .. Len(to_receiver)
      BY <1>1 DEF TypeOK
    <3> QED
      BY <3>1 DEF InFlight, Sent, Held
  <2>3. Acks(f) = {j \in 1 .. Len(to_sender) : to_sender[j] \in Confirmed(f)}
    <3>1. DOMAIN to_sender = 1 .. Len(to_sender)
      BY <1>1 DEF TypeOK
    <3> QED
      BY <3>1 DEF Acks, Confirmed, Held
  <2>4. Held(to_receiver) \cap Sent(f) = Sent(f) /\ Held(to_sender) \cap Confirmed(f) = Confirmed(f)
    BY DEF Sent, Confirmed
  <2>5. Cardinality(InFlight(f)) = IF OnWay(f) THEN 1 ELSE 0
    BY <1>1, <2>1, <2>2, <2>4, CountOne DEF TypeOK, OneToken, OnWay
  <2>6. Cardinality(Acks(f)) = IF Acked(f) THEN 1 ELSE 0
    BY <1>1, <2>1, <2>3, <2>4, CountOne DEF TypeOK, OneToken, Acked
  <2>7. /\ At1(sender_io, f, {"carve"}) = IF Carving(f) THEN 1 ELSE 0
        /\ At1(receiver_io, f, {"write"}) = IF Writing(f) THEN 1 ELSE 0
    BY DEF At1, Carving, Writing, Doing
  <2> QED
    BY <2>1, <2>5, <2>6, <2>7 DEF OneToken
<1>2. TypeOK /\ FilesInv => OneInFlight
  BY <1>1 DEF OneInFlight
<1> QED
  BY <1>2, FilesAlways, PTL

\* What needs an approval is written only if the user gave one in time, and the
\* user is asked once (send_data_ask_timeout(), _process_data_response(),
\* accept_data()).
THEOREM ApprovedOnlyHolds == Spec => []ApprovedOnly
<1>1. ASSUME FilesInv, NEW f \in Ask
      PROVE  /\ f \in sending \cup receiving \cup Completed => <<f, "refused">> \notin reports
             /\ ~(f \in asked /\ f \in accepted \cup receiving \cup Completed)
  <2>1. f \in Files /\ FileInv(f)
    BY <1>1, SetsAssumption DEF FilesInv
  <2>2. Unsent(f) => f \notin sending /\ f \notin receiving /\ f \notin Completed
    BY <2>1 DEF FileInv, Starts, Unreceived
  <2>3. f \in asked => Unsent(f) /\ f \notin accepted
    BY <2>1 DEF FileInv, AskedOnce, Unsent
  <2> QED
    BY <2>2, <2>3 DEF Unsent, Refused
<1>2. FilesInv => ApprovedOnly
  BY <1>1 DEF ApprovedOnly
<1> QED
  BY <1>2, FilesAlways, PTL

\* With its threads at rest the receiver has no descriptor open and no partial
\* file but those of transfers that go on (cancel_file(), do_process_file_send(),
\* cleanup()).
THEOREM NothingLeftBehindHolds == Spec => []NothingLeftBehind
<1>1. ASSUME TypeOK, FilesInv, receiver_main = Idle, receiver_io = Idle, NEW k \in Slots
      PROVE  /\ handles[k] # Nobody => handles[k] \in receiving \ cancelled
             /\ disk[k] # Nobody => disk[k] \in (receiving \ cancelled) \cup Completed
  <2>1. /\ handles[k] # Nobody => handles[k] \in Files
        /\ disk[k] # Nobody => disk[k] \in Files
    BY <1>1 DEF TypeOK, StoreTypeOK
  <2>2. ASSUME NEW f \in Files PROVE Stored(f) /\ ~Discarded(f)
    BY <1>1, IdleFields DEF FilesInv, FileInv, Discarded, Discarding
  <2>3. handles[k] # Nobody => handles[k] \in receiving \ cancelled
    BY <2>1, <2>2 DEF Stored
  <2>4. disk[k] # Nobody => disk[k] \in (receiving \ cancelled) \cup Completed
    BY <2>1, <2>2 DEF Stored
  <2> QED
    BY <2>3, <2>4
<1>2. TypeOK /\ FilesInv => NothingLeftBehind
  BY <1>1 DEF NothingLeftBehind
<1> QED
  BY <1>2, FilesAlways, PTL

\* What is filled with the chunks of a file, each in its place, is the file.
LEMMA FilledIsWhole ==
    ASSUME TypeOK, NEW f \in Files, \A n \in DOMAIN content[f] : content[f][n] = <<f, n>>,
           Filled(f, chunks[f])
    PROVE  Whole(f)
<1>1. content[f] \in Seq(Files \X Nat) /\ Len(content[f]) = chunks[f]
  BY DEF TypeOK, StoreTypeOK, Filled
<1>2. DOMAIN content[f] = 1 .. chunks[f] /\ content[f] = [n \in DOMAIN content[f] |-> content[f][n]]
  BY <1>1
<1> QED
  BY <1>2 DEF Whole

\* The sender's report that a transfer is complete is never early: all of its
\* chunks are stored, in order (do_process_file_ack_chunk()).
THEOREM DoneIsWrittenHolds == Spec => []DoneIsWritten
<1>1. ASSUME TypeOK, FilesInv, NEW f \in Files, chunks[f] > 0, <<f, "done">> \in reports
      PROVE  crossed \/ Whole(f)
  <2>1. FileInv(f)
    BY <1>1 DEF FilesInv
  <2>2. crossed \/ (Written(f) /\ Filled(f, chunks[f]))
    BY <1>1, <2>1 DEF FileInv, Reported
  <2> QED
    BY <1>1, <2>2, FilledIsWhole DEF Written
<1>2. TypeOK /\ FilesInv => DoneIsWritten
  BY <1>1 DEF DoneIsWritten
<1> QED
  BY <1>2, FilesAlways, PTL

\* A download that was processed holds every chunk of its file, once and in
\* order, unless a descriptor was closed under another transfer by number
\* (do_process_file_send_chunk(), write_file_data()).
THEOREM WholeUnlessCrossedHolds == Spec => []WholeUnlessCrossed
<1>1. ASSUME TypeOK, FilesInv, ~crossed, NEW f \in Completed PROVE Whole(f)
  <2>1. f \in Files
    BY <1>1 DEF Completed, TypeOK, StoreTypeOK
  <2>2. Written(f) /\ Filled(f, chunks[f])
    BY <1>1, <2>1 DEF FilesInv, FileInv, Written
  <2> QED
    BY <1>1, <2>1, <2>2, FilledIsWhole DEF Written
<1>2. TypeOK /\ FilesInv => WholeUnlessCrossed
  BY <1>1 DEF WholeUnlessCrossed, WholeFiles
<1> QED
  BY <1>2, FilesAlways, PTL
=============================================================================
