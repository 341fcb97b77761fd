---------------------------- MODULE FileTransfer ----------------------------
(***************************************************************************)
(* The transfer of files between two ends of a connection, in              *)
(* xpra/net/file_transfer.py.                                              *)
(*                                                                         *)
(* A file is announced, with its content if it is small; otherwise the     *)
(* receiver acknowledges the announcement, then every chunk, and each      *)
(* acknowledgement makes the sender carve out the next one.  Each end has  *)
(* a main loop, which runs the timers and the user's requests, and a file  *)
(* thread, which runs the handlers of packets one at a time, in order: the *)
(* queue of the file thread is the tail of the channel that feeds it.  The *)
(* two threads of an end share its table of transfers without a lock.      *)
(*                                                                         *)
(* An action is what a thread does between two points where the other can  *)
(* change what it is about to use.  Every file has the same base name.     *)
(***************************************************************************)
EXTENDS Integers, Sequences, FiniteSets

CONSTANTS
    Files,          \* the files of a model, each offered once
    Sizes,          \* Sizes[f]: how many chunks f may have, 0 if it is sent whole
    MaxConcurrent,  \* MAX_CONCURRENT_FILES
    Ask,            \* the files that the receiver's user must approve
    BadDigest,      \* the files whose digest will not match
    DiskErrors,     \* which of {"open", "write"} may fail
    Cancellable,    \* the files that the receiver's user may cancel
    Nobody          \* no file

ASSUME SizesAssumption == IsFiniteSet(Files) /\ Sizes \in [Files -> SUBSET Nat]
ASSUME NobodyAssumption == Nobody \notin Files
ASSUME MaxConcurrentAssumption == MaxConcurrent \in Nat \ {0}
ASSUME SetsAssumption ==
    Ask \subseteq Files /\ BadDigest \subseteq Files /\ Cancellable \subseteq Files

VARIABLES
    alive,           \* the ends that were not cleaned up
    up,              \* the connection
    to_receiver,     \* announcements and chunks on their way, in order
    to_sender,       \* acknowledgements on their way, in order
    asked,           \* requests for approval on their way or on the user's screen
    answers,         \* answers to them on their way
    \* the sender
    chunks,          \* the size of each file in chunks
    offered,         \* the files given to send_file()
    pending,         \* pending_send_data and its timers
    approved,        \* files that wait for the file thread to send them
    sending,         \* send_chunks_in_progress
    sent_chunk,      \* its chunk numbers
    send_timers,     \* timers of chunks not acknowledged
    sender_main,     \* where the main loop is
    sender_io,       \* where the file thread is
    reports,         \* history: transfers reported complete, or never approved
    \* the receiver
    accepted,        \* data_send_requests
    receiving,       \* receive_chunks_in_progress
    cancelled,       \* those of them marked as cancelled
    chunk,           \* the last chunk number of each
    fd, name,        \* the descriptor and the file name of each
    receive_timers,  \* timers of chunks expected
    reapers,         \* timers that forget a cancelled transfer
    receiver_main,   \* where the main loop is
    receiver_io,     \* where the file thread is
    handles,         \* the open descriptors: handles[d] is the file they write to
    disk,            \* the download directory: disk[k] is the file of that name
    content,         \* the chunks stored in each file, in order
    processed,       \* history: downloads completed, with the name they have
    crossed          \* history: a descriptor was closed by one that no longer owned it

senderVars == <<chunks, offered, pending, approved, sending, sent_chunk, send_timers,
                sender_main, sender_io, reports>>
tableVars == <<accepted, receiving, cancelled, chunk, fd, name, receive_timers, reapers>>
storeVars == <<handles, disk, content, processed, crossed>>
receiverVars == <<tableVars, storeVars, receiver_main, receiver_io>>
linkVars == <<alive, up, asked, answers>>
vars == <<linkVars, to_receiver, to_sender, senderVars, receiverVars>>

Idle == [at |-> "idle", file |-> Nobody, chunk |-> 0]
At(label, f, n) == [at |-> label, file |-> f, chunk |-> n]

\* Names and descriptors are numbered, the first free one is taken.
Slots == 1 .. Cardinality(Files) + 1
FirstFree(table, k) == table[k] = Nobody /\ \A j \in 1 .. k - 1 : table[j] # Nobody

Init ==
    /\ alive = {"sender", "receiver"} /\ up = TRUE
    /\ to_receiver = <<>> /\ to_sender = <<>>
    /\ asked = {} /\ answers = {}
    /\ chunks \in {s \in [Files -> UNION {Sizes[f] : f \in Files}] : \A f \in Files : s[f] \in Sizes[f]}
    /\ offered = {} /\ pending = {} /\ approved = {}
    /\ sending = {} /\ sent_chunk = [f \in Files |-> 0] /\ send_timers = {}
    /\ sender_main = Idle /\ sender_io = Idle /\ reports = {}
    /\ accepted = {} /\ receiving = {} /\ cancelled = {}
    /\ chunk = [f \in Files |-> 0]
    /\ fd = [f \in Files |-> 0] /\ name = [f \in Files |-> 0]
    /\ receive_timers = {} /\ reapers = {}
    /\ receiver_main = Idle /\ receiver_io = Idle
    /\ handles = [k \in Slots |-> Nobody] /\ disk = [k \in Slots |-> Nobody]
    /\ content = [f \in Files |-> <<>>]
    /\ processed = {} /\ crossed = FALSE

TimersOf(timers, f) == {t \in timers : t[1] = f}

\* Mutant of Rearm: a timer that is still running is kept.
RearmIfNone(timers, f, n) == IF TimersOf(timers, f) = {} THEN timers \cup {<<f, n>>} ELSE timers

\* A new timer takes the place of the one of the transfer's previous chunk.
Rearm(timers, f, n) == (timers \ TimersOf(timers, f)) \cup {<<f, n>>}

\* Mutant of Transmit: a message is queued again.
TransmitTwice(m) == to_receiver' = IF up THEN to_receiver \o <<m, m>> ELSE to_receiver

\* send(): what is sent when the connection is gone is lost.
Transmit(m) == to_receiver' = IF up THEN Append(to_receiver, m) ELSE to_receiver
Reply(f, ok, n) == to_sender' =
    IF up THEN Append(to_sender, [file |-> f, ok |-> ok, chunk |-> n]) ELSE to_sender

(***************************************************************************)
(* The sender.                                                             *)
(***************************************************************************)

\* do_send_file(): a large file is announced and waits for acknowledgements,
\* unless too many do already, which raises an exception.
do_send_file(f) ==
    LET announcement == [kind |-> "send", file |-> f, chunk |-> 0] IN
    IF chunks[f] = 0
    THEN /\ reports' = reports \cup {<<f, "done">>}
         /\ Transmit(announcement)
         /\ UNCHANGED <<sending, sent_chunk, send_timers>>
    ELSE /\ UNCHANGED reports
         /\ IF Cardinality(sending) < MaxConcurrent
            THEN /\ sending' = sending \cup {f}
                 /\ sent_chunk' = [sent_chunk EXCEPT ![f] = 0]
                 /\ send_timers' = Rearm(send_timers, f, 0)
                 /\ Transmit(announcement)
            ELSE UNCHANGED <<sending, sent_chunk, send_timers, to_receiver>>

\* send_file(), in the main loop: send at once, or ask first.
SendFile(f) ==
    /\ "sender" \in alive /\ sender_main = Idle
    /\ f \in Files \ offered
    /\ offered' = offered \cup {f}
    /\ IF f \in Ask
       THEN /\ IF Cardinality(pending) < MaxConcurrent
               THEN /\ pending' = pending \cup {f}
                    /\ asked' = IF up THEN asked \cup {f} ELSE asked
               ELSE UNCHANGED <<pending, asked>>
            /\ UNCHANGED <<sending, sent_chunk, send_timers, reports, to_receiver>>
       ELSE do_send_file(f) /\ UNCHANGED <<pending, asked>>
    /\ UNCHANGED <<alive, up, answers, chunks, to_sender, approved, sender_main, sender_io,
                   receiverVars>>

\* Mutant of Answered: the answer is not matched with a pending request.
AnsweredLate(f) == TRUE

\* _process_data_response(): the request is looked up and removed at once.
Answered(f) == f \in pending

\* _process_data_response(), in the parse thread.
DataResponse(f, yes) ==
    /\ <<f, yes>> \in answers
    /\ answers' = answers \ {<<f, yes>>}
    /\ pending' = pending \ {f}
    /\ approved' = IF Answered(f) /\ yes THEN approved \cup {f} ELSE approved
    /\ UNCHANGED <<alive, up, asked, to_receiver, to_sender, chunks, offered, sending, sent_chunk,
                   send_timers, sender_main, sender_io, reports, receiverVars>>

\* send_data_ask_timeout(), in the main loop.
AskTimeout(f) ==
    /\ f \in pending /\ sender_main = Idle
    /\ pending' = pending \ {f}
    /\ reports' = reports \cup {<<f, "refused">>}
    /\ UNCHANGED <<linkVars, to_receiver, to_sender, chunks, offered, approved, sending, sent_chunk,
                   send_timers, sender_main, sender_io, receiverVars>>

\* The file thread sends an approved file.
SendApproved(f) ==
    /\ f \in approved /\ sender_io = Idle
    /\ approved' = approved \ {f}
    /\ do_send_file(f)
    /\ UNCHANGED <<linkVars, to_sender, chunks, offered, pending, sender_main, sender_io, receiverVars>>

\* cancel_sending()
cancel_sending(f) ==
    /\ sending' = sending \ {f}
    /\ send_timers' = IF f \in sending THEN send_timers \ TimersOf(send_timers, f)
                      ELSE send_timers

\* Mutant of AllSent: looks at what is left after the next chunk is carved out.
AllSentSoon(f) == sent_chunk[f] + 1 >= chunks[f]

\* Nothing is left to send: chunk_state.data is empty.
AllSent(f) == sent_chunk[f] = chunks[f]

\* do_process_file_ack_chunk(): refusals, unknown transfers, wrong numbers
\* and the last acknowledgement.
AckChunk ==
    /\ sender_io = Idle /\ to_sender # <<>>
    /\ to_sender' = Tail(to_sender)
    /\ LET ack == Head(to_sender)
           f == ack.file
           failed == ~ack.ok \/ sent_chunk[f] # ack.chunk
       IN  /\ reports' = IF f \in sending /\ ~failed /\ AllSent(f)
                         THEN reports \cup {<<f, "done">>} ELSE reports
           /\ IF f \in sending /\ ~failed /\ ~AllSent(f)
              THEN sender_io' = At("carve", f, ack.chunk) /\ UNCHANGED <<sending, send_timers>>
              ELSE cancel_sending(f) /\ UNCHANGED sender_io
    /\ UNCHANGED <<linkVars, to_receiver, chunks, offered, pending, approved, sent_chunk,
                   sender_main, receiverVars>>

\* Mutant of NextChunk: the chunk number counts down.
PreviousChunk(n) == n - 1

NextChunk(n) == n + 1

\* do_process_file_ack_chunk(): the next chunk is compressed and sent, even if
\* the main loop gave the transfer up meanwhile.
CarveChunk ==
    /\ sender_io.at = "carve"
    /\ LET f == sender_io.file
           n == NextChunk(sender_io.chunk)
       IN  /\ sent_chunk' = [sent_chunk EXCEPT ![f] = n]
           /\ send_timers' = Rearm(send_timers, f, n)
           /\ Transmit([kind |-> "chunk", file |-> f, chunk |-> n])
    /\ sender_io' = Idle
    /\ UNCHANGED <<linkVars, to_sender, chunks, offered, pending, approved, sending, sender_main,
                   reports, receiverVars>>

\* _check_chunk_sending(): the decision to give up.
SendTimeout(f, n) ==
    /\ <<f, n>> \in send_timers /\ sender_main = Idle
    /\ send_timers' = send_timers \ {<<f, n>>}
    /\ sender_main' = IF f \in sending /\ sent_chunk[f] = n THEN At("giveup", f, n) ELSE Idle
    /\ UNCHANGED <<linkVars, to_receiver, to_sender, chunks, offered, pending, approved, sending,
                   sent_chunk, sender_io, reports, receiverVars>>

\* _check_chunk_sending(): cancel_sending().
SendGiveUp ==
    /\ sender_main.at = "giveup"
    /\ cancel_sending(sender_main.file)
    /\ sender_main' = Idle
    /\ UNCHANGED <<linkVars, to_receiver, to_sender, chunks, offered, pending, approved,
                   sent_chunk, sender_io, reports, receiverVars>>

(***************************************************************************)
(* The receiver's tables, and what both of its threads do with them.       *)
(***************************************************************************)

\* The user answers: an approval is recorded before it is sent.
AnswerUser(f, yes) ==
    /\ "receiver" \in alive /\ receiver_main = Idle
    /\ f \in asked
    /\ asked' = asked \ {f}
    /\ accepted' = IF yes THEN accepted \cup {f} ELSE accepted
    /\ answers' = IF up THEN answers \cup {<<f, yes>>} ELSE answers
    /\ UNCHANGED <<alive, up, to_receiver, to_sender, senderVars, receiving, cancelled,
                   chunk, fd, name, receive_timers, reapers, storeVars,
                   receiver_main, receiver_io>>

\* osclose(): whoever uses that number now loses its descriptor.
Close(f) ==
    /\ handles' = [handles EXCEPT ![fd[f]] = Nobody]
    /\ crossed' = (crossed \/ handles[fd[f]] \notin {f, Nobody})

\* Mutant of Unlinked: the partial file is left in the download directory.
KeptPartial(f) == disk

Unlinked(f) == [disk EXCEPT ![name[f]] = Nobody]

\* The test of cancel_file(), made together with the marking of the transfer.
Cancels(f) == f \in receiving /\ f \notin cancelled

\* cancel_file() up to the closing of the descriptor; `here' is the thread's
\* place and `there' the place where it goes on.
CancelStep(pc, pcNext) ==
    LET f == pc.file IN
    /\ pc.at = "cancel"
    /\ IF Cancels(f)
       THEN /\ cancelled' = cancelled \cup {f}
            /\ receive_timers' = receive_timers \ TimersOf(receive_timers, f)
            /\ pcNext = [pc EXCEPT !.at = "discard"]
            /\ UNCHANGED to_sender
       ELSE /\ Reply(f, FALSE, pc.chunk)
            /\ pcNext = Idle
            /\ UNCHANGED <<cancelled, receive_timers>>
    /\ UNCHANGED <<linkVars, to_receiver, senderVars, accepted, receiving, chunk, fd, name,
                   reapers, storeVars>>

\* cancel_file() from the closing of the descriptor on.
DiscardStep(pc, pcNext) ==
    LET f == pc.file IN
    /\ pc.at = "discard"
    /\ Close(f)
    /\ reapers' = reapers \cup {f}
    /\ disk' = Unlinked(f)
    /\ Reply(f, FALSE, pc.chunk)
    /\ pcNext = Idle
    /\ UNCHANGED <<linkVars, to_receiver, senderVars, accepted, receiving, cancelled, chunk,
                   fd, name, receive_timers, content, processed>>

MainCancel == CancelStep(receiver_main, receiver_main') /\ UNCHANGED receiver_io
MainDiscard == DiscardStep(receiver_main, receiver_main') /\ UNCHANGED receiver_io
FileThreadCancel == CancelStep(receiver_io, receiver_io') /\ UNCHANGED receiver_main
FileThreadDiscard == DiscardStep(receiver_io, receiver_io') /\ UNCHANGED receiver_main

\* cancel_download(), from the user interface.  Cancelling twice is left out:
\* the second call finds the mark and only sends another refusal.
CancelDownload(f) ==
    /\ f \in Cancellable /\ f \in receiving \ cancelled
    /\ receiver_main = Idle
    /\ receiver_main' = At("cancel", f, 0)
    /\ UNCHANGED <<linkVars, to_receiver, to_sender, senderVars, tableVars, storeVars, receiver_io>>

\* _check_chunk_receiving()
ReceiveTimeout(f, n) ==
    /\ <<f, n>> \in receive_timers /\ receiver_main = Idle
    /\ receive_timers' = receive_timers \ {<<f, n>>}
    /\ receiver_main' = IF f \in receiving \ cancelled /\ chunk[f] = n
                        THEN At("cancel", f, n) ELSE Idle
    /\ UNCHANGED <<linkVars, to_receiver, to_sender, senderVars, accepted, receiving, cancelled,
                   chunk, fd, name, reapers, storeVars, receiver_io>>

\* clean_receive_state(): 20 seconds after a transfer was cancelled.
Reap(f) ==
    /\ f \in reapers /\ receiver_main = Idle
    /\ reapers' = reapers \ {f}
    /\ receiving' = receiving \ {f}
    /\ UNCHANGED <<linkVars, to_receiver, to_sender, senderVars, accepted, cancelled, chunk,
                   fd, name, receive_timers, storeVars, receiver_main, receiver_io>>

(***************************************************************************)
(* The receiver's file thread.                                             *)
(***************************************************************************)

NextFor(kind) ==
    /\ receiver_io = Idle /\ to_receiver # <<>>
    /\ Head(to_receiver).kind = kind
    /\ to_receiver' = Tail(to_receiver)

\* accept_data(): an approval counts once.
AcceptData(f) == f \in Ask => f \in accepted

\* do_process_file_send(), refused: not approved or in use, or the file cannot be opened,
\* or (the file is opened, then removed) too many transfers are in the table.
RefuseFile ==
    /\ NextFor("send")
    /\ LET f == Head(to_receiver).file IN
       /\ \/ ~AcceptData(f) \/ f \in receiving
          \/ "open" \in DiskErrors
          \/ chunks[f] > 0 /\ Cardinality(receiving) >= MaxConcurrent
          \/ chunks[f] = 0 /\ (f \in BadDigest \/ "write" \in DiskErrors)
       /\ accepted' = accepted \ {f}
       /\ IF chunks[f] > 0 THEN Reply(f, FALSE, 0) ELSE UNCHANGED to_sender
    /\ UNCHANGED <<linkVars, senderVars, receiving, cancelled, chunk, fd, name, receive_timers,
                   reapers, storeVars, receiver_main, receiver_io>>

\* do_process_file_send() of a large file: the entry is made and acknowledged.
AcceptFile ==
    /\ NextFor("send")
    /\ \E d, k \in Slots : LET f == Head(to_receiver).file IN
           /\ chunks[f] > 0 /\ f \notin receiving /\ AcceptData(f)
           /\ Cardinality(receiving) < MaxConcurrent
           /\ FirstFree(handles, d) /\ FirstFree(disk, k)
           /\ accepted' = accepted \ {f}
           /\ handles' = [handles EXCEPT ![d] = f]
           /\ disk' = [disk EXCEPT ![k] = f]
           /\ fd' = [fd EXCEPT ![f] = d]
           /\ name' = [name EXCEPT ![f] = k]
           /\ chunk' = [chunk EXCEPT ![f] = 0]
           /\ receiving' = receiving \cup {f}
           /\ cancelled' = cancelled \ {f}
           /\ receive_timers' = Rearm(receive_timers, f, 0)
           /\ Reply(f, TRUE, 0)
    /\ UNCHANGED <<linkVars, senderVars, reapers, content, processed, crossed,
                   receiver_main, receiver_io>>

\* do_process_file_send() of a small file, stored at once.
StoreWhole ==
    /\ NextFor("send")
    /\ \E k \in Slots : LET f == Head(to_receiver).file IN
           /\ chunks[f] = 0 /\ AcceptData(f) /\ f \notin BadDigest
           /\ FirstFree(disk, k)
           /\ accepted' = accepted \ {f}
           /\ disk' = [disk EXCEPT ![k] = f]
           /\ name' = [name EXCEPT ![f] = k]
           /\ processed' = processed \cup {<<f, k>>}
    /\ UNCHANGED <<linkVars, to_sender, senderVars, receiving, cancelled, chunk, fd,
                   receive_timers, reapers, handles, content, crossed, receiver_main, receiver_io>>

\* do_process_file_send_chunk(), up to the write.
ReceiveChunk ==
    /\ NextFor("chunk")
    /\ LET f == Head(to_receiver).file
           n == Head(to_receiver).chunk
       IN  IF f \in receiving /\ chunk[f] + 1 = n /\ f \notin cancelled
           THEN /\ chunk' = [chunk EXCEPT ![f] = n]
                /\ receiver_io' = At("write", f, n)
           ELSE /\ receiver_io' = IF f \in receiving \cap cancelled THEN Idle
                                  ELSE At("cancel", f, n)
                /\ UNCHANGED chunk
    /\ UNCHANGED <<linkVars, to_sender, senderVars, accepted, receiving, cancelled, fd, name,
                   receive_timers, reapers, storeVars, receiver_main>>

\* Mutant of AfterWrite: a write that fails is only logged.
AfterWriteAny(failed) == "written"

AfterWrite(failed) == IF failed THEN "cancel" ELSE "written"

\* write_file_data() to a descriptor that may be closed, or be another file's,
\* and the acknowledgement.
WriteChunk ==
    /\ receiver_io.at = "write"
    /\ LET f == receiver_io.file
           n == receiver_io.chunk
           target == handles[fd[f]]
       IN  \E failed \in BOOLEAN :
              /\ target = Nobody => failed
              /\ failed => target = Nobody \/ "write" \in DiskErrors
              /\ receiver_io' = [receiver_io EXCEPT !.at = AfterWrite(failed)]
              /\ content' = IF failed THEN content
                            ELSE [content EXCEPT ![target] = Append(@, <<f, n>>)]
              /\ IF AfterWrite(failed) = "written" THEN Reply(f, TRUE, n) ELSE UNCHANGED to_sender
    /\ UNCHANGED <<linkVars, to_receiver, senderVars, tableVars, handles, disk, processed,
                   crossed, receiver_main>>

\* Mutant of Awaited: no timer is armed for the next chunk.
NotAwaited(f, n) == receive_timers

\* The timer for the chunk after n.
Awaited(f, n) == Rearm(receive_timers, f, n)

\* do_process_file_send_chunk(), after the acknowledgement: look again whether
\* the transfer was cancelled, wait for more, or compare the digests.  The sizes
\* agree: chunks are numbered, and each is written before the next one is taken.
AfterChunk ==
    /\ receiver_io.at = "written"
    /\ LET f == receiver_io.file
           n == receiver_io.chunk
           more == n < chunks[f]
       IN  /\ receiver_io' = IF f \in cancelled \/ more THEN Idle
                             ELSE At(IF f \in BadDigest THEN "cancel" ELSE "finish", f, n)
           /\ receive_timers' = IF f \notin cancelled /\ more THEN Awaited(f, n)
                                ELSE receive_timers
    /\ UNCHANGED <<linkVars, to_receiver, to_sender, senderVars, accepted, receiving, cancelled,
                   chunk, fd, name, reapers, storeVars, receiver_main>>

\* do_process_file_send_chunk(), at the end: the transfer is forgotten, the
\* descriptor closed and the download processed.
FinishFile ==
    /\ receiver_io.at = "finish"
    /\ LET f == receiver_io.file IN
       /\ receiving' = receiving \ {f}
       /\ Close(f)
       /\ processed' = processed \cup {<<f, name[f]>>}
    /\ receiver_io' = Idle
    /\ UNCHANGED <<linkVars, to_receiver, to_sender, senderVars, accepted, cancelled, chunk,
                   fd, name, receive_timers, reapers, disk, content, receiver_main>>

(***************************************************************************)
(* The end of the connection.                                              *)
(***************************************************************************)

\* What was not received yet is lost.
Disconnect ==
    /\ up /\ up' = FALSE
    /\ \E i \in 0 .. Len(to_receiver) : to_receiver' = SubSeq(to_receiver, 1, i)
    /\ \E j \in 0 .. Len(to_sender) : to_sender' = SubSeq(to_sender, 1, j)
    /\ answers' = {} /\ asked' = {}
    /\ UNCHANGED <<alive, senderVars, receiverVars>>

\* cleanup() of the sender, when its file thread has drained its queue.
CleanupSender ==
    /\ "sender" \in alive /\ ~up
    /\ sender_main = Idle /\ sender_io = Idle
    /\ to_sender = <<>> /\ approved = {}
    /\ alive' = alive \ {"sender"}
    /\ pending' = {} /\ sending' = {} /\ send_timers' = {}
    /\ UNCHANGED <<up, asked, answers, to_receiver, to_sender, chunks, offered, approved, sent_chunk,
                   sender_main, sender_io, reports, receiverVars>>

\* cleanup() unlinks the file name of every transfer in the table.
Swept == [k \in Slots |-> IF \E f \in receiving : name[f] = k THEN Nobody ELSE disk[k]]

\* cleanup() of the receiver, when its file thread has drained its queue.
CleanupReceiver ==
    /\ "receiver" \in alive /\ ~up
    /\ receiver_main = Idle /\ receiver_io = Idle
    /\ to_receiver = <<>>
    /\ alive' = alive \ {"receiver"}
    /\ receiving' = {} /\ receive_timers' = {} /\ accepted' = {}
    /\ handles' = [k \in Slots |-> Nobody]
    /\ disk' = Swept
    /\ UNCHANGED <<up, asked, answers, to_receiver, to_sender, senderVars, cancelled, chunk,
                   fd, name, reapers, content, processed, crossed, receiver_main, receiver_io>>

SenderMain ==
    \/ \E f \in Files : SendFile(f) \/ AskTimeout(f)
    \/ \E t \in send_timers : SendTimeout(t[1], t[2])
    \/ SendGiveUp

SenderThreads ==
    \/ \E f \in Files, yes \in BOOLEAN : DataResponse(f, yes)
    \/ \E f \in Files : SendApproved(f)
    \/ AckChunk \/ CarveChunk

ReceiverMain ==
    \/ \E f \in Files, yes \in BOOLEAN : AnswerUser(f, yes)
    \/ \E f \in Files : CancelDownload(f) \/ Reap(f)
    \/ \E t \in receive_timers : ReceiveTimeout(t[1], t[2])
    \/ MainCancel \/ MainDiscard

ReceiverFileThread ==
    \/ RefuseFile \/ AcceptFile \/ StoreWhole
    \/ ReceiveChunk \/ WriteChunk \/ AfterChunk \/ FinishFile
    \/ FileThreadCancel \/ FileThreadDiscard

Cleanups == CleanupSender \/ CleanupReceiver

Next == SenderMain \/ SenderThreads \/ ReceiverMain \/ ReceiverFileThread \/ Disconnect \/ Cleanups

Spec == Init /\ [][Next]_vars

(***************************************************************************)
(* Threads are scheduled, timers fire, what was sent and not lost arrives, *)
(* and the ends are cleaned up once the connection is gone.  One weak      *)
(* fairness for all of this is enough, as each of it happens a bounded     *)
(* number of times.  Nothing is assumed of the users or the connection.    *)
(***************************************************************************)
Timers ==
    \/ \E f \in Files : AskTimeout(f) \/ Reap(f)
    \/ \E t \in send_timers : SendTimeout(t[1], t[2])
    \/ \E t \in receive_timers : ReceiveTimeout(t[1], t[2])

Threads == SenderThreads \/ ReceiverFileThread \/ SendGiveUp \/ MainCancel \/ MainDiscard

FairSpec == Spec /\ WF_vars(Threads \/ Timers \/ Cleanups)

(***************************************************************************)
(* Properties.                                                             *)
(***************************************************************************)

Labels(at) == [at : at, file : Files, chunk : Nat]

LinkTypeOK ==
    /\ alive \subseteq {"sender", "receiver"} /\ up \in BOOLEAN
    /\ asked \subseteq Files /\ answers \subseteq Files \X BOOLEAN

Announcement == [kind : {"send", "chunk"}, file : Files, chunk : Nat]
Acknowledgement == [file : Files, ok : BOOLEAN, chunk : Nat]

SenderTypeOK ==
    /\ chunks \in [Files -> Nat]
    /\ offered \subseteq Files /\ pending \subseteq Files /\ approved \subseteq Files
    /\ sending \subseteq Files /\ sent_chunk \in [Files -> Nat]
    /\ send_timers \subseteq Files \X Nat
    /\ sender_main \in {Idle} \cup Labels({"giveup"})
    /\ sender_io \in {Idle} \cup Labels({"carve"})
    /\ reports \subseteq Files \X {"done", "refused"}

TableTypeOK ==
    /\ accepted \subseteq Files /\ receiving \subseteq Files /\ cancelled \subseteq Files
    /\ chunk \in [Files -> Nat]
    /\ fd \in [Files -> Slots \cup {0}] /\ name \in [Files -> Slots \cup {0}]
    /\ receive_timers \subseteq Files \X Nat /\ reapers \subseteq Files

PlaceTypeOK ==
    /\ receiver_main \in {Idle} \cup Labels({"cancel", "discard"})
    /\ receiver_io \in {Idle} \cup Labels({"write", "written", "finish", "cancel", "discard"})

StoreTypeOK ==
    /\ handles \in [Slots -> Files \cup {Nobody}] /\ disk \in [Slots -> Files \cup {Nobody}]
    /\ content \in [Files -> Seq(Files \X Nat)]
    /\ processed \subseteq Files \X (Slots \cup {0}) /\ crossed \in BOOLEAN

\* The tables hold what the code puts there, and each thread is at one of its
\* places: the dictionaries, timers and sets of FileTransferHandler.
TypeOK ==
    /\ LinkTypeOK /\ to_receiver \in Seq(Announcement) /\ to_sender \in Seq(Acknowledgement)
    /\ SenderTypeOK /\ TableTypeOK /\ PlaceTypeOK /\ StoreTypeOK

Whole(f) == content[f] = [n \in 1 .. chunks[f] |-> <<f, n>>]
Completed == {p[1] : p \in processed}

\* A download that is processed holds every chunk of its file, once, in order,
\* and nothing else: do_process_file_send_chunk() "check file size and digest
\* then process it".
WholeFiles == \A f \in Completed : Whole(f)

\* As long as no descriptor was closed under another transfer, whatever was
\* cancelled, timed out or lost meanwhile.
WholeUnlessCrossed == crossed \/ WholeFiles

\* The sender's report that a chunked transfer is complete is never early: the
\* receiver has written all of its chunks, in spite of time-outs on both ends.
DoneIsWritten ==
    \A f \in Files : chunks[f] > 0 /\ <<f, "done">> \in reports => crossed \/ Whole(f)

\* With its threads at rest, the receiver has nothing open and no partial file
\* for a transfer that it has cancelled, refused or forgotten (cancel_file(),
\* the errors of do_process_file_send(), cleanup()).
NothingLeftBehind ==
    receiver_main = Idle /\ receiver_io = Idle =>
        \A k \in Slots :
            /\ handles[k] # Nobody => handles[k] \in receiving \ cancelled
            /\ disk[k] # Nobody => disk[k] \in (receiving \ cancelled) \cup Completed

\* A file that needs an approval is not written unless the user gave one, was
\* asked once, and the sender had not given up waiting when the answer came.
ApprovedOnly ==
    \A f \in Ask :
        /\ f \in sending \cup receiving \cup Completed => <<f, "refused">> \notin reports
        /\ ~(f \in asked /\ f \in accepted \cup receiving \cup Completed)

InFlight(f) ==
    {i \in 1 .. Len(to_receiver) : to_receiver[i].file = f}
Acks(f) == {j \in 1 .. Len(to_sender) : to_sender[j].file = f /\ to_sender[j].ok}
At1(pc, f, labels) == IF pc.file = f /\ pc.at \in labels THEN 1 ELSE 0

\* Stop and wait: of each transfer there is at most one chunk, or one positive
\* acknowledgement, on the way or in the hands of a file thread.
OneInFlight ==
    \A f \in Files :
        Cardinality(InFlight(f)) + Cardinality(Acks(f))
          + At1(sender_io, f, {"carve"}) + At1(receiver_io, f, {"write"}) <= 1

SendingWatched ==
    \A f \in sending :
        <<f, sent_chunk[f]>> \in send_timers \/ f \in {sender_main.file, sender_io.file}
ReceivingWatched ==
    \A f \in receiving :
        \/ <<f, chunk[f]>> \in receive_timers
        \/ f \in reapers \cup {receiver_main.file, receiver_io.file}
\* No transfer is forgotten: each one in a table has the timer of its current
\* chunk, or a thread that is about to remove it, to close it or to arm the timer
\* (_check_chunk_sending(), _check_chunk_receiving(), clean_receive_state()).
Watched == SendingWatched /\ ReceivingWatched

\* A download that was completed stays: cleanup() only removes what its message
\* calls an "incomplete download".
CleanupKeepsDownloads ==
    [][CleanupReceiver => \A p \in processed : disk[p[2]] = p[1] => disk'[p[2]] = p[1]]_vars

InProgress(f) == f \in pending \cup approved \cup sending \cup receiving

\* Every transfer ends at both ends: completed, refused, cancelled or timed out,
\* and its entry in the tables, which are limited, is free again.
AllSettle == <>[](\A f \in Files : ~InProgress(f))
=============================================================================
