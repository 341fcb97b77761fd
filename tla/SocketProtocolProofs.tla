------------------------ MODULE SocketProtocolProofs ------------------------
(***************************************************************************)
(* Proofs about SocketProtocol, for any number of packets, any kind of     *)
(* write error and any set of handlers.                                    *)
(*                                                                         *)
(* Types are not inductive by themselves: that a thread returns from       *)
(* close() to one of its own labels, that what is put and written is a     *)
(* packet, and that task_done() is never called once too often, need what  *)
(* the threads hold at each label.                                         *)
(***************************************************************************)
EXTENDS SocketProtocol, TLAPS

Closing == {"main", "parse", "write"}

\* Where thread t may resume after close().
ResumeLabels(t) ==
    CASE t = "main" -> {"idle", "fl_done", "fl_release", "fl_release_timer"}
      [] t = "parse" -> {"read", "fl_done", "fl_release", "fl_release_timer"}
      [] OTHER -> {"exit"}

\* A thread in close() knows where to resume.
Resumes == \A t \in Closing : pc[t] \in CloseLabels => cont[t] \in ResumeLabels(t)

\* What the format and write threads hold is a packet.
Holding ==
    /\ pc["format"] \in {"lock", "acquire", "locked", "rawwrite", "put"} =>
         packet["format"] # NoPacket
    /\ pc["write"] \in {"write", "send"} => packet["write"] # NoPacket

\* Whether the write thread has a task under way.
Busy == IF pc["write"] \in {"write", "send"} THEN 1 ELSE 0

\* Every packet in the queue or being written is an unfinished task.
TasksCounted == unfinished >= Len(write_queue) + Busy

ThreadInv == ThreadTypeOK /\ Resumes

\* The inductive invariant for types.
TypeInv ==
    /\ SourceTypeOK /\ WakeTypeOK /\ ConnTypeOK /\ QueueTypeOK /\ ThreadInv
    /\ FormatTypeOK /\ LoopTypeOK /\ FlushTypeOK /\ OutTypeOK
    /\ Holding /\ TasksCounted

\* The labels of thread t outside close().
OwnLabels(t) ==
    CASE t = "main" -> {"idle"} \cup FlushLabels
      [] t = "parse" -> {"new", "begin", "read", "exit"} \cup FlushLabels
      [] t = "write" -> WriteLabels
      [] OTHER -> FormatLabels

IdleLabels == {"start", "close", "lost", "invalid", "clean"}

-----------------------------------------------------------------------------
\* A thread that moves to one of its own labels.
LEMMA Moves ==
    ASSUME ThreadInv, NEW t \in Threads, NEW label \in OwnLabels(t), Goto(t, label),
           UNCHANGED cont
    PROVE  ThreadInv' /\ pc'[t] = label /\ \A u \in Threads : u # t => pc'[u] = pc[u]
<1> USE DEF AllLabels, CloseLabels, FlushLabels, WriteLabels, FormatLabels
<1>1. label \in AllLabels /\ label \notin CloseLabels
  BY DEF OwnLabels, Threads
<1>2. /\ pc' \in [Threads -> AllLabels] /\ pc'[t] = label
      /\ \A u \in Threads : u # t => pc'[u] = pc[u]
  <2> HIDE DEF AllLabels
  <2> QED
    BY <1>1 DEF Goto, ThreadInv, ThreadTypeOK
<1>3. ThreadTypeOK'
  BY <1>2 DEF ThreadInv, ThreadTypeOK, OwnLabels, Threads
<1>4. Resumes'
  BY <1>1, <1>2 DEF ThreadInv, Resumes, Closing, Threads
<1> QED
  BY <1>2, <1>3, <1>4 DEF ThreadInv

\* A thread inside close() that moves on within it.
LEMMA MovesInClose ==
    ASSUME ThreadInv, NEW t \in Closing, NEW label \in CloseLabels, Goto(t, label),
           pc[t] \in CloseLabels, UNCHANGED cont
    PROVE  ThreadInv' /\ pc'[t] = label /\ \A u \in Threads : u # t => pc'[u] = pc[u]
<1>1. label \in AllLabels /\ t \in Threads
  BY DEF AllLabels, Closing, Threads
<1>2. /\ pc' \in [Threads -> AllLabels] /\ pc'[t] = label
      /\ \A u \in Threads : u # t => pc'[u] = pc[u]
  BY <1>1 DEF Goto, ThreadInv, ThreadTypeOK
<1>3. ThreadTypeOK'
  BY <1>2 DEF ThreadInv, ThreadTypeOK, Threads, Closing
<1>4. Resumes'
  BY <1>1, <1>2 DEF ThreadInv, Resumes, Closing, Threads
<1> QED
  BY <1>2, <1>3, <1>4 DEF ThreadInv

\* A thread that calls close(), or steals the connection, and resumes at "next".
LEMMA EntersClose ==
    ASSUME ThreadInv, NEW t \in Closing, NEW next \in ResumeLabels(t),
           NEW label \in CloseLabels, Goto(t, label), cont' = [cont EXCEPT ![t] = next]
    PROVE  ThreadInv' /\ pc'[t] = label /\ \A u \in Threads : u # t => pc'[u] = pc[u]
<1>1. label \in AllLabels /\ t \in Threads
  BY DEF AllLabels, Closing, Threads
<1>2. /\ pc' \in [Threads -> AllLabels] /\ pc'[t] = label
      /\ \A u \in Threads : u # t => pc'[u] = pc[u]
  BY <1>1 DEF Goto, ThreadInv, ThreadTypeOK
<1>3. next \in {"none", "idle", "read", "exit", "fl_done", "fl_release", "fl_release_timer"}
  BY DEF ResumeLabels, Closing
<1>4. /\ cont'[t] = next /\ \A u \in Threads : u # t => cont'[u] = cont[u]
      /\ cont' \in [Threads -> {"none", "idle", "read", "exit", "fl_done", "fl_release",
                                "fl_release_timer"}]
  BY <1>1, <1>3 DEF ThreadInv, ThreadTypeOK
<1>5. ThreadTypeOK'
  BY <1>2, <1>4 DEF ThreadInv, ThreadTypeOK, Threads, Closing
<1>6. Resumes'
  BY <1>1, <1>2, <1>4 DEF ThreadInv, Resumes, Closing, Threads
<1> QED
  BY <1>2, <1>5, <1>6 DEF ThreadInv

\* A thread resumes at labels of its own.
LEMMA ResumeOwn == ASSUME NEW t \in Closing PROVE ResumeLabels(t) \subseteq OwnLabels(t)
  BY DEF Closing, ResumeLabels, OwnLabels, FlushLabels, WriteLabels

\* A call of close().
LEMMA Closes ==
    ASSUME ThreadInv, ConnTypeOK, NEW t \in Closing, NEW next \in ResumeLabels(t),
           NEW callbacks \in Seq(IdleLabels), CloseThen(t, next, callbacks)
    PROVE  /\ ThreadInv' /\ closed' \in BOOLEAN /\ idle' \in Seq(IdleLabels)
           /\ pc'[t] \in CloseLabels \cup {next}
           /\ \A u \in Threads : u # t => pc'[u] = pc[u]
<1>1. CASE AlreadyClosed
  <2>1. Goto(t, next) /\ idle' = callbacks /\ closed' = closed /\ UNCHANGED cont
    BY <1>1 DEF CloseThen
  <2>2. t \in Threads /\ next \in OwnLabels(t)
    BY ResumeOwn DEF Closing, Threads
  <2> QED
    BY <2>1, <2>2, Moves DEF ConnTypeOK
<1>2. CASE ~AlreadyClosed
  <2>1. /\ closed' = TRUE /\ idle' = Append(callbacks, "lost") /\ Goto(t, "close_conn")
        /\ cont' = [cont EXCEPT ![t] = next]
    BY <1>2 DEF CloseThen, Announce
  <2>2. "close_conn" \in CloseLabels /\ "lost" \in IdleLabels
    BY DEF CloseLabels, IdleLabels
  <2>3. Append(callbacks, "lost") \in Seq(IdleLabels)
    BY <2>2
  <2> QED
    BY <2>1, <2>2, <2>3, EntersClose
<1> QED
  BY <1>1, <1>2

\* Nothing changes for what the format and write threads hold.
LEMMA Undisturbed ==
    ASSUME Holding, TasksCounted, pc'["format"] = pc["format"], pc'["write"] = pc["write"],
           UNCHANGED <<packet, write_queue, unfinished>>
    PROVE  Holding' /\ TasksCounted'
  BY DEF Holding, TasksCounted, Busy

\* Variables that do not change keep their types.
LEMMA Stable ==
    /\ SourceTypeOK /\ UNCHANGED sourceVars => SourceTypeOK'
    /\ WakeTypeOK /\ UNCHANGED wakeVars => WakeTypeOK'
    /\ ConnTypeOK /\ UNCHANGED connVars => ConnTypeOK'
    /\ QueueTypeOK /\ UNCHANGED queueVars => QueueTypeOK'
    /\ ThreadInv /\ UNCHANGED threadVars => ThreadInv'
    /\ FormatTypeOK /\ UNCHANGED formatVars => FormatTypeOK'
    /\ LoopTypeOK /\ UNCHANGED loopVars => LoopTypeOK'
    /\ FlushTypeOK /\ UNCHANGED flushVars => FlushTypeOK'
    /\ OutTypeOK /\ UNCHANGED <<write_thread, write_lock, outVars>> => OutTypeOK'
<1>1. SourceTypeOK /\ UNCHANGED sourceVars => SourceTypeOK'
  BY DEF SourceTypeOK, sourceVars
<1>2. WakeTypeOK /\ UNCHANGED wakeVars => WakeTypeOK'
  BY DEF WakeTypeOK, wakeVars
<1>3. ConnTypeOK /\ UNCHANGED connVars => ConnTypeOK'
  BY DEF ConnTypeOK, connVars
<1>4. QueueTypeOK /\ UNCHANGED queueVars => QueueTypeOK'
  BY DEF QueueTypeOK, queueVars
<1>5. ThreadInv /\ UNCHANGED threadVars => ThreadInv'
  BY DEF ThreadInv, ThreadTypeOK, Resumes, threadVars
<1>6. FormatTypeOK /\ UNCHANGED formatVars => FormatTypeOK'
  BY DEF FormatTypeOK, formatVars
<1>7. LoopTypeOK /\ UNCHANGED loopVars => LoopTypeOK'
  BY DEF LoopTypeOK, loopVars
<1>8. FlushTypeOK /\ UNCHANGED flushVars => FlushTypeOK'
  BY DEF FlushTypeOK, flushVars
<1>9. OutTypeOK /\ UNCHANGED <<write_thread, write_lock, outVars>> => OutTypeOK'
  BY DEF OutTypeOK, outVars
<1> QED
  BY <1>1, <1>2, <1>3, <1>4, <1>5, <1>6, <1>7, <1>8, <1>9

-----------------------------------------------------------------------------
\* The steps of close().
LEMMA CloseStepType ==
    ASSUME TypeInv, NEW t \in Closing, CloseStep(t)
    PROVE  TypeInv'
<1>l. t \in Threads /\ "format" \in Threads /\ "write" \in Threads /\ t # "format"
  BY DEF Closing, Threads
<1>q. /\ write_queue \in Seq(Outbound \cup {Ping, EmptyMarker}) /\ Len(write_queue) \in Nat
      /\ unfinished \in Nat /\ unfinished >= Len(write_queue) + Busy /\ Busy \in {0, 1}
      /\ Len(write_queue) <= 1
  BY DEF TypeInv, QueueTypeOK, TasksCounted, Busy, QueueSize
<1>1. CASE CloseConnection(t)
  <2>1. ThreadInv' /\ pc'[t] = "close_swap" /\ \A u \in Threads : u # t => pc'[u] = pc[u]
    BY <1>1, MovesInClose DEF CloseConnection, CloseLabels, TypeInv
  <2>2. ConnTypeOK'
    BY <1>1 DEF CloseConnection, ConnTypeOK, TypeInv
  <2>3. Holding' /\ TasksCounted'
    BY <1>l, <1>1, <2>1
    DEF CloseConnection, Holding, TasksCounted, Busy, formatVars, queueVars, TypeInv
  <2> QED
    BY <1>1, <2>1, <2>2, <2>3, Stable DEF CloseConnection, TypeInv
<1>2. CASE SwapQueue(t)
  <2>1. ThreadInv' /\ pc'[t] = "close_drain" /\ \A u \in Threads : u # t => pc'[u] = pc[u]
    BY <1>2, MovesInClose DEF SwapQueue, CloseLabels, TypeInv
  <2>2. WakeTypeOK' /\ QueueTypeOK'
    BY <1>2 DEF SwapQueue, WakeTypeOK, QueueTypeOK, TypeInv
  <2>3. Holding' /\ TasksCounted'
    BY <1>l, <1>2, <2>1 DEF SwapQueue, Holding, TasksCounted, Busy, formatVars, TypeInv
  <2> QED
    BY <1>2, <2>1, <2>2, <2>3, Stable DEF SwapQueue, TypeInv
<1>3. CASE DrainQueue(t)
  <2>1. ThreadInv' /\ pc'[t] \in CloseLabels /\ \A u \in Threads : u # t => pc'[u] = pc[u]
    <3>1. CASE pc' = pc
      BY <1>3, <3>1 DEF DrainQueue, CloseLabels, TypeInv, ThreadInv, ThreadTypeOK, Resumes
    <3>2. CASE Goto(t, "close_mark")
      BY <1>3, <3>2, MovesInClose DEF DrainQueue, CloseLabels, TypeInv
    <3> QED
      BY <1>3, <3>1, <3>2 DEF DrainQueue
  <2>2. /\ write_queue' \in Seq(Outbound \cup {Ping, EmptyMarker})
        /\ Len(write_queue') <= Len(write_queue) /\ Len(write_queue') \in Nat
    BY <1>3, <1>q DEF DrainQueue
  <2>3. QueueTypeOK'
    BY <1>3, <1>q, <2>2 DEF DrainQueue, QueueTypeOK, QueueSize, TypeInv
  <2>4. Busy' = Busy /\ Holding'
    BY <1>l, <1>3, <2>1 DEF DrainQueue, Holding, Busy, formatVars, TypeInv, CloseLabels
  <2>5. TasksCounted'
    BY <1>3, <1>q, <2>2, <2>4 DEF DrainQueue, TasksCounted
  <2> QED
    BY <1>3, <2>1, <2>3, <2>4, <2>5, Stable DEF DrainQueue, TypeInv
<1>4. CASE MarkQueue(t)
  <2>1. cont[t] \in ResumeLabels(t) /\ cont[t] \in OwnLabels(t)
    BY <1>4, ResumeOwn DEF MarkQueue, TypeInv, ThreadInv, Resumes, CloseLabels
  <2>2. ThreadInv' /\ pc'[t] = cont[t] /\ \A u \in Threads : u # t => pc'[u] = pc[u]
    BY <1>4, <1>l, <2>1, Moves DEF MarkQueue, TypeInv
  <2>3. /\ Marked \in Seq(Outbound \cup {Ping, EmptyMarker}) /\ Len(Marked) <= 1
        /\ Len(Marked) >= Len(write_queue) /\ Len(Marked) \in Nat
    BY <1>q DEF Marked, QueueHasRoom, QueueSize
  <2>4. QueueTypeOK'
    BY <1>4, <1>q, <2>3 DEF MarkQueue, QueueTypeOK, QueueSize, TypeInv
  <2>5. Busy' = Busy /\ Holding'
    <3>1. t = "write" => cont[t] = "exit"
      BY <2>1 DEF ResumeLabels
    <3> QED
      BY <1>l, <1>4, <2>2, <3>1 DEF MarkQueue, Holding, Busy, formatVars, TypeInv, CloseLabels
  <2>6. TasksCounted'
    BY <1>4, <1>q, <2>3, <2>5 DEF MarkQueue, TasksCounted
  <2>7. LoopTypeOK' /\ WakeTypeOK'
    BY <1>4 DEF MarkQueue, LoopTypeOK, WakeTypeOK, TypeInv
  <2> QED
    BY <1>4, <2>2, <2>4, <2>5, <2>6, <2>7, Stable DEF MarkQueue, TypeInv
<1> QED
  BY <1>1, <1>2, <1>3, <1>4 DEF CloseStep

\* The handlers that close or steal the connection.
LEMMA HandlerType ==
    ASSUME TypeInv, NEW t \in {"main", "parse"}, HandlerClose(t) \/ StealConnection(t)
    PROVE  TypeInv'
<1>l. /\ t \in Closing /\ "format" \in Threads /\ "write" \in Threads
      /\ t # "format" /\ t # "write" /\ Home(t) \in ResumeLabels(t)
  BY DEF Closing, Threads, Home, ResumeLabels
<1>i. idle \in Seq(IdleLabels)
  BY DEF TypeInv, LoopTypeOK, IdleLabels
<1>1. CASE HandlerClose(t)
  <2>1. /\ ThreadInv' /\ closed' \in BOOLEAN /\ idle' \in Seq(IdleLabels)
        /\ \A u \in Threads : u # t => pc'[u] = pc[u]
    BY <1>l, <1>i, <1>1, Closes DEF HandlerClose, TypeInv
  <2>2. ConnTypeOK' /\ LoopTypeOK'
    BY <1>1, <2>1 DEF HandlerClose, ConnTypeOK, LoopTypeOK, IdleLabels, TypeInv
  <2>3. Holding' /\ TasksCounted'
    BY <1>l, <1>1, <2>1, Undisturbed DEF HandlerClose, formatVars, queueVars, TypeInv
  <2> QED
    BY <1>1, <2>1, <2>2, <2>3, Stable DEF HandlerClose, TypeInv
<1>2. CASE StealConnection(t)
  <2>1. ThreadInv' /\ \A u \in Threads : u # t => pc'[u] = pc[u]
    BY <1>l, <1>2, EntersClose DEF StealConnection, TypeInv, CloseLabels
  <2>2. ConnTypeOK'
    BY <1>2 DEF StealConnection, ConnTypeOK, TypeInv
  <2>3. Holding' /\ TasksCounted'
    BY <1>l, <1>2, <2>1, Undisturbed DEF StealConnection, formatVars, queueVars, TypeInv
  <2> QED
    BY <1>2, <2>1, <2>2, <2>3, Stable DEF StealConnection, TypeInv
<1> QED
  BY <1>1, <1>2

-----------------------------------------------------------------------------
\* The packet queues of the source keep their types.
LEMMA SourceTypes ==
    ASSUME SourceTypeOK, Send \/ QueuePacket \/ SendPing \/ SourceCleanup
    PROVE  SourceTypeOK'
<1>p. \A q \in Queues, more \in MoreFlags : sent[q] < MaxSend =>
        /\ [q |-> q, n |-> sent[q] + 1, more |-> more] \in Packet
        /\ sent[q] + 1 \in 0..MaxSend
  BY MoreFlagsAssumption, MaxSendAssumption DEF SourceTypeOK, Packet
<1>1. CASE Send
  <2>1. PICK more \in MoreFlags :
          ordinary_packets' = Append(ordinary_packets,
            [q |-> "ordinary", n |-> sent["ordinary"] + 1, more |-> more])
    BY <1>1 DEF Send
  <2> DEFINE new == [q |-> "ordinary", n |-> sent["ordinary"] + 1, more |-> more]
  <2>2. new \in Packet /\ sent["ordinary"] + 1 \in 0..MaxSend
    BY <1>1, <1>p DEF Send, Queues
  <2> HIDE DEF new
  <2>3. ordinary_packets' \in Seq(Packet \cup {Ping})
    <3>1. ordinary_packets' = Append(ordinary_packets, new)
      BY <2>1 DEF new
    <3> QED
      BY <2>2, <3>1 DEF SourceTypeOK
  <2> QED
    BY <1>1, <2>2, <2>3 DEF Send, SourceTypeOK, Queues
<1>2. CASE QueuePacket
  <2>1. PICK more \in MoreFlags :
          packet_queue' = Append(packet_queue,
            [q |-> "pixels", n |-> sent["pixels"] + 1, more |-> more])
    BY <1>2 DEF QueuePacket
  <2> DEFINE new == [q |-> "pixels", n |-> sent["pixels"] + 1, more |-> more]
  <2>2. new \in Packet /\ sent["pixels"] + 1 \in 0..MaxSend
    BY <1>2, <1>p DEF QueuePacket, Queues
  <2> HIDE DEF new
  <2>3. packet_queue' \in Seq(Packet)
    <3>1. packet_queue' = Append(packet_queue, new)
      BY <2>1 DEF new
    <3> QED
      BY <2>2, <3>1 DEF SourceTypeOK
  <2> QED
    BY <1>2, <2>2, <2>3 DEF QueuePacket, SourceTypeOK, Queues
<1>3. CASE SendPing
  <2>1. Append(ordinary_packets, Ping) \in Seq(Packet \cup {Ping})
    BY DEF SourceTypeOK
  <2> QED
    BY <1>3, <2>1 DEF SendPing, SourceTypeOK
<1>4. CASE SourceCleanup
  BY <1>4 DEF SourceCleanup, SourceTypeOK
<1> QED
  BY <1>1, <1>2, <1>3, <1>4

\* next_packet() returns a packet and leaves packets behind.
LEMMA NextPacketType ==
    ASSUME SourceTypeOK, NEW k \in Rejected, TakePacket(NextPacket(k))
    PROVE  /\ SourceTypeOK'
           /\ NextPacket(k).packet \in Packet \cup {Ping, NoPacket}
           /\ NextPacket(k).packet.more \in BOOLEAN
<1> DEFINE left == SubSeq(packet_queue, k + 1, Len(packet_queue))
<1>1. k \in Nat /\ k <= Len(packet_queue)
  BY MaxRejectedAssumption DEF Rejected, SourceTypeOK
<1>2. left \in Seq(Packet)
  BY <1>1 DEF SourceTypeOK
<1> HIDE DEF left
<1>3. ASSUME NEW p \in Packet \cup {Ping, NoPacket} PROVE p.more \in BOOLEAN
  <2>1. CASE p \in Packet
    BY <2>1 DEF Packet
  <2>2. CASE p = Ping
    BY <2>2 DEF Ping
  <2>3. CASE p = NoPacket
    BY <2>3 DEF NoPacket
  <2> QED
    BY <1>3, <2>1, <2>2, <2>3
<1>4. /\ NextPacket(k).packet \in Packet \cup {Ping, NoPacket}
      /\ NextPacket(k).ordinary \in Seq(Packet \cup {Ping})
      /\ NextPacket(k).pixels \in Seq(Packet)
  <2>1. CASE source_closed
    BY <2>1 DEF NextPacket, SourceTypeOK
  <2>2. CASE ~source_closed /\ ordinary_packets # <<>>
    <3>1. Head(ordinary_packets) \in Packet \cup {Ping} /\ Tail(ordinary_packets) \in Seq(Packet \cup {Ping})
      BY <2>2 DEF SourceTypeOK
    <3> QED
      BY <2>2, <3>1 DEF NextPacket, SourceTypeOK
  <2>3. CASE ~source_closed /\ ordinary_packets = <<>> /\ left # <<>>
    <3>1. Head(left) \in Packet /\ Tail(left) \in Seq(Packet)
      BY <1>2, <2>3
    <3>2. NextPacket(k) = [packet |-> Head(left), ordinary |-> ordinary_packets, pixels |-> Tail(left)]
      BY <2>3 DEF NextPacket, left
    <3> QED
      BY <3>1, <3>2 DEF SourceTypeOK
  <2>4. CASE ~source_closed /\ ordinary_packets = <<>> /\ left = <<>>
    <3>1. NextPacket(k) = [packet |-> NoPacket, ordinary |-> ordinary_packets, pixels |-> <<>>]
      BY <2>4 DEF NextPacket, left
    <3> QED
      BY <3>1 DEF SourceTypeOK
  <2> QED
    BY <2>1, <2>2, <2>3, <2>4
<1>5. SourceTypeOK'
  BY <1>4 DEF TakePacket, SourceTypeOK
<1> QED
  BY <1>3, <1>4, <1>5

\* The producers and their notifications.
LEMMA ProducerType ==
    ASSUME TypeInv, NEW p \in Producers, Produce(p) \/ Notify(p) \/ StartFormatThread(p)
    PROVE  TypeInv'
<1>l. "format" \in Threads /\ "write" \in Threads
  BY DEF Threads
<1>1. CASE Produce(p)
  <2>1. SourceTypeOK'
    <3>1. Send \/ QueuePacket \/ SendPing
      BY <1>1, Zenon DEF Produce
    <3> QED
      BY <3>1, SourceTypes DEF TypeInv
  <2>2. WakeTypeOK'
    BY <1>1 DEF Produce, WakeTypeOK, TypeInv
  <2>3. Holding' /\ TasksCounted'
    BY <1>1, Undisturbed DEF Produce, threadVars, formatVars, queueVars, TypeInv
  <2> QED
    BY <1>1, <2>1, <2>2, <2>3, Stable DEF Produce, TypeInv
<1>2. CASE Notify(p)
  <2>1. WakeTypeOK'
    BY <1>2 DEF Notify, NotifyIgnored, WakeTypeOK, TypeInv
  <2>2. Holding' /\ TasksCounted'
    BY <1>2, Undisturbed DEF Notify, threadVars, formatVars, queueVars, TypeInv
  <2> QED
    BY <1>2, <2>1, <2>2, Stable DEF Notify, TypeInv
<1>3. CASE StartFormatThread(p)
  <2>1. WakeTypeOK'
    BY <1>3 DEF StartFormatThread, WakeTypeOK, TypeInv
  <2>2. /\ ThreadInv' /\ pc'["format"] \in {pc["format"], "check"} /\ pc'["write"] = pc["write"]
    <3>1. CASE pc' = pc
      BY <1>3, <3>1 DEF StartFormatThread, TypeInv, ThreadInv, ThreadTypeOK, Resumes
    <3>2. CASE Goto("format", "check")
      BY <1>3, <1>l, <3>2, Moves DEF StartFormatThread, TypeInv, OwnLabels, FormatLabels
    <3> QED
      BY <1>3, <3>1, <3>2 DEF StartFormatThread
  <2>3. Holding' /\ TasksCounted'
    BY <1>3, <2>2 DEF StartFormatThread, Holding, TasksCounted, Busy, formatVars, queueVars, TypeInv
  <2> QED
    BY <1>3, <2>1, <2>2, <2>3, Stable DEF StartFormatThread, TypeInv
<1> QED
  BY <1>1, <1>2, <1>3

-----------------------------------------------------------------------------
\* start_write_thread(): the caller moves on, and the write thread may begin.
LEMMA Spawns ==
    ASSUME ThreadInv, NEW t \in Threads, t # "write", NEW next \in OwnLabels(t),
           StartWriteThread(t, next), UNCHANGED cont
    PROVE  /\ ThreadInv' /\ pc'[t] = next
           /\ pc'["write"] = pc["write"] \/ (pc["write"] = "none" /\ pc'["write"] = "check")
           /\ \A u \in Threads : u # t /\ u # "write" => pc'[u] = pc[u]
<1> USE DEF AllLabels, CloseLabels, FlushLabels, WriteLabels, FormatLabels
<1>1. next \in AllLabels /\ next \notin CloseLabels /\ "write" \in Threads /\ "check" \in AllLabels
  BY DEF OwnLabels, Threads
<1>2. /\ pc' \in [Threads -> AllLabels] /\ pc'[t] = next
      /\ pc'["write"] = pc["write"] \/ (pc["write"] = "none" /\ pc'["write"] = "check")
      /\ \A u \in Threads : u # t /\ u # "write" => pc'[u] = pc[u]
  <2> HIDE DEF AllLabels
  <2> QED
    BY <1>1 DEF StartWriteThread, ThreadInv, ThreadTypeOK
<1>3. ThreadTypeOK'
  BY <1>2 DEF ThreadInv, ThreadTypeOK, OwnLabels, Threads
<1>4. Resumes'
  BY <1>1, <1>2 DEF ThreadInv, Resumes, Closing, Threads
<1> QED
  BY <1>2, <1>3, <1>4 DEF ThreadInv

\* put() on the write queue.
LEMMA Puts ==
    ASSUME QueueTypeOK, TasksCounted, NEW item \in Outbound \cup {Ping}, Put(item),
           pc'["write"] = pc["write"]
    PROVE  QueueTypeOK' /\ TasksCounted'
<1>1. /\ write_queue' = Append(write_queue, item) /\ unfinished' = unfinished + 1
      /\ Len(write_queue) < 1 /\ queued' = Recorded(queued, item) /\ UNCHANGED exit_queue
  BY DEF Put, QueueHasRoom, QueueSize
<1>2. /\ write_queue' \in Seq(Outbound \cup {Ping, EmptyMarker})
      /\ Len(write_queue') = Len(write_queue) + 1 /\ Len(write_queue) \in Nat
      /\ unfinished \in Nat
  BY <1>1 DEF QueueTypeOK
<1>3. queued' \in Seq(Outbound)
  BY <1>1 DEF Recorded, QueueTypeOK
<1>4. Busy' = Busy /\ Busy \in {0, 1}
  BY DEF Busy
<1>5. QueueTypeOK'
  BY <1>1, <1>2, <1>3 DEF QueueTypeOK, QueueSize
<1>6. TasksCounted'
  BY <1>1, <1>2, <1>4 DEF TasksCounted
<1> QED
  BY <1>5, <1>6

\* The format thread.
LEMMA FormatType == ASSUME TypeInv, FormatNext PROVE TypeInv'
<1>l. "format" \in Threads /\ "write" \in Threads /\ OwnLabels("format") = FormatLabels
  BY DEF Threads, OwnLabels
<1>m. ASSUME NEW label \in FormatLabels, Goto("format", label), UNCHANGED cont
      PROVE  ThreadInv' /\ pc'["format"] = label /\ pc'["write"] = pc["write"]
  BY <1>l, <1>m, Moves DEF TypeInv
<1>1. CASE FormatWait
  <2>1. PICK label \in {"exit", "wait", "get"} : Goto("format", label)
    BY <1>1 DEF FormatWait
  <2>2. ThreadInv' /\ pc'["format"] = label /\ pc'["write"] = pc["write"]
    BY <1>1, <2>1, <1>m DEF FormatWait, FormatLabels
  <2>3. Holding' /\ TasksCounted'
    BY <1>1, <2>2 DEF FormatWait, Holding, TasksCounted, Busy, formatVars, queueVars, TypeInv
  <2> QED
    BY <1>1, <2>2, <2>3, Stable DEF FormatWait, TypeInv
<1>2. CASE FormatGet
  <2>1. CASE closed
    <3>1. Goto("format", "exit") /\ UNCHANGED <<sourceVars, formatVars>>
      BY <1>2, <2>1 DEF FormatGet
    <3>2. ThreadInv' /\ pc'["format"] = "exit" /\ pc'["write"] = pc["write"]
      BY <1>2, <3>1, <1>m DEF FormatGet, FormatLabels
    <3>3. Holding' /\ TasksCounted'
      BY <1>2, <3>1, <3>2 DEF FormatGet, Holding, TasksCounted, Busy, formatVars, queueVars, TypeInv
    <3> QED
      BY <1>2, <3>1, <3>2, <3>3, Stable DEF FormatGet, TypeInv
  <2>2. CASE ~closed
    <3>1. PICK k \in Rejected :
            /\ TakePacket(NextPacket(k))
            /\ packet' = [packet EXCEPT !["format"] = NextPacket(k).packet]
            /\ more_flag' = HasMore(NextPacket(k))
            /\ Goto("format", "clear")
      BY <1>2, <2>2 DEF FormatGet
    <3> DEFINE next == NextPacket(k)
    <3>2. /\ SourceTypeOK' /\ next.packet \in Packet \cup {Ping, NoPacket}
          /\ next.packet.more \in BOOLEAN
      BY <3>1, NextPacketType DEF TypeInv
    <3> HIDE DEF next
    <3>3. ThreadInv' /\ pc'["format"] = "clear" /\ pc'["write"] = pc["write"]
      BY <1>2, <3>1, <1>m DEF FormatGet, FormatLabels
    <3>4. /\ packet' \in [{"format", "write"} -> Outbound \cup {Ping, NoPacket}]
          /\ packet'["write"] = packet["write"]
      BY <3>1, <3>2 DEF FormatTypeOK, TypeInv, Outbound, next
    <3>5. more_flag' \in BOOLEAN
      BY <3>1, <3>2, Zenon DEF HasMore, next
    <3>6. Holding' /\ TasksCounted'
      BY <1>2, <3>3, <3>4 DEF FormatGet, Holding, TasksCounted, Busy, queueVars, TypeInv
    <3>7. FormatTypeOK'
      BY <3>4, <3>5 DEF FormatTypeOK
    <3> QED
      BY <1>2, <3>2, <3>3, <3>6, <3>7, Stable DEF FormatGet, TypeInv
  <2> QED
    BY <2>1, <2>2
<1>3. CASE FormatClear
  <2>1. PICK label \in {"check", "lock"} :
          Goto("format", label) /\ (label = "lock" => packet["format"] # NoPacket)
    BY <1>3 DEF FormatClear
  <2>2. ThreadInv' /\ pc'["format"] = label /\ pc'["write"] = pc["write"]
    BY <1>3, <2>1, <1>m DEF FormatClear, FormatLabels
  <2>3. Holding' /\ TasksCounted'
    BY <1>3, <2>1, <2>2 DEF FormatClear, Holding, TasksCounted, Busy, formatVars, queueVars, TypeInv
  <2>4. WakeTypeOK'
    BY <1>3 DEF FormatClear, WakeTypeOK, FormatTypeOK, TypeInv
  <2> QED
    BY <1>3, <2>2, <2>3, <2>4, Stable DEF FormatClear, TypeInv
<1>4. CASE FormatError
  <2>1. ThreadInv' /\ pc'["format"] = "exit" /\ pc'["write"] = pc["write"]
    BY <1>4, <1>m DEF FormatError, FormatLabels
  <2>2. Holding' /\ TasksCounted'
    BY <1>4, <2>1 DEF FormatError, Holding, TasksCounted, Busy, formatVars, queueVars, TypeInv
  <2>3. LoopTypeOK'
    BY <1>4 DEF FormatError, LoopTypeOK, TypeInv
  <2> QED
    BY <1>4, <2>1, <2>2, <2>3, Stable DEF FormatError, TypeInv
<1>5. CASE FormatAcquire
  <2>1. PICK label \in {"exit", "acquire", "locked"} : Goto("format", label)
    BY <1>5 DEF FormatAcquire
  <2>2. ThreadInv' /\ pc'["format"] = label /\ pc'["write"] = pc["write"]
    BY <1>5, <2>1, <1>m DEF FormatAcquire, FormatLabels
  <2>3. Holding' /\ TasksCounted'
    BY <1>5, <2>2 DEF FormatAcquire, Holding, TasksCounted, Busy, formatVars, queueVars, TypeInv
  <2>4. OutTypeOK'
    BY <1>5 DEF FormatAcquire, OutTypeOK, outVars, TypeInv
  <2> QED
    BY <1>5, <2>2, <2>3, <2>4, Stable DEF FormatAcquire, TypeInv
<1>6. CASE FormatRawWrite
  <2>1. /\ ThreadInv' /\ OutTypeOK'
        /\ pc'["format"] \in {"release", "rawwrite", "put"}
        /\ pc'["write"] = pc["write"] \/ (pc["write"] = "none" /\ pc'["write"] = "check")
        /\ pc["format"] \in {"locked", "rawwrite"}
    <3>1. CASE pc["format"] = "locked"
      <4>1. PICK label \in {"release", "rawwrite"} : Goto("format", label)
        BY <1>6, <3>1 DEF FormatRawWrite
      <4> QED
        BY <1>6, <3>1, <4>1, <1>m DEF FormatRawWrite, FormatLabels, OutTypeOK, outVars, TypeInv
    <3>2. CASE pc["format"] = "rawwrite"
      <4>1. PICK label \in {"release", "put"} : StartWriteThread("format", label)
        BY <1>6, <3>2 DEF FormatRawWrite
      <4>2. /\ ThreadInv' /\ pc'["format"] = label
            /\ pc'["write"] = pc["write"] \/ (pc["write"] = "none" /\ pc'["write"] = "check")
        BY <1>6, <1>l, <4>1, Spawns DEF FormatRawWrite, FormatLabels, TypeInv
      <4>3. OutTypeOK'
        BY <1>6, <4>1 DEF FormatRawWrite, StartWriteThread, OutTypeOK, outVars, TypeInv
      <4> QED
        BY <3>2, <4>2, <4>3
    <3> QED
      BY <1>6, <3>1, <3>2 DEF FormatRawWrite
  <2>2. Holding' /\ TasksCounted'
    BY <1>6, <2>1 DEF FormatRawWrite, Holding, TasksCounted, Busy, formatVars, queueVars, TypeInv
  <2> QED
    BY <1>6, <2>1, <2>2, Stable DEF FormatRawWrite, TypeInv
<1>7. CASE FormatPut
  <2>1. ThreadInv' /\ pc'["format"] = "release" /\ pc'["write"] = pc["write"]
    BY <1>7, <1>m DEF FormatPut, FormatLabels
  <2>2. packet["format"] \in Outbound \cup {Ping}
    BY <1>7 DEF FormatPut, Holding, FormatTypeOK, TypeInv
  <2>3. QueueTypeOK' /\ TasksCounted'
    BY <1>7, <2>1, <2>2, Puts DEF FormatPut, TypeInv
  <2>4. Holding'
    BY <1>7, <2>1 DEF FormatPut, Holding, formatVars, TypeInv
  <2> QED
    BY <1>7, <2>1, <2>3, <2>4, Stable DEF FormatPut, TypeInv
<1>8. CASE FormatRelease
  <2>1. ThreadInv' /\ pc'["format"] = "check" /\ pc'["write"] = pc["write"]
    BY <1>8, <1>m DEF FormatRelease, FormatLabels
  <2>2. Holding' /\ TasksCounted'
    BY <1>8, <2>1 DEF FormatRelease, Holding, TasksCounted, Busy, formatVars, queueVars, TypeInv
  <2>3. OutTypeOK'
    BY <1>8 DEF FormatRelease, OutTypeOK, outVars, TypeInv
  <2> QED
    BY <1>8, <2>1, <2>2, <2>3, Stable DEF FormatRelease, TypeInv
<1> QED
  BY <1>1, <1>2, <1>3, <1>4, <1>5, <1>6, <1>7, <1>8 DEF FormatNext

-----------------------------------------------------------------------------
\* The write thread.
LEMMA WriteType == ASSUME TypeInv, WriteNext PROVE TypeInv'
<1>l. /\ "format" \in Threads /\ "write" \in Threads /\ OwnLabels("write") = WriteLabels
      /\ "write" \in Closing /\ "exit" \in ResumeLabels("write")
  BY DEF Threads, OwnLabels, Closing, ResumeLabels
<1>i. idle \in Seq(IdleLabels)
  BY DEF TypeInv, LoopTypeOK, IdleLabels
<1>q. /\ write_queue \in Seq(Outbound \cup {Ping, EmptyMarker}) /\ Len(write_queue) \in Nat
      /\ unfinished \in Nat /\ unfinished >= Len(write_queue) + Busy
  BY DEF TypeInv, QueueTypeOK, TasksCounted
<1>m. ASSUME NEW label \in WriteLabels, Goto("write", label), UNCHANGED cont
      PROVE  ThreadInv' /\ pc'["write"] = label /\ pc'["format"] = pc["format"]
  BY <1>l, <1>m, Moves DEF TypeInv
<1>c. ASSUME CloseThen("write", "exit", idle)
      PROVE  /\ ThreadInv' /\ closed' \in BOOLEAN /\ idle' \in Seq(IdleLabels)
             /\ pc'["write"] \in CloseLabels \cup {"exit"} /\ pc'["format"] = pc["format"]
  BY <1>l, <1>i, <1>c, Closes DEF TypeInv
<1>1. CASE WriteCheck
  <2>1. PICK label \in {"exit", "capture"} : Goto("write", label)
    BY <1>1 DEF WriteCheck
  <2>2. ThreadInv' /\ pc'["write"] = label /\ pc'["format"] = pc["format"]
    BY <1>1, <2>1, <1>m DEF WriteCheck, WriteLabels
  <2>3. Holding' /\ TasksCounted'
    BY <1>1, <2>2 DEF WriteCheck, Holding, TasksCounted, Busy, formatVars, queueVars, TypeInv
  <2> QED
    BY <1>1, <2>2, <2>3, Stable DEF WriteCheck, TypeInv
<1>2. CASE WriteCapture
  <2>1. /\ ThreadInv' /\ closed' \in BOOLEAN /\ idle' \in Seq(IdleLabels)
        /\ pc'["write"] \in CloseLabels \cup {"exit", "get"} /\ pc'["format"] = pc["format"]
    <3>1. CASE exit_queue
      BY <1>2, <3>1, <1>c DEF WriteCapture
    <3>2. CASE ~exit_queue
      BY <1>2, <3>2, <1>m, <1>i DEF WriteCapture, WriteLabels, ConnTypeOK, TypeInv
    <3> QED
      BY <3>1, <3>2
  <2>2. ConnTypeOK' /\ LoopTypeOK'
    BY <1>2, <2>1 DEF WriteCapture, ConnTypeOK, LoopTypeOK, IdleLabels, TypeInv
  <2>3. Holding' /\ TasksCounted'
    BY <1>2, <2>1
    DEF WriteCapture, Holding, TasksCounted, Busy, formatVars, queueVars, CloseLabels, TypeInv
  <2> QED
    BY <1>2, <2>1, <2>2, <2>3, Stable DEF WriteCapture, TypeInv
<1>3. CASE WriteGet
  <2>1. /\ write_queue' = Tail(write_queue) /\ write_queue # <<>>
        /\ UNCHANGED <<exit_queue, unfinished, queued, more_flag>>
        /\ pc["write"] = "get"
    BY <1>3 DEF WriteGet
  <2>2. /\ write_queue' \in Seq(Outbound \cup {Ping, EmptyMarker})
        /\ Len(write_queue') = Len(write_queue) - 1 /\ Len(write_queue') \in Nat
        /\ Head(write_queue) \in Outbound \cup {Ping, EmptyMarker}
    BY <1>q, <2>1
  <2>3. QueueTypeOK'
    BY <1>q, <2>1, <2>2 DEF QueueTypeOK, QueueSize, TypeInv
  <2>4. Busy = 0
    BY <2>1 DEF Busy
  <2>5. CASE Head(write_queue) = EmptyMarker
    <3>1. CloseThen("write", "exit", idle) /\ UNCHANGED packet
      BY <1>3, <2>5 DEF WriteGet
    <3>2. /\ ThreadInv' /\ closed' \in BOOLEAN /\ idle' \in Seq(IdleLabels)
          /\ pc'["write"] \in CloseLabels \cup {"exit"} /\ pc'["format"] = pc["format"]
      BY <3>1, <1>c
    <3>3. ConnTypeOK' /\ LoopTypeOK' /\ FormatTypeOK'
      BY <1>3, <3>1, <3>2
      DEF WriteGet, ConnTypeOK, LoopTypeOK, FormatTypeOK, IdleLabels, TypeInv
    <3>4. Holding' /\ Busy' = 0
      BY <3>1, <3>2 DEF Holding, Busy, CloseLabels, TypeInv
    <3>5. TasksCounted'
      BY <1>q, <2>1, <2>2, <2>4, <3>4 DEF TasksCounted
    <3> QED
      BY <1>3, <2>3, <3>2, <3>3, <3>4, <3>5, Stable DEF WriteGet, TypeInv
  <2>6. CASE Head(write_queue) # EmptyMarker
    <3>1. /\ packet' = [packet EXCEPT !["write"] = Head(write_queue)]
          /\ Goto("write", "write") /\ UNCHANGED <<closed, idle, cont>>
      BY <1>3, <2>6 DEF WriteGet
    <3>2. ThreadInv' /\ pc'["write"] = "write" /\ pc'["format"] = pc["format"]
      BY <3>1, <1>m DEF WriteLabels
    <3>3. /\ packet' \in [{"format", "write"} -> Outbound \cup {Ping, NoPacket}]
          /\ packet'["format"] = packet["format"] /\ packet'["write"] = Head(write_queue)
      BY <2>2, <2>6, <3>1 DEF FormatTypeOK, TypeInv
    <3>4. Head(write_queue) # NoPacket
      BY <2>2 DEF Outbound, Packet, LastPacket, Ping, EmptyMarker, NoPacket, Queues
    <3>5. Holding' /\ Busy' = 1
      BY <3>2, <3>3, <3>4 DEF Holding, Busy, TypeInv
    <3>6. TasksCounted'
      BY <1>q, <2>1, <2>2, <2>4, <3>5 DEF TasksCounted
    <3>7. ConnTypeOK' /\ LoopTypeOK' /\ FormatTypeOK'
      BY <1>3, <2>1, <3>1, <3>3 DEF WriteGet, ConnTypeOK, LoopTypeOK, FormatTypeOK, TypeInv
    <3> QED
      BY <1>3, <2>3, <3>2, <3>5, <3>6, <3>7, Stable DEF WriteGet, TypeInv
  <2> QED
    BY <2>5, <2>6
<1>4. CASE WriteBegin
  <2>1. Busy = 1
    BY <1>4 DEF WriteBegin, Busy
  <2>2. \/ /\ unfinished' = unfinished - 1
           /\ Goto("write", "exit") \/ Goto("write", "check")
        \/ unfinished' = unfinished /\ Goto("write", "send")
    BY <1>4 DEF WriteBegin
  <2>3. /\ ThreadInv' /\ pc'["format"] = pc["format"]
        /\ \/ unfinished' = unfinished - 1 /\ pc'["write"] \in {"exit", "check"}
           \/ unfinished' = unfinished /\ pc'["write"] = "send"
    BY <1>4, <2>2, <1>m DEF WriteBegin, WriteLabels
  <2>4. QueueTypeOK'
    BY <1>4, <1>q, <2>1, <2>3 DEF WriteBegin, QueueTypeOK, TypeInv
  <2>5. TasksCounted'
    BY <1>4, <1>q, <2>1, <2>3 DEF WriteBegin, TasksCounted, Busy
  <2>6. Holding'
    BY <1>4, <2>3 DEF WriteBegin, Holding, formatVars, TypeInv
  <2> QED
    BY <1>4, <2>3, <2>4, <2>5, <2>6, Stable DEF WriteBegin, TypeInv
<1>5. CASE WriteSend
  <2>1. Busy = 1
    BY <1>5 DEF WriteSend, Busy
  <2>2. ThreadInv' /\ pc'["write"] = "check" /\ pc'["format"] = pc["format"]
    BY <1>5, <1>m DEF WriteSend, WriteLabels
  <2>3. QueueTypeOK'
    BY <1>5, <1>q, <2>1 DEF WriteSend, QueueTypeOK, TypeInv
  <2>4. TasksCounted'
    BY <1>5, <1>q, <2>1, <2>2 DEF WriteSend, TasksCounted, Busy
  <2>5. Holding'
    BY <1>5, <2>2 DEF WriteSend, Holding, formatVars, TypeInv
  <2>6. wire' \in Seq(Outbound)
    <3>1. packet["write"] \in Outbound \cup {Ping}
      BY <1>5 DEF WriteSend, Holding, FormatTypeOK, TypeInv
    <3> QED
      BY <1>5, <3>1 DEF WriteSend, Recorded, OutTypeOK, TypeInv
  <2>7. OutTypeOK'
    BY <1>5, <2>6 DEF WriteSend, OutTypeOK, TypeInv
  <2> QED
    BY <1>5, <2>2, <2>3, <2>4, <2>5, <2>7, Stable DEF WriteSend, TypeInv
<1>6. ASSUME NEW e, WriteFail(e) PROVE TypeInv'
  <2>1. Busy = 1
    BY <1>6 DEF WriteFail, Busy
  <2>2. /\ ThreadInv' /\ closed' \in BOOLEAN /\ idle' \in Seq(IdleLabels)
        /\ pc'["write"] \in CloseLabels \cup {"exit"} /\ pc'["format"] = pc["format"]
    <3>1. CASE e = "os"
      <4>1. /\ Goto("write", "exit") /\ UNCHANGED <<closed, cont>>
            /\ idle' \in {idle, Append(idle, "close")}
        BY <1>6, <3>1 DEF WriteFail, AfterOSError
      <4>2. Append(idle, "close") \in Seq(IdleLabels)
        BY <1>i DEF IdleLabels
      <4>3. ThreadInv' /\ pc'["write"] = "exit" /\ pc'["format"] = pc["format"]
        BY <4>1, <1>m DEF WriteLabels
      <4> QED
        BY <1>i, <4>1, <4>2, <4>3 DEF ConnTypeOK, TypeInv
    <3>2. CASE e # "os"
      BY <1>6, <3>2, <1>c DEF WriteFail
    <3> QED
      BY <3>1, <3>2
  <2>3. QueueTypeOK'
    BY <1>6, <1>q, <2>1 DEF WriteFail, QueueTypeOK, TypeInv
  <2>4. Busy' = 0 /\ Holding'
    BY <1>6, <2>2 DEF WriteFail, Holding, Busy, formatVars, CloseLabels, TypeInv
  <2>5. TasksCounted'
    BY <1>6, <1>q, <2>1, <2>4 DEF WriteFail, TasksCounted
  <2>6. ConnTypeOK' /\ LoopTypeOK' /\ OutTypeOK'
    BY <1>6, <2>2 DEF WriteFail, ConnTypeOK, LoopTypeOK, OutTypeOK, IdleLabels, TypeInv
  <2> QED
    BY <1>6, <2>2, <2>3, <2>4, <2>5, <2>6, Stable DEF WriteFail, TypeInv
<1>7. CASE WriteCut
  <2>1. Busy = 1
    BY <1>7 DEF WriteCut, Busy
  <2>2. ThreadInv' /\ pc'["write"] = "check" /\ pc'["format"] = pc["format"]
    BY <1>7, <1>m DEF WriteCut, WriteLabels
  <2>3. QueueTypeOK'
    BY <1>7, <1>q, <2>1 DEF WriteCut, QueueTypeOK, TypeInv
  <2>4. TasksCounted'
    BY <1>7, <1>q, <2>1, <2>2 DEF WriteCut, TasksCounted, Busy
  <2>5. Holding' /\ OutTypeOK'
    BY <1>7, <2>2 DEF WriteCut, Holding, formatVars, OutTypeOK, TypeInv
  <2> QED
    BY <1>7, <2>2, <2>3, <2>4, <2>5, Stable DEF WriteCut, TypeInv
<1> QED
  BY <1>1, <1>2, <1>3, <1>4, <1>5, <1>6, <1>7 DEF WriteNext, WriteAbort

\* The parse thread.
LEMMA ParseType == ASSUME TypeInv, ParseNext PROVE TypeInv'
<1>l. /\ "parse" \in Threads /\ "format" \in Threads /\ "write" \in Threads
      /\ "read" \in OwnLabels("parse") /\ "exit" \in OwnLabels("parse")
  BY DEF Threads, OwnLabels
<1>i. idle \in Seq(IdleLabels)
  BY DEF TypeInv, LoopTypeOK, IdleLabels
<1>1. /\ \E label \in {"read", "exit"} : Goto("parse", label)
      /\ UNCHANGED <<cont, packet, write_queue, unfinished>>
  BY DEF ParseNext, ParseBegin, ParseClosed, ParseConnGone, ParseEof, ParseInvalid, HangUpLater, formatVars, queueVars
<1>2. ThreadInv' /\ pc'["format"] = pc["format"] /\ pc'["write"] = pc["write"]
  BY <1>l, <1>1, Moves DEF TypeInv
<1>3. Holding' /\ TasksCounted'
  BY <1>1, <1>2, Undisturbed DEF TypeInv
<1>4. Append(idle, "close") \in Seq(IdleLabels) /\ Append(idle, "invalid") \in Seq(IdleLabels)
  BY <1>i DEF IdleLabels
<1>5. LoopTypeOK'
  BY <1>4 DEF ParseNext, ParseBegin, ParseClosed, ParseConnGone, ParseEof, ParseInvalid, HangUpLater, loopVars, LoopTypeOK,
              IdleLabels, TypeInv
<1> QED
  BY <1>2, <1>3, <1>5, Stable
  DEF ParseNext, ParseBegin, ParseClosed, ParseConnGone, ParseEof, ParseInvalid, HangUpLater, TypeInv

-----------------------------------------------------------------------------
\* The main loop.
LEMMA MainType == ASSUME TypeInv, MainNext PROVE TypeInv'
<1>l. /\ "main" \in Threads /\ "parse" \in Threads /\ "format" \in Threads
      /\ "write" \in Threads /\ "main" \in Closing
      /\ "fl_queue" \in OwnLabels("main") /\ "begin" \in OwnLabels("parse")
      /\ "idle" \in ResumeLabels("main") /\ "fl_release" \in ResumeLabels("main")
  BY DEF Threads, OwnLabels, Closing, ResumeLabels, FlushLabels
<1>i. idle \in Seq(IdleLabels)
  BY DEF TypeInv, LoopTypeOK, IdleLabels
<1>t. idle # <<>> => Tail(idle) \in Seq(IdleLabels)
  BY <1>i
<1>c. ASSUME NEW next \in {"idle", "fl_release"}, NEW callbacks \in Seq(IdleLabels),
             CloseThen("main", next, callbacks)
      PROVE  /\ ThreadInv' /\ closed' \in BOOLEAN /\ idle' \in Seq(IdleLabels)
             /\ pc'["format"] = pc["format"] /\ pc'["write"] = pc["write"]
  BY <1>l, <1>c, Closes DEF TypeInv
<1>1. CASE RunStart
  <2>1. ThreadInv' /\ pc'["format"] = pc["format"] /\ pc'["write"] = pc["write"]
    <3>1. CASE pc' = pc
      BY <1>1, <3>1 DEF RunStart, TypeInv, ThreadInv, ThreadTypeOK, Resumes
    <3>2. CASE Goto("parse", "begin")
      BY <1>1, <1>l, <3>2, Moves DEF RunStart, TypeInv
    <3> QED
      BY <1>1, <3>1, <3>2 DEF RunStart
  <2>2. Holding' /\ TasksCounted'
    BY <1>1, <2>1, Undisturbed DEF RunStart, formatVars, queueVars, TypeInv
  <2>3. LoopTypeOK'
    BY <1>1, <1>t DEF RunStart, LoopTypeOK, IdleLabels, TypeInv
  <2> QED
    BY <1>1, <2>1, <2>2, <2>3, Stable DEF RunStart, TypeInv
<1>2. CASE RunClose
  <2>1. /\ ThreadInv' /\ closed' \in BOOLEAN /\ idle' \in Seq(IdleLabels)
        /\ pc'["format"] = pc["format"] /\ pc'["write"] = pc["write"]
    BY <1>2, <1>t, <1>c DEF RunClose
  <2>2. Holding' /\ TasksCounted'
    BY <1>2, <2>1, Undisturbed DEF RunClose, formatVars, queueVars, TypeInv
  <2>3. LoopTypeOK' /\ ConnTypeOK'
    BY <1>2, <2>1 DEF RunClose, LoopTypeOK, ConnTypeOK, IdleLabels, TypeInv
  <2> QED
    BY <1>2, <2>1, <2>2, <2>3, Stable DEF RunClose, TypeInv
<1>3. CASE RunLost
  <2>1. Holding' /\ TasksCounted'
    BY <1>3, Undisturbed DEF RunLost, threadVars, formatVars, queueVars, TypeInv
  <2>2. SourceTypeOK'
    BY <1>3, SourceTypes DEF RunLost, TypeInv
  <2>3. LoopTypeOK' /\ OutTypeOK'
    BY <1>3, <1>t DEF RunLost, LoopTypeOK, OutTypeOK, IdleLabels, TypeInv
  <2> QED
    BY <1>3, <2>1, <2>2, <2>3, Stable DEF RunLost, TypeInv
<1>4. CASE RunInvalid
  <2>1. Holding' /\ TasksCounted'
    BY <1>4, Undisturbed DEF RunInvalid, threadVars, formatVars, queueVars, TypeInv
  <2>2. LoopTypeOK'
    BY <1>4, <1>t DEF RunInvalid, LoopTypeOK, IdleLabels, TypeInv
  <2> QED
    BY <1>4, <2>1, <2>2, Stable DEF RunInvalid, TypeInv
<1>5. CASE RunClean
  <2>1. Holding' /\ TasksCounted'
    BY <1>5, Undisturbed DEF RunClean, threadVars, formatVars, queueVars, TypeInv
  <2>2. LoopTypeOK' /\ ConnTypeOK' /\ WakeTypeOK' /\ OutTypeOK'
    BY <1>5, <1>t
    DEF RunClean, LoopTypeOK, ConnTypeOK, WakeTypeOK, OutTypeOK, outVars, IdleLabels, TypeInv
  <2> QED
    BY <1>5, <2>1, <2>2, Stable DEF RunClean, TypeInv
<1>6. CASE CleanupProtocol
  <2>1. Holding' /\ TasksCounted'
    BY <1>6, Undisturbed DEF CleanupProtocol, threadVars, formatVars, queueVars, TypeInv
  <2>2. SourceTypeOK'
    BY <1>6, SourceTypes DEF CleanupProtocol, TypeInv
  <2> QED
    BY <1>6, <2>1, <2>2, Stable DEF CleanupProtocol, TypeInv
<1>7. CASE HangupTimer
  <2>1. /\ ThreadInv' /\ closed' \in BOOLEAN /\ idle' \in Seq(IdleLabels)
        /\ pc'["format"] = pc["format"] /\ pc'["write"] = pc["write"]
    BY <1>7, <1>i, <1>c DEF HangupTimer
  <2>2. Holding' /\ TasksCounted'
    BY <1>7, <2>1, Undisturbed DEF HangupTimer, formatVars, queueVars, TypeInv
  <2>3. LoopTypeOK' /\ ConnTypeOK'
    BY <1>7, <2>1 DEF HangupTimer, LoopTypeOK, ConnTypeOK, IdleLabels, TypeInv
  <2> QED
    BY <1>7, <2>1, <2>2, <2>3, Stable DEF HangupTimer, TypeInv
<1>8. CASE FlushTimer
  <2>1. /\ ThreadInv' /\ closed' \in BOOLEAN /\ idle' \in Seq(IdleLabels)
        /\ pc'["format"] = pc["format"] /\ pc'["write"] = pc["write"]
    <3>1. CASE CloseThen("main", "fl_release", idle)
      BY <1>i, <3>1, <1>c
    <3>2. CASE Goto("main", "fl_queue") /\ UNCHANGED <<closed, idle, cont>>
      BY <1>i, <1>l, <3>2, Moves DEF ConnTypeOK, TypeInv
    <3> QED
      BY <1>8, <3>1, <3>2 DEF FlushTimer
  <2>2. Holding' /\ TasksCounted'
    BY <1>8, <2>1, Undisturbed DEF FlushTimer, formatVars, queueVars, TypeInv
  <2>3. timers' \subseteq timers
    BY <1>8 DEF FlushTimer
  <2>4. LoopTypeOK' /\ ConnTypeOK'
    BY <1>8, <2>1, <2>3 DEF FlushTimer, LoopTypeOK, ConnTypeOK, IdleLabels, TypeInv
  <2> QED
    BY <1>8, <2>1, <2>2, <2>4, Stable DEF FlushTimer, TypeInv
<1> QED
  BY <1>1, <1>2, <1>3, <1>4, <1>5, <1>6, <1>7, <1>8 DEF MainNext

\* do_flush_then_close().
LEMMA FlushType ==
    ASSUME TypeInv, NEW t \in {"main", "parse"}, FlushThenClose(t) \/ FlushStep(t)
    PROVE  TypeInv'
<1>l. /\ t \in Threads /\ "format" \in Threads /\ "write" \in Threads /\ t \in Closing
      /\ t # "format" /\ t # "write"
      /\ FlushLabels \cup {Home(t)} \subseteq OwnLabels(t)
      /\ {"fl_done", "fl_release", "fl_release_timer"} \subseteq ResumeLabels(t)
  BY DEF Threads, OwnLabels, Closing, ResumeLabels, Home
<1>i. idle \in Seq(IdleLabels)
  BY DEF TypeInv, LoopTypeOK, IdleLabels
<1>m. ASSUME NEW label \in FlushLabels \cup {Home(t)}, Goto(t, label), UNCHANGED cont
      PROVE  ThreadInv' /\ pc'["write"] = pc["write"] /\ pc'["format"] = pc["format"]
  BY <1>l, <1>m, Moves DEF TypeInv
<1>c. ASSUME NEW next \in {"fl_done", "fl_release", "fl_release_timer"},
             CloseThen(t, next, idle)
      PROVE  /\ ThreadInv' /\ closed' \in BOOLEAN /\ idle' \in Seq(IdleLabels)
             /\ pc'["format"] = pc["format"] /\ pc'["write"] = pc["write"]
  BY <1>l, <1>i, <1>c, Closes DEF TypeInv
<1>k. closed \in BOOLEAN
  BY DEF ConnTypeOK, TypeInv
<1>1. CASE FlushThenClose(t)
  <2>1. ThreadInv' /\ pc'["format"] = pc["format"] /\ pc'["write"] = pc["write"]
    <3>1. CASE pc' = pc
      BY <1>1, <3>1 DEF FlushThenClose, TypeInv, ThreadInv, ThreadTypeOK, Resumes
    <3>2. CASE Goto(t, "fl_lock")
      BY <1>1, <3>2, <1>m DEF FlushThenClose, FlushLabels
    <3> QED
      BY <1>1, <3>1, <3>2 DEF FlushThenClose
  <2>2. Holding' /\ TasksCounted'
    BY <1>1, <2>1, Undisturbed DEF FlushThenClose, formatVars, queueVars, TypeInv
  <2>3. FlushTypeOK'
    BY <1>1 DEF FlushThenClose, FlushTypeOK, TypeInv
  <2> QED
    BY <1>1, <2>1, <2>2, <2>3, Stable DEF FlushThenClose, TypeInv
<1>2. CASE FlushLock(t)
  <2>1. /\ ThreadInv' /\ closed' \in BOOLEAN /\ idle' \in Seq(IdleLabels)
        /\ pc'["format"] = pc["format"] /\ pc'["write"] = pc["write"]
    <3>1. CASE CloseThen(t, TimedOut, idle)
      BY <3>1, <1>c DEF TimedOut
    <3>2. CASE UNCHANGED <<closed, idle, cont>> /\ (Goto(t, Home(t)) \/ Goto(t, "fl_queue"))
      BY <3>2, <1>m, <1>i, <1>k DEF FlushLabels
    <3> QED
      BY <1>2, <3>1, <3>2 DEF FlushLock
  <2>2. Holding' /\ TasksCounted'
    BY <1>2, <2>1, Undisturbed DEF FlushLock, formatVars, queueVars, TypeInv
  <2>3. LoopTypeOK' /\ ConnTypeOK' /\ OutTypeOK'
    BY <1>2, <2>1
    DEF FlushLock, LoopTypeOK, ConnTypeOK, OutTypeOK, outVars, IdleLabels, TypeInv
  <2> QED
    BY <1>2, <2>1, <2>2, <2>3, Stable DEF FlushLock, TypeInv
<1>3. CASE FlushTimedOut(t)
  <2>1. ThreadInv' /\ pc'["format"] = pc["format"] /\ pc'["write"] = pc["write"]
    BY <1>3, <1>m DEF FlushTimedOut
  <2>2. Holding' /\ TasksCounted'
    BY <1>3, <2>1, Undisturbed DEF FlushTimedOut, formatVars, queueVars, TypeInv
  <2>3. FlushTypeOK'
    BY <1>3 DEF FlushTimedOut, FlushTypeOK, TypeInv
  <2> QED
    BY <1>3, <2>1, <2>2, <2>3, Stable DEF FlushTimedOut, TypeInv
<1>4. CASE FlushWaitQueue(t)
  <2>1. /\ ThreadInv' /\ closed' \in BOOLEAN /\ idle' \in Seq(IdleLabels)
        /\ pc'["format"] = pc["format"] /\ pc'["write"] = pc["write"]
    <3>1. CASE CloseThen(t, "fl_release", idle)
      BY <3>1, <1>c
    <3>2. CASE UNCHANGED <<closed, idle, cont>> /\ (Goto(t, Home(t)) \/ Goto(t, "fl_raw"))
      BY <3>2, <1>m, <1>i, <1>k DEF FlushLabels
    <3> QED
      BY <1>4, <3>1, <3>2 DEF FlushWaitQueue
  <2>2. Holding' /\ TasksCounted'
    BY <1>4, <2>1, Undisturbed DEF FlushWaitQueue, formatVars, queueVars, TypeInv
  <2>3. LoopTypeOK' /\ ConnTypeOK'
    BY <1>4, <2>1 DEF FlushWaitQueue, LoopTypeOK, ConnTypeOK, IdleLabels, TypeInv
  <2>4. FlushTypeOK'
    BY <1>4, FlushTicksAssumption DEF FlushWaitQueue, FlushTypeOK, TypeInv
  <2> QED
    BY <1>4, <2>1, <2>2, <2>3, <2>4, Stable DEF FlushWaitQueue, TypeInv
<1>5. CASE FlushRawWrite(t)
  <2>1. PICK label \in {"fl_sent", "fl_put"} : StartWriteThread(t, label)
    BY <1>5 DEF FlushRawWrite
  <2>2. /\ ThreadInv' /\ pc'["format"] = pc["format"]
        /\ pc'["write"] = pc["write"] \/ (pc["write"] = "none" /\ pc'["write"] = "check")
    BY <1>5, <1>l, <2>1, Spawns DEF FlushRawWrite, FlushLabels, TypeInv
  <2>3. Holding' /\ TasksCounted'
    BY <1>5, <2>2 DEF FlushRawWrite, Holding, TasksCounted, Busy, formatVars, queueVars, TypeInv
  <2>4. OutTypeOK'
    BY <1>5, <2>1 DEF FlushRawWrite, StartWriteThread, OutTypeOK, outVars, TypeInv
  <2> QED
    BY <1>5, <2>2, <2>3, <2>4, Stable DEF FlushRawWrite, TypeInv
<1>6. CASE FlushPut(t)
  <2>1. ThreadInv' /\ pc'["format"] = pc["format"] /\ pc'["write"] = pc["write"]
    BY <1>6, <1>m DEF FlushPut, FlushLabels
  <2>2. QueueTypeOK' /\ TasksCounted'
    BY <1>6, <2>1, Puts DEF FlushPut, Outbound, TypeInv
  <2>3. Holding'
    BY <1>6, <2>1 DEF FlushPut, Holding, formatVars, TypeInv
  <2> QED
    BY <1>6, <2>1, <2>2, <2>3, Stable DEF FlushPut, TypeInv
<1>7. CASE FlushSent(t)
  <2>1. /\ ThreadInv' /\ closed' \in BOOLEAN /\ idle' \in Seq(IdleLabels)
        /\ pc'["format"] = pc["format"] /\ pc'["write"] = pc["write"]
    <3>1. CASE CloseThen(t, "fl_release_timer", idle)
      BY <3>1, <1>c
    <3>2. CASE UNCHANGED <<closed, idle, cont>> /\ Goto(t, Home(t))
      BY <3>2, <1>m, <1>i, <1>k
    <3> QED
      BY <1>7, <3>1, <3>2 DEF FlushSent
  <2>2. Holding' /\ TasksCounted'
    BY <1>7, <2>1, Undisturbed DEF FlushSent, formatVars, queueVars, TypeInv
  <2>3. LoopTypeOK' /\ ConnTypeOK'
    BY <1>7, <2>1 DEF FlushSent, SentTimers, LoopTypeOK, ConnTypeOK, IdleLabels, TypeInv
  <2> QED
    BY <1>7, <2>1, <2>2, <2>3, Stable DEF FlushSent, TypeInv
<1>8. CASE FlushRelease(t)
  <2>1. ThreadInv' /\ pc'["format"] = pc["format"] /\ pc'["write"] = pc["write"]
    BY <1>8, <1>m DEF FlushRelease
  <2>2. Holding' /\ TasksCounted'
    BY <1>8, <2>1, Undisturbed DEF FlushRelease, formatVars, queueVars, TypeInv
  <2>3. FlushTypeOK' /\ LoopTypeOK' /\ OutTypeOK'
    BY <1>8 DEF FlushRelease, FlushTypeOK, LoopTypeOK, OutTypeOK, outVars, TypeInv
  <2> QED
    BY <1>8, <2>1, <2>2, <2>3, Stable DEF FlushRelease, TypeInv
<1> QED
  BY <1>1, <1>2, <1>3, <1>4, <1>5, <1>6, <1>7, <1>8 DEF FlushStep

-----------------------------------------------------------------------------
\* The invariant always holds.
LEMMA TypeInvariance == Spec => []TypeInv
<1>1. Init => TypeInv
  <2> SUFFICES ASSUME Init PROVE TypeInv
    OBVIOUS
  <2>0. /\ \A S : <<>> \in Seq(S) /\ Len(<<>>) = 0
        /\ 0 \in 0..MaxSend /\ FlushTicks \in 0..FlushTicks
    BY MaxSendAssumption, FlushTicksAssumption
  <2>1. SourceTypeOK
    <3>1. [q \in Queues |-> 0] \in [Queues -> 0..MaxSend]
      BY <2>0
    <3> QED
      BY <2>0, <3>1 DEF Init, SourceInit, SourceTypeOK
  <2>2. WakeTypeOK /\ ConnTypeOK
    BY DEF Init, WakeTypeOK, ConnTypeOK
  <2>3. QueueTypeOK /\ TasksCounted
    <3>1. pc["write"] = "none"
      BY DEF Init, Threads
    <3>2. write_queue = <<>> /\ queued = <<>> /\ unfinished = 0 /\ exit_queue = FALSE
      BY DEF Init
    <3>3. Len(write_queue) = 0
      BY <3>2
    <3>4. QueueTypeOK
      <4>1. write_queue \in Seq(Outbound \cup {Ping, EmptyMarker})
        BY <3>2
      <4>2. queued \in Seq(Outbound)
        BY <3>2
      <4>3. exit_queue \in BOOLEAN
        BY <3>2
      <4>4. unfinished \in Nat /\ Len(write_queue) <= 1
        BY <3>2, <3>3
      <4> QED
        BY <4>1, <4>2, <4>3, <4>4 DEF QueueTypeOK, QueueSize
    <3>5. TasksCounted
      BY <3>1, <3>2, <3>3 DEF TasksCounted, Busy
    <3> QED
      BY <3>4, <3>5
  <2>4. ThreadInv /\ Holding
    BY DEF Init, ThreadInv, ThreadTypeOK, Resumes, Holding, Threads, Closing, AllLabels,
           CloseLabels, FlushLabels, WriteLabels, FormatLabels
  <2>5. FormatTypeOK /\ LoopTypeOK
    <3>1. <<"start">> \in Seq({"start", "close", "lost", "invalid", "clean"})
      OBVIOUS
    <3> QED
      BY <3>1 DEF Init, FormatTypeOK, LoopTypeOK
  <2>6. FlushTypeOK /\ OutTypeOK
    BY <2>0 DEF Init, FlushTypeOK, OutTypeOK
  <2> QED
    BY <2>1, <2>2, <2>3, <2>4, <2>5, <2>6 DEF TypeInv
<1>2. TypeInv /\ [Next]_vars => TypeInv'
  <2> SUFFICES ASSUME TypeInv, [Next]_vars PROVE TypeInv'
    OBVIOUS
  <2>1. CASE UNCHANGED vars
    <3>1. Holding' /\ TasksCounted'
      BY <2>1, Undisturbed DEF vars, threadVars, formatVars, queueVars, TypeInv
    <3> QED
      BY <2>1, <3>1, Stable DEF vars, TypeInv
  <2>2. CASE Next
    BY <2>2, ProducerType, FormatType, WriteType, ParseType, MainType, CloseStepType,
       HandlerType, FlushType DEF Next, Closing
  <2> QED
    BY <2>1, <2>2
<1> QED
  BY <1>1, <1>2, PTL DEF Spec

\* Every variable of the protocol keeps its type, for any number of packets and
\* any handlers: the write queue never holds more than its one slot, each thread
\* resumes from close() where it called it, and task_done() is never called once
\* more than put(), which Queue would answer with a ValueError.
THEOREM TypeCorrect == Spec => []TypeOK
<1>1. TypeInv => TypeOK
  BY DEF TypeInv, TypeOK, ThreadInv
<1> QED
  BY <1>1, TypeInvariance, PTL
=============================================================================
