-------------------------- MODULE SocketOrderProofs --------------------------
(***************************************************************************)
(* What the peer is sent: the packets of each queue in their order, the    *)
(* packet of send_disconnect() last, and nothing taken for sent that was   *)
(* not written.  The protocol implements the packet stream.                *)
(*                                                                         *)
(* Three invariants carry the argument.  LockInv follows the write lock    *)
(* through flush_then_close(): it is run once, and from the moment it has  *)
(* the lock the format thread is kept out, by the lock at first and by     *)
(* _closed once close_and_release() has freed it, even though that may     *)
(* free it twice.  ChainInv says where a packet is between the write queue *)
(* and the connection: what was written is a prefix of what was put.       *)
(* OrderInv follows the packets from the source to the write queue.        *)
(***************************************************************************)
EXTENDS SocketLossProofs

Flushing == {"main", "parse"}

\* The steps of flush_then_close() that are made with the write lock held.
HeldLabels == {"fl_queue", "fl_raw", "fl_put", "fl_sent"}
EngagedLabels == {"fl_lock"} \cup HeldLabels
ReleaseLabels == {"fl_release", "fl_release_timer"}

\* The timers of flush_then_close(): before the last packet is put, and after.
SentTimer(x) == x \in {"wait_for_packet_sent", "close_and_release"}
FlushTimers == {"wait_for_queue", "wait_for_packet_sent", "close_and_release"}

\* Thread t runs flush_then_close() up to the end of wait_for_packet_sent().
Engaged(t) == pc[t] \in EngagedLabels

\* Thread t will free the write lock, now or once close() returns.
Releasing(t) ==
    \/ pc[t] \in ReleaseLabels
    \/ pc[t] \in CloseLabels /\ cont[t] \in ReleaseLabels

\* Nothing is under way that frees the write lock for flush_then_close().
Unreleased ==
    /\ \A t \in Flushing : ~Releasing(t)
    /\ \A x \in timers : ~SentTimer(x)

\* flush_then_close() is not running, or is past the last packet.
Disengaged == (\A t \in Flushing : ~Engaged(t)) /\ "wait_for_queue" \notin timers

\* The format thread is past the test of _closed that it makes with the lock.
Putting == pc["format"] \in {"rawwrite", "put"}

\* flush_then_close() is run once, and does one thing at a time.
OneFlush ==
    /\ ~flush_called => Disengaged /\ Unreleased
    /\ \A t \in Flushing : Engaged(t) =>
         /\ Unreleased /\ "wait_for_queue" \notin timers
         /\ \A u \in Flushing : Engaged(u) => u = t
    /\ "wait_for_queue" \in timers => Unreleased

\* It keeps the lock until the connection is closed.
LockHeld ==
    /\ \A t \in Flushing : pc[t] \in HeldLabels => write_lock = "flush"
    /\ "wait_for_queue" \in timers => write_lock = "flush"
    /\ \A x \in timers : SentTimer(x) => closed \/ write_lock = "flush"
    /\ \A t \in Flushing : Releasing(t) => closed

\* The format thread has the lock where it needs it; only a second release of
\* close_and_release() can take it away, and then the connection is closed.
LockKept ==
    /\ pc["format"] = "locked" => write_lock = "format" \/ (closed /\ flush_called /\ Disengaged)
    /\ Putting => write_lock = "format" /\ Unreleased

LockInv == OneFlush /\ LockHeld /\ LockKept

\* Once the last packet is in the queue nobody puts another one.
LastInv ==
    /\ \A i \in DOMAIN queued : queued[i] = LastPacket => i = Len(queued)
    /\ IsQueued(LastPacket) =>
         /\ flush_called /\ ~Putting
         /\ closed \/ write_lock = "flush"
         /\ "wait_for_queue" \notin timers
         /\ \A t \in Flushing : pc[t] \notin {"fl_lock", "fl_queue", "fl_raw", "fl_put"}

FlushInv == LockInv /\ LastInv

-----------------------------------------------------------------------------
\* Whether the write thread, and the one slot of the queue, hold a packet that
\* the histories record.
Hand == IF pc["write"] \in {"write", "send"} /\ packet["write"] # Ping THEN 1 ELSE 0
Slot == IF write_queue # <<>> /\ write_queue[1] # Ping THEN 1 ELSE 0

\* What was written is a prefix of what was put.
WirePrefix ==
    /\ Len(wire) <= Len(queued)
    /\ \A i \in 1..Len(wire) : wire[i] = queued[i]

\* The packet that may still be sent is the next one, closed or not.
SendIsNext ==
    pc["write"] = "send" /\ packet["write"] # Ping =>
        Len(wire) < Len(queued) /\ packet["write"] = queued[Len(wire) + 1]

\* While the write thread works nothing is lost between the queue and the wire.
NothingLost ==
    ~closed /\ pc["write"] # "exit" =>
        /\ Len(queued) = Len(wire) + Hand + Slot
        /\ Hand = 1 => packet["write"] = queued[Len(wire) + 1]
        /\ Slot = 1 => write_queue[1] = queued[Len(wire) + Hand + 1]

\* Only close() takes the queue or the connection away.
Intact ==
    /\ ~closed => ~exit_queue /\ conn
    /\ ~closed => \A i \in DOMAIN write_queue : write_queue[i] # EmptyMarker
    /\ pc["write"] = "exit" => closed \/ failed

ChainInv == WirePrefix /\ SendIsNext /\ NothingLost /\ Intact

-----------------------------------------------------------------------------
\* The format thread has a packet it may still put.
Carrying == pc["format"] \in {"clear", "lock", "acquire", "locked", "rawwrite", "put"}
Carried == packet["format"]

\* Packet p is older than packet r of the same queue.
Older(p, r) == p.q = r.q /\ p.q \in Queues => p.n < r.n

Ascending(s) == \A i, j \in DOMAIN s : i < j => Older(s[i], s[j])
AllOlder(s, p) == \A i \in DOMAIN s : Older(s[i], p)
AllNewer(p, s) == \A i \in DOMAIN s : Older(p, s[i])
Precedes(r, s) == \A i \in DOMAIN r : AllNewer(r[i], s)

\* Packet p is among the first ones that its queue was given.
Known(p, counts) == p.q \in Queues => p.n \in 1..counts[p.q]
IsOrdinary(p, n) == p.q = "ordinary" /\ p.n = n
Among(s, n) == \E i \in DOMAIN s : IsOrdinary(s[i], n)

\* The packets of the source, of the format thread and of the write queue are
\* in the order in which they were sent.
SourceOrder ==
    /\ \A i \in DOMAIN ordinary_packets : Known(ordinary_packets[i], sent)
    /\ \A i \in DOMAIN packet_queue : Known(packet_queue[i], sent)
    /\ Ascending(ordinary_packets) /\ Ascending(packet_queue)
    /\ \A i \in DOMAIN ordinary_packets : ordinary_packets[i].q # "pixels"
    /\ \A i \in DOMAIN packet_queue : packet_queue[i].q = "pixels"
PutOrder ==
    /\ \A i \in DOMAIN queued : Known(queued[i], sent)
    /\ Ascending(queued)
    /\ Precedes(queued, ordinary_packets) /\ Precedes(queued, packet_queue)
    /\ \A i \in DOMAIN queued : queued[i].q = "ordinary" =>
         \A n \in 1..(queued[i].n - 1) : \E j \in 1..(i - 1) : IsOrdinary(queued[j], n)
CarriedOrder ==
    Carrying =>
        /\ Known(Carried, sent) /\ Carried # LastPacket
        /\ AllOlder(queued, Carried)
        /\ AllNewer(Carried, ordinary_packets) /\ AllNewer(Carried, packet_queue)
        /\ Carried.q = "ordinary" => \A n \in 1..(Carried.n - 1) : Among(queued, n)

\* While the format thread works no ordinary packet is lost on the way.
NoneSkipped ==
    ~closed /\ pc["format"] # "exit" => \A n \in 1..sent["ordinary"] :
        \/ Among(queued, n)
        \/ Among(ordinary_packets, n)
        \/ Carrying /\ IsOrdinary(Carried, n)

\* The format thread is started once.
StartedOnce == ~closed /\ ~format_thread => pc["format"] = "none"

OrderInv == SourceOrder /\ PutOrder /\ CarriedOrder /\ NoneSkipped /\ StartedOnce

-----------------------------------------------------------------------------
(***************************************************************************)
(* Steps that leave one of the three invariants alone.                     *)
(***************************************************************************)

\* Thread t does not enter flush_then_close(), nor its end.
Steady(t) ==
    \/ pc'[t] = pc[t] /\ cont'[t] = cont[t]
    \/ pc'[t] \notin EngagedLabels /\ (Releasing(t)' => Releasing(t))

\* Nothing happens to the lock or to flush_then_close(), and the format thread
\* does not reach the steps for which it needs the lock.
Calm ==
    /\ UNCHANGED <<write_lock, flush_called>> /\ (closed => closed')
    /\ \A x \in FlushTimers : x \in timers' => x \in timers
    /\ \A t \in Flushing : Steady(t)
    /\ pc'["format"] = pc["format"] \/ pc'["format"] \notin {"locked", "rawwrite", "put"}

\* Nothing happens between the write queue and the wire.
Kept ==
    /\ UNCHANGED <<write_queue, exit_queue, queued, wire, conn>>
    /\ (closed => closed') /\ (failed => failed')
    /\ packet'["write"] = packet["write"]
    /\ pc'["write"] = pc["write"] \/ (pc["write"] = "none" /\ pc'["write"] = "check")

\* The connection is closed and the write thread does not begin to send.
Gone ==
    /\ closed' /\ UNCHANGED <<queued, wire>>
    /\ pc'["write"] = "send" => pc["write"] = "send" /\ packet'["write"] = packet["write"]

\* Nothing is added to the source or to the queue, and the format thread keeps
\* its packet unless there is none or it gives up.
Passed ==
    /\ UNCHANGED <<ordinary_packets, packet_queue, sent, queued>> /\ (closed => closed')
    /\ Carrying' => Carrying /\ packet'["format"] = packet["format"]
    /\ ~closed' /\ pc'["format"] # "exit" =>
         pc["format"] # "exit" /\ (Carrying /\ Carried # NoPacket => Carrying')
    /\ \/ closed' \/ format_thread'
       \/ ~format_thread /\ (pc["format"] = "none" => pc'["format"] = "none")

\* A calm step preserves the invariant of the lock.
LEMMA CalmLock == ASSUME LockInv, Calm PROVE LockInv'
<1>1. /\ \A t \in Flushing : Engaged(t)' => Engaged(t) /\ pc'[t] = pc[t]
      /\ \A t \in Flushing : Releasing(t)' => Releasing(t)
  BY DEF Calm, Steady, Engaged, Releasing
<1>2. \A x : x \in timers' /\ (SentTimer(x) \/ x = "wait_for_queue") => x \in timers
  BY DEF Calm, SentTimer, FlushTimers
<1>3. (Unreleased => Unreleased') /\ (Disengaged => Disengaged')
  BY <1>1, <1>2 DEF Unreleased, Disengaged
<1>4. OneFlush'
  BY <1>1, <1>2, <1>3 DEF LockInv, OneFlush, Calm
<1>5. LockHeld'
  <2>1. \A t \in Flushing : pc'[t] \in HeldLabels => Engaged(t)'
    BY DEF Engaged, EngagedLabels
  <2> QED
    BY <1>1, <1>2, <2>1 DEF LockInv, LockHeld, Calm
<1>6. LockKept'
  BY <1>3 DEF LockInv, LockKept, Calm, Putting
<1> QED
  BY <1>4, <1>5, <1>6 DEF LockInv

\* And, when nothing is put, what is said of the last packet.
LEMMA CalmLast == ASSUME LastInv, Calm, UNCHANGED queued PROVE LastInv'
<1>1. \A t \in Flushing : Engaged(t)' => pc'[t] = pc[t]
  BY DEF Calm, Steady, Engaged, Releasing
<1>2. "wait_for_queue" \in timers' => "wait_for_queue" \in timers
  BY DEF Calm, FlushTimers
<1>3. Putting' => Putting
  BY DEF Calm, Putting
<1> QED
  BY <1>1, <1>2, <1>3 DEF LastInv, Calm, IsQueued, Engaged, EngagedLabels, HeldLabels

\* A step that keeps the chain.
LEMMA KeptChain == ASSUME ChainInv, Kept PROVE ChainInv'
<1>1. Hand' = Hand /\ Slot' = Slot
  BY DEF Kept, Hand, Slot
<1>2. WirePrefix' /\ SendIsNext'
  BY DEF ChainInv, WirePrefix, SendIsNext, Kept
<1>3. NothingLost'
  BY <1>1 DEF ChainInv, NothingLost, Kept
<1>4. Intact'
  BY DEF ChainInv, Intact, Kept
<1> QED
  BY <1>2, <1>3, <1>4 DEF ChainInv

\* A step on a closed connection.
LEMMA GoneChain == ASSUME ChainInv, Gone PROVE ChainInv'
  BY DEF ChainInv, WirePrefix, SendIsNext, NothingLost, Intact, Gone

\* A step of the format thread with a packet, or of anybody else.
LEMMA PassedOrder == ASSUME OrderInv, Passed PROVE OrderInv'
<1>1. SourceOrder' /\ PutOrder'
  BY DEF OrderInv, SourceOrder, PutOrder, Passed, Known, Ascending, Precedes, AllNewer,
         Older, IsOrdinary
<1>2. CarriedOrder'
  BY DEF OrderInv, CarriedOrder, Passed, Known, AllOlder, AllNewer, Older, Among, IsOrdinary,
         Carried
<1>3. NoneSkipped'
  <2>1. \A n : ~IsOrdinary(NoPacket, n)
    BY DEF IsOrdinary, NoPacket
  <2>2. ASSUME ~closed', pc'["format"] # "exit", NEW n \in 1..sent["ordinary"],
               Carrying, IsOrdinary(Carried, n)
        PROVE  Carrying' /\ IsOrdinary(Carried, n)'
    <3>1. Carried # NoPacket
      BY <2>1, <2>2
    <3>2. Carrying' /\ packet'["format"] = packet["format"]
      BY <2>2, <3>1 DEF Passed
    <3> QED
      BY <2>2, <3>2 DEF IsOrdinary, Carried
  <2> QED
    BY <2>2 DEF OrderInv, NoneSkipped, Passed, Among, IsOrdinary
<1>4. StartedOnce'
  BY DEF OrderInv, StartedOnce, Passed
<1> QED
  BY <1>1, <1>2, <1>3, <1>4 DEF OrderInv

\* The inductive invariant.
PathInv == FlushInv /\ ChainInv /\ OrderInv

\* A step that leaves all of it alone.
Aside == Calm /\ (Kept \/ Gone) /\ Passed

\* Such a step preserves the invariant.
LEMMA AsideKeeps == ASSUME PathInv, Aside PROVE PathInv'
<1>1. UNCHANGED queued
  BY DEF Aside, Passed
<1> QED
  BY <1>1, CalmLock, CalmLast, KeptChain, GoneChain, PassedOrder
  DEF Aside, PathInv, FlushInv

-----------------------------------------------------------------------------
(***************************************************************************)
(* How a thread moves.                                                     *)
(***************************************************************************)

\* Only thread t moves.
Alone(t) == \A u \in Threads : u # t => pc'[u] = pc[u] /\ cont'[u] = cont[u]

\* A thread that goes to a label.
LEMMA Hops ==
    ASSUME TypeInv, NEW t \in Threads, NEW label, Goto(t, label), UNCHANGED cont
    PROVE  pc'[t] = label /\ cont'[t] = cont[t] /\ Alone(t)
  BY DEF TypeInv, ThreadInv, ThreadTypeOK, Goto, Alone

\* A thread that calls close(): whether or not it is the first one to do so, the
\* connection is closed and the thread is no longer engaged in a flush.
LEMMA CallsClose ==
    ASSUME TypeInv, NEW t \in Closing, NEW next \in ResumeLabels(t), NEW callbacks,
           CloseThen(t, next, callbacks)
    PROVE  /\ closed' /\ Alone(t)
           /\ pc'[t] \in CloseLabels \cup {next} /\ pc'[t] \notin EngagedLabels
           /\ Releasing(t)' => next \in ReleaseLabels
<1>0. pc \in [Threads -> AllLabels] /\ t \in Threads /\ DOMAIN cont = Threads
  BY DEF TypeInv, ThreadInv, ThreadTypeOK, Closing, Threads
<1>1. next \notin EngagedLabels /\ next \notin CloseLabels
  BY DEF Closing, ResumeLabels, EngagedLabels, HeldLabels, CloseLabels
<1>2. CASE AlreadyClosed
  <2>1. Goto(t, next) /\ closed' = closed /\ cont' = cont
    BY <1>2 DEF CloseThen
  <2>2. pc'[t] = next /\ Alone(t)
    BY <1>0, <2>1, Hops
  <2> QED
    BY <1>1, <1>2, <2>1, <2>2 DEF AlreadyClosed, Releasing
<1>3. CASE ~AlreadyClosed
  <2>1. closed' = TRUE /\ Goto(t, "close_conn") /\ cont' = [cont EXCEPT ![t] = next]
    BY <1>3 DEF CloseThen
  <2>2. pc'[t] = "close_conn" /\ cont'[t] = next /\ Alone(t)
    BY <1>0, <2>1 DEF Goto, Alone
  <2> QED
    BY <2>1, <2>2 DEF Releasing, EngagedLabels, HeldLabels, ReleaseLabels, CloseLabels
<1> QED
  BY <1>2, <1>3

\* The main loop or the parse thread goes to a label outside flush_then_close().
LEMMA Strolls ==
    ASSUME NEW t \in Flushing, NEW label, pc'[t] = label,
           label \notin EngagedLabels \cup ReleaseLabels \cup CloseLabels
    PROVE  Steady(t)
  BY DEF Steady, Releasing

\* Threads that do not move are steady.
LEMMA Others ==
    ASSUME NEW t \in Threads, Alone(t)
    PROVE  /\ \A u \in Flushing : u # t => Steady(u)
           /\ t # "format" => pc'["format"] = pc["format"]
           /\ t # "write" => pc'["write"] = pc["write"]
  BY DEF Alone, Steady, Flushing, Threads

\* A step of another thread than the format thread that touches neither packets
\* nor the lock.
LEMMA StepsAside ==
    ASSUME pc'["format"] = pc["format"], packet'["format"] = packet["format"],
           UNCHANGED <<ordinary_packets, packet_queue, sent, queued, write_lock, flush_called>>,
           closed => closed', \A x \in FlushTimers : x \in timers' => x \in timers,
           \A t \in Flushing : Steady(t), format_thread' = format_thread \/ closed',
           Kept \/ Gone
    PROVE  Aside
  BY DEF Aside, Calm, Passed, Carrying

-----------------------------------------------------------------------------
\* The steps of close().
LEMMA CloseStepPath ==
    ASSUME TypeInv, LossInv, PathInv, NEW t \in Closing, CloseStep(t)
    PROVE  PathInv'
<1>t. t \in Threads /\ t # "format" /\ "write" \in Threads /\ Flushing \subseteq Threads
  BY DEF Closing, Threads, Flushing
<1>1. pc[t] \in CloseLabels
  BY DEF CloseStep, CloseConnection, SwapQueue, DrainQueue, MarkQueue, CloseLabels
<1>2. closed
  BY <1>1 DEF LossInv, OnlyClosed
<1>3. /\ UNCHANGED <<closed, packet, ordinary_packets, packet_queue, sent, queued, wire, cont,
                     write_lock, flush_called, timers, format_thread>>
  BY DEF CloseStep, CloseConnection, SwapQueue, DrainQueue, MarkQueue, sourceVars, wakeVars,
         connVars, queueVars, formatVars, loopVars, flushVars, outVars
<1>4. \E label \in CloseLabels \cup {cont[t]} : pc'[t] = label /\ Alone(t)
  <2>1. CASE UNCHANGED pc
    BY <1>1, <1>3, <2>1 DEF Alone
  <2>2. ASSUME NEW label \in CloseLabels \cup {cont[t]}, Goto(t, label)
        PROVE  pc'[t] = label /\ Alone(t)
    BY <1>t, <1>3, <2>2, Hops
  <2>3. {"close_swap", "close_drain", "close_mark"} \subseteq CloseLabels
    BY DEF CloseLabels
  <2>4. CASE Goto(t, "close_swap") \/ Goto(t, "close_drain") \/ Goto(t, "close_mark")
             \/ Goto(t, cont[t])
    BY <2>2, <2>3, <2>4
  <2> QED
    BY <2>1, <2>4 DEF CloseStep, CloseConnection, SwapQueue, DrainQueue, MarkQueue
<1>5. PICK label \in CloseLabels \cup {cont[t]} : pc'[t] = label /\ Alone(t)
  BY <1>4
<1>6. cont[t] \in ResumeLabels(t)
  BY <1>1 DEF TypeInv, ThreadInv, Resumes
<1>7. t \in Flushing => Steady(t)
  <2>1. label \notin EngagedLabels
    BY <1>6 DEF ResumeLabels, EngagedLabels, HeldLabels, CloseLabels, Closing
  <2>2. Releasing(t)' => Releasing(t)
    BY <1>1, <1>3, <1>5 DEF Releasing, CloseLabels, ReleaseLabels
  <2> QED
    BY <1>5, <2>1, <2>2 DEF Steady
<1>8. Gone
  <2>1. t = "write" => pc'["write"] # "send"
    BY <1>5, <1>6 DEF ResumeLabels, CloseLabels
  <2> QED
    BY <1>t, <1>2, <1>3, <1>5, <2>1, Others DEF Gone
<1>9. Aside
  BY <1>t, <1>2, <1>3, <1>5, <1>7, <1>8, Others, StepsAside
<1> QED
  BY <1>9, AsideKeeps

\* The handlers that close or steal the connection.
LEMMA HandlerPath ==
    ASSUME TypeInv, LossInv, PathInv, NEW t \in Flushing, HandlerClose(t) \/ StealConnection(t)
    PROVE  PathInv'
<1>t. /\ t \in Threads /\ t \in Closing /\ t # "format" /\ t # "write" /\ Home(t) \in ResumeLabels(t)
      /\ Home(t) \notin ReleaseLabels /\ Home(t) \notin EngagedLabels
  BY DEF Closing, Threads, Flushing, Home, ResumeLabels, ReleaseLabels, EngagedLabels, HeldLabels
<1>1. UNCHANGED <<packet, ordinary_packets, packet_queue, sent, queued, wire,
                  write_lock, flush_called, timers, format_thread>>
  BY DEF HandlerClose, StealConnection, sourceVars, wakeVars, queueVars, formatVars, loopVars,
         flushVars, outVars
<1>2. closed' /\ Alone(t) /\ Steady(t)
  <2>1. CASE HandlerClose(t)
    <3>1. CloseThen(t, Home(t), idle)
      BY <2>1 DEF HandlerClose
    <3> QED
      BY <1>t, <3>1, CallsClose DEF Steady
  <2>2. CASE StealConnection(t)
    <3>1. /\ closed' /\ Goto(t, "close_swap") /\ cont' = [cont EXCEPT ![t] = Home(t)]
          /\ pc \in [Threads -> AllLabels] /\ DOMAIN cont = Threads
      BY <2>2 DEF StealConnection, TypeInv, ThreadInv, ThreadTypeOK
    <3>2. pc'[t] = "close_swap" /\ cont'[t] = Home(t) /\ Alone(t)
      BY <1>t, <3>1 DEF Goto, Alone
    <3> QED
      BY <1>t, <3>1, <3>2 DEF Steady, Releasing, ReleaseLabels, EngagedLabels, HeldLabels
  <2> QED
    BY <2>1, <2>2
<1>3. Gone
  BY <1>t, <1>1, <1>2, Others DEF Gone
<1>4. Aside
  BY <1>t, <1>1, <1>2, <1>3, Others, StepsAside
<1> QED
  BY <1>4, AsideKeeps

\* The parse thread.
LEMMA ParsePath == ASSUME TypeInv, LossInv, PathInv, ParseNext PROVE PathInv'
<1>t. "parse" \in Threads /\ "parse" \in Flushing
  BY DEF Threads, Flushing
<1>1. /\ UNCHANGED <<packet, ordinary_packets, packet_queue, sent, queued, wire, cont, closed,
                     write_lock, flush_called, format_thread, write_queue, exit_queue, conn,
                     failed>>
      /\ \A x \in FlushTimers : x \in timers' => x \in timers
  <2>1. timers' = timers \/ timers' = timers \cup {"hangup"}
    BY DEF ParseNext, ParseBegin, ParseClosed, ParseConnGone, ParseEof, ParseInvalid,
           HangUpLater, loopVars
  <2> QED
    BY <2>1 DEF ParseNext, ParseBegin, ParseClosed, ParseConnGone, ParseEof, ParseInvalid,
           sourceVars, wakeVars, connVars, queueVars, formatVars, flushVars, outVars, FlushTimers
<1>2. PICK label \in {"read", "exit"} : Goto("parse", label)
  BY DEF ParseNext, ParseBegin, ParseClosed, ParseConnGone, ParseEof, ParseInvalid
<1>3. pc'["parse"] = label /\ Alone("parse")
  BY <1>t, <1>1, <1>2, Hops
<1>4. Steady("parse")
  BY <1>t, <1>3, Strolls DEF EngagedLabels, HeldLabels, ReleaseLabels, CloseLabels
<1>5. Kept
  BY <1>t, <1>1, <1>3, Others DEF Kept
<1>6. Aside
  BY <1>t, <1>1, <1>3, <1>4, <1>5, Others, StepsAside
<1> QED
  BY <1>6, AsideKeeps

-----------------------------------------------------------------------------
(***************************************************************************)
(* flush_then_close() and the write lock.                                  *)
(***************************************************************************)

\* close_and_release() begins, from a step made with the lock held or from one
\* of the timers armed there: close() comes before the release.
LEMMA FlushCloses ==
    ASSUME TypeInv, FlushInv, NEW t \in Flushing, NEW next \in ReleaseLabels,
           CloseThen(t, next, idle), UNCHANGED <<write_lock, flush_called, queued>>,
           timers' \subseteq timers,
           pc[t] \in HeldLabels \/ \E x \in timers : SentTimer(x)
    PROVE  FlushInv'
<1>t. t \in Closing /\ t \in Threads /\ Flushing \subseteq Threads /\ t # "format"
      /\ next \in ResumeLabels(t)
  BY DEF Flushing, Closing, Threads, ResumeLabels, ReleaseLabels
<1>1. closed' /\ Alone(t) /\ pc'[t] \notin EngagedLabels
  BY <1>t, CallsClose
<1>2. /\ flush_called /\ "wait_for_queue" \notin timers /\ ~Putting
      /\ \A u \in Flushing : Engaged(u) => u = t
  <2>1. CASE pc[t] \in HeldLabels
    <3>1. Engaged(t) /\ write_lock = "flush"
      BY <2>1 DEF Engaged, EngagedLabels, FlushInv, LockInv, LockHeld
    <3> QED
      BY <3>1 DEF FlushInv, LockInv, OneFlush, LockKept, Disengaged
  <2>2. CASE \E x \in timers : SentTimer(x)
    <3>1. ~Unreleased
      BY <2>2 DEF Unreleased
    <3> QED
      BY <3>1 DEF FlushInv, LockInv, OneFlush, LockKept
  <2> QED
    BY <2>1, <2>2
<1>3. Disengaged'
  BY <1>t, <1>1, <1>2 DEF Disengaged, Engaged, Alone
<1>4. pc'["format"] = pc["format"] /\ ~Putting'
  BY <1>t, <1>1, <1>2 DEF Alone, Threads, Putting
<1>5. LockInv'
  <2>1. OneFlush'
    BY <1>2, <1>3 DEF OneFlush, Disengaged
  <2>2. LockHeld'
    BY <1>1, <1>3 DEF LockHeld, Disengaged, Engaged, EngagedLabels
  <2>3. LockKept'
    BY <1>1, <1>2, <1>3, <1>4 DEF LockKept
  <2> QED
    BY <2>1, <2>2, <2>3 DEF LockInv
<1>6. LastInv'
  BY <1>1, <1>2, <1>3, <1>4
  DEF FlushInv, LastInv, Disengaged, Engaged, EngagedLabels, HeldLabels, IsQueued
<1> QED
  BY <1>5, <1>6 DEF FlushInv

\* A step made with the lock held, before the last packet is in the queue, that
\* goes on to another such step.
LEMMA FlushProceeds ==
    ASSUME TypeInv, FlushInv, NEW t \in Flushing, pc[t] \in {"fl_queue", "fl_raw", "fl_put"},
           pc'[t] \in HeldLabels, UNCHANGED <<write_lock, flush_called, timers, closed, cont>>,
           pc'["format"] = pc["format"], \A u \in Flushing : u # t => pc'[u] = pc[u]
    PROVE  /\ LockInv' /\ ~IsQueued(LastPacket) /\ ~Putting' /\ write_lock' = "flush"
           /\ flush_called' /\ "wait_for_queue" \notin timers'
           /\ \A u \in Flushing : u # t => ~Engaged(u)'
<1>1. Engaged(t) /\ Engaged(t)' /\ pc[t] \in HeldLabels
  BY DEF Engaged, EngagedLabels, HeldLabels
<1>2. write_lock = "flush" /\ ~Putting
  BY <1>1 DEF FlushInv, LockInv, LockHeld, LockKept
<1>3. /\ Unreleased /\ flush_called /\ "wait_for_queue" \notin timers
      /\ \A u \in Flushing : Engaged(u) => u = t
  BY <1>1 DEF FlushInv, LockInv, OneFlush, Disengaged
<1>4. \A u \in Flushing : Engaged(u)' <=> Engaged(u)
  BY <1>1 DEF Engaged
<1>5. \A u \in Flushing : ~Releasing(u)'
  <2>1. ~Releasing(t)'
    BY DEF Releasing, HeldLabels, ReleaseLabels, CloseLabels
  <2> QED
    BY <1>3, <2>1 DEF Unreleased, Releasing
<1>6. Unreleased'
  BY <1>3, <1>5 DEF Unreleased
<1>7. OneFlush'
  BY <1>3, <1>4, <1>6 DEF OneFlush
<1>8. LockHeld'
  BY <1>2, <1>3, <1>5 DEF LockHeld
<1>9. LockKept'
  BY <1>1, <1>2, <1>3 DEF FlushInv, LockInv, LockKept, Putting, Disengaged
<1> QED
  BY <1>1, <1>2, <1>3, <1>4, <1>7, <1>8, <1>9 DEF FlushInv, LockInv, LastInv, Putting

\* Such a step hands over to a timer.
LEMMA FlushWaits ==
    ASSUME TypeInv, FlushInv, NEW t \in Flushing, pc[t] \in HeldLabels, Goto(t, Home(t)),
           NEW armed, armed \in {{"wait_for_queue"}, SentTimers},
           timers' = timers \cup armed, UNCHANGED <<write_lock, flush_called, closed, cont, queued>>,
           "wait_for_queue" \in armed => pc[t] = "fl_queue"
    PROVE  FlushInv'
<1>t. t \in Threads /\ Flushing \subseteq Threads /\ t # "format" /\ "format" \in Threads
  BY DEF Flushing, Threads
<1>0. pc'[t] = Home(t) /\ cont'[t] = cont[t] /\ Alone(t)
  BY <1>t, Hops
<1>1. Engaged(t) /\ ~Engaged(t)' /\ ~Releasing(t)' /\ pc'["format"] = pc["format"]
  BY <1>t, <1>0 DEF Engaged, EngagedLabels, HeldLabels, Home, Releasing, ReleaseLabels, CloseLabels, Alone
<1>2. write_lock = "flush" /\ ~Putting
  BY <1>1 DEF FlushInv, LockInv, LockHeld, LockKept
<1>3. /\ Unreleased /\ flush_called /\ "wait_for_queue" \notin timers
      /\ \A u \in Flushing : Engaged(u) => u = t
  BY <1>1 DEF FlushInv, LockInv, OneFlush, Disengaged
<1>4. (\A u \in Flushing : ~Engaged(u)') /\ (\A u \in Flushing : ~Releasing(u)')
  BY <1>t, <1>0, <1>1, <1>3 DEF Engaged, Releasing, Unreleased, Alone
<1>5. "wait_for_queue" \in timers' => Unreleased'
  <2>1. "wait_for_queue" \in timers' => armed = {"wait_for_queue"}
    BY <1>3 DEF SentTimers
  <2> QED
    BY <1>3, <1>4, <2>1 DEF Unreleased, SentTimer
<1>6. OneFlush' /\ LockHeld'
  BY <1>2, <1>3, <1>4, <1>5 DEF OneFlush, LockHeld, Engaged, EngagedLabels
<1>7. LockKept'
  BY <1>1, <1>2, <1>3 DEF FlushInv, LockInv, LockKept, Putting, Disengaged
<1>8. LastInv'
  <2>1. "wait_for_queue" \in timers' => pc[t] = "fl_queue"
    BY <1>3
  <2> QED
    BY <1>2, <1>1, <1>3, <1>4, <2>1
    DEF FlushInv, LastInv, IsQueued, Putting, Engaged, EngagedLabels, HeldLabels
<1> QED
  BY <1>6, <1>7, <1>8 DEF FlushInv, LockInv

\* The lock is acquired, or acquired no more: from then on it is kept.
LEMMA FlushAcquires ==
    ASSUME TypeInv, FlushInv, NEW t \in Flushing, pc[t] = "fl_lock", LockFree,
           write_lock' = "flush", Goto(t, "fl_queue"),
           UNCHANGED <<flush_called, closed, cont, timers, queued>>
    PROVE  FlushInv'
<1>t. t \in Threads /\ Flushing \subseteq Threads /\ t # "format" /\ "format" \in Threads
  BY DEF Flushing, Threads
<1>0. pc'[t] = "fl_queue" /\ cont'[t] = cont[t] /\ Alone(t)
  BY <1>t, Hops
<1>1. Engaged(t) /\ Engaged(t)' /\ ~Releasing(t)' /\ pc'["format"] = pc["format"]
  BY <1>t, <1>0 DEF Engaged, EngagedLabels, HeldLabels, Releasing, ReleaseLabels, CloseLabels, Alone
<1>2. /\ Unreleased /\ flush_called /\ "wait_for_queue" \notin timers
      /\ \A u \in Flushing : Engaged(u) => u = t
  BY <1>1 DEF FlushInv, LockInv, OneFlush, Disengaged
<1>3. ~Putting /\ pc["format"] # "locked"
  BY <1>1 DEF FlushInv, LockInv, LockKept, LockFree, Disengaged
<1>4. (\A u \in Flushing : Engaged(u)' => u = t) /\ (\A u \in Flushing : ~Releasing(u)')
  BY <1>t, <1>0, <1>1, <1>2 DEF Engaged, Releasing, Unreleased, Alone
<1>5. Unreleased'
  BY <1>2, <1>4 DEF Unreleased
<1>6. OneFlush' /\ LockHeld' /\ LockKept'
  BY <1>1, <1>2, <1>3, <1>4, <1>5 DEF OneFlush, LockHeld, LockKept, Putting
<1>7. LastInv'
  BY DEF FlushInv, LastInv, IsQueued
<1> QED
  BY <1>6, <1>7 DEF FlushInv, LockInv

\* The lock is freed, whoever holds it: the connection is closed by then, and the
\* format thread makes its test of _closed after it has the lock.
LEMMA FlushReleases ==
    ASSUME TypeInv, FlushInv, NEW t \in Flushing, FlushRelease(t)
    PROVE  FlushInv'
<1>t. t \in Threads /\ Flushing \subseteq Threads /\ t # "format" /\ "format" \in Threads
  BY DEF Flushing, Threads
<1>0. /\ pc[t] \in ReleaseLabels /\ Goto(t, Home(t)) /\ write_lock' \in {write_lock, "none"}
      /\ timers' \subseteq timers \cup {"close_and_release"}
      /\ UNCHANGED <<flush_called, closed, cont, queued>>
  BY DEF FlushRelease, ReleaseLabels, connVars, queueVars
<1>1. pc'[t] = Home(t) /\ cont'[t] = cont[t] /\ Alone(t)
  BY <1>t, <1>0, Hops
<1>2. Releasing(t) /\ closed /\ ~Unreleased /\ ~Engaged(t)'
  BY <1>0, <1>1 DEF Releasing, Unreleased, FlushInv, LockInv, LockHeld, Engaged, EngagedLabels, HeldLabels, Home
<1>3. flush_called /\ Disengaged /\ ~Putting
  BY <1>2 DEF FlushInv, LockInv, OneFlush, LockKept, Disengaged
<1>4. Disengaged' /\ ~Putting'
  BY <1>t, <1>0, <1>1, <1>2, <1>3 DEF Disengaged, Engaged, Alone, Putting
<1>5. LockInv'
  BY <1>0, <1>2, <1>3, <1>4
  DEF LockInv, OneFlush, LockHeld, LockKept, Disengaged, Engaged, EngagedLabels
<1>6. LastInv'
  BY <1>0, <1>2, <1>3, <1>4
  DEF FlushInv, LastInv, IsQueued, Disengaged, Engaged, EngagedLabels, HeldLabels
<1> QED
  BY <1>5, <1>6 DEF FlushInv

\* A call of flush_then_close(): the first one.
LEMMA FlushBegins ==
    ASSUME TypeInv, FlushInv, NEW t \in Flushing, FlushThenClose(t)
    PROVE  FlushInv'
<1>t. t \in Threads /\ Flushing \subseteq Threads /\ t # "format" /\ "format" \in Threads
  BY DEF Flushing, Threads
<1>0. /\ ~flush_called /\ flush_called' /\ pc[t] = Home(t)
      /\ UNCHANGED <<closed, cont, queued, timers, write_lock>>
      /\ UNCHANGED pc \/ Goto(t, "fl_lock")
  BY DEF FlushThenClose, connVars, queueVars, loopVars
<1>1. pc'[t] \in {Home(t), "fl_lock"} /\ Alone(t)
  BY <1>t, <1>0, Hops DEF Alone
<1>2. Disengaged /\ Unreleased /\ ~IsQueued(LastPacket)
  BY <1>0 DEF FlushInv, LockInv, OneFlush, LastInv
<1>3. ~Releasing(t)' /\ pc'[t] \notin HeldLabels
  BY <1>1 DEF Releasing, ReleaseLabels, CloseLabels, HeldLabels, Home
<1>4. Unreleased' /\ \A u \in Flushing : Engaged(u)' => u = t
  BY <1>t, <1>0, <1>1, <1>2, <1>3 DEF Unreleased, Disengaged, Releasing, Engaged, Alone
<1>5. OneFlush'
  BY <1>0, <1>2, <1>4 DEF OneFlush, Disengaged
<1>6. LockHeld'
  BY <1>0, <1>2, <1>3, <1>4 DEF LockHeld, Disengaged, Unreleased, Engaged, EngagedLabels
<1>7. LockKept'
  <2>1. pc'["format"] = pc["format"]
    BY <1>t, <1>1 DEF Alone
  <2> QED
    BY <1>0, <1>4, <2>1 DEF FlushInv, LockInv, LockKept, Putting
<1>8. LastInv'
  BY <1>0, <1>2 DEF FlushInv, LastInv, IsQueued
<1> QED
  BY <1>5, <1>6, <1>7, <1>8 DEF FlushInv, LockInv

-----------------------------------------------------------------------------
(***************************************************************************)
(* put() on the write queue.                                               *)
(***************************************************************************)

\* What was put, after one more packet.
LEMMA Grows ==
    ASSUME TypeInv, NEW item \in Outbound, queued' = Append(queued, item)
    PROVE  /\ Len(queued) \in Nat /\ DOMAIN queued = 1..Len(queued)
           /\ Len(queued') = Len(queued) + 1 /\ DOMAIN queued' = 1..(Len(queued) + 1)
           /\ \A i \in 1..Len(queued) : queued'[i] = queued[i]
           /\ queued'[Len(queued) + 1] = item
<1>1. queued \in Seq(Outbound)
  BY DEF TypeInv, QueueTypeOK
<1> QED
  BY <1>1

\* The write queue is a slot, and the histories are sequences.
LEMMA QueueFacts ==
    ASSUME TypeInv
    PROVE  /\ Len(queued) \in Nat /\ DOMAIN queued = 1..Len(queued)
           /\ Len(wire) \in Nat /\ DOMAIN wire = 1..Len(wire)
           /\ Len(write_queue) \in {0, 1} /\ DOMAIN write_queue = 1..Len(write_queue)
           /\ (Len(write_queue) = 0 <=> write_queue = <<>>)
<1>1. queued \in Seq(Outbound) /\ wire \in Seq(Outbound)
  BY DEF TypeInv, QueueTypeOK, OutTypeOK
<1>2. write_queue \in Seq(Outbound \cup {Ping, EmptyMarker}) /\ Len(write_queue) <= 1
  BY DEF TypeInv, QueueTypeOK, QueueSize
<1>3. Len(write_queue) \in Nat /\ DOMAIN write_queue = 1..Len(write_queue)
  BY <1>2
<1>4. Len(write_queue) = 0 <=> write_queue = <<>>
  BY <1>2
<1> QED
  BY <1>1, <1>2, <1>3, <1>4

\* A packet is put: it is the one behind all that is on its way.
LEMMA PutChain ==
    ASSUME TypeInv, ChainInv, NEW item \in Outbound \cup {Ping}, Put(item),
           UNCHANGED <<wire, conn, closed, failed>>, pc'["write"] = pc["write"],
           packet'["write"] = packet["write"]
    PROVE  ChainInv'
<1>1. /\ write_queue = <<>> /\ write_queue' = Append(write_queue, item)
      /\ queued' = Recorded(queued, item) /\ exit_queue' = exit_queue
  BY QueueFacts DEF Put, QueueHasRoom, QueueSize
<1>2. write_queue' # <<>> /\ write_queue'[1] = item /\ DOMAIN write_queue' = {1}
  BY <1>1
<1>3. item # EmptyMarker
  <2>1. \A p \in Packet : p.q \in Queues
    BY DEF Packet
  <2>2. CASE item \in Packet
    BY <2>1, <2>2 DEF EmptyMarker, Queues
  <2>3. CASE item \in {LastPacket, Ping}
    BY <2>3 DEF EmptyMarker, LastPacket, Ping
  <2> QED
    BY <2>2, <2>3 DEF Outbound
<1>4. Hand' = Hand /\ Slot = 0 /\ Hand \in {0, 1}
  BY <1>1 DEF Hand, Slot
<1>5. Intact'
  BY <1>1, <1>2, <1>3 DEF ChainInv, Intact
<1>6. CASE item = Ping
  <2>1. queued' = queued /\ Slot' = 0
    BY <1>1, <1>2, <1>6 DEF Recorded, Slot
  <2>2. WirePrefix' /\ SendIsNext' /\ NothingLost'
    BY <1>4, <2>1 DEF ChainInv, WirePrefix, SendIsNext, NothingLost
  <2> QED
    BY <1>5, <2>2 DEF ChainInv
<1>7. CASE item # Ping
  <2>1. queued' = Append(queued, item) /\ Slot' = 1 /\ item \in Outbound
    BY <1>1, <1>2, <1>7 DEF Recorded, Slot
  <2>2. /\ Len(queued) \in Nat /\ Len(queued') = Len(queued) + 1 /\ Len(wire) \in Nat
        /\ \A i \in 1..Len(queued) : queued'[i] = queued[i]
        /\ queued'[Len(queued) + 1] = item
    BY <2>1, Grows, QueueFacts
  <2>3. WirePrefix' /\ SendIsNext'
    BY <2>2 DEF ChainInv, WirePrefix, SendIsNext
  <2>4. NothingLost'
    <3> SUFFICES ASSUME ~closed, pc["write"] # "exit"
                 PROVE  /\ Len(queued') = Len(wire) + Hand + 1
                        /\ Hand = 1 => packet["write"] = queued'[Len(wire) + 1]
                        /\ item = queued'[Len(wire) + Hand + 1]
      BY <1>2, <1>4, <2>1 DEF NothingLost
    <3>1. /\ Len(queued) = Len(wire) + Hand
          /\ Hand = 1 => packet["write"] = queued[Len(wire) + 1]
      BY <1>4, <2>2 DEF ChainInv, NothingLost
    <3> QED
      BY <1>4, <2>2, <3>1
  <2> QED
    BY <1>5, <2>3, <2>4 DEF ChainInv
<1> QED
  BY <1>6, <1>7

\* A packet is put that is newer than all that was put and older than all that is
\* waiting.
LEMMA PutsInOrder ==
    ASSUME TypeInv, OrderInv, NEW item \in Outbound, queued' = Append(queued, item),
           UNCHANGED <<ordinary_packets, packet_queue, sent>>,
           Known(item, sent), AllOlder(queued, item), AllNewer(item, ordinary_packets),
           AllNewer(item, packet_queue),
           item.q = "ordinary" => \A n \in 1..(item.n - 1) : Among(queued, n)
    PROVE  /\ SourceOrder' /\ PutOrder'
           /\ \A n : Among(queued', n) <=> Among(queued, n) \/ IsOrdinary(item, n)
<1>1. /\ Len(queued) \in Nat /\ DOMAIN queued = 1..Len(queued)
      /\ DOMAIN queued' = 1..(Len(queued) + 1)
      /\ \A i \in 1..Len(queued) : queued'[i] = queued[i]
      /\ queued'[Len(queued) + 1] = item
  BY Grows
<1>2. SourceOrder'
  BY DEF OrderInv, SourceOrder, Known, Ascending, Older
<1>3. \A n : Among(queued', n) <=> Among(queued, n) \/ IsOrdinary(item, n)
  BY <1>1 DEF Among
<1>4. (\A i \in DOMAIN queued : Known(queued[i], sent))'
  BY <1>1 DEF OrderInv, PutOrder, Known
<1>5. Ascending(queued)'
  BY <1>1 DEF OrderInv, PutOrder, Ascending, AllOlder
<1>6. Precedes(queued, ordinary_packets)' /\ Precedes(queued, packet_queue)'
  BY <1>1 DEF OrderInv, PutOrder, Precedes, AllNewer
<1>7. ASSUME NEW i \in DOMAIN queued', queued'[i].q = "ordinary", NEW n \in 1..(queued'[i].n - 1)
      PROVE  \E j \in 1..(i - 1) : IsOrdinary(queued'[j], n)
  <2>1. CASE i \in DOMAIN queued
    <3>1. \E j \in 1..(i - 1) : IsOrdinary(queued[j], n)
      BY <1>1, <1>7, <2>1 DEF OrderInv, PutOrder
    <3> QED
      BY <1>1, <2>1, <3>1
  <2>2. CASE i = Len(queued) + 1
    <3>1. \E j \in DOMAIN queued : IsOrdinary(queued[j], n)
      BY <1>1, <1>7, <2>2 DEF Among
    <3> QED
      BY <1>1, <2>2, <3>1
  <2> QED
    BY <1>1, <2>1, <2>2
<1>8. PutOrder'
  BY <1>4, <1>5, <1>6, <1>7 DEF PutOrder, IsOrdinary
<1> QED
  BY <1>2, <1>3, <1>8

\* The format thread puts its packet.
LEMMA FormatPutPath == ASSUME TypeInv, PathInv, FormatPut PROVE PathInv'
<1>t. "format" \in Threads /\ Flushing \subseteq Threads /\ "write" \in Threads
  BY DEF Threads, Flushing
<1>1. /\ pc["format"] = "put" /\ Put(Carried) /\ Goto("format", "release")
      /\ UNCHANGED <<wire, conn, closed, failed, packet, cont, write_lock, flush_called, timers,
                     ordinary_packets, packet_queue, sent, format_thread>>
  BY DEF FormatPut, Carried, sourceVars, wakeVars, connVars, formatVars, loopVars, flushVars, outVars
<1>2. pc'["format"] = "release" /\ Alone("format")
  BY <1>t, <1>1, Hops
<1>3. Carrying /\ ~Carrying' /\ Carried \in Outbound \cup {Ping} /\ Carried # LastPacket
  <2>1. Carrying /\ ~Carrying'
    BY <1>1, <1>2 DEF Carrying
  <2>2. Carried # NoPacket
    BY <1>1 DEF TypeInv, Holding, Carried
  <2>3. Carried \in Outbound \cup {Ping, NoPacket}
    BY DEF TypeInv, FormatTypeOK, Carried
  <2> QED
    BY <2>1, <2>2, <2>3 DEF PathInv, OrderInv, CarriedOrder
<1>4. Calm
  BY <1>t, <1>1, <1>2, Others DEF Calm, Alone, Steady, Flushing
<1>5. ChainInv'
  BY <1>t, <1>1, <1>2, <1>3, PutChain DEF PathInv, Alone
<1>6. queued' = Recorded(queued, Carried)
  BY <1>1 DEF Put
<1>7. LockInv'
  BY <1>4, CalmLock DEF PathInv, FlushInv
<1>8. CASE Carried = Ping
  <2>1. UNCHANGED queued
    BY <1>6, <1>8 DEF Recorded
  <2>2. \A n : ~IsOrdinary(Ping, n)
    BY DEF IsOrdinary, Ping
  <2>3. SourceOrder' /\ PutOrder'
    BY <1>1, <2>1 DEF PathInv, OrderInv, SourceOrder, PutOrder, Known, Ascending, Precedes,
                     AllNewer, Older, IsOrdinary
  <2>4. NoneSkipped'
    BY <1>1, <1>8, <2>1, <2>2 DEF PathInv, OrderInv, NoneSkipped, Among, IsOrdinary
  <2>5. CarriedOrder' /\ StartedOnce'
    BY <1>1, <1>3 DEF PathInv, OrderInv, CarriedOrder, StartedOnce
  <2> QED
    BY <1>4, <1>5, <1>7, <2>1, <2>3, <2>4, <2>5, CalmLast DEF PathInv, FlushInv, OrderInv
<1>9. CASE Carried # Ping
  <2>1. queued' = Append(queued, Carried) /\ Carried \in Outbound
    BY <1>3, <1>6, <1>9 DEF Recorded
  <2>2. /\ SourceOrder' /\ PutOrder'
        /\ \A n : Among(queued', n) <=> Among(queued, n) \/ IsOrdinary(Carried, n)
    BY <1>1, <1>3, <2>1, PutsInOrder DEF PathInv, OrderInv, CarriedOrder
  <2>3. NoneSkipped'
    BY <1>1, <2>2 DEF PathInv, OrderInv, NoneSkipped, Among, IsOrdinary
  <2>4. CarriedOrder' /\ StartedOnce'
    BY <1>1, <1>3 DEF PathInv, OrderInv, CarriedOrder, StartedOnce
  <2>5. LastInv'
    <3>1. ~IsQueued(LastPacket)
      BY <1>1 DEF PathInv, FlushInv, LastInv, Putting
    <3>2. ~IsQueued(LastPacket)'
      BY <1>3, <2>1, <3>1, Grows DEF IsQueued
    <3> QED
      BY <3>2 DEF LastInv, IsQueued
  <2> QED
    BY <1>5, <1>7, <2>2, <2>3, <2>4, <2>5 DEF PathInv, FlushInv, OrderInv
<1> QED
  BY <1>8, <1>9

\* flush_then_close() puts the last packet.
LEMMA FlushPutPath ==
    ASSUME TypeInv, PathInv, NEW t \in Flushing, FlushPut(t)
    PROVE  PathInv'
<1>t. t \in Threads /\ t # "format" /\ t # "write" /\ Flushing \subseteq Threads
      /\ "write" \in Threads /\ "format" \in Threads
  BY DEF Threads, Flushing
<1>1. /\ pc[t] = "fl_put" /\ Put(LastPacket) /\ Goto(t, "fl_sent")
      /\ UNCHANGED <<wire, conn, closed, failed, packet, cont, write_lock, flush_called, timers,
                     ordinary_packets, packet_queue, sent, format_thread>>
  BY DEF FlushPut, sourceVars, wakeVars, connVars, formatVars, loopVars, flushVars, outVars
<1>2. pc'[t] = "fl_sent" /\ Alone(t)
  BY <1>t, <1>1, Hops
<1>3. pc'["format"] = pc["format"] /\ pc'["write"] = pc["write"]
  BY <1>t, <1>2 DEF Alone
<1>4. LastPacket # Ping /\ LastPacket \in Outbound /\ LastPacket.q \notin Queues
  BY DEF LastPacket, Ping, Outbound, Queues
<1>5. queued' = Append(queued, LastPacket)
  BY <1>1, <1>4 DEF Put, Recorded
<1>6. ChainInv'
  BY <1>1, <1>3, <1>4, PutChain DEF PathInv
<1>7. /\ LockInv' /\ ~IsQueued(LastPacket) /\ ~Putting' /\ write_lock' = "flush"
      /\ flush_called' /\ "wait_for_queue" \notin timers'
      /\ \A u \in Flushing : u # t => ~Engaged(u)'
  <2>1. pc[t] \in {"fl_queue", "fl_raw", "fl_put"} /\ pc'[t] \in HeldLabels
    BY <1>1, <1>2 DEF HeldLabels
  <2>2. \A u \in Flushing : u # t => pc'[u] = pc[u]
    BY <1>t, <1>2 DEF Alone
  <2> QED
    BY <1>1, <1>3, <2>1, <2>2, FlushProceeds DEF PathInv
<1>8. LastInv'
  <2>1. \A i \in DOMAIN queued' : queued'[i] = LastPacket => i = Len(queued')
    BY <1>4, <1>5, <1>7, Grows DEF IsQueued
  <2>2. \A u \in Flushing : pc'[u] \notin {"fl_lock", "fl_queue", "fl_raw", "fl_put"}
    BY <1>2, <1>7 DEF Engaged, EngagedLabels, HeldLabels
  <2> QED
    BY <1>7, <2>1, <2>2 DEF LastInv
<1>9. OrderInv'
  <2>0. \A p : Older(p, LastPacket) /\ Older(LastPacket, p)
    BY <1>4 DEF Older
  <2>1. \A n : ~IsOrdinary(LastPacket, n)
    BY <1>4 DEF IsOrdinary, Queues
  <2>2. /\ SourceOrder' /\ PutOrder'
        /\ \A n : Among(queued', n) <=> Among(queued, n) \/ IsOrdinary(LastPacket, n)
    <3>1. /\ Known(LastPacket, sent) /\ AllOlder(queued, LastPacket)
          /\ AllNewer(LastPacket, ordinary_packets) /\ AllNewer(LastPacket, packet_queue)
          /\ LastPacket.q # "ordinary"
      BY <1>4, <2>0 DEF Known, AllOlder, AllNewer, Queues
    <3> QED
      BY <1>1, <1>4, <1>5, <3>1, PutsInOrder DEF PathInv
  <2>3. CarriedOrder'
    <3>1. Carrying' = Carrying /\ Carried' = Carried
      BY <1>1, <1>3 DEF Carrying, Carried
    <3>2. AllOlder(queued, Carried) => AllOlder(queued, Carried)'
      BY <1>4, <1>5, <2>0, <3>1, Grows DEF AllOlder
    <3>3. /\ Known(Carried, sent) => Known(Carried, sent)'
          /\ AllNewer(Carried, ordinary_packets) => AllNewer(Carried, ordinary_packets)'
          /\ AllNewer(Carried, packet_queue) => AllNewer(Carried, packet_queue)'
      BY <1>1, <3>1 DEF Known, AllNewer
    <3> QED
      BY <2>2, <3>1, <3>2, <3>3 DEF PathInv, OrderInv, CarriedOrder
  <2>4. NoneSkipped' /\ StartedOnce'
    BY <1>1, <1>3, <2>2 DEF PathInv, OrderInv, NoneSkipped, StartedOnce, Carrying, Carried,
                            Among, IsOrdinary
  <2> QED
    BY <2>2, <2>3, <2>4 DEF OrderInv
<1> QED
  BY <1>6, <1>7, <1>8, <1>9 DEF PathInv, FlushInv

-----------------------------------------------------------------------------
\* A step of the main loop or of the parse thread that moves no packet; it may
\* start the write thread.
LEMMA NothingMoves ==
    ASSUME UNCHANGED <<packet, ordinary_packets, packet_queue, sent, format_thread, write_queue,
                       exit_queue, queued, wire, conn, failed>>,
           closed => closed', pc'["format"] = pc["format"],
           pc'["write"] = pc["write"] \/ (pc["write"] = "none" /\ pc'["write"] = "check")
    PROVE  Kept /\ Passed
  BY DEF Kept, Passed, Carrying

\* The steps of flush_then_close().
LEMMA FlushPath ==
    ASSUME TypeInv, PathInv, NEW t \in Flushing, FlushThenClose(t) \/ FlushStep(t)
    PROVE  PathInv'
<1>t. /\ t \in Threads /\ t \in Closing /\ t # "format" /\ t # "write"
      /\ Flushing \subseteq Threads /\ "write" \in Threads /\ "format" \in Threads
      /\ {"fl_done"} \cup ReleaseLabels \subseteq ResumeLabels(t)
      /\ Home(t) \notin EngagedLabels \cup ReleaseLabels \cup CloseLabels
  BY DEF Threads, Closing, Flushing, ResumeLabels, ReleaseLabels, Home, EngagedLabels,
         HeldLabels, CloseLabels
<1>f. FlushInv
  BY DEF PathInv
<1>1. CASE FlushPut(t)
  BY <1>1, FlushPutPath
<1>2. CASE ~FlushPut(t)
  <2>s. \/ FlushThenClose(t) \/ FlushLock(t) \/ FlushTimedOut(t) \/ FlushWaitQueue(t)
        \/ FlushRawWrite(t) \/ FlushSent(t) \/ FlushRelease(t)
    BY <1>2 DEF FlushStep
  <2>1. UNCHANGED <<packet, ordinary_packets, packet_queue, sent, format_thread, write_queue,
                    exit_queue, queued, wire, conn, failed>>
    BY <2>s DEF FlushThenClose, FlushLock, FlushTimedOut, FlushWaitQueue, FlushRawWrite,
                FlushSent, FlushRelease, sourceVars, wakeVars, connVars, queueVars, formatVars, outVars
  <2>c. ASSUME NEW next \in {"fl_done"} \cup ReleaseLabels, CloseThen(t, next, idle)
        PROVE  /\ closed' /\ Alone(t) /\ pc'["format"] = pc["format"]
               /\ pc'["write"] = pc["write"] /\ (next = "fl_done" => Steady(t))
    <3>1. /\ closed' /\ Alone(t) /\ pc'[t] \notin EngagedLabels
          /\ Releasing(t)' => next \in ReleaseLabels
      BY <1>t, <2>c, CallsClose
    <3> QED
      BY <1>t, <3>1 DEF Alone, Steady, ReleaseLabels
  <2>g. ASSUME NEW label, Goto(t, label), UNCHANGED cont
        PROVE  /\ pc'[t] = label /\ Alone(t) /\ pc'["format"] = pc["format"]
               /\ pc'["write"] = pc["write"]
    BY <1>t, <2>g, Hops DEF Alone
  <2>h. ASSUME Goto(t, Home(t)), UNCHANGED <<cont, closed, timers, write_lock, flush_called>>
        PROVE  FlushInv'
    <3>1. Steady(t) /\ pc'["format"] = pc["format"] /\ \A u \in Flushing : u # t => Steady(u)
      BY <1>t, <2>g, <2>h, Strolls, Others
    <3>2. Calm
      BY <2>h, <3>1 DEF Calm
    <3> QED
      BY <1>f, <2>1, <3>2, CalmLock, CalmLast DEF FlushInv
  <2>2. FlushInv' /\ Kept /\ Passed
    <3>1. CASE FlushThenClose(t)
      <4>1. (UNCHANGED pc \/ Goto(t, "fl_lock")) /\ UNCHANGED <<cont, closed>>
        BY <3>1 DEF FlushThenClose, connVars
      <4>2. pc'["format"] = pc["format"] /\ pc'["write"] = pc["write"]
        BY <2>g, <4>1
      <4> QED
        BY <1>f, <2>1, <3>1, <4>1, <4>2, NothingMoves, FlushBegins
    <3>2. CASE FlushLock(t)
      <4>0. pc[t] = "fl_lock" /\ UNCHANGED <<flush_called, timers>>
        BY <3>2 DEF FlushLock, flushVars
      <4>1. CASE Goto(t, Home(t)) /\ UNCHANGED <<closed, cont, write_lock>>
        BY <2>1, <2>g, <2>h, <4>0, <4>1, NothingMoves
      <4>2. CASE /\ LockFree /\ write_lock' = "flush" /\ Goto(t, "fl_queue")
                 /\ UNCHANGED <<closed, cont>>
        BY <1>f, <2>1, <2>g, <4>0, <4>2, NothingMoves, FlushAcquires
      <4>3. CASE CloseThen(t, "fl_done", idle) /\ UNCHANGED write_lock
        <5>1. /\ closed' /\ Alone(t) /\ pc'["format"] = pc["format"]
              /\ pc'["write"] = pc["write"] /\ Steady(t)
          BY <2>c, <4>3
        <5>2. Calm
          BY <1>t, <4>0, <4>3, <5>1, Others DEF Calm
        <5> QED
          BY <1>f, <2>1, <5>1, <5>2, CalmLock, CalmLast, NothingMoves DEF FlushInv
      <4> QED
        BY <3>2, <4>1, <4>2, <4>3 DEF FlushLock, TimedOut
    <3>3. CASE FlushTimedOut(t)
      <4>1. Goto(t, Home(t)) /\ UNCHANGED <<cont, closed, timers, write_lock, flush_called>>
        BY <3>3 DEF FlushTimedOut, connVars, loopVars
      <4> QED
        BY <2>1, <2>g, <2>h, <4>1, NothingMoves
    <3>4. CASE FlushWaitQueue(t)
      <4>0. pc[t] = "fl_queue" /\ pc[t] \in HeldLabels /\ UNCHANGED <<flush_called, write_lock>>
        BY <3>4 DEF FlushWaitQueue, HeldLabels
      <4>1. CASE CloseThen(t, "fl_release", idle) /\ UNCHANGED timers
        <5>1. "fl_release" \in ReleaseLabels
          BY DEF ReleaseLabels
        <5> QED
          BY <1>f, <2>1, <2>c, <4>0, <4>1, <5>1, FlushCloses, NothingMoves
      <4>2. CASE /\ timers' = timers \cup {"wait_for_queue"} /\ Goto(t, Home(t))
                 /\ UNCHANGED <<closed, cont>>
        BY <1>f, <2>1, <2>g, <4>0, <4>2, FlushWaits, NothingMoves
      <4>3. CASE Goto(t, "fl_raw") /\ UNCHANGED <<closed, cont, timers>>
        <5>1. pc'[t] = "fl_raw" /\ pc'["format"] = pc["format"] /\ Alone(t)
          BY <2>g, <4>3
        <5>2. \A u \in Flushing : u # t => pc'[u] = pc[u]
          BY <1>t, <5>1 DEF Alone
        <5>3. LockInv' /\ ~IsQueued(LastPacket)
          BY <1>f, <4>0, <4>3, <5>1, <5>2, FlushProceeds DEF HeldLabels
        <5> QED
          BY <1>f, <2>1, <2>g, <4>3, <5>3, NothingMoves DEF FlushInv, LastInv, IsQueued
      <4> QED
        BY <3>4, <4>1, <4>2, <4>3 DEF FlushWaitQueue
    <3>5. CASE FlushRawWrite(t)
      <4>0. /\ pc[t] = "fl_raw" /\ UNCHANGED <<closed, cont, timers, flush_called, write_lock>>
            /\ \E label \in {"fl_sent", "fl_put"} : StartWriteThread(t, label)
        BY <3>5 DEF FlushRawWrite, connVars, loopVars, flushVars
      <4>1. PICK label \in {"fl_sent", "fl_put"} : StartWriteThread(t, label)
        BY <4>0
      <4>2. /\ pc'[t] = label
            /\ pc'["write"] = pc["write"] \/ (pc["write"] = "none" /\ pc'["write"] = "check")
            /\ \A u \in Threads : u # t /\ u # "write" => pc'[u] = pc[u]
        BY <1>t, <4>0, <4>1, Spawns DEF TypeInv, OwnLabels, FlushLabels, Flushing
      <4>3. pc'["format"] = pc["format"] /\ \A u \in Flushing : u # t => pc'[u] = pc[u]
        BY <1>t, <4>2 DEF Flushing
      <4>4. LockInv' /\ ~IsQueued(LastPacket)
        BY <1>f, <4>0, <4>2, <4>3, FlushProceeds DEF HeldLabels
      <4> QED
        BY <2>1, <4>0, <4>2, <4>3, <4>4, NothingMoves DEF FlushInv, LastInv, IsQueued
    <3>6. CASE FlushSent(t)
      <4>0. pc[t] \in HeldLabels /\ UNCHANGED <<flush_called, write_lock>>
        BY <3>6 DEF FlushSent, HeldLabels, flushVars
      <4>1. CASE CloseThen(t, "fl_release_timer", idle) /\ UNCHANGED timers
        <5>1. "fl_release_timer" \in ReleaseLabels
          BY DEF ReleaseLabels
        <5> QED
          BY <1>f, <2>1, <2>c, <4>0, <4>1, <5>1, FlushCloses, NothingMoves
      <4>2. CASE /\ timers' = timers \cup SentTimers /\ Goto(t, Home(t))
                 /\ UNCHANGED <<closed, cont>>
        <5>1. "wait_for_queue" \notin SentTimers
          BY DEF SentTimers
        <5> QED
          BY <1>f, <2>1, <2>g, <4>0, <4>2, <5>1, FlushWaits, NothingMoves
      <4> QED
        BY <3>6, <4>1, <4>2 DEF FlushSent
    <3>7. CASE FlushRelease(t)
      <4>1. Goto(t, Home(t)) /\ UNCHANGED <<cont, closed>>
        BY <3>7 DEF FlushRelease, connVars
      <4> QED
        BY <1>f, <2>1, <2>g, <3>7, <4>1, NothingMoves, FlushReleases
    <3> QED
      BY <2>s, <3>1, <3>2, <3>3, <3>4, <3>5, <3>6, <3>7
  <2> QED
    BY <2>2, KeptChain, PassedOrder DEF PathInv
<1> QED
  BY <1>1, <1>2

\* The timers of flush_then_close().
LEMMA FlushTimerPath == ASSUME TypeInv, PathInv, FlushTimer PROVE PathInv'
<1>t. /\ "main" \in Threads /\ "main" \in Closing /\ "main" \in Flushing
      /\ Flushing \subseteq Threads /\ "write" \in Threads /\ "format" \in Threads
      /\ "fl_release" \in ResumeLabels("main") /\ "fl_release" \in ReleaseLabels
  BY DEF Threads, Closing, Flushing, ResumeLabels, ReleaseLabels
<1>f. FlushInv
  BY DEF PathInv
<1>1. /\ UNCHANGED <<packet, ordinary_packets, packet_queue, sent, format_thread, write_queue,
                     exit_queue, queued, wire, conn, failed, write_lock, flush_called>>
      /\ pc["main"] = "idle"
  BY DEF FlushTimer, sourceVars, wakeVars, queueVars, formatVars, flushVars, outVars
<1>2. CASE /\ "wait_for_queue" \in timers /\ timers' = timers \ {"wait_for_queue"}
           /\ Goto("main", "fl_queue") /\ UNCHANGED <<closed, cont>>
  <2>1. pc'["main"] = "fl_queue" /\ cont'["main"] = cont["main"] /\ Alone("main")
    BY <1>t, <1>2, Hops
  <2>2. pc'["format"] = pc["format"] /\ pc'["write"] = pc["write"]
    BY <1>t, <2>1 DEF Alone
  <2>3. Kept /\ Passed
    BY <1>1, <1>2, <2>2, NothingMoves
  <2>4. /\ Unreleased /\ flush_called /\ write_lock = "flush" /\ ~Disengaged
        /\ \A u \in Flushing : ~Engaged(u)
    BY <1>f, <1>2 DEF FlushInv, LockInv, OneFlush, LockHeld, Disengaged
  <2>5. ~Releasing("main")'
    BY <2>1 DEF Releasing, ReleaseLabels, CloseLabels
  <2>6. Unreleased' /\ \A u \in Flushing : Engaged(u)' => u = "main"
    BY <1>t, <1>2, <2>1, <2>4, <2>5 DEF Unreleased, Releasing, Engaged, Alone
  <2>7. OneFlush' /\ LockHeld'
    BY <1>1, <1>2, <2>4, <2>6 DEF OneFlush, LockHeld, Unreleased
  <2>8. LockKept'
    BY <1>1, <1>f, <2>2, <2>4 DEF FlushInv, LockInv, LockKept, Putting
  <2>9. LastInv'
    BY <1>1, <1>f, <1>2 DEF FlushInv, LastInv, IsQueued
  <2> QED
    BY <2>3, <2>7, <2>8, <2>9, KeptChain, PassedOrder DEF PathInv, FlushInv, LockInv
<1>3. CASE /\ timers' \subseteq timers /\ (\E x \in timers : SentTimer(x))
           /\ CloseThen("main", "fl_release", idle)
  <2>1. closed' /\ Alone("main")
    BY <1>t, <1>3, CallsClose
  <2>2. pc'["format"] = pc["format"] /\ pc'["write"] = pc["write"]
    BY <1>t, <2>1 DEF Alone
  <2>3. Kept /\ Passed
    BY <1>1, <2>1, <2>2, NothingMoves
  <2>4. FlushInv'
    BY <1>t, <1>f, <1>1, <1>3, FlushCloses
  <2> QED
    BY <2>3, <2>4, KeptChain, PassedOrder DEF PathInv
<1> QED
  BY <1>2, <1>3 DEF FlushTimer, SentTimer

\* The main loop.
LEMMA MainPath == ASSUME TypeInv, LossInv, LossInv', PathInv, MainNext PROVE PathInv'
<1>t. /\ "main" \in Threads /\ "main" \in Closing /\ "main" \in Flushing
      /\ "parse" \in Threads /\ "parse" \in Flushing
      /\ Flushing \subseteq Threads /\ "write" \in Threads /\ "format" \in Threads
      /\ "idle" \in ResumeLabels("main") /\ "idle" \notin ReleaseLabels
  BY DEF Threads, Closing, Flushing, ResumeLabels, ReleaseLabels
<1>1. CASE FlushTimer
  BY <1>1, FlushTimerPath
<1>2. CASE RunClose \/ HangupTimer
  <2>1. /\ UNCHANGED <<packet, ordinary_packets, packet_queue, sent, queued, wire,
                       write_lock, flush_called, format_thread>>
        /\ timers' \subseteq timers /\ \E callbacks : CloseThen("main", "idle", callbacks)
    BY <1>2 DEF RunClose, HangupTimer, sourceVars, wakeVars, queueVars, formatVars, flushVars, outVars
  <2>2. closed' /\ Alone("main") /\ Steady("main")
    BY <1>t, <2>1, CallsClose DEF Steady
  <2>3. Gone
    BY <1>t, <2>1, <2>2, Others DEF Gone
  <2>4. Aside
    BY <1>t, <2>1, <2>2, <2>3, Others, StepsAside
  <2> QED
    BY <2>4, AsideKeeps
<1>3. CASE RunClean
  <2>1. /\ UNCHANGED <<packet, ordinary_packets, packet_queue, sent, queued, wire, pc, cont,
                       write_lock, flush_called, timers>>
        /\ cleaned'
    BY <1>3 DEF RunClean, sourceVars, threadVars, queueVars, formatVars, flushVars, outVars
  <2>2. closed'
    BY <2>1 DEF LossInv, OnlyClosed
  <2>3. Gone /\ \A t \in Flushing : Steady(t)
    BY <2>1, <2>2 DEF Gone, Steady
  <2>4. Aside
    BY <2>1, <2>2, <2>3, StepsAside
  <2> QED
    BY <2>4, AsideKeeps
<1>4. CASE RunStart \/ RunLost \/ RunInvalid \/ CleanupProtocol
  <2>1. /\ UNCHANGED <<packet, ordinary_packets, packet_queue, sent, queued, wire, cont, closed,
                       write_lock, flush_called, timers, format_thread, write_queue, exit_queue,
                       conn, failed>>
        /\ UNCHANGED pc \/ Goto("parse", "begin")
    BY <1>4 DEF RunStart, RunLost, RunInvalid, CleanupProtocol, SourceCleanup, sourceVars,
                wakeVars, connVars, threadVars, queueVars, formatVars, loopVars, flushVars, outVars
  <2>2. pc'["format"] = pc["format"] /\ pc'["write"] = pc["write"] /\ \A t \in Flushing : Steady(t)
    <3>1. CASE UNCHANGED pc
      BY <2>1, <3>1 DEF Steady
    <3>2. CASE Goto("parse", "begin")
      <4>1. pc'["parse"] = "begin" /\ Alone("parse")
        BY <1>t, <2>1, <3>2, Hops
      <4>2. Steady("parse")
        BY <1>t, <4>1, Strolls DEF EngagedLabels, HeldLabels, ReleaseLabels, CloseLabels
      <4> QED
        BY <1>t, <4>1, <4>2, Others
    <3> QED
      BY <2>1, <3>1, <3>2
  <2>3. Kept
    BY <2>1, <2>2 DEF Kept
  <2>4. Aside
    BY <2>1, <2>2, <2>3, StepsAside
  <2> QED
    BY <2>4, AsideKeeps
<1> QED
  BY <1>1, <1>2, <1>3, <1>4 DEF MainNext

-----------------------------------------------------------------------------
(***************************************************************************)
(* The source and the format thread.                                       *)
(***************************************************************************)

\* What is left of s without its first m elements.
Suffix(r, s, m) ==
    /\ DOMAIN r = 1..(Len(s) - m)
    /\ \A i \in 1..(Len(s) - m) : r[i] = s[i + m]

\* next_packet() takes the oldest ordinary packet or, when there is none, the
\* oldest damage packet that the filter lets through.
LEMMA TakesOldest ==
    ASSUME SourceTypeOK, NEW k \in Rejected
    PROVE  \E a \in 0..Len(ordinary_packets), b \in 0..Len(packet_queue) :
             /\ Suffix(NextPacket(k).ordinary, ordinary_packets, a)
             /\ Suffix(NextPacket(k).pixels, packet_queue, b)
             /\ \/ NextPacket(k).packet = NoPacket /\ a = 0
                \/ NextPacket(k).packet = ordinary_packets[1] /\ a = 1
                \/ NextPacket(k).packet = packet_queue[b] /\ b > 0 /\ ordinary_packets = <<>>
<1> DEFINE left == SubSeq(packet_queue, k + 1, Len(packet_queue))
           o == Len(ordinary_packets)
           l == Len(packet_queue)
<1>1. /\ o \in Nat /\ DOMAIN ordinary_packets = 1..o /\ l \in Nat
      /\ DOMAIN packet_queue = 1..l
  BY DEF SourceTypeOK
<1>2. k \in Nat /\ k <= l
  BY <1>1, MaxRejectedAssumption DEF Rejected
<1>3. /\ left \in Seq(Packet) /\ Len(left) = l - k /\ DOMAIN left = 1..(l - k)
      /\ \A i \in 1..(l - k) : left[i] = packet_queue[i + k]
  <2>1. packet_queue \in Seq(Packet) /\ left \in Seq(Packet)
    BY <1>2 DEF SourceTypeOK
  <2>2. Len(left) = l - k
    <3>1. Len(left) = IF k + 1 <= l THEN l - (k + 1) + 1 ELSE 0
      BY <1>1, <1>2, <2>1
    <3> HIDE DEF left, l
    <3> QED
      BY <1>1, <1>2, <3>1
  <2>3. DOMAIN left = 1..(l - k)
    BY <2>1, <2>2
  <2>4. ASSUME NEW i \in 1..(l - k) PROVE left[i] = packet_queue[i + k]
    <3>1. left[i] = packet_queue[k + 1 + i - 1]
      BY <1>1, <1>2, <2>1
    <3>2. k + 1 + i - 1 = i + k
      BY <1>1, <1>2
    <3> QED
      BY <3>1, <3>2
  <2> QED
    BY <2>1, <2>2, <2>3, <2>4
<1>4. Suffix(ordinary_packets, ordinary_packets, 0) /\ Suffix(packet_queue, packet_queue, 0)
      /\ 0 \in 0..o /\ 0 \in 0..l
  BY <1>1 DEF Suffix
<1> HIDE DEF left, o, l
<1>5. CASE source_closed
  BY <1>4, <1>5 DEF NextPacket, o, l
<1>6. CASE ~source_closed /\ ordinary_packets # <<>>
  <2>1. /\ o > 0 /\ Head(ordinary_packets) = ordinary_packets[1]
        /\ DOMAIN Tail(ordinary_packets) = 1..(o - 1)
        /\ \A i \in 1..(o - 1) : Tail(ordinary_packets)[i] = ordinary_packets[i + 1]
    BY <1>6 DEF SourceTypeOK, o
  <2>2. Suffix(Tail(ordinary_packets), ordinary_packets, 1) /\ 1 \in 0..o
    BY <1>1, <2>1 DEF Suffix, o
  <2>3. NextPacket(k) = [packet |-> ordinary_packets[1], ordinary |-> Tail(ordinary_packets),
                         pixels |-> packet_queue]
    BY <1>6, <2>1 DEF NextPacket
  <2> QED
    BY <1>4, <2>2, <2>3 DEF o, l
<1>7. CASE ~source_closed /\ ordinary_packets = <<>> /\ left # <<>>
  <2>1. /\ Len(left) > 0 /\ Head(left) = left[1] /\ DOMAIN Tail(left) = 1..(Len(left) - 1)
        /\ \A i \in 1..(Len(left) - 1) : Tail(left)[i] = left[i + 1]
    BY <1>3, <1>7
  <2>2. k + 1 \in 0..l /\ k + 1 > 0 /\ Head(left) = packet_queue[k + 1]
    BY <1>1, <1>2, <1>3, <2>1
  <2>3. Suffix(Tail(left), packet_queue, k + 1)
    <3>1. DOMAIN Tail(left) = 1..(l - (k + 1))
      BY <1>1, <1>2, <1>3, <2>1
    <3>2. ASSUME NEW i \in 1..(l - (k + 1)) PROVE Tail(left)[i] = packet_queue[i + (k + 1)]
      <4>1. i \in 1..(Len(left) - 1) /\ i + 1 \in 1..(l - k) /\ (i + 1) + k = i + (k + 1)
        BY <1>1, <1>2, <1>3
      <4>2. Tail(left)[i] = left[i + 1] /\ left[i + 1] = packet_queue[(i + 1) + k]
        BY <1>3, <2>1, <4>1
      <4> QED
        BY <4>1, <4>2
    <3> QED
      BY <3>1, <3>2 DEF Suffix, l
  <2>4. NextPacket(k) = [packet |-> Head(left), ordinary |-> ordinary_packets, pixels |-> Tail(left)]
    BY <1>7 DEF NextPacket, left
  <2> QED
    BY <1>4, <1>7, <2>2, <2>3, <2>4 DEF o, l
<1>8. CASE ~source_closed /\ ordinary_packets = <<>> /\ left = <<>>
  <2>1. NextPacket(k) = [packet |-> NoPacket, ordinary |-> ordinary_packets, pixels |-> <<>>]
    BY <1>8 DEF NextPacket, left
  <2>2. Suffix(<<>>, packet_queue, l) /\ l \in 0..l
    <3>1. DOMAIN <<>> = 1..(l - l)
      BY <1>1
    <3> QED
      BY <1>1, <3>1 DEF Suffix, l
  <2> QED
    BY <1>4, <2>1, <2>2 DEF o, l
<1> QED
  BY <1>5, <1>6, <1>7, <1>8

\* The format thread takes a packet: all that was put is older, all that waits
\* is newer, and an ordinary packet has no predecessor left in the source.
LEMMA TakesInOrder ==
    ASSUME TypeInv, OrderInv, NEW k \in Rejected, TakePacket(NextPacket(k)),
           packet' = [packet EXCEPT !["format"] = NextPacket(k).packet],
           pc["format"] = "get", pc'["format"] = "clear", ~closed,
           UNCHANGED <<queued, closed, format_thread>>
    PROVE  OrderInv'
<1>0. PICK a \in 0..Len(ordinary_packets), b \in 0..Len(packet_queue) :
             /\ Suffix(NextPacket(k).ordinary, ordinary_packets, a)
             /\ Suffix(NextPacket(k).pixels, packet_queue, b)
             /\ \/ NextPacket(k).packet = NoPacket /\ a = 0
                \/ NextPacket(k).packet = ordinary_packets[1] /\ a = 1
                \/ NextPacket(k).packet = packet_queue[b] /\ b > 0 /\ ordinary_packets = <<>>
  BY TakesOldest DEF TypeInv
<1> DEFINE o == Len(ordinary_packets)
           l == Len(packet_queue)
<1>1. /\ o \in Nat /\ DOMAIN ordinary_packets = 1..o /\ l \in Nat
      /\ DOMAIN packet_queue = 1..l
  BY DEF TypeInv, SourceTypeOK
<1>2. /\ a \in 0..o /\ b \in 0..l
      /\ DOMAIN ordinary_packets' = 1..(o - a)
      /\ \A i \in 1..(o - a) : ordinary_packets'[i] = ordinary_packets[i + a]
      /\ DOMAIN packet_queue' = 1..(l - b)
      /\ \A i \in 1..(l - b) : packet_queue'[i] = packet_queue[i + b]
      /\ sent' = sent
  BY <1>0 DEF TakePacket, Suffix
<1> HIDE DEF o, l
<1>3. /\ Carried' = NextPacket(k).packet /\ Carrying' /\ ~Carrying
      /\ \/ Carried' = NoPacket /\ a = 0
         \/ Carried' = ordinary_packets[1] /\ a = 1
         \/ Carried' = packet_queue[b] /\ b > 0 /\ ordinary_packets = <<>>
  BY <1>0 DEF Carried, Carrying, TypeInv, FormatTypeOK
<1>4. SourceOrder'
  <2>1. \A i \in DOMAIN ordinary_packets' :
          i + a \in DOMAIN ordinary_packets /\ ordinary_packets'[i] = ordinary_packets[i + a]
    BY <1>1, <1>2
  <2>2. \A i \in DOMAIN packet_queue' :
          i + b \in DOMAIN packet_queue /\ packet_queue'[i] = packet_queue[i + b]
    BY <1>1, <1>2
  <2>3. Ascending(ordinary_packets)'
    <3> SUFFICES ASSUME NEW i \in DOMAIN ordinary_packets', NEW j \in DOMAIN ordinary_packets',
                        i < j
                 PROVE  Older(ordinary_packets'[i], ordinary_packets'[j])
      BY DEF Ascending, Older
    <3>1. i + a < j + a
      BY <1>1, <1>2
    <3> QED
      BY <2>1, <3>1 DEF OrderInv, SourceOrder, Ascending
  <2>4. Ascending(packet_queue)'
    <3> SUFFICES ASSUME NEW i \in DOMAIN packet_queue', NEW j \in DOMAIN packet_queue', i < j
                 PROVE  Older(packet_queue'[i], packet_queue'[j])
      BY DEF Ascending, Older
    <3>1. i + b < j + b
      BY <1>1, <1>2
    <3> QED
      BY <2>2, <3>1 DEF OrderInv, SourceOrder, Ascending
  <2> QED
    BY <1>2, <2>1, <2>2, <2>3, <2>4 DEF OrderInv, SourceOrder, Known
<1>5. PutOrder'
  <2>1. \A i \in DOMAIN ordinary_packets' :
          i + a \in DOMAIN ordinary_packets /\ ordinary_packets'[i] = ordinary_packets[i + a]
    BY <1>1, <1>2
  <2>2. \A i \in DOMAIN packet_queue' :
          i + b \in DOMAIN packet_queue /\ packet_queue'[i] = packet_queue[i + b]
    BY <1>1, <1>2
  <2>3. Precedes(queued, ordinary_packets)'
    BY <2>1 DEF OrderInv, PutOrder, Precedes, AllNewer
  <2>4. Precedes(queued, packet_queue)'
    BY <2>2 DEF OrderInv, PutOrder, Precedes, AllNewer
  <2> QED
    BY <1>2, <2>3, <2>4 DEF OrderInv, PutOrder, Known, Ascending, Older, IsOrdinary
<1>6. /\ NoPacket.q \notin Queues /\ NoPacket.q # LastPacket.q /\ LastPacket.q \notin Queues
      /\ NoPacket.q # "ordinary" /\ "ordinary" \in Queues /\ "pixels" \in Queues
      /\ "pixels" # LastPacket.q /\ "pixels" # "ordinary"
  BY DEF NoPacket, LastPacket, Queues
<1>7. CASE Carried' = NoPacket /\ a = 0
  <2>1. CarriedOrder'
    BY <1>6, <1>7 DEF CarriedOrder, Known, AllOlder, AllNewer, Older
  <2>2. NoneSkipped'
    <3>1. \A n : Among(ordinary_packets, n) => Among(ordinary_packets', n)
      BY <1>1, <1>2, <1>7 DEF Among
    <3> QED
      BY <1>2, <1>3, <3>1 DEF OrderInv, NoneSkipped, Among, IsOrdinary
  <2> QED
    BY <1>4, <1>5, <2>1, <2>2 DEF OrderInv, StartedOnce
<1>8. CASE Carried' = ordinary_packets[1] /\ a = 1
  <2> DEFINE p == ordinary_packets[1]
  <2>1. 1 \in DOMAIN ordinary_packets /\ p \in Packet \cup {Ping}
    <3>1. o >= 1
      BY <1>1, <1>2, <1>8
    <3> QED
      BY <1>1, <3>1 DEF TypeInv, SourceTypeOK
  <2>2. p.q # "pixels" /\ Known(p, sent) /\ p # LastPacket
    <3>1. LastPacket \notin Packet /\ LastPacket # Ping
      BY DEF Packet, Queues, LastPacket, Ping
    <3> QED
      BY <2>1, <3>1 DEF OrderInv, SourceOrder
  <2>3. AllOlder(queued, p)
    BY <2>1 DEF OrderInv, PutOrder, Precedes, AllNewer, AllOlder
  <2>4. AllNewer(p, ordinary_packets')
    <3>1. \A i \in DOMAIN ordinary_packets' : i + 1 \in DOMAIN ordinary_packets /\ 1 < i + 1
      BY <1>1, <1>2, <1>8
    <3> QED
      BY <1>2, <1>8, <2>1, <3>1 DEF OrderInv, SourceOrder, Ascending, AllNewer
  <2>5. AllNewer(p, packet_queue')
    <3>1. \A i \in DOMAIN packet_queue' : packet_queue'[i].q = "pixels"
      BY <1>4 DEF SourceOrder
    <3> QED
      BY <2>2, <3>1 DEF AllNewer, Older
  <2>6. ASSUME p.q = "ordinary" PROVE \A n \in 1..(p.n - 1) : Among(queued, n)
    <3>1. p.n \in Nat /\ p.n <= sent["ordinary"] /\ sent["ordinary"] \in Nat
      <4>1. p \in Packet
        BY <2>1, <2>6 DEF Ping
      <4>2. p.n \in Nat
        BY <4>1, MaxSendAssumption DEF Packet
      <4> QED
        BY <2>2, <2>6, <4>2 DEF Known, Queues, TypeInv, SourceTypeOK
    <3> SUFFICES ASSUME NEW n \in 1..(p.n - 1) PROVE Among(queued, n)
      OBVIOUS
    <3>2. n \in 1..sent["ordinary"] /\ n < p.n
      BY <3>1
    <3>3. ~Among(ordinary_packets, n)
      <4> SUFFICES ASSUME NEW j \in DOMAIN ordinary_packets, IsOrdinary(ordinary_packets[j], n)
                   PROVE  FALSE
        BY DEF Among
      <4>1. CASE j = 1
        BY <3>1, <3>2, <4>1 DEF IsOrdinary
      <4>2. CASE j # 1
        <5>1. 1 < j
          BY <1>1, <4>2
        <5>2. Older(p, ordinary_packets[j])
          BY <2>1, <5>1 DEF OrderInv, SourceOrder, Ascending
        <5> QED
          BY <2>6, <3>1, <3>2, <5>2 DEF Older, IsOrdinary, Queues
      <4> QED
        BY <4>1, <4>2
    <3> QED
      BY <1>3, <3>2, <3>3 DEF OrderInv, NoneSkipped
  <2> HIDE DEF p
  <2>7. CarriedOrder'
    <3>1. Carried' = p
      BY <1>8 DEF p
    <3> QED
      BY <1>2, <2>2, <2>3, <2>4, <2>5, <2>6, <3>1
      DEF CarriedOrder, Known, AllOlder, AllNewer, Among, Older, IsOrdinary
  <2>8. NoneSkipped'
    <3> SUFFICES ASSUME NEW n \in 1..sent["ordinary"]
                 PROVE  \/ Among(queued, n) \/ Among(ordinary_packets', n)
                        \/ IsOrdinary(Carried', n)
      BY <1>2, <1>3 DEF NoneSkipped, Among, IsOrdinary
    <3>1. Among(queued, n) \/ Among(ordinary_packets, n)
      BY <1>3 DEF OrderInv, NoneSkipped
    <3>2. ASSUME NEW j \in DOMAIN ordinary_packets, IsOrdinary(ordinary_packets[j], n)
          PROVE  Among(ordinary_packets', n) \/ IsOrdinary(Carried', n)
      <4>1. CASE j = 1
        BY <1>8, <3>2, <4>1
      <4>2. CASE j # 1
        <5>1. j - 1 \in DOMAIN ordinary_packets' /\ ordinary_packets'[j - 1] = ordinary_packets[j]
          BY <1>1, <1>2, <1>8, <4>2
        <5> QED
          BY <3>2, <5>1 DEF Among
      <4> QED
        BY <4>1, <4>2
    <3> QED
      BY <3>1, <3>2 DEF Among
  <2> QED
    BY <1>4, <1>5, <2>7, <2>8 DEF OrderInv, StartedOnce
<1>9. CASE Carried' = packet_queue[b] /\ b > 0 /\ ordinary_packets = <<>>
  <2> DEFINE p == packet_queue[b]
  <2>1. b \in DOMAIN packet_queue
    BY <1>1, <1>2, <1>9
  <2>2. p.q = "pixels" /\ Known(p, sent) /\ p # LastPacket
    BY <1>6, <2>1 DEF OrderInv, SourceOrder
  <2>3. AllOlder(queued, p)
    BY <2>1 DEF OrderInv, PutOrder, Precedes, AllNewer, AllOlder
  <2>4. o = 0 /\ DOMAIN ordinary_packets' = {} /\ DOMAIN ordinary_packets = {}
    BY <1>1, <1>2, <1>9 DEF o
  <2>5. AllNewer(p, packet_queue')
    <3>1. \A i \in DOMAIN packet_queue' :
            i + b \in DOMAIN packet_queue /\ b < i + b /\ packet_queue'[i] = packet_queue[i + b]
      BY <1>1, <1>2
    <3> QED
      BY <2>1, <3>1 DEF OrderInv, SourceOrder, Ascending, AllNewer
  <2> HIDE DEF p
  <2>6. CarriedOrder'
    <3>1. Carried' = p
      BY <1>9 DEF p
    <3> QED
      BY <1>2, <1>6, <2>2, <2>3, <2>4, <2>5, <3>1
      DEF CarriedOrder, Known, AllOlder, AllNewer, Older
  <2>7. NoneSkipped'
    BY <1>2, <1>3, <2>4 DEF OrderInv, NoneSkipped, Among, IsOrdinary
  <2> QED
    BY <1>4, <1>5, <2>6, <2>7 DEF OrderInv, StartedOnce
<1> QED
  BY <1>3, <1>7, <1>8, <1>9

\* A new packet of one of the two queues is newer than all there is.
LEMMA Newest ==
    ASSUME SourceTypeOK, NEW q \in Queues, NEW r, r.q = q, r.n = sent[q] + 1,
           sent' = [sent EXCEPT ![q] = @ + 1]
    PROVE  /\ \A p : Known(p, sent) => Older(p, r)
           /\ \A p : Known(p, sent) => Known(p, sent')
           /\ Known(r, sent')
           /\ sent[q] \in Nat /\ sent'[q] = sent[q] + 1
           /\ \A u \in Queues : u # q => sent'[u] = sent[u]
<1>1. /\ \A u \in Queues : sent[u] \in Nat /\ sent'[u] = IF u = q THEN sent[u] + 1 ELSE sent[u]
      /\ MaxSend \in Nat
  BY MaxSendAssumption DEF SourceTypeOK
<1>2. ASSUME NEW p, Known(p, sent) PROVE Known(p, sent')
  <2>1. CASE p.q \in Queues /\ p.q = q
    BY <1>1, <1>2, <2>1 DEF Known
  <2>2. CASE p.q \in Queues /\ p.q # q
    BY <1>1, <1>2, <2>2 DEF Known
  <2> QED
    BY <2>1, <2>2 DEF Known
<1>3. ASSUME NEW p, Known(p, sent) PROVE Older(p, r)
  BY <1>1, <1>3 DEF Known, Older
<1>4. Known(r, sent')
  BY <1>1 DEF Known
<1> QED
  BY <1>1, <1>2, <1>3, <1>4

\* A queue of the source after one more packet.
LEMMA Queued ==
    ASSUME NEW S, NEW s \in Seq(S), NEW r \in S, Ascending(s), AllOlder(s, r)
    PROVE  /\ Ascending(Append(s, r))
           /\ \A i \in DOMAIN Append(s, r) :
                Append(s, r)[i] = r \/ \E j \in DOMAIN s : Append(s, r)[i] = s[j]
           /\ \A n : Among(Append(s, r), n) <=> Among(s, n) \/ IsOrdinary(r, n)
<1> DEFINE t == Append(s, r)
<1>1. /\ Len(s) \in Nat /\ DOMAIN s = 1..Len(s) /\ DOMAIN t = 1..(Len(s) + 1)
      /\ \A i \in 1..Len(s) : t[i] = s[i]
      /\ t[Len(s) + 1] = r
  OBVIOUS
<1> HIDE DEF t
<1>2. Ascending(t)
  BY <1>1 DEF Ascending, AllOlder
<1>3. \A i \in DOMAIN t : t[i] = r \/ \E j \in DOMAIN s : t[i] = s[j]
  BY <1>1
<1>4. \A n : Among(t, n) <=> Among(s, n) \/ IsOrdinary(r, n)
  BY <1>1 DEF Among
<1> QED
  BY <1>2, <1>3, <1>4 DEF t

\* A packet is given to the source.
LEMMA ProducesInOrder ==
    ASSUME TypeInv, OrderInv, Send \/ QueuePacket \/ SendPing,
           UNCHANGED <<pc, packet, queued, closed, format_thread>>
    PROVE  OrderInv'
<1>0. /\ ordinary_packets \in Seq(Packet \cup {Ping}) /\ packet_queue \in Seq(Packet)
      /\ SourceTypeOK
  BY DEF TypeInv, SourceTypeOK
<1>c. Carrying' = Carrying /\ Carried' = Carried /\ StartedOnce'
  BY DEF Carrying, Carried, OrderInv, StartedOnce
<1>1. CASE Send
  <2>1. PICK more \in MoreFlags :
          ordinary_packets' = Append(ordinary_packets,
            [q |-> "ordinary", n |-> sent["ordinary"] + 1, more |-> more])
    BY <1>1 DEF Send
  <2> DEFINE r == [q |-> "ordinary", n |-> sent["ordinary"] + 1, more |-> more]
  <2>2. /\ sent' = [sent EXCEPT !["ordinary"] = @ + 1] /\ packet_queue' = packet_queue
        /\ "ordinary" \in Queues /\ r.q = "ordinary" /\ r.n = sent["ordinary"] + 1
    BY <1>1 DEF Send, Queues
  <2>3. r \in Packet \cup {Ping}
    BY <1>0, <1>1, MoreFlagsAssumption, MaxSendAssumption DEF Send, SourceTypeOK, Packet, Queues
  <2>4. ordinary_packets' = Append(ordinary_packets, r)
    BY <2>1
  <2> HIDE DEF r
  <2>5. /\ \A p : Known(p, sent) => Older(p, r)
        /\ \A p : Known(p, sent) => Known(p, sent')
        /\ Known(r, sent') /\ sent["ordinary"] \in Nat /\ sent'["ordinary"] = sent["ordinary"] + 1
    BY <1>0, <2>2, Newest
  <2>6. AllOlder(ordinary_packets, r)
    BY <2>5 DEF AllOlder, OrderInv, SourceOrder
  <2>7. /\ Ascending(ordinary_packets')
        /\ \A i \in DOMAIN ordinary_packets' :
             ordinary_packets'[i] = r \/ \E j \in DOMAIN ordinary_packets : ordinary_packets'[i] = ordinary_packets[j]
        /\ \A n : Among(ordinary_packets', n) <=> Among(ordinary_packets, n) \/ IsOrdinary(r, n)
    BY <1>0, <2>3, <2>4, <2>6, Queued DEF OrderInv, SourceOrder
  <2>8. SourceOrder'
    <3>1. (\A i \in DOMAIN ordinary_packets : Known(ordinary_packets[i], sent))'
      BY <2>5, <2>7 DEF OrderInv, SourceOrder
    <3>2. (\A i \in DOMAIN packet_queue : Known(packet_queue[i], sent))'
      BY <2>2, <2>5 DEF OrderInv, SourceOrder
    <3>3. (\A i \in DOMAIN ordinary_packets : ordinary_packets[i].q # "pixels")'
      BY <2>2, <2>7 DEF OrderInv, SourceOrder
    <3> QED
      BY <2>2, <2>7, <3>1, <3>2, <3>3 DEF OrderInv, SourceOrder, Ascending, Older
  <2>9. PutOrder'
    <3>1. (\A i \in DOMAIN queued : Known(queued[i], sent))'
      BY <2>5 DEF OrderInv, PutOrder
    <3>2. Precedes(queued, ordinary_packets)'
      BY <2>5, <2>7 DEF OrderInv, PutOrder, Precedes, AllNewer
    <3>3. Precedes(queued, packet_queue)' /\ Ascending(queued)'
      BY <2>2 DEF OrderInv, PutOrder, Precedes, AllNewer, Ascending
    <3> QED
      BY <3>1, <3>2, <3>3 DEF OrderInv, PutOrder, IsOrdinary
  <2>10. CarriedOrder'
    <3>1. Carrying => Known(Carried, sent') /\ AllNewer(Carried, ordinary_packets')
      BY <2>5, <2>7 DEF OrderInv, CarriedOrder, AllNewer
    <3> QED
      BY <1>c, <2>2, <3>1 DEF OrderInv, CarriedOrder, AllNewer, AllOlder, Older, Among, IsOrdinary
  <2>11. NoneSkipped'
    <3> SUFFICES ASSUME ~closed, pc["format"] # "exit", NEW n \in 1..sent'["ordinary"]
                 PROVE  \/ Among(queued, n) \/ Among(ordinary_packets', n)
                        \/ Carrying /\ IsOrdinary(Carried, n)
      BY <1>c DEF NoneSkipped, Among, IsOrdinary
    <3>1. CASE n = sent["ordinary"] + 1
      BY <2>2, <2>7, <3>1 DEF IsOrdinary
    <3>2. CASE n \in 1..sent["ordinary"]
      BY <2>7, <3>2 DEF OrderInv, NoneSkipped
    <3> QED
      BY <2>5, <3>1, <3>2
  <2> QED
    BY <1>c, <2>8, <2>9, <2>10, <2>11 DEF OrderInv
<1>2. CASE QueuePacket
  <2>1. PICK more \in MoreFlags :
          packet_queue' = Append(packet_queue,
            [q |-> "pixels", n |-> sent["pixels"] + 1, more |-> more])
    BY <1>2 DEF QueuePacket
  <2> DEFINE r == [q |-> "pixels", n |-> sent["pixels"] + 1, more |-> more]
  <2>2. /\ sent' = [sent EXCEPT !["pixels"] = @ + 1] /\ ordinary_packets' = ordinary_packets
        /\ "pixels" \in Queues /\ "ordinary" \in Queues /\ r.q = "pixels"
        /\ r.n = sent["pixels"] + 1 /\ "ordinary" # "pixels"
    BY <1>2 DEF QueuePacket, Queues
  <2>3. r \in Packet
    BY <1>0, <1>2, MoreFlagsAssumption, MaxSendAssumption DEF QueuePacket, SourceTypeOK, Packet, Queues
  <2>4. packet_queue' = Append(packet_queue, r)
    BY <2>1
  <2> HIDE DEF r
  <2>5. /\ \A p : Known(p, sent) => Older(p, r)
        /\ \A p : Known(p, sent) => Known(p, sent')
        /\ Known(r, sent') /\ \A u \in Queues : u # "pixels" => sent'[u] = sent[u]
    BY <1>0, <2>2, Newest
  <2>6. AllOlder(packet_queue, r)
    BY <2>5 DEF AllOlder, OrderInv, SourceOrder
  <2>7. /\ Ascending(packet_queue')
        /\ \A i \in DOMAIN packet_queue' :
             packet_queue'[i] = r \/ \E j \in DOMAIN packet_queue : packet_queue'[i] = packet_queue[j]
    BY <1>0, <2>3, <2>4, <2>6, Queued DEF OrderInv, SourceOrder
  <2>8. SourceOrder'
    <3>1. (\A i \in DOMAIN packet_queue : Known(packet_queue[i], sent))'
      BY <2>5, <2>7 DEF OrderInv, SourceOrder
    <3>2. (\A i \in DOMAIN ordinary_packets : Known(ordinary_packets[i], sent))'
      BY <2>2, <2>5 DEF OrderInv, SourceOrder
    <3>3. (\A i \in DOMAIN packet_queue : packet_queue[i].q = "pixels")'
      BY <2>2, <2>7 DEF OrderInv, SourceOrder
    <3> QED
      BY <2>2, <2>7, <3>1, <3>2, <3>3 DEF OrderInv, SourceOrder, Ascending, Older
  <2>9. PutOrder'
    <3>1. (\A i \in DOMAIN queued : Known(queued[i], sent))'
      BY <2>5 DEF OrderInv, PutOrder
    <3>2. Precedes(queued, packet_queue)'
      BY <2>5, <2>7 DEF OrderInv, PutOrder, Precedes, AllNewer
    <3>3. Precedes(queued, ordinary_packets)' /\ Ascending(queued)'
      BY <2>2 DEF OrderInv, PutOrder, Precedes, AllNewer, Ascending
    <3> QED
      BY <3>1, <3>2, <3>3 DEF OrderInv, PutOrder, IsOrdinary
  <2>10. CarriedOrder'
    <3>1. Carrying => Known(Carried, sent') /\ AllNewer(Carried, packet_queue')
      BY <2>5, <2>7 DEF OrderInv, CarriedOrder, AllNewer
    <3> QED
      BY <1>c, <2>2, <3>1 DEF OrderInv, CarriedOrder, AllNewer, AllOlder, Older, Among, IsOrdinary
  <2>11. NoneSkipped'
    <3>1. sent'["ordinary"] = sent["ordinary"]
      BY <2>2, <2>5
    <3> QED
      BY <1>c, <2>2, <3>1 DEF OrderInv, NoneSkipped, Among, IsOrdinary
  <2> QED
    BY <1>c, <2>8, <2>9, <2>10, <2>11 DEF OrderInv
<1>3. CASE SendPing
  <2>0. /\ UNCHANGED <<packet_queue, sent>>
        /\ ordinary_packets' = ordinary_packets \/ ordinary_packets' = Append(ordinary_packets, Ping)
    BY <1>3 DEF SendPing
  <2>1. /\ Ping.q \notin Queues /\ Ping.q # "pixels" /\ Known(Ping, sent)
        /\ \A p : Older(p, Ping) /\ Older(Ping, p)
        /\ \A n : ~IsOrdinary(Ping, n)
    BY DEF Ping, Queues, Known, Older, IsOrdinary
  <2>2. /\ Ascending(ordinary_packets')
        /\ \A i \in DOMAIN ordinary_packets' :
             ordinary_packets'[i] = Ping \/ \E j \in DOMAIN ordinary_packets : ordinary_packets'[i] = ordinary_packets[j]
        /\ \A n : Among(ordinary_packets', n) <=> Among(ordinary_packets, n)
    <3>1. CASE ordinary_packets' = ordinary_packets
      BY <3>1 DEF OrderInv, SourceOrder
    <3>2. CASE ordinary_packets' = Append(ordinary_packets, Ping)
      <4>1. AllOlder(ordinary_packets, Ping) /\ Ping \in Packet \cup {Ping}
        BY <2>1 DEF AllOlder
      <4> QED
        BY <1>0, <2>1, <3>2, <4>1, Queued DEF OrderInv, SourceOrder
    <3> QED
      BY <2>0, <3>1, <3>2
  <2>3. SourceOrder'
    <3>1. \A i \in DOMAIN ordinary_packets' :
            Known(ordinary_packets'[i], sent) /\ ordinary_packets'[i].q # "pixels"
      BY <2>1, <2>2 DEF OrderInv, SourceOrder
    <3> QED
      BY <2>0, <2>2, <3>1 DEF OrderInv, SourceOrder, Known, Ascending, Older
  <2>4. PutOrder'
    <3>1. Precedes(queued, ordinary_packets)'
      BY <2>1, <2>2 DEF OrderInv, PutOrder, Precedes, AllNewer
    <3> QED
      BY <2>0, <3>1 DEF OrderInv, PutOrder, Precedes, AllNewer, Ascending, Older, IsOrdinary, Known
  <2>5. CarriedOrder'
    <3>1. Carrying => AllNewer(Carried, ordinary_packets')
      BY <2>1, <2>2 DEF OrderInv, CarriedOrder, AllNewer
    <3> QED
      BY <1>c, <2>0, <3>1 DEF OrderInv, CarriedOrder, AllNewer, AllOlder, Older, Among,
                              IsOrdinary, Known
  <2>6. NoneSkipped'
    <3> SUFFICES ASSUME ~closed, pc["format"] # "exit", NEW n \in 1..sent["ordinary"]
                 PROVE  \/ Among(queued, n) \/ Among(ordinary_packets', n)
                        \/ Carrying /\ IsOrdinary(Carried, n)
      BY <1>c, <2>0 DEF NoneSkipped, Among, IsOrdinary
    <3> QED
      BY <2>2 DEF OrderInv, NoneSkipped
  <2> QED
    BY <1>c, <2>3, <2>4, <2>5, <2>6 DEF OrderInv
<1> QED
  BY <1>1, <1>2, <1>3

\* The producers and their notifications.
LEMMA ProducerPath ==
    ASSUME TypeInv, PathInv, NEW p \in Producers, Produce(p) \/ Notify(p) \/ StartFormatThread(p)
    PROVE  PathInv'
<1>t. "format" \in Threads /\ "write" \in Threads
  BY DEF Threads
<1>1. CASE Produce(p)
  <2>1. /\ UNCHANGED <<pc, cont, packet, queued, closed, format_thread, write_queue, exit_queue,
                       wire, conn, failed, write_lock, flush_called, timers>>
    BY <1>1 DEF Produce, connVars, queueVars, threadVars, formatVars, loopVars, flushVars, outVars
  <2>2. Send \/ QueuePacket \/ SendPing
    BY <1>1, Zenon DEF Produce
  <2>3. OrderInv'
    BY <2>1, <2>2, ProducesInOrder DEF PathInv
  <2>4. Calm /\ Kept
    BY <2>1 DEF Calm, Kept, Steady
  <2> QED
    BY <2>1, <2>3, <2>4, CalmLock, CalmLast, KeptChain DEF PathInv, FlushInv
<1>2. CASE Notify(p)
  <2>1. UNCHANGED <<pc, cont, packet, queued, closed, format_thread, write_queue, exit_queue, wire,
                    conn, failed, write_lock, flush_called, timers, ordinary_packets,
                    packet_queue, sent>>
    BY <1>2 DEF Notify, sourceVars, connVars, queueVars, threadVars, formatVars, loopVars,
                flushVars, outVars
  <2>2. Aside
    BY <2>1 DEF Aside, Calm, Kept, Steady, Passed, Carrying
  <2> QED
    BY <2>2, AsideKeeps
<1>3. CASE StartFormatThread(p)
  <2>1. /\ UNCHANGED <<cont, packet, queued, closed, write_queue, exit_queue, wire,
                       conn, failed, write_lock, flush_called, timers, ordinary_packets,
                       packet_queue, sent>>
        /\ \/ UNCHANGED <<pc, format_thread>>
           \/ ~format_thread /\ ~closed /\ format_thread' /\ Goto("format", "check")
    BY <1>3 DEF StartFormatThread, sourceVars, connVars, queueVars, formatVars, loopVars,
                flushVars, outVars
  <2>2. CASE UNCHANGED <<pc, format_thread>>
    <3>1. Aside
      BY <2>1, <2>2 DEF Aside, Calm, Kept, Steady, Passed, Carrying
    <3> QED
      BY <3>1, AsideKeeps
  <2>3. CASE ~format_thread /\ ~closed /\ format_thread' /\ Goto("format", "check")
    <3>1. pc'["format"] = "check" /\ Alone("format")
      BY <1>t, <2>1, <2>3, Hops
    <3>2. pc["format"] = "none"
      BY <2>3 DEF PathInv, OrderInv, StartedOnce
    <3>3. pc'["write"] = pc["write"] /\ \A u \in Flushing : Steady(u)
      BY <1>t, <3>1, Others DEF Flushing
    <3>4. Calm /\ Kept
      BY <2>1, <3>1, <3>3 DEF Calm, Kept
    <3>5. Passed
      BY <2>1, <2>3, <3>1, <3>2 DEF Passed, Carrying
    <3> QED
      BY <3>4, <3>5, AsideKeeps DEF Aside
  <2> QED
    BY <2>1, <2>2, <2>3
<1> QED
  BY <1>1, <1>2, <1>3

\* A step of the format thread that leaves the lock and the queue alone.
LEMMA FormatAside ==
    ASSUME TypeInv, PathInv, NEW label, Goto("format", label), pc["format"] # "none",
           label \notin {"locked", "rawwrite", "put"},
           UNCHANGED <<cont, packet, queued, closed, write_queue, exit_queue, wire, conn, failed,
                       write_lock, flush_called, timers, ordinary_packets, packet_queue, sent,
                       format_thread>>,
           label \in {"lock", "acquire"} => Carrying,
           ~closed /\ label # "exit" =>
               pc["format"] # "exit" /\ (Carrying /\ Carried # NoPacket => label \in {"lock", "acquire"}),
           label # "clear"
    PROVE  PathInv'
<1>t. "format" \in Threads
  BY DEF Threads
<1>1. pc'["format"] = label /\ Alone("format")
  BY <1>t, Hops
<1>2. Calm /\ Kept
  BY <1>t, <1>1, Others DEF Calm, Kept, Flushing
<1>3. Passed
  BY <1>1 DEF Passed, Carrying
<1> QED
  BY <1>2, <1>3, AsideKeeps DEF Aside

\* The format thread.
LEMMA FormatPath == ASSUME TypeInv, PathInv, FormatNext PROVE PathInv'
<1>t. "format" \in Threads /\ "write" \in Threads /\ Flushing \subseteq Threads
      /\ "format" \notin Flushing
  BY DEF Threads, Flushing
<1>f. LockInv /\ LastInv /\ ChainInv /\ OrderInv
  BY DEF PathInv, FlushInv
<1>1. CASE FormatWait
  <2>1. /\ \E label \in {"exit", "wait", "get"} : Goto("format", label) /\ (label = "exit" => closed)
        /\ pc["format"] \in {"check", "wait"}
        /\ UNCHANGED <<cont, packet, queued, closed, write_queue, exit_queue, wire, conn, failed,
                       write_lock, flush_called, timers, ordinary_packets, packet_queue, sent,
                       format_thread>>
    BY <1>1 DEF FormatWait, sourceVars, wakeVars, connVars, queueVars, formatVars, loopVars,
                flushVars, outVars
  <2> QED
    BY <2>1, FormatAside DEF Carrying
<1>2. CASE FormatClear
  <2>1. /\ \E label \in {"check", "lock"} :
             Goto("format", label) /\ (label = "check" => Carried = NoPacket)
        /\ pc["format"] = "clear"
        /\ UNCHANGED <<cont, packet, queued, closed, write_queue, exit_queue, wire, conn, failed,
                       write_lock, flush_called, timers, ordinary_packets, packet_queue, sent,
                       format_thread>>
    BY <1>2 DEF FormatClear, Carried, sourceVars, connVars, queueVars, formatVars, loopVars,
                flushVars, outVars
  <2> QED
    BY <2>1, FormatAside DEF Carrying
<1>3. CASE FormatError
  <2>1. /\ Goto("format", "exit") /\ pc["format"] = "lock"
        /\ UNCHANGED <<cont, packet, queued, closed, write_queue, exit_queue, wire, conn, failed,
                       write_lock, flush_called, timers, ordinary_packets, packet_queue, sent,
                       format_thread>>
    BY <1>3 DEF FormatError, sourceVars, wakeVars, connVars, queueVars, formatVars, loopVars,
                flushVars, outVars
  <2> QED
    BY <2>1, FormatAside
<1>4. CASE FormatGet
  <2>0. /\ pc["format"] = "get"
        /\ UNCHANGED <<cont, queued, closed, write_queue, exit_queue, wire, conn, failed,
                       write_lock, flush_called, timers, format_thread>>
    BY <1>4 DEF FormatGet, wakeVars, connVars, queueVars, loopVars, flushVars, outVars
  <2>1. CASE closed
    <3>1. Goto("format", "exit") /\ UNCHANGED <<packet, ordinary_packets, packet_queue, sent>>
      BY <1>4, <2>1 DEF FormatGet, sourceVars, formatVars
    <3> QED
      BY <2>0, <3>1, FormatAside
  <2>2. CASE ~closed
    <3>1. PICK k \in Rejected :
            /\ TakePacket(NextPacket(k)) /\ Goto("format", "clear")
            /\ packet' = [packet EXCEPT !["format"] = NextPacket(k).packet]
      BY <1>4, <2>2 DEF FormatGet
    <3>2. pc'["format"] = "clear" /\ Alone("format")
      BY <1>t, <2>0, <3>1, Hops
    <3>3. OrderInv'
      BY <1>f, <2>0, <2>2, <3>1, <3>2, TakesInOrder
    <3>4. packet'["write"] = packet["write"]
      BY <3>1 DEF TypeInv, FormatTypeOK
    <3>5. Calm /\ Kept
      BY <1>t, <2>0, <3>2, <3>4, Others DEF Calm, Kept
    <3> QED
      BY <1>f, <2>0, <3>3, <3>5, CalmLock, CalmLast, KeptChain DEF PathInv, FlushInv
  <2> QED
    BY <2>1, <2>2
<1>5. CASE FormatAcquire
  <2>0. UNCHANGED <<cont, packet, queued, closed, write_queue, exit_queue, wire, conn, failed,
                    flush_called, timers, ordinary_packets, packet_queue, sent, format_thread>>
    BY <1>5 DEF FormatAcquire, sourceVars, wakeVars, connVars, queueVars, formatVars, loopVars,
                flushVars, outVars
  <2>1. CASE pc["format"] = "lock"
    <3>1. (Goto("format", "exit") \/ Goto("format", "acquire")) /\ UNCHANGED write_lock
      BY <1>5, <2>1 DEF FormatAcquire
    <3> QED
      BY <2>0, <2>1, <3>1, FormatAside DEF Carrying
  <2>2. CASE pc["format"] # "lock"
    <3>1. /\ pc["format"] = "acquire" /\ write_lock = "none" /\ write_lock' = "format"
          /\ Goto("format", "locked")
      BY <1>5, <2>2 DEF FormatAcquire, LockFree
    <3>2. pc'["format"] = "locked" /\ Alone("format")
      BY <1>t, <2>0, <3>1, Hops
    <3>3. \A u \in Flushing : pc'[u] = pc[u]
      BY <1>t, <3>2 DEF Alone
    <3>4. (Unreleased' <=> Unreleased) /\ (Disengaged' <=> Disengaged)
      BY <2>0, <3>3 DEF Unreleased, Disengaged, Releasing, Engaged
    <3>5. LockInv'
      <4>1. OneFlush'
        BY <1>f, <2>0, <3>3, <3>4 DEF LockInv, OneFlush, Engaged
      <4>2. LockHeld'
        BY <1>f, <2>0, <3>1, <3>3 DEF LockInv, LockHeld, Releasing
      <4>3. LockKept'
        BY <3>1, <3>2 DEF LockKept, Putting
      <4> QED
        BY <4>1, <4>2, <4>3 DEF LockInv
    <3>6. LastInv'
      BY <1>f, <2>0, <3>1, <3>2, <3>3 DEF LastInv, Putting, IsQueued
    <3>7. Kept
      BY <1>t, <2>0, <3>2, Others DEF Kept
    <3>8. Passed
      BY <2>0, <3>1, <3>2 DEF Passed, Carrying
    <3> QED
      BY <1>f, <3>5, <3>6, <3>7, <3>8, KeptChain, PassedOrder DEF PathInv, FlushInv
  <2> QED
    BY <2>1, <2>2
<1>6. CASE FormatRawWrite
  <2>0. UNCHANGED <<cont, packet, queued, closed, write_queue, exit_queue, wire, conn, failed,
                    write_lock, flush_called, timers, ordinary_packets, packet_queue, sent, format_thread>>
    BY <1>6 DEF FormatRawWrite, sourceVars, wakeVars, connVars, queueVars, formatVars, loopVars,
                flushVars, outVars
  <2>1. CASE pc["format"] = "locked" /\ closed
    <3>1. Goto("format", "release")
      BY <1>6, <2>1 DEF FormatRawWrite
    <3> QED
      BY <2>0, <2>1, <3>1, FormatAside
  <2>2. CASE \/ pc["format"] = "locked" /\ ~closed /\ Goto("format", "rawwrite")
             \/ /\ pc["format"] = "rawwrite"
                /\ StartWriteThread("format", IF exit_queue THEN "release" ELSE "put")
    <3>1. /\ pc'["format"] \in {"rawwrite", "put", "release"}
          /\ (\A u \in Flushing : pc'[u] = pc[u]) /\ (pc'["format"] = "release" => exit_queue)
          /\ pc'["write"] = pc["write"] \/ (pc["write"] = "none" /\ pc'["write"] = "check")
      <4>1. CASE Goto("format", "rawwrite")
        BY <1>t, <2>0, <4>1, Hops DEF Alone
      <4>2. CASE pc["format"] = "rawwrite"
        <5>1. PICK label \in {"release", "put"} :
                StartWriteThread("format", label) /\ (label = "release" => exit_queue)
          BY <2>2, <4>2
        <5>2. label \in OwnLabels("format")
          BY DEF OwnLabels, FormatLabels
        <5>3. /\ pc'["format"] = label
              /\ pc'["write"] = pc["write"] \/ (pc["write"] = "none" /\ pc'["write"] = "check")
              /\ \A u \in Threads : u # "format" /\ u # "write" => pc'[u] = pc[u]
          BY <1>t, <2>0, <5>1, <5>2, Spawns DEF TypeInv
        <5> QED
          BY <1>t, <5>1, <5>3 DEF Flushing
      <4> QED
        BY <2>2, <4>1, <4>2
    <3>2. write_lock = "format" /\ Unreleased
      <4>1. CASE pc["format"] = "locked" /\ ~closed
        BY <1>f, <4>1 DEF LockInv, LockKept, LockHeld, Unreleased
      <4>2. CASE pc["format"] = "rawwrite"
        BY <1>f, <4>2 DEF LockInv, LockKept, Putting
      <4> QED
        BY <2>2, <4>1, <4>2
    <3>3. (Unreleased' <=> Unreleased) /\ (Disengaged' <=> Disengaged)
      BY <2>0, <3>1 DEF Unreleased, Disengaged, Releasing, Engaged
    <3>4. LockInv'
      <4>1. OneFlush'
        BY <1>f, <2>0, <3>1, <3>3 DEF LockInv, OneFlush, Engaged
      <4>2. LockHeld'
        BY <1>f, <2>0, <3>1 DEF LockInv, LockHeld, Releasing
      <4>3. LockKept'
        BY <2>0, <3>1, <3>2, <3>3 DEF LockKept
      <4> QED
        BY <4>1, <4>2, <4>3 DEF LockInv
    <3>5. LastInv'
      <4>1. ~IsQueued(LastPacket)
        <5>1. CASE ~closed
          BY <1>f, <3>2, <5>1 DEF LastInv
        <5>2. CASE pc["format"] = "rawwrite"
          BY <1>f, <5>2 DEF LastInv, Putting
        <5> QED
          BY <2>2, <5>1, <5>2
      <4> QED
        BY <2>0, <4>1 DEF LastInv, IsQueued
    <3>6. Kept
      BY <2>0, <3>1 DEF Kept
    <3>7. Passed
      <4>1. pc'["format"] = "release" => closed
        BY <1>f, <3>1 DEF ChainInv, Intact
      <4>2. pc["format"] \in {"locked", "rawwrite"}
        BY <2>2
      <4> QED
        BY <2>0, <3>1, <4>1, <4>2 DEF Passed, Carrying
    <3> QED
      BY <1>f, <3>4, <3>5, <3>6, <3>7, KeptChain, PassedOrder DEF PathInv, FlushInv
  <2> QED
    BY <1>6, <2>1, <2>2 DEF FormatRawWrite
<1>7. CASE FormatRelease
  <2>0. /\ UNCHANGED <<cont, packet, queued, closed, write_queue, exit_queue, wire, conn, failed,
                       flush_called, timers, ordinary_packets, packet_queue, sent, format_thread>>
        /\ pc["format"] = "release" /\ Goto("format", "check")
        /\ write_lock' = IF write_lock = "format" THEN "none" ELSE write_lock
    BY <1>7 DEF FormatRelease, sourceVars, wakeVars, connVars, queueVars, formatVars, loopVars,
                flushVars, outVars
  <2>1. pc'["format"] = "check" /\ Alone("format")
    BY <1>t, <2>0, Hops
  <2>2. \A u \in Flushing : pc'[u] = pc[u]
    BY <1>t, <2>1 DEF Alone
  <2>3. (Unreleased' <=> Unreleased) /\ (Disengaged' <=> Disengaged)
    BY <2>0, <2>2 DEF Unreleased, Disengaged, Releasing, Engaged
  <2>4. LockInv'
    <3>1. OneFlush'
      BY <1>f, <2>0, <2>2, <2>3 DEF LockInv, OneFlush, Engaged
    <3>2. LockHeld'
      BY <1>f, <2>0, <2>2 DEF LockInv, LockHeld, Releasing
    <3>3. LockKept'
      BY <2>1 DEF LockKept, Putting
    <3> QED
      BY <3>1, <3>2, <3>3 DEF LockInv
  <2>5. LastInv'
    BY <1>f, <2>0, <2>1, <2>2 DEF LastInv, Putting, IsQueued
  <2>6. Kept
    BY <1>t, <2>0, <2>1, Others DEF Kept
  <2>7. Passed
    BY <2>0, <2>1 DEF Passed, Carrying
  <2> QED
    BY <1>f, <2>4, <2>5, <2>6, <2>7, KeptChain, PassedOrder DEF PathInv, FlushInv
<1> QED
  BY <1>1, <1>2, <1>3, <1>4, <1>5, <1>6, <1>7, FormatPutPath DEF FormatNext

-----------------------------------------------------------------------------
(***************************************************************************)
(* The write thread.                                                       *)
(***************************************************************************)

\* The write thread disturbs neither the lock nor the order of what was put.
LEMMA WriteAlone ==
    ASSUME TypeInv, PathInv, Alone("write"), packet'["format"] = packet["format"], closed => closed',
           UNCHANGED <<queued, write_lock, flush_called, timers, ordinary_packets, packet_queue,
                       sent, format_thread>>,
           ChainInv'
    PROVE  PathInv'
<1>1. /\ pc'["format"] = pc["format"] /\ \A u \in Flushing : Steady(u)
  BY Others DEF Threads, Flushing
<1>2. Calm /\ Passed
  BY <1>1 DEF Calm, Passed, Carrying
<1> QED
  BY <1>2, CalmLock, CalmLast, PassedOrder DEF PathInv, FlushInv

\* The write thread takes the packet in the slot.
LEMMA GetChain ==
    ASSUME TypeInv, ChainInv, pc["write"] = "get", pc'["write"] = "write",
           write_queue # <<>>, Head(write_queue) # EmptyMarker, write_queue' = Tail(write_queue),
           packet' = [packet EXCEPT !["write"] = Head(write_queue)],
           UNCHANGED <<queued, wire, closed, exit_queue, conn, failed>>
    PROVE  ChainInv'
<1>1. /\ Len(write_queue) = 1 /\ Head(write_queue) = write_queue[1]
  BY QueueFacts DEF TypeInv, QueueTypeOK
<1>2. write_queue' = <<>> /\ DOMAIN write_queue' = {}
  <2>1. /\ write_queue \in Seq(Outbound \cup {Ping, EmptyMarker})
        /\ Tail(write_queue) \in Seq(Outbound \cup {Ping, EmptyMarker})
    BY DEF TypeInv, QueueTypeOK
  <2>2. Len(Tail(write_queue)) = 0
    BY <1>1, <2>1
  <2>3. Tail(write_queue) = <<>>
    BY <2>1, <2>2
  <2> QED
    BY <2>3
<1>3. packet'["write"] = write_queue[1]
  BY <1>1 DEF TypeInv, FormatTypeOK
<1>4. Hand = 0 /\ Slot' = 0 /\ Hand' = Slot /\ Slot \in {0, 1} /\ (Slot = 1 <=> write_queue[1] # Ping)
  BY <1>2, <1>3 DEF Hand, Slot
<1>5. WirePrefix' /\ SendIsNext' /\ Intact'
  BY <1>2 DEF ChainInv, WirePrefix, SendIsNext, Intact
<1>6. NothingLost'
  BY <1>3, <1>4, QueueFacts DEF ChainInv, NothingLost
<1> QED
  BY <1>5, <1>6 DEF ChainInv

\* The peer takes the packet: the next one that was put.
LEMMA SendChain ==
    ASSUME TypeInv, ChainInv, pc["write"] = "send", pc'["write"] = "check",
           wire' = Recorded(wire, packet["write"]),
           UNCHANGED <<packet, queued, write_queue, closed, exit_queue, conn, failed>>
    PROVE  ChainInv'
<1>0. Hand' = 0 /\ Slot' = Slot /\ Slot \in {0, 1}
  BY DEF Hand, Slot
<1>1. Intact' /\ SendIsNext'
  BY DEF ChainInv, Intact, SendIsNext
<1>2. CASE packet["write"] = Ping
  <2>1. wire' = wire /\ Hand = 0
    BY <1>2 DEF Recorded, Hand
  <2>2. WirePrefix' /\ NothingLost'
    BY <1>0, <2>1 DEF ChainInv, WirePrefix, NothingLost
  <2> QED
    BY <1>1, <2>2 DEF ChainInv
<1>3. CASE packet["write"] # Ping
  <2>1. wire' = Append(wire, packet["write"]) /\ Hand = 1 /\ wire \in Seq(Outbound)
    BY <1>3 DEF Recorded, Hand, TypeInv, OutTypeOK
  <2>2. packet["write"] \in Outbound
    BY <1>3 DEF TypeInv, Holding, FormatTypeOK
  <2>3. /\ Len(wire) \in Nat /\ Len(wire') = Len(wire) + 1
        /\ \A i \in 1..Len(wire) : wire'[i] = wire[i]
        /\ wire'[Len(wire) + 1] = packet["write"]
    BY <2>1, <2>2
  <2>4. /\ Len(wire) < Len(queued) /\ packet["write"] = queued[Len(wire) + 1]
        /\ Len(queued) \in Nat
    BY <1>3, QueueFacts DEF ChainInv, SendIsNext
  <2>5. WirePrefix'
    BY <2>3, <2>4 DEF ChainInv, WirePrefix
  <2>6. NothingLost'
    BY <1>0, <2>1, <2>3, <2>4 DEF ChainInv, NothingLost
  <2> QED
    BY <1>1, <2>5, <2>6 DEF ChainInv
<1> QED
  BY <1>2, <1>3

\* A write fails: the write thread ends, or the connection is closed.
LEMMA FailPath == ASSUME TypeInv, PathInv, NEW e, WriteFail(e) PROVE PathInv'
<1>t. "write" \in Threads /\ "write" \in Closing /\ "exit" \in ResumeLabels("write")
  BY DEF Threads, Closing, ResumeLabels
<1>1. /\ UNCHANGED <<packet, queued, wire, write_queue, exit_queue, conn, write_lock, flush_called,
                     timers, ordinary_packets, packet_queue, sent, format_thread>>
      /\ failed'
  BY DEF WriteFail, sourceVars, wakeVars, formatVars, flushVars
<1>2. CASE e = "os"
  <2>1. Goto("write", "exit") /\ UNCHANGED <<closed, cont>>
    BY <1>2 DEF WriteFail, AfterOSError
  <2>2. pc'["write"] = "exit" /\ Alone("write")
    BY <1>t, <2>1, Hops
  <2>3. ChainInv'
    BY <1>1, <2>1, <2>2 DEF PathInv, ChainInv, WirePrefix, SendIsNext, NothingLost, Intact
  <2> QED
    BY <1>1, <2>1, <2>2, <2>3, WriteAlone
<1>3. CASE e # "os"
  <2>1. CloseThen("write", "exit", idle)
    BY <1>3 DEF WriteFail
  <2>2. closed' /\ Alone("write") /\ pc'["write"] \in CloseLabels \cup {"exit"}
    BY <1>t, <2>1, CallsClose
  <2>3. ChainInv'
    BY <1>1, <2>2, GoneChain DEF PathInv, Gone, CloseLabels
  <2> QED
    BY <1>1, <2>2, <2>3, WriteAlone
<1> QED
  BY <1>2, <1>3

\* The write thread.
LEMMA WritePath == ASSUME TypeInv, PathInv, WriteNext PROVE PathInv'
<1>t. "write" \in Threads /\ "write" \in Closing /\ "exit" \in ResumeLabels("write")
  BY DEF Threads, Closing, ResumeLabels
<1>f. ChainInv
  BY DEF PathInv
<1>c. ASSUME CloseThen("write", "exit", idle),
             UNCHANGED <<packet, queued, wire, write_lock, flush_called,
                     timers, ordinary_packets, packet_queue, sent, format_thread>>
      PROVE  PathInv'
  <2>1. closed' /\ Alone("write") /\ pc'["write"] \in CloseLabels \cup {"exit"}
    BY <1>t, <1>c, CallsClose
  <2>2. ChainInv'
    BY <1>c, <1>f, <2>1, GoneChain DEF Gone, CloseLabels
  <2> QED
    BY <1>c, <2>1, <2>2, WriteAlone
<1>1. CASE WriteCheck \/ WriteBegin
  <2>1. /\ UNCHANGED <<packet, queued, wire, write_queue, exit_queue, conn, write_lock, flush_called,
                       timers, ordinary_packets, packet_queue, sent, format_thread, closed, cont,
                       failed>>
        /\ \/ pc["write"] = "check" /\ Goto("write", "exit") /\ closed
           \/ pc["write"] = "check" /\ Goto("write", "capture")
           \/ pc["write"] = "write" /\ Goto("write", "exit") /\ ~conn
           \/ pc["write"] = "write" /\ Goto("write", "check") /\ closed
           \/ pc["write"] = "write" /\ Goto("write", "send") /\ ~closed
    BY <1>1 DEF WriteCheck, WriteBegin, sourceVars, wakeVars, connVars, queueVars, formatVars,
                loopVars, flushVars, outVars
  <2>2. /\ Alone("write")
        /\ \/ pc["write"] = "check" /\ pc'["write"] = "exit" /\ closed
           \/ pc["write"] = "check" /\ pc'["write"] = "capture"
           \/ pc["write"] = "write" /\ pc'["write"] = "exit" /\ ~conn
           \/ pc["write"] = "write" /\ pc'["write"] = "check" /\ closed
           \/ pc["write"] = "write" /\ pc'["write"] = "send" /\ ~closed
    BY <1>t, <2>1, Hops
  <2>3. CASE closed
    BY <1>f, <2>1, <2>2, <2>3, GoneChain, WriteAlone DEF Gone
  <2>4. CASE ~closed
    <3>1. Hand' = Hand /\ Slot' = Slot /\ pc["write"] # "exit" /\ pc'["write"] # "exit"
      BY <1>f, <2>1, <2>2, <2>4 DEF Hand, Slot, ChainInv, Intact
    <3>2. WirePrefix' /\ NothingLost' /\ Intact'
      BY <1>f, <2>1, <3>1 DEF ChainInv, WirePrefix, NothingLost, Intact
    <3>3. SendIsNext'
      <4> SUFFICES ASSUME pc'["write"] = "send", packet["write"] # Ping
                   PROVE  Len(wire) < Len(queued) /\ packet["write"] = queued[Len(wire) + 1]
        BY <2>1 DEF SendIsNext
      <4>1. Hand = 1 /\ Slot \in {0, 1}
        BY <2>2 DEF Hand, Slot
      <4>2. /\ Len(queued) = Len(wire) + Hand + Slot
            /\ Hand = 1 => packet["write"] = queued[Len(wire) + 1]
        BY <1>f, <2>4, <3>1 DEF ChainInv, NothingLost
      <4>3. Len(wire) \in Nat /\ Len(queued) \in Nat
        BY QueueFacts
      <4> QED
        BY <4>1, <4>2, <4>3
    <3> QED
      BY <2>1, <2>2, <3>2, <3>3, WriteAlone DEF ChainInv
  <2> QED
    BY <2>3, <2>4
<1>2. CASE WriteCapture
  <2>1. UNCHANGED <<packet, queued, wire, write_queue, exit_queue, conn, write_lock, flush_called,
                    timers, ordinary_packets, packet_queue, sent, format_thread, failed>>
    BY <1>2 DEF WriteCapture, sourceVars, wakeVars, queueVars, formatVars, flushVars, outVars
  <2>2. CASE CloseThen("write", "exit", idle)
    BY <1>c, <2>1, <2>2
  <2>3. CASE Goto("write", "get") /\ UNCHANGED <<closed, cont>>
    <3>1. pc["write"] = "capture" /\ pc'["write"] = "get" /\ Alone("write")
      BY <1>2, <1>t, <2>3, Hops DEF WriteCapture
    <3>2. Hand' = Hand /\ Slot' = Slot
      BY <2>1, <3>1 DEF Hand, Slot
    <3>3. ChainInv'
      BY <1>f, <2>1, <2>3, <3>1, <3>2 DEF ChainInv, WirePrefix, SendIsNext, NothingLost, Intact
    <3> QED
      BY <2>1, <2>3, <3>1, <3>3, WriteAlone
  <2> QED
    BY <1>2, <2>2, <2>3 DEF WriteCapture
<1>3. CASE WriteGet
  <2>1. /\ UNCHANGED <<queued, wire, exit_queue, conn, write_lock, flush_called,
                       timers, ordinary_packets, packet_queue, sent, format_thread, failed>>
        /\ pc["write"] = "get" /\ write_queue # <<>> /\ write_queue' = Tail(write_queue)
    BY <1>3 DEF WriteGet, sourceVars, wakeVars, flushVars, outVars
  <2>2. CASE Head(write_queue) = EmptyMarker
    BY <1>3, <1>c, <2>1, <2>2 DEF WriteGet
  <2>3. CASE Head(write_queue) # EmptyMarker
    <3>1. /\ packet' = [packet EXCEPT !["write"] = Head(write_queue)]
          /\ Goto("write", "write") /\ UNCHANGED <<closed, cont>>
      BY <1>3, <2>3 DEF WriteGet
    <3>2. pc'["write"] = "write" /\ Alone("write")
      BY <1>t, <3>1, Hops
    <3>3. ChainInv'
      BY <1>f, <2>1, <2>3, <3>1, <3>2, GetChain
    <3>4. packet'["format"] = packet["format"]
      BY <3>1 DEF TypeInv, FormatTypeOK
    <3> QED
      BY <2>1, <3>1, <3>2, <3>3, <3>4, WriteAlone
  <2> QED
    BY <2>2, <2>3
<1>4. CASE WriteSend \/ WriteCut
  <2>1. /\ UNCHANGED <<packet, queued, write_queue, exit_queue, conn, write_lock, flush_called,
                       timers, ordinary_packets, packet_queue, sent, format_thread, closed, cont>>
        /\ pc["write"] = "send" /\ Goto("write", "check")
        /\ \/ wire' = Recorded(wire, packet["write"]) /\ UNCHANGED failed
           \/ closed /\ UNCHANGED wire
    BY <1>4 DEF WriteSend, WriteCut, sourceVars, wakeVars, connVars, formatVars, loopVars, flushVars
  <2>2. pc'["write"] = "check" /\ Alone("write")
    BY <1>t, <2>1, Hops
  <2>3. ChainInv'
    <3>1. CASE wire' = Recorded(wire, packet["write"]) /\ UNCHANGED failed
      BY <1>f, <2>1, <2>2, <3>1, SendChain
    <3>2. CASE closed /\ UNCHANGED wire
      BY <1>f, <2>1, <2>2, <3>2, GoneChain DEF Gone
    <3> QED
      BY <2>1, <3>1, <3>2
  <2> QED
    BY <2>1, <2>2, <2>3, WriteAlone
<1> QED
  BY <1>1, <1>2, <1>3, <1>4, FailPath DEF WriteNext, WriteAbort

-----------------------------------------------------------------------------
\* The three invariants hold in every state.
LEMMA PathInvariance == Spec => []PathInv
<1>1. Init => PathInv
  <2> SUFFICES ASSUME Init PROVE PathInv
    OBVIOUS
  <2>1. /\ pc["main"] = "idle" /\ pc["parse"] = "new" /\ pc["write"] = "none"
        /\ pc["format"] = "none"
    BY DEF Init, Threads
  <2>2. /\ ordinary_packets = <<>> /\ packet_queue = <<>> /\ queued = <<>> /\ wire = <<>>
        /\ write_queue = <<>> /\ timers = {} /\ ~closed /\ ~flush_called /\ ~exit_queue
        /\ conn /\ ~format_thread /\ sent["ordinary"] = 0
    BY DEF Init, SourceInit, Queues
  <2>3. Len(<<>>) = 0 /\ DOMAIN <<>> = {}
    OBVIOUS
  <2>4. LockInv
    <3>1. \A t \in Flushing : ~Engaged(t) /\ ~Releasing(t) /\ pc[t] \notin HeldLabels
      BY <2>1 DEF Flushing, Engaged, EngagedLabels, HeldLabels, Releasing, ReleaseLabels, CloseLabels
    <3> QED
      BY <2>1, <2>2, <3>1 DEF LockInv, OneFlush, LockHeld, LockKept, Unreleased, Disengaged, Putting
  <2>5. LastInv
    BY <2>2, <2>3 DEF LastInv, IsQueued
  <2>6. ChainInv
    <3>1. Hand = 0 /\ Slot = 0
      BY <2>1, <2>2 DEF Hand, Slot
    <3> QED
      BY <2>1, <2>2, <2>3, <3>1 DEF ChainInv, WirePrefix, SendIsNext, NothingLost, Intact
  <2>7. OrderInv
    <3>1. ~Carrying /\ StartedOnce
      BY <2>1 DEF Carrying, StartedOnce
    <3>2. SourceOrder /\ PutOrder
      BY <2>2, <2>3 DEF SourceOrder, PutOrder, Ascending, Precedes
    <3>3. CarriedOrder /\ NoneSkipped
      BY <2>2, <3>1 DEF CarriedOrder, NoneSkipped
    <3> QED
      BY <3>1, <3>2, <3>3 DEF OrderInv
  <2> QED
    BY <2>4, <2>5, <2>6, <2>7 DEF PathInv, FlushInv
<1>2. TypeInv /\ LossInv /\ LossInv' /\ PathInv /\ [Next]_vars => PathInv'
  <2> SUFFICES ASSUME TypeInv, LossInv, LossInv', PathInv, [Next]_vars PROVE PathInv'
    OBVIOUS
  <2>1. CASE UNCHANGED vars
    <3>1. Aside
      BY <2>1 DEF vars, sourceVars, wakeVars, connVars, queueVars, threadVars, formatVars, loopVars,
                  flushVars, outVars, Aside, Calm, Kept, Passed, Steady, Carrying
    <3> QED
      BY <3>1, AsideKeeps
  <2>2. CASE Next
    BY <2>2, ProducerPath, FormatPath, WritePath, ParsePath, MainPath, CloseStepPath,
       HandlerPath, FlushPath DEF Next, Closing, Flushing
  <2> QED
    BY <2>1, <2>2
<1> QED
  BY <1>1, <1>2, TypeInvariance, LossInvariance, PTL DEF Spec

\* _add_chunks_to_queue() is only run by the holder of the write lock: the format
\* thread with the lock it takes, flush_then_close() with the one it keeps, although
\* close_and_release() may free a lock that is not its own.
THEOREM PutsUnderLockHolds == Spec => []PutsUnderLock
<1>1. PathInv => PutsUnderLock
  BY DEF PathInv, FlushInv, LockInv, LockHeld, LockKept, Putting, PutsUnderLock, Flushing, HeldLabels
<1> QED
  BY <1>1, PathInvariance, PTL

\* The packet of send_disconnect() is the last one the peer is sent, for any number
\* of packets and whichever thread flushes, closes or steals.
THEOREM LastPacketIsLastHolds == Spec => []LastPacketIsLast
<1>1. TypeInv /\ PathInv => LastPacketIsLast
  <2> SUFFICES ASSUME TypeInv, PathInv, NEW i \in DOMAIN wire, wire[i] = LastPacket
               PROVE  i = Len(wire)
    BY DEF LastPacketIsLast
  <2>1. i \in 1..Len(wire) /\ i \in DOMAIN queued /\ queued[i] = LastPacket
    BY QueueFacts DEF PathInv, ChainInv, WirePrefix
  <2>2. i = Len(queued)
    BY <2>1 DEF PathInv, FlushInv, LastInv
  <2> QED
    BY <2>1, <2>2, QueueFacts DEF PathInv, ChainInv, WirePrefix
<1> QED
  BY <1>1, TypeInvariance, PathInvariance, PTL

\* wait_for_packet_sent() takes the last packet for sent, on a connection that is
\* not closed, only if it was written or if a write failed.
THEOREM SentIsWrittenHolds == Spec => []SentIsWritten
<1>1. TypeInv /\ PathInv => SentIsWritten
  <2> SUFFICES ASSUME TypeInv, PathInv, IsQueued(LastPacket), ~closed, unfinished = 0, ~failed
               PROVE  IsWritten(LastPacket)
    BY DEF SentIsWritten, PacketSent
  <2>1. Len(write_queue) = 0 /\ Busy = 0
    BY QueueFacts DEF TypeInv, TasksCounted, Busy
  <2>2. Hand = 0 /\ Slot = 0
    BY <2>1, QueueFacts DEF Hand, Slot, Busy
  <2>3. pc["write"] # "exit"
    BY DEF PathInv, ChainInv, Intact
  <2>4. Len(queued) = Len(wire)
    <3>1. Len(queued) = Len(wire) + Hand + Slot
      BY <2>3 DEF PathInv, ChainInv, NothingLost
    <3>2. Len(wire) \in Nat
      BY QueueFacts
    <3> QED
      BY <2>2, <3>1, <3>2
  <2> QED
    BY <2>4, QueueFacts DEF PathInv, ChainInv, WirePrefix, IsQueued, IsWritten
<1> QED
  BY <1>1, TypeInvariance, PathInvariance, PTL

\* Of two packets of one queue the older one is written first, and an ordinary
\* packet only after all of its predecessors, however many were sent and wherever
\* the connection is closed.
THEOREM WireOrderHolds == Spec => []WireOrder
<1>1. TypeInv /\ PathInv => WireOrder
  <2> SUFFICES ASSUME TypeInv, PathInv, NEW i \in DOMAIN wire, wire[i].q \in Queues
               PROVE  /\ \A j \in 1..(i - 1) : wire[j].q = wire[i].q => wire[j].n < wire[i].n
                      /\ wire[i].q = "ordinary" => \A n \in 1..(wire[i].n - 1) :
                           \E j \in 1..(i - 1) : wire[j].q = "ordinary" /\ wire[j].n = n
    BY DEF WireOrder
  <2>1. /\ i \in DOMAIN queued /\ wire[i] = queued[i]
        /\ \A j \in 1..(i - 1) : j \in DOMAIN queued /\ wire[j] = queued[j] /\ j < i
    BY QueueFacts DEF PathInv, ChainInv, WirePrefix
  <2>2. \A j \in 1..(i - 1) : wire[j].q = wire[i].q => wire[j].n < wire[i].n
    BY <2>1 DEF PathInv, OrderInv, PutOrder, Ascending, Older
  <2>3. ASSUME wire[i].q = "ordinary", NEW n \in 1..(wire[i].n - 1)
        PROVE  \E j \in 1..(i - 1) : wire[j].q = "ordinary" /\ wire[j].n = n
    <3>1. \E j \in 1..(i - 1) : IsOrdinary(queued[j], n)
      BY <2>1, <2>3 DEF PathInv, OrderInv, PutOrder
    <3> QED
      BY <2>1, <3>1 DEF IsOrdinary
  <2> QED
    BY <2>2, <2>3
<1> QED
  BY <1>1, TypeInvariance, PathInvariance, PTL

-----------------------------------------------------------------------------
(***************************************************************************)
(* The refinement.  A step of the protocol is one of six things to its     *)
(* user, or nothing.                                                       *)
(***************************************************************************)
Unseen == UNCHANGED <<queued, wire, closed, stolen, conn, lost>>
Accepts ==
    /\ \E item \in Outbound : queued' = Append(queued, item)
    /\ UNCHANGED <<wire, closed, stolen, conn, lost>>
Delivers ==
    /\ conn \/ stolen
    /\ Len(wire) < Len(queued) /\ wire' = Append(wire, queued[Len(wire) + 1])
    /\ UNCHANGED <<queued, closed, stolen, conn, lost>>
Yields == ~closed /\ ~stolen /\ conn /\ closed' /\ UNCHANGED <<queued, wire, stolen, conn, lost>>
Steals == ~closed /\ closed' /\ stolen' /\ UNCHANGED <<queued, wire, lost>>
Ends == closed /\ ~conn' /\ UNCHANGED <<queued, wire, closed, stolen, lost>>
Tells ==
    /\ closed /\ ~stolen /\ lost = 0 /\ lost' = 1
    /\ UNCHANGED <<queued, wire, closed, stolen, conn>>

Seen == Unseen \/ Accepts \/ Delivers \/ Yields \/ Steals \/ Ends \/ Tells

\* Each of them is a step of the packet stream, or a step it does not see.
LEMMA SeenMaps ==
    ASSUME TypeInv, TypeInv', LossInv, Seen
    PROVE  [Stream!Next]_Stream!vars
<1>t. /\ closed \in BOOLEAN /\ stolen \in BOOLEAN /\ conn \in BOOLEAN
      /\ closed' \in BOOLEAN /\ stolen' \in BOOLEAN /\ conn' \in BOOLEAN
      /\ lost \in {0, 1} /\ (stolen => closed)
  BY DEF TypeInv, TypeOK, ConnTypeOK, LossInv, OnlyClosed
<1>1. /\ ~closed => StreamPhase = "open"
      /\ closed /\ stolen => StreamPhase = "stolen"
      /\ closed /\ ~stolen /\ conn => StreamPhase = "closing"
      /\ closed /\ ~stolen /\ ~conn => StreamPhase = "closed"
  BY <1>t DEF StreamPhase
<1>2. /\ ~closed' => StreamPhase' = "open"
      /\ closed' /\ stolen' => StreamPhase' = "stolen"
      /\ closed' /\ ~stolen' /\ conn' => StreamPhase' = "closing"
      /\ closed' /\ ~stolen' /\ ~conn' => StreamPhase' = "closed"
  BY <1>t DEF StreamPhase
<1>3. CASE Unseen
  <2>1. UNCHANGED <<queued, wire, StreamPhase, lost>>
    BY <1>3 DEF Unseen, StreamPhase
  <2> QED
    BY <2>1 DEF Stream!vars
<1>4. CASE Accepts
  <2>1. UNCHANGED StreamPhase
    BY <1>4 DEF Accepts, StreamPhase
  <2> QED
    BY <1>4, <2>1 DEF Accepts, Stream!Next, Stream!Accept
<1>5. CASE Delivers
  <2>1. UNCHANGED StreamPhase
    BY <1>5 DEF Delivers, StreamPhase
  <2>2. StreamPhase # "closed"
    BY <1>5, <1>t, <1>1 DEF Delivers
  <2> QED
    BY <1>5, <2>1, <2>2 DEF Delivers, Stream!Next, Stream!Deliver
<1>6. CASE Yields
  <2>1. StreamPhase = "open" /\ StreamPhase' = "closing"
    BY <1>6, <1>t, <1>1, <1>2 DEF Yields
  <2> QED
    BY <1>6, <2>1 DEF Yields, Stream!Next, Stream!GiveUp
<1>7. CASE Steals
  <2>1. StreamPhase = "open" /\ StreamPhase' = "stolen"
    BY <1>7, <1>t, <1>1, <1>2 DEF Steals
  <2> QED
    BY <1>7, <2>1 DEF Steals, Stream!Next, Stream!GiveUp
<1>8. CASE Ends
  <2>1. \/ StreamPhase = "closing" /\ StreamPhase' = "closed"
        \/ UNCHANGED StreamPhase
    BY <1>8, <1>t, <1>1, <1>2 DEF Ends
  <2> QED
    BY <1>8, <2>1 DEF Ends, Stream!Next, Stream!GiveUp, Stream!vars
<1>9. CASE Tells
  <2>1. UNCHANGED StreamPhase
    BY <1>9 DEF Tells, StreamPhase
  <2>2. StreamPhase \in {"closing", "closed"}
    BY <1>9, <1>t, <1>1 DEF Tells
  <2>3. ~(lost > 0) /\ (lost > 0)' = TRUE
    BY <1>9 DEF Tells
  <2> QED
    BY <1>9, <2>1, <2>2, <2>3 DEF Tells, Stream!Next, Stream!Tell
<1> QED
  BY <1>3, <1>4, <1>5, <1>6, <1>7, <1>8, <1>9 DEF Seen

\* A call of close() is seen once.
LEMMA CloseSeen ==
    ASSUME ConnTypeOK, LossInv, PathInv, NEW t, NEW next, NEW callbacks,
           CloseThen(t, next, callbacks),
           UNCHANGED <<queued, wire, stolen, conn, lost>>
    PROVE  Seen
<1>1. CASE closed
  BY <1>1 DEF CloseThen, AlreadyClosed, Seen, Unseen
<1>2. CASE ~closed
  <2>1. ~stolen /\ conn
    BY <1>2 DEF LossInv, OnlyClosed, PathInv, ChainInv, Intact
  <2> QED
    BY <1>2, <2>1 DEF CloseThen, AlreadyClosed, Seen, Yields
<1> QED
  BY <1>1, <1>2

\* What the threads of the connection and their callers do is seen in no other way.
LEMMA StepSeen == ASSUME TypeInv, LossInv, LossInv', PathInv, Next PROVE Seen
<1>t. ConnTypeOK
  BY DEF TypeInv, TypeOK
<1>p. ASSUME NEW item \in Outbound \cup {Ping}, Put(item),
             UNCHANGED <<wire, closed, stolen, conn, lost>>
      PROVE  Seen
  <2>1. CASE item = Ping
    BY <1>p, <2>1 DEF Put, Recorded, Seen, Unseen
  <2>2. CASE item # Ping
    BY <1>p, <2>2 DEF Put, Recorded, Seen, Accepts
  <2> QED
    BY <2>1, <2>2
<1>1. CASE \E p \in Producers : Produce(p) \/ Notify(p) \/ StartFormatThread(p)
  BY <1>1 DEF Produce, Notify, StartFormatThread, connVars, queueVars, outVars, Seen, Unseen
<1>2. CASE FormatNext
  <2>1. CASE FormatPut
    <3>1. packet["format"] \in Outbound \cup {Ping}
      BY <2>1 DEF FormatPut, Holding, FormatTypeOK, TypeInv
    <3> QED
      BY <1>p, <2>1, <3>1 DEF FormatPut, connVars, outVars
  <2>2. CASE ~FormatPut
    BY <1>2, <2>2 DEF FormatNext, FormatWait, FormatGet, FormatClear, FormatError, FormatAcquire,
                      FormatRawWrite, FormatRelease, connVars, queueVars, outVars, Seen, Unseen
  <2> QED
    BY <2>1, <2>2
<1>3. CASE WriteNext
  <2>1. CASE WriteSend
    <3>1. CASE packet["write"] = Ping
      BY <2>1, <3>1 DEF WriteSend, Recorded, connVars, Seen, Unseen
    <3>2. CASE packet["write"] # Ping
      BY <2>1, <3>2 DEF WriteSend, Recorded, connVars, Seen, Delivers, PathInv, ChainInv, SendIsNext
    <3> QED
      BY <3>1, <3>2
  <2>2. ASSUME NEW e, WriteFail(e) PROVE Seen
    <3>1. CASE e = "os"
      BY <2>2, <3>1 DEF WriteFail, Seen, Unseen
    <3>2. CASE e # "os"
      BY <1>t, <2>2, <3>2, CloseSeen DEF WriteFail
    <3> QED
      BY <3>1, <3>2
  <2>3. CASE WriteCapture
    <3>1. CASE exit_queue
      BY <1>t, <2>3, <3>1, CloseSeen DEF WriteCapture, queueVars, outVars
    <3>2. CASE ~exit_queue
      BY <2>3, <3>2 DEF WriteCapture, queueVars, outVars, Seen, Unseen
    <3> QED
      BY <3>1, <3>2
  <2>4. CASE WriteGet
    <3>1. CASE Head(write_queue) = EmptyMarker
      BY <1>t, <2>4, <3>1, CloseSeen DEF WriteGet, outVars
    <3>2. CASE Head(write_queue) # EmptyMarker
      BY <2>4, <3>2 DEF WriteGet, outVars, Seen, Unseen
    <3> QED
      BY <3>1, <3>2
  <2>5. CASE WriteCheck \/ WriteBegin \/ WriteCut
    BY <2>5 DEF WriteCheck, WriteBegin, WriteCut, connVars, queueVars, outVars, Seen, Unseen
  <2> QED
    BY <1>3, <2>1, <2>2, <2>3, <2>4, <2>5 DEF WriteNext, WriteAbort
<1>4. CASE ParseNext
  BY <1>4 DEF ParseNext, ParseBegin, ParseClosed, ParseConnGone, ParseEof, ParseInvalid, connVars,
              queueVars, outVars, Seen, Unseen
<1>5. CASE MainNext
  <2>1. CASE RunClose \/ HangupTimer
    BY <1>t, <2>1, CloseSeen DEF RunClose, HangupTimer, queueVars, outVars
  <2>2. CASE RunLost
    <3>1. lost = 0 /\ lost' = 1 /\ closed /\ ~stolen
      BY <2>2 DEF RunLost, LossInv, OnlyClosed, connVars
    <3> QED
      BY <2>2, <3>1 DEF RunLost, connVars, queueVars, Seen, Tells
  <2>3. CASE RunClean
    <3>1. closed
      BY <2>3 DEF RunClean, LossInv, OnlyClosed
    <3> QED
      BY <2>3, <3>1 DEF RunClean, queueVars, outVars, Seen, Ends
  <2>4. CASE FlushTimer
    <3>1. CASE UNCHANGED closed
      BY <2>4, <3>1 DEF FlushTimer, queueVars, outVars, Seen, Unseen
    <3>2. CASE CloseThen("main", "fl_release", idle)
      BY <1>t, <2>4, <3>2, CloseSeen DEF FlushTimer, queueVars, outVars
    <3> QED
      BY <2>4, <3>1, <3>2 DEF FlushTimer
  <2>5. CASE RunStart \/ RunInvalid \/ CleanupProtocol
    BY <2>5 DEF RunStart, RunInvalid, CleanupProtocol, connVars, queueVars, outVars, Seen, Unseen
  <2> QED
    BY <1>5, <2>1, <2>2, <2>3, <2>4, <2>5 DEF MainNext
<1>6. ASSUME NEW t \in Closing, CloseStep(t) PROVE Seen
  <2>1. CASE CloseConnection(t)
    <3>1. closed
      BY <2>1 DEF CloseConnection, LossInv, OnlyClosed, CloseLabels
    <3> QED
      BY <2>1, <3>1 DEF CloseConnection, queueVars, outVars, Seen, Ends
  <2>2. CASE SwapQueue(t) \/ DrainQueue(t) \/ MarkQueue(t)
    BY <2>2 DEF SwapQueue, DrainQueue, MarkQueue, connVars, outVars, Seen, Unseen
  <2> QED
    BY <1>6, <2>1, <2>2 DEF CloseStep
<1>7. ASSUME NEW t, HandlerClose(t) \/ StealConnection(t) \/ FlushThenClose(t)
      PROVE  Seen
  <2>1. CASE HandlerClose(t)
    BY <1>t, <2>1, CloseSeen DEF HandlerClose, queueVars, outVars
  <2>2. CASE StealConnection(t)
    BY <2>2 DEF StealConnection, queueVars, outVars, Seen, Steals
  <2>3. CASE FlushThenClose(t)
    BY <2>3 DEF FlushThenClose, connVars, queueVars, outVars, Seen, Unseen
  <2> QED
    BY <1>7, <2>1, <2>2, <2>3
<1>8. ASSUME NEW t, FlushStep(t) PROVE Seen
  <2>1. CASE FlushPut(t)
    BY <1>p, <2>1 DEF FlushPut, Outbound, connVars, outVars
  <2>2. CASE FlushLock(t)
    <3>1. CASE UNCHANGED closed
      BY <2>2, <3>1 DEF FlushLock, queueVars, outVars, Seen, Unseen
    <3>2. CASE CloseThen(t, TimedOut, idle)
      BY <1>t, <2>2, <3>2, CloseSeen DEF FlushLock, queueVars, outVars
    <3> QED
      BY <2>2, <3>1, <3>2 DEF FlushLock
  <2>3. CASE FlushWaitQueue(t)
    <3>1. CASE UNCHANGED closed
      BY <2>3, <3>1 DEF FlushWaitQueue, queueVars, outVars, Seen, Unseen
    <3>2. CASE CloseThen(t, "fl_release", idle)
      BY <1>t, <2>3, <3>2, CloseSeen DEF FlushWaitQueue, queueVars, outVars
    <3> QED
      BY <2>3, <3>1, <3>2 DEF FlushWaitQueue
  <2>4. CASE FlushSent(t)
    <3>1. CASE UNCHANGED closed
      BY <2>4, <3>1 DEF FlushSent, queueVars, outVars, Seen, Unseen
    <3>2. CASE CloseThen(t, "fl_release_timer", idle)
      BY <1>t, <2>4, <3>2, CloseSeen DEF FlushSent, queueVars, outVars
    <3> QED
      BY <2>4, <3>1, <3>2 DEF FlushSent
  <2>5. CASE FlushTimedOut(t) \/ FlushRawWrite(t) \/ FlushRelease(t)
    BY <2>5 DEF FlushTimedOut, FlushRawWrite, FlushRelease, connVars, queueVars, outVars, Seen, Unseen
  <2> QED
    BY <1>8, <2>1, <2>2, <2>3, <2>4, <2>5 DEF FlushStep
<1> QED
  BY <1>1, <1>2, <1>3, <1>4, <1>5, <1>6, <1>7, <1>8 DEF Next, Closing

\* The protocol implements the packet stream: what it puts in the write queue is
\* delivered in that order, none twice and none skipped, until close() or
\* steal_connection(), and its user is told of the loss at most once.
THEOREM StreamImplemented == Spec => ImplementsStream
<1>1. Init => Stream!Init
  <2> SUFFICES ASSUME Init PROVE Stream!Init
    OBVIOUS
  <2>1. StreamPhase = "open"
    BY DEF Init, StreamPhase
  <2> QED
    BY <2>1 DEF Init, Stream!Init
<1>2. TypeInv /\ TypeInv' /\ LossInv /\ LossInv' /\ PathInv /\ [Next]_vars
        => [Stream!Next]_Stream!vars
  <2> SUFFICES ASSUME TypeInv, TypeInv', LossInv, LossInv', PathInv, [Next]_vars
               PROVE  Seen
    BY SeenMaps
  <2>1. CASE UNCHANGED vars
    BY <2>1 DEF vars, connVars, queueVars, outVars, Seen, Unseen
  <2>2. CASE Next
    BY <2>2, StepSeen
  <2> QED
    BY <2>1, <2>2
<1> QED
  BY <1>1, <1>2, TypeInvariance, LossInvariance, PathInvariance, PTL
     DEF Spec, ImplementsStream, Stream!Spec
=============================================================================
