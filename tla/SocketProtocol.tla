--------------------------- MODULE SocketProtocol ---------------------------
(***************************************************************************)
(* The life of one network connection, as run by SocketProtocol in         *)
(* xpra/net/protocol/socket_handler.py.                                    *)
(*                                                                         *)
(* Four threads share the object.  The main loop runs idle callbacks in    *)
(* FIFO order and timers; the format thread takes packets from the source  *)
(* and puts them on a write queue of one slot; the write thread takes them *)
(* off and writes them to the connection; the parse thread reads.  Every   *)
(* one of them can find out that the connection is gone and run close(),   *)
(* a method of several steps that the others see half way through.         *)
(*                                                                         *)
(* One action is what a thread does between two points where another       *)
(* thread can change what it is about to read.  "pc" names those points;   *)
(* "cont" is where a thread resumes once close() returns.  The test and    *)
(* the assignment of _closed at the top of close() and steal_connection()  *)
(* are one step: the interpreter never switches threads between them.      *)
(***************************************************************************)
EXTENDS PacketSource

CONSTANTS
    WriteErrors,   \* how a write may fail: subset of {"closed", "os", "other"}
    ParseEnds,     \* what a read may meet: subset of {"eof", "invalid"}
    Closers,       \* threads whose packet handlers may call close()
    Flushers,      \* threads whose packet handlers may call flush_then_close()
    Stealers,      \* threads whose packet handlers may call steal_connection()
    FlushTicks,    \* retries of wait_for_queue (10 in the code)
    Producers      \* who sends: subset of {"ordinary", "pixels", "ping"}

ASSUME WriteErrorsAssumption == WriteErrors \subseteq {"closed", "os", "other"}
ASSUME ParseEndsAssumption == ParseEnds \subseteq {"eof", "invalid"}
ASSUME HandlersAssumption ==
    /\ Closers \subseteq {"main", "parse"}
    /\ Flushers \subseteq {"main", "parse"}
    /\ Stealers \subseteq {"main", "parse"}
ASSUME FlushTicksAssumption == FlushTicks \in Nat
ASSUME ProducersAssumption == Producers \subseteq Queues \cup {"ping"}

VARIABLES
    notifying,         \* producers between queueing a packet and waking us up
    source_has_more,   \* the method bound to that name: "start", "set", "noop"
    has_more,          \* the event _source_has_more
    format_thread,     \* _write_format_thread is set
    write_thread,      \* _write_thread is set
    closed,            \* _closed
    stolen,            \* closed by steal_connection(), not by close()
    cleaned,           \* clean() has dropped the references, write lock included
    conn,              \* _conn is set and its transport usable
    write_queue,       \* content of the first _write_queue, of one slot
    exit_queue,        \* _write_queue is the exit queue: it only holds None
    unfinished,        \* unfinished_tasks of the first write queue
    write_lock,        \* holder of the write lock: "none", "format", "flush"
    pc,                \* where each thread is
    cont,              \* where it resumes after close()
    packet,            \* the packet the format and write threads work on
    more_flag,         \* the flag that came with the format thread's packet
    idle,              \* idle callbacks of the main loop, in order
    timers,            \* timers that have not fired
    flush_called,      \* flush_then_close is now closing_already
    ticks,             \* retries wait_for_queue has left
    done,              \* how often done_callback was called
    lost,              \* how often CONNECTION_LOST was processed
    queued,            \* history: packets put on the write queue
    wire,              \* history: packets written to the connection
    failed             \* history: some write did not complete

wakeVars   == <<notifying, source_has_more, has_more, format_thread>>
connVars   == <<closed, stolen, cleaned, conn>>
queueVars  == <<write_queue, exit_queue, unfinished, queued>>
threadVars == <<pc, cont>>
formatVars == <<packet, more_flag>>
loopVars   == <<idle, timers>>
flushVars  == <<flush_called, ticks, done>>
outVars    == <<lost, wire, failed>>
vars == <<sourceVars, wakeVars, connVars, queueVars, threadVars, formatVars, loopVars,
          flushVars, write_thread, write_lock, outVars>>

Threads == {"main", "parse", "write", "format"}

QueueSize == 1

\* The packet of send_disconnect(), and the None that ends the write thread.
LastPacket == [q |-> "last", n |-> 0, more |-> FALSE]
EmptyMarker == [q |-> "marker", n |-> 0, more |-> FALSE]

Outbound == Packet \cup {LastPacket}

\* Where a thread goes on once a handler it was running has returned.
Home(t) == IF t = "main" THEN "idle" ELSE "read"

Init ==
    /\ SourceInit
    /\ notifying = [p \in Producers |-> "no"]
    /\ source_has_more = "start"
    /\ has_more = FALSE
    /\ format_thread = FALSE /\ write_thread = FALSE
    /\ closed = FALSE /\ stolen = FALSE /\ cleaned = FALSE /\ conn = TRUE
    /\ write_queue = <<>> /\ exit_queue = FALSE /\ unfinished = 0
    /\ write_lock = "none"
    /\ pc = [t \in Threads |-> CASE t = "main" -> "idle" [] t = "parse" -> "new"
                                 [] OTHER -> "none"]
    /\ cont = [t \in Threads |-> "none"]
    /\ packet = [t \in {"format", "write"} |-> NoPacket]
    /\ more_flag = FALSE
    /\ idle = <<"start">> /\ timers = {}
    /\ flush_called = FALSE /\ ticks = FlushTicks /\ done = 0
    /\ lost = 0 /\ queued = <<>> /\ wire = <<>> /\ failed = FALSE

\* The histories leave out pings, which may be sent for ever.
Recorded(history, item) == IF item = Ping THEN history ELSE Append(history, item)

Goto(t, label) == pc' = [pc EXCEPT ![t] = label]

-----------------------------------------------------------------------------
(***************************************************************************)
(* close(), steal_connection() and terminate_queue_threads().              *)
(***************************************************************************)

\* Mutant of AlreadyClosed: close() runs again when it is called again.
NeverClosed == FALSE

AlreadyClosed == closed

\* Mutant of Announce: the user is not told.
Silent(callbacks) == callbacks

\* The idle callback that reports the loss, after the ones already pending.
Announce(callbacks) == Append(callbacks, "lost")

\* close() called by thread t, which will resume at "next".  The first caller
\* announces the loss of the connection; any later call returns at once.
\* "callbacks" are the idle callbacks pending when the call is made.
CloseThen(t, next, callbacks) ==
    IF AlreadyClosed
    THEN /\ Goto(t, next)
         /\ idle' = callbacks
         /\ UNCHANGED <<closed, cont>>
    ELSE /\ closed' = TRUE
         /\ idle' = Announce(callbacks)
         /\ Goto(t, "close_conn")
         /\ cont' = [cont EXCEPT ![t] = next]

\* The connection is forgotten and closed: reads and writes fail from here on.
CloseConnection(t) ==
    /\ pc[t] = "close_conn"
    /\ conn' = FALSE
    /\ Goto(t, "close_swap")
    /\ UNCHANGED <<sourceVars, wakeVars, closed, stolen, cleaned, queueVars, cont,
                   formatVars, loopVars, flushVars, write_thread, write_lock, outVars>>

\* terminate_queue_threads(), up to the replacement of the write queue.  The
\* packet source it also disconnects is never asked again: _closed is set.
SwapQueue(t) ==
    /\ pc[t] = "close_swap"
    /\ has_more' = TRUE
    /\ exit_queue' = TRUE
    /\ Goto(t, "close_drain")
    /\ UNCHANGED <<sourceVars, notifying, source_has_more, format_thread, connVars,
                   write_queue, unfinished, queued, cont, formatVars, loopVars,
                   flushVars, write_thread, write_lock, outVars>>

\* force_flush_queue(): discards what the old queue holds, an item at a time.
DrainQueue(t) ==
    /\ pc[t] = "close_drain"
    /\ IF write_queue # <<>>
       THEN write_queue' = Tail(write_queue) /\ UNCHANGED pc
       ELSE Goto(t, "close_mark") /\ UNCHANGED write_queue
    /\ UNCHANGED <<sourceVars, wakeVars, connVars, exit_queue, unfinished, queued, cont,
                   formatVars, loopVars, flushVars, write_thread, write_lock, outVars>>

\* Mutant of QueueHasRoom: off by one.
QueueHasRoomForTwo == Len(write_queue) <= QueueSize

QueueHasRoom == Len(write_queue) < QueueSize

\* Mutant of Marked: the queue is emptied but the marker is forgotten.
Unmarked == write_queue

\* The old queue once put_nowait(None) was tried.
Marked == IF QueueHasRoom THEN Append(write_queue, EmptyMarker) ELSE write_queue

\* force_flush_queue(): the empty marker, dropped when the queue is full; then
\* the rest of terminate_queue_threads() and, in close(), the call to clean().
MarkQueue(t) ==
    /\ pc[t] = "close_mark"
    /\ write_queue' = Marked
    /\ unfinished' = unfinished + Len(Marked) - Len(write_queue)
    /\ has_more' = TRUE
    /\ idle' = IF stolen THEN idle ELSE Append(idle, "clean")
    /\ Goto(t, cont[t])
    /\ UNCHANGED <<sourceVars, notifying, source_has_more, format_thread, connVars,
                   exit_queue, queued, cont, formatVars, timers, flushVars,
                   write_thread, write_lock, outVars>>

\* steal_connection(): nobody is told, and clean() is not called.
StealConnection(t) ==
    /\ t \in Stealers
    /\ pc[t] = Home(t)
    /\ ~closed
    /\ closed' = TRUE
    /\ stolen' = TRUE
    /\ conn' = FALSE
    /\ Goto(t, "close_swap")
    /\ cont' = [cont EXCEPT ![t] = Home(t)]
    /\ UNCHANGED <<sourceVars, wakeVars, cleaned, queueVars, formatVars, loopVars,
                   flushVars, write_thread, write_lock, outVars>>

\* A handler run by the main loop or by the parse thread calls close().
HandlerClose(t) ==
    /\ t \in Closers
    /\ pc[t] = Home(t)
    /\ ~closed
    /\ CloseThen(t, Home(t), idle)
    /\ UNCHANGED <<sourceVars, wakeVars, stolen, cleaned, conn, queueVars, formatVars,
                   timers, flushVars, write_thread, write_lock, outVars>>

-----------------------------------------------------------------------------
(***************************************************************************)
(* Producers: a packet is queued, then source_has_more() is called.        *)
(***************************************************************************)

Produce(p) ==
    /\ notifying[p] = "no"
    /\ CASE p = "ordinary" -> Send
         [] p = "pixels" -> QueuePacket
         [] OTHER -> SendPing
    /\ notifying' = [notifying EXCEPT ![p] = "notify"]
    /\ UNCHANGED <<source_has_more, has_more, format_thread, connVars, queueVars,
                   threadVars, formatVars, loopVars, flushVars, write_thread,
                   write_lock, outVars>>

\* Mutant of NotifyIgnored: only the first notification counts.
NotifyIgnoredOnceStarted == source_closed \/ source_has_more # "start" \/ closed

\* Without a protocol nobody is woken up; clean() unbinds source_has_more.
NotifyIgnored ==
    \/ source_closed
    \/ source_has_more = "noop"
    \/ source_has_more = "start" /\ closed

\* _notify_packet_queued(), which calls source_has_more().
\* source_has_more_start(): the first call binds the event's own set().
Notify(p) ==
    /\ notifying[p] = "notify"
    /\ has_more' = (has_more \/ ~NotifyIgnored)
    /\ source_has_more' = IF NotifyIgnored THEN source_has_more ELSE "set"
    /\ notifying' = [notifying EXCEPT ![p] =
                        IF ~NotifyIgnored /\ source_has_more = "start" THEN "spawn" ELSE "no"]
    /\ UNCHANGED <<sourceVars, format_thread, connVars, queueVars, threadVars,
                   formatVars, loopVars, flushVars, write_thread, write_lock, outVars>>

\* source_has_more_start(): the format thread is started under the lock.
StartFormatThread(p) ==
    /\ notifying[p] = "spawn"
    /\ notifying' = [notifying EXCEPT ![p] = "no"]
    /\ IF format_thread \/ closed
       THEN UNCHANGED <<format_thread, pc>>
       ELSE format_thread' = TRUE /\ Goto("format", "check")
    /\ UNCHANGED <<sourceVars, source_has_more, has_more, connVars, queueVars, cont,
                   formatVars, loopVars, flushVars, write_thread, write_lock, outVars>>

-----------------------------------------------------------------------------
(***************************************************************************)
(* The format thread: write_format_thread_loop(), add_packet_to_queue().   *)
(***************************************************************************)

FormatWait ==
    /\ \/ pc["format"] = "check" /\ Goto("format", IF closed THEN "exit" ELSE "wait")
       \/ pc["format"] = "wait" /\ has_more /\ Goto("format", "get")
    /\ UNCHANGED <<sourceVars, wakeVars, connVars, queueVars, cont, formatVars,
                   loopVars, flushVars, write_thread, write_lock, outVars>>

\* The closed test, then one call of the packet source.
FormatGet ==
    /\ pc["format"] = "get"
    /\ IF closed
       THEN Goto("format", "exit") /\ UNCHANGED <<sourceVars, formatVars>>
       ELSE \E k \in Rejected :
            LET next == NextPacket(k)
            IN  /\ TakePacket(next)
                /\ packet' = [packet EXCEPT !["format"] = next.packet]
                /\ more_flag' = HasMore(next)
                /\ Goto("format", "clear")
    /\ UNCHANGED <<wakeVars, connVars, queueVars, cont, loopVars, flushVars,
                   write_thread, write_lock, outVars>>

\* add_packet_to_queue(): the event is cleared after the source was asked.
FormatClear ==
    /\ pc["format"] = "clear"
    /\ has_more' = (has_more /\ more_flag)
    /\ Goto("format", IF packet["format"] = NoPacket THEN "check" ELSE "lock")
    /\ UNCHANGED <<sourceVars, notifying, source_has_more, format_thread, connVars,
                   queueVars, cont, formatVars, loopVars, flushVars, write_thread,
                   write_lock, outVars>>

\* encode() raises: _internal_error() hands the closing over to the main loop.
FormatError ==
    /\ pc["format"] = "lock"
    /\ idle' = IF closed THEN idle ELSE Append(idle, "close")
    /\ Goto("format", "exit")
    /\ UNCHANGED <<sourceVars, wakeVars, connVars, queueVars, cont, formatVars, timers,
                   flushVars, write_thread, write_lock, outVars>>

\* Mutant of LockFree: the write lock is not waited for.
LockIgnored == TRUE

LockFree == write_lock = "none"

\* "with self._write_lock": the attribute is read, then the lock is acquired.
\* Once cleaned up the attribute is None and the thread ends on a TypeError.
FormatAcquire ==
    /\ \/ /\ pc["format"] = "lock"
          /\ Goto("format", IF cleaned THEN "exit" ELSE "acquire")
          /\ UNCHANGED write_lock
       \/ /\ pc["format"] = "acquire"
          /\ LockFree
          /\ write_lock' = "format"
          /\ Goto("format", "locked")
    /\ UNCHANGED <<sourceVars, wakeVars, connVars, queueVars, cont, formatVars,
                   loopVars, flushVars, write_thread, outVars>>

\* raw_write() starts the write thread.  A thread started again after clean()
\* finds the connection closed and ends without a step that others can see.
StartWriteThread(t, next) ==
    /\ write_thread' = TRUE
    /\ pc' = [pc EXCEPT ![t] = next,
                        !["write"] = IF ~write_thread /\ @ = "none" THEN "check" ELSE @]

\* With the lock held: the closed test, then raw_write() up to the reading of
\* _write_queue.  A packet that goes to the exit queue is never looked at.
FormatRawWrite ==
    /\ \/ /\ pc["format"] = "locked"
          /\ Goto("format", IF closed THEN "release" ELSE "rawwrite")
          /\ UNCHANGED write_thread
       \/ /\ pc["format"] = "rawwrite"
          /\ StartWriteThread("format", IF exit_queue THEN "release" ELSE "put")
    /\ UNCHANGED <<sourceVars, wakeVars, connVars, queueVars, cont, formatVars,
                   loopVars, flushVars, write_lock, outVars>>

\* A put() on the first write queue, which blocks while the slot is taken.
Put(item) ==
    /\ QueueHasRoom
    /\ write_queue' = Append(write_queue, item)
    /\ unfinished' = unfinished + 1
    /\ queued' = Recorded(queued, item)
    /\ UNCHANGED exit_queue

FormatPut ==
    /\ pc["format"] = "put"
    /\ Put(packet["format"])
    /\ Goto("format", "release")
    /\ UNCHANGED <<sourceVars, wakeVars, connVars, cont, formatVars, loopVars,
                   flushVars, write_thread, write_lock, outVars>>

FormatRelease ==
    /\ pc["format"] = "release"
    /\ write_lock' = IF write_lock = "format" THEN "none" ELSE write_lock
    /\ Goto("format", "check")
    /\ UNCHANGED <<sourceVars, wakeVars, connVars, queueVars, cont, formatVars,
                   loopVars, flushVars, write_thread, outVars>>

-----------------------------------------------------------------------------
(***************************************************************************)
(* The write thread: _io_thread_loop(), _write(), write_items().           *)
(***************************************************************************)

WriteCheck ==
    /\ pc["write"] = "check"
    /\ Goto("write", IF closed THEN "exit" ELSE "capture")
    /\ UNCHANGED <<sourceVars, wakeVars, connVars, queueVars, cont, formatVars,
                   loopVars, flushVars, write_thread, write_lock, outVars>>

\* _write() reads _write_queue.  The exit queue answers None straight away.
WriteCapture ==
    /\ pc["write"] = "capture"
    /\ IF exit_queue
       THEN CloseThen("write", "exit", idle)
       ELSE Goto("write", "get") /\ UNCHANGED <<closed, idle, cont>>
    /\ UNCHANGED <<sourceVars, wakeVars, stolen, cleaned, conn, queueVars, formatVars,
                   timers, flushVars, write_thread, write_lock, outVars>>

\* get() on the first write queue: a packet, or the marker that means exit.
WriteGet ==
    /\ pc["write"] = "get"
    /\ write_queue # <<>>
    /\ write_queue' = Tail(write_queue)
    /\ IF Head(write_queue) = EmptyMarker
       THEN CloseThen("write", "exit", idle) /\ UNCHANGED packet
       ELSE /\ packet' = [packet EXCEPT !["write"] = Head(write_queue)]
            /\ Goto("write", "write")
            /\ UNCHANGED <<closed, idle, cont>>
    /\ UNCHANGED <<sourceVars, wakeVars, stolen, cleaned, conn, exit_queue, unfinished,
                   queued, more_flag, timers, flushVars, write_thread, write_lock,
                   outVars>>

\* write_items() and write_buffers(): nothing is written once closed.
WriteBegin ==
    /\ pc["write"] = "write"
    /\ \/ ~conn /\ Goto("write", "exit") /\ unfinished' = unfinished - 1
       \/ conn /\ closed /\ Goto("write", "check") /\ unfinished' = unfinished - 1
       \/ conn /\ ~closed /\ Goto("write", "send") /\ UNCHANGED unfinished
    /\ UNCHANGED <<sourceVars, wakeVars, connVars, write_queue, exit_queue, queued,
                   cont, formatVars, loopVars, flushVars, write_thread, write_lock,
                   outVars>>

\* The peer takes the whole packet; task_done() follows.  A write that was under
\* way when the connection was stolen may still go out: the socket is not closed.
WriteSend ==
    /\ pc["write"] = "send"
    /\ conn \/ stolen
    /\ wire' = Recorded(wire, packet["write"])
    /\ unfinished' = unfinished - 1
    /\ Goto("write", "check")
    /\ UNCHANGED <<sourceVars, wakeVars, connVars, write_queue, exit_queue, queued,
                   cont, formatVars, loopVars, flushVars, write_thread, write_lock,
                   lost, failed>>

\* Mutant of AfterOSError: the error is logged and the loop goes on.
CarryOn == "check"

\* An OSError ends the loop of the write thread.
AfterOSError == "exit"

\* The write raises.  task_done() is called all the same, then the handlers of
\* _io_thread_loop() run: an OSError is left to the main loop, anything else
\* closes the connection from this thread.
WriteFail(e) ==
    /\ pc["write"] = "send"
    /\ failed' = TRUE
    /\ unfinished' = unfinished - 1
    /\ IF e = "os"
       THEN /\ Goto("write", AfterOSError)
            /\ idle' = IF closed THEN idle ELSE Append(idle, "close")
            /\ UNCHANGED <<closed, cont>>
       ELSE CloseThen("write", "exit", idle)
    /\ UNCHANGED <<sourceVars, wakeVars, stolen, cleaned, conn, write_queue, exit_queue,
                   queued, formatVars, timers, flushVars, write_thread, write_lock,
                   lost, wire>>

\* A write on a connection that close() or steal_connection() took away ends.
WriteAbort ==
    /\ ~conn
    /\ WriteFail("closed")

\* write_buffers() stops between two parts of a packet once closed.
WriteCut ==
    /\ pc["write"] = "send"
    /\ closed
    /\ failed' = TRUE
    /\ unfinished' = unfinished - 1
    /\ Goto("write", "check")
    /\ UNCHANGED <<sourceVars, wakeVars, connVars, write_queue, exit_queue, queued,
                   cont, formatVars, loopVars, flushVars, write_thread, write_lock,
                   lost, wire>>

-----------------------------------------------------------------------------
(***************************************************************************)
(* The parse thread: _read_parse_thread_loop(), as far as it ends the      *)
(* connection.  Packets that change nothing here are not shown.            *)
(***************************************************************************)

ParseBegin ==
    /\ pc["parse"] = "begin"
    /\ Goto("parse", IF conn THEN "read" ELSE "exit")
    /\ UNCHANGED <<sourceVars, wakeVars, connVars, queueVars, cont, formatVars,
                   loopVars, flushVars, write_thread, write_lock, outVars>>

\* "while not self._closed", and the tests of it in process_payload().
ParseClosed ==
    /\ pc["parse"] = "read"
    /\ closed
    /\ Goto("parse", "exit")
    /\ UNCHANGED <<sourceVars, wakeVars, connVars, queueVars, cont, formatVars,
                   loopVars, flushVars, write_thread, write_lock, outVars>>

\* End of file, seen in a header or in a payload: the peer is gone, or the
\* connection was closed under this thread.
ParseEof ==
    /\ pc["parse"] = "read"
    /\ idle' = Append(idle, "close")
    /\ Goto("parse", "exit")
    /\ UNCHANGED <<sourceVars, wakeVars, connVars, queueVars, cont, formatVars, timers,
                   flushVars, write_thread, write_lock, outVars>>

ParseConnGone == ~conn /\ ParseEof

\* invalid() and gibberish(): the packet is reported, the hang up comes later.
HangUpLater ==
    /\ idle' = Append(idle, "invalid")
    /\ timers' = timers \cup {"hangup"}

\* A header or a payload that makes no sense.  read_exact() interrupted by
\* close() returns a buffer it did not fill, which is rejected here as well.
ParseInvalid ==
    /\ pc["parse"] = "read"
    /\ HangUpLater
    /\ Goto("parse", "exit")
    /\ UNCHANGED <<sourceVars, wakeVars, connVars, queueVars, cont, formatVars,
                   flushVars, write_thread, write_lock, outVars>>

-----------------------------------------------------------------------------
(***************************************************************************)
(* The main loop: idle callbacks run one at a time, oldest first.          *)
(***************************************************************************)

\* start_network_parse_thread()
RunStart ==
    /\ pc["main"] = "idle" /\ idle # <<>> /\ Head(idle) = "start"
    /\ idle' = Tail(idle)
    /\ IF ~closed /\ pc["parse"] = "new" THEN Goto("parse", "begin") ELSE UNCHANGED pc
    /\ UNCHANGED <<sourceVars, wakeVars, connVars, queueVars, cont, formatVars, timers,
                   flushVars, write_thread, write_lock, outVars>>

\* close() and _connection_lost() scheduled by another thread.
RunClose ==
    /\ pc["main"] = "idle" /\ idle # <<>> /\ Head(idle) = "close"
    /\ CloseThen("main", "idle", Tail(idle))
    /\ UNCHANGED <<sourceVars, wakeVars, stolen, cleaned, conn, queueVars, formatVars,
                   timers, flushVars, write_thread, write_lock, outVars>>

\* The packet handler of CONNECTION_LOST, which cleans up the client source.
RunLost ==
    /\ pc["main"] = "idle" /\ idle # <<>> /\ Head(idle) = "lost"
    /\ idle' = Tail(idle)
    /\ lost' = lost + 1
    /\ SourceCleanup
    /\ UNCHANGED <<wakeVars, connVars, queueVars, threadVars, formatVars, timers,
                   flushVars, write_thread, write_lock, wire, failed>>

\* The packet handlers of INVALID and GIBBERISH: what they do to the connection
\* is a close or a flush, which the main loop may call at any time.
RunInvalid ==
    /\ pc["main"] = "idle" /\ idle # <<>> /\ Head(idle) = "invalid"
    /\ idle' = Tail(idle)
    /\ UNCHANGED <<sourceVars, wakeVars, connVars, queueVars, threadVars, formatVars,
                   timers, flushVars, write_thread, write_lock, outVars>>

\* clean()
RunClean ==
    /\ pc["main"] = "idle" /\ idle # <<>> /\ Head(idle) = "clean"
    /\ idle' = Tail(idle)
    /\ cleaned' = TRUE
    /\ source_has_more' = "noop"
    /\ format_thread' = FALSE
    /\ write_thread' = FALSE
    /\ conn' = FALSE
    /\ UNCHANGED <<sourceVars, notifying, has_more, closed, stolen, queueVars,
                   threadVars, formatVars, timers, flushVars, write_lock, outVars>>

\* disconnect_protocol() forgets the client once it has called send_disconnect(),
\* while the connection is still up.
CleanupProtocol ==
    /\ pc["main"] = "idle"
    /\ flush_called
    /\ ~source_closed
    /\ SourceCleanup
    /\ UNCHANGED <<wakeVars, connVars, queueVars, threadVars, formatVars, loopVars,
                   flushVars, write_thread, write_lock, outVars>>

\* _connection_lost() called by the timer of invalid() or gibberish().
HangupTimer ==
    /\ pc["main"] = "idle"
    /\ "hangup" \in timers
    /\ timers' = timers \ {"hangup"}
    /\ CloseThen("main", "idle", idle)
    /\ UNCHANGED <<sourceVars, wakeVars, stolen, cleaned, conn, queueVars, formatVars,
                   flushVars, write_thread, write_lock, outVars>>

-----------------------------------------------------------------------------
(***************************************************************************)
(* do_flush_then_close(), with a last packet to send.                      *)
(***************************************************************************)

\* The first call; any later one finds closing_already and is ignored.
FlushThenClose(t) ==
    /\ t \in Flushers
    /\ pc[t] = Home(t)
    /\ ~flush_called
    /\ flush_called' = TRUE
    /\ IF closed
       THEN done' = done + 1 /\ UNCHANGED pc
       ELSE Goto(t, "fl_lock") /\ UNCHANGED done
    /\ UNCHANGED <<sourceVars, wakeVars, connVars, queueVars, cont, formatVars,
                   loopVars, ticks, write_thread, write_lock, outVars>>

\* Mutant of TimedOut: close_and_release() is called without the lock.
TimedOutReleasing == "fl_release"

\* Without the lock there is nothing to release after close().
TimedOut == "fl_done"

\* wait_for_write_lock(): the lock is acquired, is gone, or the wait times out.
FlushLock(t) ==
    /\ pc[t] = "fl_lock"
    /\ \/ /\ cleaned
          /\ Goto(t, Home(t))
          /\ UNCHANGED <<closed, idle, cont, write_lock>>
       \/ /\ ~cleaned /\ LockFree
          /\ write_lock' = "flush"
          /\ Goto(t, "fl_queue")
          /\ UNCHANGED <<closed, idle, cont>>
       \/ /\ ~cleaned /\ ~LockFree
          /\ CloseThen(t, TimedOut, idle)
          /\ UNCHANGED write_lock
    /\ UNCHANGED <<sourceVars, wakeVars, stolen, cleaned, conn, queueVars, formatVars,
                   timers, flushVars, write_thread, outVars>>

\* done_callback() after the wait for the lock timed out.
FlushTimedOut(t) ==
    /\ pc[t] = "fl_done"
    /\ done' = done + 1
    /\ Goto(t, Home(t))
    /\ UNCHANGED <<sourceVars, wakeVars, connVars, queueVars, cont, formatVars,
                   loopVars, flush_called, ticks, write_thread, write_lock, outVars>>

\* wait_for_queue(): a busy queue is looked at again later, FlushTicks times.
FlushWaitQueue(t) ==
    /\ pc[t] = "fl_queue"
    /\ LET busy == exit_queue \/ write_queue # <<>>
       IN  \/ /\ busy /\ ticks = 0
              /\ CloseThen(t, "fl_release", idle)
              /\ UNCHANGED <<timers, ticks>>
           \/ /\ busy /\ ticks > 0
              /\ timers' = timers \cup {"wait_for_queue"}
              /\ ticks' = ticks - 1
              /\ Goto(t, Home(t))
              /\ UNCHANGED <<closed, idle, cont>>
           \/ /\ ~busy
              /\ Goto(t, "fl_raw")
              /\ UNCHANGED <<closed, idle, cont, timers, ticks>>
    /\ UNCHANGED <<sourceVars, wakeVars, stolen, cleaned, conn, queueVars, formatVars,
                   flush_called, done, write_thread, write_lock, outVars>>

\* raw_write() of the last packet, up to the reading of _write_queue.
FlushRawWrite(t) ==
    /\ pc[t] = "fl_raw"
    /\ StartWriteThread(t, IF exit_queue THEN "fl_sent" ELSE "fl_put")
    /\ UNCHANGED <<sourceVars, wakeVars, connVars, queueVars, cont, formatVars,
                   loopVars, flushVars, write_lock, outVars>>

FlushPut(t) ==
    /\ pc[t] = "fl_put"
    /\ Put(LastPacket)
    /\ Goto(t, "fl_sent")
    /\ UNCHANGED <<sourceVars, wakeVars, connVars, cont, formatVars, loopVars,
                   flushVars, write_thread, write_lock, outVars>>

\* Mutant of PacketSent: an empty queue is taken for a packet that was sent.
PacketDequeued == closed \/ write_queue = <<>>

\* The test made by wait_for_packet_sent().
PacketSent == closed \/ unfinished = 0

\* Mutant of SentTimers: without the timer of 5 seconds.
SentTimersNoLimit == {"wait_for_packet_sent"}

\* What is armed while the last packet is under way.
SentTimers == {"wait_for_packet_sent", "close_and_release"}

\* The first call of wait_for_packet_sent(), then the 5 seconds timer.
FlushSent(t) ==
    /\ pc[t] = "fl_sent"
    /\ IF PacketSent
       THEN CloseThen(t, "fl_release_timer", idle) /\ UNCHANGED timers
       ELSE /\ timers' = timers \cup SentTimers
            /\ Goto(t, Home(t))
            /\ UNCHANGED <<closed, idle, cont>>
    /\ UNCHANGED <<sourceVars, wakeVars, stolen, cleaned, conn, queueVars, formatVars,
                   flushVars, write_thread, write_lock, outVars>>

\* The rest of close_and_release(): writelockrelease(), which frees the lock
\* whoever holds it but only while the attribute is set, and done_callback().
FlushRelease(t) ==
    /\ pc[t] \in {"fl_release", "fl_release_timer"}
    /\ write_lock' = IF cleaned THEN write_lock ELSE "none"
    /\ done' = done + 1
    /\ timers' = IF pc[t] = "fl_release_timer" THEN timers \cup {"close_and_release"} ELSE timers
    /\ Goto(t, Home(t))
    /\ UNCHANGED <<sourceVars, wakeVars, connVars, queueVars, cont, formatVars, idle,
                   flush_called, ticks, write_thread, outVars>>

\* The timers of flush_then_close.  wait_for_packet_sent() is called again
\* until the packet was sent; a call that finds nothing to do changes nothing.
FlushTimer ==
    /\ pc["main"] = "idle"
    /\ \/ /\ "wait_for_queue" \in timers
          /\ timers' = timers \ {"wait_for_queue"}
          /\ Goto("main", "fl_queue")
          /\ UNCHANGED <<closed, idle, cont>>
       \/ /\ "wait_for_packet_sent" \in timers
          /\ PacketSent
          /\ timers' = timers \ {"wait_for_packet_sent"}
          /\ CloseThen("main", "fl_release", idle)
       \/ /\ "close_and_release" \in timers
          /\ timers' = timers \ {"close_and_release"}
          /\ CloseThen("main", "fl_release", idle)
    /\ UNCHANGED <<sourceVars, wakeVars, stolen, cleaned, conn, queueVars, formatVars,
                   flushVars, write_thread, write_lock, outVars>>

-----------------------------------------------------------------------------
FormatNext ==
    \/ FormatWait \/ FormatGet \/ FormatClear \/ FormatError \/ FormatAcquire
    \/ FormatRawWrite \/ FormatPut \/ FormatRelease

WriteNext ==
    \/ WriteCheck \/ WriteCapture \/ WriteGet \/ WriteBegin \/ WriteSend \/ WriteAbort
    \/ WriteCut
    \/ \E e \in WriteErrors : WriteFail(e)

ParseNext ==
    \/ ParseBegin \/ ParseClosed \/ ParseConnGone
    \/ "eof" \in ParseEnds /\ ParseEof
    \/ "invalid" \in ParseEnds /\ ParseInvalid

MainNext ==
    \/ RunStart \/ RunClose \/ RunLost \/ RunInvalid \/ RunClean
    \/ CleanupProtocol \/ HangupTimer \/ FlushTimer

\* The steps of close() and flush_then_close(), in whichever thread runs them.
CloseStep(t) == CloseConnection(t) \/ SwapQueue(t) \/ DrainQueue(t) \/ MarkQueue(t)
FlushStep(t) ==
    \/ FlushLock(t) \/ FlushTimedOut(t) \/ FlushWaitQueue(t) \/ FlushRawWrite(t)
    \/ FlushPut(t) \/ FlushSent(t) \/ FlushRelease(t)

Next ==
    \/ \E p \in Producers : Produce(p) \/ Notify(p) \/ StartFormatThread(p)
    \/ FormatNext \/ WriteNext \/ ParseNext \/ MainNext
    \/ \E t \in {"main", "parse", "write"} : CloseStep(t)
    \/ \E t \in {"main", "parse"} :
        HandlerClose(t) \/ StealConnection(t) \/ FlushThenClose(t) \/ FlushStep(t)

Spec == Init /\ [][Next]_vars

(***************************************************************************)
(* Fairness.  A thread that can run is eventually scheduled, the main loop *)
(* keeps running callbacks and timers.  Nothing is assumed of producers,   *)
(* of packet handlers, of the peer, or of a write the peer does not read,  *)
(* except that a write on a connection that was closed returns.            *)
(***************************************************************************)
Fairness ==
    /\ \A p \in Producers : WF_vars(Notify(p)) /\ WF_vars(StartFormatThread(p))
    /\ WF_vars(FormatNext)
    /\ WF_vars(WriteCheck \/ WriteCapture \/ WriteGet \/ WriteBegin \/ WriteAbort)
    /\ WF_vars(ParseBegin \/ ParseClosed \/ ParseConnGone)
    /\ WF_vars(RunStart \/ RunClose \/ RunLost \/ RunInvalid \/ RunClean)
    /\ WF_vars(HangupTimer) /\ WF_vars(FlushTimer)
    /\ \A t \in {"main", "parse", "write"} : WF_vars(CloseStep(t))
    /\ \A t \in {"main", "parse"} : WF_vars(FlushStep(t))

FairSpec == Spec /\ Fairness

\* In addition the peer reads what is written, and the ping timer keeps firing.
PeerReads == WF_vars(WriteSend) /\ ("ping" \in Producers => WF_vars(Produce("ping")))

FairPeerSpec == FairSpec /\ PeerReads

-----------------------------------------------------------------------------
(***************************************************************************)
(* Properties.                                                             *)
(***************************************************************************)
CloseLabels == {"close_conn", "close_swap", "close_drain", "close_mark"}
FlushLabels == {"fl_lock", "fl_done", "fl_queue", "fl_raw", "fl_put", "fl_sent",
                "fl_release", "fl_release_timer"}
WriteLabels == {"none", "check", "capture", "get", "write", "send", "exit"}
FormatLabels == {"none", "check", "wait", "get", "clear", "lock", "acquire", "locked",
                 "rawwrite", "put", "release", "exit"}
AllLabels == CloseLabels \cup FlushLabels \cup WriteLabels \cup FormatLabels
                \cup {"idle", "new", "begin", "read"}

WakeTypeOK ==
    /\ notifying \in [Producers -> {"no", "notify", "spawn"}]
    /\ source_has_more \in {"start", "set", "noop"}
    /\ has_more \in BOOLEAN /\ format_thread \in BOOLEAN
ConnTypeOK ==
    /\ closed \in BOOLEAN /\ stolen \in BOOLEAN /\ cleaned \in BOOLEAN /\ conn \in BOOLEAN
QueueTypeOK ==
    /\ write_queue \in Seq(Outbound \cup {Ping, EmptyMarker})
    /\ Len(write_queue) <= QueueSize
    /\ exit_queue \in BOOLEAN /\ unfinished \in Nat /\ queued \in Seq(Outbound)
ThreadTypeOK ==
    /\ pc \in [Threads -> AllLabels]
    /\ pc["main"] \in {"idle"} \cup CloseLabels \cup FlushLabels
    /\ pc["parse"] \in {"new", "begin", "read", "exit"} \cup CloseLabels \cup FlushLabels
    /\ pc["write"] \in WriteLabels \cup CloseLabels
    /\ pc["format"] \in FormatLabels
    /\ cont \in [Threads -> {"none", "idle", "read", "exit", "fl_done", "fl_release",
                             "fl_release_timer"}]
FormatTypeOK ==
    /\ packet \in [{"format", "write"} -> Outbound \cup {Ping, NoPacket}]
    /\ more_flag \in BOOLEAN
LoopTypeOK ==
    /\ idle \in Seq({"start", "close", "lost", "invalid", "clean"})
    /\ timers \subseteq {"hangup", "wait_for_queue", "wait_for_packet_sent",
                         "close_and_release"}
FlushTypeOK == flush_called \in BOOLEAN /\ ticks \in 0..FlushTicks /\ done \in Nat
OutTypeOK ==
    /\ write_thread \in BOOLEAN /\ write_lock \in {"none", "format", "flush"}
    /\ lost \in Nat /\ wire \in Seq(Outbound) /\ failed \in BOOLEAN

\* Every variable has its type; the write queue never exceeds its one slot and
\* task_done() is never called more often than put().
TypeOK ==
    /\ SourceTypeOK /\ WakeTypeOK /\ ConnTypeOK /\ QueueTypeOK /\ ThreadTypeOK
    /\ FormatTypeOK /\ LoopTypeOK /\ FlushTypeOK /\ OutTypeOK

\* Packets reach the peer in the order of their queue: of two packets of one
\* queue the older one is written first, and an ordinary packet is only ever
\* written after all of its predecessors (damage packets may be filtered out).
WireOrder ==
    \A i \in DOMAIN wire : wire[i].q \in Queues =>
        /\ \A j \in 1..(i - 1) : wire[j].q = wire[i].q => wire[j].n < wire[i].n
        /\ wire[i].q = "ordinary" => \A n \in 1..(wire[i].n - 1) :
               \E j \in 1..(i - 1) : wire[j].q = "ordinary" /\ wire[j].n = n

\* The packet of send_disconnect() is the last one the peer is sent: the write
\* lock that flush_then_close holds keeps the format thread out until the end.
LastPacketIsLast ==
    \A i \in DOMAIN wire : wire[i] = LastPacket => i = Len(wire)

IsQueued(p) == \E i \in DOMAIN queued : queued[i] = p
IsWritten(p) == \E i \in DOMAIN wire : wire[i] = p

\* wait_for_packet_sent() takes the last packet for sent, on a connection that
\* is not closed, only if it was written, or if a write failed.
SentIsWritten ==
    IsQueued(LastPacket) /\ ~closed /\ PacketSent => IsWritten(LastPacket) \/ failed

\* CONNECTION_LOST is processed at most once, never for a stolen connection,
\* and always before clean() drops what its handler may need.
LostOnce ==
    /\ lost <= 1
    /\ stolen => lost = 0
    /\ cleaned => lost = 1

\* _add_chunks_to_queue() is only run by the holder of the write lock.
PutsUnderLock ==
    /\ pc["format"] \in {"rawwrite", "put"} => write_lock = "format"
    /\ \A t \in {"main", "parse"} :
        pc[t] \in {"fl_queue", "fl_raw", "fl_put"} => write_lock = "flush"

\* The phase that the user of the connection sees it in.
StreamPhase ==
    CASE ~closed -> "open"
      [] closed /\ stolen -> "stolen"
      [] closed /\ ~stolen /\ conn -> "closing"
      [] closed /\ ~stolen /\ ~conn -> "closed"

\* The connection as its user sees it.
Stream == INSTANCE PacketStream WITH
    Item <- Outbound, accepted <- queued, delivered <- wire,
    phase <- StreamPhase, told <- (lost > 0)

\* The protocol implements the packet stream.
ImplementsStream == Stream!Spec

-----------------------------------------------------------------------------
\* Whoever closes the connection, its user is told.
LostDelivered == closed /\ ~stolen ~> lost = 1

\* Once closed the write and parse threads end, so that nothing uses a stolen
\* connection any more: wait_for_io_threads_exit() relies on it.
IoThreadsEnd ==
    closed ~> [](pc["write"] \in {"none", "exit"} /\ pc["parse"] \in {"new", "exit"})

\* A caller of flush_then_close gets its done_callback, whatever happens.
FlushCompletes == flush_called ~> done > 0

\* Whoever else closes the connection meanwhile, the done_callback of
\* flush_then_close is only missed by a main loop that is blocked for ever where
\* it puts the last packet in the queue (see FlushCompletes).
FlushCompletesOrBlocks ==
    flush_called ~> done > 0 \/ [](closed /\ pc["main"] = "fl_put")

\* A packet that was queued and notified does not stay in its queue for ever
\* while the connection and its source are up.
PacketsLeave ==
    ordinary_packets # <<>> \/ packet_queue # <<>>
        ~> (ordinary_packets = <<>> /\ packet_queue = <<>>) \/ closed \/ source_closed
=============================================================================
