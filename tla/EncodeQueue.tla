----------------------------- MODULE EncodeQueue -----------------------------
(***************************************************************************)
(* The encode thread of a client connection and the queue that feeds it,   *)
(* in xpra/server/source/client_connection.py.                             *)
(*                                                                         *)
(* Any thread may queue a function to be called by the encode thread, or   *)
(* register one to be called at the very end.  Closing the connection      *)
(* seals the queue: the registered functions are queued behind all of the  *)
(* work, followed by the marker that ends the thread.  All of this happens *)
(* under encode_thread_lock; only the thread itself runs without it.  The  *)
(* functions own images, encoders and shared memory, so that each one that *)
(* was accepted must be called, whatever the others do.                    *)
(***************************************************************************)
EXTENDS Integers, Sequences

CONSTANTS
    MaxWork,       \* bound: functions offered to the queue
    MaxAtEnd,      \* bound: functions registered for the end
    StartMayFail   \* whether the thread may fail to start

ASSUME MaxWorkAssumption == MaxWork \in Nat
ASSUME MaxAtEndAssumption == MaxAtEnd \in Nat
ASSUME StartMayFailAssumption == StartMayFail \in BOOLEAN

VARIABLES
    encode_work_queue,   \* functions waiting to be called, and the end marker
    encode_at_end,       \* functions registered for the end
    queue_closed,        \* _encode_queue_closed
    encode_thread,       \* "none", "waiting", "calling", "ended"
    current,             \* the function being called
    offered,             \* how many functions were offered to the queue
    registered,          \* how many were offered for the end
    accepted,            \* history: what the queue took over, in order
    called               \* history: what was called, in order

vars == <<encode_work_queue, encode_at_end, queue_closed, encode_thread, current,
          offered, registered, accepted, called>>

Item == [kind : {"work", "end"}, id : Nat]
Marker == [kind |-> "marker", id |-> 0]

Init ==
    /\ encode_work_queue = <<>>
    /\ encode_at_end = <<>>
    /\ queue_closed = FALSE
    /\ encode_thread = "none"
    /\ current = Marker
    /\ offered = 0 /\ registered = 0
    /\ accepted = <<>> /\ called = <<>>

\* Mutant of Started: work is queued for a thread that nobody starts.
NotStarted == encode_thread

\* _start_encode_thread_locked(), when the thread starts.
Started == IF encode_thread = "none" THEN "waiting" ELSE encode_thread

\* Mutant of Admitted: work is put on the queue without looking at the seal.
AdmittedAlways == TRUE

\* The test made under the lock by all producers.
Admitted == ~queue_closed

\* Mutant of Queued: the newest function is called first.
QueuedFirst(item) == <<item>> \o encode_work_queue

\* "encode_work_queue.put(item)"
Queued(item) == Append(encode_work_queue, item)

\* start_queue_encode(): refused work stays with its caller.
start_queue_encode ==
    /\ offered < MaxWork
    /\ offered' = offered + 1
    /\ LET item == [kind |-> "work", id |-> offered + 1]
       IN  IF Admitted
           THEN /\ encode_thread' = Started
                /\ encode_work_queue' = Queued(item)
                /\ accepted' = Append(accepted, item)
           ELSE UNCHANGED <<encode_thread, encode_work_queue, accepted>>
    /\ UNCHANGED <<encode_at_end, queue_closed, current, registered, called>>

\* start_queue_encode() when the thread does not start: nothing was put.
StartFails ==
    /\ StartMayFail
    /\ offered < MaxWork
    /\ Admitted
    /\ encode_thread = "none"
    /\ offered' = offered + 1
    /\ UNCHANGED <<encode_work_queue, encode_at_end, queue_closed, encode_thread,
                   current, registered, accepted, called>>

call_in_encode_thread_at_end ==
    /\ registered < MaxAtEnd
    /\ ~queue_closed
    /\ registered' = registered + 1
    /\ encode_at_end' = Append(encode_at_end, [kind |-> "end", id |-> registered + 1])
    /\ UNCHANGED <<encode_work_queue, queue_closed, encode_thread, current, offered,
                   accepted, called>>

\* Mutant of SealedTail: the marker is forgotten.
TailUnmarked == encode_at_end

\* What stop_encode_thread() adds to the queue.
SealedTail == encode_at_end \o <<Marker>>

\* stop_encode_thread(); a repeated call, or one that fails to start the thread,
\* changes nothing.
stop_encode_thread ==
    /\ ~queue_closed
    /\ encode_thread' = Started
    /\ queue_closed' = TRUE
    /\ encode_at_end' = <<>>
    /\ encode_work_queue' = encode_work_queue \o SealedTail
    /\ accepted' = accepted \o encode_at_end
    /\ UNCHANGED <<current, offered, registered, called>>

-----------------------------------------------------------------------------
\* Mutant of EndsThread: the marker is called like any other function.
NothingEndsThread(item) == FALSE

\* "if item is None: return"
EndsThread(item) == item = Marker

\* encode_loop() takes the next function, or finds the marker and ends.
TakeItem ==
    /\ encode_thread = "waiting"
    /\ encode_work_queue # <<>>
    /\ encode_work_queue' = Tail(encode_work_queue)
    /\ IF EndsThread(Head(encode_work_queue))
       THEN encode_thread' = "ended" /\ UNCHANGED current
       ELSE encode_thread' = "calling" /\ current' = Head(encode_work_queue)
    /\ UNCHANGED <<encode_at_end, queue_closed, offered, registered, accepted, called>>

\* The call itself, which returns or raises: either way the loop goes on.
CallItem ==
    /\ encode_thread = "calling"
    /\ called' = Append(called, current)
    /\ encode_thread' = "waiting"
    /\ UNCHANGED <<encode_work_queue, encode_at_end, queue_closed, current, offered,
                   registered, accepted>>

Next ==
    \/ start_queue_encode \/ StartFails \/ call_in_encode_thread_at_end
    \/ stop_encode_thread \/ TakeItem \/ CallItem

Spec == Init /\ [][Next]_vars

\* The thread is scheduled and the functions it calls return.
FairSpec == Spec /\ WF_vars(TakeItem \/ CallItem)

-----------------------------------------------------------------------------
\* Every variable has its type; what is called is never the end marker.
TypeOK ==
    /\ encode_work_queue \in Seq(Item \cup {Marker})
    /\ encode_at_end \in Seq(Item)
    /\ queue_closed \in BOOLEAN
    /\ encode_thread \in {"none", "waiting", "calling", "ended"}
    /\ current \in Item \cup {Marker}
    /\ offered \in 0..MaxWork /\ registered \in 0..MaxAtEnd
    /\ accepted \in Seq(Item) /\ called \in Seq(Item)

\* Functions are called in the order in which they were accepted, each one
\* once, those registered for the end after everything else.
CallOrder ==
    /\ Len(called) <= Len(accepted)
    /\ \A i \in DOMAIN called : called[i] = accepted[i]
    /\ \A i, j \in DOMAIN called : i < j => ~(called[i].kind = "end" /\ called[j].kind = "work")

\* When the thread has ended, every function it accepted was called, including
\* the ones that were accepted while the connection was being closed.
NothingLeft == encode_thread = "ended" => Len(called) = Len(accepted)

\* Every function that was accepted is called in the end, even if others raise
\* and even if the connection is closed meanwhile: as MaxWork and MaxAtEnd
\* bound the offers, the queue is left with nothing that was not called.
AllCalled == <>[](called = accepted)
=============================================================================
