---------------------------- MODULE DamagePackets ----------------------------
(***************************************************************************)
(* The way of a window's pixels through a client connection:               *)
(* xpra/server/source/window.py (who may publish, who is acknowledged),    *)
(* xpra/server/window/compress.py (capture, encoding, publication and the  *)
(* end of a window source) and next_packet() in                            *)
(* xpra/server/source/client_connection.py, on top of EncodeQueue.         *)
(*                                                                         *)
(* Five threads take part.  The main thread announces, maps, resizes and   *)
(* removes windows, captures damage and offers it to the encode thread.    *)
(* The encode thread encodes and publishes; with "mmap" the pixels are in  *)
(* the ring before the packet exists, so that from then on the chunks must *)
(* reach the client, painted or not.  The format thread takes packets,     *)
(* ordinary ones first, and checks a draw again.  The parse thread         *)
(* receives the acknowledgements.  The connection is closed by the main or *)
(* by the parse thread.                                                    *)
(*                                                                         *)
(* One damage packet is one item of the encode queue: its id stands for    *)
(* the global sequence number.  A window has one source, top level, and is *)
(* announced and removed once.  Left out: subsurfaces and composition,     *)
(* refused windows, the delayed regions and timers that decide when damage *)
(* is captured, decode errors reported by the client.                      *)
(***************************************************************************)
EXTENDS EncodeQueue, FiniteSets

CONSTANTS
    Windows,       \* the windows of the session
    Codings,       \* the encodings in use: "mmap" and one other
    MaxEpoch       \* bound: times the backing of a window may change

ASSUME CodingsAssumption == Codings \subseteq {"mmap", "rgb"}
ASSUME MaxEpochAssumption == MaxEpoch \in Nat

VARIABLES
    job,           \* what each function offered to the encode queue is for
    announced,     \* windows: "no", "yes", "gone"
    source,        \* window sources: "none", "live", "detached", "cleaned",
                   \* "ended", "released", "stranded"
    active,        \* _damage_packet_sources: the windows whose source may publish
    epoch,         \* _backing_epochs
    captured,      \* WindowSource._sequence
    cancelled,     \* WindowSource._damage_cancelled
    active_ops,    \* _damage_packet_active_ops
    owners,        \* _damage_packet_owners
    ack_pending,   \* statistics.damage_ack_pending of the sources
    lease,         \* whether the encode thread holds a publication lease
    closing,       \* _damage_packet_closing
    enc,           \* where the encode thread is in make_data_packet_cb()
    main, target,  \* where the main thread is, and for which window
    image,         \* the damage it has captured
    parse, acked,  \* where the parse thread is, and for which packet
    conn, closer,  \* how far close() is, and the thread that runs it
    to_clean,      \* the sources that close() has still to clean up
    ordinary,      \* ordinary_packets
    packet_queue,  \* draw packets that were published
    format,        \* "idle", or "pixels": it has found no ordinary packet
    canvas,        \* the epoch of the last new or resized canvas on the wire
    unacked,       \* draws on the wire or at the client
    ring           \* chunks in the ring whose packet is not on the wire yet

threads == <<enc, main, target, image, parse, acked, conn, closer, to_clean, format>>
registry == <<announced, source, active, epoch, captured, cancelled, active_ops,
              owners, ack_pending, lease, closing>>
outbound == <<ordinary, packet_queue, canvas, unacked, ring>>
dvars == <<vars, job, threads, registry, outbound>>

Never == MaxWork + 1           \* MAX_SEQUENCE
NoWindow == "none"
NoImage == [kind |-> "none", win |-> NoWindow, coding |-> "none", epoch |-> 0, seq |-> 0]
Damage(w, c, n) == [kind |-> "damage", win |-> w, coding |-> c, epoch |-> epoch[w], seq |-> n]
Barrier(w) == [NoImage EXCEPT !.kind = "ended", !.win = w]

DamageInit ==
    /\ Init
    /\ job = <<>>
    /\ announced = [w \in Windows |-> "no"]
    /\ source = [w \in Windows |-> "none"]
    /\ active = {}
    /\ epoch = [w \in Windows |-> 0]
    /\ captured = [w \in Windows |-> 0]
    /\ cancelled = [w \in Windows |-> 0]
    /\ active_ops = [w \in Windows |-> 0]
    /\ owners = {} /\ ack_pending = {}
    /\ lease = FALSE /\ closing = FALSE
    /\ enc = "idle"
    /\ main = "idle" /\ target = NoWindow /\ image = NoImage
    /\ parse = "idle" /\ acked = 0
    /\ conn = "open" /\ closer = "none" /\ to_clean = {}
    /\ ordinary = <<>> /\ packet_queue = <<>> /\ format = "idle"
    /\ canvas = [w \in Windows |-> 0]
    /\ unacked = {}
    /\ ring = <<>>

-----------------------------------------------------------------------------
(* Shared by the threads. *)

\* Mutant of Of: the packets of a source are not found.
OfNone(w, ids) == {}

\* The packets that belong to a source.
Of(w, ids) == {n \in ids : job[n].win = w}

\* Mutants of Begun and Finished: an operation is not counted, or never ends.
BegunUncounted(w) == active_ops
NeverFinished(w) == active_ops

\* _begin_damage_packet_operation_locked(), _finish_...().
Begun(w) == [active_ops EXCEPT ![w] = @ + 1]
Finished(w) == [active_ops EXCEPT ![w] = @ - 1]

\* Mutant of Idle: a source is taken to be idle while operations are active.
NeverBusy(w) == TRUE

\* The condition that unregister_damage_packets() and cleanup() wait for.
Idle(w) == active_ops[w] = 0

\* queue_encode(): the queue takes the item over, refuses it, or cannot start
\* its thread.  It has accepted the item if "accepted" has grown.
Offer(j) ==
    /\ job' = Append(job, j)
    /\ start_queue_encode \/ StartFails
Taken == accepted' # accepted

\* cleanup() of a window source, once no packet can be routed to it any more:
\* everything is cancelled and encode_ended() is queued.  When that is
\* refused, nothing ever releases the source.
CleanSource(w) ==
    /\ cancelled' = [cancelled EXCEPT ![w] = Never]
    /\ Offer(Barrier(w))
    /\ source' = [source EXCEPT ![w] = IF Taken THEN "cleaned" ELSE "stranded"]

\* The threads that may run close() do nothing else meanwhile.
Busy(thread) == closer = thread /\ conn # "done"

-----------------------------------------------------------------------------
(* The main thread. *)

MainMay(at) == main = at /\ ~Busy("main")

\* new_window(): the canvas is announced under the lock.
new_window(w) ==
    /\ MainMay("idle")
    /\ ~closing /\ announced[w] = "no"
    /\ announced' = [announced EXCEPT ![w] = "yes"]
    /\ ordinary' = Append(ordinary, [type |-> "new", win |-> w, epoch |-> epoch[w]])
    /\ UNCHANGED <<vars, job, threads, source, active, epoch, captured, cancelled,
                   active_ops, owners, ack_pending, lease, closing,
                   packet_queue, canvas, unacked, ring>>

\* map_window(): makes the source, and starts a new epoch.
map_window(w) ==
    /\ MainMay("idle")
    /\ ~closing /\ announced[w] = "yes" /\ epoch[w] < MaxEpoch
    /\ source' = [source EXCEPT ![w] = "live"]
    /\ active' = active \cup {w}
    /\ epoch' = [epoch EXCEPT ![w] = @ + 1]
    /\ UNCHANGED <<vars, job, threads, announced, captured, cancelled, active_ops,
                   owners, ack_pending, lease, closing, outbound>>

\* unmap_window(): a new epoch; everything captured is cancelled and the
\* statistics are reset.
unmap_window(w) ==
    /\ MainMay("idle")
    /\ ~closing /\ announced[w] = "yes" /\ source[w] = "live" /\ epoch[w] < MaxEpoch
    /\ epoch' = [epoch EXCEPT ![w] = @ + 1]
    /\ cancelled' = [cancelled EXCEPT ![w] = captured[w]]
    /\ ack_pending' = ack_pending \ Of(w, ack_pending)
    /\ UNCHANGED <<vars, job, threads, announced, source, active, captured, active_ops,
                   owners, lease, closing, outbound>>

\* client_backing_resized(): the epoch changes before the packet is queued.
resize_window(w) ==
    /\ MainMay("idle")
    /\ ~closing /\ announced[w] = "yes" /\ epoch[w] < MaxEpoch
    /\ epoch' = [epoch EXCEPT ![w] = @ + 1]
    /\ main' = "resized" /\ target' = w
    /\ UNCHANGED <<vars, job, announced, source, active, captured, cancelled, active_ops,
                   owners, ack_pending, lease, closing, outbound,
                   enc, image, parse, acked, conn, closer, to_clean, format>>

ResizeSent ==
    /\ MainMay("resized")
    /\ ordinary' = Append(ordinary,
                          [type |-> "resized", win |-> target, epoch |-> epoch[target]])
    /\ main' = "idle" /\ target' = NoWindow
    /\ UNCHANGED <<vars, job, registry, packet_queue, canvas, unacked, ring,
                   enc, image, parse, acked, conn, closer, to_clean, format>>

\* damage() makes the source if there is none yet; process_damage_region() then
\* goes up to the capture.
Capture(w, c) ==
    /\ MainMay("idle")
    /\ ~closing /\ announced[w] = "yes"
    /\ Len(job) + Cardinality(Windows) < MaxWork
    /\ source' = [source EXCEPT ![w] = "live"]
    /\ active' = active \cup {w}
    /\ captured' = [captured EXCEPT ![w] = @ + 1]
    /\ image' = Damage(w, c, captured[w] + 1)
    /\ main' = "captured" /\ target' = w
    /\ UNCHANGED <<vars, job, announced, epoch, cancelled, active_ops, owners,
                   ack_pending, lease, closing, outbound,
                   enc, parse, acked, conn, closer, to_clean, format>>

\* process_damage_image(): cancelled damage is dropped, and so is what the
\* encode queue refuses.
OfferDamage ==
    /\ MainMay("captured")
    /\ \/ /\ cancelled[target] >= image.seq
          /\ UNCHANGED <<vars, job>>
       \/ Offer(image)
    /\ main' = "idle" /\ target' = NoWindow /\ image' = NoImage
    /\ UNCHANGED <<registry, outbound, enc, parse, acked, conn, closer, to_clean, format>>

\* lost_window(), the first half of do_remove_window().
lost_window(w) ==
    /\ MainMay("idle")
    /\ ~closing /\ announced[w] = "yes"
    /\ announced' = [announced EXCEPT ![w] = "gone"]
    /\ ordinary' = Append(ordinary, [type |-> "destroy", win |-> w, epoch |-> epoch[w]])
    /\ main' = "removing" /\ target' = w
    /\ UNCHANGED <<vars, job, source, active, epoch, captured, cancelled, active_ops,
                   owners, ack_pending, lease, closing,
                   packet_queue, canvas, unacked, ring,
                   enc, image, parse, acked, conn, closer, to_clean, format>>

\* remove_window() and _detach_window_sources(): the source loses its window
\* under the lock, unless the connection is being closed.
remove_window ==
    /\ MainMay("removing")
    /\ IF closing \/ source[target] = "none"
       THEN /\ main' = "idle" /\ target' = NoWindow
            /\ UNCHANGED <<source, epoch>>
       ELSE /\ source' = [source EXCEPT ![target] = "detached"]
            /\ epoch' = [epoch EXCEPT ![target] = @ + 1]
            /\ main' = "detached" /\ UNCHANGED target
    /\ UNCHANGED <<vars, job, announced, active, captured, cancelled, active_ops,
                   owners, ack_pending, lease, closing, outbound,
                   enc, image, parse, acked, conn, closer, to_clean, format>>

\* unregister_damage_packets(): the source may not publish any more ...
unregister_damage_packets ==
    /\ MainMay("detached")
    /\ active' = active \ {target}
    /\ main' = "waiting"
    /\ UNCHANGED <<vars, job, announced, source, epoch, captured, cancelled, active_ops,
                   owners, ack_pending, lease, closing, outbound,
                   enc, target, image, parse, acked, conn, closer, to_clean, format>>

\* ... and once nothing uses it, nothing is routed to it either.
Unregistered ==
    /\ MainMay("waiting")
    /\ Idle(target)
    /\ owners' = owners \ Of(target, owners)
    /\ ack_pending' = ack_pending \ Of(target, ack_pending)
    /\ main' = "cleaning"
    /\ UNCHANGED <<vars, job, announced, source, active, epoch, captured, cancelled,
                   active_ops, lease, closing, outbound,
                   enc, target, image, parse, acked, conn, closer, to_clean, format>>

\* cleanup() of the removed source.
SourceCleaned ==
    /\ MainMay("cleaning")
    /\ CleanSource(target)
    /\ main' = "idle" /\ target' = NoWindow
    /\ UNCHANGED <<announced, active, epoch, captured, active_ops, owners, ack_pending,
                   lease, closing, outbound,
                   enc, image, parse, acked, conn, closer, to_clean, format>>

\* ui_cleanup() of a source: the window, the statistics are given up.
ui_cleanup(w) ==
    /\ MainMay("idle")
    /\ source[w] = "ended"
    /\ source' = [source EXCEPT ![w] = "released"]
    /\ UNCHANGED <<vars, job, threads, announced, active, epoch, captured, cancelled,
                   active_ops, owners, ack_pending, lease, closing, outbound>>

-----------------------------------------------------------------------------
(* The encode thread: make_data_packet_cb(), from TakeItem to CallItem of  *)
(* EncodeQueue.                                                            *)

Working(at) == encode_thread = "calling" /\ enc = at
J == IF current.kind = "work" THEN job[current.id] ELSE NoImage
Here == J.win

\* Steps between TakeItem and CallItem leave the queue alone.
Go(to) == enc' = to /\ UNCHANGED vars
Return == enc' = "idle" /\ CallItem
notEncode == <<main, target, image, parse, acked, conn, closer, to_clean, format>>

\* clean_mmap_area(), registered for the end, and encode_ended().
CallOther ==
    /\ Working("idle")
    /\ J.kind # "damage"
    /\ Return
    /\ source' = IF J.kind = "ended" THEN [source EXCEPT ![Here] = "ended"] ELSE source
    /\ UNCHANGED <<job, announced, active, epoch, captured, cancelled, active_ops, owners,
                   ack_pending, lease, closing, outbound, notEncode>>

\* The test made under the lock by claim_ and publish_damage_packet().
Publishing(w) == ~closing /\ w \in active

\* claim_damage_packet_publication(): mmap pixels are only written for a source
\* that may publish, and pin it.
claim_damage_packet_publication ==
    /\ Working("idle")
    /\ J.kind = "damage" /\ J.coding = "mmap"
    /\ IF Publishing(Here)
       THEN /\ Go("encode")
            /\ lease' = TRUE /\ active_ops' = Begun(Here)
       ELSE Return /\ UNCHANGED <<lease, active_ops>>
    /\ UNCHANGED <<job, announced, source, active, epoch, captured, cancelled, owners,
                   ack_pending, closing, outbound, notEncode>>

\* mmap_encode(), as called by make_data_packet(): nothing is written if the
\* damage was cancelled, the ring is full or the encoder fails.  Once the
\* chunks are written, it may still fail to make the packet.
EncodeMmap ==
    /\ Working("encode")
    /\ \/ Go("release") /\ UNCHANGED ring
       \/ /\ cancelled[Here] < J.seq
          /\ ring' = Append(ring, current.id)
          /\ Go("publish") \/ Go("drain")
    /\ UNCHANGED <<job, registry, ordinary, packet_queue, canvas, unacked, notEncode>>

\* Any other encoder: without a packet, there is nothing left to do.
EncodePixels ==
    /\ Working("idle")
    /\ J.kind = "damage" /\ J.coding # "mmap"
    /\ \/ Return
       \/ cancelled[Here] < J.seq /\ Go("publish")
    /\ UNCHANGED <<job, registry, outbound, notEncode>>

\* validate_damage_packet(): the source is registered, for this window, and
\* the pixels were captured for its present backing.
Current(n) ==
    LET w == job[n].win
    IN  source[w] = "live" /\ w \in active /\ job[n].epoch = epoch[w]

\* publish_damage_packet(), under the lock: who owns the packet.
publish_damage_packet ==
    /\ Working("publish")
    /\ LET mmap == J.coding = "mmap"
           dropped == IF lease THEN Finished(Here) ELSE active_ops
       IN  /\ lease' = FALSE
           /\ \/ /\ closing
                 /\ Return /\ active_ops' = dropped /\ UNCHANGED owners
              \/ /\ ~closing /\ Current(current.id)
                 /\ Go("callback")
                 /\ owners' = owners \cup {current.id}
                 /\ active_ops' = IF mmap THEN active_ops ELSE Begun(Here)
              \/ /\ ~closing /\ ~Current(current.id)
                 /\ IF mmap THEN Go("terminal") ELSE Return
                 /\ UNCHANGED <<active_ops, owners>>
    /\ UNCHANGED <<job, announced, source, active, epoch, captured, cancelled,
                   ack_pending, closing, outbound, notEncode>>

Draw(n) == [id |-> n, drain |-> FALSE]
Drain(n) == [id |-> n, drain |-> TRUE]

\* publish() of queue_damage_packet(): the packet is accounted for and queued.
Published ==
    /\ Working("callback")
    /\ Go("finish")
    /\ ack_pending' = ack_pending \cup {current.id}
    /\ packet_queue' = Append(packet_queue, Draw(current.id))
    /\ UNCHANGED <<job, announced, source, active, epoch, captured, cancelled, active_ops,
                   owners, lease, closing, ordinary, canvas, unacked, ring,
                   notEncode>>

\* publish() raises before the packet is queued: it loses its owner.  With
\* mmap the lease is restored, to drain the chunks with, unless the connection
\* is being closed.
PublishFails ==
    /\ Working("callback")
    /\ owners' = owners \ {current.id}
    /\ IF J.coding = "mmap" /\ ~closing
       THEN lease' = TRUE /\ Go("drain") /\ UNCHANGED active_ops
       ELSE Return /\ active_ops' = Finished(Here) /\ UNCHANGED lease
    /\ UNCHANGED <<job, announced, source, active, epoch, captured, cancelled,
                   ack_pending, closing, outbound, notEncode>>

\* queue_mmap_drain(): the chunks of a packet that could not be made.
queue_mmap_drain ==
    /\ Working("drain")
    /\ lease' = FALSE
    /\ IF closing
       THEN Return /\ active_ops' = Finished(Here)
       ELSE Go("terminal") /\ UNCHANGED active_ops
    /\ UNCHANGED <<job, announced, source, active, epoch, captured, cancelled, owners,
                   ack_pending, closing, outbound, notEncode>>

\* Mutant of Terminal: the chunks of a stale packet are dropped.
NotDrained(n) == packet_queue

\* What a terminal publisher adds to the queue: a draw for no window.
Terminal(n) == Append(packet_queue, Drain(n))

terminal_publisher ==
    /\ Working("terminal")
    /\ Go("finish")
    /\ packet_queue' = Terminal(current.id)
    /\ UNCHANGED <<job, registry, ordinary, canvas, unacked, ring, notEncode>>

\* The end of publish_damage_packet().
PublishFinished ==
    /\ Working("finish")
    /\ Return
    /\ active_ops' = Finished(Here)
    /\ UNCHANGED <<job, announced, source, active, epoch, captured, cancelled, owners,
                   ack_pending, lease, closing, outbound, notEncode>>

\* release_damage_packet_publication() of a lease that was not used.
release_damage_packet_publication ==
    /\ Working("release")
    /\ Return
    /\ lease' = FALSE
    /\ active_ops' = IF lease THEN Finished(Here) ELSE active_ops
    /\ UNCHANGED <<job, announced, source, active, epoch, captured, cancelled, owners,
                   ack_pending, closing, outbound, notEncode>>

EncodeTakes ==
    /\ TakeItem
    /\ UNCHANGED <<job, threads, registry, outbound>>

EncodeStep ==
    \/ EncodeTakes \/ CallOther \/ claim_damage_packet_publication
    \/ EncodeMmap \/ EncodePixels \/ publish_damage_packet \/ Published \/ PublishFails
    \/ queue_mmap_drain \/ terminal_publisher \/ PublishFinished
    \/ release_damage_packet_publication

-----------------------------------------------------------------------------
(* The format thread, in next_packet(). *)

notFormat == <<enc, main, target, image, parse, acked, conn, closer, to_clean>>

\* Ordinary packets go first.
NextOrdinary ==
    /\ format = "idle" /\ conn = "open"
    /\ ordinary # <<>>
    /\ LET p == Head(ordinary)
       IN  canvas' = IF p.type = "destroy" THEN canvas
                     ELSE [canvas EXCEPT ![p.win] = p.epoch]
    /\ ordinary' = Tail(ordinary)
    /\ UNCHANGED <<vars, job, threads, registry, packet_queue, unacked, ring>>

\* There is none: whatever is queued now is overtaken by the pixels.
NoOrdinary ==
    /\ format = "idle" /\ conn = "open"
    /\ ordinary = <<>> /\ packet_queue # <<>>
    /\ format' = "pixels"
    /\ UNCHANGED <<vars, job, registry, outbound, notFormat>>

\* Mutant of Rechecked: a draw is not checked again.
NotRechecked(p) == TRUE

\* filter_queued_damage_packet(): whether a draw still belongs to its backing.
Rechecked(p) == p.id \in owners /\ Current(p.id)

\* Mutant of Unaccounted: the acknowledgement of a dropped draw stays pending.
StillAccounted(n) == ack_pending

\* What is still pending once a draw was dropped.
Unaccounted(n) == ack_pending \ (owners \cap {n})

\* The ring without the chunks of a packet, which the client frees.
Freed(n) ==
    IF \E i \in DOMAIN ring : ring[i] = n
    THEN LET i == CHOOSE i \in DOMAIN ring : ring[i] = n
         IN  SubSeq(ring, 1, i - 1) \o SubSeq(ring, i + 1, Len(ring))
    ELSE ring

\* A draw is put on the wire if it is still valid, retargeted to no window if
\* it is not but has chunks to be freed, and dropped otherwise.
NextPixels ==
    /\ format = "pixels"
    /\ LET p == Head(packet_queue)
           passes == p.drain \/ Rechecked(p)
           mmap == job[p.id].coding = "mmap"
       IN  /\ unacked' = IF passes /\ ~p.drain THEN unacked \cup {p.id} ELSE unacked
           /\ ring' = IF mmap THEN Freed(p.id) ELSE ring
           /\ owners' = IF passes THEN owners ELSE owners \ {p.id}
           /\ ack_pending' = IF passes THEN ack_pending ELSE Unaccounted(p.id)
    /\ packet_queue' = Tail(packet_queue)
    /\ format' = "idle"
    /\ UNCHANGED <<vars, job, announced, source, active, epoch, captured, cancelled,
                   active_ops, lease, closing, ordinary, canvas, notFormat>>

-----------------------------------------------------------------------------
(* The client, which acknowledges each draw once it has painted or failed  *)
(* to, in any order, and the parse thread.                                 *)

notParse == <<enc, main, target, image, conn, closer, to_clean, format>>

\* client_ack_damage(): an acknowledged packet has no owner any more; the source
\* is borrowed until the acknowledgement is done with.
client_ack_damage ==
    /\ parse = "idle" /\ ~Busy("parse")
    /\ \E n \in unacked :
          /\ unacked' = unacked \ {n}
          /\ owners' = owners \ {n}
          /\ IF n \in owners
             THEN /\ parse' = "acking" /\ acked' = n
                  /\ active_ops' = Begun(job[n].win)
             ELSE UNCHANGED <<parse, acked, active_ops>>
    /\ UNCHANGED <<vars, job, announced, source, active, epoch, captured, cancelled,
                   ack_pending, lease, closing, ordinary, packet_queue, canvas,
                   ring, notParse>>

\* damage_packet_acked() of the source, and the end of the operation.
damage_packet_acked ==
    /\ parse = "acking"
    /\ ack_pending' = ack_pending \ {acked}
    /\ active_ops' = Finished(job[acked].win)
    /\ parse' = "idle" /\ acked' = 0
    /\ UNCHANGED <<vars, job, announced, source, active, epoch, captured, cancelled,
                   owners, lease, closing, outbound, notParse>>

-----------------------------------------------------------------------------
(* close() of the connection, by the main or by the parse thread. *)

notConn == <<enc, main, target, image, parse, acked, format>>

\* close(): next_packet() has nothing to send any more.
close ==
    /\ conn = "open"
    /\ \/ main = "idle" /\ closer' = "main"
       \/ parse = "idle" /\ closer' = "parse"
    /\ conn' = "closing"
    /\ UNCHANGED <<vars, job, registry, outbound, notConn, to_clean>>

\* cleanup(), under the lock: all of the sources lose their windows.
cleanup ==
    /\ conn = "closing"
    /\ closing' = TRUE
    /\ to_clean' = {w \in Windows : source[w] = "live"}
    /\ source' = [w \in Windows |-> IF source[w] = "live" THEN "detached" ELSE source[w]]
    /\ active' = {}
    /\ conn' = "waiting"
    /\ UNCHANGED <<vars, job, announced, epoch, captured, cancelled, active_ops, owners,
                   ack_pending, lease, outbound, notConn, closer>>

\* It waits for all of the operations.
CleanupWaited ==
    /\ conn = "waiting"
    /\ \A w \in Windows : Idle(w)
    /\ owners' = {}
    /\ epoch' = [w \in Windows |-> 0]
    /\ conn' = "sources"
    /\ UNCHANGED <<vars, job, announced, source, active, captured, cancelled, active_ops,
                   ack_pending, lease, closing, outbound, notConn, closer, to_clean>>

\* Each source it took is cleaned up.
CleanupSource(w) ==
    /\ conn = "sources"
    /\ w \in to_clean
    /\ ack_pending' = ack_pending \ Of(w, ack_pending)
    /\ CleanSource(w)
    /\ to_clean' = to_clean \ {w}
    /\ UNCHANGED <<announced, active, epoch, captured, active_ops, owners, lease, closing,
                   outbound, notConn, closer, conn>>

\* The shared memory areas are released by the encode thread, at the end.
CleanupAreas ==
    /\ conn = "sources" /\ to_clean = {}
    /\ call_in_encode_thread_at_end
    /\ UNCHANGED <<job, threads, registry, outbound>>

\* The last subsystem stops the encode thread.
CleanupQueue ==
    /\ conn = "sources" /\ to_clean = {} /\ registered = MaxAtEnd
    /\ stop_encode_thread
    /\ conn' = "done"
    /\ UNCHANGED <<job, registry, outbound, notConn, closer, to_clean>>

-----------------------------------------------------------------------------
\* The steps that follow from what a thread has begun.
MainContinues ==
    \/ ResizeSent \/ OfferDamage \/ remove_window \/ unregister_damage_packets
    \/ Unregistered \/ SourceCleaned \/ \E w \in Windows : ui_cleanup(w)
CloseContinues ==
    \/ cleanup \/ CleanupWaited \/ CleanupAreas \/ CleanupQueue
    \/ \E w \in Windows : CleanupSource(w)

DamageNext ==
    \/ \E w \in Windows :
          \/ new_window(w) \/ map_window(w) \/ unmap_window(w) \/ resize_window(w)
          \/ lost_window(w)
          \/ \E c \in Codings : Capture(w, c)
    \/ MainContinues
    \/ EncodeStep
    \/ NextOrdinary \/ NoOrdinary \/ NextPixels
    \/ client_ack_damage \/ damage_packet_acked
    \/ close \/ CloseContinues

DamageSpec == DamageInit /\ [][DamageNext]_dvars

\* Each thread goes on with what it has begun; the encode thread also takes
\* whatever is queued.  Nothing is assumed of the application, of the network
\* or of the client: damage, acknowledgements and close() may never come.
DamageFairSpec ==
    /\ DamageSpec
    /\ WF_dvars(MainContinues)
    /\ WF_dvars(EncodeStep)
    /\ WF_dvars(damage_packet_acked)
    /\ WF_dvars(CloseContinues)

-----------------------------------------------------------------------------
JobType == [kind : {"none", "damage", "ended"}, win : Windows \cup {NoWindow},
            coding : Codings \cup {"none"}, epoch : Nat, seq : Nat]

\* Every variable of the pipeline has its type; what is queued, on the wire or
\* accounted for was offered to the encode thread.
DamageTypeOK ==
    /\ job \in Seq(JobType) /\ Len(job) = offered
    /\ announced \in [Windows -> {"no", "yes", "gone"}]
    /\ source \in [Windows -> {"none", "live", "detached", "cleaned", "ended",
                               "released", "stranded"}]
    /\ active \subseteq Windows /\ to_clean \subseteq Windows
    /\ epoch \in [Windows -> Nat] /\ canvas \in [Windows -> Nat]
    /\ captured \in [Windows -> Nat] /\ cancelled \in [Windows -> Nat]
    /\ active_ops \in [Windows -> Nat]
    /\ owners \subseteq DOMAIN job /\ ack_pending \subseteq DOMAIN job
    /\ unacked \subseteq DOMAIN job
    /\ lease \in BOOLEAN /\ closing \in BOOLEAN
    /\ enc \in {"idle", "encode", "publish", "callback", "terminal", "drain", "finish",
                "release"}
    /\ main \in {"idle", "resized", "captured", "removing", "detached", "waiting",
                 "cleaning"}
    /\ target \in Windows \cup {NoWindow} /\ image \in JobType
    /\ parse \in {"idle", "acking"} /\ acked \in {0} \cup DOMAIN job
    /\ conn \in {"open", "closing", "waiting", "sources", "done"}
    /\ closer \in {"none", "main", "parse"}
    /\ format \in {"idle", "pixels"}
    /\ ordinary \in Seq([type : {"new", "resized", "destroy"}, win : Windows, epoch : Nat])
    /\ packet_queue \in Seq([id : DOMAIN job, drain : BOOLEAN])
    /\ ring \in Seq(DOMAIN job)

\* "Fence packets captured for an older client-side wire canvas": no draw is
\* put on the wire behind the packet that gave its window a newer canvas.
NeverStale ==
    [][\A n \in unacked' \ unacked : job[n].epoch >= canvas[job[n].win]]_dvars

\* The packet in the hands of the encode thread is made, and not queued yet.
Held == Working("publish") \/ Working("callback") \/ Working("terminal") \/ Working("drain")

\* The packets on their way to the format thread, in order.
Coming ==
    [i \in DOMAIN packet_queue |-> packet_queue[i].id]
    \o (IF Held THEN <<current.id>> ELSE <<>>)

Ascending(s) == \A i, j \in DOMAIN s : i < j => s[i] < s[j]

\* "we MUST send an encoded mmap descriptor even if the window is cancelled":
\* while the connection lives, the chunks in the ring are those of the packets
\* on their way to the client, each once and in the order in which they were
\* written, whatever happens to the window, to the packet and to its
\* publication.  (Two ascending sequences of the same numbers are equal.)
ChunksReachTheClient ==
    ~closing =>
        /\ Ascending(ring) /\ Ascending(Coming)
        /\ {ring[i] : i \in DOMAIN ring} =
              {n \in {Coming[i] : i \in DOMAIN Coming} : job[n].coding = "mmap"}

\* Whether a thread is using the source of a window as an active operation.
Borrowed(w) ==
    \/ /\ enc \in {"encode", "publish", "callback", "drain", "terminal", "finish", "release"}
       /\ encode_thread = "calling"
       /\ Here = w
       /\ J.coding = "mmap" \/ enc \in {"callback", "finish"}
    \/ parse = "acking" /\ job[acked].win = w

\* "unregister waits for these operations before source statistics or encoders
\* may be cleaned": once a source is cleaned up, no thread is publishing for it
\* or handling an acknowledgement of it.
NotCleanedInUse ==
    \A w \in Windows :
        source[w] \in {"cleaned", "ended", "released", "stranded"} => ~Borrowed(w)

\* The backlog of a source never counts a packet that nobody will acknowledge:
\* each pending entry is a draw that is queued, on its way to the client and
\* back, or being handled by the parse thread.
BacklogIsReal ==
    closing \/ \A n \in ack_pending :
        \/ \E i \in DOMAIN packet_queue : packet_queue[i] = Draw(n)
        \/ n \in unacked
        \/ parse = "acking" /\ acked = n

\* A packet is only routed to a source that is registered for its window, or
\* is being detached from it.
OwnersAreLive ==
    \A n \in owners : source[job[n].win] \in {"live", "detached"}

\* A source that lost its window is released in the end, whatever is encoded,
\* published or acknowledged meanwhile, unless the encode queue refused its
\* barrier.
SourcesGo ==
    \A w \in Windows : source[w] = "detached" ~> source[w] \in {"released", "stranded"}

\* Once close() was called, it returns and the encode thread ends, although
\* close() waits for the operations of three other threads.
CloseEnds == conn = "closing" ~> encode_thread = "ended"
=============================================================================
