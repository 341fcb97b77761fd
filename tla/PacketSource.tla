---------------------------- MODULE PacketSource ----------------------------
(***************************************************************************)
(* The outbound packet queues of one client connection, as kept by         *)
(* xpra/server/source/client_connection.py.                                *)
(*                                                                         *)
(* Non-damage packets go to the list "ordinary_packets", damage packets to *)
(* the deque "packet_queue".  The network layer takes one packet at a time *)
(* with next_packet(), the ordinary ones first.  Every packet is a record: *)
(* the queue that carried it, its rank among the packets of that queue,    *)
(* and the flag with which its sender announced that more will follow.     *)
(***************************************************************************)
EXTENDS Integers, Sequences

CONSTANTS
    MaxSend,     \* bound: packets appended to each of the two queues
    MoreFlags,   \* the values of will_have_more / wait_for_more used by senders
    MaxRejected  \* bound: damage packets the filter rejects in one call

ASSUME MaxSendAssumption == MaxSend \in Nat
ASSUME MaxRejectedAssumption == MaxRejected \in Nat
ASSUME MoreFlagsAssumption == MoreFlags \subseteq BOOLEAN

VARIABLES
    ordinary_packets,   \* queue of packets, higher priority
    packet_queue,       \* queue of damage packets
    source_closed,      \* close_event is set and the protocol is forgotten
    sent                \* history: how many packets each queue was ever given

sourceVars == <<ordinary_packets, packet_queue, source_closed, sent>>

Queues == {"ordinary", "pixels"}

Packet == [q : Queues, n : 1..MaxSend, more : BOOLEAN]

\* The periodic ping is an ordinary packet of which only the presence counts.
Ping == [q |-> "ping", n |-> 0, more |-> FALSE]

\* What next_packet() returns when there is nothing to send, or once closed.
NoPacket == [q |-> "none", n |-> 0, more |-> FALSE]

SourceInit ==
    /\ ordinary_packets = <<>>
    /\ packet_queue = <<>>
    /\ source_closed = FALSE
    /\ sent = [q \in Queues |-> 0]

-----------------------------------------------------------------------------
\* send(), send_more(), send_async(): nothing is queued without a protocol.
Send ==
    /\ ~source_closed
    /\ sent["ordinary"] < MaxSend
    /\ \E more \in MoreFlags :
        ordinary_packets' = Append(ordinary_packets,
            [q |-> "ordinary", n |-> sent["ordinary"] + 1, more |-> more])
    /\ sent' = [sent EXCEPT !["ordinary"] = @ + 1]
    /\ UNCHANGED <<packet_queue, source_closed>>

\* queue_packet(): the deque takes the packet whether or not we are closed.
QueuePacket ==
    /\ sent["pixels"] < MaxSend
    /\ \E more \in MoreFlags :
        packet_queue' = Append(packet_queue,
            [q |-> "pixels", n |-> sent["pixels"] + 1, more |-> more])
    /\ sent' = [sent EXCEPT !["pixels"] = @ + 1]
    /\ UNCHANGED <<ordinary_packets, source_closed>>

\* The timer of the ping subsystem.  Pings still waiting to be taken are
\* coalesced into one, which keeps the queue bounded: they carry no data.
SendPing ==
    /\ ~source_closed
    /\ ordinary_packets' = IF \E i \in DOMAIN ordinary_packets : ordinary_packets[i] = Ping
                           THEN ordinary_packets
                           ELSE Append(ordinary_packets, Ping)
    /\ UNCHANGED <<packet_queue, source_closed, sent>>

\* cleanup(): sets close_event and drops the reference to the protocol.
SourceCleanup ==
    /\ source_closed' = TRUE
    /\ UNCHANGED <<ordinary_packets, packet_queue, sent>>

\* Mutant of NextPacket: pop() instead of pop(0), the newest packet goes first.
NextPacketNewest(k) ==
    IF source_closed \/ ordinary_packets = <<>>
    THEN [packet |-> NoPacket, ordinary |-> ordinary_packets, pixels |-> packet_queue]
    ELSE [packet |-> ordinary_packets[Len(ordinary_packets)],
          ordinary |-> SubSeq(ordinary_packets, 1, Len(ordinary_packets) - 1),
          pixels |-> packet_queue]

\* next_packet(), when filter_queued_damage_packet() rejects the first k damage
\* packets: the packet it returns and the two queues it leaves behind.  The
\* filter only sees a damage packet when no ordinary packet is waiting.
NextPacket(k) ==
    LET left == SubSeq(packet_queue, k + 1, Len(packet_queue))
    IN  IF source_closed
            THEN [packet |-> NoPacket, ordinary |-> ordinary_packets, pixels |-> packet_queue]
        ELSE IF ordinary_packets # <<>>
            THEN [packet |-> Head(ordinary_packets), ordinary |-> Tail(ordinary_packets),
                  pixels |-> packet_queue]
        ELSE IF left # <<>>
            THEN [packet |-> Head(left), ordinary |-> ordinary_packets, pixels |-> Tail(left)]
        ELSE [packet |-> NoPacket, ordinary |-> ordinary_packets, pixels |-> <<>>]

\* How many damage packets the filter may reject in one call.
Rejected == 0..(IF MaxRejected < Len(packet_queue) THEN MaxRejected ELSE Len(packet_queue))

\* The "more" flag that next_packet() returns: the sender's own announcement,
\* or the fact that one of the queues still holds something.
HasMore(next) ==
    \/ next.packet.more
    \/ /\ ~source_closed
       /\ \/ next.ordinary # <<>>
          \/ next.pixels # <<>>

TakePacket(next) ==
    /\ ordinary_packets' = next.ordinary
    /\ packet_queue' = next.pixels
    /\ UNCHANGED <<source_closed, sent>>

-----------------------------------------------------------------------------
SourceTypeOK ==
    /\ ordinary_packets \in Seq(Packet \cup {Ping})
    /\ packet_queue \in Seq(Packet)
    /\ source_closed \in BOOLEAN
    /\ sent \in [Queues -> 0..MaxSend]
=============================================================================
