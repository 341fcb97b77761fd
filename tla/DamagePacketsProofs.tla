------------------------- MODULE DamagePacketsProofs -------------------------
(***************************************************************************)
(* Proofs about DamagePackets, for any windows, encodings and bounds: the  *)
(* pipeline uses the encode queue as EncodeQueue says, a source that was   *)
(* cleaned up is not used and owns no packet, and no draw follows a newer  *)
(* canvas.                                                                 *)
(*                                                                         *)
(* The inductive invariant counts: the operations of a source are exactly  *)
(* those that the encode thread and the parse thread are in, so that the   *)
(* wait of unregister_damage_packets() and of cleanup() is for all of      *)
(* them, and a source that is past that wait has none left and can begin   *)
(* none.                                                                   *)
(***************************************************************************)
EXTENDS DamagePackets, EncodeQueueProofs

Stages == {"idle", "encode", "publish", "callback", "terminal", "drain", "finish", "release"}
Parked == {"cleaned", "ended", "released", "stranded"}

\* The part of the types that the proofs need.
SourceTypes ==
    /\ announced \in [Windows -> {"no", "yes", "gone"}]
    /\ source \in [Windows -> {"none", "live", "detached"} \cup Parked]
    /\ active \subseteq Windows
    /\ epoch \in [Windows -> Nat] /\ captured \in [Windows -> Nat]
    /\ active_ops \in [Windows -> Int]
    /\ lease \in BOOLEAN /\ closing \in BOOLEAN
    /\ enc \in Stages
    /\ conn \in {"open", "closing", "waiting", "sources", "done"}
    /\ main # "idle" => target \in Windows

\* What was offered to the encode queue is damage or a barrier of a window.
Jobs == [kind : {"damage", "ended"}, win : Windows, coding : Codings \cup {"none"},
         epoch : Nat, seq : Nat]
JobTypes ==
    /\ job \in Seq(Jobs) /\ Len(job) = offered
    /\ main = "captured" => image \in Jobs /\ image.kind = "damage"
    /\ owners \subseteq DOMAIN job
    /\ parse = "acking" => acked \in DOMAIN job

\* Work that was accepted was offered.
AcceptedOffered ==
    \A i \in 1..Len(accepted) : accepted[i].kind = "work" => accepted[i].id \in 1..offered

\* The encode thread is on its way with damage, and holds the lease or not.
Encoding ==
    /\ enc # "idle" => /\ encode_thread = "calling"
                       /\ current.kind = "work" /\ J.kind = "damage"
    /\ enc \in {"encode", "drain", "terminal", "release"} => J.coding = "mmap"
    /\ lease <=> \/ enc \in {"encode", "drain", "release"}
                 \/ enc = "publish" /\ J.coding = "mmap"

\* The operations of a source are those of the two threads that borrow it.
EncodeBorrows(w) ==
    enc # "idle" /\ Here = w /\ (J.coding = "mmap" \/ enc \in {"callback", "finish"})
ParseBorrows(w) == parse = "acking" /\ job[acked].win = w
OperationsCounted ==
    \A w \in Windows :
        active_ops[w] = (IF EncodeBorrows(w) THEN 1 ELSE 0)
                        + (IF ParseBorrows(w) THEN 1 ELSE 0)

\* A source that is past the wait of its removal or of the connection's.
PastWait(w) ==
    \/ source[w] \in Parked
    \/ main = "cleaning" /\ target = w
    \/ conn \in {"sources", "done"}

\* Nothing uses the source, and nothing can begin to.
Quiet(w) == w \notin active /\ active_ops[w] = 0 /\ \A n \in owners : job[n].win # w

PastWaitQuiet == \A w \in Windows : PastWait(w) => Quiet(w)

\* Sources are only given up once the window is gone, or the connection.
Closing ==
    /\ closing <=> conn \in {"waiting", "sources", "done"}
    /\ closing => active = {}
Removed ==
    /\ \A w \in Windows : ~closing /\ announced[w] # "gone" => source[w] \in {"none", "live"}
    /\ main \in {"removing", "detached", "waiting", "cleaning"} => announced[target] = "gone"
    /\ main = "removing" /\ ~closing => source[target] \in {"none", "live"}
    /\ main \in {"waiting", "cleaning"} => target \notin active

\* A barrier is only queued for a source that is past the wait.
Barriers == \A n \in DOMAIN job : job[n].kind = "ended" => source[job[n].win] \in Parked

\* Packets are routed to sources that exist.
OwnersExist == \A n \in owners : source[job[n].win] # "none"

\* No canvas is announced with an epoch that its window has not reached.
Announcement == [type : {"new", "resized", "destroy"}, win : Windows, epoch : Nat]
CanvasTypes == ordinary \in Seq(Announcement) /\ canvas \in [Windows -> Nat]
Fenced ==
    ~closing =>
        /\ \A w \in Windows : canvas[w] <= epoch[w]
        /\ \A i \in 1..Len(ordinary) : ordinary[i].epoch <= epoch[ordinary[i].win]

Operations == AcceptedOffered /\ Encoding /\ OperationsCounted
Lifecycle == PastWaitQuiet /\ Closing /\ Removed /\ Barriers /\ OwnersExist
Fence == CanvasTypes /\ Fenced
PInv == SourceTypes /\ JobTypes /\ Operations /\ Lifecycle /\ Fence

DInv == IInv /\ PInv

-----------------------------------------------------------------------------
(* The pipeline uses the encode queue as EncodeQueue describes it. *)

\* A step of the pipeline is a step of the encode queue, or leaves it alone.
LEMMA StepImplements == [DamageNext]_dvars => [Next]_vars
<1> SUFFICES ASSUME [DamageNext]_dvars PROVE [Next]_vars
  OBVIOUS
<1>1. ASSUME NEW j, Offer(j) PROVE [Next]_vars
  BY <1>1 DEF Offer, Next
<1>2. ASSUME NEW to, Go(to) PROVE [Next]_vars
  BY <1>2 DEF Go
<1>3. ASSUME Return PROVE [Next]_vars
  BY <1>3 DEF Return, Next
<1>4. ASSUME NEW w \in Windows,
             new_window(w) \/ map_window(w) \/ unmap_window(w) \/ resize_window(w)
             \/ lost_window(w) \/ \E c \in Codings : Capture(w, c)
      PROVE  UNCHANGED vars
  BY <1>4 DEF new_window, map_window, unmap_window, resize_window, lost_window, Capture
<1>5. CASE MainContinues
  <2>1. CASE OfferDamage
    BY <1>1, <2>1 DEF OfferDamage
  <2>2. CASE SourceCleaned
    BY <1>1, <2>2 DEF SourceCleaned, CleanSource
  <2>3. ASSUME ~OfferDamage, ~SourceCleaned PROVE UNCHANGED vars
    BY <1>5, <2>3 DEF MainContinues, ResizeSent, remove_window, unregister_damage_packets,
                      Unregistered, ui_cleanup
  <2> QED
    BY <2>1, <2>2, <2>3
<1>6. CASE EncodeStep
  <2>1. CASE EncodeTakes
    BY <2>1 DEF EncodeTakes, Next
  <2>2. CASE CallOther \/ claim_damage_packet_publication
    BY <1>2, <1>3, <2>2 DEF CallOther, claim_damage_packet_publication
  <2>3. CASE EncodeMmap \/ EncodePixels
    BY <1>2, <1>3, <2>3 DEF EncodeMmap, EncodePixels
  <2>4. CASE publish_damage_packet
    BY <1>2, <1>3, <2>4 DEF publish_damage_packet
  <2>5. CASE Published \/ PublishFails
    BY <1>2, <1>3, <2>5 DEF Published, PublishFails
  <2>6. CASE queue_mmap_drain \/ terminal_publisher
    BY <1>2, <1>3, <2>6 DEF queue_mmap_drain, terminal_publisher
  <2>7. CASE PublishFinished \/ release_damage_packet_publication
    BY <1>3, <2>7 DEF PublishFinished, release_damage_packet_publication
  <2> QED
    BY <1>6, <2>1, <2>2, <2>3, <2>4, <2>5, <2>6, <2>7 DEF EncodeStep
<1>7. CASE NextOrdinary \/ NoOrdinary \/ NextPixels \/ client_ack_damage
           \/ damage_packet_acked \/ close
  BY <1>7 DEF NextOrdinary, NoOrdinary, NextPixels, client_ack_damage,
              damage_packet_acked, close
<1>8. CASE CloseContinues
  <2>1. CASE cleanup \/ CleanupWaited
    BY <2>1 DEF cleanup, CleanupWaited
  <2>2. CASE CleanupAreas \/ CleanupQueue
    BY <2>2 DEF CleanupAreas, CleanupQueue, Next
  <2>3. ASSUME NEW w \in Windows, CleanupSource(w) PROVE [Next]_vars
    BY <1>1, <2>3 DEF CleanupSource, CleanSource
  <2> QED
    BY <1>8, <2>1, <2>2, <2>3 DEF CloseContinues
<1>9. CASE UNCHANGED dvars
  BY <1>9 DEF dvars
<1> QED
  BY <1>4, <1>5, <1>6, <1>7, <1>8, <1>9 DEF DamageNext

\* The encode queue of the pipeline is the one of EncodeQueue.
THEOREM QueueRefined == DamageSpec => Spec
<1>1. DamageInit => Init
  BY DEF DamageInit
<1> QED
  BY <1>1, StepImplements, PTL DEF DamageSpec, Spec
-----------------------------------------------------------------------------
(* The inductive invariant, thread by thread. *)

\* The encode thread and its operations are as they were.
LEMMA EncodeUntouched ==
    ASSUME PInv, UNCHANGED <<vars, job, enc, lease, parse, acked, active_ops>>
    PROVE  Operations'
BY DEF PInv, Operations, vars, AcceptedOffered, Encoding, OperationsCounted, EncodeBorrows,
       ParseBorrows, J, Here

\* Every packet belongs to a window.
LEMMA PacketsOfWindows ==
    ASSUME PInv
    PROVE  /\ \A n \in DOMAIN job : job[n] \in Jobs /\ job[n].win \in Windows
           /\ \A n \in owners : n \in DOMAIN job
<1>1. \A n \in DOMAIN job : job[n] \in Jobs
  BY DEF PInv, JobTypes
<1> QED
  BY <1>1 DEF PInv, JobTypes, Jobs

\* The epochs of the windows have only grown, and nothing was announced.
LEMMA EpochsGrown ==
    ASSUME PInv, SourceTypes', UNCHANGED <<ordinary, canvas>>,
           closing' \/ (~closing /\ \A w \in Windows : epoch'[w] >= epoch[w])
    PROVE  Fence'
<1>1. CanvasTypes'
  BY DEF PInv, Fence, CanvasTypes
<1>2. ASSUME ~closing', NEW w \in Windows, NEW n \in Nat, n <= epoch[w] PROVE n <= epoch'[w]
  BY <1>2 DEF PInv, SourceTypes
<1>3. ASSUME ~closing', NEW i \in 1..Len(ordinary)
      PROVE  ordinary[i].win \in Windows /\ ordinary[i].epoch \in Nat
  <2>1. ordinary[i] \in Announcement
    BY DEF PInv, Fence, CanvasTypes
  <2> QED
    BY <2>1 DEF Announcement
<1> QED
  BY <1>1, <1>2, <1>3 DEF PInv, Fence, CanvasTypes, Fenced

\* A packet that announces the present epoch of its window keeps the fence.
LEMMA AnnouncedFenced ==
    ASSUME PInv, NEW p \in Announcement, p.epoch = epoch[p.win],
           ordinary' = Append(ordinary, p), UNCHANGED <<canvas, epoch, closing>>
    PROVE  Fence'
<1>1. ordinary' \in Seq(Announcement) /\ CanvasTypes'
  BY DEF PInv, Fence, CanvasTypes
<1>2. /\ Len(ordinary) \in Nat /\ Len(ordinary') = Len(ordinary) + 1
      /\ \A i \in 1..Len(ordinary) : ordinary'[i] = ordinary[i]
      /\ ordinary'[Len(ordinary) + 1] = p
  BY DEF PInv, Fence, CanvasTypes
<1>3. p.epoch <= epoch[p.win]
  BY DEF Announcement
<1>4. ASSUME ~closing, NEW i \in 1..Len(ordinary')
      PROVE  ordinary'[i].epoch <= epoch[ordinary'[i].win]
  <2>1. CASE i \in 1..Len(ordinary)
    BY <1>2, <1>4, <2>1 DEF PInv, Fence, Fenced
  <2>2. CASE i = Len(ordinary) + 1
    BY <1>2, <1>3, <2>2
  <2> QED
    BY <1>2, <2>1, <2>2
<1> QED
  BY <1>1, <1>4 DEF PInv, Fence, Fenced

\* new_window() announces an epoch that the window has reached.
LEMMA NewWindowStep == ASSUME PInv, NEW w \in Windows, new_window(w) PROVE PInv'
<1>1. SourceTypes'
  BY DEF PInv, SourceTypes, Parked, new_window, threads, MainMay
<1>2. JobTypes'
  BY DEF PInv, SourceTypes, JobTypes, new_window, vars, threads
<1>3. Operations'
  BY EncodeUntouched DEF new_window, threads
<1>4. Lifecycle'
  BY <1>1, PacketsOfWindows DEF PInv, SourceTypes, Lifecycle, PastWaitQuiet, PastWait, Quiet,
     Closing, Removed, Barriers, OwnersExist, Parked, new_window, threads, MainMay
<1>5. Fence'
  <2> DEFINE p == [type |-> "new", win |-> w, epoch |-> epoch[w]]
  <2>1. p \in Announcement /\ p.epoch = epoch[p.win]
    BY DEF PInv, SourceTypes, Announcement
  <2> HIDE DEF p
  <2>2. ordinary' = Append(ordinary, p) /\ UNCHANGED <<canvas, epoch, closing>>
    BY DEF new_window, p
  <2> QED
    BY <2>1, <2>2, AnnouncedFenced
<1> QED
  BY <1>1, <1>2, <1>3, <1>4, <1>5 DEF PInv

\* map_window() makes a source of a window that is not gone.
LEMMA MapStep == ASSUME PInv, NEW w \in Windows, map_window(w) PROVE PInv'
<1>1. SourceTypes'
  BY DEF PInv, SourceTypes, Parked, map_window, threads, MainMay
<1>2. JobTypes'
  BY DEF PInv, SourceTypes, JobTypes, map_window, vars, threads
<1>3. Operations'
  BY EncodeUntouched DEF map_window, threads
<1>4. Lifecycle'
  BY <1>1, PacketsOfWindows DEF PInv, SourceTypes, Lifecycle, PastWaitQuiet, PastWait, Quiet,
     Closing, Removed, Barriers, OwnersExist, Parked, map_window, threads, MainMay
<1>5. Fence'
  BY <1>1, EpochsGrown DEF PInv, SourceTypes, map_window, outbound
<1> QED
  BY <1>1, <1>2, <1>3, <1>4, <1>5 DEF PInv

\* unmap_window() cancels, and starts a new epoch.
LEMMA UnmapStep == ASSUME PInv, NEW w \in Windows, unmap_window(w) PROVE PInv'
<1>1. SourceTypes'
  BY DEF PInv, SourceTypes, Parked, unmap_window, threads, MainMay
<1>2. JobTypes'
  BY DEF PInv, SourceTypes, JobTypes, unmap_window, vars, threads
<1>3. Operations'
  BY EncodeUntouched DEF unmap_window, threads
<1>4. Lifecycle'
  BY <1>1, PacketsOfWindows DEF PInv, SourceTypes, Lifecycle, PastWaitQuiet, PastWait, Quiet,
     Closing, Removed, Barriers, OwnersExist, Parked, unmap_window, threads, MainMay
<1>5. Fence'
  BY <1>1, EpochsGrown DEF PInv, SourceTypes, unmap_window, outbound
<1> QED
  BY <1>1, <1>2, <1>3, <1>4, <1>5 DEF PInv

\* client_backing_resized() starts a new epoch, announced later.
LEMMA ResizeStep == ASSUME PInv, NEW w \in Windows, resize_window(w) PROVE PInv'
<1>1. SourceTypes'
  BY DEF PInv, SourceTypes, Parked, resize_window, MainMay
<1>2. JobTypes'
  BY DEF PInv, SourceTypes, JobTypes, resize_window, vars
<1>3. Operations'
  BY EncodeUntouched DEF resize_window
<1>4. Lifecycle'
  BY <1>1, PacketsOfWindows DEF PInv, SourceTypes, Lifecycle, PastWaitQuiet, PastWait, Quiet,
     Closing, Removed, Barriers, OwnersExist, Parked, resize_window, MainMay
<1>5. Fence'
  BY <1>1, EpochsGrown DEF PInv, SourceTypes, resize_window, outbound
<1> QED
  BY <1>1, <1>2, <1>3, <1>4, <1>5 DEF PInv

\* The resize is announced.
LEMMA ResizeSentStep == ASSUME PInv, ResizeSent PROVE PInv'
<1>1. SourceTypes'
  BY DEF PInv, SourceTypes, Parked, ResizeSent, registry, MainMay
<1>2. JobTypes'
  BY DEF PInv, SourceTypes, JobTypes, ResizeSent, vars, registry
<1>3. Operations'
  BY EncodeUntouched DEF ResizeSent, registry
<1>4. Lifecycle'
  BY <1>1, PacketsOfWindows DEF PInv, SourceTypes, Lifecycle, PastWaitQuiet, PastWait, Quiet,
     Closing, Removed, Barriers, OwnersExist, Parked, ResizeSent, registry, MainMay
<1>5. Fence'
  <2> DEFINE p == [type |-> "resized", win |-> target, epoch |-> epoch[target]]
  <2>1. p \in Announcement /\ p.epoch = epoch[p.win]
    BY DEF PInv, SourceTypes, Announcement, ResizeSent, MainMay
  <2> HIDE DEF p
  <2>2. ordinary' = Append(ordinary, p) /\ UNCHANGED <<canvas, epoch, closing>>
    BY DEF ResizeSent, p, registry
  <2> QED
    BY <2>1, <2>2, AnnouncedFenced
<1> QED
  BY <1>1, <1>2, <1>3, <1>4, <1>5 DEF PInv

\* lost_window() announces that the window is gone.
LEMMA LostStep == ASSUME PInv, NEW w \in Windows, lost_window(w) PROVE PInv'
<1>1. SourceTypes'
  BY DEF PInv, SourceTypes, Parked, lost_window, MainMay
<1>2. JobTypes'
  BY DEF PInv, SourceTypes, JobTypes, lost_window, vars
<1>3. Operations'
  BY EncodeUntouched DEF lost_window
<1>4. Lifecycle'
  BY <1>1, PacketsOfWindows DEF PInv, SourceTypes, Lifecycle, PastWaitQuiet, PastWait, Quiet,
     Closing, Removed, Barriers, OwnersExist, Parked, lost_window, MainMay
<1>5. Fence'
  <2> DEFINE p == [type |-> "destroy", win |-> w, epoch |-> epoch[w]]
  <2>1. p \in Announcement /\ p.epoch = epoch[p.win]
    BY DEF PInv, SourceTypes, Announcement
  <2> HIDE DEF p
  <2>2. ordinary' = Append(ordinary, p) /\ UNCHANGED <<canvas, epoch, closing>>
    BY DEF lost_window, p
  <2> QED
    BY <2>1, <2>2, AnnouncedFenced
<1> QED
  BY <1>1, <1>2, <1>3, <1>4, <1>5 DEF PInv

\* damage() makes a source of a window that is not gone.
LEMMA CaptureStep ==
    ASSUME PInv, NEW w \in Windows, NEW c \in Codings, Capture(w, c) PROVE PInv'
<1>1. SourceTypes'
  BY DEF PInv, SourceTypes, Parked, Capture, MainMay
<1>2. JobTypes'
  <2>1. image' \in Jobs /\ image'.kind = "damage"
    BY DEF PInv, SourceTypes, Capture, Damage, Jobs
  <2> QED
    BY <2>1 DEF PInv, JobTypes, vars, Capture
<1>3. Operations'
  BY EncodeUntouched DEF Capture
<1>4. Lifecycle'
  <2>1. /\ ~closing /\ announced[w] = "yes" /\ main = "idle"
        /\ source' = [source EXCEPT ![w] = "live"] /\ active' = active \cup {w}
        /\ main' = "captured" /\ target' = w
        /\ UNCHANGED <<job, announced, active_ops, owners, closing, conn>>
    BY DEF Capture, MainMay
  <2> QED
    BY <1>1, <2>1, PacketsOfWindows DEF PInv, SourceTypes, Lifecycle, PastWaitQuiet,
       PastWait, Quiet, Closing, Removed, Barriers, OwnersExist, Parked
<1>5. Fence'
  BY <1>1, EpochsGrown DEF PInv, SourceTypes, Capture, outbound
<1> QED
  BY <1>1, <1>2, <1>3, <1>4, <1>5 DEF PInv

\* _detach_window_sources(): the source is not given up yet.
LEMMA RemoveStep == ASSUME PInv, remove_window PROVE PInv'
<1>1. SourceTypes'
  BY DEF PInv, SourceTypes, Parked, remove_window, MainMay
<1>2. JobTypes'
  BY DEF PInv, SourceTypes, JobTypes, remove_window, vars
<1>3. Operations'
  BY EncodeUntouched DEF remove_window
<1>4. Lifecycle'
  BY <1>1, PacketsOfWindows DEF PInv, SourceTypes, Lifecycle, PastWaitQuiet, PastWait, Quiet,
     Closing, Removed, Barriers, OwnersExist, Parked, remove_window, MainMay
<1>5. Fence'
  BY <1>1, EpochsGrown DEF PInv, SourceTypes, remove_window, outbound
<1> QED
  BY <1>1, <1>2, <1>3, <1>4, <1>5 DEF PInv

\* unregister_damage_packets() takes the source from those that may publish.
LEMMA UnregisterStep == ASSUME PInv, unregister_damage_packets PROVE PInv'
<1>1. SourceTypes'
  BY DEF PInv, SourceTypes, Parked, unregister_damage_packets, MainMay
<1>2. JobTypes'
  BY DEF PInv, SourceTypes, JobTypes, unregister_damage_packets, vars
<1>3. Operations'
  BY EncodeUntouched DEF unregister_damage_packets
<1>4. Lifecycle'
  BY <1>1, PacketsOfWindows DEF PInv, SourceTypes, Lifecycle, PastWaitQuiet, PastWait, Quiet,
     Closing, Removed, Barriers, OwnersExist, Parked, unregister_damage_packets, MainMay
<1>5. Fence'
  BY <1>1, EpochsGrown DEF PInv, SourceTypes, unregister_damage_packets, outbound
<1> QED
  BY <1>1, <1>2, <1>3, <1>4, <1>5 DEF PInv

\* Its wait: no operation is left, and no owner is.
LEMMA UnregisteredStep == ASSUME PInv, Unregistered PROVE PInv'
<1>1. SourceTypes'
  BY DEF PInv, SourceTypes, Parked, Unregistered, MainMay
<1>2. JobTypes'
  BY DEF PInv, SourceTypes, JobTypes, Unregistered, vars, Of
<1>3. Operations'
  BY EncodeUntouched DEF Unregistered
<1>4. Lifecycle'
  BY <1>1, PacketsOfWindows DEF PInv, SourceTypes, Lifecycle, PastWaitQuiet, PastWait, Quiet,
     Closing, Removed, Barriers, OwnersExist, Parked, Unregistered, MainMay, Of, Idle
<1>5. Fence'
  BY <1>1, EpochsGrown DEF PInv, SourceTypes, Unregistered, outbound
<1> QED
  BY <1>1, <1>2, <1>3, <1>4, <1>5 DEF PInv

\* ui_cleanup() of a source that is past the wait.
LEMMA ReleaseStep == ASSUME PInv, NEW w \in Windows, ui_cleanup(w) PROVE PInv'
<1>1. SourceTypes'
  BY DEF PInv, SourceTypes, Parked, ui_cleanup, threads, MainMay
<1>2. JobTypes'
  BY DEF PInv, SourceTypes, JobTypes, ui_cleanup, vars, threads
<1>3. Operations'
  BY EncodeUntouched DEF ui_cleanup, threads
<1>4. Lifecycle'
  BY <1>1, PacketsOfWindows DEF PInv, SourceTypes, Lifecycle, PastWaitQuiet, PastWait, Quiet,
     Closing, Removed, Barriers, OwnersExist, Parked, ui_cleanup, threads, MainMay
<1>5. Fence'
  BY <1>1, EpochsGrown DEF PInv, SourceTypes, ui_cleanup, outbound
<1> QED
  BY <1>1, <1>2, <1>3, <1>4, <1>5 DEF PInv

\* The work in the hands of the encode thread was offered.
LEMMA CurrentOffered ==
    ASSUME DInv, encode_thread = "calling", current.kind = "work"
    PROVE  current.id \in DOMAIN job
<1>1. Len(called) + 1 \in 1..Len(accepted) /\ current = accepted[Len(called) + 1]
  BY DEF DInv, IInv, TypeOK, Conserved, Counted, InHand, HandInOrder
<1>2. current.id \in 1..offered
  BY <1>1 DEF DInv, PInv, Operations, AcceptedOffered
<1> QED
  BY <1>2 DEF DInv, PInv, JobTypes

\* queue_encode() adds a packet or a barrier, and disturbs nothing else.
LEMMA OfferAdds ==
    ASSUME DInv, NEW j \in Jobs, Offer(j), UNCHANGED <<enc, lease, parse, acked, active_ops>>
    PROVE  /\ job' \in Seq(Jobs) /\ Len(job') = offered'
           /\ \A n \in DOMAIN job : n \in DOMAIN job' /\ job'[n] = job[n]
           /\ \A n \in DOMAIN job' : n \in DOMAIN job \/ job'[n] = j
           /\ Operations'
<1>1. job \in Seq(Jobs) /\ Len(job) = offered /\ offered \in Nat /\ job' = Append(job, j)
  BY DEF DInv, IInv, TypeOK, PInv, JobTypes, Offer
<1>2. offered' = offered + 1 /\ UNCHANGED current
  BY DEF Offer, start_queue_encode, StartFails
<1>3. encode_thread = "calling" => encode_thread' = "calling"
  BY DEF Offer, start_queue_encode, StartFails, Started
<1>4. \/ UNCHANGED accepted
      \/ accepted' = Append(accepted, [kind |-> "work", id |-> offered + 1])
  BY DEF Offer, start_queue_encode, StartFails
<1>5. /\ job' \in Seq(Jobs) /\ Len(job') = offered'
      /\ DOMAIN job = 1..Len(job) /\ DOMAIN job' = 1..(Len(job) + 1)
      /\ \A n \in DOMAIN job : job'[n] = job[n]
      /\ job'[Len(job) + 1] = j
  BY <1>1, <1>2
<1>6. AcceptedOffered'
  <2>1. \A i \in 1..Len(accepted) : accepted[i].kind = "work" => accepted[i].id \in 1..offered'
    BY <1>1, <1>2 DEF DInv, PInv, Operations, AcceptedOffered
  <2>2. CASE UNCHANGED accepted
    BY <2>1, <2>2 DEF AcceptedOffered
  <2>3. CASE accepted' = Append(accepted, [kind |-> "work", id |-> offered + 1])
    <3>1. /\ Len(accepted) \in Nat /\ Len(accepted') = Len(accepted) + 1
          /\ \A i \in 1..Len(accepted) : accepted'[i] = accepted[i]
          /\ accepted'[Len(accepted) + 1].id = offered + 1
      BY <2>3 DEF DInv, IInv, TypeOK
    <3> QED
      BY <1>1, <1>2, <2>1, <3>1 DEF AcceptedOffered
  <2> QED
    BY <1>4, <2>2, <2>3
<1>7. enc # "idle" => J' = J
  BY <1>2, <1>5, CurrentOffered DEF DInv, PInv, Operations, Encoding, J
<1>8. Encoding'
  BY <1>2, <1>3, <1>7 DEF DInv, PInv, Operations, Encoding
<1>9. OperationsCounted'
  <2>1. \A w \in Windows : EncodeBorrows(w)' <=> EncodeBorrows(w)
    BY <1>7 DEF EncodeBorrows, Here
  <2>2. \A w \in Windows : ParseBorrows(w)' <=> ParseBorrows(w)
    BY <1>5 DEF ParseBorrows, DInv, PInv, JobTypes
  <2> QED
    BY <2>1, <2>2 DEF DInv, PInv, Operations, OperationsCounted
<1> QED
  BY <1>5, <1>6, <1>8, <1>9 DEF Operations

\* process_damage_image() offers what was captured, or drops it.
LEMMA OfferDamageStep == ASSUME DInv, OfferDamage PROVE PInv'
<1>1. SourceTypes'
  BY DEF DInv, PInv, SourceTypes, OfferDamage, registry
<1>2. CASE UNCHANGED <<vars, job>>
  <2>1. JobTypes'
    BY <1>2 DEF DInv, PInv, JobTypes, OfferDamage, vars, registry
  <2>2. Operations'
    BY <1>2, EncodeUntouched DEF DInv, OfferDamage, registry
  <2>3. Lifecycle'
    BY <1>2 DEF DInv, PInv, Lifecycle, PastWaitQuiet, PastWait, Quiet, Closing, Removed,
       Barriers, OwnersExist, OfferDamage, registry
  <2> QED
    BY <1>1, <2>1, <2>2, <2>3, EpochsGrown DEF DInv, PInv, SourceTypes, OfferDamage,
       registry, outbound
<1>3. CASE Offer(image)
  <2>1. image \in Jobs /\ image.kind = "damage" /\ UNCHANGED <<enc, lease, parse, acked, active_ops>>
    BY DEF DInv, PInv, JobTypes, OfferDamage, MainMay, registry
  <2>2. /\ job' \in Seq(Jobs) /\ Len(job') = offered'
        /\ \A n \in DOMAIN job : n \in DOMAIN job' /\ job'[n] = job[n]
        /\ \A n \in DOMAIN job' : n \in DOMAIN job \/ job'[n] = image
        /\ Operations'
    BY <1>3, <2>1, OfferAdds
  <2>3. JobTypes'
    BY <2>2 DEF DInv, PInv, JobTypes, OfferDamage, registry
  <2>4. Lifecycle'
    BY <2>1, <2>2 DEF DInv, PInv, JobTypes, Lifecycle, PastWaitQuiet, PastWait, Quiet,
       Closing, Removed, Barriers, OwnersExist, OfferDamage, registry
  <2> QED
    BY <1>1, <2>2, <2>3, <2>4, EpochsGrown DEF DInv, PInv, SourceTypes, OfferDamage,
       registry, outbound
<1> QED
  BY <1>2, <1>3 DEF OfferDamage

\* cleanup() of a source parks it and offers its barrier.
LEMMA SourceParked ==
    ASSUME DInv, NEW w \in Windows, CleanSource(w),
           main' # "captured" \/ UNCHANGED <<main, image>>,
           UNCHANGED <<enc, lease, parse, acked, active_ops, owners>>
    PROVE  /\ source'[w] \in Parked
           /\ \A v \in Windows : v # w => source'[v] = source[v]
           /\ source' \in [Windows -> {"none", "live", "detached"} \cup Parked]
           /\ JobTypes' /\ Operations' /\ Barriers'
           /\ \A n \in DOMAIN job : n \in DOMAIN job' /\ job'[n] = job[n]
<1>1. Barrier(w) \in Jobs /\ Barrier(w).kind = "ended" /\ Barrier(w).win = w
  BY DEF Barrier, NoImage, Jobs
<1>2. /\ job' \in Seq(Jobs) /\ Len(job') = offered'
      /\ \A n \in DOMAIN job : n \in DOMAIN job' /\ job'[n] = job[n]
      /\ \A n \in DOMAIN job' : n \in DOMAIN job \/ job'[n] = Barrier(w)
      /\ Operations'
  BY <1>1, OfferAdds DEF CleanSource
<1>3. /\ source'[w] \in Parked
      /\ \A v \in Windows : v # w => source'[v] = source[v]
      /\ source' \in [Windows -> {"none", "live", "detached"} \cup Parked]
  BY DEF CleanSource, DInv, PInv, SourceTypes, Parked
<1>4. JobTypes'
  BY <1>2 DEF DInv, PInv, JobTypes
<1>5. Barriers'
  <2> SUFFICES ASSUME NEW n \in DOMAIN job', job'[n].kind = "ended"
               PROVE  source'[job'[n].win] \in Parked
    BY DEF Barriers
  <2>1. CASE n \in DOMAIN job
    BY <1>2, <1>3, <2>1, PacketsOfWindows DEF DInv, PInv, Lifecycle, Barriers
  <2>2. CASE job'[n] = Barrier(w)
    BY <1>1, <1>3, <2>2
  <2> QED
    BY <1>2, <2>1, <2>2
<1> QED
  BY <1>2, <1>3, <1>4, <1>5

\* cleanup() of a removed source, which is past its wait.
LEMMA SourceCleanedStep == ASSUME DInv, SourceCleaned PROVE PInv'
<1>1. /\ target \in Windows /\ CleanSource(target) /\ main = "cleaning" /\ main' = "idle"
      /\ UNCHANGED <<announced, active, epoch, captured, active_ops, owners, lease, closing,
                     ordinary, canvas, enc, image, parse, acked, conn>>
  BY DEF DInv, PInv, SourceTypes, SourceCleaned, MainMay, outbound
<1>2. /\ source'[target] \in Parked
      /\ \A v \in Windows : v # target => source'[v] = source[v]
      /\ source' \in [Windows -> {"none", "live", "detached"} \cup Parked]
      /\ JobTypes' /\ Operations' /\ Barriers'
      /\ \A n \in DOMAIN job : n \in DOMAIN job' /\ job'[n] = job[n]
  BY <1>1, SourceParked
<1>3. SourceTypes'
  BY <1>1, <1>2 DEF DInv, PInv, SourceTypes
<1>4. Lifecycle'
  BY <1>1, <1>2, PacketsOfWindows DEF DInv, PInv, SourceTypes, Lifecycle, PastWaitQuiet,
     PastWait, Quiet, Closing, Removed, OwnersExist, Parked
<1>5. Fence'
  BY <1>1, <1>3, EpochsGrown DEF DInv, PInv, SourceTypes
<1> QED
  BY <1>2, <1>3, <1>4, <1>5 DEF PInv

\* cleanup() of the connection cleans up each source, past the wait for all.
LEMMA CleanupSourceStep ==
    ASSUME DInv, NEW w \in Windows, CleanupSource(w) PROVE PInv'
<1>1. /\ CleanSource(w) /\ conn = "sources"
      /\ UNCHANGED <<announced, active, epoch, captured, active_ops, owners, lease, closing,
                     ordinary, canvas, enc, main, target, image, parse, acked, conn>>
  BY DEF CleanupSource, outbound, notConn
<1>2. /\ source'[w] \in Parked
      /\ \A v \in Windows : v # w => source'[v] = source[v]
      /\ source' \in [Windows -> {"none", "live", "detached"} \cup Parked]
      /\ JobTypes' /\ Operations' /\ Barriers'
      /\ \A n \in DOMAIN job : n \in DOMAIN job' /\ job'[n] = job[n]
  BY <1>1, SourceParked
<1>3. SourceTypes'
  BY <1>1, <1>2 DEF DInv, PInv, SourceTypes
<1>4. closing /\ \A v \in Windows : Quiet(v)
  BY <1>1 DEF DInv, PInv, Lifecycle, PastWaitQuiet, PastWait, Closing
<1>5. Lifecycle'
  BY <1>1, <1>2, <1>4, PacketsOfWindows DEF DInv, PInv, SourceTypes, Lifecycle,
     PastWaitQuiet, PastWait, Quiet, Closing, Removed, OwnersExist, Parked
<1>6. Fence'
  BY <1>1, <1>3, <1>4, EpochsGrown DEF DInv, PInv
<1> QED
  BY <1>2, <1>3, <1>5, <1>6 DEF PInv

\* close() stops the format thread, and changes nothing of the sources.
LEMMA CloseStep == ASSUME PInv, close PROVE PInv'
<1>1. SourceTypes'
  BY DEF PInv, SourceTypes, close, registry, notConn
<1>2. JobTypes'
  BY DEF PInv, SourceTypes, JobTypes, close, vars, registry, notConn
<1>3. Operations'
  BY EncodeUntouched DEF close, registry, notConn
<1>4. Lifecycle'
  BY <1>1, PacketsOfWindows DEF PInv, SourceTypes, Lifecycle, PastWaitQuiet, PastWait, Quiet,
     Closing, Removed, Barriers, OwnersExist, Parked, close, registry, notConn
<1>5. Fence'
  BY <1>1, EpochsGrown DEF PInv, SourceTypes, Lifecycle, Closing, close, outbound, registry
<1> QED
  BY <1>1, <1>2, <1>3, <1>4, <1>5 DEF PInv

\* cleanup() of the connection takes the sources from their windows.
LEMMA CleanupStep == ASSUME PInv, cleanup PROVE PInv'
<1>1. SourceTypes'
  BY DEF PInv, SourceTypes, cleanup, notConn
<1>2. JobTypes'
  BY DEF PInv, SourceTypes, JobTypes, cleanup, vars, notConn
<1>3. Operations'
  BY EncodeUntouched DEF cleanup, notConn
<1>4. Lifecycle'
  BY <1>1, PacketsOfWindows DEF PInv, SourceTypes, Lifecycle, PastWaitQuiet, PastWait, Quiet,
     Closing, Removed, Barriers, OwnersExist, Parked, cleanup, notConn
<1>5. Fence'
  BY <1>1, EpochsGrown DEF PInv, SourceTypes, Lifecycle, Closing, cleanup, outbound
<1> QED
  BY <1>1, <1>2, <1>3, <1>4, <1>5 DEF PInv

\* Its wait: no operation is left, and no owner is.
LEMMA CleanupWaitedStep == ASSUME PInv, CleanupWaited PROVE PInv'
<1>1. SourceTypes'
  BY DEF PInv, SourceTypes, CleanupWaited, notConn, Idle
<1>2. JobTypes'
  BY DEF PInv, SourceTypes, JobTypes, CleanupWaited, vars, notConn, Idle
<1>3. Operations'
  BY EncodeUntouched DEF CleanupWaited, notConn, Idle
<1>4. Lifecycle'
  BY <1>1, PacketsOfWindows DEF PInv, SourceTypes, Lifecycle, PastWaitQuiet, PastWait, Quiet,
     Closing, Removed, Barriers, OwnersExist, Parked, CleanupWaited, notConn, Idle
<1>5. Fence'
  BY <1>1, EpochsGrown DEF PInv, SourceTypes, Lifecycle, Closing, CleanupWaited, outbound,
     Idle
<1> QED
  BY <1>1, <1>2, <1>3, <1>4, <1>5 DEF PInv

\* The format thread finds no ordinary packet.
LEMMA NoOrdinaryStep == ASSUME PInv, NoOrdinary PROVE PInv'
<1>1. SourceTypes'
  BY DEF PInv, SourceTypes, NoOrdinary, registry, notFormat
<1>2. JobTypes'
  BY DEF PInv, SourceTypes, JobTypes, NoOrdinary, vars, registry, notFormat
<1>3. Operations'
  BY EncodeUntouched DEF NoOrdinary, registry, notFormat
<1>4. Lifecycle'
  BY <1>1, PacketsOfWindows DEF PInv, SourceTypes, Lifecycle, PastWaitQuiet, PastWait, Quiet,
     Closing, Removed, Barriers, OwnersExist, Parked, NoOrdinary, registry, notFormat
<1>5. Fence'
  BY <1>1, EpochsGrown DEF PInv, SourceTypes, Lifecycle, Closing, NoOrdinary, outbound,
     registry, notFormat
<1> QED
  BY <1>1, <1>2, <1>3, <1>4, <1>5 DEF PInv

\* The format thread sends, retargets or drops a draw.
LEMMA NextPixelsStep == ASSUME PInv, NextPixels PROVE PInv'
<1>1. SourceTypes'
  BY DEF PInv, SourceTypes, NextPixels, notFormat
<1>2. JobTypes'
  BY DEF PInv, SourceTypes, JobTypes, NextPixels, vars, notFormat
<1>3. Operations'
  BY EncodeUntouched DEF NextPixels, notFormat
<1>4. Lifecycle'
  BY <1>1, PacketsOfWindows DEF PInv, SourceTypes, Lifecycle, PastWaitQuiet, PastWait, Quiet,
     Closing, Removed, Barriers, OwnersExist, Parked, NextPixels, notFormat
<1>5. Fence'
  BY <1>1, EpochsGrown DEF PInv, SourceTypes, Lifecycle, Closing, NextPixels, notFormat
<1> QED
  BY <1>1, <1>2, <1>3, <1>4, <1>5 DEF PInv

\* What the format thread sends of the ordinary packets, it has found in the fence.
LEMMA NextOrdinaryStep == ASSUME PInv, NextOrdinary PROVE PInv'
<1>1. SourceTypes'
  BY DEF PInv, SourceTypes, NextOrdinary, threads, registry
<1>2. JobTypes'
  BY DEF PInv, JobTypes, NextOrdinary, vars, threads, registry
<1>3. Operations'
  BY EncodeUntouched DEF NextOrdinary, threads, registry
<1>4. Lifecycle'
  BY DEF PInv, Lifecycle, PastWaitQuiet, PastWait, Quiet, Closing, Removed, Barriers,
     OwnersExist, NextOrdinary, threads, registry
<1>5. Fence'
  <2>1. /\ ordinary # <<>> /\ ordinary \in Seq(Announcement) /\ Len(ordinary) \in Nat
        /\ Head(ordinary) \in Announcement /\ Head(ordinary) = ordinary[1] /\ 1 \in 1..Len(ordinary)
    BY DEF PInv, Fence, CanvasTypes, NextOrdinary
  <2>2. /\ ordinary' \in Seq(Announcement) /\ Len(ordinary') = Len(ordinary) - 1
        /\ \A i \in 1..Len(ordinary') : i + 1 \in 1..Len(ordinary) /\ ordinary'[i] = ordinary[i + 1]
    BY <2>1 DEF NextOrdinary
  <2>3. /\ canvas' \in {canvas, [canvas EXCEPT ![Head(ordinary).win] = Head(ordinary).epoch]}
        /\ UNCHANGED <<epoch, closing>>
    BY DEF NextOrdinary, registry
  <2>4. Head(ordinary).win \in Windows /\ Head(ordinary).epoch \in Nat
    BY <2>1 DEF Announcement
  <2>5. CanvasTypes'
    BY <2>2, <2>3, <2>4 DEF PInv, Fence, CanvasTypes
  <2>6. ASSUME ~closing PROVE \A w \in Windows : canvas'[w] <= epoch[w]
    BY <2>1, <2>3, <2>4, <2>6 DEF PInv, Fence, CanvasTypes, Fenced
  <2>7. ASSUME ~closing, NEW i \in 1..Len(ordinary')
        PROVE  ordinary'[i].epoch <= epoch[ordinary'[i].win]
    BY <2>2, <2>7 DEF PInv, Fence, Fenced
  <2> QED
    BY <2>3, <2>5, <2>6, <2>7 DEF Fence, Fenced
<1> QED
  BY <1>1, <1>2, <1>3, <1>4, <1>5 DEF PInv

\* client_ack_damage() borrows the source of an owned packet, which nobody
\* has given up.
LEMMA AckStep == ASSUME PInv, client_ack_damage PROVE PInv'
<1>1. PICK n \in unacked :
         /\ parse = "idle" /\ owners' = owners \ {n}
         /\ IF n \in owners
            THEN /\ parse' = "acking" /\ acked' = n
                 /\ active_ops' = Begun(job[n].win)
            ELSE UNCHANGED <<parse, acked, active_ops>>
  BY DEF client_ack_damage
<1>2. /\ UNCHANGED <<vars, job, announced, source, active, epoch, captured, lease, closing,
                     ordinary, canvas, enc, main, target, image, conn>>
  BY DEF client_ack_damage, notParse
<1>3. n \in owners => n \in DOMAIN job /\ job[n].win \in Windows
  BY PacketsOfWindows
<1>4. SourceTypes'
  BY <1>1, <1>2, <1>3 DEF PInv, SourceTypes, Begun
<1>5. JobTypes'
  BY <1>1, <1>2, <1>3 DEF PInv, JobTypes, vars
<1>6. Operations'
  <2>1. CASE n \in owners
    <3>1. AcceptedOffered' /\ Encoding'
      BY <1>2 DEF PInv, Operations, AcceptedOffered, Encoding, vars, J
    <3>2. \A w \in Windows : EncodeBorrows(w)' <=> EncodeBorrows(w)
      BY <1>2 DEF EncodeBorrows, vars, J, Here
    <3>3. \A w \in Windows : ~ParseBorrows(w) /\ (ParseBorrows(w)' <=> w = job[n].win)
      BY <1>1, <1>2, <2>1 DEF ParseBorrows
    <3>4. \A w \in Windows : active_ops'[w] = active_ops[w] + IF w = job[n].win THEN 1 ELSE 0
      BY <1>1, <1>3, <2>1 DEF PInv, SourceTypes, Begun
    <3>5. OperationsCounted'
      BY <3>2, <3>3, <3>4 DEF PInv, Operations, OperationsCounted
    <3> QED
      BY <3>1, <3>5 DEF Operations
  <2>2. CASE n \notin owners
    BY <1>1, <1>2, <2>2, EncodeUntouched
  <2> QED
    BY <2>1, <2>2
<1>7. Lifecycle'
  BY <1>1, <1>2, <1>3, <1>4 DEF PInv, SourceTypes, Begun, Lifecycle, PastWaitQuiet, PastWait,
     Quiet, Closing, Removed, Barriers, OwnersExist
<1>8. Fence'
  BY <1>2, <1>4, EpochsGrown DEF PInv, SourceTypes
<1> QED
  BY <1>4, <1>5, <1>6, <1>7, <1>8 DEF PInv

\* The end of the acknowledgement gives the source back.
LEMMA AckedStep == ASSUME PInv, damage_packet_acked PROVE PInv'
<1>1. /\ parse = "acking" /\ parse' = "idle" /\ active_ops' = Finished(job[acked].win)
      /\ UNCHANGED <<vars, job, announced, source, active, epoch, captured, owners, lease, closing,
                     ordinary, canvas, enc, main, target, image, conn>>
  BY DEF damage_packet_acked, notParse, outbound
<1>2. job[acked].win \in Windows
  BY <1>1, PacketsOfWindows DEF PInv, JobTypes
<1>3. SourceTypes'
  BY <1>1, <1>2 DEF PInv, SourceTypes, Finished
<1>4. JobTypes'
  BY <1>1 DEF PInv, JobTypes, vars
<1>5. Operations'
  <2>1. AcceptedOffered' /\ Encoding'
    BY <1>1 DEF PInv, Operations, AcceptedOffered, Encoding, vars, J
  <2>2. \A w \in Windows : EncodeBorrows(w)' <=> EncodeBorrows(w)
    BY <1>1 DEF EncodeBorrows, vars, J, Here
  <2>3. \A w \in Windows : ~ParseBorrows(w)' /\ (ParseBorrows(w) <=> w = job[acked].win)
    BY <1>1 DEF ParseBorrows
  <2>4. \A w \in Windows : active_ops'[w] = active_ops[w] - IF w = job[acked].win THEN 1 ELSE 0
    BY <1>1, <1>2 DEF PInv, SourceTypes, Finished
  <2>5. OperationsCounted'
    BY <2>2, <2>3, <2>4 DEF PInv, Operations, OperationsCounted
  <2> QED
    BY <2>1, <2>5 DEF Operations
<1>6. Lifecycle'
  <2>1. active_ops[job[acked].win] # 0
    BY <1>1, <1>2 DEF PInv, Operations, OperationsCounted, ParseBorrows
  <2> QED
    BY <1>1, <1>2, <1>3, <2>1 DEF PInv, SourceTypes, Finished, Lifecycle, PastWaitQuiet,
       PastWait, Quiet, Closing, Removed, Barriers, OwnersExist
<1>7. Fence'
  BY <1>1, <1>3, EpochsGrown DEF PInv, SourceTypes
<1> QED
  BY <1>3, <1>4, <1>5, <1>6, <1>7 DEF PInv

\* clean_mmap_area() is registered for the end, and the queue is sealed.
LEMMA CleanupQueueStep == ASSUME DInv, CleanupAreas \/ CleanupQueue PROVE PInv'
<1>1. /\ UNCHANGED <<job, announced, source, active, epoch, captured, active_ops, owners, lease,
                     closing, ordinary, canvas, enc, main, target, image, parse, acked>>
      /\ UNCHANGED <<offered, current>>
      /\ conn = "sources" /\ conn' \in {"sources", "done"}
      /\ encode_thread = "calling" => encode_thread' = "calling"
  BY DEF CleanupAreas, CleanupQueue, call_in_encode_thread_at_end, stop_encode_thread,
     Started, threads, registry, outbound, notConn
<1>2. AcceptedOffered'
  <2>1. CASE CleanupAreas
    BY <2>1 DEF CleanupAreas, call_in_encode_thread_at_end, DInv, PInv, Operations,
       AcceptedOffered
  <2>2. CASE CleanupQueue
    <3>1. \A i \in 1..Len(encode_at_end) : encode_at_end[i].kind = "end"
      BY DEF DInv, IInv, Conserved, KindsInOrder
    <3>2. accepted' = accepted \o encode_at_end /\ accepted \in Seq(Item) /\ encode_at_end \in Seq(Item)
      BY <2>2 DEF CleanupQueue, stop_encode_thread, DInv, IInv, TypeOK
    <3>3. /\ Len(accepted) \in Nat /\ Len(encode_at_end) \in Nat
          /\ Len(accepted') = Len(accepted) + Len(encode_at_end)
          /\ \A i \in 1..Len(accepted) : accepted'[i] = accepted[i]
          /\ \A i \in 1..Len(encode_at_end) : accepted'[Len(accepted) + i] = encode_at_end[i]
      BY <3>2
    <3>4. ASSUME NEW i \in 1..Len(accepted'), i \notin 1..Len(accepted)
          PROVE  accepted'[i].kind = "end"
      <4>1. i - Len(accepted) \in 1..Len(encode_at_end) /\ Len(accepted) + (i - Len(accepted)) = i
        BY <3>3, <3>4
      <4> QED
        BY <3>1, <3>3, <4>1
    <3> QED
      BY <1>1, <3>3, <3>4 DEF DInv, PInv, Operations, AcceptedOffered
  <2> QED
    BY <2>1, <2>2
<1>3. Encoding' /\ OperationsCounted'
  BY <1>1 DEF DInv, PInv, Operations, Encoding, OperationsCounted, EncodeBorrows,
     ParseBorrows, J, Here
<1>4. SourceTypes'
  BY <1>1 DEF DInv, PInv, SourceTypes
<1>5. JobTypes'
  BY <1>1 DEF DInv, PInv, JobTypes
<1>6. Lifecycle'
  BY <1>1 DEF DInv, PInv, Lifecycle, PastWaitQuiet, PastWait, Quiet, Closing, Removed,
     Barriers, OwnersExist
<1>7. Fence'
  BY <1>1, <1>4, EpochsGrown DEF DInv, PInv, SourceTypes
<1> QED
  BY <1>2, <1>3, <1>4, <1>5, <1>6, <1>7 DEF PInv, Operations

\* Whether the damage in the hands of the encode thread is an operation.
Borrowing == enc # "idle" /\ (J.coding = "mmap" \/ enc \in {"callback", "finish"})

\* The encode thread moves on: an operation that begins or ends is counted, and
\* only a source that may publish is given an operation or a packet.
LEMMA EncodeMoves ==
    ASSUME DInv, encode_thread = "calling", current.kind = "work",
           UNCHANGED <<job, announced, source, active, epoch, captured, closing, ordinary, canvas,
                       main, target, image, parse, acked, conn, offered, accepted, current>>,
           enc' \in Stages, lease' \in BOOLEAN, Encoding',
           \/ owners' \subseteq owners
           \/ /\ owners' = owners \cup {current.id}
              /\ Here \in active /\ source[Here] = "live",
           \/ (Borrowing' <=> Borrowing) /\ active_ops' = active_ops
           \/ /\ ~Borrowing /\ Borrowing' /\ Here \in active
              /\ active_ops' = Begun(Here)
           \/ Borrowing /\ ~Borrowing' /\ active_ops' = Finished(Here)
    PROVE  PInv'
<1>1. current.id \in DOMAIN job /\ J = job[current.id] /\ Here \in Windows /\ J' = J
  BY CurrentOffered, PacketsOfWindows DEF DInv, J, Here
<1>2. /\ active_ops \in [Windows -> Int] /\ active_ops' \in [Windows -> Int]
      /\ \A w \in Windows : w # Here => active_ops'[w] = active_ops[w]
  BY <1>1 DEF DInv, PInv, SourceTypes, Begun, Finished
<1>3. \A w \in Windows : /\ EncodeBorrows(w) <=> Borrowing /\ w = Here
                         /\ EncodeBorrows(w)' <=> Borrowing' /\ w = Here
                         /\ ParseBorrows(w)' <=> ParseBorrows(w)
  BY <1>1 DEF EncodeBorrows, ParseBorrows, Borrowing, Here
<1>4. OperationsCounted'
  BY <1>1, <1>2, <1>3 DEF DInv, PInv, Operations, OperationsCounted, Begun, Finished
<1>5. Operations'
  BY <1>4 DEF DInv, PInv, Operations, AcceptedOffered
<1>6. SourceTypes' /\ JobTypes'
  BY <1>1, <1>2 DEF DInv, PInv, SourceTypes, JobTypes
<1>7. PastWaitQuiet' /\ OwnersExist'
  <2>1. Borrowing => active_ops[Here] # 0
    BY <1>1, <1>3 DEF DInv, PInv, Operations, OperationsCounted
  <2>2. \A w \in Windows : PastWait(w)' <=> PastWait(w)
    BY DEF PastWait
  <2>3. ASSUME NEW w \in Windows, Quiet(w) PROVE Quiet(w)'
    <3>1. active_ops'[w] = 0
      BY <1>1, <1>2, <2>1, <2>3 DEF Quiet
    <3>2. \A n \in owners' : job[n].win # w
      BY <1>1, <2>3 DEF Quiet, Here
    <3> QED
      BY <2>3, <3>1, <3>2 DEF Quiet
  <2>4. OwnersExist'
    BY <1>1 DEF DInv, PInv, Lifecycle, OwnersExist, Here
  <2> QED
    BY <2>2, <2>3, <2>4 DEF DInv, PInv, Lifecycle, PastWaitQuiet
<1>8. Lifecycle'
  BY <1>7 DEF DInv, PInv, Lifecycle, Closing, Removed, Barriers
<1>9. Fence'
  BY <1>6, EpochsGrown DEF DInv, PInv, SourceTypes
<1> QED
  BY <1>5, <1>6, <1>8, <1>9 DEF PInv

\* encode_loop() takes the next function.
LEMMA TakesStep == ASSUME DInv, EncodeTakes PROVE PInv'
<1>1. /\ encode_thread = "waiting"
      /\ UNCHANGED <<job, threads, registry, outbound, offered, accepted>>
  BY DEF EncodeTakes, TakeItem
<1>2. enc = "idle" /\ UNCHANGED enc
  BY <1>1 DEF DInv, PInv, Operations, Encoding, threads
<1>3. Operations'
  BY <1>1, <1>2 DEF DInv, PInv, Operations, AcceptedOffered, Encoding, OperationsCounted,
     EncodeBorrows, ParseBorrows, threads, registry
<1>4. SourceTypes' /\ JobTypes'
  BY <1>1 DEF DInv, PInv, SourceTypes, JobTypes, threads, registry
<1>5. Lifecycle'
  BY <1>1 DEF DInv, PInv, Lifecycle, PastWaitQuiet, PastWait, Quiet, Closing, Removed,
     Barriers, OwnersExist, threads, registry
<1>6. Fence'
  BY <1>1, <1>4, EpochsGrown DEF DInv, PInv, SourceTypes, registry, outbound
<1> QED
  BY <1>3, <1>4, <1>5, <1>6 DEF PInv

\* encode_ended(): the source of a barrier was given up before.
LEMMA CallOtherStep == ASSUME DInv, CallOther PROVE PInv'
<1>1. /\ enc = "idle" /\ enc' = "idle" /\ encode_thread = "calling"
      /\ UNCHANGED <<job, announced, active, epoch, captured, active_ops, owners, lease, closing,
                     ordinary, canvas, main, target, image, parse, acked, conn,
                     offered, accepted, current>>
      /\ source' = IF J.kind = "ended" THEN [source EXCEPT ![Here] = "ended"] ELSE source
  BY DEF CallOther, Working, Return, CallItem, outbound, notEncode
<1>2. Operations'
  BY <1>1 DEF DInv, PInv, Operations, AcceptedOffered, Encoding, OperationsCounted,
     EncodeBorrows, ParseBorrows
<1>3. J.kind = "ended" => Here \in Windows /\ source[Here] \in Parked
  BY <1>1, CurrentOffered, PacketsOfWindows DEF DInv, PInv, Lifecycle, Barriers, J, Here,
     NoImage
<1>4. SourceTypes' /\ JobTypes'
  BY <1>1 DEF DInv, PInv, SourceTypes, JobTypes, Parked
<1>5. Lifecycle'
  BY <1>1, <1>3, <1>4, PacketsOfWindows DEF DInv, PInv, SourceTypes, Lifecycle,
     PastWaitQuiet, PastWait, Quiet, Closing, Removed, Barriers, OwnersExist, Parked
<1>6. Fence'
  BY <1>1, <1>4, EpochsGrown DEF DInv, PInv, SourceTypes
<1> QED
  BY <1>2, <1>4, <1>5, <1>6 DEF PInv

\* claim_damage_packet_publication() only begins for a source that may publish.
LEMMA ClaimStep == ASSUME DInv, claim_damage_packet_publication PROVE PInv'
<1>1. /\ encode_thread = "calling" /\ current.kind = "work"
      /\ UNCHANGED <<job, announced, source, active, epoch, captured, closing, ordinary, canvas,
                     main, target, image, parse, acked, conn, offered, accepted, current>>
  BY DEF claim_damage_packet_publication, Working, Go, Return, CallItem, vars, outbound,
     notEncode, J, NoImage, DInv, PInv, Operations, Encoding
<1>2. J' = J
  BY <1>1 DEF J
<1>3. enc' \in Stages /\ lease' \in BOOLEAN /\ Encoding'
  BY <1>1, <1>2 DEF claim_damage_packet_publication, Working, Go, Return, CallItem, vars,
     Encoding, DInv, PInv, Operations, SourceTypes, Stages
<1>4. CASE Publishing(Here)
  <2>1. /\ ~Borrowing /\ Borrowing' /\ Here \in active /\ active_ops' = Begun(Here)
        /\ UNCHANGED owners
    BY <1>2, <1>4 DEF claim_damage_packet_publication, Working, Go, Borrowing, Publishing
  <2> QED
    BY <1>1, <1>3, <2>1, EncodeMoves
<1>5. CASE ~Publishing(Here)
  <2>1. ~Borrowing /\ ~Borrowing' /\ UNCHANGED <<active_ops, owners>>
    BY <1>5 DEF claim_damage_packet_publication, Working, Return, Borrowing
  <2> QED
    BY <1>1, <1>3, <2>1, EncodeMoves
<1> QED
  BY <1>4, <1>5

\* mmap_encode() keeps the operation, whatever it has written.
LEMMA EncodeMmapStep == ASSUME DInv, EncodeMmap PROVE PInv'
<1>1. /\ encode_thread = "calling" /\ current.kind = "work"
      /\ UNCHANGED <<job, announced, source, active, epoch, captured, closing, ordinary, canvas,
                     main, target, image, parse, acked, conn, offered, accepted, current>>
  BY DEF EncodeMmap, Working, Go, Return, CallItem, vars, registry, notEncode, J, NoImage,
     DInv, PInv, Operations, Encoding
<1>2. J' = J
  BY <1>1 DEF J
<1>3. enc' \in Stages /\ lease' \in BOOLEAN /\ Encoding'
  BY <1>1, <1>2 DEF EncodeMmap, Working, Go, Return, CallItem, vars, registry, Encoding,
     DInv, PInv, Operations, SourceTypes, Stages
<1>4. (Borrowing' <=> Borrowing) /\ UNCHANGED <<active_ops, owners>>
  BY <1>2 DEF EncodeMmap, Working, Go, Return, Borrowing, registry, DInv, PInv, Operations,
     Encoding
<1> QED
  BY <1>1, <1>3, <1>4, EncodeMoves

\* Any other encoder works without an operation.
LEMMA EncodePixelsStep == ASSUME DInv, EncodePixels PROVE PInv'
<1>1. /\ encode_thread = "calling" /\ current.kind = "work"
      /\ UNCHANGED <<job, announced, source, active, epoch, captured, closing, ordinary, canvas,
                     main, target, image, parse, acked, conn, offered, accepted, current>>
  BY DEF EncodePixels, Working, Go, Return, CallItem, vars, registry, outbound, notEncode, J,
     NoImage, DInv, PInv, Operations, Encoding
<1>2. J' = J
  BY <1>1 DEF J
<1>3. enc' \in Stages /\ lease' \in BOOLEAN /\ Encoding'
  BY <1>1, <1>2 DEF EncodePixels, Working, Go, Return, CallItem, vars, registry, Encoding,
     DInv, PInv, Operations, SourceTypes, Stages
<1>4. (Borrowing' <=> Borrowing) /\ UNCHANGED <<active_ops, owners>>
  BY <1>2 DEF EncodePixels, Working, Go, Return, Borrowing, registry, DInv, PInv, Operations,
     Encoding
<1> QED
  BY <1>1, <1>3, <1>4, EncodeMoves

\* publish_damage_packet() pins a source that may publish, or gives it back.
LEMMA PublishStep == ASSUME DInv, publish_damage_packet PROVE PInv'
<1>1. /\ encode_thread = "calling" /\ current.kind = "work"
      /\ UNCHANGED <<job, announced, source, active, epoch, captured, closing, ordinary, canvas,
                     main, target, image, parse, acked, conn, offered, accepted, current>>
  BY DEF publish_damage_packet, Working, Go, Return, CallItem, vars, outbound, notEncode, J,
     NoImage, DInv, PInv, Operations, Encoding
<1>2. J' = J
  BY <1>1 DEF J
<1>3. enc' \in Stages /\ lease' \in BOOLEAN /\ Encoding'
  BY <1>1, <1>2 DEF publish_damage_packet, Working, Go, Return, CallItem, vars, Encoding,
     DInv, PInv, Operations, SourceTypes, Stages
<1>4. CASE closing
  <2>1. owners' = owners /\ active_ops' = IF lease THEN Finished(Here) ELSE active_ops
    BY <1>4 DEF publish_damage_packet
  <2>2. (lease <=> Borrowing) /\ ~Borrowing'
    BY <1>4 DEF publish_damage_packet, Working, Return, Borrowing, DInv, PInv, Operations,
       Encoding
  <2> QED
    BY <1>1, <1>3, <2>1, <2>2, EncodeMoves
<1>5. CASE ~closing /\ Current(current.id)
  <2>1. Here \in active /\ source[Here] = "live"
    BY <1>1, <1>5 DEF Current, J, Here
  <2>2. /\ owners' = owners \cup {current.id} /\ Borrowing'
        /\ Borrowing <=> J.coding = "mmap"
        /\ active_ops' = IF J.coding = "mmap" THEN active_ops ELSE Begun(Here)
    BY <1>5 DEF publish_damage_packet, Working, Go, Borrowing
  <2> QED
    BY <1>1, <1>3, <2>1, <2>2, EncodeMoves
<1>6. CASE ~closing /\ ~Current(current.id)
  <2>1. (Borrowing' <=> Borrowing) /\ UNCHANGED <<active_ops, owners>>
    BY <1>2, <1>6 DEF publish_damage_packet, Working, Go, Return, Borrowing
  <2> QED
    BY <1>1, <1>3, <2>1, EncodeMoves
<1> QED
  BY <1>4, <1>5, <1>6

\* publish() queues the packet within the operation.
LEMMA PublishedStep == ASSUME DInv, Published PROVE PInv'
<1>1. /\ encode_thread = "calling" /\ current.kind = "work"
      /\ UNCHANGED <<job, announced, source, active, epoch, captured, closing, ordinary, canvas,
                     main, target, image, parse, acked, conn, offered, accepted, current>>
  BY DEF Published, Working, Go, Return, CallItem, vars, notEncode, J, NoImage, DInv, PInv,
     Operations, Encoding
<1>2. J' = J
  BY <1>1 DEF J
<1>3. enc' \in Stages /\ lease' \in BOOLEAN /\ Encoding'
  BY <1>1, <1>2 DEF Published, Working, Go, Return, CallItem, vars, Encoding, DInv, PInv,
     Operations, SourceTypes, Stages
<1>4. (Borrowing' <=> Borrowing) /\ UNCHANGED <<active_ops, owners>>
  BY <1>2 DEF Published, Working, Go, Return, Borrowing, DInv, PInv, Operations, Encoding
<1> QED
  BY <1>1, <1>3, <1>4, EncodeMoves

\* A publication that fails keeps the operation to drain with, or ends it.
LEMMA PublishFailsStep == ASSUME DInv, PublishFails PROVE PInv'
<1>1. /\ encode_thread = "calling" /\ current.kind = "work"
      /\ UNCHANGED <<job, announced, source, active, epoch, captured, closing, ordinary, canvas,
                     main, target, image, parse, acked, conn, offered, accepted, current>>
  BY DEF PublishFails, Working, Go, Return, CallItem, vars, outbound, notEncode, J, NoImage,
     DInv, PInv, Operations, Encoding
<1>2. J' = J
  BY <1>1 DEF J
<1>3. enc' \in Stages /\ lease' \in BOOLEAN /\ Encoding'
  BY <1>1, <1>2 DEF PublishFails, Working, Go, Return, CallItem, vars, Encoding, DInv, PInv,
     Operations, SourceTypes, Stages
<1>4. owners' \subseteq owners /\ Borrowing
  BY DEF PublishFails, Working, Borrowing
<1>5. CASE J.coding = "mmap" /\ ~closing
  <2>1. Borrowing' /\ UNCHANGED active_ops
    BY <1>2, <1>5 DEF PublishFails, Go, Borrowing
  <2> QED
    BY <1>1, <1>3, <1>4, <2>1, EncodeMoves
<1>6. CASE ~(J.coding = "mmap" /\ ~closing)
  <2>1. ~Borrowing' /\ active_ops' = Finished(Here)
    BY <1>6 DEF PublishFails, Return, Borrowing
  <2> QED
    BY <1>1, <1>3, <1>4, <2>1, EncodeMoves
<1> QED
  BY <1>5, <1>6

\* queue_mmap_drain() ends the operation when the connection is closed.
LEMMA DrainStep == ASSUME DInv, queue_mmap_drain PROVE PInv'
<1>1. /\ encode_thread = "calling" /\ current.kind = "work"
      /\ UNCHANGED <<job, announced, source, active, epoch, captured, closing, ordinary, canvas,
                     main, target, image, parse, acked, conn, offered, accepted, current>>
  BY DEF queue_mmap_drain, Working, Go, Return, CallItem, vars, outbound, notEncode, J,
     NoImage, DInv, PInv, Operations, Encoding
<1>2. J' = J
  BY <1>1 DEF J
<1>3. enc' \in Stages /\ lease' \in BOOLEAN /\ Encoding'
  BY <1>1, <1>2 DEF queue_mmap_drain, Working, Go, Return, CallItem, vars, Encoding, DInv,
     PInv, Operations, SourceTypes, Stages
<1>4. UNCHANGED owners /\ Borrowing
  BY DEF queue_mmap_drain, Working, Borrowing, DInv, PInv, Operations, Encoding
<1>5. CASE closing
  <2>1. ~Borrowing' /\ active_ops' = Finished(Here)
    BY <1>5 DEF queue_mmap_drain, Return, Borrowing
  <2> QED
    BY <1>1, <1>3, <1>4, <2>1, EncodeMoves
<1>6. CASE ~closing
  <2>1. Borrowing' /\ UNCHANGED active_ops
    BY <1>2, <1>6 DEF queue_mmap_drain, Working, Go, Borrowing, DInv, PInv, Operations,
       Encoding
  <2> QED
    BY <1>1, <1>3, <1>4, <2>1, EncodeMoves
<1> QED
  BY <1>5, <1>6

\* A terminal publisher works within the operation.
LEMMA TerminalStep == ASSUME DInv, terminal_publisher PROVE PInv'
<1>1. /\ encode_thread = "calling" /\ current.kind = "work"
      /\ UNCHANGED <<job, announced, source, active, epoch, captured, closing, ordinary, canvas,
                     main, target, image, parse, acked, conn, offered, accepted, current>>
  BY DEF terminal_publisher, Working, Go, Return, CallItem, vars, registry, notEncode, J,
     NoImage, DInv, PInv, Operations, Encoding
<1>2. J' = J
  BY <1>1 DEF J
<1>3. enc' \in Stages /\ lease' \in BOOLEAN /\ Encoding'
  BY <1>1, <1>2 DEF terminal_publisher, Working, Go, Return, CallItem, vars, registry,
     Encoding, DInv, PInv, Operations, SourceTypes, Stages
<1>4. (Borrowing' <=> Borrowing) /\ UNCHANGED <<active_ops, owners>>
  BY <1>2 DEF terminal_publisher, Working, Go, Return, Borrowing, registry, DInv, PInv,
     Operations, Encoding
<1> QED
  BY <1>1, <1>3, <1>4, EncodeMoves

\* The publication gives the source back.
LEMMA FinishedStep == ASSUME DInv, PublishFinished PROVE PInv'
<1>1. /\ encode_thread = "calling" /\ current.kind = "work"
      /\ UNCHANGED <<job, announced, source, active, epoch, captured, closing, ordinary, canvas,
                     main, target, image, parse, acked, conn, offered, accepted, current>>
  BY DEF PublishFinished, Working, Go, Return, CallItem, vars, outbound, notEncode, J,
     NoImage, DInv, PInv, Operations, Encoding
<1>2. J' = J
  BY <1>1 DEF J
<1>3. enc' \in Stages /\ lease' \in BOOLEAN /\ Encoding'
  BY <1>1, <1>2 DEF PublishFinished, Working, Go, Return, CallItem, vars, Encoding, DInv,
     PInv, Operations, SourceTypes, Stages
<1>4. Borrowing /\ ~Borrowing' /\ active_ops' = Finished(Here) /\ UNCHANGED owners
  BY DEF PublishFinished, Working, Return, Borrowing, DInv, PInv, Operations, Encoding
<1> QED
  BY <1>1, <1>3, <1>4, EncodeMoves

\* A lease that was not used gives the source back.
LEMMA LeaseReleasedStep == ASSUME DInv, release_damage_packet_publication PROVE PInv'
<1>1. /\ encode_thread = "calling" /\ current.kind = "work"
      /\ UNCHANGED <<job, announced, source, active, epoch, captured, closing, ordinary, canvas,
                     main, target, image, parse, acked, conn, offered, accepted, current>>
  BY DEF release_damage_packet_publication, Working, Go, Return, CallItem, vars, outbound,
     notEncode, J, NoImage, DInv, PInv, Operations, Encoding
<1>2. J' = J
  BY <1>1 DEF J
<1>3. enc' \in Stages /\ lease' \in BOOLEAN /\ Encoding'
  BY <1>1, <1>2 DEF release_damage_packet_publication, Working, Go, Return, CallItem, vars,
     Encoding, DInv, PInv, Operations, SourceTypes, Stages
<1>4. Borrowing /\ ~Borrowing' /\ active_ops' = Finished(Here) /\ UNCHANGED owners
  BY DEF release_damage_packet_publication, Working, Return, Borrowing, DInv, PInv,
     Operations, Encoding
<1> QED
  BY <1>1, <1>3, <1>4, EncodeMoves

-----------------------------------------------------------------------------
(* The theorems. *)

\* Every step keeps the pipeline's part of the inductive invariant.
LEMMA PipelineInductive == DInv /\ [DamageNext]_dvars => PInv'
<1> SUFFICES ASSUME DInv, [DamageNext]_dvars PROVE PInv'
  OBVIOUS
<1>1. PInv
  BY DEF DInv
<1>2. ASSUME NEW w \in Windows,
             new_window(w) \/ map_window(w) \/ unmap_window(w) \/ resize_window(w)
             \/ lost_window(w) \/ \E c \in Codings : Capture(w, c)
      PROVE  PInv'
  BY <1>1, <1>2, NewWindowStep, MapStep, UnmapStep, ResizeStep, LostStep, CaptureStep
<1>3. CASE MainContinues
  BY <1>1, <1>3, ResizeSentStep, OfferDamageStep, RemoveStep, UnregisterStep,
     UnregisteredStep, SourceCleanedStep, ReleaseStep DEF MainContinues
<1>4. CASE EncodeStep
  BY <1>4, TakesStep, CallOtherStep, ClaimStep, EncodeMmapStep, EncodePixelsStep,
     PublishStep, PublishedStep, PublishFailsStep, DrainStep, TerminalStep, FinishedStep,
     LeaseReleasedStep DEF EncodeStep
<1>5. CASE NextOrdinary \/ NoOrdinary \/ NextPixels \/ client_ack_damage
           \/ damage_packet_acked \/ close
  BY <1>1, <1>5, NextOrdinaryStep, NoOrdinaryStep, NextPixelsStep, AckStep, AckedStep,
     CloseStep
<1>6. CASE CloseContinues
  BY <1>1, <1>6, CleanupStep, CleanupWaitedStep, CleanupQueueStep, CleanupSourceStep DEF
     CloseContinues
<1>7. CASE UNCHANGED dvars
  <2>1. SourceTypes' /\ JobTypes' /\ Operations'
    BY <1>1, <1>7, EncodeUntouched DEF PInv, SourceTypes, JobTypes, dvars, vars, threads,
       registry
  <2>2. Lifecycle'
    BY <1>1, <1>7 DEF PInv, Lifecycle, PastWaitQuiet, PastWait, Quiet, Closing, Removed,
       Barriers, OwnersExist, dvars, threads, registry
  <2>3. Fence'
    BY <1>1, <1>7 DEF PInv, Fence, CanvasTypes, Fenced, dvars, registry, outbound
  <2> QED
    BY <2>1, <2>2, <2>3 DEF PInv
<1> QED
  BY <1>2, <1>3, <1>4, <1>5, <1>6, <1>7 DEF DamageNext

\* Every step keeps the inductive invariant.
LEMMA Inductive == DInv /\ [DamageNext]_dvars => DInv'
<1>1. IInv /\ [Next]_vars => IInv'
  BY TypeInductive, ConservedInductive DEF IInv
<1> QED
  BY <1>1, StepImplements, PipelineInductive DEF DInv

\* It holds when the connection is made.
LEMMA Initial == DamageInit => DInv
<1> SUFFICES ASSUME DamageInit PROVE DInv
  OBVIOUS
<1>1. IInv
  BY InitialIInv DEF DamageInit
<1>2. SourceTypes /\ JobTypes
  <2>1. <<>> \in Seq(Jobs) /\ Len(<<>>) = 0
    OBVIOUS
  <2>2. JobTypes
    BY <2>1 DEF DamageInit, Init, JobTypes
  <2>3. SourceTypes
    <3>1. announced \in [Windows -> {"no", "yes", "gone"}]
      BY DEF DamageInit
    <3>2. source \in [Windows -> {"none", "live", "detached"} \cup Parked]
      BY DEF DamageInit
    <3>3. epoch \in [Windows -> Nat] /\ captured \in [Windows -> Nat]
      BY DEF DamageInit
    <3>4. active_ops \in [Windows -> Int]
      BY DEF DamageInit
    <3>5. lease \in BOOLEAN /\ closing \in BOOLEAN /\ enc \in Stages
      BY DEF DamageInit, Stages
    <3> QED
      BY <3>1, <3>2, <3>3, <3>4, <3>5 DEF DamageInit, SourceTypes
  <2> QED
    BY <2>2, <2>3
<1>3. Operations
  BY DEF DamageInit, Init, Operations, AcceptedOffered, Encoding, OperationsCounted,
     EncodeBorrows, ParseBorrows
<1>4. Lifecycle
  BY DEF DamageInit, Lifecycle, PastWaitQuiet, PastWait, Quiet, Closing, Removed, Barriers,
     OwnersExist, Parked
<1>5. Fence
  <2>1. <<>> \in Seq(Announcement)
    OBVIOUS
  <2> QED
    BY <2>1 DEF DamageInit, Fence, CanvasTypes, Fenced
<1> QED
  BY <1>1, <1>2, <1>3, <1>4, <1>5 DEF DInv, PInv

\* The pipeline keeps the inductive invariant.
LEMMA Always == DamageSpec => []DInv
  BY Initial, Inductive, PTL DEF DamageSpec

\* Once the source of a window is cleaned up, neither the encode thread nor the
\* parse thread is using it: the waits of unregister_damage_packets() and of
\* cleanup() leave no operation out and let none begin.
THEOREM NotCleanedInUseHolds == DamageSpec => []NotCleanedInUse
<1>1. DInv => NotCleanedInUse
  <2> SUFFICES ASSUME DInv, NEW w \in Windows,
                      source[w] \in {"cleaned", "ended", "released", "stranded"}
               PROVE  ~Borrowed(w)
    BY DEF NotCleanedInUse
  <2>1. active_ops[w] = 0
    BY DEF DInv, PInv, Lifecycle, PastWaitQuiet, PastWait, Quiet, Parked
  <2>2. ~EncodeBorrows(w) /\ ~ParseBorrows(w)
    BY <2>1 DEF DInv, PInv, Operations, OperationsCounted
  <2> QED
    BY <2>2 DEF Borrowed, EncodeBorrows, ParseBorrows
<1> QED
  BY <1>1, Always, PTL

\* A packet is only routed to a source that is registered, or detached and not
\* cleaned up yet, so that no acknowledgement reaches a source without statistics.
THEOREM OwnersAreLiveHolds == DamageSpec => []OwnersAreLive
<1>1. DInv => OwnersAreLive
  <2> SUFFICES ASSUME DInv, NEW n \in owners PROVE source[job[n].win] \in {"live", "detached"}
    BY DEF OwnersAreLive
  <2>1. job[n].win \in Windows
    BY PacketsOfWindows DEF DInv
  <2>2. source[job[n].win] # "none" /\ source[job[n].win] \notin Parked
    BY <2>1 DEF DInv, PInv, Lifecycle, OwnersExist, PastWaitQuiet, PastWait, Quiet
  <2> QED
    BY <2>1, <2>2 DEF DInv, PInv, SourceTypes
<1> QED
  BY <1>1, Always, PTL

\* next_packet() puts no draw on the wire behind a packet that gave its window
\* a newer canvas: every canvas was announced with an epoch that the window
\* had reached, and a draw is checked again against the epoch of its window.
THEOREM NeverStaleHolds == DamageSpec => NeverStale
<1>1. DInv /\ [DamageNext]_dvars =>
        [\A n \in unacked' \ unacked : job[n].epoch >= canvas[job[n].win]]_dvars
  <2> SUFFICES ASSUME DInv, DamageNext, NEW n \in unacked' \ unacked
               PROVE  job[n].epoch >= canvas[job[n].win]
    OBVIOUS
  <2>1. NextPixels
    <3>1. ASSUME NEW w \in Windows,
                 new_window(w) \/ map_window(w) \/ unmap_window(w) \/ resize_window(w)
                 \/ lost_window(w) \/ \E c \in Codings : Capture(w, c)
          PROVE  UNCHANGED unacked
      BY <3>1 DEF new_window, map_window, unmap_window, resize_window, lost_window, Capture,
         outbound
    <3>2. ~MainContinues
      BY DEF MainContinues, ResizeSent, OfferDamage, remove_window,
         unregister_damage_packets, Unregistered, SourceCleaned, ui_cleanup, outbound
    <3>3. ~EncodeStep
      BY DEF EncodeStep, EncodeTakes, CallOther, claim_damage_packet_publication, EncodeMmap,
         EncodePixels, publish_damage_packet, Published, PublishFails, queue_mmap_drain,
         terminal_publisher, PublishFinished, release_damage_packet_publication, outbound
    <3>4. ~NextOrdinary /\ ~NoOrdinary /\ ~client_ack_damage /\ ~damage_packet_acked /\ ~close
      BY DEF NextOrdinary, NoOrdinary, client_ack_damage, damage_packet_acked, close,
         outbound
    <3>5. ~CloseContinues
      BY DEF CloseContinues, cleanup, CleanupWaited, CleanupAreas, CleanupQueue,
         CleanupSource, outbound
    <3> QED
      BY <3>1, <3>2, <3>3, <3>4, <3>5 DEF DamageNext
  <2>2. n \in owners /\ Current(n)
    BY <2>1 DEF NextPixels, Rechecked
  <2>3. job[n] \in Jobs /\ job[n].win \in Windows
    BY <2>2, PacketsOfWindows DEF DInv
  <2>4. ~closing /\ job[n].epoch = epoch[job[n].win]
    BY <2>2 DEF Current, DInv, PInv, Lifecycle, Closing
  <2> QED
    BY <2>3, <2>4 DEF DInv, PInv, SourceTypes, Fence, CanvasTypes, Fenced
<1> QED
  BY <1>1, Always, PTL DEF DamageSpec, NeverStale

\* Whatever the pipeline does, the encode thread calls what was queued in order
\* and each once, leaves nothing behind, and its queue holds what it should.
THEOREM QueueHolds == DamageSpec => [](TypeOK /\ CallOrder /\ NothingLeft)
  BY QueueRefined, TypeCorrect, CallOrderHolds, NothingLeftHolds, PTL

=============================================================================
