--------------------------- MODULE SocketLossProofs ---------------------------
(***************************************************************************)
(* The loss of a connection is processed once, never for a stolen one, and *)
(* before clean(): LostOnce of SocketProtocol, whoever closes it.          *)
(*                                                                         *)
(* The invariant follows the two idle callbacks of close().  The report is *)
(* in the queue or was run, never both, from the step that sets _closed;   *)
(* the call of clean() is always behind it.                                *)
(***************************************************************************)
EXTENDS SocketProtocolProofs

\* The report of the loss is among these callbacks.
Reported(callbacks) == \E i \in DOMAIN callbacks : callbacks[i] = "lost"

\* What the pending callbacks have to do with the state of the connection.
Sound(callbacks) ==
    /\ \A i, j \in DOMAIN callbacks : callbacks[i] = "lost" /\ callbacks[j] = "lost" => i = j
    /\ Reported(callbacks) => lost = 0 /\ closed /\ ~stolen
    /\ closed => stolen \/ lost = 1 \/ Reported(callbacks)
    /\ \A j \in DOMAIN callbacks : callbacks[j] = "clean" =>
         lost = 1 \/ \E i \in 1..(j - 1) : callbacks[i] = "lost"

\* Only a closed connection is lost, stolen, or inside close().
OnlyClosed ==
    /\ lost \in {0, 1} /\ (lost = 1 => closed /\ ~stolen)
    /\ stolen => closed
    /\ cleaned => lost = 1
    /\ \A t \in Closing : pc[t] \in CloseLabels => closed

\* The inductive invariant.
LossInv == Sound(idle) /\ OnlyClosed

\* Nobody enters close() without setting _closed.
Guarded == \A t \in Closing : pc'[t] \in CloseLabels => pc[t] \in CloseLabels \/ closed'

\* What most steps leave alone.
Quiet == UNCHANGED <<lost, closed, stolen, cleaned>>

-----------------------------------------------------------------------------
\* A thread that goes to a label outside close() enters nothing.
LEMMA Outside ==
    ASSUME pc \in [Threads -> AllLabels], NEW t \in Threads, NEW label,
           label \notin CloseLabels, Goto(t, label)
    PROVE  Guarded
  BY DEF Goto, Guarded, Closing, Threads

\* Nor does a thread that is inside close() already.
LEMMA Inside ==
    ASSUME pc \in [Threads -> AllLabels], NEW t \in Threads, pc[t] \in CloseLabels,
           NEW label, UNCHANGED pc \/ Goto(t, label)
    PROVE  Guarded
<1>1. CASE UNCHANGED pc
  BY <1>1 DEF Guarded
<1>2. CASE Goto(t, label)
  BY <1>2 DEF Goto, Guarded, Closing, Threads
<1> QED
  BY <1>1, <1>2

\* A step that leaves the callbacks alone.
LEMMA Unheard == ASSUME LossInv, Quiet, Guarded, UNCHANGED idle PROVE LossInv'
<1>1. Sound(idle)'
  BY DEF LossInv, Sound, Reported, Quiet
<1>2. OnlyClosed'
  BY DEF LossInv, OnlyClosed, Quiet, Guarded
<1> QED
  BY <1>1, <1>2 DEF LossInv

\* A callback that is added behind the others, clean() only after the report.
LEMMA Adds ==
    ASSUME LossInv, Quiet, Guarded, idle \in Seq(IdleLabels), NEW x \in IdleLabels \ {"lost"},
           x = "clean" => lost = 1 \/ Reported(idle),
           idle' = Append(idle, x)
    PROVE  LossInv'
<1>1. /\ Len(idle) \in Nat /\ DOMAIN idle = 1..Len(idle) /\ DOMAIN idle' = 1..(Len(idle) + 1)
      /\ \A i \in 1..Len(idle) : idle'[i] = idle[i]
      /\ idle'[Len(idle) + 1] = x
  BY DEF IdleLabels
<1>2. \A i \in DOMAIN idle' : idle'[i] = "lost" => i \in DOMAIN idle /\ idle[i] = "lost"
  BY <1>1
<1>3. Reported(idle') <=> Reported(idle)
  BY <1>1, <1>2 DEF Reported
<1>4. ASSUME NEW j \in DOMAIN idle', idle'[j] = "clean"
      PROVE  lost = 1 \/ \E i \in 1..(j - 1) : idle'[i] = "lost"
  <2>1. CASE j \in DOMAIN idle
    <3>1. lost = 1 \/ \E i \in 1..(j - 1) : idle[i] = "lost"
      BY <1>1, <1>4, <2>1 DEF LossInv, Sound
    <3> QED
      BY <1>1, <2>1, <3>1
  <2>2. CASE j = Len(idle) + 1
    BY <1>1, <1>4, <2>2 DEF Reported
  <2> QED
    BY <1>1, <2>1, <2>2
<1>5. Sound(idle)'
  BY <1>2, <1>3, <1>4 DEF LossInv, Sound, Quiet, Reported
<1>6. OnlyClosed'
  BY DEF LossInv, OnlyClosed, Quiet, Guarded
<1> QED
  BY <1>5, <1>6 DEF LossInv

\* The rest of the callbacks once one that is not the report was taken.
LEMMA Rest ==
    ASSUME Sound(idle), idle \in Seq(IdleLabels), idle # <<>>, Head(idle) # "lost"
    PROVE  Sound(Tail(idle)) /\ Tail(idle) \in Seq(IdleLabels)
<1> DEFINE rest == Tail(idle)
<1>1. /\ Len(idle) \in Nat \ {0} /\ DOMAIN idle = 1..Len(idle) /\ idle[1] # "lost"
      /\ rest \in Seq(IdleLabels) /\ DOMAIN rest = 1..(Len(idle) - 1)
      /\ \A i \in 1..(Len(idle) - 1) : rest[i] = idle[i + 1]
  BY DEF IdleLabels
<1> HIDE DEF rest
<1>2. Reported(rest) <=> Reported(idle)
  <2>1. ASSUME NEW i \in DOMAIN rest, rest[i] = "lost" PROVE Reported(idle)
    <3>1. i + 1 \in DOMAIN idle /\ idle[i + 1] = "lost"
      BY <1>1, <2>1
    <3> QED
      BY <3>1 DEF Reported
  <2>2. ASSUME NEW i \in DOMAIN idle, idle[i] = "lost" PROVE Reported(rest)
    <3>1. i - 1 \in DOMAIN rest /\ rest[i - 1] = "lost"
      BY <1>1, <2>2
    <3> QED
      BY <3>1 DEF Reported
  <2> QED
    BY <2>1, <2>2 DEF Reported
<1>3. ASSUME NEW i \in DOMAIN rest, NEW j \in DOMAIN rest, rest[i] = "lost", rest[j] = "lost"
      PROVE  i = j
  <2>1. /\ i + 1 \in DOMAIN idle /\ idle[i + 1] = "lost"
        /\ j + 1 \in DOMAIN idle /\ idle[j + 1] = "lost"
    BY <1>1, <1>3
  <2>2. i + 1 = j + 1
    BY <2>1 DEF Sound
  <2> QED
    BY <1>1, <1>3, <2>2
<1>4. ASSUME NEW j \in DOMAIN rest, rest[j] = "clean"
      PROVE  lost = 1 \/ \E i \in 1..(j - 1) : rest[i] = "lost"
  <2>1. j + 1 \in DOMAIN idle /\ idle[j + 1] = "clean"
    BY <1>1, <1>4
  <2>2. lost = 1 \/ \E i \in 1..((j + 1) - 1) : idle[i] = "lost"
    BY <2>1 DEF Sound
  <2>3. ASSUME NEW i \in 1..((j + 1) - 1), idle[i] = "lost"
        PROVE  \E k \in 1..(j - 1) : rest[k] = "lost"
    <3>1. i - 1 \in 1..(j - 1) /\ rest[i - 1] = "lost"
      BY <1>1, <1>4, <2>3
    <3> QED
      BY <3>1
  <2> QED
    BY <2>2, <2>3
<1>5. Sound(rest)
  BY <1>2, <1>3, <1>4 DEF Sound
<1> QED
  BY <1>1, <1>5 DEF rest

\* A call of close(): the first one reports the loss, any other changes nothing.
LEMMA ClosesOnce ==
    ASSUME ThreadInv, ConnTypeOK, LossInv, NEW t \in Closing, NEW next \in ResumeLabels(t),
           NEW callbacks \in Seq(IdleLabels), Sound(callbacks),
           CloseThen(t, next, callbacks), UNCHANGED <<lost, stolen, cleaned>>
    PROVE  LossInv'
<1>l. pc \in [Threads -> AllLabels] /\ t \in Threads
  BY DEF ThreadInv, ThreadTypeOK, Closing, Threads
<1>1. CASE closed
  <2>1. Goto(t, next) /\ idle' = callbacks /\ closed' = closed
    BY <1>1 DEF CloseThen, AlreadyClosed
  <2>2. next \notin CloseLabels
    BY DEF ResumeLabels, CloseLabels, Closing
  <2>3. Guarded
    BY <1>l, <2>1, <2>2, Outside
  <2>4. Sound(idle)'
    BY <2>1 DEF Sound, Reported
  <2>5. OnlyClosed'
    BY <2>1, <2>3 DEF LossInv, OnlyClosed, Guarded
  <2> QED
    BY <2>4, <2>5 DEF LossInv
<1>2. CASE ~closed
  <2>1. closed' = TRUE /\ idle' = Append(callbacks, "lost")
    BY <1>2 DEF CloseThen, AlreadyClosed, Announce
  <2>2. ~stolen /\ lost = 0 /\ ~cleaned /\ ~Reported(callbacks)
    BY <1>2 DEF LossInv, OnlyClosed, Sound
  <2>3. \A i \in DOMAIN callbacks : callbacks[i] # "lost" /\ callbacks[i] # "clean"
    <3>1. \A i \in DOMAIN callbacks : callbacks[i] # "lost"
      BY <2>2 DEF Reported
    <3>2. \A j \in DOMAIN callbacks : \A i \in 1..(j - 1) : i \in DOMAIN callbacks
      OBVIOUS
    <3> QED
      BY <2>2, <3>1, <3>2 DEF Sound
  <2>4. /\ Len(callbacks) \in Nat /\ DOMAIN callbacks = 1..Len(callbacks)
        /\ DOMAIN idle' = 1..(Len(callbacks) + 1)
        /\ \A i \in 1..Len(callbacks) : idle'[i] = callbacks[i]
        /\ idle'[Len(callbacks) + 1] = "lost"
    BY <2>1 DEF IdleLabels
  <2>5. \A i \in DOMAIN idle' : (idle'[i] = "lost" => i = Len(callbacks) + 1) /\ idle'[i] # "clean"
    BY <2>3, <2>4
  <2>6. Reported(idle')
    BY <2>4 DEF Reported
  <2>7. Sound(idle)'
    BY <2>1, <2>2, <2>5, <2>6 DEF Sound, Reported
  <2>8. OnlyClosed'
    BY <2>1, <2>2 DEF OnlyClosed
  <2> QED
    BY <2>7, <2>8 DEF LossInv
<1> QED
  BY <1>1, <1>2

-----------------------------------------------------------------------------
\* The step that starts the write thread enters nothing either.
LEMMA Starts ==
    ASSUME pc \in [Threads -> AllLabels], NEW t \in Threads, NEW label,
           label \notin CloseLabels, StartWriteThread(t, label)
    PROVE  Guarded
<1>1. "check" \notin CloseLabels
  BY DEF CloseLabels
<1> QED
  BY <1>1 DEF StartWriteThread, Guarded, Closing, Threads

\* The write thread's own labels are outside close().
LEMMA NotClosing == \A label \in WriteLabels : label \notin CloseLabels
  BY DEF WriteLabels, CloseLabels

\* What the proofs below use of the types.
LEMMA Typed ==
    ASSUME TypeInv
    PROVE  /\ pc \in [Threads -> AllLabels] /\ idle \in Seq(IdleLabels)
           /\ ThreadInv /\ ConnTypeOK /\ LoopTypeOK
  BY DEF TypeInv, ThreadInv, ThreadTypeOK, LoopTypeOK, IdleLabels

\* The steps of close(): clean() is only asked for behind the report.
LEMMA CloseStepLoss ==
    ASSUME TypeInv, LossInv, NEW t \in Closing, CloseStep(t)
    PROVE  LossInv'
<1>t. pc \in [Threads -> AllLabels] /\ t \in Threads
  BY Typed DEF Closing, Threads
<1>1. CASE CloseConnection(t) \/ SwapQueue(t)
  <2>1. Guarded
    BY <1>1, <1>t, Inside DEF CloseConnection, SwapQueue, CloseLabels
  <2> QED
    BY <1>1, <2>1, Unheard DEF CloseConnection, SwapQueue, Quiet, connVars, outVars, loopVars
<1>2. CASE DrainQueue(t)
  <2>1. Guarded
    BY <1>2, <1>t, Inside DEF DrainQueue, CloseLabels
  <2> QED
    BY <1>2, <2>1, Unheard DEF DrainQueue, Quiet, connVars, outVars, loopVars
<1>3. CASE MarkQueue(t)
  <2>1. pc[t] \in CloseLabels
    BY <1>3 DEF MarkQueue, CloseLabels
  <2>2. cont[t] \in ResumeLabels(t)
    BY <2>1, Typed DEF ThreadInv, Resumes
  <2>3. cont[t] \notin CloseLabels
    BY <2>2 DEF ResumeLabels, CloseLabels, Closing
  <2>4. Guarded
    BY <1>3, <1>t, <2>3, Outside DEF MarkQueue
  <2>5. Quiet
    BY <1>3 DEF MarkQueue, Quiet, connVars, outVars
  <2>6. CASE stolen
    BY <1>3, <2>4, <2>5, <2>6, Unheard DEF MarkQueue
  <2>7. CASE ~stolen
    <3>1. idle' = Append(idle, "clean") /\ "clean" \in IdleLabels \ {"lost"}
      BY <1>3, <2>7 DEF MarkQueue, IdleLabels
    <3>2. closed
      BY <2>1 DEF LossInv, OnlyClosed
    <3>3. lost = 1 \/ Reported(idle)
      BY <2>7, <3>2 DEF LossInv, Sound
    <3> QED
      BY <2>4, <2>5, <3>1, <3>3, Typed, Adds
  <2> QED
    BY <2>6, <2>7
<1> QED
  BY <1>1, <1>2, <1>3 DEF CloseStep

\* What a packet handler may call.
LEMMA HandlerLoss ==
    ASSUME TypeInv, LossInv, NEW t \in {"main", "parse"},
           HandlerClose(t) \/ StealConnection(t) \/ FlushThenClose(t)
    PROVE  LossInv'
<1>t. pc \in [Threads -> AllLabels] /\ t \in Threads /\ t \in Closing
  BY Typed DEF Closing, Threads
<1>1. CASE HandlerClose(t)
  <2>1. Home(t) \in ResumeLabels(t)
    BY DEF Home, ResumeLabels
  <2>2. CloseThen(t, Home(t), idle) /\ UNCHANGED <<lost, stolen, cleaned>>
    BY <1>1 DEF HandlerClose, outVars
  <2> QED
    BY <1>t, <2>1, <2>2, Typed, ClosesOnce DEF LossInv
<1>2. CASE StealConnection(t)
  <2>1. /\ ~closed /\ closed' /\ stolen' /\ UNCHANGED <<lost, cleaned, idle>>
    BY <1>2 DEF StealConnection, loopVars, outVars
  <2>2. lost = 0 /\ ~Reported(idle) /\ ~cleaned
    BY <2>1 DEF LossInv, OnlyClosed, Sound
  <2>3. Sound(idle)'
    BY <2>1, <2>2 DEF LossInv, Sound, Reported
  <2>4. OnlyClosed'
    BY <2>1, <2>2 DEF OnlyClosed
  <2> QED
    BY <2>3, <2>4 DEF LossInv
<1>3. CASE FlushThenClose(t)
  <2>1. "fl_lock" \notin CloseLabels
    BY DEF CloseLabels
  <2>2. CASE UNCHANGED pc
    <3>1. Guarded
      BY <2>2 DEF Guarded
    <3> QED
      BY <1>3, <3>1, Unheard DEF FlushThenClose, Quiet, connVars, outVars, loopVars
  <2>3. CASE Goto(t, "fl_lock")
    <3>1. Guarded
      BY <1>t, <2>1, <2>3, Outside
    <3> QED
      BY <1>3, <3>1, Unheard DEF FlushThenClose, Quiet, connVars, outVars, loopVars
  <2> QED
    BY <1>3, <2>2, <2>3 DEF FlushThenClose
<1> QED
  BY <1>1, <1>2, <1>3

\* The producers: they only wake the format thread up.
LEMMA ProducerLoss ==
    ASSUME TypeInv, LossInv, NEW p \in Producers,
           Produce(p) \/ Notify(p) \/ StartFormatThread(p)
    PROVE  LossInv'
<1>1. Quiet /\ UNCHANGED idle
  BY DEF Produce, Notify, StartFormatThread, Quiet, connVars, outVars, loopVars
<1>2. UNCHANGED pc \/ Goto("format", "check")
  BY DEF Produce, Notify, StartFormatThread, threadVars
<1>3. CASE UNCHANGED pc
  <2>1. Guarded
    BY <1>3 DEF Guarded
  <2> QED
    BY <1>1, <2>1, Unheard
<1>4. CASE Goto("format", "check")
  <2>1. "format" \in Threads /\ "check" \notin CloseLabels
    BY DEF Threads, CloseLabels
  <2>2. Guarded
    BY <1>4, <2>1, Typed, Outside
  <2> QED
    BY <1>1, <2>2, Unheard
<1> QED
  BY <1>2, <1>3, <1>4

\* The format thread: encode() may fail and have the connection closed later.
LEMMA FormatLoss == ASSUME TypeInv, LossInv, FormatNext PROVE LossInv'
<1>1. \A t \in Closing : pc'[t] \in CloseLabels => pc[t] \in CloseLabels
  <2>1. CASE FormatRawWrite
    <3>1. CASE pc["format"] = "rawwrite"
      BY <2>1, <3>1, Typed DEF FormatRawWrite, StartWriteThread, Closing, CloseLabels, Threads
    <3>2. CASE pc["format"] # "rawwrite"
      BY <2>1, <3>2, Typed DEF FormatRawWrite, Goto, Closing, Threads
    <3> QED
      BY <3>1, <3>2
  <2>2. CASE FormatWait \/ FormatGet \/ FormatClear \/ FormatError
    BY <2>2, Typed DEF FormatWait, FormatGet, FormatClear, FormatError, Goto, Closing, Threads
  <2>3. CASE FormatAcquire \/ FormatPut \/ FormatRelease
    BY <2>3, Typed DEF FormatAcquire, FormatPut, FormatRelease, Goto, Closing, Threads
  <2> QED
    BY <2>1, <2>2, <2>3 DEF FormatNext
<1>2. Guarded
  BY <1>1 DEF Guarded
<1>3. Quiet
  BY DEF FormatNext, FormatWait, FormatGet, FormatClear, FormatError, FormatAcquire,
         FormatRawWrite, FormatPut, FormatRelease, Quiet, connVars, outVars
<1>4. idle' = idle \/ idle' = Append(idle, "close")
  BY DEF FormatNext, FormatWait, FormatGet, FormatClear, FormatError, FormatAcquire,
         FormatRawWrite, FormatPut, FormatRelease, loopVars
<1>5. "close" \in IdleLabels \ {"lost"} /\ "close" # "clean"
  BY DEF IdleLabels
<1> QED
  BY <1>2, <1>3, <1>4, <1>5, Unheard, Adds, Typed

\* A write thread that moves on without calling close().
LEMMA WriteMoves ==
    ASSUME TypeInv, LossInv, NEW label \in WriteLabels, Goto("write", label), Quiet,
           UNCHANGED idle \/ idle' = Append(idle, "close")
    PROVE  LossInv'
<1>1. "write" \in Threads /\ label \notin CloseLabels
  BY NotClosing DEF Threads
<1>2. Guarded
  BY <1>1, Typed, Outside
<1>3. "close" \in IdleLabels \ {"lost"} /\ "close" # "clean"
  BY DEF IdleLabels
<1> QED
  BY <1>2, <1>3, Unheard, Adds, Typed

\* The write thread calls close(), and ends.
LEMMA WriteCloses ==
    ASSUME TypeInv, LossInv, CloseThen("write", "exit", idle),
           UNCHANGED <<lost, stolen, cleaned>>
    PROVE  LossInv'
<1>1. "write" \in Closing /\ "exit" \in ResumeLabels("write")
  BY DEF Closing, ResumeLabels
<1> QED
  BY <1>1, Typed, ClosesOnce DEF LossInv

\* A failed write: an OSError leaves close() to the main loop.
LEMMA FailLoss == ASSUME TypeInv, LossInv, NEW e, WriteFail(e) PROVE LossInv'
<1>1. CASE e = "os"
  <2>1. Goto("write", "exit") /\ Quiet /\ (UNCHANGED idle \/ idle' = Append(idle, "close"))
    BY <1>1 DEF WriteFail, AfterOSError, Quiet
  <2>2. "exit" \in WriteLabels
    BY DEF WriteLabels
  <2> QED
    BY <2>1, <2>2, WriteMoves
<1>2. CASE e # "os"
  BY <1>2, WriteCloses DEF WriteFail
<1> QED
  BY <1>1, <1>2

\* The write thread.
LEMMA WriteLoss == ASSUME TypeInv, LossInv, WriteNext PROVE LossInv'
<1>l. {"check", "capture", "get", "write", "send", "exit"} \subseteq WriteLabels
  BY DEF WriteLabels
<1>1. CASE WriteCheck \/ WriteBegin \/ WriteSend \/ WriteCut
  <2>1. Quiet /\ UNCHANGED idle
    BY <1>1 DEF WriteCheck, WriteBegin, WriteSend, WriteCut, Quiet, connVars, outVars, loopVars
  <2>2. \E label \in WriteLabels : Goto("write", label)
    BY <1>1, <1>l DEF WriteCheck, WriteBegin, WriteSend, WriteCut
  <2> QED
    BY <2>1, <2>2, WriteMoves
<1>2. CASE WriteCapture
  <2>1. CASE exit_queue
    BY <1>2, <2>1, WriteCloses DEF WriteCapture, outVars
  <2>2. CASE ~exit_queue
    <3>1. Goto("write", "get") /\ Quiet /\ UNCHANGED idle
      BY <1>2, <2>2 DEF WriteCapture, Quiet, outVars
    <3> QED
      BY <3>1, <1>l, WriteMoves
  <2> QED
    BY <2>1, <2>2
<1>3. CASE WriteGet
  <2>1. CASE Head(write_queue) = EmptyMarker
    BY <1>3, <2>1, WriteCloses DEF WriteGet, outVars
  <2>2. CASE Head(write_queue) # EmptyMarker
    <3>1. Goto("write", "write") /\ Quiet /\ UNCHANGED idle
      BY <1>3, <2>2 DEF WriteGet, Quiet, outVars
    <3> QED
      BY <3>1, <1>l, WriteMoves
  <2> QED
    BY <2>1, <2>2
<1>4. CASE WriteAbort
  BY <1>4, FailLoss DEF WriteAbort
<1>5. ASSUME NEW e \in WriteErrors, WriteFail(e) PROVE LossInv'
  BY <1>5, FailLoss
<1> QED
  BY <1>1, <1>2, <1>3, <1>4, <1>5 DEF WriteNext

\* The parse thread: whatever it finds out is left to the main loop.
LEMMA ParseLoss == ASSUME TypeInv, LossInv, ParseNext PROVE LossInv'
<1>1. Quiet
  BY DEF ParseNext, ParseBegin, ParseClosed, ParseConnGone, ParseEof, ParseInvalid, Quiet,
         connVars, outVars
<1>2. UNCHANGED idle \/ idle' = Append(idle, "close") \/ idle' = Append(idle, "invalid")
  BY DEF ParseNext, ParseBegin, ParseClosed, ParseConnGone, ParseEof, ParseInvalid,
         HangUpLater, loopVars
<1>3. Goto("parse", "read") \/ Goto("parse", "exit")
  BY DEF ParseNext, ParseBegin, ParseClosed, ParseConnGone, ParseEof, ParseInvalid
<1>4. "parse" \in Threads /\ "read" \notin CloseLabels /\ "exit" \notin CloseLabels
  BY DEF Threads, CloseLabels
<1>5. Guarded
  BY <1>3, <1>4, Typed, Outside
<1>6. {"close", "invalid"} \subseteq IdleLabels \ {"lost", "clean"}
  BY DEF IdleLabels
<1> QED
  BY <1>1, <1>2, <1>5, <1>6, Unheard, Adds, Typed

-----------------------------------------------------------------------------
\* The main loop takes a callback that is not the report and changes little.
LEMMA Runs ==
    ASSUME TypeInv, LossInv, idle # <<>>, Head(idle) # "lost", idle' = Tail(idle), Quiet,
           Guarded
    PROVE  LossInv'
<1>1. Sound(Tail(idle))
  BY Typed, Rest DEF LossInv
<1>2. Sound(idle)'
  BY <1>1 DEF Sound, Reported, Quiet
<1>3. OnlyClosed'
  BY DEF LossInv, OnlyClosed, Quiet, Guarded
<1> QED
  BY <1>2, <1>3 DEF LossInv

\* The main loop calls close(), with these callbacks still pending.
LEMMA MainCloses ==
    ASSUME TypeInv, LossInv, NEW next \in {"idle", "fl_release"},
           NEW callbacks \in Seq(IdleLabels), Sound(callbacks),
           CloseThen("main", next, callbacks), UNCHANGED <<lost, stolen, cleaned>>
    PROVE  LossInv'
<1>1. "main" \in Closing /\ next \in ResumeLabels("main")
  BY DEF Closing, ResumeLabels
<1> QED
  BY <1>1, Typed, ClosesOnce

\* The report is run: it was the only one, and nothing else reports the loss.
LEMMA ReportLoss == ASSUME TypeInv, LossInv, RunLost PROVE LossInv'
<1> DEFINE rest == Tail(idle)
<1>1. /\ Len(idle) \in Nat \ {0} /\ DOMAIN idle = 1..Len(idle) /\ idle[1] = "lost"
      /\ rest \in Seq(IdleLabels) /\ DOMAIN rest = 1..(Len(idle) - 1)
      /\ \A i \in 1..(Len(idle) - 1) : rest[i] = idle[i + 1]
  BY Typed DEF RunLost, IdleLabels
<1>2. idle' = rest /\ lost' = lost + 1 /\ UNCHANGED <<closed, stolen, cleaned, pc>>
  BY DEF RunLost, connVars, threadVars
<1> HIDE DEF rest
<1>3. Reported(idle)
  BY <1>1 DEF Reported
<1>4. lost = 0 /\ closed /\ ~stolen
  BY <1>3 DEF LossInv, Sound
<1>5. ~Reported(rest)
  <2> SUFFICES ASSUME NEW i \in DOMAIN rest, rest[i] = "lost" PROVE FALSE
    BY DEF Reported
  <2>1. 1 \in DOMAIN idle /\ i + 1 \in DOMAIN idle /\ idle[i + 1] = "lost"
    BY <1>1
  <2>2. i + 1 = 1
    BY <1>1, <2>1 DEF LossInv, Sound
  <2> QED
    BY <1>1, <2>2
<1>6. Sound(idle)'
  BY <1>2, <1>4, <1>5 DEF Sound, Reported
<1>7. OnlyClosed'
  BY <1>2, <1>4 DEF LossInv, OnlyClosed
<1> QED
  BY <1>6, <1>7 DEF LossInv

\* clean() is run: the report was in front of it.
LEMMA CleanLoss == ASSUME TypeInv, LossInv, RunClean PROVE LossInv'
<1>1. /\ Len(idle) \in Nat \ {0} /\ DOMAIN idle = 1..Len(idle) /\ idle[1] = "clean"
  BY Typed DEF RunClean, IdleLabels
<1>2. lost = 1
  BY <1>1 DEF LossInv, Sound
<1>3. idle' = Tail(idle) /\ cleaned' = TRUE /\ UNCHANGED <<lost, closed, stolen, pc>>
  BY DEF RunClean, threadVars, outVars
<1>4. Sound(Tail(idle))
  BY Typed, Rest DEF LossInv, RunClean
<1>5. Sound(idle)'
  BY <1>3, <1>4 DEF Sound, Reported
<1>6. OnlyClosed'
  BY <1>2, <1>3 DEF LossInv, OnlyClosed
<1> QED
  BY <1>5, <1>6 DEF LossInv

\* The main loop.
LEMMA MainLoss == ASSUME TypeInv, LossInv, MainNext PROVE LossInv'
<1>t. "main" \in Threads
  BY DEF Threads
<1>1. CASE RunStart
  <2>1. "begin" \notin CloseLabels /\ "parse" \in Threads
    BY DEF CloseLabels, Threads
  <2>2. Guarded
    <3>1. CASE UNCHANGED pc
      BY <3>1 DEF Guarded
    <3>2. CASE Goto("parse", "begin")
      BY <2>1, <3>2, Typed, Outside
    <3> QED
      BY <1>1, <3>1, <3>2 DEF RunStart
  <2> QED
    BY <1>1, <2>2, Runs DEF RunStart, Quiet, connVars, outVars
<1>2. CASE RunInvalid
  <2>1. Guarded
    BY <1>2 DEF RunInvalid, threadVars, Guarded
  <2> QED
    BY <1>2, <2>1, Runs DEF RunInvalid, Quiet, connVars, outVars
<1>3. CASE RunClose
  <2>1. Sound(Tail(idle)) /\ Tail(idle) \in Seq(IdleLabels)
    BY <1>3, Typed, Rest DEF LossInv, RunClose
  <2> QED
    BY <1>3, <2>1, MainCloses DEF RunClose, outVars
<1>4. CASE HangupTimer
  BY <1>4, Typed, MainCloses DEF HangupTimer, outVars, LossInv
<1>5. CASE FlushTimer
  <2>1. UNCHANGED <<lost, stolen, cleaned>>
    BY <1>5 DEF FlushTimer, outVars
  <2>2. CASE CloseThen("main", "fl_release", idle)
    BY <2>1, <2>2, Typed, MainCloses DEF LossInv
  <2>3. CASE Goto("main", "fl_queue") /\ UNCHANGED <<closed, idle>>
    <3>1. "fl_queue" \notin CloseLabels
      BY DEF CloseLabels
    <3>2. Guarded
      BY <1>t, <2>3, <3>1, Typed, Outside
    <3> QED
      BY <2>1, <2>3, <3>2, Unheard DEF Quiet
  <2> QED
    BY <1>5, <2>2, <2>3 DEF FlushTimer
<1>6. CASE CleanupProtocol
  <2>1. Guarded
    BY <1>6 DEF CleanupProtocol, threadVars, Guarded
  <2> QED
    BY <1>6, <2>1, Unheard DEF CleanupProtocol, Quiet, connVars, outVars, loopVars
<1> QED
  BY <1>1, <1>2, <1>3, <1>4, <1>5, <1>6, ReportLoss, CleanLoss DEF MainNext

\* The steps of flush_then_close().
LEMMA FlushLoss ==
    ASSUME TypeInv, LossInv, NEW t \in {"main", "parse"}, FlushStep(t)
    PROVE  LossInv'
<1>t. t \in Threads /\ t \in Closing
  BY DEF Closing, Threads
<1>r. /\ "fl_done" \in ResumeLabels(t) /\ "fl_release" \in ResumeLabels(t)
      /\ "fl_release_timer" \in ResumeLabels(t)
  BY DEF ResumeLabels
<1>1. UNCHANGED <<lost, stolen, cleaned>>
  BY DEF FlushStep, FlushLock, FlushTimedOut, FlushWaitQueue, FlushRawWrite, FlushPut,
         FlushSent, FlushRelease, connVars, outVars
<1>2. ASSUME NEW next \in ResumeLabels(t), CloseThen(t, next, idle)
      PROVE  LossInv'
  BY <1>t, <1>1, <1>2, Typed, ClosesOnce DEF LossInv
<1>3. ASSUME NEW label, label \notin CloseLabels, Goto(t, label), UNCHANGED <<closed, idle>>
      PROVE  LossInv'
  <2>1. Guarded
    BY <1>t, <1>3, Typed, Outside
  <2> QED
    BY <1>1, <1>3, <2>1, Unheard DEF Quiet
<1>l. /\ Home(t) \notin CloseLabels /\ "fl_queue" \notin CloseLabels
      /\ "fl_raw" \notin CloseLabels /\ "fl_sent" \notin CloseLabels
      /\ "fl_put" \notin CloseLabels
  BY DEF Home, CloseLabels
<1>4. CASE FlushLock(t)
  BY <1>2, <1>3, <1>4, <1>l, <1>r DEF FlushLock, TimedOut
<1>5. CASE FlushTimedOut(t) \/ FlushPut(t) \/ FlushRelease(t)
  BY <1>3, <1>5, <1>l DEF FlushTimedOut, FlushPut, FlushRelease, connVars, loopVars
<1>6. CASE FlushWaitQueue(t)
  BY <1>2, <1>3, <1>6, <1>l, <1>r DEF FlushWaitQueue
<1>7. CASE FlushRawWrite(t)
  <2>1. UNCHANGED <<closed, idle>>
    BY <1>7 DEF FlushRawWrite, connVars, loopVars
  <2>2. Guarded
    <3>1. CASE exit_queue
      BY <1>7, <1>t, <1>l, <3>1, Typed, Starts DEF FlushRawWrite
    <3>2. CASE ~exit_queue
      BY <1>7, <1>t, <1>l, <3>2, Typed, Starts DEF FlushRawWrite
    <3> QED
      BY <3>1, <3>2
  <2> QED
    BY <1>1, <2>1, <2>2, Unheard DEF Quiet
<1>8. CASE FlushSent(t)
  BY <1>2, <1>3, <1>8, <1>l, <1>r DEF FlushSent
<1> QED
  BY <1>4, <1>5, <1>6, <1>7, <1>8 DEF FlushStep

-----------------------------------------------------------------------------
\* The invariant always holds.
LEMMA LossInvariance == Spec => []LossInv
<1>1. Init => LossInv
  <2> SUFFICES ASSUME Init PROVE LossInv
    OBVIOUS
  <2>1. idle = <<"start">> /\ lost = 0 /\ ~closed /\ ~stolen /\ ~cleaned
    BY DEF Init
  <2>2. \A i \in DOMAIN idle : idle[i] # "lost" /\ idle[i] # "clean"
    BY <2>1
  <2>3. \A t \in Closing : pc[t] \notin CloseLabels
    BY DEF Init, Closing, Threads, CloseLabels
  <2> QED
    BY <2>1, <2>2, <2>3 DEF LossInv, Sound, OnlyClosed, Reported
<1>2. TypeInv /\ LossInv /\ [Next]_vars => LossInv'
  <2> SUFFICES ASSUME TypeInv, LossInv, [Next]_vars PROVE LossInv'
    OBVIOUS
  <2>1. CASE UNCHANGED vars
    <3>1. Quiet /\ UNCHANGED <<idle, pc>>
      BY <2>1 DEF vars, Quiet, connVars, outVars, loopVars, threadVars
    <3>2. Guarded
      BY <3>1 DEF Guarded
    <3> QED
      BY <3>1, <3>2, Unheard
  <2>2. CASE Next
    BY <2>2, ProducerLoss, FormatLoss, WriteLoss, ParseLoss, MainLoss, CloseStepLoss,
       HandlerLoss, FlushLoss DEF Next, Closing
  <2> QED
    BY <2>1, <2>2
<1> QED
  BY <1>1, <1>2, TypeInvariance, PTL DEF Spec

\* Whatever the threads do, and however often close() is called, the loss of a
\* connection is processed at most once, never for a stolen one, and before
\* clean() drops what its handler may need.
THEOREM LostOnceHolds == Spec => []LostOnce
<1>1. LossInv => LostOnce
  BY DEF LossInv, OnlyClosed, LostOnce
<1> QED
  BY <1>1, LossInvariance, PTL
=============================================================================
