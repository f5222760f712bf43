---------------------------- MODULE MediaStream ----------------------------
(***************************************************************************)
(* A stream of the media server (mediacontrol/server): NativeSensor, whose *)
(* loop thread takes the pictures from the ISP, connected to NativeDewarp, *)
(* whose driver (DewarpDriver) makes pictures for the user of them, and    *)
(* V4l2Control, which tells the kernel that a user buffer is done.  The    *)
(* buffers between sensor and dewarp are those of the MediaBufferQueue of  *)
(* the dewarp's sink pad.                                                  *)
(*                                                                         *)
(* The kernel's events are handled under the mutex of EventSource.  It     *)
(* sends START and STOP of the one stream in turn.  What is not under src/ *)
(* is modelled as this code uses it: the output chain of the ISP fills the *)
(* buffers it was given while it is attached, and the kernel queues a user *)
(* buffer again only when it is done or the stream has stopped.            *)
(***************************************************************************)
EXTENDS DewarpDriver, FiniteSets

ASSUME MediaAssumption == IsFiniteSet(Sources) /\ Sources \cap Targets = {}

VARIABLES
  event,         \* the thread that handles an event, holding the mutex
  sensorRunning, \* NativeSensor::bRunning
  dewarpRunning, \* NativeDewarp::bRunning
  loop,          \* the loop thread of the sensor
  give,          \* the buffer callback, in the request thread of the driver
  pad,           \* mBuffers of the pad, in the order of the list
  free,          \* those with BUFFER_STATUS_FREE; the others are DEQUEUED
  known,         \* known[b]: fullQueue's entry for b
  chain,         \* is the output chain of the ISP attached?
  isp,           \* buffers the ISP may fill
  full,          \* pictures the ISP has taken, oldest first
  queued,        \* user buffers the kernel has queued
  missed         \* has a search of the list ever missed its buffer?

padVars == <<pad, free>>
ispVars == <<chain, isp, full>>
moduleVars == <<event, sensorRunning, dewarpRunning>>
mediaVars == <<moduleVars, loop, give, padVars, known, ispVars, queued, missed>>
vars == <<driverVars, mediaVars>>

NoLoop == [at |-> "none", buf |-> NoBuffer, torn |-> FALSE]
NoGive == [at |-> "none", buf |-> NoBuffer, torn |-> FALSE]
LoopWaiting == [NoLoop EXCEPT !.at = "wait"]

MediaTypeOK ==
  /\ DriverTypeOK
  /\ event \in {"idle", "startSensor", "joinSensor", "stopDewarp", "joinDewarp"}
  /\ sensorRunning \in BOOLEAN /\ dewarpRunning \in BOOLEAN
  /\ loop \in [at : {"none", "wait", "event", "run", "search"},
               buf : Sources \cup {NoBuffer}, torn : BOOLEAN]
  /\ give \in [at : {"none", "search", "changed", "qbuf", "done"},
               buf : Sources \cup {NoBuffer}, torn : BOOLEAN]
  /\ pad \in Seq(Sources) /\ IsInjective(pad)
  /\ free \subseteq ToSet(pad)
  /\ known \in [Sources -> {"none", "stale", "current"}]
  /\ chain \in BOOLEAN
  /\ isp \subseteq Sources /\ full \in Seq(Sources)
  /\ queued \subseteq Targets
  /\ missed \in BOOLEAN

MediaInit ==
  /\ DriverInit
  /\ event = "idle" /\ sensorRunning = FALSE /\ dewarpRunning = FALSE
  /\ loop = NoLoop /\ give = NoGive
  /\ pad = <<>> /\ free = {} /\ known = [b \in Sources |-> "none"]
  /\ chain = FALSE /\ isp = {} /\ full = <<>>
  /\ queued = {} /\ missed = FALSE

-----------------------------------------------------------------------------
(* MediaPipeline::start starts the dewarp, then the sensor. *)

StartDewarp ==
  /\ event = "idle" /\ ~dewarpRunning
  /\ StartThreads
  /\ pad' = SetToSeq(Sources) /\ free' = Sources
  /\ dewarpRunning' = TRUE
  /\ event' = "startSensor"
  /\ UNCHANGED <<sensorRunning, loop, give, known, ispVars, queued, missed>>

\* Faulty variant for the checks: the buffers keep their status.
StartSensorKeeps ==
  /\ event = "startSensor"
  /\ isp' = free
  /\ chain' = TRUE
  /\ sensorRunning' = TRUE
  /\ loop' = LoopWaiting
  /\ known' = [b \in Sources |-> IF known[b] = "none" THEN "none" ELSE "stale"]
  /\ event' = "idle"
  /\ UNCHANGED <<driverVars, dewarpRunning, give, pad, free, full, queued, missed>>

\* initBuffers hands every buffer of the pad to the ISP.  The entries of
\* fullQueue stay, though what they point to has gone.
StartSensor ==
  /\ event = "startSensor"
  /\ isp' = free /\ free' = {}
  /\ chain' = TRUE
  /\ sensorRunning' = TRUE
  /\ loop' = LoopWaiting
  /\ known' = [b \in Sources |-> IF known[b] = "none" THEN "none" ELSE "stale"]
  /\ event' = "idle"
  /\ UNCHANGED <<driverVars, dewarpRunning, give, pad, full, queued, missed>>

-----------------------------------------------------------------------------
(* MediaPipeline::stop stops the sensor, then the dewarp. *)

StopSensor ==
  /\ event = "idle" /\ sensorRunning
  /\ sensorRunning' = FALSE
  /\ event' = "joinSensor"
  /\ UNCHANGED <<driverVars, dewarpRunning, loop, give, padVars, known, ispVars,
                 queued, missed>>

\* The loop thread has ended; the chain is detached and its buffers cleared.
SensorJoined ==
  /\ event = "joinSensor" /\ loop.at = "none"
  /\ chain' = FALSE /\ isp' = {} /\ full' = <<>>
  /\ event' = "stopDewarp"
  /\ UNCHANGED <<driverVars, sensorRunning, dewarpRunning, loop, give, padVars,
                 known, queued, missed>>

StopDewarp ==
  /\ event = "stopDewarp"
  /\ dewarpRunning' = FALSE
  /\ Stop
  /\ event' = "joinDewarp"
  /\ UNCHANGED <<sensorRunning, loop, give, padVars, known, ispVars, queued,
                 missed>>

\* Faulty variant for the checks: all is cleared before the driver has stopped.
DewarpStoppedEarly ==
  /\ event = "joinDewarp"
  /\ Clear
  /\ pad' = <<>> /\ free' = {}
  /\ queued' = {}
  /\ event' = "idle"
  /\ UNCHANGED <<sensorRunning, dewarpRunning, loop, give, known, ispVars, missed>>

\* The driver has stopped: its FIFOs are cleared, the pad's buffers deleted.
\* The kernel gives the user its buffers back.
DewarpStopped ==
  /\ event = "joinDewarp" /\ control = "idle"
  /\ Clear
  /\ pad' = <<>> /\ free' = {}
  /\ queued' = {}
  /\ event' = "idle"
  /\ UNCHANGED <<sensorRunning, dewarpRunning, loop, give, known, ispVars, missed>>

-----------------------------------------------------------------------------
(***************************************************************************)
(* NativeDewarp::run and IMediaModule::releasePadBuffer search the list of *)
(* the pad without its lock, each in its own thread, while the other may   *)
(* move a buffer to the end of it.  A search that this tears is undefined: *)
(* it may come to the end without having seen its buffer.                  *)
(***************************************************************************)
MoveToEnd(b) == Append(RemoveFirst(pad, b), b)

Searching(r) == [r EXCEPT !.at = "search", !.torn = FALSE]

Torn(r) == IF r.at = "search" THEN [r EXCEPT !.torn = TRUE] ELSE r

-----------------------------------------------------------------------------
(* NativeSensor::loop *)

\* Faulty variant for the checks: the thread looks at bRunning only when it has
\* a picture.
LoopEndBusy ==
  /\ loop.at = "wait" /\ ~sensorRunning /\ full # <<>>
  /\ loop' = NoLoop
  /\ UNCHANGED <<driverVars, moduleVars, give, padVars, known, ispVars, queued,
                 missed>>

LoopEnd ==
  /\ loop.at = "wait" /\ ~sensorRunning
  /\ loop' = NoLoop
  /\ UNCHANGED <<driverVars, moduleVars, give, padVars, known, ispVars, queued,
                 missed>>

\* The test of bRunning; the wait for an event, of up to 100 ms, is next.
LoopTests ==
  /\ loop.at = "wait" /\ sensorRunning
  /\ loop' = [LoopWaiting EXCEPT !.at = "event"]
  /\ UNCHANGED <<driverVars, moduleVars, give, padVars, known, ispVars, queued,
                 missed>>

\* Faulty variant for the checks: an entry that is there is not replaced.
LoopTakesInserts ==
  /\ loop.at = "event" /\ full # <<>>
  /\ full' = Tail(full)
  /\ known' = [known EXCEPT ![Head(full)] = IF @ = "none" THEN "current" ELSE @]
  /\ loop' = [LoopWaiting EXCEPT !.at = "run", !.buf = Head(full)]
  /\ UNCHANGED <<driverVars, moduleVars, give, padVars, chain, isp, queued, missed>>

\* A picture that was ready in time is taken, also when the sensor has been
\* stopped since the test.
LoopTakes ==
  /\ loop.at = "event" /\ full # <<>>
  /\ full' = Tail(full)
  /\ known' = [known EXCEPT ![Head(full)] = "current"]
  /\ loop' = [LoopWaiting EXCEPT !.at = "run", !.buf = Head(full)]
  /\ UNCHANGED <<driverVars, moduleVars, give, padVars, chain, isp, queued, missed>>

LoopTimeOut ==
  /\ loop.at = "event" /\ full = <<>>
  /\ loop' = LoopWaiting
  /\ UNCHANGED <<driverVars, moduleVars, give, padVars, known, ispVars, queued,
                 missed>>

LoopRun ==
  /\ loop.at = "run"
  /\ loop' = IF dewarpRunning THEN Searching(loop) ELSE LoopWaiting
  /\ UNCHANGED <<driverVars, moduleVars, give, padVars, known, ispVars, queued,
                 missed>>

\* queueBuffer and acquiredBuffer: the buffer is moved to the end of the list
\* and pushed into the driver.
LoopPushes ==
  /\ loop.at = "search"
  /\ pad' = MoveToEnd(loop.buf)
  /\ Push(0, loop.buf)
  /\ give' = Torn(give)
  /\ loop' = LoopWaiting
  /\ UNCHANGED <<moduleVars, free, known, ispVars, queued, missed>>

LoopMisses ==
  /\ loop.at = "search" /\ loop.torn
  /\ missed' = TRUE
  /\ loop' = LoopWaiting
  /\ UNCHANGED <<driverVars, moduleVars, give, padVars, known, ispVars, queued>>

-----------------------------------------------------------------------------
(* NativeDewarp::onFrameAvailable *)

GiveStart ==
  /\ FrameAvailable
  /\ give' = Searching(NoGive)
  /\ UNCHANGED <<moduleVars, loop, padVars, known, ispVars, queued, missed>>

\* Faulty variant for the checks: the buffer keeps its status.
GiveReleasesNot ==
  /\ give.at = "search"
  /\ pad' = MoveToEnd(request.src)
  /\ loop' = Torn(loop)
  /\ give' = [NoGive EXCEPT !.at = "changed"]
  /\ UNCHANGED <<driverVars, moduleVars, free, known, ispVars, queued, missed>>

\* releaseBuffer
GiveReleases ==
  /\ give.at = "search"
  /\ pad' = MoveToEnd(request.src)
  /\ free' = free \cup {request.src}
  /\ loop' = Torn(loop)
  /\ give' = [NoGive EXCEPT !.at = "changed"]
  /\ UNCHANGED <<driverVars, moduleVars, known, ispVars, queued, missed>>

GiveMisses ==
  /\ give.at = "search" /\ give.torn
  /\ missed' = TRUE
  /\ give' = [NoGive EXCEPT !.at = "done"]
  /\ UNCHANGED <<driverVars, moduleVars, loop, padVars, known, ispVars, queued>>

\* The first free buffer of the list, as dequeueBuffer finds it.
FirstFree == pad[CHOOSE i \in DOMAIN pad :
                   pad[i] \in free /\ \A j \in 1 .. i - 1 : pad[j] \notin free]

\* NativeSensor::onConnectedPadBufferChanged tests bRunning ...
GiveChanged ==
  /\ give.at = "changed"
  /\ IF sensorRunning /\ free # {}
     THEN /\ free' = free \ {FirstFree}
          /\ give' = IF known[FirstFree] = "none"
                     THEN [give EXCEPT !.at = "done"]
                     ELSE [give EXCEPT !.at = "qbuf", !.buf = FirstFree]
     ELSE /\ give' = [give EXCEPT !.at = "done"]
          /\ UNCHANGED free
  /\ UNCHANGED <<driverVars, moduleVars, loop, pad, known, ispVars, queued, missed>>

\* Faulty variant for the checks: a chain that is detached takes the buffer.
GiveQbufAlways ==
  /\ give.at = "qbuf"
  /\ isp' = isp \cup {give.buf}
  /\ give' = [NoGive EXCEPT !.at = "done"]
  /\ UNCHANGED <<driverVars, moduleVars, loop, padVars, known, chain, full,
                 queued, missed>>

\* ... and gives the buffer to the chain, which refuses it when the sensor has
\* been stopped meanwhile.
GiveQbuf ==
  /\ give.at = "qbuf"
  /\ isp' = IF chain THEN isp \cup {give.buf} ELSE isp
  /\ give' = [NoGive EXCEPT !.at = "done"]
  /\ UNCHANGED <<driverVars, moduleVars, loop, padVars, known, chain, full,
                 queued, missed>>

\* V4l2Control::run: BUFDONE of the target, and the callback returns.
GiveDone ==
  /\ give.at = "done"
  /\ queued' = queued \ {request.dst}
  /\ CallbackReturns
  /\ give' = NoGive
  /\ UNCHANGED <<moduleVars, loop, padVars, known, ispVars, missed>>

-----------------------------------------------------------------------------
(* The qbuf thread: MediaPipeline::queueBuffer. *)

QueueBuffer ==
  \E t \in Targets \ queued :
    /\ event = "idle"
    /\ queued' = queued \cup {t}
    /\ PushTarget(t)
    /\ UNCHANGED <<moduleVars, loop, give, padVars, known, ispVars, missed>>

(* The ISP takes a picture. *)
IspFills ==
  \E b \in isp :
    /\ chain
    /\ isp' = isp \ {b} /\ full' = Append(full, b)
    /\ UNCHANGED <<driverVars, moduleVars, loop, give, padVars, known, chain,
                   queued, missed>>

DriverThreads ==
  /\ \/ RequestLoop \/ RequestFrame \/ FrameDone \/ FrameReady \/ FrameTimeOut
     \/ Stream \/ Joins \/ HwDone
  /\ UNCHANGED mediaVars

SensorLoop ==
  \/ LoopEnd \/ LoopTests \/ LoopTakes \/ LoopTimeOut
  \/ LoopRun \/ LoopPushes \/ LoopMisses

Give ==
  \/ GiveStart \/ GiveReleases \/ GiveMisses
  \/ GiveChanged \/ GiveQbuf \/ GiveDone

Events ==
  \/ StartSensor \/ SensorJoined \/ StopDewarp \/ DewarpStopped

MediaNext ==
  \/ StartDewarp \/ StopSensor \/ Events
  \/ SensorLoop \/ Give \/ DriverThreads
  \/ QueueBuffer \/ IspFills

MediaSpec == MediaInit /\ [][MediaNext]_vars

(***************************************************************************)
(* Fairness: the threads run, the driver's wait ends after 1000 ms, and    *)
(* the ISP fills the buffers it has.  Nobody is obliged to start or stop   *)
(* the stream or to queue a buffer, nor the dewarp hardware to be done.    *)
(***************************************************************************)
MediaFairness ==
  /\ WF_vars(SensorLoop) /\ WF_vars(Give) /\ WF_vars(Events)
  /\ WF_vars(IspFills)
  /\ WF_vars(Request /\ UNCHANGED mediaVars)
  /\ WF_vars(FrameTimeOut /\ UNCHANGED mediaVars)
  /\ WF_vars(Stream /\ UNCHANGED mediaVars)
  /\ WF_vars(Joins /\ UNCHANGED mediaVars)

MediaFairSpec == MediaSpec /\ MediaFairness

-----------------------------------------------------------------------------
Reading == request.src # NoBuffer /\ (request.at # "callback" \/ give.at = "search")

\* Where the pad buffer b is.
Holders(b) ==
  {h \in {"pad", "isp", "full", "loop", "input", "request", "give"} :
     \/ h = "pad" /\ b \in free
     \/ h = "isp" /\ b \in isp
     \/ h = "full" /\ b \in ToSet(full)
     \/ h = "loop" /\ b = loop.buf
     \/ h = "input" /\ b \in ToSet(input[0])
     \/ h = "request" /\ Reading /\ b = request.src
     \/ h = "give" /\ b = give.buf}

(***************************************************************************)
(* A pad buffer has at most one holder: the ISP never fills one that the   *)
(* loop thread, the driver or the callback still has, though the buffers   *)
(* come back in another thread than they left in and a stop may come in    *)
(* between.                                                                *)
(***************************************************************************)
OneHolder == \A b \in Sources : Cardinality(Holders(b)) <= 1

(***************************************************************************)
(* While the stream runs no pad buffer is lost and none is left on the     *)
(* pad, where nobody would come for it, except by a search of the pad's    *)
(* list that missed its buffer.                                            *)
(***************************************************************************)
BuffersCirculate ==
  event = "idle" /\ sensorRunning /\ ~missed =>
    \A b \in Sources :
      /\ Holders(b) # {}
      /\ b \in free => give.at = "changed"

(***************************************************************************)
(* The buffer given back to the ISP is the one its entry in fullQueue was  *)
(* made for since the last start, never one of an earlier stream that has  *)
(* the same address.                                                       *)
(***************************************************************************)
NoStaleEntry == give.at = "qbuf" => known[give.buf] = "current" \/ ~chain

Flow == INSTANCE FrameFlow WITH
  Frames <- Sources,
  flow <- (IF Reading THEN <<request.src>> ELSE <<>>)
            \o input[0]
            \o (IF loop.buf # NoBuffer THEN <<loop.buf>> ELSE <<>>)
            \o full

(***************************************************************************)
(* The stream implements FrameFlow: the dewarp reads the pictures in the   *)
(* order in which the ISP took them.                                       *)
(***************************************************************************)
PicturesInOrder == Flow!FlowSpec

(***************************************************************************)
(* The media server keeps to what the driver assumes of its caller: seen   *)
(* through the driver's state a stream is a behaviour of DewarpDriver.  A  *)
(* buffer is never pushed while the driver has it, and the FIFOs are       *)
(* cleared only when the driver has stopped.                               *)
(***************************************************************************)
UsesDriver == DriverSpec

Chain == INSTANCE IspChain WITH Buffers <- Sources

(***************************************************************************)
(* It keeps to the contract of the ISP's output chain, which OutputChain   *)
(* is shown to honour: a buffer goes back only when it was taken, and only *)
(* to a chain that is attached.                                            *)
(***************************************************************************)
UsesChain == Chain!ChainSpec

(***************************************************************************)
(* A user buffer that is queued while the stream runs comes back, however  *)
(* slow the hardware is, unless the stream is stopped or has lost buffers  *)
(* of the pad.                                                             *)
(***************************************************************************)
BuffersDone ==
  \A t \in Targets :
    t \in queued /\ sensorRunning ~> t \notin queued \/ ~sensorRunning \/ missed

(***************************************************************************)
(* START and STOP are handled in finite time, in whatever state the        *)
(* threads are, so that the mutex is given up and buffers can be queued.   *)
(***************************************************************************)
EventsHandled == event # "idle" ~> event = "idle"
=============================================================================
