---------------------------- MODULE DewarpDriver ----------------------------
(***************************************************************************)
(* The dewarp driver (dewarp/hal): a request thread that takes a source    *)
(* and a target buffer, starts the hardware on them, waits for the frame   *)
(* to be done and hands both back through the buffer callback; a stream    *)
(* thread that polls the interrupt status and posts frameDoneSignal; and   *)
(* the thread that starts and stops the two.  The buffers wait in FIFOs of *)
(* the buffer manager (mediacontrol/buffer).                               *)
(*                                                                         *)
(* The hardware is modelled as the driver uses it: it processes one frame  *)
(* while the bus is enabled, then shows FRAME_DONE until disableIrq.       *)
(***************************************************************************)
EXTENDS Integers, Sequences, SequencesExt

CONSTANTS
  Ports,    \* input ports in use: two with a dual ISP
  Sources,  \* source buffers
  Targets,  \* target buffers
  NoBuffer  \* address 0

ASSUME DewarpAssumption ==
  /\ Ports \in {{0}, {0, 1}}
  /\ NoBuffer \notin Sources \cup Targets

VARIABLES
  mode,    \* mRunMode, as the set of its bits
  input,   \* input[p]: BUFFER_TYPE_INPUT_FREE of the driver, port p
  output,  \* the FIFO of free target buffers, port 0
  ready,   \* ready[p]: BUFFER_TYPE_OUTPUT_READY of the driver
  request, \* the request thread
  stream,  \* the stream thread
  control, \* the thread in start or stop
  hw,      \* the hardware: busy with a target, showing FRAME_DONE
  permits, \* frameDoneSignal
  done,    \* targets whose picture is complete
  slow     \* has a frame ever not been done within the 1000 ms?

fifos == <<input, output, ready>>
device == <<hw, permits, done, slow>>
driverVars == <<mode, fifos, request, stream, control, device>>

Modes == SUBSET {"RUN", "STOPPING"}
Stopped == {}
Run == {"RUN"}

RequestAt(l) == [at |-> l, src |-> NoBuffer, dst |-> NoBuffer, port |-> 0]
NoFrame == [busy |-> FALSE, dst |-> NoBuffer, irq |-> FALSE]

DriverTypeOK ==
  /\ mode \in Modes
  /\ input \in [Ports -> Seq(Sources)]
  /\ output \in Seq(Targets)
  /\ ready \in [Ports -> Seq(Targets)]
  /\ request \in [at : {"none", "loop", "frame", "wait", "ready", "available",
                          "callback"},
                  src : Sources \cup {NoBuffer}, dst : Targets \cup {NoBuffer},
                  port : Ports]
  /\ stream \in {"none", "poll", "post"}
  /\ control \in {"idle", "joinRequest", "joinStream"}
  /\ hw \in [busy : BOOLEAN, dst : Targets \cup {NoBuffer}, irq : BOOLEAN]
  /\ permits \in 0 .. 2
  /\ done \subseteq Targets
  /\ slow \in BOOLEAN

DriverInit ==
  /\ mode = Stopped
  /\ input = [p \in Ports |-> <<>>] /\ output = <<>>
  /\ ready = [p \in Ports |-> <<>>]
  /\ request = RequestAt("none") /\ stream = "none" /\ control = "idle"
  /\ hw = NoFrame /\ permits = 0
  /\ done = {} /\ slow = FALSE

-----------------------------------------------------------------------------
(* DewarpDriver::start and ::stop. *)

\* The permits of frameDoneSignal stay as they are.
StartThreads ==
  /\ hw' = NoFrame
  /\ mode' = Run
  /\ request' = RequestAt("loop") /\ stream' = "poll"
  /\ UNCHANGED <<fifos, control, permits, done, slow>>

\* Faulty variant for the checks: the post that wakes the request thread is
\* not commented out.
StopThreadsPosts ==
  /\ mode' = mode \cup {"STOPPING"}
  /\ control' = "joinRequest"
  /\ permits' = permits + 1
  /\ UNCHANGED <<fifos, request, stream, hw, done, slow>>

StopThreads ==
  /\ mode' = mode \cup {"STOPPING"}
  /\ control' = "joinRequest"
  /\ UNCHANGED <<fifos, request, stream, device>>

\* Only a driver that runs has anything to stop.
Stop ==
  IF mode = Run THEN StopThreads ELSE UNCHANGED driverVars

JoinRequest ==
  /\ control = "joinRequest" /\ request.at = "none"
  /\ control' = "joinStream"
  /\ UNCHANGED <<mode, fifos, request, stream, device>>

JoinStream ==
  /\ control = "joinStream" /\ stream = "none"
  /\ hw' = NoFrame
  /\ control' = "idle"
  /\ UNCHANGED <<mode, fifos, request, stream, permits, done, slow>>

-----------------------------------------------------------------------------
(* processRequest *)

HasFrame == output # <<>> /\ \E p \in Ports : input[p] # <<>>

RequestLoop ==
  /\ request.at = "loop"
  /\ \/ mode = Run /\ HasFrame /\ request' = RequestAt("frame")
     \/ mode # Run /\ request' = RequestAt("none")
  /\ UNCHANGED <<mode, fifos, stream, control, device>>

\* The port served: 0 before 1.
NextPort == IF input[0] # <<>> THEN 0 ELSE 1

\* Faulty variant for the checks: the source queued last comes first.
RequestFrameNewest ==
  LET p == NextPort IN
  /\ request.at = "frame"
  /\ input' = [input EXCEPT ![p] = Front(@)]
  /\ output' = Tail(output)
  /\ request' = [at |-> "wait", src |-> Last(input[p]), dst |-> Head(output),
                 port |-> p]
  /\ hw' = [busy |-> TRUE, dst |-> Head(output), irq |-> FALSE]
  /\ done' = done \ {Head(output)}
  /\ UNCHANGED <<mode, ready, stream, control, permits, slow>>

RequestFrame ==
  LET p == NextPort IN
  /\ request.at = "frame"
  /\ input' = [input EXCEPT ![p] = Tail(@)]
  /\ output' = Tail(output)
  /\ request' = [at |-> "wait", src |-> Head(input[p]), dst |-> Head(output),
                 port |-> p]
  /\ hw' = [busy |-> TRUE, dst |-> Head(output), irq |-> FALSE]
  /\ done' = done \ {Head(output)}
  /\ UNCHANGED <<mode, ready, stream, control, permits, slow>>

FrameDone ==
  /\ request.at = "wait" /\ permits > 0
  /\ permits' = permits - 1
  /\ request' = [request EXCEPT !.at = "ready"]
  /\ UNCHANGED <<mode, fifos, stream, control, hw, done, slow>>

\* The 1000 ms are over.  That says something of the hardware only when it
\* still works or the stream thread is there to see it: it has nobody to
\* signal it once the stream thread has left.
FrameTimeOut ==
  /\ request.at = "wait" /\ permits = 0
  /\ slow' = (slow \/ hw.busy \/ stream # "none")
  /\ request' = [request EXCEPT !.at = "ready"]
  /\ UNCHANGED <<mode, fifos, stream, control, hw, permits, done>>

FrameReady ==
  /\ request.at = "ready"
  /\ ready' = [ready EXCEPT ![request.port] = Append(@, request.dst)]
  /\ request' = [request EXCEPT !.at = "available"]
  /\ UNCHANGED <<mode, input, output, stream, control, device>>

\* NativeDewarp::onFrameAvailable takes the target out of its FIFO ...
FrameAvailable ==
  /\ request.at = "available"
  /\ ready' = [ready EXCEPT ![request.port] = Tail(@)]
  /\ request' = [request EXCEPT !.at = "callback"]
  /\ UNCHANGED <<mode, input, output, stream, control, device>>

\* ... and hands both buffers on before it returns.
CallbackReturns ==
  /\ request.at = "callback"
  /\ request' = RequestAt("loop")
  /\ UNCHANGED <<mode, fifos, stream, control, device>>

-----------------------------------------------------------------------------
(* mainStream and irqEvent *)

StreamPoll ==
  /\ stream = "poll" /\ mode = Run /\ hw.irq
  /\ stream' = "post"
  /\ UNCHANGED <<mode, fifos, request, control, device>>

\* disableBus and disableIrq stop whatever the hardware does by now.
StreamPost ==
  /\ stream = "post"
  /\ hw' = NoFrame
  /\ permits' = permits + 1
  /\ stream' = "poll"
  /\ UNCHANGED <<mode, fifos, request, control, done, slow>>

StreamEnd ==
  /\ stream = "poll" /\ mode # Run
  /\ mode' = Stopped
  /\ hw' = NoFrame
  /\ stream' = "none"
  /\ UNCHANGED <<fifos, request, control, permits, done, slow>>

\* The hardware completes the picture.
HwDone ==
  /\ hw.busy
  /\ hw' = [busy |-> FALSE, dst |-> hw.dst, irq |-> TRUE]
  /\ done' = done \cup {hw.dst}
  /\ UNCHANGED <<mode, fifos, request, stream, control, permits, slow>>

-----------------------------------------------------------------------------
(* The FIFOs of the buffer manager, and what the driver asks of those who *)
(* call it: to start and clear it when it is stopped, to stop it once, and *)
(* to leave it the buffers that it has.                                    *)

Push(p, s) ==
  /\ input' = [input EXCEPT ![p] = Append(@, s)]
  /\ UNCHANGED <<mode, output, ready, request, stream, control, device>>

PushTarget(t) ==
  /\ output' = Append(output, t)
  /\ UNCHANGED <<mode, input, ready, request, stream, control, device>>

Clear ==
  /\ input' = [p \in Ports |-> <<>>] /\ output' = <<>>
  /\ ready' = [p \in Ports |-> <<>>]
  /\ UNCHANGED <<mode, request, stream, control, device>>

InUse(b) ==
  \/ b \in {request.src, request.dst} /\ request.at # "callback"
  \/ \E p \in Ports : b \in ToSet(input[p])
  \/ b \in ToSet(output)

Caller ==
  \/ control = "idle" /\ mode = Stopped /\ (StartThreads \/ Clear)
  \/ control = "idle" /\ Stop
  \/ \E p \in Ports, s \in Sources : ~InUse(s) /\ Push(p, s)
  \/ \E t \in Targets : ~InUse(t) /\ PushTarget(t)

Request ==
  \/ RequestLoop \/ RequestFrame \/ FrameDone \/ FrameReady
  \/ FrameAvailable \/ CallbackReturns

Stream == StreamPoll \/ StreamPost \/ StreamEnd

Joins == JoinRequest \/ JoinStream

DriverNext ==
  \/ Joins \/ Request \/ FrameTimeOut \/ Stream \/ HwDone
  \/ Caller

DriverSpec == DriverInit /\ [][DriverNext]_driverVars

(***************************************************************************)
(* A picture that a running driver hands over is complete, as long as no   *)
(* frame has ever taken more than the 1000 ms.  The wait and the interrupt *)
(* are tied by a counter only: after a late interrupt each picture is      *)
(* handed over when the one before it is done.                             *)
(***************************************************************************)
WholePictures ==
  mode = Run /\ ~slow /\ request.at \in {"ready", "available", "callback"}
    => request.dst \in done

(***************************************************************************)
(* The hardware never writes to a target that has been handed over, with   *)
(* the same reservation.                                                   *)
(***************************************************************************)
NoWriteAfterHandover ==
  hw.busy /\ ~slow => request.at = "wait" /\ request.dst = hw.dst

(***************************************************************************)
(* A stopped driver leaves no thread and no frame behind.                  *)
(***************************************************************************)
StopIsFinal ==
  control = "idle" /\ mode # Run =>
    request.at = "none" /\ stream = "none" /\ ~hw.busy

=============================================================================
