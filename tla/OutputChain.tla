---------------------------- MODULE OutputChain ----------------------------
(***************************************************************************)
(* An output chain of the ISP (cam_device: Xom in commitf/buf_io.cpp and   *)
(* the Citf functions of commitf_citfapi.cpp) between the engine, whose    *)
(* callback hands it the pictures, and NativeSensor, whose loop thread     *)
(* takes them and whose callers start and stop it.  A picture goes into    *)
(* FullBufQueue and is announced by an event in CommandQueue; its buffer   *)
(* stays locked, and so out of the ISP's reach, until another thread gives *)
(* it back with QBUF.  None of the three takes a lock on the chain.        *)
(*                                                                         *)
(* The engine is modelled as this code uses it: it calls back from one     *)
(* thread between PREVIEW_START and PREVIEW_STOP, and PREVIEW_STOP waits   *)
(* for a callback that is under way.  The dewarp, which gives the buffers  *)
(* back, is idle when the sensor is started (MediaStream).                 *)
(***************************************************************************)
EXTENDS Naturals, Sequences, FiniteSets, SequencesExt

CONSTANTS
  Buffers,
  MaxEvents,      \* depth of CommandQueue (10 in the code)
  MaxBuffers,     \* depth of FullBufQueue (10 in the code)
  FrameSkip_Max,  \* pictures left out after each one (0 in the code)
  NoBuffer

ASSUME OutputChainAssumption ==
  /\ MaxEvents \in Nat \ {0} /\ MaxBuffers \in Nat \ {0}
  /\ FrameSkip_Max \in Nat /\ NoBuffer \notin Buffers

VARIABLES
  state,         \* of the Xom; "none" when there is none
  attached,      \* is the Xom in the engine's list of callbacks?
  CommandQueue, FullBufQueue,
  locked,        \* buffers locked by the chain
  FrameIdx,      \* modulo FrameSkip_Max + 1
  streaming,     \* the engine, between PREVIEW_START and PREVIEW_STOP
  callback,      \* the engine's thread in Xom::bufferCb
  client,        \* the caller of NativeSensor::start and stop
  bRunning,      \* of NativeSensor
  loop,          \* its loop thread
  held,          \* buffers taken and not given back
  back           \* a thread in CitfQBUF

xomVars == <<state, attached, CommandQueue, FullBufQueue, locked, FrameIdx>>
engineVars == <<streaming, callback>>
sensorVars == <<client, bRunning, loop>>
vars == <<xomVars, engineVars, sensorVars, held, back>>

Events == {"START", "STOP", "READY", "BYPASS"}
NoCallback == [at |-> "idle", buf |-> NoBuffer, event |-> "START"]
NoBack == [at |-> "idle", buf |-> NoBuffer]

ChainTypeOK ==
  /\ state \in {"none", "Idle", "Running"} /\ attached \in BOOLEAN
  /\ CommandQueue \in Seq(Events) /\ Len(CommandQueue) <= MaxEvents
  /\ FullBufQueue \in Seq(Buffers) /\ Len(FullBufQueue) <= MaxBuffers
  /\ locked \subseteq Buffers /\ FrameIdx \in 0 .. FrameSkip_Max
  /\ streaming \in BOOLEAN
  /\ callback \in [at : {"idle", "write", "send"},
                   buf : Buffers \cup {NoBuffer}, event : Events]
  /\ client \in {"idle", "init", "start", "attach", "running", "previewStop",
                 "join", "stop", "deinit"}
  /\ bRunning \in BOOLEAN /\ loop \in {"none", "wait", "dqbuf"}
  /\ held \subseteq Buffers
  /\ back \in [at : {"idle", "test", "unlock"}, buf : Buffers \cup {NoBuffer}]

Init ==
  /\ state = "none" /\ attached = FALSE
  /\ CommandQueue = <<>> /\ FullBufQueue = <<>>
  /\ locked = {} /\ FrameIdx = 0
  /\ streaming = FALSE /\ callback = NoCallback
  /\ client = "idle" /\ bRunning = FALSE /\ loop = "none"
  /\ held = {} /\ back = NoBack

Goto(from, to) == client = from /\ client' = to

\* xomCtrlSendEvent: an event sent in another state is canceled, otherwise
\* osQueueWrite waits for room.
SendEvent(e) ==
  IF state = "Running" THEN /\ Len(CommandQueue) < MaxEvents
                            /\ CommandQueue' = Append(CommandQueue, e)
                       ELSE UNCHANGED CommandQueue

-----------------------------------------------------------------------------
(* NativeSensor::start *)

\* The pool is filled anew and the engine starts to take pictures.
PreviewStart ==
  /\ Goto("idle", "init") /\ back.at = "idle"
  /\ streaming' = TRUE /\ locked' = {} /\ held' = {}
  /\ UNCHANGED <<state, attached, CommandQueue, FullBufQueue, FrameIdx, callback,
                 bRunning, loop, back>>

CitfInitOutChain ==
  /\ Goto("init", "start")
  /\ state' = "Idle" /\ CommandQueue' = <<>> /\ FullBufQueue' = <<>>
  /\ UNCHANGED <<attached, locked, FrameIdx, engineVars, bRunning, loop, held,
                 back>>

CitfStartOutChain ==
  /\ Goto("start", "attach")
  /\ state' = "Running" /\ FrameIdx' = 0
  /\ CommandQueue' = Append(CommandQueue, "START")
  /\ UNCHANGED <<attached, FullBufQueue, locked, engineVars, bRunning, loop, held,
                 back>>

\* The chain is attached, and the loop thread started.
CitfAttachChain ==
  /\ Goto("attach", "running")
  /\ attached' = TRUE
  /\ bRunning' = TRUE /\ loop' = "wait"
  /\ UNCHANGED <<state, CommandQueue, FullBufQueue, locked, FrameIdx, engineVars,
                 held, back>>

-----------------------------------------------------------------------------
(* NativeSensor::stop *)

StopSensor ==
  /\ Goto("running", "previewStop")
  /\ bRunning' = FALSE
  /\ UNCHANGED <<xomVars, engineVars, loop, held, back>>

PreviewStop ==
  /\ Goto("previewStop", "join") /\ callback.at = "idle"
  /\ streaming' = FALSE
  /\ UNCHANGED <<xomVars, callback, bRunning, loop, held, back>>

\* The loop thread has ended: CAMERA_DISCONNECT, and the chain is detached.
CitfDetachChain ==
  /\ Goto("join", "stop") /\ loop = "none"
  /\ attached' = FALSE
  /\ UNCHANGED <<state, CommandQueue, FullBufQueue, locked, FrameIdx, engineVars,
                 bRunning, loop, held, back>>

\* Nobody reads the event any more; there must be room for it.
CitfStopOutChain ==
  /\ Goto("stop", "deinit")
  /\ SendEvent("STOP")
  /\ state' = "Idle"
  /\ UNCHANGED <<attached, FullBufQueue, locked, FrameIdx, engineVars, bRunning,
                 loop, held, back>>

\* xomDeInit empties both queues, and the Xom is deleted.
CitfDeinitOutChain ==
  /\ Goto("deinit", "idle")
  /\ state' = "none"
  /\ CommandQueue' = <<>> /\ FullBufQueue' = <<>>
  /\ locked' = locked \ ToSet(FullBufQueue)
  /\ UNCHANGED <<attached, FrameIdx, engineVars, bRunning, loop, held, back>>

-----------------------------------------------------------------------------
(* Xom::bufferCb, called for every buffer the ISP has filled *)

BufferCb ==
  /\ streaming /\ attached /\ state = "Running" /\ callback.at = "idle"
  /\ FrameIdx' = (FrameIdx + 1) % (FrameSkip_Max + 1)
  /\ \E b \in Buffers \ locked :
       callback' = IF FrameIdx' = 0
                   THEN [at |-> "write", buf |-> b, event |-> "READY"]
                   ELSE [at |-> "send", buf |-> b, event |-> "BYPASS"]
  /\ UNCHANGED <<state, attached, CommandQueue, FullBufQueue, locked, streaming,
                 sensorVars, held, back>>

\* Faulty variant for the checks: the buffer is not locked.
WriteUnlocked ==
  /\ callback.at = "write"
  /\ FullBufQueue' = Append(FullBufQueue, callback.buf)
  /\ callback' = [callback EXCEPT !.at = "send"]
  /\ UNCHANGED <<state, attached, CommandQueue, locked, FrameIdx, streaming,
                 sensorVars, held, back>>

\* When FullBufQueue has no room the buffer is unlocked again, and the event
\* that is sent all the same was never initialised.
FullBufWrite ==
  /\ callback.at = "write"
  /\ IF Len(FullBufQueue) < MaxBuffers
     THEN /\ FullBufQueue' = Append(FullBufQueue, callback.buf)
          /\ locked' = locked \cup {callback.buf}
          /\ callback' = [callback EXCEPT !.at = "send"]
     ELSE /\ \E e \in Events : callback' = [callback EXCEPT !.at = "send", !.event = e]
          /\ UNCHANGED <<FullBufQueue, locked>>
  /\ UNCHANGED <<state, attached, CommandQueue, FrameIdx, streaming, sensorVars,
                 held, back>>

\* Faulty variant for the checks: a picture is announced twice.
CallbackSendsTwice ==
  /\ callback.at = "send"
  /\ Len(CommandQueue) < MaxEvents
  /\ CommandQueue' = Append(CommandQueue, callback.event)
  /\ callback' = IF callback.event = "START" THEN NoCallback
                 ELSE [callback EXCEPT !.event = "START"]
  /\ UNCHANGED <<state, attached, FullBufQueue, locked, FrameIdx, streaming,
                 sensorVars, held, back>>

CallbackSends ==
  /\ callback.at = "send"
  /\ SendEvent(callback.event)
  /\ callback' = NoCallback
  /\ UNCHANGED <<state, attached, FullBufQueue, locked, FrameIdx, streaming,
                 sensorVars, held, back>>

-----------------------------------------------------------------------------
(* NativeSensor::loop *)

\* bRunning is tested whenever the wait of 100 ms has ended.
LoopEnd ==
  /\ loop = "wait" /\ ~bRunning
  /\ loop' = "none"
  /\ UNCHANGED <<xomVars, engineVars, client, bRunning, held, back>>

\* Faulty variant for the checks: START is taken for a picture.
WaitForAnyEvent ==
  /\ loop = "wait" /\ CommandQueue # <<>>
  /\ CommandQueue' = Tail(CommandQueue)
  /\ loop' = IF Head(CommandQueue) = "STOP" THEN "none" ELSE "dqbuf"
  /\ UNCHANGED <<state, attached, FullBufQueue, locked, FrameIdx, engineVars,
                 client, bRunning, held, back>>

CitfWaitForBufferEvent ==
  /\ loop = "wait" /\ state = "Running" /\ CommandQueue # <<>>
  /\ CommandQueue' = Tail(CommandQueue)
  /\ loop' = CASE Head(CommandQueue) = "STOP" -> "none"
               [] Head(CommandQueue) = "READY" -> "dqbuf"
               [] OTHER -> "wait"
  /\ UNCHANGED <<state, attached, FullBufQueue, locked, FrameIdx, engineVars,
                 client, bRunning, held, back>>

\* With no picture in the queue DQBUF succeeds if the pointer it is passed is
\* not null: the loop then goes on with a buffer of an earlier picture.
CitfDQBUF ==
  /\ loop = "dqbuf"
  /\ IF FullBufQueue # <<>>
     THEN /\ FullBufQueue' = Tail(FullBufQueue)
          /\ held' = held \cup {Head(FullBufQueue)}
     ELSE /\ \E b \in Buffers : held' = held \cup {b}
          /\ UNCHANGED FullBufQueue
  /\ loop' = "wait"
  /\ UNCHANGED <<state, attached, CommandQueue, locked, FrameIdx, engineVars,
                 client, bRunning, back>>

-----------------------------------------------------------------------------
(* NativeSensor::onConnectedPadBufferChanged, in a thread of the dewarp *)

CitfQBUF ==
  \E b \in held :
    /\ back.at = "idle" /\ bRunning
    /\ back' = [at |-> "test", buf |-> b]
    /\ UNCHANGED <<xomVars, engineVars, sensorVars, held>>

\* xomQBUF tests the state.  If the chain was deleted after its pointer had
\* been fetched the test reads freed memory.
XomQBUF ==
  /\ back.at = "test"
  /\ back' \in IF state = "Running" THEN {[back EXCEPT !.at = "unlock"]}
               ELSE IF state = "Idle" THEN {NoBack}
               ELSE {NoBack, [back EXCEPT !.at = "unlock"]}
  /\ UNCHANGED <<xomVars, engineVars, sensorVars, held>>

MediaBufUnlockBuffer ==
  /\ back.at = "unlock"
  /\ locked' = locked \ {back.buf}
  /\ held' = held \ {back.buf}
  /\ back' = NoBack
  /\ UNCHANGED <<state, attached, CommandQueue, FullBufQueue, FrameIdx, engineVars,
                 sensorVars>>

-----------------------------------------------------------------------------
Start == PreviewStart \/ CitfInitOutChain \/ CitfStartOutChain \/ CitfAttachChain
Stop == PreviewStop \/ CitfDetachChain \/ CitfStopOutChain \/ CitfDeinitOutChain
Callback == FullBufWrite \/ CallbackSends
Loop == LoopEnd \/ CitfWaitForBufferEvent \/ CitfDQBUF
Back == XomQBUF \/ MediaBufUnlockBuffer

Next ==
  \/ Start \/ StopSensor \/ Stop
  \/ BufferCb \/ Callback
  \/ Loop
  \/ CitfQBUF \/ Back

Spec == Init /\ [][Next]_vars

(***************************************************************************)
(* Fairness: the threads run and calls go on, osQueueWrite as soon as it   *)
(* has room.  Nobody need start or stop the sensor or give a buffer back.  *)
(***************************************************************************)
Fairness == WF_vars(Stop) /\ WF_vars(Callback) /\ WF_vars(Loop) /\ WF_vars(Back)

FairSpec == Spec /\ Fairness

-----------------------------------------------------------------------------
\* Where the events are that announce a picture.
Ready(q) == {i \in DOMAIN q : q[i] = "READY"}

(***************************************************************************)
(* While the chain runs, the pictures in FullBufQueue are exactly those an *)
(* event has announced or is about to announce: DQBUF never finds the      *)
(* queue empty, where it would succeed with an old pointer, and never      *)
(* leaves a picture behind.                                                *)
(***************************************************************************)
EventsMatch ==
  state = "Running" =>
    Len(FullBufQueue) = Cardinality(Ready(CommandQueue))
                      + (IF callback.at = "send" /\ callback.event = "READY" THEN 1 ELSE 0)
                      + (IF loop = "dqbuf" THEN 1 ELSE 0)

(***************************************************************************)
(* The Xom is deleted only when neither the engine's callback nor the loop *)
(* thread is in it or will come to it, and its state is not left while the *)
(* loop thread runs.                                                       *)
(***************************************************************************)
DeletedUnused ==
  state # "Running" => loop = "none" /\ callback.at = "idle" /\ ~attached

(***************************************************************************)
(* After a stop the only buffers still locked are those the dewarp has:    *)
(* pictures that nobody took have been given back.                         *)
(***************************************************************************)
OnlyHeldLocked == client = "idle" => locked \subseteq held

Contract == INSTANCE IspChain WITH
  chain <- state = "Running",
  isp <- IF state = "Running" THEN Buffers \ locked ELSE {},
  full <- IF state = "Running" THEN FullBufQueue ELSE <<>>

(***************************************************************************)
(* The chain keeps the contract IspChain that the media server builds on:  *)
(* a buffer that was taken is filled again only after it was given back,   *)
(* though locks are taken and dropped in different threads.                *)
(***************************************************************************)
KeepsContract == Contract!ChainSpec

(***************************************************************************)
(* The event that a stop writes, and that nobody reads, finds room: before *)
(* it there are at most the START and one event for each buffer.           *)
(***************************************************************************)
RoomForStop == client = "stop" => Len(CommandQueue) < MaxEvents

(***************************************************************************)
(* A stop returns: neither the engine's callback nor the loop thread keeps *)
(* it waiting, nor the event that it writes.                               *)
(***************************************************************************)
StopReturns == client = "previewStop" ~> client = "idle"
=============================================================================
