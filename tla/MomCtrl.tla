------------------------------ MODULE MomCtrl ------------------------------
(***************************************************************************)
(* The MOM control (units/mom_ctrl), which moves picture buffers round the *)
(* output paths of the ISP.  On each path a buffer goes from its pool to   *)
(* EmptyBufQueue, is requested and filled by the memory interface (MI)     *)
(* driver, goes through FullBufQueue to the handler thread, which gives it *)
(* to the queue attached to the path or to the registered callback; when   *)
(* its user frees it, the pool notifies the control, which queues it again.*)
(*                                                                         *)
(* Four threads run: the client, the handler, the driver (its callbacks)   *)
(* and the users of the full buffers.  The driver and the pools are not    *)
(* part of the sources: they are modelled by the calls mom_ctrl makes and  *)
(* receives.  A callback tests the state, and acts in a later step.        *)
(***************************************************************************)
EXTENDS Integers, Sequences, FiniteSets, SequencesExt

CONSTANTS
  NumPaths,      \* MOM_CTRL_PATH_MAX - 1
  Refilled,      \* the paths a START from state Stopped fills again
  Buffers,       \* the buffers of the pool of a path
  NoBuffer,      \* a null buffer pointer
  MaxCommands,   \* MaxPendingCommands of the configuration
  QueuePaths,    \* the paths to which the client attaches a queue
  CallbackPaths, \* the paths for which the client registers a callback
  OutRoom,       \* the capacity of an attached queue
  Eager,         \* calls the client makes while a STOP is pending
  Orderly        \* does the client stop the driver before the control?

Paths == 1 .. NumPaths
Commands == {"START", "STOP"}
States == {"Invalid", "Initialize", "Running", "Stopped"}
Results == {"SUCCESS", "WRONG_STATE"}
NumBuffers == Cardinality(Buffers)

\* EmptyBufQueue and FullBufQueue have room for all the buffers of a path.
ASSUME MomAssumption ==
  /\ NumPaths \in Nat \ {0} /\ MaxCommands \in Nat \ {0} /\ OutRoom \in Nat \ {0}
  /\ Refilled \subseteq Paths
  /\ QueuePaths \subseteq Paths /\ CallbackPaths \subseteq Paths
  /\ IsFiniteSet(Buffers) /\ NoBuffer \notin Buffers
  /\ Eager \subseteq {"Start", "ShutDown"}
  /\ Orderly \in BOOLEAN

VARIABLES
  alive,      \* has MomCtrlInit allocated the context, and nobody freed it?
  state,      \* State of the context
  queue,      \* CommandQueue
  attached,   \* the paths whose PathQueues list is not empty
  registered, \* the paths that have a buffer callback
  pool,       \* pool[p]: the free buffers of the pool of path p
  empty,      \* EmptyBufQueue of each path
  full,       \* FullBufQueue of each path
  filling,    \* filling[p]: the buffers the driver holds, oldest first
  out,        \* the queue attached to each path
  kept,       \* kept[p]: buffers a callback kept for later
  lost,       \* lost[p]: buffers nobody holds any more
  left,       \* left[p]: buffers left in the queues of a context that is freed
  client,     \* the client thread: where it is, and the command it sends
  handler,    \* the handler thread
  driver,     \* the thread of the driver's callbacks
  on,         \* does the driver stream?
  user,       \* the thread that frees the full buffers
  pending,    \* pending[c]: commands accepted and not yet completed
  late,       \* buffers queued by a callback that had tested an older state
  missed      \* missed[p]: buffers freed while a START was under way

ctx == <<alive, state, queue, attached, registered>>
places == <<pool, empty, full, filling, out, kept, lost, left>>
threads == <<client, handler, driver, on, user>>
hist == <<pending, late, missed>>
vars == <<ctx, places, threads, hist>>

\* Queue entries: a command, and the path of a PROC_FULL_BUFFER command.
Command(c, p) == [cmd |-> c, path |-> p]
NoCommand == Command("INVALID", 0)
AllCommands == {Command(c, 0) : c \in Commands \cup {"SHUTDOWN"}}
               \cup {Command("PROC_FULL", p) : p \in Paths}

HandlerAt(l) == [at |-> l, cmd |-> NoCommand, path |-> 0,
                 buffer |-> NoBuffer, tries |-> 0, result |-> "SUCCESS"]
Callback(l, p, b) == [at |-> l, path |-> p, buffer |-> b]
NoCallback == Callback("idle", 0, NoBuffer)
ClientAt(l) == [at |-> l, cmd |-> NoCommand]

TypeOK ==
  /\ alive \in BOOLEAN /\ on \in BOOLEAN
  /\ state \in States
  /\ queue \in Seq(AllCommands) /\ Len(queue) <= MaxCommands
  /\ attached \subseteq Paths /\ registered \subseteq Paths
  /\ pool \in [Paths -> SUBSET Buffers]
  /\ kept \in [Paths -> SUBSET Buffers]
  /\ lost \in [Paths -> SUBSET Buffers] /\ left \in [Paths -> SUBSET Buffers]
  /\ empty \in [Paths -> Seq(Buffers)] /\ full \in [Paths -> Seq(Buffers)]
  /\ filling \in [Paths -> Seq(Buffers)] /\ out \in [Paths -> Seq(Buffers)]
  /\ client \in [at : {"idle", "init", "send", "join", "drain"},
                 cmd : AllCommands \cup {NoCommand}]
  /\ handler \in [at : {"none", "read", "execute", "fill", "flushFull", "flushEmpty",
                        "list", "write", "callback", "refill", "complete"},
                  cmd : AllCommands \cup {NoCommand}, path : 0 .. NumPaths + 1,
                  buffer : Buffers \cup {NoBuffer}, tries : 0 .. NumBuffers,
                  result : Results]
  /\ driver \in [at : {"idle", "request", "write", "send", "free", "notify", "refill"},
                 path : Paths \cup {0}, buffer : Buffers \cup {NoBuffer}]
  /\ user \in [at : {"idle", "notify", "refill"}, path : Paths \cup {0},
               buffer : {NoBuffer}]
  /\ pending \in [Commands -> Nat]
  /\ late \in [Paths -> SUBSET Buffers]
  /\ missed \in [Paths -> Nat]

NoBuffers == [p \in Paths |-> {}]
NoQueue == [p \in Paths |-> <<>>]

Init ==
  /\ alive = FALSE /\ state = "Invalid" /\ queue = <<>>
  /\ attached = {} /\ registered = {}
  /\ pool = [p \in Paths |-> Buffers]
  /\ empty = NoQueue /\ full = NoQueue /\ filling = NoQueue /\ out = NoQueue
  /\ kept = NoBuffers /\ lost = NoBuffers /\ left = NoBuffers
  /\ client = ClientAt("idle") /\ handler = HandlerAt("none")
  /\ driver = NoCallback /\ on = FALSE /\ user = NoCallback
  /\ pending = [c \in Commands |-> 0]
  /\ late = NoBuffers /\ missed = [p \in Paths |-> 0]

-----------------------------------------------------------------------------
(* The client: the API, and how it drives the driver. *)

NothingPending == \A c \in Commands : pending[c] = 0

(***************************************************************************)
(* MomCtrlInit.  The handler thread exists before the state is set; a      *)
(* failure leaves no context.                                              *)
(***************************************************************************)
MomCtrlInit ==
  /\ client.at = "idle" /\ ~alive
  /\ alive' = TRUE
  /\ client' = ClientAt("init") /\ handler' = HandlerAt("read")
  /\ UNCHANGED <<state, queue, attached, registered, places, driver, on, user,
                 hist>>

InitDone ==
  /\ client.at = "init"
  /\ state' = "Initialize"
  /\ client' = ClientAt("idle")
  /\ UNCHANGED <<alive, queue, attached, registered, places, handler, driver,
                 on, user, hist>>

(***************************************************************************)
(* The first half of a call: the guard on the state, which refuses the     *)
(* call with RET_WRONG_STATE.  The client waits for its completions before *)
(* it calls again, but for the calls in Eager, made during a STOP.         *)
(***************************************************************************)
Enter(call, states, cmd) ==
  /\ alive /\ client.at = "idle"
  /\ NothingPending \/ (call \in Eager /\ pending["START"] = 0)
  /\ state \in states
  /\ client' = [at |-> "send", cmd |-> Command(cmd, 0)]
  /\ UNCHANGED <<ctx, places, handler, driver, on, user, hist>>

MomCtrlStart == Enter("Start", {"Initialize", "Stopped"}, "START")

\* The driver holds no buffer and no callback of it is under way.
DriverQuiet ==
  /\ ~on /\ driver.at = "idle"
  /\ \A p \in Paths : filling[p] = <<>>

MomCtrlStop ==
  /\ Orderly => DriverQuiet
  /\ Enter("Stop", {"Running", "Stopped"}, "STOP")

\* MomCtrlDestroy asserts that no queue is attached any more.
MomCtrlShutDown ==
  /\ attached = {}
  /\ Enter("ShutDown", {"Initialize", "Stopped"}, "SHUTDOWN")

\* What MomCtrlSendCommand does with a command when there is room for it;
\* osQueueWrite blocks until there is.
Queued(c) ==
  /\ Len(queue) < MaxCommands
  /\ queue' = Append(queue, c)

MomCtrlSendCommand ==
  /\ client.at = "send" /\ state # "Invalid"
  /\ Queued(client.cmd)
  /\ IF client.cmd.cmd = "SHUTDOWN"
     THEN client' = ClientAt("join") /\ UNCHANGED pending
     ELSE /\ client' = ClientAt("idle")
          /\ pending' = [pending EXCEPT ![client.cmd.cmd] = @ + 1]
  /\ UNCHANGED <<alive, state, attached, registered, places, handler, driver,
                 on, user, late, missed>>

Usable == alive /\ client.at = "idle"
          /\ state \in {"Initialize", "Running", "Stopped"}

\* The handler thread holds BufferLock and the PathLock of path p.
HoldsLocks == handler.at = "write"
HoldsPathLock(p) == HoldsLocks /\ handler.path = p

SetAttached(paths) ==
  /\ attached' = paths
  /\ UNCHANGED <<alive, state, queue, registered, places, threads, hist>>

MomCtrlAttachQueueToPath ==
  \E p \in QueuePaths \ attached :
    /\ Usable /\ ~HoldsPathLock(p)
    /\ SetAttached(attached \cup {p})

MomCtrlDetachQueueToPath ==
  \E p \in attached :
    /\ Usable /\ ~HoldsPathLock(p)
    /\ Orderly => state # "Running" /\ NothingPending
    /\ SetAttached(attached \ {p})

SetRegistered(paths) ==
  /\ Usable /\ ~HoldsLocks
  /\ registered' = paths
  /\ UNCHANGED <<alive, state, queue, attached, places, threads, hist>>

MomCtrlRegisterBufferCb ==
  \E p \in CallbackPaths \ registered : SetRegistered(registered \cup {p})

MomCtrlDeRegisterBufferCb ==
  \E p \in registered : SetRegistered(registered \ {p})

\* The client starts and stops the driver.
MiStart ==
  /\ Usable /\ ~on
  /\ Orderly => state = "Running" /\ NothingPending
  /\ on' = TRUE
  /\ UNCHANGED <<ctx, places, client, handler, driver, user, hist>>

MiStop ==
  /\ Usable /\ on
  /\ on' = FALSE
  /\ UNCHANGED <<ctx, places, client, handler, driver, user, hist>>

(***************************************************************************)
(* MomCtrlDestroy: wait for the handler thread, cancel what is left in the *)
(* command queue, deregister the callbacks, which waits for those under    *)
(* way, and free the context with the buffers still in its queues.         *)
(***************************************************************************)
Join ==
  /\ client.at = "join" /\ handler.at = "none"
  /\ client' = ClientAt("drain")
  /\ UNCHANGED <<ctx, places, handler, driver, on, user, hist>>

InQueues(p) == ToSet(empty[p]) \cup ToSet(full[p])

Drain ==
  /\ client.at = "drain"
  /\ \/ /\ queue # <<>>
        /\ queue' = Tail(queue)
        /\ pending' = IF Head(queue).cmd \in Commands
                      THEN [pending EXCEPT ![Head(queue).cmd] = @ - 1]
                      ELSE pending
        /\ UNCHANGED <<alive, registered, places, client>>
     \/ /\ queue = <<>> /\ driver.at = "idle" /\ user.at = "idle"
        /\ alive' = FALSE /\ registered' = {}
        /\ left' = [p \in Paths |-> left[p] \cup InQueues(p)]
        /\ empty' = NoQueue /\ full' = NoQueue
        /\ client' = ClientAt("idle")
        /\ UNCHANGED <<queue, pending, pool, filling, out, kept, lost>>
  /\ UNCHANGED <<state, attached, handler, driver, on, user, late, missed>>

-----------------------------------------------------------------------------
(* The handler thread. *)

\* MediaBufPoolFreeBuffer.  In later steps the callback the pool calls tests
\* the state and, if the control runs, refills the queue of the path.
Freed(p, b) ==
  /\ pool' = [pool EXCEPT ![p] = @ \cup {b}]
  /\ missed' = IF handler.at = "fill" /\ p <= handler.path
               THEN [missed EXCEPT ![p] = @ + 1] ELSE missed

\* MomCtrlPictureBufferPoolNotifyCb: the test of the state ...
Notified(thread) ==
  IF state = "Running" THEN [thread EXCEPT !.at = "refill"] ELSE NoCallback

\* ... and one free buffer, if there is one, is queued.
Refill(p) ==
  /\ \/ /\ pool[p] = {}
        /\ UNCHANGED <<pool, empty, late>>
     \/ \E b \in pool[p] :
          /\ pool' = [pool EXCEPT ![p] = @ \ {b}]
          /\ empty' = [empty EXCEPT ![p] = Append(@, b)]
          /\ late' = IF state = "Running" THEN late
                     ELSE [late EXCEPT ![p] = @ \cup {b}]
  /\ UNCHANGED <<full, filling, out, kept, lost, left, pending, missed>>

HandlerRead ==
  /\ handler.at = "read" /\ queue # <<>>
  /\ queue' = Tail(queue)
  /\ handler' = [HandlerAt("execute") EXCEPT !.cmd = Head(queue),
                                             !.path = Head(queue).path]
  /\ UNCHANGED <<alive, state, attached, registered, places, client, driver,
                 on, user, hist>>

Executes(c, states) ==
  /\ handler.at = "execute" /\ handler.cmd.cmd = c /\ state \in states

\* START asks the pool of one path after the other for its buffers.
HandleStart ==
  /\ Executes("START", {"Initialize", "Stopped"})
  /\ handler' = [handler EXCEPT !.at = "fill", !.path = 1, !.tries = 0]
  /\ missed' = [p \in Paths |-> 0]
  /\ UNCHANGED <<ctx, places, client, driver, on, user, pending, late>>

\* Faulty variant for the checks: only the first START fills the queues.
FillsOnce(p) == state = "Initialize"

Fills(p) == state = "Initialize" \/ p \in Refilled

\* One of the NumBuffers tries; one that finds the pool empty is used up too.
FillOne ==
  LET p == handler.path IN
  /\ handler.at = "fill" /\ p \in Paths /\ Fills(p) /\ handler.tries < NumBuffers
  /\ \/ pool[p] = {} /\ UNCHANGED <<pool, empty>>
     \/ \E b \in pool[p] :
          /\ pool' = [pool EXCEPT ![p] = @ \ {b}]
          /\ empty' = [empty EXCEPT ![p] = Append(@, b)]
  /\ handler' = [handler EXCEPT !.tries = @ + 1]
  /\ UNCHANGED <<ctx, full, filling, out, kept, lost, left, client, driver, on,
                 user, hist>>

FillNext ==
  LET p == handler.path IN
  /\ handler.at = "fill" /\ p \in Paths
  /\ Fills(p) => handler.tries = NumBuffers
  /\ handler' = [handler EXCEPT !.path = p + 1, !.tries = 0]
  /\ UNCHANGED <<ctx, places, client, driver, on, user, hist>>

HandleStarted ==
  /\ handler.at = "fill" /\ handler.path = NumPaths + 1
  /\ state' = "Running"
  /\ handler' = [handler EXCEPT !.at = "complete"]
  /\ UNCHANGED <<alive, queue, attached, registered, places, client, driver,
                 on, user, hist>>

\* STOP leaves state Running before it empties the queues, so that the
\* buffers it frees are not queued again.
HandleStop ==
  /\ Executes("STOP", {"Running"})
  /\ state' = "Stopped"
  /\ handler' = [handler EXCEPT !.at = "flushFull", !.path = 1]
  /\ late' = NoBuffers
  /\ UNCHANGED <<alive, queue, attached, registered, places, client, driver,
                 on, user, pending, missed>>

\* Faulty variant for the checks: the full buffers stay where they are.
FlushFullSkips ==
  /\ handler.at = "flushFull"
  /\ handler' = [handler EXCEPT !.at = "flushEmpty"]
  /\ UNCHANGED <<ctx, places, client, driver, on, user, hist>>

\* Faulty variant for the checks: the buffers are taken and not freed.
FlushFullLeaks ==
  LET p == handler.path IN
  /\ handler.at = "flushFull"
  /\ full' = [full EXCEPT ![p] = <<>>]
  /\ handler' = [handler EXCEPT !.at = "flushEmpty"]
  /\ UNCHANGED <<ctx, pool, empty, filling, out, kept, lost, left, client, driver,
                 on, user, hist>>

FlushFull ==
  LET p == handler.path IN
  /\ handler.at = "flushFull"
  /\ IF full[p] # <<>>
     THEN /\ full' = [full EXCEPT ![p] = Tail(@)]
          /\ Freed(p, Head(full[p]))
          /\ UNCHANGED handler
     ELSE /\ handler' = [handler EXCEPT !.at = "flushEmpty"]
          /\ UNCHANGED <<full, pool, missed>>
  /\ UNCHANGED <<ctx, empty, filling, out, kept, lost, left, client, driver, on,
                 user, pending, late>>

FlushEmpty ==
  LET p == handler.path IN
  /\ handler.at = "flushEmpty"
  /\ IF empty[p] # <<>>
     THEN /\ empty' = [empty EXCEPT ![p] = Tail(@)]
          /\ Freed(p, Head(empty[p]))
          /\ UNCHANGED handler
     ELSE /\ handler' = IF p < NumPaths
                        THEN [handler EXCEPT !.at = "flushFull", !.path = p + 1]
                        ELSE [handler EXCEPT !.at = "complete"]
          /\ UNCHANGED <<empty, pool, missed>>
  /\ UNCHANGED <<ctx, full, filling, out, kept, lost, left, client, driver, on,
                 user, pending, late>>

(***************************************************************************)
(* PROC_FULL_BUFFER takes one buffer, and tests whether a queue is         *)
(* attached before it takes the locks: a list that a detach has emptied    *)
(* since then takes the buffer nowhere.                                    *)
(***************************************************************************)
HandleFull ==
  LET p == handler.path IN
  /\ Executes("PROC_FULL", {"Running"})
  /\ IF full[p] = <<>>
     THEN handler' = HandlerAt("read") /\ UNCHANGED full
     ELSE /\ full' = [full EXCEPT ![p] = Tail(@)]
          /\ handler' = [handler EXCEPT
                           !.at = IF p \in attached THEN "list" ELSE "callback",
                           !.buffer = Head(full[p])]
  /\ UNCHANGED <<ctx, pool, empty, filling, out, kept, lost, left, client, driver,
                 on, user, hist>>

LockPath ==
  LET p == handler.path IN
  /\ handler.at = "list"
  /\ IF p \in attached
     THEN handler' = [handler EXCEPT !.at = "write"] /\ UNCHANGED lost
     ELSE /\ lost' = [lost EXCEPT ![p] = @ \cup {handler.buffer}]
          /\ handler' = HandlerAt("read")
  /\ UNCHANGED <<ctx, pool, empty, full, filling, out, kept, left, client, driver,
                 on, user, hist>>

AddToMediaBufferQueue ==
  LET p == handler.path IN
  /\ handler.at = "write" /\ Len(out[p]) < OutRoom
  /\ out' = [out EXCEPT ![p] = Append(@, handler.buffer)]
  /\ handler' = HandlerAt("read")
  /\ UNCHANGED <<ctx, pool, empty, full, filling, kept, lost, left, client,
                 driver, on, user, hist>>

\* The callback may keep the buffer; one nobody keeps is free again.
CallBufferCb ==
  LET p == handler.path IN
  /\ handler.at = "callback"
  /\ \/ /\ p \in registered
        /\ kept' = [kept EXCEPT ![p] = @ \cup {handler.buffer}]
        /\ handler' = HandlerAt("read")
        /\ UNCHANGED <<pool, missed>>
     \/ /\ Freed(p, handler.buffer)
        /\ handler' = [handler EXCEPT !.at = "refill", !.buffer = NoBuffer]
        /\ UNCHANGED kept
  /\ UNCHANGED <<ctx, empty, full, filling, out, lost, left, client, driver, on,
                 user, pending, late>>

HandlerRefill ==
  /\ handler.at = "refill"
  /\ Refill(handler.path)
  /\ handler' = HandlerAt("read")
  /\ UNCHANGED <<ctx, client, driver, on, user>>

Handled(c) ==
  CASE c = "START" -> {"Initialize", "Stopped"}
    [] c = "STOP" -> {"Running"}
    [] c = "PROC_FULL" -> {"Running"}
    [] c = "SHUTDOWN" -> {"Initialize", "Stopped"}

\* Faulty variant for the checks: a refused command is not completed.
HandleWrongStateSilent ==
  /\ handler.at = "execute"
  /\ state \notin Handled(handler.cmd.cmd)
  /\ handler' = HandlerAt("read")
  /\ UNCHANGED <<ctx, places, client, driver, on, user, hist>>

\* Anything else is completed, a PROC_FULL_BUFFER too.
HandleWrongState ==
  /\ handler.at = "execute"
  /\ state \notin Handled(handler.cmd.cmd)
  /\ handler' = [handler EXCEPT !.at = "complete", !.result = "WRONG_STATE"]
  /\ UNCHANGED <<ctx, places, client, driver, on, user, hist>>

HandleShutDown ==
  /\ Executes("SHUTDOWN", {"Initialize", "Stopped"})
  /\ state' = "Invalid"
  /\ handler' = HandlerAt("none")
  /\ UNCHANGED <<alive, queue, attached, registered, places, client, driver,
                 on, user, hist>>

\* MomCtrlCompleteCommand.
HandlerComplete ==
  /\ handler.at = "complete"
  /\ handler' = HandlerAt("read")
  /\ pending' = IF handler.cmd.cmd \in Commands
                THEN [pending EXCEPT ![handler.cmd.cmd] = @ - 1]
                ELSE pending
  /\ UNCHANGED <<ctx, places, client, driver, on, user, late, missed>>

-----------------------------------------------------------------------------
(* The callbacks of the driver, and the users of the full buffers. *)

\* MomCtrlCamerIcDrvRequestCb: an empty buffer for path p, without waiting.
MomCtrlCamerIcDrvRequestCb ==
  \E p \in Paths :
    /\ alive /\ on /\ driver.at = "idle" /\ state = "Running"
    /\ driver' = Callback("request", p, NoBuffer)
    /\ UNCHANGED <<ctx, places, client, handler, on, user, hist>>

RequestTake ==
  LET p == driver.path IN
  /\ driver.at = "request"
  /\ IF empty[p] = <<>>
     THEN UNCHANGED <<empty, filling>>
     ELSE /\ empty' = [empty EXCEPT ![p] = Tail(@)]
          /\ filling' = [filling EXCEPT ![p] = Append(@, Head(empty[p]))]
  /\ driver' = NoCallback
  /\ UNCHANGED <<ctx, pool, full, out, kept, lost, left, client, handler, on,
                 user, hist>>

\* MomCtrlCamerIcDrvEventCb with a buffer the driver is done with: outside
\* of state Running the event is ignored and the buffer given to nobody.
DriverEvent(p) ==
  /\ alive /\ driver.at = "idle" /\ filling[p] # <<>>
  /\ filling' = [filling EXCEPT ![p] = Tail(@)]

EventIgnored(p) ==
  /\ state # "Running"
  /\ lost' = [lost EXCEPT ![p] = @ \cup {Head(filling[p])}]
  /\ UNCHANGED <<pool, driver, missed>>

FullEvent ==
  \E p \in Paths :
    /\ DriverEvent(p) /\ on
    /\ \/ EventIgnored(p)
       \/ /\ state = "Running"
          /\ driver' = Callback("write", p, Head(filling[p]))
          /\ UNCHANGED <<pool, lost, missed>>
    /\ UNCHANGED <<ctx, empty, full, out, kept, left, client, handler, on, user,
                   pending, late>>

FullWrite ==
  LET p == driver.path IN
  /\ driver.at = "write"
  /\ full' = [full EXCEPT ![p] = Append(@, driver.buffer)]
  /\ late' = IF state = "Running" THEN late
             ELSE [late EXCEPT ![p] = @ \cup {driver.buffer}]
  /\ driver' = Callback("send", p, NoBuffer)
  /\ UNCHANGED <<ctx, pool, empty, filling, out, kept, lost, left, client,
                 handler, on, user, pending, missed>>

\* Faulty variant for the checks: a full command queue drops the command.
FullSendTries ==
  /\ driver.at = "send"
  /\ IF state = "Invalid" \/ Len(queue) = MaxCommands
     THEN UNCHANGED queue
     ELSE Queued(Command("PROC_FULL", driver.path))
  /\ driver' = NoCallback
  /\ UNCHANGED <<alive, state, attached, registered, places, client, handler,
                 on, user, hist>>

FullSend ==
  /\ driver.at = "send"
  /\ IF state = "Invalid"
     THEN UNCHANGED queue
     ELSE Queued(Command("PROC_FULL", driver.path))
  /\ driver' = NoCallback
  /\ UNCHANGED <<alive, state, attached, registered, places, client, handler,
                 on, user, hist>>

\* A driver that was stopped gives back the buffers it still holds.
FlushedEvent ==
  \E p \in Paths :
    /\ DriverEvent(p) /\ ~on
    /\ \/ EventIgnored(p)
       \/ /\ state = "Running"
          /\ driver' = Callback("free", p, Head(filling[p]))
          /\ UNCHANGED <<pool, lost, missed>>
    /\ UNCHANGED <<ctx, empty, full, out, kept, left, client, handler, on, user,
                   pending, late>>

\* Faulty variant for the checks: a flushed buffer is not freed.
FlushedFreeDrops ==
  LET p == driver.path IN
  /\ driver.at = "free"
  /\ lost' = [lost EXCEPT ![p] = @ \cup {driver.buffer}]
  /\ driver' = NoCallback
  /\ UNCHANGED <<ctx, pool, empty, full, filling, out, kept, left, client, handler,
                 on, user, hist>>

FlushedFree ==
  /\ driver.at = "free"
  /\ Freed(driver.path, driver.buffer)
  /\ driver' = Callback("notify", driver.path, NoBuffer)
  /\ UNCHANGED <<ctx, empty, full, filling, out, kept, lost, left, client, handler,
                 on, user, pending, late>>

DriverNotify ==
  /\ driver.at = "notify"
  /\ driver' = Notified(driver)
  /\ UNCHANGED <<ctx, places, client, handler, on, user, hist>>

DriverRefill ==
  /\ driver.at = "refill"
  /\ Refill(driver.path)
  /\ driver' = NoCallback
  /\ UNCHANGED <<ctx, client, handler, on, user>>

\* Somebody is done with a full buffer and frees it (MediaBufUnlockBuffer).
UserFrees ==
  /\ user.at = "idle"
  /\ \E p \in Paths :
       /\ \/ /\ out[p] # <<>>
             /\ out' = [out EXCEPT ![p] = Tail(@)]
             /\ Freed(p, Head(out[p]))
             /\ UNCHANGED kept
          \/ \E b \in kept[p] :
               /\ kept' = [kept EXCEPT ![p] = @ \ {b}]
               /\ Freed(p, b)
               /\ UNCHANGED out
       /\ user' = IF alive THEN Callback("notify", p, NoBuffer) ELSE NoCallback
  /\ UNCHANGED <<ctx, empty, full, filling, lost, left, client, handler, driver,
                 on, pending, late>>

UserNotify ==
  /\ user.at = "notify"
  /\ user' = Notified(user)
  /\ UNCHANGED <<ctx, places, client, handler, driver, on, hist>>

UserRefill ==
  /\ user.at = "refill"
  /\ Refill(user.path)
  /\ user' = NoCallback
  /\ UNCHANGED <<ctx, client, handler, driver, on>>

-----------------------------------------------------------------------------
ClientCalls ==
  \/ MomCtrlInit \/ MomCtrlStart \/ MomCtrlStop \/ MomCtrlShutDown
  \/ MomCtrlAttachQueueToPath \/ MomCtrlDetachQueueToPath
  \/ MomCtrlRegisterBufferCb \/ MomCtrlDeRegisterBufferCb
  \/ MiStart \/ MiStop

Client == InitDone \/ MomCtrlSendCommand \/ Join \/ Drain

Handler ==
  \/ HandlerRead
  \/ HandleStart \/ FillOne \/ FillNext \/ HandleStarted
  \/ HandleStop \/ FlushFull \/ FlushEmpty
  \/ HandleFull \/ LockPath \/ AddToMediaBufferQueue \/ CallBufferCb
  \/ HandlerRefill
  \/ HandleWrongState \/ HandleShutDown \/ HandlerComplete

DriverCallback ==
  \/ RequestTake \/ FullWrite \/ FullSend
  \/ FlushedFree \/ DriverNotify \/ DriverRefill

Driver == MomCtrlCamerIcDrvRequestCb \/ FullEvent \/ FlushedEvent \/ DriverCallback

User == UserFrees \/ UserNotify \/ UserRefill

Next == ClientCalls \/ Client \/ Handler \/ Driver \/ User

Spec == Init /\ [][Next]_vars

(***************************************************************************)
(* Fairness: every thread finishes what it is in, and the users of the     *)
(* full buffers free them.  Nobody is obliged to call, and the driver is   *)
(* not obliged to fill a buffer.                                           *)
(***************************************************************************)
FairSpec == /\ Spec
            /\ WF_vars(Client) /\ WF_vars(Handler)
            /\ WF_vars(DriverCallback) /\ WF_vars(User)

InHand(p) ==
  {b \in Buffers : \/ handler.path = p /\ handler.buffer = b
                   \/ driver.path = p /\ driver.buffer = b}

(***************************************************************************)
(* Every buffer of a path is in exactly one place: no race of a STOP with  *)
(* the callbacks lets two owners have the same buffer, or makes one vanish *)
(* otherwise than by an event that was ignored or a detach at the wrong    *)
(* moment.                                                                 *)
(***************************************************************************)
OneOwner ==
  \A p \in Paths :
    /\ Buffers = pool[p] \cup InQueues(p) \cup ToSet(filling[p]) \cup ToSet(out[p])
                 \cup kept[p] \cup lost[p] \cup left[p] \cup InHand(p)
    /\ Cardinality(Buffers) =
         Cardinality(pool[p]) + Len(empty[p]) + Len(full[p]) + Len(filling[p])
         + Len(out[p]) + Cardinality(kept[p]) + Cardinality(lost[p])
         + Cardinality(left[p]) + Cardinality(InHand(p))

(***************************************************************************)
(* When a STOP has been carried out, what remains in the queues of a path  *)
(* was put there by a callback that had found the control running before   *)
(* it.                                                                     *)
(***************************************************************************)
StopEmptiesQueues ==
  state = "Stopped" /\ handler.at \notin {"fill", "flushFull", "flushEmpty"}
    => \A p \in Paths : InQueues(p) \subseteq late[p]

\* The threads on their way to queue a free buffer of path p.
Refilling(p) ==
  LET thread == <<handler, driver, user>>
  IN {i \in 1 .. 3 : thread[i].at \in {"notify", "refill"} /\ thread[i].path = p}

(***************************************************************************)
(* While the control runs, a path that START fills has no more free        *)
(* buffers left idle in its pool than were freed when the START was at the *)
(* path or past it, when the notification of the pool is ignored and a try *)
(* may already have been used up by the empty pool.  One notification      *)
(* queues one buffer, so such a buffer stays idle until the next START.    *)
(***************************************************************************)
IdleOnlyMissed ==
  state = "Running" =>
    \A p \in Refilled :
      Cardinality(pool[p]) <= missed[p] + Cardinality(Refilling(p))

(***************************************************************************)
(* With a client that stops the driver before the control and detaches     *)
(* only from a control at rest, no buffer is lost.                         *)
(***************************************************************************)
NothingLost == Orderly => lost = NoBuffers

(***************************************************************************)
(* With such a client every buffer in FullBufQueue has its command in      *)
(* CommandQueue, and every command its buffer: none is stranded and none   *)
(* is taken for another.                                                   *)
(***************************************************************************)
FramesAnnounced ==
  Orderly =>
    \A p \in Paths :
      LET Announces(c) == c = Command("PROC_FULL", p)
      IN Len(full[p]) =
           Cardinality({i \in DOMAIN queue : Announces(queue[i])})
           + (IF handler.at = "execute" /\ Announces(handler.cmd) THEN 1 ELSE 0)
           + (IF driver.at = "send" /\ driver.path = p THEN 1 ELSE 0)

(***************************************************************************)
(* The control is a command service: an accepted START or STOP is answered *)
(* exactly once, though the driver and the users go on during the flush.   *)
(***************************************************************************)
Service == INSTANCE CommandService WITH open <- alive
CommandsServed == Service!ServiceSpec
=============================================================================
