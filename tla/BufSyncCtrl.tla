---------------------------- MODULE BufSyncCtrl ----------------------------
(***************************************************************************)
(* The buffer synchronisation control (units/bufsync_ctrl): for each of    *)
(* two producers a queue thread that keeps the newest buffer of its queue  *)
(* and tells the handler thread; the handler pairs the two buffers, hands  *)
(* the pair to a callback and gives both back to their pools; and a client *)
(* that waits for the completions it is owed before it calls again.        *)
(*                                                                         *)
(* A buffer is locked when its producer fills it, and is free again when   *)
(* it has been unlocked.  Sections of one mutex that call nothing that     *)
(* blocks are one step.  No code of the repository sets `last' of a buffer,*)
(* so that a queue thread ends only by its bExit flag.                     *)
(***************************************************************************)
EXTENDS Integers, Sequences, FiniteSets

CONSTANTS MaxCommands,  \* MaxPendingCommands of the configuration
          Buffers,      \* the buffers of each producer
          NoBuffer,     \* a NULL pBuffer
          Early,        \* do producers send before the first START is done?
          Endless       \* do they go on while the control is shut down?

States == {"Invalid", "Initialize", "Running", "Stopped"}
Sides == {0, 1}
Commands == {"START", "STOP"}
Queueable == [id : Commands \cup {"SHUTDOWN"}, ctx : {0}]
               \cup [id : {"PROCESS_BUFFER"}, ctx : Sides]
NoCommand == [id |-> "INVALID", ctx |-> 0]

ASSUME BufSyncAssumption == /\ MaxCommands \in Nat \ {0}
                            /\ NoBuffer \notin Buffers
                            /\ Early \in BOOLEAN /\ Endless \in BOOLEAN

VARIABLES
  alive, state, queue,
  callback,  \* is BufferCb.fpCallback set?
  held,      \* held[i]: QueueCtx[i].pBuffer
  bExit,     \* QueueCtx[i].bExit
  worker,    \* worker[i]: where queue thread i is
  handler,   \* the handler thread: where it is, its Command, its pair
  client,    \* where the client is in its call, the side or command it is at
  bufq,      \* bufq[i]: the queue of side i, which the client owns
  locks,     \* locks[i][b]: how often buffer b of side i is locked
  pending,   \* pending[k]: commands k accepted and not yet completed
  started    \* has a START ever completed in this context?

vars == <<alive, state, queue, callback, held, bExit, worker, handler, client,
          bufq, locks, pending, started>>
buffers == <<held, bufq, locks>>

HandlerAt(l) == [at |-> l, cmd |-> NoCommand, pair |-> [i \in Sides |-> NoBuffer]]
ClientAt(l) == [at |-> l, cmd |-> "INVALID", side |-> 0]

TypeOK ==
  /\ alive \in BOOLEAN /\ callback \in BOOLEAN /\ started \in BOOLEAN
  /\ state \in States
  /\ queue \in Seq(Queueable) /\ Len(queue) <= MaxCommands
  /\ held \in [Sides -> Buffers \cup {NoBuffer}]
  /\ bExit \in [Sides -> BOOLEAN]
  /\ worker \in [Sides -> {"none", "read", "send"}]
  /\ handler \in [at : {"none", "read", "execute", "call", "return", "complete"},
                  cmd : Queueable \cup {NoCommand},
                  pair : [Sides -> Buffers \cup {NoBuffer}]]
  /\ client \in [at : {"idle", "send", "end", "await", "cancel", "join", "free"},
                 cmd : Commands \cup {"SHUTDOWN", "INVALID"}, side : Sides]
  /\ bufq \in [Sides -> Seq(Buffers)]
  /\ locks \in [Sides -> [Buffers -> Nat]]
  /\ pending \in [Commands -> Nat]

Init ==
  /\ alive = FALSE /\ state = "Invalid" /\ queue = <<>> /\ callback = FALSE
  /\ held = [i \in Sides |-> NoBuffer] /\ bExit = [i \in Sides |-> FALSE]
  /\ worker = [i \in Sides |-> "none"]
  /\ handler = HandlerAt("none") /\ client = ClientAt("idle")
  /\ bufq = [i \in Sides |-> <<>>]
  /\ locks = [i \in Sides |-> [b \in Buffers |-> 0]]
  /\ pending = [k \in Commands |-> 0]
  /\ started = FALSE

-----------------------------------------------------------------------------
(* The producers, and the buffer pools. *)

ShuttingDown == client.at \in {"end", "await", "cancel", "join", "free"} \/ client.cmd = "SHUTDOWN"

Produce(i) ==
  /\ alive /\ (Early \/ started) /\ (Endless \/ ~ShuttingDown)
  /\ \E b \in Buffers :
       /\ locks[i][b] = 0
       /\ locks' = [locks EXCEPT ![i][b] = 1]
       /\ bufq' = [bufq EXCEPT ![i] = Append(@, b)]
  /\ UNCHANGED <<alive, state, queue, callback, held, bExit, worker, handler,
                 client, pending, started>>

\* MediaBufUnlockBuffer: a buffer that is not locked stays so.
Unlocked(l, i, b) ==
  IF b = NoBuffer \/ l[i][b] = 0 THEN l ELSE [l EXCEPT ![i][b] = @ - 1]

-----------------------------------------------------------------------------
(* The client. *)

\* The threads wait for the queues and cannot see the state before it is set.
BufSyncCtrlInit ==
  /\ ~alive /\ client.at = "idle"
  /\ alive' = TRUE /\ state' = "Initialize" /\ queue' = <<>>
  /\ callback' = FALSE /\ started' = FALSE
  /\ held' = [i \in Sides |-> NoBuffer] /\ bExit' = [i \in Sides |-> FALSE]
  /\ worker' = [i \in Sides |-> "read"] /\ handler' = HandlerAt("read")
  /\ UNCHANGED <<client, bufq, locks, pending>>

Ready(states) ==
  /\ alive /\ client.at = "idle" /\ \A k \in Commands : pending[k] = 0
  /\ state \in states

Enter(states, l, k) ==
  /\ Ready(states)
  /\ client' = [at |-> l, cmd |-> k, side |-> 0]
  /\ UNCHANGED <<alive, state, queue, callback, bExit, worker, handler,
                 buffers, pending, started>>

BufSyncCtrlStart == Enter({"Initialize", "Stopped"}, "send", "START")
BufSyncCtrlStop == Enter({"Running", "Stopped"}, "send", "STOP")
BufSyncCtrlShutDown == Enter({"Initialize", "Stopped"}, "end", "INVALID")

\* The callback is set and cleared under BufferLock, which is held during a
\* call of it, in any state of the control.
SetCallback(b) ==
  /\ Ready(States \ {"Invalid"})
  /\ callback' = b
  /\ UNCHANGED <<alive, state, queue, bExit, worker, handler, client, buffers,
                 pending, started>>

BufSyncCtrlRegisterBufferCb == SetCallback(TRUE)
BufSyncCtrlDeRegisterBufferCb == SetCallback(FALSE)

\* BufSyncCtrlSendCommand: osQueueWrite blocks until there is room.
Queued(cmd) ==
  /\ Len(queue) < MaxCommands
  /\ queue' = Append(queue, cmd)

SendCommand ==
  /\ client.at = "send" /\ state # "Invalid"
  /\ Queued([id |-> client.cmd, ctx |-> 0])
  /\ client' = IF client.cmd = "SHUTDOWN" THEN ClientAt("join") ELSE ClientAt("idle")
  /\ pending' = [k \in Commands |-> pending[k] + IF k = client.cmd THEN 1 ELSE 0]
  /\ UNCHANGED <<alive, state, callback, bExit, worker, handler, buffers, started>>

(***************************************************************************)
(* DestroyQueueThreads, one side after the other: tell the thread to end,  *)
(* wait for it, and give back the buffers left in its queue, though not    *)
(* the one the side holds.                                                 *)
(***************************************************************************)
EndQueueThread ==
  /\ client.at = "end"
  /\ bExit' = [bExit EXCEPT ![client.side] = TRUE]
  /\ client' = [client EXCEPT !.at = "await"]
  /\ UNCHANGED <<alive, state, queue, callback, worker, handler, buffers,
                 pending, started>>

AwaitQueueThread ==
  /\ client.at = "await" /\ worker[client.side] = "none"
  /\ client' = [client EXCEPT !.at = "cancel"]
  /\ UNCHANGED <<alive, state, queue, callback, bExit, worker, handler, buffers,
                 pending, started>>

CancelBuffers ==
  /\ client.at = "cancel"
  /\ IF bufq[client.side] # <<>>
     THEN /\ locks' = Unlocked(locks, client.side, Head(bufq[client.side]))
          /\ bufq' = [bufq EXCEPT ![client.side] = Tail(@)]
          /\ UNCHANGED client
     ELSE /\ client' = IF client.side = 0
                       THEN [client EXCEPT !.at = "end", !.side = 1]
                       ELSE [at |-> "send", cmd |-> "SHUTDOWN", side |-> 0]
          /\ UNCHANGED <<bufq, locks>>
  /\ UNCHANGED <<alive, state, queue, callback, held, bExit, worker, handler,
                 pending, started>>

\* The rest of BufSyncCtrlDestroy: join the handler, cancel, free.
Join ==
  /\ client.at = "join" /\ handler.at = "none"
  /\ client' = ClientAt("free")
  /\ UNCHANGED <<alive, state, queue, callback, bExit, worker, handler, buffers,
                 pending, started>>

Free ==
  /\ client.at = "free"
  /\ IF queue = <<>>
     THEN alive' = FALSE /\ client' = ClientAt("idle") /\ UNCHANGED <<queue, pending>>
     ELSE /\ queue' = Tail(queue)
          /\ pending' = [k \in Commands |->
                           pending[k] - IF k = Head(queue).id THEN 1 ELSE 0]
          /\ UNCHANGED <<alive, client>>
  /\ UNCHANGED <<state, callback, bExit, worker, handler, buffers, started>>

-----------------------------------------------------------------------------
(* A queue thread. *)

\* Faulty variant for the checks: the buffer that is replaced is forgotten.
TakeBufferKeeps(i) ==
  /\ worker[i] = "read" /\ bufq[i] # <<>>
  /\ held' = [held EXCEPT ![i] = Head(bufq[i])]
  /\ bufq' = [bufq EXCEPT ![i] = Tail(@)]
  /\ worker' = [worker EXCEPT ![i] = "send"]
  /\ UNCHANGED <<alive, state, queue, callback, bExit, handler, client, locks,
                 pending, started>>

\* The newest buffer takes the place of the one the side holds.
TakeBuffer(i) ==
  /\ worker[i] = "read" /\ bufq[i] # <<>>
  /\ held' = [held EXCEPT ![i] = Head(bufq[i])]
  /\ locks' = Unlocked(locks, i, held[i])
  /\ bufq' = [bufq EXCEPT ![i] = Tail(@)]
  /\ worker' = [worker EXCEPT ![i] = "send"]
  /\ UNCHANGED <<alive, state, queue, callback, bExit, handler, client,
                 pending, started>>

Tell(i) ==
  /\ worker[i] = "send"
  /\ IF state = "Invalid" THEN UNCHANGED queue
     ELSE Queued([id |-> "PROCESS_BUFFER", ctx |-> i])
  /\ worker' = [worker EXCEPT ![i] = "read"]
  /\ UNCHANGED <<alive, state, callback, bExit, handler, client, buffers,
                 pending, started>>

\* The flag is looked at only when a second has passed without a buffer.
TimeOut(i) ==
  /\ worker[i] = "read" /\ bufq[i] = <<>> /\ bExit[i]
  /\ worker' = [worker EXCEPT ![i] = "none"]
  /\ UNCHANGED <<alive, state, queue, callback, bExit, handler, client, buffers,
                 pending, started>>

-----------------------------------------------------------------------------
(* The handler thread. *)

HandlerRead ==
  /\ handler.at = "read" /\ queue # <<>>
  /\ handler' = [HandlerAt("execute") EXCEPT !.cmd = Head(queue)]
  /\ queue' = Tail(queue)
  /\ UNCHANGED <<alive, state, callback, bExit, worker, client, buffers,
                 pending, started>>

Executes(id, states) ==
  handler.at = "execute" /\ handler.cmd.id = id /\ state \in states

HandleStart ==
  /\ Executes("START", {"Initialize", "Stopped"})
  /\ state' = "Running" /\ started' = TRUE
  /\ handler' = [handler EXCEPT !.at = "complete"]
  /\ UNCHANGED <<alive, queue, callback, bExit, worker, client, buffers, pending>>

\* Faulty variant for the checks: STOP is not completed.
HandleStopSilent ==
  /\ Executes("STOP", {"Running"})
  /\ state' = "Stopped"
  /\ handler' = HandlerAt("read")
  /\ UNCHANGED <<alive, queue, callback, bExit, worker, client, buffers,
                 pending, started>>

HandleStop ==
  /\ Executes("STOP", {"Running"})
  /\ state' = "Stopped"
  /\ handler' = [handler EXCEPT !.at = "complete"]
  /\ UNCHANGED <<alive, queue, callback, bExit, worker, client, buffers,
                 pending, started>>

\* Faulty variant for the checks: the thread goes on reading commands.
HandleShutDownStays ==
  /\ Executes("SHUTDOWN", {"Initialize", "Stopped"})
  /\ state' = "Invalid"
  /\ handler' = HandlerAt("read")
  /\ UNCHANGED <<alive, queue, callback, bExit, worker, client, buffers,
                 pending, started>>

HandleShutDown ==
  /\ Executes("SHUTDOWN", {"Initialize", "Stopped"})
  /\ state' = "Invalid"
  /\ handler' = HandlerAt("none")
  /\ UNCHANGED <<alive, queue, callback, bExit, worker, client, buffers,
                 pending, started>>

\* In Stopped a buffer is given back, and the side holds none any more.
DropStopped ==
  /\ Executes("PROCESS_BUFFER", {"Stopped"})
  /\ locks' = Unlocked(locks, handler.cmd.ctx, held[handler.cmd.ctx])
  /\ held' = [held EXCEPT ![handler.cmd.ctx] = NoBuffer]
  /\ handler' = HandlerAt("read")
  /\ UNCHANGED <<alive, state, queue, callback, bExit, worker, client, bufq,
                 pending, started>>

\* In Initialize it is given back, and the side holds it still.
DropInitialize ==
  /\ Executes("PROCESS_BUFFER", {"Initialize"})
  /\ locks' = Unlocked(locks, handler.cmd.ctx, held[handler.cmd.ctx])
  /\ handler' = HandlerAt("read")
  /\ UNCHANGED <<alive, state, queue, callback, held, bExit, worker, client, bufq,
                 pending, started>>

\* Faulty variant for the checks: the sides still hold the buffers of a pair.
PairKeeps ==
  /\ Executes("PROCESS_BUFFER", {"Running"})
  /\ IF callback /\ NoBuffer \notin {held[i] : i \in Sides}
     THEN handler' = [handler EXCEPT !.at = "call", !.pair = held]
     ELSE handler' = HandlerAt("read")
  /\ UNCHANGED <<alive, state, queue, callback, bExit, worker, client, buffers,
                 pending, started>>

\* Under both buffer locks, but not the one of the callback.
Pair ==
  /\ Executes("PROCESS_BUFFER", {"Running"})
  /\ IF callback /\ NoBuffer \notin {held[i] : i \in Sides}
     THEN /\ handler' = [handler EXCEPT !.at = "call", !.pair = held]
          /\ held' = [i \in Sides |-> NoBuffer]
     ELSE handler' = HandlerAt("read") /\ UNCHANGED held
  /\ UNCHANGED <<alive, state, queue, callback, bExit, worker, client, bufq, locks,
                 pending, started>>

\* The callback, under BufferLock: whatever fpCallback is by now is called.
CallBack ==
  /\ handler.at = "call"
  /\ handler' = [handler EXCEPT !.at = "return"]
  /\ UNCHANGED <<alive, state, queue, callback, bExit, worker, client, buffers,
                 pending, started>>

ReturnPair ==
  /\ handler.at = "return"
  /\ locks' = Unlocked(Unlocked(locks, 1, handler.pair[1]), 0, handler.pair[0])
  /\ handler' = HandlerAt("read")
  /\ UNCHANGED <<alive, state, queue, callback, held, bExit, worker, client, bufq,
                 pending, started>>

HandleWrongState ==
  /\ Executes("STOP", {"Initialize", "Stopped"})
  /\ handler' = [handler EXCEPT !.at = "complete"]
  /\ UNCHANGED <<alive, state, queue, callback, bExit, worker, client, buffers,
                 pending, started>>

\* BufSyncCtrlCompleteCommand.
HandlerComplete ==
  /\ handler.at = "complete"
  /\ handler' = HandlerAt("read")
  /\ pending' = [k \in Commands |-> pending[k] - IF k = handler.cmd.id THEN 1 ELSE 0]
  /\ UNCHANGED <<alive, state, queue, callback, bExit, worker, client, buffers, started>>

-----------------------------------------------------------------------------
Client ==
  \/ SendCommand \/ EndQueueThread \/ AwaitQueueThread \/ CancelBuffers
  \/ Join \/ Free

Worker(i) == TakeBuffer(i) \/ Tell(i) \/ TimeOut(i)

Handler ==
  \/ HandlerRead \/ HandleStart \/ HandleStop \/ HandleShutDown \/ HandleWrongState
  \/ DropStopped \/ Pair \/ CallBack \/ ReturnPair
  \/ HandlerComplete

\* What only a producer that sends before the first START leads to.
EarlyNext == DropInitialize

Next ==
  \/ BufSyncCtrlInit \/ BufSyncCtrlStart \/ BufSyncCtrlStop \/ BufSyncCtrlShutDown
  \/ BufSyncCtrlRegisterBufferCb \/ BufSyncCtrlDeRegisterBufferCb
  \/ Client \/ Handler
  \/ \E i \in Sides : Produce(i) \/ Worker(i)

Spec == Init /\ [][Next]_vars

\* The threads run, and producers keep sending; the client may be idle forever.
FairSpec ==
  /\ Spec
  /\ WF_vars(Client) /\ WF_vars(Handler)
  /\ \A i \in Sides : WF_vars(Worker(i)) /\ WF_vars(Produce(i))

\* The programs with the step that only early or endless producers lead to.
EarlySpec == Init /\ [][Next \/ EarlyNext]_vars

EarlyFairSpec ==
  /\ EarlySpec
  /\ WF_vars(Client) /\ WF_vars(Handler \/ EarlyNext)
  /\ \A i \in Sides : WF_vars(Worker(i)) /\ WF_vars(Produce(i))

(***************************************************************************)
(* How many places still mean to give the buffer back: the queue it is in, *)
(* the side that holds it, the pair of the handler.                        *)
(***************************************************************************)
Queues(i, b) == Cardinality({n \in DOMAIN bufq[i] : bufq[i][n] = b})
Owners(i, b) ==
  Queues(i, b)
    + (IF alive /\ held[i] = b THEN 1 ELSE 0)
    + (IF handler.at \in {"call", "return"} /\ handler.pair[i] = b THEN 1 ELSE 0)

(***************************************************************************)
(* A buffer is locked once for each place that still means to use it and   *)
(* give it back: the callback never sees a buffer that its producer may    *)
(* fill again, and no lock of somebody else is undone.                     *)
(***************************************************************************)
LockedWhileOwned ==
  \A i \in Sides, b \in Buffers : Owners(i, b) <= locks[i][b]

Orphan(i, b) == Owners(i, b) = 0 /\ locks[i][b] > 0

(***************************************************************************)
(* While the control exists no buffer becomes an orphan, whichever of the  *)
(* queue threads and the handler comes first: what a side does not pass on *)
(* it gives back.                                                          *)
(***************************************************************************)
NoBufferOrphaned ==
  [][alive' => \A i \in Sides, b \in Buffers : Orphan(i, b)' => Orphan(i, b)]_vars

(***************************************************************************)
(* BufSyncCtrlShutDown returns: the queue threads and the handler thread   *)
(* it waits for end.                                                       *)
(***************************************************************************)
ShutDownReturns == client.at = "end" ~> ~alive

(***************************************************************************)
(* Each accepted START and STOP is completed exactly once.                 *)
(***************************************************************************)
Service == INSTANCE CommandService WITH open <- alive
CommandsServed == Service!ServiceSpec
=============================================================================
