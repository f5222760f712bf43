------------------------------ MODULE MimCtrl ------------------------------
(***************************************************************************)
(* The MIM control (units/mim_ctrl): a context with a state, a bounded     *)
(* command queue and a handler thread; a client thread that calls the API; *)
(* and the DMA engine of the CamerIC driver, whose completion callback     *)
(* runs concurrently with both.                                            *)
(*                                                                         *)
(* The command queue is the first-in first-out channel of OsFifo.  A call  *)
(* of the API tests the state first and sends its command in a later step, *)
(* as the code takes no lock around the two.                               *)
(***************************************************************************)
EXTENDS Integers, Sequences

CONSTANTS MaxCommands,  \* MaxPendingCommands of the configuration
          Pictures,     \* picture buffers the client loads
          NoPicture,    \* pDmaPicBuffer of a fresh context
          Eager         \* calls the client makes while a command is pending

States == {"Invalid", "Initialize", "Running", "Stopped", "WaitForDma"}
Commands == {"START", "STOP", "DMA_TRANSFER"}
Results == {"SUCCESS", "FAILURE", "WRONG_STATE", "CANCELED"}
Calls == {"Start", "Stop", "ShutDown", "LoadPicture"}

ASSUME MimAssumption == /\ MaxCommands \in Nat \ {0}
                        /\ NoPicture \notin Pictures
                        /\ Eager \subseteq Calls

VARIABLES
  alive,     \* has MimCtrlInit allocated the context, and nobody freed it?
  state,     \* State of the context
  queue,     \* CommandQueue
  picture,   \* pDmaPicBuffer
  dmaResult, \* dmaResult
  client,    \* the client thread: where it is, and the command it sends
  handler,   \* the handler thread: where it is, its Command and result
  dma,       \* the DMA engine: busy or not, with what, and how it ended
  isr,       \* the completion callback: sent its command, with what result
  pending,   \* pending[c]: commands accepted and not yet completed
  owed,      \* pictures accepted for loading whose transfer has not begun
  told       \* the state the client knows from the completions it got

ctx == <<alive, state, queue, picture, dmaResult>>
hist == <<pending, owed, told>>
vars == <<ctx, client, handler, dma, isr, hist>>

NoCommand == "INVALID"
AllCommands == Commands \cup {"SHUTDOWN"}

TypeOK ==
  /\ alive \in BOOLEAN
  /\ state \in States
  /\ queue \in Seq(AllCommands) /\ Len(queue) <= MaxCommands
  /\ picture \in Pictures \cup {NoPicture}
  /\ dmaResult \in Results
  /\ client \in [at : {"idle", "init", "send", "join", "drain"},
                 cmd : AllCommands \cup {NoCommand}]
  /\ handler \in [at : {"none", "read", "execute", "wait", "complete"},
                  cmd : AllCommands \cup {NoCommand}, result : Results]
  /\ dma \in [busy : BOOLEAN, picture : Pictures \cup {NoPicture},
              outcome : Results]
  /\ isr \in [at : {"idle", "store"}, result : Results]
  /\ pending \in [Commands -> Nat]
  /\ owed \in Seq(Pictures)
  /\ told \in States

ClientAt(l) == [at |-> l, cmd |-> NoCommand]
HandlerAt(l) == [at |-> l, cmd |-> NoCommand, result |-> "SUCCESS"]

Init ==
  /\ alive = FALSE
  /\ state = "Invalid" /\ queue = <<>>
  /\ picture = NoPicture /\ dmaResult = "SUCCESS"
  /\ client = ClientAt("idle")
  /\ handler = HandlerAt("none")
  /\ dma = [busy |-> FALSE, picture |-> NoPicture, outcome |-> "SUCCESS"]
  /\ isr = [at |-> "idle", result |-> "SUCCESS"]
  /\ pending = [c \in Commands |-> 0]
  /\ owed = <<>>
  /\ told = "Invalid"

(***************************************************************************)
(* MimCtrlInit.  The handler thread exists before the state is set; a      *)
(* failure to create the queue or the thread leaves no context.            *)
(***************************************************************************)
MimCtrlInit ==
  /\ client.at = "idle" /\ ~alive
  /\ alive' = TRUE
  /\ state' = "Invalid" /\ queue' = <<>>
  /\ picture' = NoPicture /\ dmaResult' = "SUCCESS"
  /\ handler' = HandlerAt("read")
  /\ client' = ClientAt("init")
  /\ UNCHANGED <<dma, isr, hist>>

InitDone ==
  /\ client.at = "init"
  /\ state' = "Initialize"
  /\ told' = "Initialize"
  /\ client' = ClientAt("idle")
  /\ UNCHANGED <<alive, queue, picture, dmaResult, handler, dma, isr,
                 pending, owed>>

NothingPending == \A c \in Commands : pending[c] = 0

(***************************************************************************)
(* The first half of a call of the API: the guard on the state.  A call    *)
(* the guard refuses returns RET_WRONG_STATE and changes nothing.  The     *)
(* client waits for the completions it is owed before it calls again, but  *)
(* for the calls in Eager, which it only does not repeat.                  *)
(***************************************************************************)
Enter(call, states, cmd) ==
  /\ alive /\ client.at = "idle"
  /\ \/ NothingPending
     \/ call \in Eager /\ (cmd \in Commands => pending[cmd] = 0)
  /\ state \in states
  /\ client' = [at |-> "send", cmd |-> cmd]
  /\ UNCHANGED <<alive, state, queue, dmaResult, handler, dma, isr, hist>>

MimCtrlStart ==
  /\ Enter("Start", {"Initialize", "Stopped"}, "START")
  /\ UNCHANGED picture

MimCtrlStop ==
  /\ Enter("Stop", {"Running", "Initialize", "Stopped", "WaitForDma"}, "STOP")
  /\ UNCHANGED picture

MimCtrlShutDown ==
  /\ Enter("ShutDown", {"Initialize", "Stopped"}, "SHUTDOWN")
  /\ UNCHANGED picture

\* Faulty variant for the checks: the state is not tested.
MimCtrlLoadPictureAlways ==
  /\ Enter("LoadPicture", {"Initialize", "Running", "Stopped"}, "DMA_TRANSFER")
  /\ picture' \in Pictures

MimCtrlLoadPicture ==
  /\ Enter("LoadPicture", {"Running"}, "DMA_TRANSFER")
  /\ picture' \in Pictures

\* What MimCtrlSendCommand does with a command: refuse it, or queue it when
\* there is room; osQueueWrite blocks until there is.
Queued(cmd) ==
  /\ Len(queue) < MaxCommands
  /\ queue' = Append(queue, cmd)

(***************************************************************************)
(* The second half of a call.  The state cannot be Invalid here: only the  *)
(* SHUTDOWN this client sends last makes it so.                            *)
(***************************************************************************)
MimCtrlSendCommand ==
  /\ client.at = "send" /\ state # "Invalid"
  /\ Queued(client.cmd)
  /\ IF client.cmd = "SHUTDOWN"
     THEN client' = ClientAt("join") /\ UNCHANGED pending
     ELSE /\ client' = ClientAt("idle")
          /\ pending' = [pending EXCEPT ![client.cmd] = @ + 1]
  /\ owed' = IF client.cmd = "DMA_TRANSFER" THEN Append(owed, picture) ELSE owed
  /\ UNCHANGED <<alive, state, picture, dmaResult, handler, dma, isr, told>>

(***************************************************************************)
(* MimCtrlDestroy: wait for the handler thread, cancel what it left in the *)
(* queue, one command after the other, and free the context.               *)
(***************************************************************************)
Join ==
  /\ client.at = "join" /\ handler.at = "none"
  /\ client' = ClientAt("drain")
  /\ UNCHANGED <<ctx, handler, dma, isr, hist>>

Drain ==
  /\ client.at = "drain"
  /\ IF queue # <<>>
     THEN /\ queue' = Tail(queue)
          /\ pending' = IF Head(queue) \in Commands
                        THEN [pending EXCEPT ![Head(queue)] = @ - 1]
                        ELSE pending
          /\ UNCHANGED <<alive, client, told>>
     ELSE /\ alive' = FALSE
          /\ client' = ClientAt("idle")
          /\ told' = "Invalid"
          /\ UNCHANGED <<queue, pending>>
  /\ UNCHANGED <<state, picture, dmaResult, handler, dma, isr, owed>>

-----------------------------------------------------------------------------
(* The handler thread. *)

HandlerRead ==
  /\ handler.at = "read" /\ queue # <<>>
  /\ handler' = [at |-> "execute", cmd |-> Head(queue), result |-> "WRONG_STATE"]
  /\ queue' = Tail(queue)
  /\ UNCHANGED <<alive, state, picture, dmaResult, client, dma, isr, hist>>

\* The command cmd in one of the states given: go to s and complete with r.
Handle(cmd, states, s, r) ==
  /\ handler.at = "execute" /\ handler.cmd = cmd /\ state \in states
  /\ state' = s
  /\ handler' = [handler EXCEPT !.at = "complete", !.result = r]
  /\ UNCHANGED <<alive, queue, picture, dmaResult, client, dma, isr, hist>>

HandleStart == Handle("START", {"Initialize", "Stopped"}, "Running", "SUCCESS")

HandleStop == Handle("STOP", {"Running", "WaitForDma"}, "Stopped", "SUCCESS")

\* Faulty variant for the checks: a stopped controller runs again.
HandleDmaDoneRuns ==
  \/ Handle("DMA_TRANSFER", {"WaitForDma"}, "Running", dmaResult)
  \/ Handle("DMA_TRANSFER", {"Stopped"}, "Running", dmaResult)

\* The DMA_TRANSFER the completion callback sent.
HandleDmaDone ==
  \/ Handle("DMA_TRANSFER", {"WaitForDma"}, "Running", dmaResult)
  \/ Handle("DMA_TRANSFER", {"Stopped"}, "Stopped", dmaResult)

Handled(cmd) ==
  CASE cmd = "START" -> {"Initialize", "Stopped"}
    [] cmd = "STOP" -> {"Running", "WaitForDma"}
    [] cmd = "SHUTDOWN" -> {"Initialize", "Stopped"}
    [] cmd = "DMA_TRANSFER" -> {"Running", "WaitForDma", "Stopped"}

HandleWrongState ==
  /\ handler.at = "execute"
  /\ Handle(handler.cmd, States \ Handled(handler.cmd), state, "WRONG_STATE")

\* Faulty variant for the checks: the thread goes on reading commands.
HandleShutDownStays ==
  /\ handler.at = "execute" /\ handler.cmd = "SHUTDOWN"
  /\ state \in {"Initialize", "Stopped"}
  /\ state' = "Invalid"
  /\ handler' = HandlerAt("read")
  /\ UNCHANGED <<alive, queue, picture, dmaResult, client, dma, isr, hist>>

HandleShutDown ==
  /\ handler.at = "execute" /\ handler.cmd = "SHUTDOWN"
  /\ state \in {"Initialize", "Stopped"}
  /\ state' = "Invalid"
  /\ handler' = HandlerAt("none")
  /\ UNCHANGED <<alive, queue, picture, dmaResult, client, dma, isr, hist>>

(***************************************************************************)
(* CamerIcDriverLoadPicture starts a transfer of the picture the context   *)
(* points to and is pending, or ends at once; a busy engine refuses.       *)
(***************************************************************************)
HandleTransfer ==
  /\ handler.at = "execute" /\ handler.cmd = "DMA_TRANSFER"
  /\ state = "Running"
  /\ owed' = IF owed = <<>> THEN owed ELSE Tail(owed)
  /\ \/ /\ ~dma.busy
        /\ dma' = [busy |-> TRUE, picture |-> picture, outcome |-> "SUCCESS"]
        /\ handler' = [handler EXCEPT !.at = "wait"]
     \/ \E r \in {"SUCCESS", "FAILURE"} :
          /\ r = "SUCCESS" => ~dma.busy
          /\ dma' = IF dma.busy THEN dma ELSE [dma EXCEPT !.outcome = r]
          /\ handler' = [handler EXCEPT !.at = "complete", !.result = r]
  /\ UNCHANGED <<ctx, client, isr, pending, told>>

\* Faulty variant for the checks: a pending transfer is completed at once.
HandlerWaitCompletes ==
  /\ handler.at = "wait"
  /\ state' = "WaitForDma"
  /\ handler' = [handler EXCEPT !.at = "complete"]
  /\ UNCHANGED <<alive, queue, picture, dmaResult, client, dma, isr, hist>>

\* The transfer is pending: only now does the state say so.
HandlerWait ==
  /\ handler.at = "wait"
  /\ state' = "WaitForDma"
  /\ handler' = HandlerAt("read")
  /\ UNCHANGED <<alive, queue, picture, dmaResult, client, dma, isr, hist>>

\* MimCtrlCompleteCommand, and what the client learns from the completion.
HandlerComplete ==
  /\ handler.at = "complete"
  /\ handler' = HandlerAt("read")
  /\ pending' = IF handler.cmd \in Commands
                THEN [pending EXCEPT ![handler.cmd] = @ - 1]
                ELSE pending
  /\ told' = CASE handler.cmd = "START" /\ handler.result = "SUCCESS" -> "Running"
               [] handler.cmd = "STOP" /\ handler.result = "SUCCESS" -> "Stopped"
               [] OTHER -> told
  /\ UNCHANGED <<ctx, client, dma, isr, owed>>

-----------------------------------------------------------------------------
(* The DMA engine and MimCtrlDmaCompletionCb. *)

(***************************************************************************)
(* The transfer ends and the callback sends the handler its command; a     *)
(* context in state Invalid refuses it.                                    *)
(***************************************************************************)
MimCtrlDmaCompletionCb ==
  /\ alive /\ dma.busy /\ isr.at = "idle"
  /\ IF state = "Invalid"
     THEN isr' = [at |-> "store", result |-> "CANCELED"] /\ UNCHANGED queue
     ELSE isr' = [at |-> "store", result |-> "SUCCESS"] /\ Queued("DMA_TRANSFER")
  /\ \E r \in {"SUCCESS", "FAILURE"} :
       dma' = [dma EXCEPT !.busy = FALSE, !.outcome = r]
  /\ UNCHANGED <<alive, state, picture, dmaResult, client, handler, hist>>

(***************************************************************************)
(* After the command has been sent, its status is stored in dmaResult: the *)
(* variable `result' of the inner block hides the parameter.  The handler  *)
(* may have completed the transfer by then, and the client may have freed  *)
(* the context; a store to a context that took its place sets what is      *)
(* there already.                                                          *)
(***************************************************************************)
StoreResult ==
  /\ isr.at = "store"
  /\ dmaResult' = isr.result
  /\ isr' = [isr EXCEPT !.at = "idle"]
  /\ UNCHANGED <<alive, state, queue, picture, client, handler, dma, hist>>

-----------------------------------------------------------------------------
Client ==
  \/ InitDone \/ MimCtrlSendCommand \/ Join \/ Drain

Handler ==
  \/ HandlerRead
  \/ HandleStart \/ HandleStop \/ HandleDmaDone \/ HandleWrongState
  \/ HandleShutDown \/ HandleTransfer \/ HandlerWait
  \/ HandlerComplete

Dma == MimCtrlDmaCompletionCb \/ StoreResult

Next ==
  \/ MimCtrlInit
  \/ MimCtrlStart \/ MimCtrlStop \/ MimCtrlShutDown \/ MimCtrlLoadPicture
  \/ Client \/ Handler \/ Dma

Spec == Init /\ [][Next]_vars

(***************************************************************************)
(* Fairness: the threads run, and a transfer that was started ends.  The   *)
(* client is not obliged to call anything, only to finish what it called.  *)
(***************************************************************************)
FairSpec == /\ Spec
            /\ WF_vars(Client) /\ WF_vars(Handler)
            /\ WF_vars(MimCtrlDmaCompletionCb) /\ WF_vars(StoreResult)

(***************************************************************************)
(* A client that knows of no pending command and has been told the outcome *)
(* of all of them knows the state: no transfer that ends late, after a     *)
(* Stop, moves the controller behind its back.                             *)
(***************************************************************************)
StateAsTold ==
  alive /\ client.at = "idle" /\ NothingPending => state = told

(***************************************************************************)
(* The context is not freed under a transfer: ShutDown succeeds only when  *)
(* the transfer whose callback points to the context has ended.            *)
(***************************************************************************)
NoTransferIntoFreed == ~alive => ~dma.busy

(***************************************************************************)
(* A DMA_TRANSFER completed with success is a transfer that succeeded.     *)
(***************************************************************************)
TruthfulResult ==
  /\ handler.at = "complete"
  /\ handler.cmd = "DMA_TRANSFER" /\ handler.result = "SUCCESS"
  => dma.outcome = "SUCCESS"

(***************************************************************************)
(* Every transfer is one the client asked for, in the order it asked, and  *)
(* reads the picture it asked for: the DMA_TRANSFER that announces the end *)
(* of a transfer is never taken for the request of another one.            *)
(***************************************************************************)
OnlyRequestedTransfers ==
  [][~dma.busy /\ dma'.busy => owed # <<>> /\ dma'.picture = Head(owed)]_vars

(***************************************************************************)
(* MimCtrlShutDown returns: the handler thread it waits for does exit.     *)
(***************************************************************************)
ShutDownReturns == client.at = "join" ~> ~alive

(***************************************************************************)
(* The controller is a command service: each accepted START, STOP and      *)
(* DMA_TRANSFER is completed exactly once, by the handler or, when it is   *)
(* left in the queue, by ShutDown.                                         *)
(***************************************************************************)
Service == INSTANCE CommandService WITH open <- alive
CommandsServed == Service!ServiceSpec
=============================================================================
