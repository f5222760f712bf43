--------------------------- MODULE MimCtrl_proofs ---------------------------
(***************************************************************************)
(* What holds of the MIM control for every depth of its queue, every set   *)
(* of pictures and every client that waits for its completions before it   *)
(* shuts the control down: where a command is, what the state is and who   *)
(* knows it, and that no transfer is left when the context is freed.       *)
(***************************************************************************)
EXTENDS MimCtrl, SequencesExt, TLAPS

(***************************************************************************)
(* The client shuts down only when no completion is owed to it; or it      *)
(* waits before every call but Stop.                                       *)
(***************************************************************************)
PatientAtEnd == "ShutDown" \notin Eager
Patient == Eager \subseteq {"Stop"}

(***************************************************************************)
(* Where a command is that was accepted and not completed: in the queue,   *)
(* with the handler, or it is the transfer of the DMA engine; and nowhere  *)
(* twice.                                                                  *)
(***************************************************************************)
Distinct(q) == \A i, j \in DOMAIN q : q[i] = q[j] => i = j

AtHandler(c) == handler.cmd = c /\ handler.at # "wait"
AtDma(c) == c = "DMA_TRANSFER" /\ dma.busy

Outstanding(c) ==
  IF c = "SHUTDOWN" THEN client.at = "join" /\ handler.at # "none"
                    ELSE pending[c] = 1

Place(c) ==
  /\ Outstanding(c) <=> c \in ToSet(queue) \/ AtHandler(c) \/ AtDma(c)
  /\ c \in ToSet(queue) => ~AtHandler(c) /\ ~AtDma(c)
  /\ ~(AtHandler(c) /\ AtDma(c))

PlacesMatch ==
  /\ Distinct(queue)
  /\ \A c \in AllCommands : Place(c)
  /\ \A c \in Commands : pending[c] \in {0, 1}
  /\ handler.cmd = NoCommand <=> handler.at \in {"none", "read"}
  /\ handler.at = "wait" =>
       handler.cmd = "DMA_TRANSFER" /\ pending["DMA_TRANSFER"] = 1

(***************************************************************************)
(* What there is at which point of the client's calls.                     *)
(***************************************************************************)
PhasesMatch ==
  /\ alive \/ (client.at = "idle" /\ NothingPending)
  /\ alive => (state = "Invalid" <=>
                 \/ client.at \in {"init", "drain"}
                 \/ (client.at = "join" /\ handler.at = "none"))
  /\ handler.at = "none" <=>
       ~alive \/ client.at = "drain" \/ (client.at = "join" /\ state = "Invalid")
  /\ client.at \in {"init", "join", "drain"} => NothingPending
  /\ client.at = "join" => state \in {"Initialize", "Stopped", "Invalid"}
  /\ handler.cmd = "SHUTDOWN" => handler.at = "execute"
  /\ client.at = "send" <=> client.cmd # NoCommand
  /\ client.cmd \in Commands => pending[client.cmd] = 0
  /\ client.cmd = "SHUTDOWN" => NothingPending /\ state \in {"Initialize", "Stopped"}
  /\ client.cmd = "DMA_TRANSFER" => picture \in Pictures

(***************************************************************************)
(* The state is the one the client has been told, or is about to be told;  *)
(* or a transfer is under way.                                             *)
(***************************************************************************)
Telling(c) == handler.at = "complete" /\ handler.result = "SUCCESS" /\ handler.cmd = c

Known == IF Telling("START") THEN "Running"
         ELSE IF Telling("STOP") THEN "Stopped" ELSE told

StateKnown ==
  /\ alive /\ state # "Invalid" =>
       \/ state = Known
       \/ state = "WaitForDma" /\ Known = "Running" /\ pending["DMA_TRANSFER"] = 1
  /\ told # "WaitForDma"
  /\ handler.at = "wait" => state = "Running"
  /\ handler.at = "complete" /\ handler.cmd = "DMA_TRANSFER" => state # "WaitForDma"

IInv == TypeOK /\ PlacesMatch /\ PhasesMatch /\ StateKnown

(***************************************************************************)
(* Where the request for a transfer is.  A DMA_TRANSFER that is pending is *)
(* either a request, the first command there is, for the picture that the  *)
(* context points to; or its transfer has begun, and the state forbids to  *)
(* take the command that ends it for another request.                      *)
(***************************************************************************)
Requested ==
  /\ owed = <<picture>> /\ state = "Running" /\ ~dma.busy
  /\ \/ handler.at = "execute" /\ handler.cmd = "DMA_TRANSFER"
     \/ handler.at = "read" /\ queue # <<>> /\ Head(queue) = "DMA_TRANSFER"

Begun ==
  /\ owed = <<>>
  /\ \/ handler.at = "wait"
     \/ state \in {"WaitForDma", "Stopped"}
     \/ handler.at = "complete" /\ handler.cmd = "DMA_TRANSFER"

RequestsMatch ==
  /\ client.cmd \in {"START", "DMA_TRANSFER"} => NothingPending
  /\ client.cmd = "DMA_TRANSFER" => state = "Running"
  /\ pending["DMA_TRANSFER"] = 1 => pending["START"] = 0 /\ (Requested \/ Begun)
  /\ pending["DMA_TRANSFER"] = 0 => owed = <<>>

-----------------------------------------------------------------------------
(***************************************************************************)
(* The commands of a queue: of an empty one, of one that gets another, and *)
(* of one that loses its first.                                            *)
(***************************************************************************)
LEMMA QueueEmpty ==
  /\ ToSet(<<>>) = {} /\ Distinct(<<>>)
  /\ \A q \in Seq(AllCommands) : ToSet(q) = {} => q = <<>>
<1>1. ASSUME NEW q \in Seq(AllCommands), q # <<>> PROVE q[1] \in ToSet(q)
  BY <1>1 DEF ToSet
<1> QED
  BY <1>1 DEF ToSet, Distinct

LEMMA QueueAppend ==
  ASSUME NEW q \in Seq(AllCommands), Distinct(q),
         NEW c \in AllCommands, c \notin ToSet(q)
  PROVE  Distinct(Append(q, c)) /\ ToSet(Append(q, c)) = ToSet(q) \cup {c}
<1>1. /\ Len(q) \in Nat /\ DOMAIN q = 1 .. Len(q)
      /\ DOMAIN Append(q, c) = 1 .. Len(q) + 1
      /\ Append(q, c)[Len(q) + 1] = c
      /\ \A i \in 1 .. Len(q) : Append(q, c)[i] = q[i]
  OBVIOUS
<1>2. \A i \in 1 .. Len(q) + 1 : i \in 1 .. Len(q) \/ i = Len(q) + 1
  BY <1>1
<1>3. Distinct(Append(q, c))
  <2>1. \A i \in 1 .. Len(q) : q[i] # c
    BY <1>1 DEF ToSet
  <2> QED
    BY <1>1, <1>2, <2>1 DEF Distinct
<1>4. ToSet(Append(q, c)) = ToSet(q) \cup {c}
  <2>1. \A i \in 1 .. Len(q) : q[i] \in ToSet(Append(q, c)) /\ i \in 1 .. Len(q) + 1
    BY <1>1 DEF ToSet
  <2>2. c \in ToSet(Append(q, c))
    BY <1>1 DEF ToSet
  <2>3. \A i \in 1 .. Len(q) + 1 : Append(q, c)[i] \in ToSet(q) \cup {c}
    BY <1>1, <1>2 DEF ToSet
  <2> QED
    BY <1>1, <2>1, <2>2, <2>3 DEF ToSet
<1> QED
  BY <1>3, <1>4

LEMMA QueueTail ==
  ASSUME NEW q \in Seq(AllCommands), Distinct(q), q # <<>>
  PROVE  /\ Distinct(Tail(q)) /\ Head(q) \in ToSet(q)
         /\ ToSet(Tail(q)) = ToSet(q) \ {Head(q)}
<1>1. Len(q) \in Nat /\ Len(q) >= 1 /\ Head(q) = q[1]
  OBVIOUS
<1>2. \A i \in 1 .. Len(q) - 1 : Tail(q)[i] = q[i + 1]
  OBVIOUS
<1>3. DOMAIN Tail(q) = 1 .. Len(q) - 1 /\ DOMAIN q = 1 .. Len(q)
  OBVIOUS
<1>4. Distinct(Tail(q))
  BY <1>1, <1>2, <1>3 DEF Distinct
<1>5. Head(q) \in ToSet(q)
  BY <1>1, <1>3 DEF ToSet
<1>6. \A i \in 2 .. Len(q) : q[i] \in ToSet(Tail(q)) /\ q[i] # Head(q)
  <2> TAKE i \in 2 .. Len(q)
  <2>1. i - 1 \in 1 .. Len(q) - 1 /\ q[i] = Tail(q)[i - 1]
    BY <1>1, <1>2
  <2>2. q[i] # q[1]
    BY <1>1, <1>3 DEF Distinct
  <2> QED
    BY <1>1, <1>3, <2>1, <2>2 DEF ToSet
<1>7. ToSet(Tail(q)) \subseteq ToSet(q) \ {Head(q)}
  <2> SUFFICES ASSUME NEW i \in 1 .. Len(q) - 1
               PROVE  Tail(q)[i] \in ToSet(q) /\ Tail(q)[i] # Head(q)
    BY <1>3 DEF ToSet
  <2>1. i + 1 \in 2 .. Len(q)
    BY <1>1
  <2> QED
    BY <1>2, <1>3, <1>6, <2>1 DEF ToSet
<1>8. ToSet(q) \ {Head(q)} \subseteq ToSet(Tail(q))
  <2> SUFFICES ASSUME NEW i \in 1 .. Len(q), q[i] # Head(q)
               PROVE  q[i] \in ToSet(Tail(q))
    BY <1>3 DEF ToSet
  <2> QED
    BY <1>1, <1>6
<1> QED
  BY <1>4, <1>5, <1>7, <1>8

(***************************************************************************)
(* At the end of a shutdown nothing is left to cancel, nor a transfer.     *)
(***************************************************************************)
LEMMA NothingLeft ==
  ASSUME IInv, client.at = "drain"
  PROVE  queue = <<>> /\ ~dma.busy
<1>1. NothingPending /\ handler.at = "none" /\ handler.cmd = NoCommand
  BY DEF IInv, PlacesMatch, PhasesMatch
<1>2. \A c \in AllCommands : ~Outstanding(c)
  BY <1>1 DEF Outstanding, NothingPending, AllCommands, Commands
<1>3. \A c \in AllCommands : c \notin ToSet(queue)
  BY <1>2 DEF IInv, PlacesMatch, Place
<1>4. ~dma.busy
  BY <1>2 DEF IInv, PlacesMatch, Place, AtDma, AllCommands, Commands
<1>5. queue \in Seq(AllCommands) /\ ToSet(queue) \subseteq AllCommands
  BY DEF IInv, TypeOK, ToSet
<1> QED
  BY <1>3, <1>4, <1>5, QueueEmpty

(***************************************************************************)
(* A command that is sent is appended to the queue and to nothing else.    *)
(***************************************************************************)
LEMMA SendDoes ==
  ASSUME IInv, MimCtrlSendCommand
  PROVE  /\ alive /\ client.cmd \in AllCommands
         /\ client.cmd \in Commands => pending[client.cmd] = 0
         /\ ~Outstanding(client.cmd) /\ client.cmd \notin ToSet(queue)
         /\ Distinct(queue') /\ ToSet(queue') = ToSet(queue) \cup {client.cmd}
<1>1. alive /\ client.cmd \in AllCommands /\ client.at = "send"
  BY DEF MimCtrlSendCommand, IInv, TypeOK, PhasesMatch
<1>2. client.cmd \in Commands => pending[client.cmd] = 0
  BY DEF IInv, PhasesMatch
<1>3. ~Outstanding(client.cmd)
  BY <1>1, <1>2 DEF Outstanding, AllCommands
<1>4. client.cmd \notin ToSet(queue)
  BY <1>1, <1>3 DEF IInv, PlacesMatch, Place
<1>5. queue' = Append(queue, client.cmd)
  BY DEF MimCtrlSendCommand, Queued
<1> QED
  BY <1>1, <1>2, <1>3, <1>4, <1>5, QueueAppend DEF IInv, TypeOK, PlacesMatch

(***************************************************************************)
(* A step keeps client and handler in phase: the handler lives while the   *)
(* control is initialised, and ends only for a client that has asked it to *)
(* shut down.                                                              *)
(***************************************************************************)
LEMMA PhasesStep ==
  ASSUME PatientAtEnd, IInv, [Next]_vars
  PROVE  PhasesMatch'
<1>1. CASE MimCtrlInit
  BY <1>1
  DEF MimCtrlInit, HandlerAt, ClientAt, hist, PatientAtEnd, IInv, TypeOK,
      PlacesMatch, Place, Outstanding, AtHandler, AtDma, PhasesMatch,
      NothingPending, States, Commands, AllCommands, NoCommand
<1>2. CASE MimCtrlStart
  BY <1>2
  DEF MimCtrlStart, Enter, NothingPending, hist, PatientAtEnd, IInv, TypeOK,
      PlacesMatch, Place, Outstanding, AtHandler, AtDma, PhasesMatch, States,
      Commands, AllCommands, NoCommand
<1>3. CASE MimCtrlStop
  BY <1>3
  DEF MimCtrlStop, Enter, NothingPending, hist, PatientAtEnd, IInv, TypeOK,
      PlacesMatch, Place, Outstanding, AtHandler, AtDma, PhasesMatch, States,
      Commands, AllCommands, NoCommand
<1>4. CASE MimCtrlShutDown
  BY <1>4
  DEF MimCtrlShutDown, Enter, NothingPending, hist, PatientAtEnd, IInv, TypeOK,
      PlacesMatch, Place, Outstanding, AtHandler, AtDma, PhasesMatch, States,
      Commands, AllCommands, NoCommand
<1>5. CASE MimCtrlLoadPicture
  BY <1>5
  DEF MimCtrlLoadPicture, Enter, NothingPending, hist, PatientAtEnd, IInv,
      TypeOK, PlacesMatch, Place, Outstanding, AtHandler, AtDma, PhasesMatch,
      States, Commands, AllCommands, NoCommand
<1>6. CASE InitDone
  BY <1>6
  DEF InitDone, ClientAt, PatientAtEnd, IInv, TypeOK, PlacesMatch, Place,
      Outstanding, AtHandler, AtDma, PhasesMatch, NothingPending, States,
      Commands, AllCommands, NoCommand
<1>7. CASE MimCtrlSendCommand
  <2>1. CASE client.cmd = "SHUTDOWN"
    BY <1>7, <2>1
       DEF MimCtrlSendCommand, ClientAt, IInv, PhasesMatch, PlacesMatch,
           NothingPending, Commands, NoCommand
  <2>2. CASE client.cmd # "SHUTDOWN"
    <3>1. alive /\ client' = ClientAt("idle")
      BY <1>7, <2>2, SendDoes DEF MimCtrlSendCommand
    <3>2. UNCHANGED <<alive, state, handler, picture>>
      BY <1>7 DEF MimCtrlSendCommand
    <3>3. client.at = "send"
      BY <1>7 DEF MimCtrlSendCommand
    <3>4. client'.at = "idle" /\ client'.cmd = NoCommand
      BY <3>1 DEF ClientAt
    <3>5. NoCommand \notin Commands /\ NoCommand \notin {"SHUTDOWN", "DMA_TRANSFER"}
      BY DEF NoCommand, Commands
    <3>6. client.at \notin {"idle", "init", "join", "drain"}
      BY <3>3
    <3> QED
      BY <3>1, <3>2, <3>4, <3>5, <3>6 DEF IInv, PhasesMatch
  <2> QED
    BY <2>1, <2>2
<1>8. CASE Join
  BY <1>8
  DEF Join, ClientAt, hist, ctx, PatientAtEnd, IInv, TypeOK, PlacesMatch,
      Place, Outstanding, AtHandler, AtDma, PhasesMatch, NothingPending,
      States, Commands, AllCommands, NoCommand
<1>9. CASE Drain
  <2>1. queue = <<>> /\ client.at = "drain"
    BY <1>9, NothingLeft DEF Drain
  <2> QED
    BY <1>9, <2>1 DEF Drain, ClientAt, IInv, PhasesMatch, NothingPending, NoCommand
<1>10. CASE HandlerRead
  BY <1>10
  DEF HandlerRead, hist, PatientAtEnd, IInv, TypeOK, PlacesMatch, Place,
      Outstanding, AtHandler, AtDma, PhasesMatch, NothingPending, States,
      Commands, AllCommands, NoCommand
<1>11. CASE HandleStart
  BY <1>11
  DEF HandleStart, Handle, hist, PatientAtEnd, IInv, TypeOK, PlacesMatch,
      Place, Outstanding, AtHandler, AtDma, PhasesMatch, NothingPending,
      States, Commands, AllCommands, NoCommand
<1>12. CASE HandleStop
  BY <1>12
  DEF HandleStop, Handle, hist, PatientAtEnd, IInv, TypeOK, PlacesMatch, Place,
      Outstanding, AtHandler, AtDma, PhasesMatch, NothingPending, States,
      Commands, AllCommands, NoCommand
<1>13. CASE HandleDmaDone
  BY <1>13
  DEF HandleDmaDone, Handle, hist, PatientAtEnd, IInv, TypeOK, PlacesMatch,
      Place, Outstanding, AtHandler, AtDma, PhasesMatch, NothingPending,
      States, Commands, AllCommands, NoCommand
<1>14. CASE HandleWrongState
  BY <1>14
  DEF HandleWrongState, Handled, Handle, hist, PatientAtEnd, IInv, TypeOK,
      PlacesMatch, Place, Outstanding, AtHandler, AtDma, PhasesMatch,
      NothingPending, States, Commands, AllCommands, NoCommand
<1>15. CASE HandleShutDown
  BY <1>15
  DEF HandleShutDown, HandlerAt, hist, PatientAtEnd, IInv, TypeOK, PlacesMatch,
      Place, Outstanding, AtHandler, AtDma, PhasesMatch, NothingPending,
      States, Commands, AllCommands, NoCommand
<1>16. CASE HandleTransfer
  BY <1>16
  DEF HandleTransfer, ctx, PatientAtEnd, IInv, TypeOK, PlacesMatch, Place,
      Outstanding, AtHandler, AtDma, PhasesMatch, NothingPending, States,
      Commands, AllCommands, NoCommand
<1>17. CASE HandlerWait
  BY <1>17
  DEF HandlerWait, HandlerAt, hist, PatientAtEnd, IInv, TypeOK, PlacesMatch,
      Place, Outstanding, AtHandler, AtDma, PhasesMatch, NothingPending,
      States, Commands, AllCommands, NoCommand
<1>18. CASE HandlerComplete
  BY <1>18
  DEF HandlerComplete, HandlerAt, ctx, PatientAtEnd, IInv, TypeOK, PlacesMatch,
      Place, Outstanding, AtHandler, AtDma, PhasesMatch, NothingPending,
      States, Commands, AllCommands, NoCommand
<1>19. CASE MimCtrlDmaCompletionCb
  BY <1>19
  DEF MimCtrlDmaCompletionCb, hist, Queued, PatientAtEnd, IInv, TypeOK,
      PlacesMatch, Place, Outstanding, AtHandler, AtDma, PhasesMatch,
      NothingPending, States, Commands, AllCommands, NoCommand
<1>20. CASE StoreResult
  BY <1>20
  DEF StoreResult, hist, PatientAtEnd, IInv, TypeOK, PlacesMatch, Place,
      Outstanding, AtHandler, AtDma, PhasesMatch, NothingPending, States,
      Commands, AllCommands, NoCommand
<1>21. CASE UNCHANGED vars
  BY <1>21
  DEF vars, ctx, hist, PatientAtEnd, IInv, TypeOK, PlacesMatch, Place,
      Outstanding, AtHandler, AtDma, PhasesMatch, NothingPending, States,
      Commands, AllCommands, NoCommand
<1> QED
  BY <1>1, <1>2, <1>3, <1>4, <1>5, <1>6, <1>7, <1>8, <1>9, <1>10, <1>11, <1>12,
     <1>13, <1>14, <1>15, <1>16, <1>17, <1>18, <1>19, <1>20, <1>21
  DEF Next, Client, Handler, Dma

(***************************************************************************)
(* What a command does that is executed and answered.                      *)
(***************************************************************************)
HandlerTypes == [at : {"none", "read", "execute", "wait", "complete"},
                 cmd : AllCommands \cup {NoCommand}, result : Results]

LEMMA HandleDoes ==
  ASSUME IInv, HandleStart \/ HandleStop \/ HandleDmaDone \/ HandleWrongState
  PROVE  /\ handler.at = "execute" /\ handler'.at = "complete"
         /\ handler'.cmd = handler.cmd
         /\ handler.cmd \in Commands
         /\ handler' \in HandlerTypes /\ state' \in States
         /\ UNCHANGED <<alive, queue, picture, dmaResult, client, dma, isr,
                       pending, owed, told>>
<1> DEFINE Does(s, r) == handler' = [handler EXCEPT !.at = "complete", !.result = r] /\ state' = s
<1>1. handler.at = "execute" /\ handler \in HandlerTypes /\ state \in States
  BY DEF IInv, TypeOK, HandlerTypes, HandleStart, HandleStop, HandleDmaDone,
         HandleWrongState, Handle
<1>2. dmaResult \in Results
  BY DEF IInv, TypeOK
<1>3. UNCHANGED <<alive, queue, picture, dmaResult, client, dma, isr, pending,
                  owed, told>>
  BY DEF HandleStart, HandleStop, HandleDmaDone, HandleWrongState, Handle, hist
<1>4. \E s \in States, r \in Results : Does(s, r)
  <2>1. {"SUCCESS", "WRONG_STATE"} \subseteq Results /\ {"Running", "Stopped"} \subseteq States
    BY DEF Results, States
  <2>2. HandleStart => Does("Running", "SUCCESS")
    BY DEF HandleStart, Handle
  <2>3. HandleStop => Does("Stopped", "SUCCESS")
    BY DEF HandleStop, Handle
  <2>4. HandleDmaDone => Does("Running", dmaResult) \/ Does("Stopped", dmaResult)
    BY DEF HandleDmaDone, Handle
  <2>5. HandleWrongState => Does(state, "WRONG_STATE")
    BY DEF HandleWrongState, Handle
  <2> HIDE DEF Does
  <2> QED
    BY <1>1, <1>2, <2>1, <2>2, <2>3, <2>4, <2>5
<1>5. /\ handler' \in HandlerTypes /\ state' \in States
      /\ handler'.at = "complete" /\ handler'.cmd = handler.cmd
  BY <1>1, <1>4 DEF HandlerTypes
<1>6. handler.cmd \in AllCommands
  BY <1>1 DEF IInv, PlacesMatch, HandlerTypes
<1>7. handler.cmd # "SHUTDOWN"
  <2> SUFFICES ASSUME handler.cmd = "SHUTDOWN" PROVE FALSE
    OBVIOUS
  <2>1. HandleWrongState
    BY DEF HandleStart, HandleStop, HandleDmaDone, Handle
  <2>2. state \notin {"Initialize", "Stopped"}
    BY <2>1 DEF HandleWrongState, Handle, Handled
  <2>3. client.at = "join"
    BY <1>1 DEF IInv, PlacesMatch, Place, AtHandler, Outstanding, AllCommands
  <2>4. state = "Invalid"
    BY <2>2, <2>3 DEF IInv, PhasesMatch
  <2> QED
    BY <1>1, <2>3, <2>4 DEF IInv, PhasesMatch
<1> QED
  BY <1>1, <1>3, <1>5, <1>6, <1>7 DEF AllCommands

(***************************************************************************)
(* A step keeps a client that nothing is owed to informed of the state.    *)
(***************************************************************************)
LEMMA KnownStep ==
  ASSUME PatientAtEnd, IInv, [Next]_vars
  PROVE  StateKnown'
<1>1. CASE MimCtrlInit
  BY <1>1
  DEF MimCtrlInit, HandlerAt, ClientAt, hist, IInv, TypeOK, PlacesMatch, Place,
      Outstanding, AtHandler, AtDma, PhasesMatch, StateKnown, Known, Telling,
      NothingPending, States, Commands, AllCommands, NoCommand
<1>2. CASE MimCtrlStart
  BY <1>2
  DEF MimCtrlStart, Enter, NothingPending, hist, IInv, TypeOK, PlacesMatch,
      Place, Outstanding, AtHandler, AtDma, PhasesMatch, StateKnown, Known,
      Telling, States, Commands, AllCommands, NoCommand
<1>3. CASE MimCtrlStop
  BY <1>3
  DEF MimCtrlStop, Enter, NothingPending, hist, IInv, TypeOK, PlacesMatch,
      Place, Outstanding, AtHandler, AtDma, PhasesMatch, StateKnown, Known,
      Telling, States, Commands, AllCommands, NoCommand
<1>4. CASE MimCtrlShutDown
  BY <1>4
  DEF MimCtrlShutDown, Enter, NothingPending, hist, IInv, TypeOK, PlacesMatch,
      Place, Outstanding, AtHandler, AtDma, PhasesMatch, StateKnown, Known,
      Telling, States, Commands, AllCommands, NoCommand
<1>5. CASE MimCtrlLoadPicture
  BY <1>5
  DEF MimCtrlLoadPicture, Enter, NothingPending, hist, IInv, TypeOK,
      PlacesMatch, Place, Outstanding, AtHandler, AtDma, PhasesMatch,
      StateKnown, Known, Telling, States, Commands, AllCommands, NoCommand
<1>6. CASE InitDone
  BY <1>6
  DEF InitDone, ClientAt, IInv, TypeOK, PlacesMatch, Place, Outstanding,
      AtHandler, AtDma, PhasesMatch, StateKnown, Known, Telling,
      NothingPending, States, Commands, AllCommands, NoCommand
<1>7. CASE MimCtrlSendCommand
  BY <1>7
  DEF MimCtrlSendCommand, ClientAt, Queued, IInv, TypeOK, PlacesMatch, Place,
      Outstanding, AtHandler, AtDma, PhasesMatch, StateKnown, Known, Telling,
      NothingPending, States, Commands, AllCommands, NoCommand
<1>8. CASE Join
  BY <1>8
  DEF Join, ClientAt, hist, ctx, IInv, TypeOK, PlacesMatch, Place, Outstanding,
      AtHandler, AtDma, PhasesMatch, StateKnown, Known, Telling,
      NothingPending, States, Commands, AllCommands, NoCommand
<1>9. CASE Drain
  BY <1>9
  DEF Drain, ClientAt, IInv, TypeOK, PlacesMatch, Place, Outstanding,
      AtHandler, AtDma, PhasesMatch, StateKnown, Known, Telling,
      NothingPending, States, Commands, AllCommands, NoCommand
<1>10. CASE HandlerRead
  BY <1>10
  DEF HandlerRead, hist, IInv, TypeOK, PlacesMatch, Place, Outstanding,
      AtHandler, AtDma, PhasesMatch, StateKnown, Known, Telling,
      NothingPending, States, Commands, AllCommands, NoCommand
<1>11. CASE HandleStart
  BY <1>11
  DEF HandleStart, Handle, hist, IInv, TypeOK, PlacesMatch, Place, Outstanding,
      AtHandler, AtDma, PhasesMatch, StateKnown, Known, Telling,
      NothingPending, States, Commands, AllCommands, NoCommand
<1>12. CASE HandleStop
  BY <1>12
  DEF HandleStop, Handle, hist, IInv, TypeOK, PlacesMatch, Place, Outstanding,
      AtHandler, AtDma, PhasesMatch, StateKnown, Known, Telling,
      NothingPending, States, Commands, AllCommands, NoCommand
<1>13. CASE HandleDmaDone
  <2>1. /\ handler.at = "execute" /\ handler'.at = "complete"
        /\ handler'.cmd = "DMA_TRANSFER" /\ UNCHANGED <<alive, told, pending>>
    BY <1>13, HandleDoes DEF HandleDmaDone, Handle
  <2>2. Known = told /\ Known' = told
    BY <2>1 DEF Known, Telling
  <2>3. \/ state = "WaitForDma" /\ state' = "Running"
        \/ state = "Stopped" /\ state' = "Stopped"
    BY <1>13 DEF HandleDmaDone, Handle
  <2> QED
    BY <2>1, <2>2, <2>3 DEF IInv, StateKnown, PhasesMatch
<1>14. CASE HandleWrongState
  BY <1>14
  DEF HandleWrongState, Handled, Handle, hist, IInv, TypeOK, PlacesMatch,
      Place, Outstanding, AtHandler, AtDma, PhasesMatch, StateKnown, Known,
      Telling, NothingPending, States, Commands, AllCommands, NoCommand
<1>15. CASE HandleShutDown
  BY <1>15
  DEF HandleShutDown, HandlerAt, hist, IInv, TypeOK, PlacesMatch, Place,
      Outstanding, AtHandler, AtDma, PhasesMatch, StateKnown, Known, Telling,
      NothingPending, States, Commands, AllCommands, NoCommand
<1>16. CASE HandleTransfer
  BY <1>16
  DEF HandleTransfer, ctx, IInv, TypeOK, PlacesMatch, Place, Outstanding,
      AtHandler, AtDma, PhasesMatch, StateKnown, Known, Telling,
      NothingPending, States, Commands, AllCommands, NoCommand
<1>17. CASE HandlerWait
  BY <1>17
  DEF HandlerWait, HandlerAt, hist, IInv, TypeOK, PlacesMatch, Place,
      Outstanding, AtHandler, AtDma, PhasesMatch, StateKnown, Known, Telling,
      NothingPending, States, Commands, AllCommands, NoCommand
<1>18. CASE HandlerComplete
  BY <1>18
  DEF HandlerComplete, HandlerAt, ctx, IInv, TypeOK, PlacesMatch, Place,
      Outstanding, AtHandler, AtDma, PhasesMatch, StateKnown, Known, Telling,
      NothingPending, States, Commands, AllCommands, NoCommand
<1>19. CASE MimCtrlDmaCompletionCb
  BY <1>19
  DEF MimCtrlDmaCompletionCb, hist, Queued, IInv, TypeOK, PlacesMatch, Place,
      Outstanding, AtHandler, AtDma, PhasesMatch, StateKnown, Known, Telling,
      NothingPending, States, Commands, AllCommands, NoCommand
<1>20. CASE StoreResult
  BY <1>20
  DEF StoreResult, hist, IInv, TypeOK, PlacesMatch, Place, Outstanding,
      AtHandler, AtDma, PhasesMatch, StateKnown, Known, Telling,
      NothingPending, States, Commands, AllCommands, NoCommand
<1>21. CASE UNCHANGED vars
  BY <1>21
  DEF vars, ctx, hist, IInv, TypeOK, PlacesMatch, Place, Outstanding,
      AtHandler, AtDma, PhasesMatch, StateKnown, Known, Telling,
      NothingPending, States, Commands, AllCommands, NoCommand
<1> QED
  BY <1>1, <1>2, <1>3, <1>4, <1>5, <1>6, <1>7, <1>8, <1>9, <1>10, <1>11, <1>12,
     <1>13, <1>14, <1>15, <1>16, <1>17, <1>18, <1>19, <1>20, <1>21
  DEF Next, Client, Handler, Dma

(***************************************************************************)
(* What the handler does when it takes a command.                          *)
(***************************************************************************)
LEMMA ReadDoes ==
  ASSUME IInv, HandlerRead
  PROVE  /\ queue \in Seq(AllCommands) /\ queue # <<>> /\ queue' = Tail(queue)
         /\ queue' \in Seq(AllCommands) /\ Len(queue') <= MaxCommands
         /\ Distinct(queue') /\ ToSet(queue') = ToSet(queue) \ {Head(queue)}
         /\ Head(queue) \in AllCommands /\ Head(queue) \in ToSet(queue)
         /\ handler'.at = "execute" /\ handler'.cmd = Head(queue)
<1>1. queue \in Seq(AllCommands) /\ queue # <<>> /\ queue' = Tail(queue)
  BY DEF HandlerRead, IInv, TypeOK
<1>2. Head(queue) \in AllCommands /\ Tail(queue) \in Seq(AllCommands)
  BY <1>1
<1>3. Len(queue) <= MaxCommands /\ MaxCommands \in Nat
  BY MimAssumption DEF IInv, TypeOK
<1>4. Len(Tail(queue)) <= MaxCommands
  BY <1>1, <1>3
<1>5. handler'.at = "execute" /\ handler'.cmd = Head(queue)
  BY DEF HandlerRead
<1> QED
  BY <1>1, <1>2, <1>4, <1>5, QueueTail DEF IInv, PlacesMatch

(***************************************************************************)
(* A step keeps the types, given where the commands and the phases are.    *)
(***************************************************************************)
LEMMA TypeStep ==
  ASSUME PatientAtEnd, IInv, [Next]_vars
  PROVE  TypeOK'
<1>1. CASE MimCtrlInit
  <2>1. queue' = <<>> /\ queue' \in Seq(AllCommands) /\ Len(queue') <= MaxCommands
    BY <1>1, MimAssumption DEF MimCtrlInit
  <2>2. handler' \in [at : {"none", "read", "execute", "wait", "complete"},
                     cmd : AllCommands \cup {NoCommand}, result : Results]
    BY <1>1 DEF MimCtrlInit, HandlerAt, Results
  <2> QED
    BY <1>1, <2>1, <2>2 DEF MimCtrlInit, ClientAt, hist, IInv, TypeOK, States, Results
<1>2. CASE MimCtrlStart
  BY <1>2
  DEF MimCtrlStart, Enter, NothingPending, hist, IInv, TypeOK, PlacesMatch,
      Place, Outstanding, AtHandler, AtDma, PhasesMatch, Results, States,
      Commands, AllCommands, NoCommand
<1>3. CASE MimCtrlStop
  BY <1>3
  DEF MimCtrlStop, Enter, NothingPending, hist, IInv, TypeOK, PlacesMatch,
      Place, Outstanding, AtHandler, AtDma, PhasesMatch, Results, States,
      Commands, AllCommands, NoCommand
<1>4. CASE MimCtrlShutDown
  BY <1>4
  DEF MimCtrlShutDown, Enter, NothingPending, hist, IInv, TypeOK, PlacesMatch,
      Place, Outstanding, AtHandler, AtDma, PhasesMatch, Results, States,
      Commands, AllCommands, NoCommand
<1>5. CASE MimCtrlLoadPicture
  BY <1>5
  DEF MimCtrlLoadPicture, Enter, NothingPending, hist, IInv, TypeOK,
      PlacesMatch, Place, Outstanding, AtHandler, AtDma, PhasesMatch, Results,
      States, Commands, AllCommands, NoCommand
<1>6. CASE InitDone
  BY <1>6
  DEF InitDone, ClientAt, IInv, TypeOK, PlacesMatch, Place, Outstanding,
      AtHandler, AtDma, PhasesMatch, NothingPending, Results, States, Commands,
      AllCommands, NoCommand
<1>7. CASE MimCtrlSendCommand
  <2>1. client.cmd \in AllCommands
    BY <1>7, SendDoes
  <2>2. queue' \in Seq(AllCommands) /\ Len(queue') <= MaxCommands
    BY <1>7, <2>1, MimAssumption DEF MimCtrlSendCommand, Queued, IInv, TypeOK
  <2>3. client' \in [at : {"idle", "init", "send", "join", "drain"},
                    cmd : AllCommands \cup {NoCommand}]
    BY <1>7 DEF MimCtrlSendCommand, ClientAt
  <2>4. pending' \in [Commands -> Nat]
    BY <1>7, <2>1 DEF MimCtrlSendCommand, IInv, TypeOK, AllCommands
  <2>5. owed' \in Seq(Pictures)
    BY <1>7 DEF MimCtrlSendCommand, IInv, TypeOK, PhasesMatch
  <2> QED
    BY <1>7, <2>2, <2>3, <2>4, <2>5 DEF MimCtrlSendCommand, IInv, TypeOK
<1>8. CASE Join
  BY <1>8
  DEF Join, ClientAt, hist, ctx, IInv, TypeOK, PlacesMatch, Place, Outstanding,
      AtHandler, AtDma, PhasesMatch, NothingPending, Results, States, Commands,
      AllCommands, NoCommand
<1>9. CASE Drain
  <2>1. queue = <<>>
    BY <1>9, NothingLeft DEF Drain
  <2>2. client' \in [at : {"idle", "init", "send", "join", "drain"},
                    cmd : AllCommands \cup {NoCommand}]
    BY <1>9, <2>1 DEF Drain, ClientAt
  <2>3. /\ alive' = FALSE /\ told' = "Invalid"
        /\ UNCHANGED <<state, queue, picture, dmaResult, handler, dma, isr, pending, owed>>
    BY <1>9, <2>1 DEF Drain
  <2> QED
    BY <2>2, <2>3 DEF IInv, TypeOK, States
<1>10. CASE HandlerRead
  BY <1>10, ReadDoes DEF HandlerRead, hist, IInv, TypeOK, Results
<1>11. CASE HandleStart
  BY <1>11, HandleDoes DEF IInv, TypeOK, HandlerTypes
<1>12. CASE HandleStop
  BY <1>12, HandleDoes DEF IInv, TypeOK, HandlerTypes
<1>13. CASE HandleDmaDone
  BY <1>13, HandleDoes DEF IInv, TypeOK, HandlerTypes
<1>14. CASE HandleWrongState
  BY <1>14, HandleDoes DEF IInv, TypeOK, HandlerTypes
<1>15. CASE HandleShutDown
  BY <1>15
  DEF HandleShutDown, HandlerAt, hist, IInv, TypeOK, PlacesMatch, Place,
      Outstanding, AtHandler, AtDma, PhasesMatch, NothingPending, Results,
      States, Commands, AllCommands, NoCommand
<1>16. CASE HandleTransfer
  <2>1. owed' \in Seq(Pictures)
    BY <1>16 DEF HandleTransfer, IInv, TypeOK
  <2>2. handler' \in HandlerTypes
    BY <1>16 DEF HandleTransfer, IInv, TypeOK, HandlerTypes, Results
  <2>3. dma' \in [busy : BOOLEAN, picture : Pictures \cup {NoPicture}, outcome : Results]
    <3>1. /\ dma \in [busy : BOOLEAN, picture : Pictures \cup {NoPicture}, outcome : Results]
          /\ picture \in Pictures \cup {NoPicture}
          /\ {"SUCCESS", "FAILURE"} \subseteq Results
      BY DEF IInv, TypeOK, Results
    <3>2. \/ dma' = [busy |-> TRUE, picture |-> picture, outcome |-> "SUCCESS"]
          \/ \E r \in {"SUCCESS", "FAILURE"} : dma' \in {dma, [dma EXCEPT !.outcome = r]}
      BY <1>16 DEF HandleTransfer
    <3>3. ASSUME NEW r \in {"SUCCESS", "FAILURE"}
          PROVE  [dma EXCEPT !.outcome = r] \in
                   [busy : BOOLEAN, picture : Pictures \cup {NoPicture}, outcome : Results]
      BY <3>1
    <3>4. [busy |-> TRUE, picture |-> picture, outcome |-> "SUCCESS"] \in
            [busy : BOOLEAN, picture : Pictures \cup {NoPicture}, outcome : Results]
      BY <3>1
    <3> QED
      BY <3>1, <3>2, <3>3, <3>4
  <2> QED
    BY <1>16, <2>1, <2>2, <2>3 DEF HandleTransfer, ctx, IInv, TypeOK, HandlerTypes
<1>17. CASE HandlerWait
  BY <1>17
  DEF HandlerWait, HandlerAt, hist, IInv, TypeOK, PlacesMatch, Place,
      Outstanding, AtHandler, AtDma, PhasesMatch, NothingPending, Results,
      States, Commands, AllCommands, NoCommand
<1>18. CASE HandlerComplete
  BY <1>18
  DEF HandlerComplete, HandlerAt, ctx, IInv, TypeOK, PlacesMatch, Place,
      Outstanding, AtHandler, AtDma, PhasesMatch, NothingPending, Results,
      States, Commands, AllCommands, NoCommand
<1>19. CASE MimCtrlDmaCompletionCb
  <2>1. queue' \in Seq(AllCommands) /\ Len(queue') <= MaxCommands
    <3>1. queue \in Seq(AllCommands) /\ Len(queue) <= MaxCommands /\ MaxCommands \in Nat
      BY MimAssumption DEF IInv, TypeOK
    <3>2. "DMA_TRANSFER" \in AllCommands
      BY DEF AllCommands, Commands
    <3>3. \/ queue' = queue
          \/ queue' = Append(queue, "DMA_TRANSFER") /\ Len(queue) < MaxCommands
      BY <1>19 DEF MimCtrlDmaCompletionCb, Queued
    <3> QED
      BY <3>1, <3>2, <3>3
  <2>2. dma' \in [busy : BOOLEAN, picture : Pictures \cup {NoPicture}, outcome : Results]
    BY <1>19 DEF MimCtrlDmaCompletionCb, IInv, TypeOK, Results
  <2>3. isr' \in [at : {"idle", "store"}, result : Results]
    BY <1>19 DEF MimCtrlDmaCompletionCb, Results
  <2> QED
    BY <1>19, <2>1, <2>2, <2>3 DEF MimCtrlDmaCompletionCb, hist, IInv, TypeOK
<1>20. CASE StoreResult
  BY <1>20
  DEF StoreResult, hist, IInv, TypeOK, PlacesMatch, Place, Outstanding,
      AtHandler, AtDma, PhasesMatch, NothingPending, Results, States, Commands,
      AllCommands, NoCommand
<1>21. CASE UNCHANGED vars
  BY <1>21
  DEF vars, ctx, hist, IInv, TypeOK, PlacesMatch, Place, Outstanding,
      AtHandler, AtDma, PhasesMatch, NothingPending, Results, States, Commands,
      AllCommands, NoCommand
<1> QED
  BY <1>1, <1>2, <1>3, <1>4, <1>5, <1>6, <1>7, <1>8, <1>9, <1>10, <1>11, <1>12,
     <1>13, <1>14, <1>15, <1>16, <1>17, <1>18, <1>19, <1>20, <1>21
  DEF Next, Client, Handler, Dma

(***************************************************************************)
(* A step keeps every unanswered command at one place: a send puts it in   *)
(* the queue, the handler takes it out or passes it to the DMA engine, and *)
(* a completion takes it away.                                             *)
(***************************************************************************)
LEMMA PlacesStep ==
  ASSUME PatientAtEnd, IInv, [Next]_vars
  PROVE  PlacesMatch'
<1>1. CASE MimCtrlInit
  <2>1. /\ queue' = <<>> /\ client'.at = "init" /\ UNCHANGED <<dma, pending>>
        /\ handler'.at = "read" /\ handler'.cmd = NoCommand
    BY <1>1 DEF MimCtrlInit, ClientAt, HandlerAt, hist
  <2>2. NothingPending /\ handler.at = "none" /\ handler.cmd = NoCommand
    BY <1>1 DEF MimCtrlInit, IInv, PhasesMatch, PlacesMatch
  <2>3. ~dma.busy
    BY <1>1, <2>2
       DEF MimCtrlInit, IInv, PlacesMatch, Place, Outstanding, AtDma, Commands,
           AllCommands, NothingPending
  <2>4. \A c \in AllCommands : Place(c)'
    BY <2>1, <2>2, <2>3, QueueEmpty
       DEF Place, Outstanding, AtHandler, AtDma, AllCommands, Commands, NoCommand,
           NothingPending
  <2> QED
    BY <2>1, <2>2, <2>4, QueueEmpty DEF PlacesMatch, NothingPending
<1>2. CASE MimCtrlStart
  BY <1>2
  DEF MimCtrlStart, Enter, NothingPending, hist, IInv, TypeOK, PlacesMatch,
      Place, Outstanding, AtHandler, AtDma, PhasesMatch, States, Commands,
      AllCommands, NoCommand
<1>3. CASE MimCtrlStop
  BY <1>3
  DEF MimCtrlStop, Enter, NothingPending, hist, IInv, TypeOK, PlacesMatch,
      Place, Outstanding, AtHandler, AtDma, PhasesMatch, States, Commands,
      AllCommands, NoCommand
<1>4. CASE MimCtrlShutDown
  BY <1>4
  DEF MimCtrlShutDown, Enter, NothingPending, hist, IInv, TypeOK, PlacesMatch,
      Place, Outstanding, AtHandler, AtDma, PhasesMatch, States, Commands,
      AllCommands, NoCommand
<1>5. CASE MimCtrlLoadPicture
  BY <1>5
  DEF MimCtrlLoadPicture, Enter, NothingPending, hist, IInv, TypeOK,
      PlacesMatch, Place, Outstanding, AtHandler, AtDma, PhasesMatch, States,
      Commands, AllCommands, NoCommand
<1>6. CASE InitDone
  BY <1>6
  DEF InitDone, ClientAt, IInv, TypeOK, PlacesMatch, Place, Outstanding,
      AtHandler, AtDma, PhasesMatch, NothingPending, States, Commands,
      AllCommands, NoCommand
<1>7. CASE MimCtrlSendCommand
  <2>1. /\ client.cmd \in AllCommands /\ UNCHANGED <<handler, dma>>
        /\ client.at = "send" /\ handler.at # "none"
    BY <1>7, SendDoes DEF MimCtrlSendCommand, IInv, PhasesMatch
  <2>2. \A c \in Commands : pending'[c] = IF c = client.cmd THEN 1 ELSE pending[c]
    BY <1>7, SendDoes DEF MimCtrlSendCommand, IInv, TypeOK, Commands
  <2>3. client'.at = "join" <=> client.cmd = "SHUTDOWN"
    BY <1>7 DEF MimCtrlSendCommand, ClientAt
  <2>4. \A c \in AllCommands : Outstanding(c)' <=> Outstanding(c) \/ c = client.cmd
    BY <2>1, <2>2, <2>3 DEF Outstanding, AllCommands
  <2>5. \A c \in AllCommands : Place(c)'
    BY <1>7, <2>1, <2>4, SendDoes DEF IInv, PlacesMatch, Place, AtHandler, AtDma
  <2> QED
    BY <1>7, <2>1, <2>2, <2>5, SendDoes DEF IInv, PlacesMatch, Commands
<1>8. CASE Join
  BY <1>8
  DEF Join, ClientAt, hist, ctx, IInv, TypeOK, PlacesMatch, Place, Outstanding,
      AtHandler, AtDma, PhasesMatch, NothingPending, States, Commands,
      AllCommands, NoCommand
<1>9. CASE Drain
  <2>1. queue = <<>> /\ client.at = "drain"
    BY <1>9, NothingLeft DEF Drain
  <2>2. UNCHANGED <<queue, pending, handler, dma>> /\ client'.at = "idle"
    BY <1>9, <2>1 DEF Drain, ClientAt
  <2>3. \A c \in AllCommands : Outstanding(c)' <=> Outstanding(c)
    BY <2>1, <2>2 DEF Outstanding
  <2> QED
    BY <2>2, <2>3 DEF IInv, PlacesMatch, Place, AtHandler, AtDma
<1>10. CASE HandlerRead
  <2>1. handler.at = "read" /\ handler.cmd = NoCommand
    BY <1>10 DEF HandlerRead, IInv, PlacesMatch
  <2>2. UNCHANGED <<client, dma, pending>>
    BY <1>10 DEF HandlerRead, hist
  <2>3. \A c \in AllCommands : Place(c)'
    BY <1>10, <2>1, <2>2, ReadDoes
       DEF IInv, PlacesMatch, Place, Outstanding, AtHandler, AtDma, NoCommand,
           AllCommands, Commands
  <2> QED
    BY <1>10, <2>2, <2>3, ReadDoes DEF IInv, PlacesMatch, NoCommand, AllCommands, Commands
<1>11. CASE HandleStart
  BY <1>11, HandleDoes
     DEF IInv, PlacesMatch, Place, Outstanding, AtHandler, AtDma, NoCommand, Commands
<1>12. CASE HandleStop
  BY <1>12, HandleDoes
     DEF IInv, PlacesMatch, Place, Outstanding, AtHandler, AtDma, NoCommand, Commands
<1>13. CASE HandleDmaDone
  BY <1>13, HandleDoes
     DEF IInv, PlacesMatch, Place, Outstanding, AtHandler, AtDma, NoCommand, Commands
<1>14. CASE HandleWrongState
  BY <1>14, HandleDoes
     DEF IInv, PlacesMatch, Place, Outstanding, AtHandler, AtDma, NoCommand, Commands
<1>15. CASE HandleShutDown
  BY <1>15
  DEF HandleShutDown, HandlerAt, hist, IInv, TypeOK, PlacesMatch, Place,
      Outstanding, AtHandler, AtDma, PhasesMatch, NothingPending, States,
      Commands, AllCommands, NoCommand
<1>16. CASE HandleTransfer
  <2>1. /\ handler.at = "execute" /\ handler.cmd = "DMA_TRANSFER"
        /\ handler'.cmd = "DMA_TRANSFER" /\ UNCHANGED <<queue, client, pending>>
    BY <1>16 DEF HandleTransfer, IInv, TypeOK, ctx
  <2>2. \/ handler'.at = "wait" /\ ~dma.busy /\ dma'.busy
        \/ handler'.at = "complete" /\ dma'.busy = dma.busy
    <3>1. \/ /\ ~dma.busy /\ handler' = [handler EXCEPT !.at = "wait"]
             /\ dma' = [busy |-> TRUE, picture |-> picture, outcome |-> "SUCCESS"]
          \/ \E r \in {"SUCCESS", "FAILURE"} :
               /\ handler' = [handler EXCEPT !.at = "complete", !.result = r]
               /\ dma' \in {dma, [dma EXCEPT !.outcome = r]}
      BY <1>16 DEF HandleTransfer
    <3>2. handler \in HandlerTypes
      BY DEF IInv, TypeOK, HandlerTypes
    <3>3. CASE handler' = [handler EXCEPT !.at = "wait"] /\ ~dma.busy /\ dma'.busy
      BY <3>2, <3>3 DEF HandlerTypes
    <3>4. ASSUME NEW r \in {"SUCCESS", "FAILURE"},
                 handler' = [handler EXCEPT !.at = "complete", !.result = r],
                 dma' \in {dma, [dma EXCEPT !.outcome = r]}
          PROVE  handler'.at = "complete" /\ dma'.busy = dma.busy
      BY <3>2, <3>4 DEF HandlerTypes, IInv, TypeOK
    <3> QED
      BY <3>1, <3>3, <3>4
  <2>3. ~dma.busy /\ pending["DMA_TRANSFER"] = 1
    BY <2>1
       DEF IInv, PlacesMatch, Place, Outstanding, AtHandler, AtDma, AllCommands, Commands
  <2>4. \A c \in AllCommands : Place(c)'
    BY <2>1, <2>2, <2>3 DEF IInv, PlacesMatch, Place, Outstanding, AtHandler, AtDma
  <2> QED
    BY <2>1, <2>2, <2>3, <2>4 DEF IInv, PlacesMatch, NoCommand
<1>17. CASE HandlerWait
  BY <1>17
  DEF HandlerWait, HandlerAt, hist, IInv, TypeOK, PlacesMatch, Place,
      Outstanding, AtHandler, AtDma, PhasesMatch, NothingPending, States,
      Commands, AllCommands, NoCommand
<1>18. CASE HandlerComplete
  <2>1. /\ handler.at = "complete" /\ handler'.at = "read" /\ handler'.cmd = NoCommand
        /\ UNCHANGED <<client, dma, queue>>
    BY <1>18 DEF HandlerComplete, HandlerAt, ctx
  <2>2. handler.cmd \in AllCommands
    BY <2>1 DEF IInv, TypeOK, PlacesMatch
  <2>3. \A c \in Commands : pending'[c] = IF c = handler.cmd THEN 0 ELSE pending[c]
    BY <1>18, <2>1, <2>2
       DEF HandlerComplete, IInv, TypeOK, PlacesMatch, Place, Outstanding,
           AtHandler, Commands, AllCommands
  <2>4. handler.cmd # "SHUTDOWN"
    BY <2>1 DEF IInv, PhasesMatch
  <2>5. \A c \in AllCommands : Place(c)'
    BY <2>1, <2>2, <2>3, <2>4
       DEF IInv, PlacesMatch, Place, Outstanding, AtHandler, AtDma, NoCommand,
           AllCommands, Commands
  <2> QED
    BY <2>1, <2>3, <2>5 DEF IInv, PlacesMatch
<1>19. CASE MimCtrlDmaCompletionCb
  <2>1. /\ dma.busy /\ ~dma'.busy /\ UNCHANGED <<client, handler, pending>>
    BY <1>19 DEF MimCtrlDmaCompletionCb, IInv, TypeOK, hist
  <2>2. pending["DMA_TRANSFER"] = 1 /\ "DMA_TRANSFER" \notin ToSet(queue)
    BY <2>1 DEF IInv, PlacesMatch, Place, Outstanding, AtDma, AllCommands, Commands
  <2>3. state # "Invalid"
    BY <1>19, <2>2 DEF MimCtrlDmaCompletionCb, IInv, PhasesMatch, NothingPending, Commands
  <2>4. queue' = Append(queue, "DMA_TRANSFER")
    BY <1>19, <2>3 DEF MimCtrlDmaCompletionCb, Queued
  <2>5. "DMA_TRANSFER" \in AllCommands
    BY DEF AllCommands, Commands
  <2>6. Distinct(queue') /\ ToSet(queue') = ToSet(queue) \cup {"DMA_TRANSFER"}
    BY <2>2, <2>4, <2>5, QueueAppend DEF IInv, TypeOK, PlacesMatch
  <2>7. \A c \in AllCommands : Place(c)'
    BY <2>1, <2>2, <2>5, <2>6 DEF IInv, PlacesMatch, Place, Outstanding, AtHandler, AtDma
  <2> QED
    BY <2>1, <2>6, <2>7 DEF IInv, PlacesMatch
<1>20. CASE StoreResult
  BY <1>20
  DEF StoreResult, hist, IInv, TypeOK, PlacesMatch, Place, Outstanding,
      AtHandler, AtDma, PhasesMatch, NothingPending, States, Commands,
      AllCommands, NoCommand
<1>21. CASE UNCHANGED vars
  BY <1>21
  DEF vars, ctx, hist, IInv, TypeOK, PlacesMatch, Place, Outstanding,
      AtHandler, AtDma, PhasesMatch, NothingPending, States, Commands,
      AllCommands, NoCommand
<1> QED
  BY <1>1, <1>2, <1>3, <1>4, <1>5, <1>6, <1>7, <1>8, <1>9, <1>10, <1>11, <1>12,
     <1>13, <1>14, <1>15, <1>16, <1>17, <1>18, <1>19, <1>20, <1>21
  DEF Next, Client, Handler, Dma

(***************************************************************************)
(* The control that has not been initialised satisfies the invariant.      *)
(***************************************************************************)
LEMMA InitHolds == Init => IInv
<1> SUFFICES ASSUME Init PROVE IInv
  OBVIOUS
<1>1. /\ queue = <<>> /\ queue \in Seq(AllCommands) /\ Len(queue) <= MaxCommands
      /\ owed \in Seq(Pictures)
  BY MimAssumption DEF Init
<1>2. TypeOK
  BY <1>1 DEF Init, TypeOK, ClientAt, HandlerAt, States, Results, Commands, AllCommands
<1>3. NothingPending
  BY DEF Init, NothingPending
<1>4. \A c \in AllCommands : Place(c)
  BY <1>1, QueueEmpty
     DEF Init, Place, Outstanding, AtHandler, AtDma, ClientAt, HandlerAt,
         AllCommands, Commands, NoCommand
<1>5. PlacesMatch
  BY <1>1, <1>4, QueueEmpty DEF Init, PlacesMatch, HandlerAt
<1>6. PhasesMatch
  BY <1>3 DEF Init, PhasesMatch, ClientAt, HandlerAt, Commands, NoCommand
<1>7. StateKnown
  BY DEF Init, StateKnown, HandlerAt
<1> QED
  BY <1>2, <1>5, <1>6, <1>7 DEF IInv

-----------------------------------------------------------------------------
(***************************************************************************)
(* Every command is at one place, and the phases of the client, the state  *)
(* and what the client has been told agree, for every client that shuts    *)
(* down last.                                                              *)
(***************************************************************************)
THEOREM Invariance ==
  ASSUME PatientAtEnd
  PROVE  Spec => []IInv
<1>1. Init => IInv
  BY InitHolds
<1>2. IInv /\ [Next]_vars => IInv'
  BY TypeStep, PlacesStep, PhasesStep, KnownStep DEF IInv
<1> QED
  BY <1>1, <1>2, PTL DEF Spec

(***************************************************************************)
(* The variables of the control keep their types, for every client that    *)
(* shuts down last.                                                        *)
(***************************************************************************)
THEOREM TypeCorrect ==
  ASSUME PatientAtEnd
  PROVE  Spec => []TypeOK
<1>1. IInv => TypeOK
  BY DEF IInv
<1> QED
  BY <1>1, Invariance, PTL

(***************************************************************************)
(* A client to which nothing is owed knows the state.                      *)
(***************************************************************************)
THEOREM StateIsTold ==
  ASSUME PatientAtEnd
  PROVE  Spec => []StateAsTold
<1>1. IInv => StateAsTold
  <2> SUFFICES ASSUME IInv, alive, client.at = "idle", NothingPending
               PROVE  state = told
    BY DEF StateAsTold
  <2>1. \A c \in Commands : ~AtHandler(c)
    BY DEF IInv, PlacesMatch, Place, Outstanding, NothingPending, AllCommands, Commands
  <2>2. Known = told
    BY <2>1 DEF Known, Telling, AtHandler, Commands
  <2>3. state # "Invalid" /\ pending["DMA_TRANSFER"] # 1
    BY DEF IInv, PhasesMatch, NothingPending, Commands
  <2> QED
    BY <2>2, <2>3 DEF IInv, StateKnown
<1> QED
  BY <1>1, Invariance, PTL

(***************************************************************************)
(* The context is not freed under a transfer.                              *)
(***************************************************************************)
THEOREM NoTransferLeft ==
  ASSUME PatientAtEnd
  PROVE  Spec => []NoTransferIntoFreed
<1>1. IInv => NoTransferIntoFreed
  BY DEF IInv, PlacesMatch, PhasesMatch, Place, Outstanding, AtDma, NothingPending,
         Commands, AllCommands, NoTransferIntoFreed
<1> QED
  BY <1>1, Invariance, PTL

-----------------------------------------------------------------------------
(***************************************************************************)
(* A step of the control accepts a command, answers one that was accepted, *)
(* opens or closes the service with nothing unanswered, or does none of    *)
(* these.                                                                  *)
(***************************************************************************)
LEMMA StepServes ==
  ASSUME PatientAtEnd, IInv, [Next]_vars
  PROVE  [Service!ServiceNext]_(Service!serviceVars)
<1>1. ASSUME UNCHANGED <<alive, pending>>
      PROVE  UNCHANGED Service!serviceVars
  BY <1>1 DEF Service!serviceVars
<1>2. CASE MimCtrlInit
  BY <1>2 DEF MimCtrlInit, hist, Service!ServiceNext, Service!Open
<1>3. CASE MimCtrlSendCommand
  <2>1. CASE client.cmd = "SHUTDOWN"
    BY <1>1, <1>3, <2>1 DEF MimCtrlSendCommand
  <2>2. CASE client.cmd \in Commands
    <3>1. Service!Accept(client.cmd)
      BY <1>3, <2>2, SendDoes DEF MimCtrlSendCommand, Commands, Service!Accept
    <3> QED
      BY <2>2, <3>1 DEF Service!ServiceNext
  <2> QED
    BY <1>3, <2>1, <2>2, SendDoes DEF AllCommands
<1>4. CASE Drain
  <2>1. /\ queue = <<>> /\ client.at = "drain" /\ alive /\ alive' = FALSE
        /\ UNCHANGED pending
    BY <1>4, NothingLeft DEF Drain, IInv, PhasesMatch
  <2>2. pending = Service!Idle
    BY <2>1 DEF IInv, TypeOK, PhasesMatch, NothingPending, Service!Idle
  <2> QED
    BY <2>1, <2>2 DEF Service!ServiceNext, Service!Close
<1>5. CASE HandlerComplete
  <2>1. handler.at = "complete" /\ handler.cmd \in Commands
    BY <1>5 DEF HandlerComplete, IInv, TypeOK, PlacesMatch, PhasesMatch, AllCommands
  <2>2. pending[handler.cmd] = 1
    BY <2>1 DEF IInv, PlacesMatch, Place, Outstanding, AtHandler, AllCommands, Commands
  <2>3. Service!Answer(handler.cmd)
    BY <1>5, <2>1, <2>2 DEF HandlerComplete, ctx, Service!Answer
  <2> QED
    BY <2>1, <2>3 DEF Service!ServiceNext
<1>6. CASE \/ MimCtrlStart \/ MimCtrlStop \/ MimCtrlShutDown \/ MimCtrlLoadPicture
           \/ InitDone \/ Join \/ HandlerRead \/ HandleShutDown \/ HandleTransfer
           \/ HandlerWait \/ MimCtrlDmaCompletionCb \/ StoreResult
  BY <1>1, <1>6
     DEF MimCtrlStart, MimCtrlStop, MimCtrlShutDown, MimCtrlLoadPicture, Enter,
         InitDone, Join, HandlerRead, HandleShutDown, HandleTransfer, HandlerWait,
         MimCtrlDmaCompletionCb, StoreResult, ctx, hist
<1>7. CASE HandleStart \/ HandleStop \/ HandleDmaDone \/ HandleWrongState
  BY <1>1, <1>7, HandleDoes
<1>8. CASE UNCHANGED vars
  BY <1>1, <1>8 DEF vars, ctx, hist
<1> QED
  BY <1>2, <1>3, <1>4, <1>5, <1>6, <1>7, <1>8 DEF Next, Client, Handler, Dma

(***************************************************************************)
(* The control is a command service: no command is answered that was not   *)
(* accepted or that was answered before, and the context is freed only     *)
(* when all have been answered.                                            *)
(***************************************************************************)
THEOREM Serves ==
  ASSUME PatientAtEnd
  PROVE  Spec => Service!ServiceInit /\ [][Service!ServiceNext]_(Service!serviceVars)
<1>1. Init => Service!ServiceInit
  BY DEF Init, Service!ServiceInit, Service!Idle
<1>2. IInv /\ [Next]_vars => [Service!ServiceNext]_(Service!serviceVars)
  BY StepServes
<1> QED
  BY <1>1, <1>2, Invariance, PTL DEF Spec

-----------------------------------------------------------------------------
(***************************************************************************)
(* A running control to which no command was sent does nothing.            *)
(***************************************************************************)
LEMMA NothingSent ==
  ASSUME IInv, NothingPending, alive, client.at \in {"idle", "send"}
  PROVE  queue = <<>> /\ handler.at = "read" /\ ~dma.busy
<1>1. \A c \in AllCommands : ~Outstanding(c)
  BY DEF Outstanding, NothingPending, AllCommands, Commands
<1>2. \A c \in AllCommands : c \notin ToSet(queue) /\ ~AtHandler(c)
  BY <1>1 DEF IInv, PlacesMatch, Place
<1>3. ~dma.busy
  BY <1>1 DEF IInv, PlacesMatch, Place, AtDma, AllCommands, Commands
<1>4. queue \in Seq(AllCommands) /\ ToSet(queue) \subseteq AllCommands
  BY DEF IInv, TypeOK, ToSet
<1>5. queue = <<>>
  BY <1>2, <1>4, QueueEmpty
<1>6. handler.at # "wait" /\ handler.cmd = NoCommand /\ handler.at # "none"
  BY <1>2 DEF IInv, TypeOK, PlacesMatch, PhasesMatch, AtHandler, NothingPending, Commands
<1> QED
  BY <1>3, <1>5, <1>6 DEF IInv, PlacesMatch

(***************************************************************************)
(* A step keeps each pending transfer matched with the first request that  *)
(* has not been begun, or has begun it.                                    *)
(***************************************************************************)
LEMMA RequestsStep ==
  ASSUME Patient, IInv, RequestsMatch, [Next]_vars
  PROVE  RequestsMatch'
<1>1. CASE MimCtrlInit
  BY <1>1
  DEF MimCtrlInit, HandlerAt, ClientAt, hist, Patient, IInv, TypeOK,
      PlacesMatch, Place, Outstanding, AtHandler, AtDma, PhasesMatch,
      RequestsMatch, Requested, Begun, NothingPending, States, Commands,
      AllCommands, NoCommand
<1>2. CASE MimCtrlStart
  BY <1>2
  DEF MimCtrlStart, Enter, NothingPending, hist, Patient, IInv, TypeOK,
      PlacesMatch, Place, Outstanding, AtHandler, AtDma, PhasesMatch,
      RequestsMatch, Requested, Begun, States, Commands, AllCommands, NoCommand
<1>3. CASE MimCtrlStop
  BY <1>3
  DEF MimCtrlStop, Enter, NothingPending, hist, Patient, IInv, TypeOK,
      PlacesMatch, Place, Outstanding, AtHandler, AtDma, PhasesMatch,
      RequestsMatch, Requested, Begun, States, Commands, AllCommands, NoCommand
<1>4. CASE MimCtrlShutDown
  BY <1>4
  DEF MimCtrlShutDown, Enter, NothingPending, hist, Patient, IInv, TypeOK,
      PlacesMatch, Place, Outstanding, AtHandler, AtDma, PhasesMatch,
      RequestsMatch, Requested, Begun, States, Commands, AllCommands, NoCommand
<1>5. CASE MimCtrlLoadPicture
  BY <1>5
  DEF MimCtrlLoadPicture, Enter, NothingPending, hist, Patient, IInv, TypeOK,
      PlacesMatch, Place, Outstanding, AtHandler, AtDma, PhasesMatch,
      RequestsMatch, Requested, Begun, States, Commands, AllCommands, NoCommand
<1>6. CASE InitDone
  BY <1>6
  DEF InitDone, ClientAt, Patient, IInv, TypeOK, PlacesMatch, Place,
      Outstanding, AtHandler, AtDma, PhasesMatch, RequestsMatch, Requested,
      Begun, NothingPending, States, Commands, AllCommands, NoCommand
<1>7. CASE MimCtrlSendCommand
  <2>1. /\ client.at = "send" /\ client.cmd \in AllCommands /\ alive
        /\ client'.cmd = NoCommand /\ queue' = Append(queue, client.cmd)
        /\ queue \in Seq(AllCommands)
        /\ UNCHANGED <<state, picture, handler, dma>>
    BY <1>7, SendDoes DEF MimCtrlSendCommand, Queued, ClientAt, IInv, TypeOK
  <2>2. \A c \in Commands : pending'[c] = IF c = client.cmd THEN 1 ELSE pending[c]
    BY <1>7, SendDoes DEF MimCtrlSendCommand, IInv, TypeOK, Commands
  <2>3. CASE client.cmd = "DMA_TRANSFER"
    <3>1. NothingPending /\ state = "Running"
      BY <2>3 DEF RequestsMatch
    <3>2. queue = <<>> /\ handler.at = "read" /\ ~dma.busy /\ owed = <<>>
      BY <2>1, <3>1, NothingSent DEF RequestsMatch, NothingPending, Commands
    <3>3. owed' = <<picture>> /\ queue' = <<"DMA_TRANSFER">>
      BY <1>7, <2>1, <2>3, <3>2 DEF MimCtrlSendCommand
    <3>4. Requested'
      BY <2>1, <3>1, <3>2, <3>3 DEF Requested
    <3>5. pending'["DMA_TRANSFER"] = 1 /\ pending'["START"] = 0
      BY <2>2, <2>3, <3>1 DEF NothingPending, Commands
    <3> QED
      BY <2>1, <3>4, <3>5 DEF RequestsMatch, NoCommand
  <2>4. CASE client.cmd # "DMA_TRANSFER"
    <3>1. owed' = owed
      BY <1>7, <2>4 DEF MimCtrlSendCommand
    <3>2. pending'["DMA_TRANSFER"] = pending["DMA_TRANSFER"]
      BY <2>2, <2>4 DEF Commands
    <3>3. pending["DMA_TRANSFER"] = 1 => pending'["START"] = pending["START"]
      BY <2>1, <2>2 DEF RequestsMatch, NothingPending, Commands
    <3>4. queue # <<>> => queue' # <<>> /\ Head(queue') = Head(queue)
      BY <2>1
    <3>5. (Requested => Requested') /\ (Begun => Begun')
      BY <2>1, <3>1, <3>4 DEF Requested, Begun
    <3> QED
      BY <2>1, <3>1, <3>2, <3>3, <3>5 DEF RequestsMatch, NoCommand
  <2> QED
    BY <2>3, <2>4
<1>8. CASE Join
  BY <1>8
  DEF Join, ClientAt, hist, ctx, Patient, IInv, TypeOK, PlacesMatch, Place,
      Outstanding, AtHandler, AtDma, PhasesMatch, RequestsMatch, Requested,
      Begun, NothingPending, States, Commands, AllCommands, NoCommand
<1>9. CASE Drain
  <2>1. /\ queue = <<>> /\ client.at = "drain" /\ client'.cmd = NoCommand
        /\ UNCHANGED <<owed, pending>>
    BY <1>9, NothingLeft DEF Drain, ClientAt
  <2>2. pending["DMA_TRANSFER"] = 0
    BY <2>1 DEF IInv, PhasesMatch, NothingPending, Commands
  <2> QED
    BY <2>1, <2>2 DEF RequestsMatch, NoCommand
<1>10. CASE HandlerRead
  BY <1>10
  DEF HandlerRead, hist, Patient, IInv, TypeOK, PlacesMatch, Place,
      Outstanding, AtHandler, AtDma, PhasesMatch, RequestsMatch, Requested,
      Begun, NothingPending, States, Commands, AllCommands, NoCommand
<1>11. CASE HandleStart
  BY <1>11
  DEF HandleStart, Handle, hist, Patient, IInv, TypeOK, PlacesMatch, Place,
      Outstanding, AtHandler, AtDma, PhasesMatch, RequestsMatch, Requested,
      Begun, NothingPending, States, Commands, AllCommands, NoCommand
<1>12. CASE HandleStop
  BY <1>12
  DEF HandleStop, Handle, hist, Patient, IInv, TypeOK, PlacesMatch, Place,
      Outstanding, AtHandler, AtDma, PhasesMatch, RequestsMatch, Requested,
      Begun, NothingPending, States, Commands, AllCommands, NoCommand
<1>13. CASE HandleDmaDone
  BY <1>13
  DEF HandleDmaDone, Handle, hist, Patient, IInv, TypeOK, PlacesMatch, Place,
      Outstanding, AtHandler, AtDma, PhasesMatch, RequestsMatch, Requested,
      Begun, NothingPending, States, Commands, AllCommands, NoCommand
<1>14. CASE HandleWrongState
  BY <1>14
  DEF HandleWrongState, Handled, Handle, hist, Patient, IInv, TypeOK,
      PlacesMatch, Place, Outstanding, AtHandler, AtDma, PhasesMatch,
      RequestsMatch, Requested, Begun, NothingPending, States, Commands,
      AllCommands, NoCommand
<1>15. CASE HandleShutDown
  BY <1>15
  DEF HandleShutDown, HandlerAt, hist, Patient, IInv, TypeOK, PlacesMatch,
      Place, Outstanding, AtHandler, AtDma, PhasesMatch, RequestsMatch,
      Requested, Begun, NothingPending, States, Commands, AllCommands,
      NoCommand
<1>16. CASE HandleTransfer
  <2>1. /\ handler.at = "execute" /\ handler.cmd = "DMA_TRANSFER" /\ state = "Running"
        /\ UNCHANGED <<client, state, pending>>
    BY <1>16 DEF HandleTransfer, ctx
  <2>2. pending["DMA_TRANSFER"] = 1
    BY <2>1 DEF IInv, PlacesMatch, Place, Outstanding, AtHandler, AllCommands, Commands
  <2>3. owed = <<picture>>
    BY <2>1, <2>2 DEF RequestsMatch, Requested, Begun
  <2>4. owed' = <<>>
    BY <1>16, <2>3 DEF HandleTransfer
  <2>5. handler'.at = "wait" \/ (handler'.at = "complete" /\ handler'.cmd = "DMA_TRANSFER")
    BY <1>16, <2>1 DEF HandleTransfer, IInv, TypeOK
  <2> QED
    BY <2>1, <2>2, <2>4, <2>5 DEF RequestsMatch, Begun, NothingPending
<1>17. CASE HandlerWait
  BY <1>17
  DEF HandlerWait, HandlerAt, hist, Patient, IInv, TypeOK, PlacesMatch, Place,
      Outstanding, AtHandler, AtDma, PhasesMatch, RequestsMatch, Requested,
      Begun, NothingPending, States, Commands, AllCommands, NoCommand
<1>18. CASE HandlerComplete
  BY <1>18
  DEF HandlerComplete, HandlerAt, ctx, Patient, IInv, TypeOK, PlacesMatch,
      Place, Outstanding, AtHandler, AtDma, PhasesMatch, RequestsMatch,
      Requested, Begun, NothingPending, States, Commands, AllCommands,
      NoCommand
<1>19. CASE MimCtrlDmaCompletionCb
  BY <1>19
  DEF MimCtrlDmaCompletionCb, hist, Queued, Patient, IInv, TypeOK, PlacesMatch,
      Place, Outstanding, AtHandler, AtDma, PhasesMatch, RequestsMatch,
      Requested, Begun, NothingPending, States, Commands, AllCommands,
      NoCommand
<1>20. CASE StoreResult
  BY <1>20
  DEF StoreResult, hist, Patient, IInv, TypeOK, PlacesMatch, Place,
      Outstanding, AtHandler, AtDma, PhasesMatch, RequestsMatch, Requested,
      Begun, NothingPending, States, Commands, AllCommands, NoCommand
<1>21. CASE UNCHANGED vars
  BY <1>21
  DEF vars, ctx, hist, Patient, IInv, TypeOK, PlacesMatch, Place, Outstanding,
      AtHandler, AtDma, PhasesMatch, RequestsMatch, Requested, Begun,
      NothingPending, States, Commands, AllCommands, NoCommand
<1> QED
  BY <1>1, <1>2, <1>3, <1>4, <1>5, <1>6, <1>7, <1>8, <1>9, <1>10, <1>11, <1>12,
     <1>13, <1>14, <1>15, <1>16, <1>17, <1>18, <1>19, <1>20, <1>21
  DEF Next, Client, Handler, Dma

(***************************************************************************)
(* Every transfer is one that the client asked for, in the order it asked, *)
(* and reads the picture it asked for; for a client that waits before      *)
(* every call but Stop.                                                    *)
(***************************************************************************)
THEOREM OnlyRequested ==
  ASSUME Patient
  PROVE  Spec => OnlyRequestedTransfers
<1> DEFINE Asked == ~dma.busy /\ dma'.busy => owed # <<>> /\ dma'.picture = Head(owed)
<1>1. Init => RequestsMatch
  BY DEF Init, RequestsMatch, ClientAt, NoCommand, Commands
<1>2. IInv /\ RequestsMatch /\ [Next]_vars => RequestsMatch'
  BY RequestsStep
<1>3. PatientAtEnd
  BY DEF Patient, PatientAtEnd
<1>4. IInv /\ RequestsMatch /\ [Next]_vars => [Asked]_vars
  <2> SUFFICES ASSUME IInv, RequestsMatch, Next, ~dma.busy, dma'.busy
               PROVE  owed # <<>> /\ dma'.picture = Head(owed)
    OBVIOUS
  <2>1. HandleTransfer
    <3>1. dma' # dma
      OBVIOUS
    <3>2. ~MimCtrlDmaCompletionCb
      BY DEF MimCtrlDmaCompletionCb
    <3>3. ~HandleStart /\ ~HandleStop /\ ~HandleDmaDone /\ ~HandleWrongState
      BY <3>1, HandleDoes
    <3> QED
      BY <3>1, <3>2, <3>3
         DEF Next, Client, Handler, Dma, MimCtrlInit, MimCtrlStart, MimCtrlStop,
             MimCtrlShutDown, MimCtrlLoadPicture, Enter, InitDone,
             MimCtrlSendCommand, Join, Drain, HandlerRead, HandleShutDown,
             HandlerWait, HandlerComplete, StoreResult
  <2>2. handler.at = "execute" /\ handler.cmd = "DMA_TRANSFER" /\ state = "Running"
    BY <2>1 DEF HandleTransfer
  <2>3. pending["DMA_TRANSFER"] = 1
    BY <2>2 DEF IInv, PlacesMatch, Place, Outstanding, AtHandler, AllCommands, Commands
  <2>4. owed = <<picture>>
    BY <2>2, <2>3 DEF RequestsMatch, Requested, Begun
  <2>5. dma'.picture = picture
    BY <2>1 DEF HandleTransfer, IInv, TypeOK
  <2> QED
    BY <2>4, <2>5
<1> QED
  BY <1>1, <1>2, <1>3, <1>4, Invariance, PTL DEF Spec, OnlyRequestedTransfers

=============================================================================
