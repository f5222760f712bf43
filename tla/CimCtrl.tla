------------------------------ MODULE CimCtrl ------------------------------
(***************************************************************************)
(* The CIM control (units/cim_ctrl): a state, a command queue and a handler*)
(* thread, called by several client threads at once.  Unlike the MIM       *)
(* control, Start and Stop return RET_PENDING even when their command was  *)
(* refused; and RegisterSensorDrv works in the caller's thread.            *)
(***************************************************************************)
EXTENDS Integers, Sequences

CONSTANTS Clients, MaxCommands

States == {"Invalid", "Initialize", "Running", "Stopped"}
Commands == {"START", "STOP"}
AllCommands == Commands \cup {"SHUTDOWN"}
NoCommand == "INVALID"

ASSUME CimAssumption == MaxCommands \in Nat \ {0}

VARIABLES
  alive, state, queue,
  client,   \* client[c]: where client thread c is in its call
  handler,  \* the handler thread: where it is, its Command and its result
  sensor,   \* the sensor driver instance created last
  pending,  \* pending[k]: commands k accepted and not yet completed
  told      \* the state the clients know from the completions

hist == <<pending, told>>
vars == <<alive, state, queue, client, handler, sensor, hist>>

ClientAt(l, k) == [at |-> l, cmd |-> k]
AtRest == ClientAt("idle", NoCommand)
HandlerAt(l) == [at |-> l, cmd |-> NoCommand, ok |-> FALSE]

TypeOK ==
  /\ alive \in BOOLEAN
  /\ state \in States
  /\ queue \in Seq(AllCommands) /\ Len(queue) <= MaxCommands
  /\ client \in [Clients -> [at : {"idle", "send", "join", "drain", "power", "check"},
                             cmd : AllCommands \cup {NoCommand}]]
  /\ handler \in [at : {"none", "read", "execute", "complete"},
                  cmd : AllCommands \cup {NoCommand}, ok : BOOLEAN]
  /\ sensor \in {"none", "created", "powered", "checked"}
  /\ pending \in [Commands -> Nat]
  /\ told \in States

Init ==
  /\ alive = FALSE /\ state = "Invalid" /\ queue = <<>>
  /\ client = [c \in Clients |-> AtRest]
  /\ handler = HandlerAt("none")
  /\ sensor = "none"
  /\ pending = [k \in Commands |-> 0]
  /\ told = "Invalid"

\* No handle exists before CimCtrlInit returns: nobody can look in between.
CimCtrlInit(c) ==
  /\ ~alive /\ \A d \in Clients : client[d] = AtRest
  /\ alive' = TRUE /\ state' = "Initialize" /\ told' = "Initialize"
  /\ queue' = <<>>
  /\ handler' = HandlerAt("read")
  /\ UNCHANGED <<client, sensor, pending>>

NothingPending == \A k \in Commands : pending[k] = 0
Alone(c) == \A d \in Clients \ {c} : client[d] = AtRest
Closing == \E c \in Clients :
             client[c].at \in {"join", "drain"} \/ client[c].cmd = "SHUTDOWN"

\* A call whose guard on the state lets it through.
Enter(c, states, l, k) ==
  /\ alive /\ client[c] = AtRest /\ ~Closing
  /\ state \in states
  /\ client' = [client EXCEPT ![c] = ClientAt(l, k)]
  /\ UNCHANGED <<alive, state, queue, handler, sensor, hist>>

CimCtrlStart(c) ==
  /\ pending["START"] = 0
  /\ Enter(c, {"Initialize", "Stopped"}, "send", "START")

CimCtrlStop(c) ==
  /\ pending["STOP"] = 0
  /\ Enter(c, {"Running", "Stopped"}, "send", "STOP")

(***************************************************************************)
(* The last user shuts the controller down: no other client is inside a    *)
(* call or makes one later, and it waits for the completions of the        *)
(* commands that are still pending.                                        *)
(***************************************************************************)
CimCtrlShutDown(c) ==
  /\ Alone(c) /\ NothingPending
  /\ Enter(c, {"Initialize", "Stopped"}, "send", "SHUTDOWN")

\* osQueueWrite blocks until there is room.
Queued(cmd) ==
  /\ Len(queue) < MaxCommands
  /\ queue' = Append(queue, cmd)

CimCtrlSendCommand(c) ==
  /\ client[c].at = "send" /\ state # "Invalid"
  /\ Queued(client[c].cmd)
  /\ IF client[c].cmd = "SHUTDOWN"
     THEN /\ client' = [client EXCEPT ![c] = ClientAt("join", NoCommand)]
          /\ UNCHANGED pending
     ELSE /\ client' = [client EXCEPT ![c] = AtRest]
          /\ pending' = [pending EXCEPT ![client[c].cmd] = @ + 1]
  /\ UNCHANGED <<alive, state, handler, sensor, told>>

\* CimCtrlDestroy after its command has been sent, and the free.
Join(c) ==
  /\ client[c].at = "join" /\ handler.at = "none"
  /\ client' = [client EXCEPT ![c] = ClientAt("drain", NoCommand)]
  /\ UNCHANGED <<alive, state, queue, handler, sensor, hist>>

Drain(c) ==
  /\ client[c].at = "drain"
  /\ IF queue # <<>>
     THEN /\ queue' = Tail(queue)
          /\ pending' = [pending EXCEPT ![Head(queue)] = @ - 1]
          /\ UNCHANGED <<alive, client, told>>
     ELSE /\ alive' = FALSE /\ told' = "Invalid"
          /\ client' = [client EXCEPT ![c] = AtRest]
          /\ UNCHANGED <<queue, pending>>
  /\ UNCHANGED <<state, handler, sensor>>

(***************************************************************************)
(* CimCtrlRegisterSensorDrv: after the guard, the driver instance is       *)
(* created, powered and probed, each of which may fail; nothing undoes the *)
(* steps before a failure, and nothing stops another client from starting  *)
(* the controller meanwhile.                                               *)
(***************************************************************************)
CimCtrlRegisterSensorDrv(c) == Enter(c, {"Initialize", "Stopped"}, "power", NoCommand)

SensorPower(c) ==
  /\ client[c].at = "power"
  /\ \/ /\ sensor' \in {sensor, "created"}
        /\ client' = [client EXCEPT ![c] = AtRest]
     \/ /\ sensor' = "powered"
        /\ client' = [client EXCEPT ![c] = ClientAt("check", NoCommand)]
  /\ UNCHANGED <<alive, state, queue, handler, hist>>

SensorCheck(c) ==
  /\ client[c].at = "check"
  /\ sensor' \in {sensor, "checked"}
  /\ client' = [client EXCEPT ![c] = AtRest]
  /\ UNCHANGED <<alive, state, queue, handler, hist>>

-----------------------------------------------------------------------------
HandlerRead ==
  /\ handler.at = "read" /\ queue # <<>>
  /\ handler' = [at |-> "execute", cmd |-> Head(queue), ok |-> FALSE]
  /\ queue' = Tail(queue)
  /\ UNCHANGED <<alive, state, client, sensor, hist>>

Handle(k, states, s, ok) ==
  /\ handler.at = "execute" /\ handler.cmd = k /\ state \in states
  /\ state' = s
  /\ handler' = [handler EXCEPT !.at = "complete", !.ok = ok]
  /\ UNCHANGED <<alive, queue, client, sensor, hist>>

HandleStart == Handle("START", {"Initialize", "Stopped"}, "Running", TRUE)
HandleStop == Handle("STOP", {"Running"}, "Stopped", TRUE)

Accepting(k) == IF k = "STOP" THEN {"Running"} ELSE {"Initialize", "Stopped"}

\* Faulty variant for the checks: a STOP refused resets the controller.
HandleWrongStateStops ==
  /\ handler.at = "execute"
  /\ Handle(handler.cmd, States \ Accepting(handler.cmd),
            IF handler.cmd = "STOP" THEN "Initialize" ELSE state, FALSE)

HandleWrongState ==
  /\ handler.at = "execute"
  /\ Handle(handler.cmd, States \ Accepting(handler.cmd), state, FALSE)

\* Faulty variant for the checks: the thread goes on reading commands.
HandleShutDownStays ==
  /\ handler.at = "execute" /\ handler.cmd = "SHUTDOWN"
  /\ state \in {"Initialize", "Stopped"}
  /\ state' = "Invalid"
  /\ handler' = HandlerAt("read")
  /\ UNCHANGED <<alive, queue, client, sensor, hist>>

HandleShutDown ==
  /\ handler.at = "execute" /\ handler.cmd = "SHUTDOWN"
  /\ state \in {"Initialize", "Stopped"}
  /\ state' = "Invalid"
  /\ handler' = HandlerAt("none")
  /\ UNCHANGED <<alive, queue, client, sensor, hist>>

\* Faulty variant for the checks: only what succeeded is completed.
HandlerCompleteSuccess ==
  /\ handler.at = "complete"
  /\ handler' = HandlerAt("read")
  /\ pending' = [k \in Commands |->
                   pending[k] - IF k = handler.cmd /\ handler.ok THEN 1 ELSE 0]
  /\ told' = CASE handler.ok /\ handler.cmd = "START" -> "Running"
               [] handler.ok /\ handler.cmd = "STOP" -> "Stopped"
               [] OTHER -> told
  /\ UNCHANGED <<alive, state, queue, client, sensor>>

\* CimCtrlCompleteCommand: a START or STOP that succeeded tells the clients
\* the state it led to.
HandlerComplete ==
  /\ handler.at = "complete"
  /\ handler' = HandlerAt("read")
  /\ pending' = [k \in Commands |->
                   pending[k] - IF k = handler.cmd THEN 1 ELSE 0]
  /\ told' = CASE handler.ok /\ handler.cmd = "START" -> "Running"
               [] handler.ok /\ handler.cmd = "STOP" -> "Stopped"
               [] OTHER -> told
  /\ UNCHANGED <<alive, state, queue, client, sensor>>

-----------------------------------------------------------------------------
Continue(c) ==
  \/ CimCtrlSendCommand(c) \/ Join(c) \/ Drain(c)
  \/ SensorPower(c) \/ SensorCheck(c)

Call(c) ==
  \/ CimCtrlInit(c) \/ CimCtrlStart(c) \/ CimCtrlStop(c)
  \/ CimCtrlShutDown(c) \/ CimCtrlRegisterSensorDrv(c)

Handler ==
  \/ HandlerRead \/ HandleStart \/ HandleStop \/ HandleWrongState
  \/ HandleShutDown \/ HandlerComplete

Next == (\E c \in Clients : Call(c) \/ Continue(c)) \/ Handler

Spec == Init /\ [][Next]_vars

\* The threads run; a client need not call, only finish what it called.
FairSpec ==
  /\ Spec
  /\ \A c \in Clients : WF_vars(Continue(c))
  /\ WF_vars(Handler)

(***************************************************************************)
(* When nothing is pending, the state is the one the completions told: two *)
(* clients that start and stop at once (both pass the guards, and one of   *)
(* the commands comes in the wrong state) cannot lose track of it.         *)
(***************************************************************************)
StateAsTold ==
  alive /\ NothingPending /\ (\A c \in Clients : client[c] = AtRest)
    => state = told

(***************************************************************************)
(* CimCtrlShutDown returns: the handler thread it joins does exit.         *)
(***************************************************************************)
ShutDownReturns ==
  \A c \in Clients : client[c].at = "join" ~> client[c] = AtRest

(***************************************************************************)
(* Each accepted START and STOP, of whichever client and whether the state *)
(* still allows it when it is handled, is completed exactly once.          *)
(***************************************************************************)
Service == INSTANCE CommandService WITH open <- alive
CommandsServed == Service!ServiceSpec
=============================================================================
