--------------------------- MODULE CimCtrl_proofs ---------------------------
(***************************************************************************)
(* What holds of the CIM control for every depth of its queue and every    *)
(* set of client threads that call it at once: that the completions tell   *)
(* the clients the state, and that an accepted command is completed once.  *)
(* A client that has passed a guard may find the state changed when its    *)
(* command is sent, so that the same command may be in the queue several   *)
(* times: the proof counts them.                                           *)
(***************************************************************************)
EXTENDS CimCtrl, SequencesExt, FiniteSetTheorems, SequenceTheorems, TLAPS

-----------------------------------------------------------------------------
(* How often a value is in a sequence.                                      *)

Positions(q, k) == {i \in DOMAIN q : q[i] = k}
Times(q, k) == Cardinality(Positions(q, k))

LEMMA TimesNat ==
  ASSUME NEW S, NEW q \in Seq(S), NEW k
  PROVE  IsFiniteSet(Positions(q, k)) /\ Times(q, k) \in Nat
<1>1. IsFiniteSet(1 .. Len(q)) /\ DOMAIN q = 1 .. Len(q)
  BY FS_Interval
<1>2. Positions(q, k) \subseteq 1 .. Len(q)
  BY <1>1 DEF Positions
<1>3. IsFiniteSet(Positions(q, k))
  BY <1>1, <1>2, FS_Subset
<1> QED
  BY <1>3, FS_CardinalityType DEF Times

LEMMA TimesEmpty ==
  ASSUME NEW k
  PROVE  Times(<<>>, k) = 0
<1>1. Positions(<<>>, k) = {}
  BY DEF Positions
<1> QED
  BY <1>1, FS_EmptySet DEF Times

LEMMA TimesNone ==
  ASSUME NEW S, NEW q \in Seq(S), \A k \in S : Times(q, k) = 0
  PROVE  q = <<>>
<1>1. ASSUME q # <<>> PROVE FALSE
  <2>1. q[1] \in S /\ 1 \in Positions(q, q[1])
    BY <1>1 DEF Positions
  <2>2. Times(q, q[1]) = 0 /\ IsFiniteSet(Positions(q, q[1]))
    BY <2>1, TimesNat
  <2>3. Positions(q, q[1]) = {}
    BY <2>2, FS_EmptySet DEF Times
  <2> QED
    BY <2>1, <2>3
<1> QED
  BY <1>1

LEMMA TimesAppend ==
  ASSUME NEW S, NEW q \in Seq(S), NEW x \in S, NEW k
  PROVE  Times(Append(q, x), k) = Times(q, k) + (IF x = k THEN 1 ELSE 0)
<1>1. /\ Len(q) \in Nat /\ DOMAIN q = 1 .. Len(q)
      /\ DOMAIN Append(q, x) = 1 .. Len(q) + 1 /\ Append(q, x)[Len(q) + 1] = x
      /\ \A i \in 1 .. Len(q) : Append(q, x)[i] = q[i]
  BY AppendProperties
<1>2. Positions(Append(q, x), k) =
        IF x = k THEN Positions(q, k) \cup {Len(q) + 1} ELSE Positions(q, k)
  BY <1>1 DEF Positions
<1>3. Len(q) + 1 \notin Positions(q, k)
  BY <1>1 DEF Positions
<1>4. IsFiniteSet(Positions(q, k)) /\ Times(q, k) \in Nat
  BY TimesNat
<1>5. Cardinality(Positions(q, k) \cup {Len(q) + 1}) = Cardinality(Positions(q, k)) + 1
  BY <1>3, <1>4, FS_AddElement
<1>6. CASE x = k
  BY <1>2, <1>5, <1>6 DEF Times
<1>7. CASE x # k
  BY <1>2, <1>4, <1>7 DEF Times
<1> QED
  BY <1>6, <1>7

LEMMA TimesTail ==
  ASSUME NEW S, NEW q \in Seq(S), q # <<>>, NEW k
  PROVE  /\ Head(q) \in S /\ Tail(q) \in Seq(S) /\ Len(Tail(q)) = Len(q) - 1
         /\ Times(q, k) = Times(Tail(q), k) + (IF Head(q) = k THEN 1 ELSE 0)
<1>1. /\ Len(q) \in Nat /\ Len(q) >= 1 /\ Head(q) = q[1] /\ Head(q) \in S
      /\ Tail(q) \in Seq(S) /\ Len(Tail(q)) = Len(q) - 1
      /\ DOMAIN q = 1 .. Len(q) /\ DOMAIN Tail(q) = 1 .. Len(q) - 1
      /\ \A i \in 1 .. Len(q) - 1 : Tail(q)[i] = q[i + 1]
  BY HeadTailProperties
<1> DEFINE P == Positions(Tail(q), k)
           Q == Positions(q, k) \ {1}
           f == [i \in P |-> i + 1]
<1>2. P \subseteq 1 .. Len(q) - 1 /\ Q \subseteq 2 .. Len(q)
  BY <1>1 DEF Positions
<1>3. \A i \in 1 .. Len(q) - 1 : i \in P <=> i + 1 \in Q
  BY <1>1 DEF Positions
<1>4. IsFiniteSet(P) /\ IsFiniteSet(Positions(q, k)) /\ Times(Tail(q), k) \in Nat
  BY <1>1, TimesNat
<1> HIDE DEF P, Q
<1>5. f \in Bijection(P, Q)
  <2>1. \A i \in P : f[i] \in Q
    BY <1>2, <1>3
  <2>2. \A i, j \in P : f[i] = f[j] => i = j
    BY <1>2
  <2>3. ASSUME NEW j \in Q PROVE \E i \in P : f[i] = j
    <3>1. j - 1 \in 1 .. Len(q) - 1 /\ j - 1 + 1 = j
      BY <1>1, <1>2
    <3>2. j - 1 \in P
      BY <1>3, <3>1
    <3> QED
      BY <3>1, <3>2
  <2> QED
    BY <2>1, <2>2, <2>3 DEF Bijection, Injection, Surjection, IsInjective
<1>6. Cardinality(Q) = Cardinality(P)
  BY <1>4, <1>5, FS_Bijection DEF ExistsBijection
<1>7. Cardinality(Q) = IF 1 \in Positions(q, k) THEN Cardinality(Positions(q, k)) - 1
                       ELSE Cardinality(Positions(q, k))
  BY <1>4, FS_RemoveElement DEF Q
<1>8. 1 \in Positions(q, k) <=> Head(q) = k
  BY <1>1 DEF Positions
<1>9. Cardinality(Positions(q, k)) \in Nat
  BY <1>4, FS_CardinalityType
<1> QED
  BY <1>1, <1>4, <1>6, <1>7, <1>8, <1>9 DEF Times, P
-----------------------------------------------------------------------------
(***************************************************************************)
(* Where the commands are: every accepted one is in the queue or with the  *)
(* handler.                                                                *)
(***************************************************************************)
PlacesMatch ==
  /\ handler.cmd = NoCommand <=> handler.at \in {"none", "read"}
  /\ handler.at = "complete" => handler.cmd \in Commands
  /\ \A k \in Commands :
       pending[k] = Times(queue, k) + (IF handler.cmd = k THEN 1 ELSE 0)

(***************************************************************************)
(* The client that shuts the control down, from its call until the context *)
(* is freed: it is alone, nothing but its command is left, and the handler *)
(* thread ends when it has handled that.                                   *)
(***************************************************************************)
Accepts == state \in {"Initialize", "Stopped"}

LastCommand ==
  \/ handler.at = "read" /\ queue = <<"SHUTDOWN">> /\ Accepts
  \/ handler.at = "execute" /\ handler.cmd = "SHUTDOWN" /\ queue = <<>> /\ Accepts

HandlerGone == handler.at = "none" /\ queue = <<>> /\ state = "Invalid"

ClosedBy(c) ==
  /\ Alone(c) /\ NothingPending
  /\ \/ client[c].at = "send" /\ handler.at = "read" /\ queue = <<>> /\ Accepts
     \/ client[c].at = "join" /\ (LastCommand \/ HandlerGone)
     \/ client[c].at = "drain" /\ HandlerGone

Closes(c) == client[c].at \in {"join", "drain"} \/ client[c].cmd = "SHUTDOWN"

PhasesMatch ==
  /\ \A c \in Clients :
       /\ client[c].at = "send" <=> client[c].cmd # NoCommand
       /\ Closes(c) => ClosedBy(c)
  /\ ~alive => /\ handler.at = "none" /\ queue = <<>> /\ NothingPending
               /\ \A c \in Clients : client[c] = AtRest
  /\ alive /\ (\A c \in Clients : ~Closes(c)) =>
       /\ handler.at # "none" /\ state # "Invalid"
       /\ Times(queue, "SHUTDOWN") = 0 /\ handler.cmd # "SHUTDOWN"

(***************************************************************************)
(* The state is the one the clients have been told, or are about to be.    *)
(***************************************************************************)
Known ==
  IF handler.at = "complete" /\ handler.ok
  THEN IF handler.cmd = "START" THEN "Running" ELSE "Stopped"
  ELSE told

StateKnown == alive /\ state # "Invalid" => state = Known

IInv == TypeOK /\ PlacesMatch /\ PhasesMatch /\ StateKnown

-----------------------------------------------------------------------------
LEMMA Names ==
  /\ Commands = {"START", "STOP"} /\ AllCommands = {"START", "STOP", "SHUTDOWN"}
  /\ NoCommand = "INVALID" /\ NoCommand \notin AllCommands
  /\ States = {"Invalid", "Initialize", "Running", "Stopped"}
  /\ AtRest = [at |-> "idle", cmd |-> NoCommand]
BY DEF Commands, AllCommands, NoCommand, States, AtRest, ClientAt

(***************************************************************************)
(* A client that neither sends nor is inside any other call is at rest.    *)
(***************************************************************************)
LEMMA Resting ==
  ASSUME IInv, NEW c \in Clients
  PROVE  /\ client[c].at = "idle" <=> client[c] = AtRest
         /\ client[c] # AtRest => alive
         /\ client[c] = AtRest => ~Closes(c)
BY Names DEF IInv, TypeOK, PhasesMatch, Closes

(***************************************************************************)
(* Two clients never close at once, and one that closes is the only one in *)
(* a call.                                                                 *)
(***************************************************************************)
LEMMA ClosesAlone ==
  ASSUME IInv, NEW c \in Clients, NEW d \in Clients, c # d, client[c] # AtRest
  PROVE  ~Closes(d)
BY DEF IInv, PhasesMatch, ClosedBy, Alone

(***************************************************************************)
(* When nothing is pending and nobody closes, the handler waits for a      *)
(* command.                                                                *)
(***************************************************************************)
LEMMA AtEase ==
  ASSUME IInv, alive, NothingPending, \A c \in Clients : ~Closes(c)
  PROVE  handler.at = "read" /\ queue = <<>>
<1>1. queue \in Seq(AllCommands)
  BY DEF IInv, TypeOK
<1>2. \A k \in AllCommands : Times(queue, k) \in Nat
  BY <1>1, TimesNat
<1>3. \A k \in Commands : Times(queue, k) = 0 /\ handler.cmd # k
  BY <1>2, Names DEF IInv, PlacesMatch, NothingPending
<1>4. \A k \in AllCommands : Times(queue, k) = 0 /\ handler.cmd # k
  BY <1>3, Names DEF IInv, PhasesMatch
<1>5. queue = <<>>
  BY <1>1, <1>4, TimesNone
<1>6. handler.cmd = NoCommand /\ handler.at = "read"
  BY <1>4, Names DEF IInv, TypeOK, PlacesMatch, PhasesMatch
<1> QED
  BY <1>5, <1>6

-----------------------------------------------------------------------------
(* The clients. *)

LEMMA InitStep ==
  ASSUME IInv, NEW c \in Clients, CimCtrlInit(c)
  PROVE  IInv'
<1>1. /\ ~alive /\ alive' = TRUE /\ state' = "Initialize" /\ told' = "Initialize"
      /\ queue' = <<>> /\ queue = <<>> /\ handler' = HandlerAt("read")
      /\ UNCHANGED <<client, sensor, pending>>
      /\ NothingPending /\ handler.cmd = NoCommand
      /\ \A d \in Clients : client[d] = AtRest
  BY DEF CimCtrlInit, IInv, PhasesMatch, PlacesMatch
<1>2. handler' = [at |-> "read", cmd |-> NoCommand, ok |-> FALSE]
  BY <1>1 DEF HandlerAt
<1>3. NothingPending' /\ \A d \in Clients : client'[d] = AtRest
  BY <1>1 DEF NothingPending
<1>4. TypeOK'
  <2>1. queue' \in Seq(AllCommands) /\ Len(queue') <= MaxCommands
    BY <1>1, CimAssumption
  <2>2. handler' \in [at : {"none", "read", "execute", "complete"},
                      cmd : AllCommands \cup {NoCommand}, ok : BOOLEAN]
    BY <1>2
  <2>3. alive' \in BOOLEAN /\ state' \in States /\ told' \in States
    BY <1>1, Names
  <2> QED
    BY <1>1, <2>1, <2>2, <2>3 DEF IInv, TypeOK
<1>5. PlacesMatch'
  BY <1>1, <1>2, Names DEF IInv, PlacesMatch
<1>6. PhasesMatch'
  BY <1>1, <1>2, <1>3, Names, TimesEmpty DEF PhasesMatch, Closes
<1>7. StateKnown'
  BY <1>1, <1>2 DEF StateKnown, Known
<1> QED
  BY <1>4, <1>5, <1>6, <1>7 DEF IInv

LEMMA EnterStep ==
  ASSUME IInv, NEW c \in Clients, NEW states, NEW l, NEW k, Enter(c, states, l, k),
         \/ l = "send" /\ k \in Commands
         \/ l = "power" /\ k = NoCommand
         \/ /\ l = "send" /\ k = "SHUTDOWN" /\ states = {"Initialize", "Stopped"}
            /\ Alone(c) /\ NothingPending
  PROVE  IInv'
<1>1. /\ alive /\ client[c] = AtRest /\ state \in states
      /\ \A d \in Clients : ~Closes(d)
      /\ client' = [client EXCEPT ![c] = ClientAt(l, k)]
      /\ UNCHANGED <<alive, state, queue, handler, sensor, pending, told>>
  BY DEF Enter, Closing, Closes, hist
<1>2. /\ client'[c] = [at |-> l, cmd |-> k]
      /\ \A d \in Clients \ {c} : client'[d] = client[d]
      /\ client' \in [Clients -> [at : {"idle", "send", "join", "drain", "power", "check"},
                                  cmd : AllCommands \cup {NoCommand}]]
  BY <1>1, Names DEF ClientAt, IInv, TypeOK
<1> HIDE <1>1
<1>3. /\ alive /\ state \in states
      /\ \A d \in Clients : ~Closes(d)
      /\ UNCHANGED <<alive, state, queue, handler, sensor, pending, told>>
  BY <1>1
<1>4. TypeOK'
  BY <1>2, <1>3 DEF IInv, TypeOK
<1>5. PlacesMatch'
  BY <1>3 DEF IInv, PlacesMatch
<1>6. \A d \in Clients \ {c} : Closes(d)' = Closes(d)
  BY <1>2 DEF Closes
<1>7. k = "SHUTDOWN" => ClosedBy(c)'
  <2> SUFFICES ASSUME k = "SHUTDOWN" PROVE ClosedBy(c)'
    OBVIOUS
  <2>1. l = "send" /\ Alone(c) /\ NothingPending /\ state \in {"Initialize", "Stopped"}
    BY <1>3, Names
  <2>2. handler.at = "read" /\ queue = <<>> /\ Accepts
    BY <1>3, <2>1, AtEase DEF Accepts
  <2>3. Alone(c)' /\ NothingPending'
    BY <1>2, <1>3, <2>1 DEF Alone, NothingPending
  <2> QED
    BY <1>2, <1>3, <2>1, <2>2, <2>3 DEF ClosedBy, Accepts
<1>8. Closes(c)' <=> k = "SHUTDOWN"
  BY <1>2, Names DEF Closes
<1>9. client'[c].at = "send" <=> client'[c].cmd # NoCommand
  BY <1>2, Names
<1>10. PhasesMatch'
  BY <1>2, <1>3, <1>6, <1>7, <1>8, <1>9 DEF IInv, PhasesMatch
<1>11. StateKnown'
  BY <1>3 DEF IInv, StateKnown, Known
<1> QED
  BY <1>4, <1>5, <1>10, <1>11 DEF IInv

LEMMA SendStep ==
  ASSUME IInv, NEW c \in Clients, CimCtrlSendCommand(c)
  PROVE  IInv'
<1> DEFINE k == client[c].cmd
<1>1. /\ client[c].at = "send" /\ Len(queue) < MaxCommands
      /\ queue' = Append(queue, k)
      /\ UNCHANGED <<alive, state, handler, sensor, told>>
  BY DEF CimCtrlSendCommand, Queued
<1>2. /\ k \in AllCommands /\ queue \in Seq(AllCommands) /\ alive /\ client[c] # AtRest
      /\ pending \in [Commands -> Nat]
  BY <1>1, Names, Resting DEF IInv, TypeOK, PhasesMatch
<1>3. /\ queue' \in Seq(AllCommands) /\ Len(queue') <= MaxCommands
      /\ \A j : Times(queue', j) = Times(queue, j) + (IF k = j THEN 1 ELSE 0)
      /\ \A j : Times(queue, j) \in Nat
  <2>1. Len(queue') = Len(queue) + 1 /\ Len(queue) \in Nat
    BY <1>1, <1>2
  <2> QED
    BY <1>1, <1>2, <2>1, CimAssumption, TimesAppend, TimesNat
<1>4. \A d \in Clients \ {c} : ~Closes(d)
  BY <1>2, ClosesAlone
<1>5. CASE k = "SHUTDOWN"
  <2>1. /\ client' = [client EXCEPT ![c] = ClientAt("join", NoCommand)]
        /\ UNCHANGED pending
    BY <1>5 DEF CimCtrlSendCommand
  <2>2. ClosedBy(c)
    BY <1>5 DEF Closes, IInv, PhasesMatch
  <2>3. handler.at = "read" /\ queue = <<>> /\ Accepts /\ Alone(c) /\ NothingPending
    BY <1>1, <2>2 DEF ClosedBy
  <2>4. /\ client'[c] = [at |-> "join", cmd |-> NoCommand]
        /\ \A d \in Clients \ {c} : client'[d] = client[d]
        /\ client' \in [Clients -> [at : {"idle", "send", "join", "drain", "power", "check"},
                                    cmd : AllCommands \cup {NoCommand}]]
    BY <2>1 DEF ClientAt, IInv, TypeOK
  <2>5. queue' = <<"SHUTDOWN">>
    BY <1>1, <1>5, <2>3
  <2>6. TypeOK'
    BY <1>1, <1>3, <2>1, <2>4 DEF IInv, TypeOK
  <2>7. PlacesMatch'
    BY <1>1, <1>3, <1>5, <2>1, Names DEF IInv, PlacesMatch
  <2>8. ClosedBy(c)' /\ Closes(c)'
    BY <1>1, <2>1, <2>3, <2>4, <2>5
    DEF ClosedBy, Closes, Alone, NothingPending, LastCommand, Accepts
  <2>9. PhasesMatch'
    <3>1. \A d \in Clients : client'[d].at = "send" <=> client'[d].cmd # NoCommand
      BY <2>4 DEF IInv, PhasesMatch
    <3>2. \A d \in Clients \ {c} : Closes(d)' = Closes(d)
      BY <2>4 DEF Closes
    <3>3. \A d \in Clients : Closes(d)' => ClosedBy(d)'
      BY <1>4, <2>8, <3>2
    <3> QED
      BY <1>1, <1>2, <2>8, <3>1, <3>3 DEF PhasesMatch
  <2>10. StateKnown'
    BY <1>1 DEF IInv, StateKnown, Known
  <2> QED
    BY <2>6, <2>7, <2>9, <2>10 DEF IInv
<1>6. CASE k # "SHUTDOWN"
  <2>1. /\ client' = [client EXCEPT ![c] = AtRest] /\ k \in Commands
        /\ pending' = [pending EXCEPT ![k] = @ + 1]
    BY <1>2, <1>6, Names DEF CimCtrlSendCommand
  <2>2. /\ client'[c] = AtRest /\ \A d \in Clients \ {c} : client'[d] = client[d]
        /\ client' \in [Clients -> [at : {"idle", "send", "join", "drain", "power", "check"},
                                    cmd : AllCommands \cup {NoCommand}]]
    BY <2>1, Names DEF IInv, TypeOK
  <2>3. /\ pending' \in [Commands -> Nat]
        /\ \A j \in Commands : pending'[j] = pending[j] + (IF k = j THEN 1 ELSE 0)
    BY <1>2, <2>1
  <2>4. ~Closes(c)
    BY <1>1, <1>6 DEF Closes
  <2> HIDE DEF k
  <2>5. TypeOK'
    BY <1>1, <1>3, <2>2, <2>3 DEF IInv, TypeOK
  <2>6. PlacesMatch'
    <3>1. \A j \in Commands : pending'[j] = Times(queue', j)
                                + (IF handler'.cmd = j THEN 1 ELSE 0)
      BY <1>1, <1>3, <2>3 DEF IInv, PlacesMatch
    <3> QED
      BY <1>1, <3>1 DEF IInv, PlacesMatch
  <2>7. PhasesMatch'
    <3>1. \A d \in Clients : client'[d].at = "send" <=> client'[d].cmd # NoCommand
      BY <2>2, Names DEF IInv, PhasesMatch
    <3>2. ~Closes(c)' /\ \A d \in Clients \ {c} : Closes(d)' = Closes(d)
      BY <2>2, Names DEF Closes
    <3>3. \A d \in Clients : ~Closes(d) /\ ~Closes(d)'
      BY <1>4, <2>4, <3>2
    <3>4. Times(queue, "SHUTDOWN") = 0 /\ handler.cmd # "SHUTDOWN"
          /\ handler.at # "none" /\ state # "Invalid"
      BY <1>2, <3>3 DEF IInv, PhasesMatch
    <3>5. Times(queue', "SHUTDOWN") = 0
      BY <1>3, <1>6, <3>4
    <3> QED
      BY <1>1, <1>2, <3>1, <3>3, <3>4, <3>5 DEF PhasesMatch
  <2>8. StateKnown'
    BY <1>1 DEF IInv, StateKnown, Known
  <2> QED
    BY <2>5, <2>6, <2>7, <2>8 DEF IInv
<1> QED
  BY <1>5, <1>6

LEMMA JoinStep ==
  ASSUME IInv, NEW c \in Clients, Join(c)
  PROVE  IInv'
<1>1. /\ client[c].at = "join" /\ handler.at = "none"
      /\ client' = [client EXCEPT ![c] = ClientAt("drain", NoCommand)]
      /\ UNCHANGED <<alive, state, queue, handler, sensor, pending, told>>
  BY DEF Join, hist
<1>2. /\ client'[c] = [at |-> "drain", cmd |-> NoCommand]
      /\ \A d \in Clients \ {c} : client'[d] = client[d]
      /\ client' \in [Clients -> [at : {"idle", "send", "join", "drain", "power", "check"},
                                  cmd : AllCommands \cup {NoCommand}]]
  BY <1>1 DEF ClientAt, IInv, TypeOK
<1>3. HandlerGone /\ Alone(c) /\ NothingPending
  BY <1>1 DEF IInv, PhasesMatch, Closes, ClosedBy, LastCommand
<1>4. alive /\ \A d \in Clients \ {c} : ~Closes(d)
  BY <1>1, Names, Resting, ClosesAlone
<1>5. TypeOK' /\ PlacesMatch' /\ StateKnown'
  BY <1>1, <1>2 DEF IInv, TypeOK, PlacesMatch, StateKnown, Known
<1>6. ClosedBy(c)' /\ Closes(c)'
  BY <1>1, <1>2, <1>3 DEF ClosedBy, Closes, Alone, NothingPending, HandlerGone
<1>7. PhasesMatch'
  BY <1>1, <1>2, <1>4, <1>6 DEF IInv, PhasesMatch, Closes
<1> QED
  BY <1>5, <1>7 DEF IInv

LEMMA DrainStep ==
  ASSUME IInv, NEW c \in Clients, Drain(c)
  PROVE  IInv' /\ alive' = FALSE /\ NothingPending /\ UNCHANGED pending
<1>1. client[c].at = "drain"
  BY DEF Drain
<1>2. HandlerGone /\ Alone(c) /\ NothingPending
  BY <1>1 DEF IInv, PhasesMatch, Closes, ClosedBy
<1>3. /\ alive' = FALSE /\ told' = "Invalid" /\ client' = [client EXCEPT ![c] = AtRest]
      /\ UNCHANGED <<state, queue, handler, sensor, pending>>
  BY <1>2 DEF Drain, HandlerGone
<1>4. /\ \A d \in Clients : client'[d] = AtRest
      /\ client' \in [Clients -> [at : {"idle", "send", "join", "drain", "power", "check"},
                                  cmd : AllCommands \cup {NoCommand}]]
  BY <1>2, <1>3, Names DEF Alone, IInv, TypeOK
<1>5. TypeOK' /\ PlacesMatch' /\ StateKnown'
  BY <1>3, <1>4, Names DEF IInv, TypeOK, PlacesMatch, StateKnown
<1>6. PhasesMatch'
  BY <1>2, <1>3, <1>4, Names DEF PhasesMatch, Closes, HandlerGone, NothingPending
<1> QED
  BY <1>2, <1>3, <1>5, <1>6 DEF IInv

LEMMA SensorStep ==
  ASSUME IInv, NEW c \in Clients, SensorPower(c) \/ SensorCheck(c)
  PROVE  IInv'
<1>1. /\ client[c].at \in {"power", "check"}
      /\ sensor' \in {"none", "created", "powered", "checked"}
      /\ \/ client' = [client EXCEPT ![c] = AtRest]
         \/ client' = [client EXCEPT ![c] = ClientAt("check", NoCommand)]
      /\ UNCHANGED <<alive, state, queue, handler, pending, told>>
  BY DEF SensorPower, SensorCheck, hist, IInv, TypeOK
<1>2. /\ client'[c].at \in {"idle", "check"} /\ client'[c].cmd = NoCommand
      /\ client'[c].at = "idle" => client'[c] = AtRest
      /\ \A d \in Clients \ {c} : client'[d] = client[d]
      /\ client' \in [Clients -> [at : {"idle", "send", "join", "drain", "power", "check"},
                                  cmd : AllCommands \cup {NoCommand}]]
  BY <1>1, Names DEF ClientAt, IInv, TypeOK
<1>3. alive /\ \A d \in Clients : ~Closes(d)
  BY <1>1, Names, Resting, ClosesAlone DEF IInv, PhasesMatch, Closes
<1>4. TypeOK' /\ PlacesMatch' /\ StateKnown'
  BY <1>1, <1>2 DEF IInv, TypeOK, PlacesMatch, StateKnown, Known
<1>5. PhasesMatch'
  BY <1>1, <1>2, <1>3, Names DEF IInv, PhasesMatch, Closes
<1> QED
  BY <1>4, <1>5 DEF IInv

-----------------------------------------------------------------------------
(* The handler. *)

LEMMA ReadStep ==
  ASSUME IInv, HandlerRead
  PROVE  IInv'
<1>1. /\ handler.at = "read" /\ queue # <<>> /\ queue' = Tail(queue)
      /\ handler' = [at |-> "execute", cmd |-> Head(queue), ok |-> FALSE]
      /\ UNCHANGED <<alive, state, client, sensor, pending, told>>
      /\ queue \in Seq(AllCommands) /\ handler.cmd = NoCommand /\ alive
  BY DEF HandlerRead, hist, IInv, TypeOK, PlacesMatch, PhasesMatch
<1>2. /\ Head(queue) \in AllCommands /\ Tail(queue) \in Seq(AllCommands)
      /\ Len(Tail(queue)) = Len(queue) - 1 /\ Len(queue) \in Nat
      /\ \A k : Times(queue, k) = Times(queue', k) + (IF Head(queue) = k THEN 1 ELSE 0)
      /\ \A k : Times(queue', k) \in Nat
  <2>1. ASSUME NEW k
        PROVE  Times(queue, k) = Times(Tail(queue), k) + (IF Head(queue) = k THEN 1 ELSE 0)
    BY <1>1, TimesTail
  <2>2. /\ Head(queue) \in AllCommands /\ Tail(queue) \in Seq(AllCommands)
        /\ Len(Tail(queue)) = Len(queue) - 1 /\ Len(queue) \in Nat
    BY <1>1, HeadTailProperties
  <2>3. ASSUME NEW k PROVE Times(queue', k) \in Nat
    BY <1>1, <2>2, TimesNat
  <2>4. ASSUME NEW k
        PROVE  Times(queue, k) = Times(queue', k) + (IF Head(queue) = k THEN 1 ELSE 0)
    BY <1>1, <2>1
  <2> QED
    BY <2>2, <2>3, <2>4
<1>3. TypeOK'
  BY <1>1, <1>2, CimAssumption DEF IInv, TypeOK
<1>4. PlacesMatch'
  <2>1. handler'.cmd = Head(queue) /\ handler'.at = "execute"
    BY <1>1
  <2>2. \A k \in Commands : pending'[k] = Times(queue', k)
                              + (IF handler'.cmd = k THEN 1 ELSE 0)
    BY <1>1, <1>2, <2>1, Names DEF IInv, PlacesMatch
  <2> QED
    BY <1>2, <2>1, <2>2, Names DEF PlacesMatch
<1>5. PhasesMatch'
  <2>1. CASE \E c \in Clients : Closes(c)
    <3>1. PICK c \in Clients : Closes(c)
      BY <2>1
    <3>2. Alone(c) /\ NothingPending /\ client[c].at = "join" /\ LastCommand
          /\ queue = <<"SHUTDOWN">>
      BY <1>1, <3>1 DEF IInv, PhasesMatch, ClosedBy, HandlerGone, LastCommand
    <3>3. handler'.at = "execute" /\ handler'.cmd = "SHUTDOWN" /\ queue' = <<>>
      BY <1>1, <3>2
    <3>4. ClosedBy(c)'
      BY <1>1, <3>2, <3>3 DEF ClosedBy, Alone, NothingPending, LastCommand, Accepts
    <3>5. \A d \in Clients \ {c} : ~Closes(d)
      BY <3>2, Resting DEF Alone
    <3> QED
      BY <1>1, <3>1, <3>4, <3>5 DEF IInv, PhasesMatch, Closes
  <2>2. CASE \A c \in Clients : ~Closes(c)
    <3>1. Times(queue', "SHUTDOWN") = 0 /\ Head(queue) # "SHUTDOWN"
      BY <1>1, <1>2, <2>2 DEF IInv, PhasesMatch
    <3> QED
      BY <1>1, <2>2, <3>1 DEF IInv, PhasesMatch, Closes
  <2> QED
    BY <2>1, <2>2
<1>6. StateKnown'
  BY <1>1 DEF IInv, StateKnown, Known
<1> QED
  BY <1>3, <1>4, <1>5, <1>6 DEF IInv

(***************************************************************************)
(* As long as the handler has a START or STOP, nobody closes.              *)
(***************************************************************************)
LEMMA CommandInHand ==
  ASSUME IInv, handler.cmd \in Commands
  PROVE  alive /\ pending[handler.cmd] > 0 /\ \A c \in Clients : ~Closes(c)
<1>1. queue \in Seq(AllCommands) /\ \A k : Times(queue, k) \in Nat
  BY TimesNat DEF IInv, TypeOK
<1>2. pending[handler.cmd] > 0
  BY <1>1 DEF IInv, PlacesMatch
<1>3. ~NothingPending
  BY <1>2 DEF NothingPending
<1> QED
  BY <1>2, <1>3 DEF IInv, PhasesMatch, ClosedBy

(***************************************************************************)
(* A START or STOP is carried out or refused; a SHUTDOWN is never refused. *)
(***************************************************************************)
LEMMA HandleDoes ==
  ASSUME IInv, HandleStart \/ HandleStop \/ HandleWrongState
  PROVE  /\ handler.at = "execute" /\ handler.cmd \in Commands
         /\ handler'.at = "complete" /\ handler'.cmd = handler.cmd
         /\ handler' \in [at : {"none", "read", "execute", "complete"},
                          cmd : AllCommands \cup {NoCommand}, ok : BOOLEAN]
         /\ state' \in States \ {"Invalid"}
         /\ handler'.ok => state' = IF handler.cmd = "START" THEN "Running" ELSE "Stopped"
         /\ ~handler'.ok => state' = state
         /\ UNCHANGED <<alive, queue, client, sensor, pending, told>>
<1>1. handler \in [at : {"none", "read", "execute", "complete"},
                   cmd : AllCommands \cup {NoCommand}, ok : BOOLEAN]
  BY DEF IInv, TypeOK
<1>2. CASE HandleStart
  BY <1>1, <1>2, Names DEF HandleStart, Handle, hist
<1>3. CASE HandleStop
  BY <1>1, <1>3, Names DEF HandleStop, Handle, hist
<1>4. CASE HandleWrongState
  <2>1. /\ handler.at = "execute" /\ state \notin Accepting(handler.cmd)
        /\ state' = state /\ handler' = [handler EXCEPT !.at = "complete", !.ok = FALSE]
        /\ UNCHANGED <<alive, queue, client, sensor, pending, told>>
    BY <1>4 DEF HandleWrongState, Handle, hist
  <2>2. handler.cmd # "SHUTDOWN"
    <3>1. ASSUME handler.cmd = "SHUTDOWN" PROVE Accepts
      <4>1. PICK c \in Clients : Closes(c)
        BY <2>1, <3>1 DEF IInv, PhasesMatch
      <4> QED
        BY <2>1, <3>1, <4>1 DEF IInv, PhasesMatch, ClosedBy, LastCommand, HandlerGone
    <3> QED
      BY <2>1, <3>1 DEF Accepting, Accepts
  <2>3. handler.cmd \in Commands
    BY <2>1, <2>2, Names DEF IInv, TypeOK, PlacesMatch
  <2>4. state \in States \ {"Invalid"}
    BY <2>3, CommandInHand DEF IInv, TypeOK, PhasesMatch
  <2> QED
    BY <1>1, <2>1, <2>3, <2>4
<1> QED
  BY <1>2, <1>3, <1>4

LEMMA HandleStep ==
  ASSUME IInv, HandleStart \/ HandleStop \/ HandleWrongState
  PROVE  IInv'
<1>1. /\ handler.at = "execute" /\ handler.cmd \in Commands
      /\ handler'.at = "complete" /\ handler'.cmd = handler.cmd
      /\ handler' \in [at : {"none", "read", "execute", "complete"},
                       cmd : AllCommands \cup {NoCommand}, ok : BOOLEAN]
      /\ state' \in States \ {"Invalid"}
      /\ handler'.ok => state' = IF handler.cmd = "START" THEN "Running" ELSE "Stopped"
      /\ ~handler'.ok => state' = state
      /\ UNCHANGED <<alive, queue, client, sensor, pending, told>>
  BY HandleDoes
<1>2. alive /\ \A c \in Clients : ~Closes(c)
  BY <1>1, CommandInHand
<1>3. TypeOK' /\ PlacesMatch'
  BY <1>1, Names DEF IInv, TypeOK, PlacesMatch
<1>4. PhasesMatch'
  BY <1>1, <1>2, Names DEF IInv, PhasesMatch, Closes
<1>5. StateKnown'
  BY <1>1, <1>2 DEF IInv, PhasesMatch, StateKnown, Known
<1> QED
  BY <1>3, <1>4, <1>5 DEF IInv

LEMMA ShutDownStep ==
  ASSUME IInv, HandleShutDown
  PROVE  IInv'
<1>1. /\ handler.at = "execute" /\ handler.cmd = "SHUTDOWN" /\ state' = "Invalid"
      /\ handler' = [at |-> "none", cmd |-> NoCommand, ok |-> FALSE]
      /\ UNCHANGED <<alive, queue, client, sensor, pending, told>>
  BY DEF HandleShutDown, HandlerAt, hist
<1>2. PICK c \in Clients : Closes(c)
  BY <1>1 DEF IInv, PhasesMatch
<1>3. client[c].at = "join" /\ queue = <<>> /\ Alone(c) /\ NothingPending /\ alive
  BY <1>1, <1>2 DEF IInv, PhasesMatch, ClosedBy, LastCommand, HandlerGone
<1>4. \A d \in Clients \ {c} : ~Closes(d)
  BY <1>3, Resting DEF Alone
<1>5. TypeOK'
  BY <1>1, Names DEF IInv, TypeOK
<1>6. PlacesMatch'
  BY <1>1, Names DEF IInv, PlacesMatch
<1>7. ClosedBy(c)'
  BY <1>1, <1>3 DEF ClosedBy, Alone, NothingPending, HandlerGone
<1>8. PhasesMatch'
  BY <1>1, <1>2, <1>3, <1>4, <1>7 DEF IInv, PhasesMatch, Closes
<1>9. StateKnown'
  BY <1>1 DEF StateKnown
<1> QED
  BY <1>5, <1>6, <1>8, <1>9 DEF IInv

LEMMA CompleteDoes ==
  ASSUME IInv, HandlerComplete
  PROVE  /\ handler.at = "complete" /\ handler.cmd \in Commands
         /\ handler' = [at |-> "read", cmd |-> NoCommand, ok |-> FALSE]
         /\ pending' = [pending EXCEPT ![handler.cmd] = @ - 1]
         /\ pending' \in [Commands -> Nat]
         /\ \A k \in Commands : pending'[k] = pending[k]
                                  - (IF handler.cmd = k THEN 1 ELSE 0)
         /\ told' = Known /\ Known \in States
         /\ UNCHANGED <<alive, state, queue, client, sensor>>
<1>1. /\ handler.at = "complete" /\ handler' = HandlerAt("read")
      /\ pending' = [k \in Commands |-> pending[k] - IF k = handler.cmd THEN 1 ELSE 0]
      /\ UNCHANGED <<alive, state, queue, client, sensor>>
  BY DEF HandlerComplete
<1>2. handler.cmd \in Commands /\ pending[handler.cmd] > 0 /\ pending \in [Commands -> Nat]
  BY <1>1, CommandInHand DEF IInv, PlacesMatch, TypeOK
<1>3. told' = Known /\ Known \in States
  BY <1>1, <1>2, Names DEF HandlerComplete, Known, IInv, TypeOK
<1>4. /\ pending' = [pending EXCEPT ![handler.cmd] = @ - 1]
      /\ pending' \in [Commands -> Nat]
      /\ \A k \in Commands : pending'[k] = pending[k] - (IF handler.cmd = k THEN 1 ELSE 0)
  <2> DEFINE h == handler.cmd
  <2>1. h \in Commands /\ pending[h] > 0 /\ pending \in [Commands -> Nat]
        /\ pending' = [k \in Commands |-> pending[k] - IF k = h THEN 1 ELSE 0]
    BY <1>1, <1>2
  <2> HIDE DEF h
  <2>2. \A k \in Commands : pending'[k] = pending[k] - (IF h = k THEN 1 ELSE 0)
    BY <2>1
  <2>3. \A k \in Commands : pending'[k] \in Nat
    BY <2>1, <2>2
  <2>4. pending' \in [Commands -> Nat]
    BY <2>1, <2>3
  <2>5. pending' = [pending EXCEPT ![h] = @ - 1]
    <3> DEFINE f == [pending EXCEPT ![h] = @ - 1]
    <3>1. f \in [Commands -> Int] /\ \A k \in Commands : f[k] = pending'[k]
      BY <2>1, <2>2
    <3> HIDE DEF f
    <3> QED
      BY <2>4, <3>1 DEF f
  <2> QED
    BY <2>2, <2>4, <2>5 DEF h
<1> QED
  BY <1>1, <1>2, <1>3, <1>4 DEF HandlerAt

LEMMA CompleteStep ==
  ASSUME IInv, HandlerComplete
  PROVE  IInv'
<1>1. /\ handler.at = "complete" /\ handler.cmd \in Commands
      /\ handler' = [at |-> "read", cmd |-> NoCommand, ok |-> FALSE]
      /\ pending' \in [Commands -> Nat]
      /\ \A k \in Commands : pending'[k] = pending[k] - (IF handler.cmd = k THEN 1 ELSE 0)
      /\ told' = Known /\ Known \in States
      /\ UNCHANGED <<alive, state, queue, client, sensor>>
  BY CompleteDoes
<1>2. alive /\ \A c \in Clients : ~Closes(c)
  BY <1>1, CommandInHand
<1>3. TypeOK'
  BY <1>1, Names DEF IInv, TypeOK
<1>4. PlacesMatch'
  <2>1. queue \in Seq(AllCommands) /\ \A k : Times(queue, k) \in Nat
    BY TimesNat DEF IInv, TypeOK
  <2>2. handler'.at = "read" /\ handler'.cmd = NoCommand /\ \A k \in Commands : NoCommand # k
    BY <1>1, Names
  <2>3. \A k \in Commands : pending'[k] = Times(queue, k)
    BY <1>1, <2>1 DEF IInv, PlacesMatch
  <2> QED
    BY <1>1, <2>1, <2>2, <2>3 DEF PlacesMatch
<1>5. PhasesMatch'
  BY <1>1, <1>2, Names DEF IInv, PhasesMatch, Closes
<1>6. StateKnown'
  BY <1>1 DEF IInv, StateKnown, Known
<1> QED
  BY <1>3, <1>4, <1>5, <1>6 DEF IInv

LEMMA Stutters ==
  ASSUME IInv, UNCHANGED vars
  PROVE  IInv'
<1> USE DEF vars, hist
<1>1. TypeOK' /\ PlacesMatch' /\ StateKnown'
  BY DEF IInv, TypeOK, PlacesMatch, StateKnown, Known
<1>2. PhasesMatch'
  BY DEF IInv, PhasesMatch, Closes, ClosedBy, Alone, NothingPending, LastCommand,
         HandlerGone, Accepts
<1> QED
  BY <1>1, <1>2 DEF IInv

-----------------------------------------------------------------------------
LEMMA InitHolds == Init => IInv
<1> SUFFICES ASSUME Init PROVE IInv
  OBVIOUS
<1>1. /\ alive = FALSE /\ state = "Invalid" /\ queue = <<>> /\ told = "Invalid"
      /\ client = [c \in Clients |-> AtRest] /\ sensor = "none"
      /\ handler = [at |-> "none", cmd |-> NoCommand, ok |-> FALSE]
      /\ pending = [k \in Commands |-> 0]
  BY DEF Init, HandlerAt
<1>2. TypeOK
  <2>1. queue \in Seq(AllCommands) /\ Len(queue) <= MaxCommands
    BY <1>1, CimAssumption
  <2> QED
    BY <1>1, <2>1, Names DEF TypeOK
<1>3. PlacesMatch
  BY <1>1, Names, TimesEmpty DEF PlacesMatch
<1>4. PhasesMatch /\ StateKnown
  BY <1>1, Names DEF PhasesMatch, StateKnown, Closes, NothingPending
<1> QED
  BY <1>2, <1>3, <1>4 DEF IInv

LEMMA StepHolds == IInv /\ [Next]_vars => IInv'
<1> SUFFICES ASSUME IInv, [Next]_vars PROVE IInv'
  OBVIOUS
<1>1. ASSUME NEW c \in Clients, Call(c) PROVE IInv'
  <2>1. CASE CimCtrlInit(c)
    BY <2>1, InitStep
  <2>2. CASE CimCtrlStart(c)
    BY <2>2, EnterStep, Names DEF CimCtrlStart
  <2>3. CASE CimCtrlStop(c)
    BY <2>3, EnterStep, Names DEF CimCtrlStop
  <2>4. CASE CimCtrlShutDown(c)
    BY <2>4, EnterStep DEF CimCtrlShutDown
  <2>5. CASE CimCtrlRegisterSensorDrv(c)
    BY <2>5, EnterStep DEF CimCtrlRegisterSensorDrv
  <2> QED
    BY <1>1, <2>1, <2>2, <2>3, <2>4, <2>5 DEF Call
<1>2. ASSUME NEW c \in Clients, Continue(c) PROVE IInv'
  BY <1>2, SendStep, JoinStep, DrainStep, SensorStep DEF Continue
<1>3. CASE Handler
  BY <1>3, ReadStep, HandleStep, ShutDownStep, CompleteStep DEF Handler
<1>4. CASE UNCHANGED vars
  BY <1>4, Stutters
<1> QED
  BY <1>1, <1>2, <1>3, <1>4 DEF Next

(***************************************************************************)
(* The inductive invariant holds in every state.                           *)
(***************************************************************************)
THEOREM Invariance == Spec => []IInv
<1> QED
  BY InitHolds, StepHolds, PTL DEF Spec

(***************************************************************************)
(* The state is what its comments say.                                     *)
(***************************************************************************)
THEOREM TypeCorrect == Spec => []TypeOK
<1>1. IInv => TypeOK
  BY DEF IInv
<1> QED
  BY <1>1, Invariance, PTL

(***************************************************************************)
(* Clients that call at once cannot lose track of the state: when nothing  *)
(* is pending it is the one that the completions have told.                *)
(***************************************************************************)
THEOREM StateIsTold == Spec => []StateAsTold
<1>1. ASSUME IInv, alive, NothingPending, \A c \in Clients : client[c] = AtRest
      PROVE  state = told
  <2>1. \A c \in Clients : ~Closes(c)
    BY <1>1, Resting
  <2>2. handler.at = "read" /\ state # "Invalid"
    BY <1>1, <2>1, AtEase DEF IInv, PhasesMatch
  <2> QED
    BY <1>1, <2>2 DEF IInv, StateKnown, Known
<1>2. IInv => StateAsTold
  BY <1>1 DEF StateAsTold
<1> QED
  BY <1>2, Invariance, PTL

LEMMA StepServes ==
  IInv /\ [Next]_vars => [Service!ServiceNext]_(Service!serviceVars)
<1> SUFFICES ASSUME IInv, [Next]_vars
             PROVE  [Service!ServiceNext]_(Service!serviceVars)
  OBVIOUS
<1> USE DEF Service!ServiceNext, Service!serviceVars
<1>0. pending \in [Commands -> Nat]
  BY DEF IInv, TypeOK
<1>1. ASSUME NEW c \in Clients, Call(c)
      PROVE  [Service!ServiceNext]_(Service!serviceVars)
  <2>1. CASE CimCtrlInit(c)
    BY <2>1 DEF CimCtrlInit, Service!Open
  <2>2. CASE ~CimCtrlInit(c)
    BY <1>1, <2>2
    DEF Call, CimCtrlStart, CimCtrlStop, CimCtrlShutDown, CimCtrlRegisterSensorDrv,
        Enter, hist
  <2> QED
    BY <2>1, <2>2
<1>2. ASSUME NEW c \in Clients, CimCtrlSendCommand(c)
      PROVE  [Service!ServiceNext]_(Service!serviceVars)
  <2>1. CASE client[c].cmd = "SHUTDOWN"
    BY <1>2, <2>1 DEF CimCtrlSendCommand
  <2>2. CASE client[c].cmd # "SHUTDOWN"
    <3>1. client[c].cmd \in Commands /\ alive
      BY <1>2, <2>2, Names, Resting DEF CimCtrlSendCommand, IInv, TypeOK, PhasesMatch
    <3>2. /\ pending' = [pending EXCEPT ![client[c].cmd] = @ + 1]
          /\ UNCHANGED alive
      BY <1>2, <2>2 DEF CimCtrlSendCommand
    <3>3. Service!Accept(client[c].cmd)
      BY <3>1, <3>2 DEF Service!Accept
    <3> QED
      BY <3>1, <3>3
  <2> QED
    BY <2>1, <2>2
<1>3. ASSUME NEW c \in Clients, Drain(c)
      PROVE  [Service!ServiceNext]_(Service!serviceVars)
  <2>1. alive' = FALSE /\ NothingPending /\ UNCHANGED pending
    BY <1>3, DrainStep
  <2>2. pending = [k \in Commands |-> 0]
    BY <1>0, <2>1 DEF NothingPending
  <2>3. alive
    BY <1>3, Names, Resting DEF Drain
  <2> QED
    BY <2>1, <2>2, <2>3 DEF Service!Close, Service!Idle
<1>4. ASSUME NEW c \in Clients, Join(c) \/ SensorPower(c) \/ SensorCheck(c)
      PROVE  [Service!ServiceNext]_(Service!serviceVars)
  BY <1>4 DEF Join, SensorPower, SensorCheck, hist
<1>5. CASE HandlerComplete
  <2>1. /\ handler.cmd \in Commands /\ UNCHANGED alive
        /\ pending' = [pending EXCEPT ![handler.cmd] = @ - 1]
    BY <1>5, CompleteDoes
  <2>2. pending[handler.cmd] > 0
    BY <2>1, CommandInHand
  <2>3. Service!Answer(handler.cmd)
    BY <2>1, <2>2 DEF Service!Answer
  <2> QED
    BY <2>1, <2>3
<1>6. CASE HandlerRead \/ HandleStart \/ HandleStop \/ HandleWrongState \/ HandleShutDown
  BY <1>6 DEF HandlerRead, HandleStart, HandleStop, HandleWrongState, HandleShutDown,
     Handle, hist
<1>7. CASE UNCHANGED vars
  BY <1>7 DEF vars, hist
<1> QED
  BY <1>1, <1>2, <1>3, <1>4, <1>5, <1>6, <1>7 DEF Next, Continue, Handler

(***************************************************************************)
(* The control is a command service, step by step, for any number of       *)
(* clients: an accepted START or STOP is answered once, whether or not the *)
(* state still allows it, and the context goes when all are answered.  That *)
(* each is answered eventually is a matter of fairness.                    *)
(***************************************************************************)
THEOREM Serves ==
  Spec => Service!ServiceInit /\ [][Service!ServiceNext]_(Service!serviceVars)
<1>1. Init => Service!ServiceInit
  BY DEF Init, Service!ServiceInit, Service!Idle
<1> QED
  BY <1>1, StepServes, Invariance, PTL DEF Spec

=============================================================================
