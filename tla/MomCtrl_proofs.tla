--------------------------- MODULE MomCtrl_proofs ---------------------------
(***************************************************************************)
(* What holds of the MOM control for every number of paths, every pool and *)
(* every depth of its queues: each buffer has one owner, a STOP empties    *)
(* the queues but for what was late, no free buffer stays idle but one     *)
(* that was freed during START, and each accepted command is completed     *)
(* once; for a client that stops the driver first, also that no buffer is  *)
(* lost and every full one is announced.                                   *)
(***************************************************************************)
EXTENDS MomCtrl, FiniteSetTheorems, SequenceTheorems, TLAPS

-----------------------------------------------------------------------------
(* How often a value is in a sequence.                                      *)

Positions(q, k) == {i \in DOMAIN q : q[i] = k}
Times(q, k) == Cardinality(Positions(q, k))

LEMMA TimesNat ==
  ASSUME NEW S, NEW q \in Seq(S), NEW k
  PROVE  IsFiniteSet(Positions(q, k)) /\ Times(q, k) \in Nat
<1>1. IsFiniteSet(1 .. Len(q)) /\ DOMAIN q = 1 .. Len(q)
  BY FS_Interval
<1>2. Positions(q, k) \subseteq 1 .. Len(q)
  BY <1>1 DEF Positions
<1>3. IsFiniteSet(Positions(q, k))
  BY <1>1, <1>2, FS_Subset
<1> QED
  BY <1>3, FS_CardinalityType DEF Times

LEMMA TimesEmpty ==
  ASSUME NEW k
  PROVE  Times(<<>>, k) = 0
<1>1. Positions(<<>>, k) = {}
  BY DEF Positions
<1> QED
  BY <1>1, FS_EmptySet DEF Times

LEMMA TimesAppend ==
  ASSUME NEW S, NEW q \in Seq(S), NEW x \in S, NEW k
  PROVE  Times(Append(q, x), k) = Times(q, k) + (IF x = k THEN 1 ELSE 0)
<1>1. /\ Len(q) \in Nat /\ DOMAIN q = 1 .. Len(q)
      /\ DOMAIN Append(q, x) = 1 .. Len(q) + 1 /\ Append(q, x)[Len(q) + 1] = x
      /\ \A i \in 1 .. Len(q) : Append(q, x)[i] = q[i]
  BY AppendProperties
<1>2. Positions(Append(q, x), k) =
        IF x = k THEN Positions(q, k) \cup {Len(q) + 1} ELSE Positions(q, k)
  BY <1>1 DEF Positions
<1>3. Len(q) + 1 \notin Positions(q, k)
  BY <1>1 DEF Positions
<1>4. IsFiniteSet(Positions(q, k)) /\ Times(q, k) \in Nat
  BY TimesNat
<1>5. Cardinality(Positions(q, k) \cup {Len(q) + 1}) = Cardinality(Positions(q, k)) + 1
  BY <1>3, <1>4, FS_AddElement
<1>6. CASE x = k
  BY <1>2, <1>5, <1>6 DEF Times
<1>7. CASE x # k
  BY <1>2, <1>4, <1>7 DEF Times
<1> QED
  BY <1>6, <1>7

LEMMA TimesTail ==
  ASSUME NEW S, NEW q \in Seq(S), q # <<>>, NEW k
  PROVE  /\ Head(q) \in S /\ Tail(q) \in Seq(S) /\ Len(Tail(q)) = Len(q) - 1
         /\ Times(q, k) = Times(Tail(q), k) + (IF Head(q) = k THEN 1 ELSE 0)
<1>1. /\ Len(q) \in Nat /\ Len(q) >= 1 /\ Head(q) = q[1] /\ Head(q) \in S
      /\ Tail(q) \in Seq(S) /\ Len(Tail(q)) = Len(q) - 1
      /\ DOMAIN q = 1 .. Len(q) /\ DOMAIN Tail(q) = 1 .. Len(q) - 1
      /\ \A i \in 1 .. Len(q) - 1 : Tail(q)[i] = q[i + 1]
  BY HeadTailProperties
<1> DEFINE P == Positions(Tail(q), k)
           Q == Positions(q, k) \ {1}
           f == [i \in P |-> i + 1]
<1>2. P \subseteq 1 .. Len(q) - 1 /\ Q \subseteq 2 .. Len(q)
  BY <1>1 DEF Positions
<1>3. \A i \in 1 .. Len(q) - 1 : i \in P <=> i + 1 \in Q
  BY <1>1 DEF Positions
<1>4. IsFiniteSet(P) /\ IsFiniteSet(Positions(q, k)) /\ Times(Tail(q), k) \in Nat
  BY <1>1, TimesNat
<1> HIDE DEF P, Q
<1>5. f \in Bijection(P, Q)
  <2>1. \A i \in P : f[i] \in Q
    BY <1>2, <1>3
  <2>2. \A i, j \in P : f[i] = f[j] => i = j
    BY <1>2
  <2>3. ASSUME NEW j \in Q PROVE \E i \in P : f[i] = j
    <3>1. j - 1 \in 1 .. Len(q) - 1 /\ j - 1 + 1 = j
      BY <1>1, <1>2
    <3>2. j - 1 \in P
      BY <1>3, <3>1
    <3> QED
      BY <3>1, <3>2
  <2> QED
    BY <2>1, <2>2, <2>3 DEF Bijection, Injection, Surjection, IsInjective
<1>6. Cardinality(Q) = Cardinality(P)
  BY <1>4, <1>5, FS_Bijection DEF ExistsBijection
<1>7. Cardinality(Q) = IF 1 \in Positions(q, k) THEN Cardinality(Positions(q, k)) - 1
                       ELSE Cardinality(Positions(q, k))
  BY <1>4, FS_RemoveElement DEF Q
<1>8. 1 \in Positions(q, k) <=> Head(q) = k
  BY <1>1 DEF Positions
<1>9. Cardinality(Positions(q, k)) \in Nat
  BY <1>4, FS_CardinalityType
<1> QED
  BY <1>1, <1>4, <1>6, <1>7, <1>8, <1>9 DEF Times, P
-----------------------------------------------------------------------------
(***************************************************************************)
(* What each thread is about, at each place it can be.                     *)
(***************************************************************************)
Request(k) == Command(k, 0)
Announce(p) == Command("PROC_FULL", p)

HandlerMatches ==
  /\ handler.at \in {"none", "read"} <=> handler.cmd = NoCommand
  /\ handler.at \in {"list", "write", "callback"} <=> handler.buffer # NoBuffer
  /\ handler.at \in {"list", "write", "callback", "refill"} =>
       handler.cmd.cmd = "PROC_FULL" /\ state = "Running"
  /\ handler.cmd.cmd = "PROC_FULL" => handler.path = handler.cmd.path
  /\ handler.at = "fill" =>
       /\ handler.cmd = Request("START") /\ handler.path # 0
       /\ state \in {"Initialize", "Stopped"}
  /\ handler.at \in {"flushFull", "flushEmpty"} =>
       handler.cmd = Request("STOP") /\ handler.path \in Paths /\ state = "Stopped"

CallbacksMatch ==
  /\ driver.at = "idle" <=> driver.path = 0
  /\ driver.at \in {"write", "free"} <=> driver.buffer # NoBuffer
  /\ user.at = "idle" <=> user.path = 0

(***************************************************************************)
(* The client creates the control before anybody uses it, and frees it     *)
(* when the handler has ended and nobody is in a callback.  A user may     *)
(* free a buffer of an earlier context from the first moment.              *)
(***************************************************************************)
PhasesMatch ==
  /\ client.at # "idle" => alive
  /\ client.at = "send" => \E k \in Commands \cup {"SHUTDOWN"} : client.cmd = Request(k)
  /\ client.at # "send" => client.cmd = NoCommand
  /\ ~alive => handler.at = "none" /\ queue = <<>>
  /\ ~alive => driver.at = "idle" /\ user.at = "idle"
  /\ client.at = "init" => driver.at = "idle"
  /\ handler.at = "none" => state = "Invalid"
  /\ client.at = "init" => handler.at = "read" /\ queue = <<>> /\ state = "Invalid"
  /\ client.at = "drain" => handler.at = "none"

(***************************************************************************)
(* The commands pending are those in the queue and the one in hand.        *)
(***************************************************************************)
CommandsMatch ==
  \A k \in Commands :
    pending[k] = Times(queue, Request(k)) + (IF handler.cmd.cmd = k THEN 1 ELSE 0)

(***************************************************************************)
(* Where buffer b of path p is, counted: once in all.                      *)
(***************************************************************************)
Has(s, b) == IF b \in s THEN 1 ELSE 0
Holds(thread, p, b) == IF thread.path = p /\ thread.buffer = b THEN 1 ELSE 0

Count(p, b) ==
  Has(pool[p], b) + Times(empty[p], b) + Times(full[p], b) + Times(filling[p], b)
  + Times(out[p], b) + Has(kept[p], b) + Has(lost[p], b) + Has(left[p], b)
  + Holds(handler, p, b) + Holds(driver, p, b)

PlacedOnce == \A p \in Paths, b \in Buffers : Count(p, b) = 1

(***************************************************************************)
(* After a STOP, and behind the flush that is under way, only late buffers *)
(* are in the queues.                                                      *)
(***************************************************************************)
FullFlushed(p) ==
  \/ handler.at \notin {"flushFull", "flushEmpty"}
  \/ p < handler.path
  \/ p = handler.path /\ handler.at = "flushEmpty"

EmptyFlushed(p) ==
  handler.at \in {"flushFull", "flushEmpty"} => p < handler.path

Flushed ==
  state = "Stopped" /\ handler.at # "fill" =>
    \A p \in Paths :
      /\ FullFlushed(p) => ToSet(full[p]) \subseteq late[p]
      /\ EmptyFlushed(p) => ToSet(empty[p]) \subseteq late[p]

(***************************************************************************)
(* While the control runs, a pool has no more buffers than were freed      *)
(* while START was at the path or past it, plus those that somebody is     *)
(* about to take out again.  Behind a START the pool has no more than      *)
(* those freed; at its path, as many more as START has tries left.         *)
(***************************************************************************)
Refills(thread, p) ==
  IF thread.at \in {"notify", "refill"} /\ thread.path = p THEN 1 ELSE 0

PoolBound(p) ==
  Cardinality(pool[p]) <=
    missed[p] + Refills(handler, p) + Refills(driver, p) + Refills(user, p)

TriesLeft(p) == IF p = handler.path THEN NumBuffers - handler.tries ELSE 0
StartBound(p) == Cardinality(pool[p]) <= missed[p] + TriesLeft(p)

PoolsTaken ==
  \A p \in Refilled :
    /\ handler.at = "fill" /\ p <= handler.path => StartBound(p)
    /\ state = "Running" => PoolBound(p)

(***************************************************************************)
(* What an orderly client keeps: the driver is quiet from the call of Stop *)
(* until the control runs again, and no buffer is announced behind a STOP. *)
(***************************************************************************)
Stopping == state # "Running" \/ pending["STOP"] # 0 \/ client.cmd = Request("STOP")

Handling(p) == IF handler.at = "execute" /\ handler.cmd = Announce(p) THEN 1 ELSE 0
Sending(p) == IF driver.at = "send" /\ driver.path = p THEN 1 ELSE 0
Announced(p) == Times(queue, Announce(p)) + Handling(p) + Sending(p)

NoneBehindStop ==
  \A i, j \in DOMAIN queue :
    i < j /\ queue[i] = Request("STOP") => \A p \in Paths : queue[j] # Announce(p)

Ordered ==
  /\ Stopping => DriverQuiet
  /\ state # "Running" => handler.cmd.cmd # "PROC_FULL"
  /\ state # "Running" \/ handler.cmd = Request("STOP") =>
       \A p \in Paths : Times(queue, Announce(p)) = 0
  /\ NoneBehindStop
  /\ handler.at = "list" => handler.path \in attached
  /\ lost = NoBuffers
  /\ \A p \in Paths : Len(full[p]) = Announced(p)


LEMMA Entries ==
  /\ Commands = {"START", "STOP"} /\ 0 \notin Paths /\ Paths \subseteq 1 .. NumPaths
  /\ \A k \in Commands \cup {"SHUTDOWN"} :
       Request(k) \in AllCommands /\ Request(k).cmd = k /\ Request(k).path = 0
  /\ \A p \in Paths : Announce(p) \in AllCommands /\ Announce(p).cmd = "PROC_FULL"
                      /\ Announce(p).path = p
  /\ \A e \in AllCommands :
       /\ e # NoCommand /\ e.path \in 0 .. NumPaths
       /\ e.cmd \in {"START", "STOP", "SHUTDOWN", "PROC_FULL"}
       /\ \A k \in Commands \cup {"SHUTDOWN"} : e = Request(k) <=> e.cmd = k
       /\ e.cmd = "PROC_FULL" => e.path \in Paths /\ e = Announce(e.path)
  /\ NoCommand.cmd \notin {"START", "STOP", "SHUTDOWN", "PROC_FULL"}
  /\ NumPaths \in Nat \ {0}
<1> USE MomAssumption
<1>1. NumPaths \in Nat \ {0} /\ Commands = {"START", "STOP"}
  BY DEF Commands
<1>2. 0 \notin Paths /\ Paths \subseteq 1 .. NumPaths
  BY <1>1 DEF Paths
<1>3. \A k \in Commands \cup {"SHUTDOWN"} :
        Request(k) \in AllCommands /\ Request(k).cmd = k /\ Request(k).path = 0
  BY DEF Request, Command, AllCommands
<1>4. \A p \in Paths : Announce(p) \in AllCommands /\ Announce(p).cmd = "PROC_FULL"
                        /\ Announce(p).path = p
  BY DEF Announce, Command, AllCommands
<1>5. NoCommand.cmd = "INVALID"
  BY DEF NoCommand, Command
<1>6. ASSUME NEW e \in AllCommands
      PROVE  /\ e # NoCommand /\ e.path \in 0 .. NumPaths
             /\ e.cmd \in {"START", "STOP", "SHUTDOWN", "PROC_FULL"}
             /\ \A k \in Commands \cup {"SHUTDOWN"} : e = Request(k) <=> e.cmd = k
             /\ e.cmd = "PROC_FULL" => e.path \in Paths /\ e = Announce(e.path)
  <2>1. CASE \E c \in Commands \cup {"SHUTDOWN"} : e = Request(c)
    <3>1. PICK c \in Commands \cup {"SHUTDOWN"} : e = Request(c)
      BY <2>1
    <3>2. e.cmd = c /\ e.path = 0
      BY <1>3, <3>1
    <3> QED
      BY <1>1, <1>3, <1>5, <3>1, <3>2
  <2>2. CASE \E q \in Paths : e = Announce(q)
    <3>1. PICK q \in Paths : e = Announce(q)
      BY <2>2
    <3>2. e.cmd = "PROC_FULL" /\ e.path = q
      BY <1>4, <3>1
    <3>3. q \in 0 .. NumPaths
      BY <1>1, <1>2
    <3> QED
      BY <1>1, <1>3, <1>5, <3>1, <3>2, <3>3
  <2> QED
    BY <2>1, <2>2 DEF AllCommands, Request, Announce
<1> QED
  BY <1>1, <1>2, <1>3, <1>4, <1>5, <1>6

LEMMA PathBounds ==
  /\ 1 \in Paths /\ 0 \notin Paths
  /\ 1 \in 0 .. NumPaths + 1 /\ NumPaths + 1 \notin Paths
  /\ \A p \in Paths : /\ p \in Nat /\ p # 0 /\ p <= NumPaths /\ p \in 0 .. NumPaths + 1
                      /\ p + 1 \in 0 .. NumPaths + 1 /\ p + 1 # 0
                      /\ p < NumPaths => p + 1 \in Paths
                      /\ p < NumPaths + 1
BY MomAssumption DEF Paths

LEMMA TriesBounds ==
  /\ NumBuffers \in Nat /\ 0 \in 0 .. NumBuffers
  /\ \A t \in 0 .. NumBuffers : t < NumBuffers => t + 1 \in 0 .. NumBuffers
<1>1. NumBuffers \in Nat
  BY MomAssumption, FS_CardinalityType DEF NumBuffers
<1> QED
  BY <1>1

LEMMA AtRest ==
  /\ \A l : /\ HandlerAt(l).at = l /\ HandlerAt(l).cmd = NoCommand
            /\ HandlerAt(l).path = 0 /\ HandlerAt(l).buffer = NoBuffer
            /\ HandlerAt(l).tries = 0 /\ HandlerAt(l).result = "SUCCESS"
  /\ \A l : ClientAt(l).at = l /\ ClientAt(l).cmd = NoCommand
  /\ \A l, p, b : /\ Callback(l, p, b).at = l /\ Callback(l, p, b).path = p
                  /\ Callback(l, p, b).buffer = b
  /\ NoCallback.at = "idle" /\ NoCallback.path = 0 /\ NoCallback.buffer = NoBuffer
BY DEF HandlerAt, ClientAt, Callback, NoCallback

(***************************************************************************)
(* The types, of what the threads are about and of where the buffers are.  *)
(***************************************************************************)
HandlerType ==
  [at : {"none", "read", "execute", "fill", "flushFull", "flushEmpty",
         "list", "write", "callback", "refill", "complete"},
   cmd : AllCommands \cup {NoCommand}, path : 0 .. NumPaths + 1,
   buffer : Buffers \cup {NoBuffer}, tries : 0 .. NumBuffers, result : Results]

ClientType == [at : {"idle", "init", "send", "join", "drain"},
               cmd : AllCommands \cup {NoCommand}]

DriverType == [at : {"idle", "request", "write", "send", "free", "notify", "refill"},
               path : Paths \cup {0}, buffer : Buffers \cup {NoBuffer}]

UserType == [at : {"idle", "notify", "refill"}, path : Paths \cup {0},
             buffer : {NoBuffer}]

ThreadsTyped ==
  /\ alive \in BOOLEAN /\ on \in BOOLEAN /\ state \in States
  /\ queue \in Seq(AllCommands) /\ Len(queue) <= MaxCommands
  /\ attached \subseteq Paths /\ registered \subseteq Paths
  /\ client \in ClientType /\ handler \in HandlerType
  /\ driver \in DriverType /\ user \in UserType
  /\ pending \in [Commands -> Nat]

PlacesTyped ==
  /\ pool \in [Paths -> SUBSET Buffers]
  /\ kept \in [Paths -> SUBSET Buffers]
  /\ lost \in [Paths -> SUBSET Buffers] /\ left \in [Paths -> SUBSET Buffers]
  /\ empty \in [Paths -> Seq(Buffers)] /\ full \in [Paths -> Seq(Buffers)]
  /\ filling \in [Paths -> Seq(Buffers)] /\ out \in [Paths -> Seq(Buffers)]
  /\ late \in [Paths -> SUBSET Buffers]
  /\ missed \in [Paths -> Nat]

LEMMA TypeParts == TypeOK <=> ThreadsTyped /\ PlacesTyped
BY DEF TypeOK, ThreadsTyped, PlacesTyped, HandlerType, ClientType, DriverType, UserType

LEMMA Resting ==
  /\ \A l \in {"none", "read"} : HandlerAt(l) \in HandlerType
  /\ \A l \in {"idle", "init", "join", "drain"} : ClientAt(l) \in ClientType
  /\ NoCallback \in DriverType /\ NoCallback \in UserType
  /\ \A p \in Paths : /\ Callback("notify", p, NoBuffer) \in UserType
                      /\ \A l \in {"request", "write", "send", "free", "notify"},
                            b \in Buffers \cup {NoBuffer} : Callback(l, p, b) \in DriverType
BY Entries, TriesBounds DEF HandlerAt, ClientAt, Callback, NoCallback, HandlerType, ClientType, DriverType,
   UserType, Results

-----------------------------------------------------------------------------
(* The steps of the threads, as far as they do not move buffers.            *)

Threads == ThreadsTyped /\ HandlerMatches /\ CallbacksMatch /\ PhasesMatch /\ CommandsMatch

(***************************************************************************)
(* A step of the handler from the middle of a command leaves the phases of *)
(* the client alone.                                                       *)
(***************************************************************************)
LEMMA HandlerInside ==
  ASSUME Threads, handler.at \notin {"none", "read"}, handler'.at # "none",
         UNCHANGED <<alive, queue, client, driver, user>>
  PROVE  CallbacksMatch' /\ PhasesMatch'
BY DEF Threads, CallbacksMatch, PhasesMatch

LEMMA CommandKept ==
  ASSUME Threads, UNCHANGED <<queue, pending>>,
         \/ handler'.cmd = handler.cmd
         \/ handler.cmd.cmd \notin Commands /\ handler'.cmd = NoCommand
  PROVE  CommandsMatch'
BY Entries DEF Threads, CommandsMatch, Request, Command

(***************************************************************************)
(* The handler goes on with the command it has, or is done with one that   *)
(* nobody waits for.                                                       *)
(***************************************************************************)
LEMMA HandlerGoes ==
  ASSUME Threads, handler.at \notin {"none", "read"},
         handler' \in HandlerType, handler'.at \notin {"none"}, HandlerMatches',
         \/ handler'.cmd = handler.cmd
         \/ handler.cmd.cmd \notin Commands /\ handler'.cmd = NoCommand,
         UNCHANGED <<alive, queue, attached, registered, client, driver, user, on, pending>>,
         state' \in States
  PROVE  Threads'
<1>1. CallbacksMatch' /\ PhasesMatch'
  BY HandlerInside
<1>2. CommandsMatch'
  BY CommandKept
<1> QED
  BY <1>1, <1>2 DEF Threads, ThreadsTyped

(***************************************************************************)
(* The other threads move while the handler stands still.                  *)
(***************************************************************************)
LEMMA OthersGo ==
  ASSUME Threads, UNCHANGED <<alive, state, queue, attached, registered, client, handler, pending>>,
         driver' \in DriverType, user' \in UserType, on' \in BOOLEAN, CallbacksMatch',
         driver.at # "idle" \/ driver'.at = "idle" \/ state = "Running",
         user.at # "idle" \/ user'.at = "idle" \/ alive
  PROVE  Threads'
<1>1. PhasesMatch'
  BY DEF Threads, PhasesMatch
<1>2. HandlerMatches' /\ CommandsMatch'
  BY DEF Threads, HandlerMatches, CommandsMatch
<1> QED
  BY <1>1, <1>2 DEF Threads, ThreadsTyped

LEMMA ThreadsStay ==
  ASSUME Threads, UNCHANGED <<ctx, threads, pending>>
  PROVE  Threads'
BY DEF Threads, ThreadsTyped, HandlerMatches, CallbacksMatch, PhasesMatch, CommandsMatch,
   ctx, threads

(***************************************************************************)
(* The handler has taken a command, and what a state makes of it.          *)
(***************************************************************************)
LEMMA Executing ==
  ASSUME Threads, NEW c, NEW states, Executes(c, states)
  PROVE  /\ handler \in HandlerType /\ handler.at = "execute" /\ handler.cmd.cmd = c
         /\ handler.cmd \in AllCommands /\ handler.buffer = NoBuffer /\ state \in states
BY DEF Executes, Threads, ThreadsTyped, HandlerMatches, HandlerType

LEMMA StartStep ==
  ASSUME Threads, HandleStart \/ FillOne \/ FillNext \/ HandleStarted
  PROVE  Threads'
<1> USE DEF ctx, threads
<1>0. handler \in HandlerType /\ NumPaths \in Nat \ {0}
  BY Entries DEF Threads, ThreadsTyped
<1>1. CASE HandleStart
  <2>1. Executes("START", {"Initialize", "Stopped"})
    BY <1>1 DEF HandleStart
  <2>2. handler.cmd = Request("START") /\ handler.at = "execute" /\ handler.buffer = NoBuffer
        /\ state \in {"Initialize", "Stopped"} /\ handler.cmd \in AllCommands
    BY <2>1, Executing, Entries
  <2>3. /\ handler' \in HandlerType /\ handler'.at = "fill" /\ handler'.cmd = handler.cmd
        /\ handler'.path = 1 /\ handler'.buffer = handler.buffer
    BY <1>0, <1>1, PathBounds, TriesBounds DEF HandleStart, HandlerType
  <2>4. HandlerMatches'
    BY <1>1, <2>2, <2>3, Entries DEF HandleStart, HandlerMatches
  <2> QED
    BY <1>1, <2>2, <2>3, <2>4, HandlerGoes DEF HandleStart, Threads, ThreadsTyped
<1>2. CASE FillOne
  <2>1. handler.at = "fill" /\ handler.tries < NumBuffers
    BY <1>2 DEF FillOne
  <2>2. handler.tries + 1 \in 0 .. NumBuffers
    BY <1>0, <2>1, TriesBounds DEF HandlerType
  <2>3. /\ handler' \in HandlerType /\ handler'.at = "fill" /\ handler'.cmd = handler.cmd
        /\ handler'.path = handler.path /\ handler'.buffer = handler.buffer
    BY <1>0, <1>2, <2>1, <2>2 DEF FillOne, HandlerType
  <2>4. HandlerMatches'
    BY <1>2, <2>1, <2>3, Entries DEF FillOne, HandlerMatches, Threads
  <2> QED
    BY <1>2, <2>1, <2>3, <2>4, HandlerGoes DEF FillOne, hist, Threads, ThreadsTyped
<1>3. CASE FillNext
  <2>1. handler.at = "fill" /\ handler.path \in Paths
    BY <1>3 DEF FillNext
  <2>2. handler.path + 1 \in 0 .. NumPaths + 1 /\ handler.path + 1 # 0
    BY <2>1, PathBounds
  <2>3. /\ handler' \in HandlerType /\ handler'.at = "fill" /\ handler'.cmd = handler.cmd
        /\ handler'.path = handler.path + 1 /\ handler'.buffer = handler.buffer
    BY <1>0, <1>3, <2>1, <2>2, TriesBounds DEF FillNext, HandlerType
  <2>4. HandlerMatches'
    BY <1>3, <2>1, <2>2, <2>3, Entries DEF FillNext, HandlerMatches, Threads
  <2> QED
    BY <1>3, <2>1, <2>3, <2>4, HandlerGoes DEF FillNext, hist, Threads, ThreadsTyped
<1>4. CASE HandleStarted
  <2>1. handler.at = "fill" /\ state' = "Running"
    BY <1>4 DEF HandleStarted
  <2>2. /\ handler' \in HandlerType /\ handler'.at = "complete" /\ handler'.cmd = handler.cmd
        /\ handler'.path = handler.path /\ handler'.buffer = handler.buffer
    BY <1>0, <1>4, <2>1 DEF HandleStarted, HandlerType
  <2>3. HandlerMatches'
    BY <2>1, <2>2, Entries DEF HandlerMatches, Threads
  <2> QED
    BY <1>4, <2>1, <2>2, <2>3, HandlerGoes
    DEF HandleStarted, hist, Threads, ThreadsTyped, States
<1> QED
  BY <1>1, <1>2, <1>3, <1>4

LEMMA StopStep ==
  ASSUME Threads, HandleStop \/ FlushFull \/ FlushEmpty
  PROVE  Threads'
<1> USE DEF ctx, threads
<1>0. handler \in HandlerType /\ NumPaths \in Nat \ {0}
  BY Entries DEF Threads, ThreadsTyped
<1>1. CASE HandleStop
  <2>1. Executes("STOP", {"Running"})
    BY <1>1 DEF HandleStop
  <2>2. /\ handler.cmd = Request("STOP") /\ handler.at = "execute"
        /\ handler.buffer = NoBuffer /\ handler.cmd \in AllCommands
    BY <2>1, Executing, Entries
  <2>3. /\ handler' \in HandlerType /\ handler'.at = "flushFull" /\ handler'.cmd = handler.cmd
        /\ handler'.path = 1 /\ handler'.buffer = handler.buffer /\ state' = "Stopped"
    BY <1>0, <1>1, PathBounds DEF HandleStop, HandlerType
  <2>4. HandlerMatches'
    BY <1>0, <2>2, <2>3, Entries DEF HandlerMatches, Paths
  <2> QED
    BY <1>1, <2>2, <2>3, <2>4, HandlerGoes DEF HandleStop, Threads, ThreadsTyped, States
<1>2. CASE FlushFull
  <2>1. handler.at = "flushFull"
    BY <1>2 DEF FlushFull
  <2>2. CASE full[handler.path] # <<>>
    BY <1>2, <2>2, ThreadsStay DEF FlushFull
  <2>3. CASE full[handler.path] = <<>>
    <3>1. /\ handler' \in HandlerType /\ handler'.at = "flushEmpty" /\ handler'.cmd = handler.cmd
          /\ handler'.path = handler.path /\ handler'.buffer = handler.buffer
      BY <1>0, <1>2, <2>1, <2>3 DEF FlushFull, HandlerType
    <3>2. UNCHANGED <<ctx, client, driver, on, user, pending>>
      BY <1>2 DEF FlushFull
    <3>3. HandlerMatches'
      BY <2>1, <3>1, <3>2 DEF HandlerMatches, Threads
    <3> QED
      BY <2>1, <3>1, <3>2, <3>3, HandlerGoes DEF Threads, ThreadsTyped
  <2> QED
    BY <2>2, <2>3
<1>3. CASE FlushEmpty
  <2>1. handler.at = "flushEmpty" /\ handler.path \in Paths
    BY <1>3 DEF FlushEmpty, Threads, HandlerMatches
  <2>2. CASE empty[handler.path] # <<>>
    BY <1>3, <2>2, ThreadsStay DEF FlushEmpty
  <2>3. CASE empty[handler.path] = <<>>
    <3>1. /\ handler' \in HandlerType /\ handler'.cmd = handler.cmd
          /\ handler'.buffer = handler.buffer
          /\ \/ handler'.at = "flushFull" /\ handler'.path \in Paths
             \/ handler'.at = "complete" /\ handler'.path = handler.path
      BY <1>0, <1>3, <2>1, <2>3, PathBounds DEF FlushEmpty, HandlerType
    <3>2. UNCHANGED <<ctx, client, driver, on, user, pending>>
      BY <1>3 DEF FlushEmpty
    <3>3. HandlerMatches'
      BY <2>1, <3>1, <3>2, Entries DEF HandlerMatches, Threads
    <3> QED
      BY <2>1, <3>1, <3>2, <3>3, HandlerGoes DEF Threads, ThreadsTyped
  <2> QED
    BY <2>2, <2>3
<1> QED
  BY <1>1, <1>2, <1>3

(***************************************************************************)
(* A full buffer in the hand of the handler is one of its path.            *)
(***************************************************************************)
LEMMA FullInHand ==
  ASSUME Threads, handler.at \in {"list", "write", "callback", "refill"}
  PROVE  /\ handler.path \in Paths /\ handler.cmd = Announce(handler.path)
         /\ handler.cmd.cmd \notin Commands /\ state = "Running" /\ handler \in HandlerType
         /\ handler.at # "refill" => handler.buffer \in Buffers
         /\ handler.at = "refill" => handler.buffer = NoBuffer
<1>1. /\ handler.cmd.cmd = "PROC_FULL" /\ state = "Running" /\ handler \in HandlerType
      /\ handler.path = handler.cmd.path /\ handler.cmd \in AllCommands
      /\ handler.at # "refill" => handler.buffer \in Buffers
      /\ handler.at = "refill" => handler.buffer = NoBuffer
  BY DEF Threads, ThreadsTyped, HandlerMatches, HandlerType
<1> QED
  BY <1>1, Entries

(***************************************************************************)
(* The handler reads the next command after one that nobody waits for.     *)
(***************************************************************************)
LEMMA BackToRead ==
  ASSUME Threads, handler.at \notin {"none", "read"}, handler.cmd.cmd \notin Commands,
         handler' = HandlerAt("read"), UNCHANGED <<ctx, client, driver, on, user, pending>>
  PROVE  Threads'
<1>1. /\ handler' \in HandlerType /\ handler'.at = "read" /\ handler'.cmd = NoCommand
      /\ handler'.buffer = NoBuffer
  BY AtRest, Resting
<1>2. HandlerMatches'
  BY <1>1, Entries DEF HandlerMatches
<1> QED
  BY <1>1, <1>2, HandlerGoes DEF ctx, Threads, ThreadsTyped

LEMMA FullStep ==
  ASSUME Threads, PlacesTyped,
         HandleFull \/ LockPath \/ AddToMediaBufferQueue \/ CallBufferCb \/ HandlerRefill
  PROVE  Threads'
<1>0. handler \in HandlerType /\ state \in States
  BY DEF Threads, ThreadsTyped
<1>1. CASE HandleFull
  <2>1. /\ handler.at = "execute" /\ handler.cmd.cmd = "PROC_FULL"
        /\ handler.cmd \in AllCommands /\ state = "Running"
    <3>1. Executes("PROC_FULL", {"Running"})
      BY <1>1 DEF HandleFull
    <3> QED
      BY <3>1, Executing
  <2>2. handler.path \in Paths /\ handler.path = handler.cmd.path
    BY <2>1, Entries DEF Threads, HandlerMatches
  <2>3. CASE full[handler.path] = <<>>
    BY <1>1, <2>1, <2>3, BackToRead, Entries DEF HandleFull, hist
  <2>4. CASE full[handler.path] # <<>>
    <3>1. Head(full[handler.path]) \in Buffers
      BY <2>2, <2>4, HeadTailProperties DEF PlacesTyped
    <3>2. /\ handler' \in HandlerType /\ handler'.at \in {"list", "callback"}
          /\ handler'.cmd = handler.cmd /\ handler'.path = handler.path
          /\ handler'.buffer \in Buffers
      BY <1>0, <1>1, <2>4, <3>1 DEF HandleFull, HandlerType
    <3>3. UNCHANGED <<ctx, client, driver, on, user, pending>>
      BY <1>1 DEF HandleFull, hist
    <3>4. HandlerMatches'
      BY <2>1, <2>2, <3>2, <3>3, Entries, MomAssumption DEF ctx, HandlerMatches
    <3> QED
      BY <1>0, <2>1, <3>2, <3>3, <3>4, HandlerGoes DEF ctx
  <2> QED
    BY <2>3, <2>4
<1>2. CASE LockPath
  <2>1. handler.at = "list" /\ handler.buffer \in Buffers /\ handler.cmd.cmd \notin Commands
    BY <1>2, FullInHand DEF LockPath
  <2>2. UNCHANGED <<ctx, client, driver, on, user, pending>>
    BY <1>2 DEF LockPath, hist
  <2>3. CASE handler' = [handler EXCEPT !.at = "write"]
    <3>1. /\ handler' \in HandlerType /\ handler'.at = "write" /\ handler'.cmd = handler.cmd
          /\ handler'.path = handler.path /\ handler'.buffer = handler.buffer
      BY <1>0, <2>3 DEF HandlerType
    <3>2. HandlerMatches'
      BY <2>1, <2>2, <3>1 DEF ctx, Threads, HandlerMatches
    <3> QED
      BY <1>0, <2>1, <2>2, <3>1, <3>2, HandlerGoes DEF ctx
  <2>4. CASE handler' = HandlerAt("read")
    BY <2>1, <2>2, <2>4, BackToRead
  <2> QED
    BY <1>2, <2>3, <2>4 DEF LockPath
<1>3. CASE AddToMediaBufferQueue
  BY <1>3, BackToRead, FullInHand DEF AddToMediaBufferQueue, hist
<1>4. CASE CallBufferCb
  <2>1. /\ handler.at = "callback" /\ handler.buffer \in Buffers /\ NoBuffer \notin Buffers
        /\ handler.cmd.cmd \notin Commands
    BY <1>4, FullInHand, MomAssumption DEF CallBufferCb
  <2>2. UNCHANGED <<ctx, client, driver, on, user, pending>>
    BY <1>4 DEF CallBufferCb
  <2>3. CASE handler' = [handler EXCEPT !.at = "refill", !.buffer = NoBuffer]
    <3>1. /\ handler' \in HandlerType /\ handler'.at = "refill" /\ handler'.cmd = handler.cmd
          /\ handler'.path = handler.path /\ handler'.buffer = NoBuffer
      BY <1>0, <2>3 DEF HandlerType
    <3>2. HandlerMatches'
      BY <2>1, <2>2, <3>1 DEF ctx, Threads, HandlerMatches
    <3> QED
      BY <1>0, <2>1, <2>2, <3>1, <3>2, HandlerGoes DEF ctx
  <2>4. CASE handler' = HandlerAt("read")
    BY <2>1, <2>2, <2>4, BackToRead
  <2> QED
    BY <1>4, <2>3, <2>4 DEF CallBufferCb
<1>5. CASE HandlerRefill
  BY <1>5, BackToRead, FullInHand DEF HandlerRefill, Refill
<1> QED
  BY <1>1, <1>2, <1>3, <1>4, <1>5

(***************************************************************************)
(* The handler takes a command out of the queue, and completes one.        *)
(***************************************************************************)
LEMMA ReadStep ==
  ASSUME Threads, HandlerRead
  PROVE  Threads'
<1>0. /\ handler.at = "read" /\ handler.cmd = NoCommand /\ handler \in HandlerType
      /\ queue # <<>> /\ queue \in Seq(AllCommands) /\ Len(queue) <= MaxCommands
      /\ MaxCommands \in Nat
  BY MomAssumption DEF HandlerRead, Threads, ThreadsTyped, HandlerMatches
<1> DEFINE e == Head(queue)
<1>1. /\ e \in AllCommands /\ Tail(queue) \in Seq(AllCommands)
      /\ Len(Tail(queue)) = Len(queue) - 1 /\ Len(queue) \in Nat
  BY <1>0, HeadTailProperties
<1>2. \A k \in Commands : Times(queue, Request(k)) = Times(Tail(queue), Request(k))
                                                     + (IF e = Request(k) THEN 1 ELSE 0)
  BY <1>0, TimesTail
<1>3. e.path \in 0 .. NumPaths + 1 /\ e # NoCommand
  BY <1>1, Entries
<1> HIDE DEF e
<1>4. handler' = [HandlerAt("execute") EXCEPT !.cmd = e, !.path = e.path]
  BY DEF HandlerRead, e
<1>5. /\ handler' \in HandlerType /\ handler'.at = "execute" /\ handler'.cmd = e
      /\ handler'.path = e.path /\ handler'.buffer = NoBuffer
  BY <1>1, <1>3, <1>4, TriesBounds DEF HandlerAt, HandlerType, Results
<1>6. /\ UNCHANGED <<alive, state, attached, registered, client, driver, on, user, pending>>
      /\ queue' = Tail(queue)
  BY DEF HandlerRead, hist
<1>7. HandlerMatches'
  BY <1>1, <1>3, <1>5, Entries DEF HandlerMatches
<1>8. CommandsMatch'
  <2> SUFFICES ASSUME NEW k \in Commands
               PROVE  pending[k] = Times(queue', Request(k)) + (IF e.cmd = k THEN 1 ELSE 0)
    BY <1>5, <1>6 DEF CommandsMatch
  <2>1. pending[k] = Times(queue, Request(k)) + 0
    BY <1>0, Entries DEF Threads, CommandsMatch
  <2>2. e = Request(k) <=> e.cmd = k
    BY <1>1, Entries
  <2>3. Times(Tail(queue), Request(k)) \in Nat
    BY <1>1, TimesNat
  <2> QED
    BY <1>2, <1>6, <2>1, <2>2, <2>3
<1>9. PhasesMatch' /\ CallbacksMatch'
  BY <1>0, <1>5, <1>6 DEF Threads, PhasesMatch, CallbacksMatch
<1> QED
  BY <1>0, <1>1, <1>5, <1>6, <1>7, <1>8, <1>9 DEF Threads, ThreadsTyped

LEMMA RefuseStep ==
  ASSUME Threads, HandleWrongState
  PROVE  Threads'
<1>0. /\ handler \in HandlerType /\ handler.at = "execute" /\ handler.buffer = NoBuffer
      /\ handler.cmd # NoCommand /\ state \in States
  BY DEF HandleWrongState, Threads, ThreadsTyped, HandlerMatches
<1>1. /\ handler' \in HandlerType /\ handler'.at = "complete" /\ handler'.cmd = handler.cmd
      /\ handler'.path = handler.path /\ handler'.buffer = NoBuffer
  BY <1>0 DEF HandleWrongState, HandlerType, Results
<1>2. UNCHANGED <<ctx, client, driver, on, user, pending>>
  BY DEF HandleWrongState, hist
<1>3. HandlerMatches'
  BY <1>0, <1>1, <1>2 DEF ctx, Threads, HandlerMatches
<1> QED
  BY <1>0, <1>1, <1>2, <1>3, HandlerGoes DEF ctx

LEMMA ShutDownStep ==
  ASSUME Threads, HandleShutDown
  PROVE  Threads'
<1>1. Executes("SHUTDOWN", {"Initialize", "Stopped"})
  BY DEF HandleShutDown
<1>2. /\ handler.at = "execute" /\ handler.cmd.cmd \notin Commands
  BY <1>1, Executing, Entries
<1>3. /\ handler' \in HandlerType /\ handler'.at = "none" /\ handler'.cmd = NoCommand
      /\ handler'.buffer = NoBuffer /\ state' = "Invalid"
      /\ UNCHANGED <<alive, queue, attached, registered, client, driver, on, user, pending>>
  BY AtRest, Resting DEF HandleShutDown, hist
<1>4. HandlerMatches' /\ CommandsMatch'
  BY <1>2, <1>3, Entries, CommandKept DEF HandlerMatches
<1>5. PhasesMatch' /\ CallbacksMatch'
  BY <1>2, <1>3 DEF Threads, PhasesMatch, CallbacksMatch
<1> QED
  BY <1>3, <1>4, <1>5 DEF Threads, ThreadsTyped, States

LEMMA CompleteStep ==
  ASSUME Threads, HandlerComplete
  PROVE  Threads' /\ (handler.cmd.cmd \in Commands => pending[handler.cmd.cmd] > 0)
<1>1. handler.at = "complete" /\ handler' = HandlerAt("read")
      /\ UNCHANGED <<ctx, client, driver, on, user>>
  BY DEF HandlerComplete
<1>2. CASE handler.cmd.cmd \notin Commands
  <2>1. UNCHANGED pending
    BY <1>2 DEF HandlerComplete
  <2> QED
    BY <1>1, <1>2, <2>1, BackToRead
<1>3. CASE handler.cmd.cmd \in Commands
  <2> DEFINE c == handler.cmd.cmd
  <2>1. pending' = [pending EXCEPT ![c] = @ - 1]
    BY <1>3 DEF HandlerComplete
  <2>2. /\ pending \in [Commands -> Nat] /\ queue \in Seq(AllCommands)
        /\ \A k \in Commands : pending[k] = Times(queue, Request(k))
                                            + (IF c = k THEN 1 ELSE 0)
    BY DEF Threads, ThreadsTyped, CommandsMatch
  <2>3. c \in Commands
    BY <1>3
  <2>4. \A k \in Commands : Times(queue, Request(k)) \in Nat
    BY <2>2, TimesNat
  <2> HIDE DEF c
  <2>5. \A k \in Commands : pending'[k] = Times(queue, Request(k))
    BY <2>1, <2>2, <2>3, <2>4
  <2>6. pending[c] > 0
    BY <2>2, <2>3, <2>4
  <2>7. pending' \in [Commands -> Nat]
    BY <2>1, <2>2, <2>3, <2>6
  <2>8. /\ handler' \in HandlerType /\ handler'.at = "read" /\ handler'.cmd = NoCommand
        /\ handler'.buffer = NoBuffer
    BY <1>1, AtRest, Resting
  <2>9. HandlerMatches'
    BY <2>8, Entries DEF HandlerMatches
  <2>10. CommandsMatch'
    BY <1>1, <2>4, <2>5, <2>8, Entries DEF ctx, CommandsMatch
  <2>11. CallbacksMatch' /\ PhasesMatch'
    BY <1>1, <2>8, HandlerInside DEF ctx
  <2> QED
    BY <1>1, <2>6, <2>7, <2>8, <2>9, <2>10, <2>11 DEF ctx, Threads, ThreadsTyped, c
<1> QED
  BY <1>2, <1>3

(***************************************************************************)
(* A callback under way is one of a path.                                  *)
(***************************************************************************)
LEMMA CallbackPath ==
  ASSUME Threads
  PROVE  /\ driver.at # "idle" => driver.path \in Paths
         /\ driver.at \in {"write", "free"} => driver.buffer \in Buffers
         /\ driver.at \notin {"write", "free"} => driver.buffer = NoBuffer
         /\ user.at # "idle" => user.path \in Paths
BY DEF Threads, ThreadsTyped, CallbacksMatch, DriverType, UserType

LEMMA DriverDone ==
  ASSUME Threads, driver' = NoCallback,
         UNCHANGED <<ctx, client, handler, on, user, pending>>
  PROVE  Threads'
<1>1. driver' \in DriverType /\ CallbacksMatch'
  BY AtRest, Resting, MomAssumption DEF Threads, CallbacksMatch
<1> QED
  BY <1>1, AtRest, OthersGo DEF ctx, Threads, ThreadsTyped

LEMMA DriverCalls ==
  ASSUME Threads, NEW p \in Paths,
         NEW l \in {"request", "write", "send", "free", "notify"},
         NEW b \in Buffers \cup {NoBuffer}, l \in {"write", "free"} <=> b # NoBuffer,
         driver.at # "idle" \/ state = "Running", driver' = Callback(l, p, b),
         UNCHANGED <<ctx, client, handler, on, user, pending>>
  PROVE  Threads'
<1>1. driver' \in DriverType /\ CallbacksMatch'
  BY AtRest, Resting, Entries DEF Threads, CallbacksMatch
<1> QED
  BY <1>1, AtRest, OthersGo DEF ctx, Threads, ThreadsTyped

LEMMA DriverStep ==
  ASSUME Threads, PlacesTyped,
         \/ MomCtrlCamerIcDrvRequestCb \/ RequestTake \/ FullEvent \/ FullWrite
         \/ FlushedEvent \/ FlushedFree \/ DriverNotify \/ DriverRefill
  PROVE  Threads'
<1>0. NoBuffer \notin Buffers
  BY MomAssumption
<1>1. CASE MomCtrlCamerIcDrvRequestCb
  BY <1>1, DriverCalls DEF MomCtrlCamerIcDrvRequestCb, hist
<1>2. CASE RequestTake \/ DriverRefill
  BY <1>2, DriverDone DEF RequestTake, DriverRefill, Refill, hist
<1>3. CASE FullEvent
  <2>1. PICK p \in Paths :
          /\ DriverEvent(p)
          /\ \/ EventIgnored(p)
             \/ state = "Running" /\ driver' = Callback("write", p, Head(filling[p]))
          /\ UNCHANGED <<ctx, client, handler, on, user, pending>>
    BY <1>3 DEF FullEvent
  <2>2. Head(filling[p]) \in Buffers
    BY <2>1, HeadTailProperties DEF DriverEvent, PlacesTyped
  <2>3. CASE EventIgnored(p)
    BY <2>1, <2>3, ThreadsStay DEF EventIgnored, threads
  <2>4. CASE state = "Running" /\ driver' = Callback("write", p, Head(filling[p]))
    BY <1>0, <2>1, <2>2, <2>4, DriverCalls
  <2> QED
    BY <2>1, <2>3, <2>4
<1>4. CASE FullWrite
  <2>1. /\ driver.at = "write" /\ driver' = Callback("send", driver.path, NoBuffer)
        /\ UNCHANGED <<ctx, client, handler, on, user, pending>>
    BY <1>4 DEF FullWrite
  <2> QED
    BY <2>1, CallbackPath, DriverCalls
<1>5. CASE FlushedEvent
  <2>1. PICK p \in Paths :
          /\ DriverEvent(p)
          /\ \/ EventIgnored(p)
             \/ state = "Running" /\ driver' = Callback("free", p, Head(filling[p]))
          /\ UNCHANGED <<ctx, client, handler, on, user, pending>>
    BY <1>5 DEF FlushedEvent
  <2>2. Head(filling[p]) \in Buffers
    BY <2>1, HeadTailProperties DEF DriverEvent, PlacesTyped
  <2>3. CASE EventIgnored(p)
    BY <2>1, <2>3, ThreadsStay DEF EventIgnored, threads
  <2>4. CASE state = "Running" /\ driver' = Callback("free", p, Head(filling[p]))
    BY <1>0, <2>1, <2>2, <2>4, DriverCalls
  <2> QED
    BY <2>1, <2>3, <2>4
<1>6. CASE FlushedFree
  <2>1. /\ driver.at = "free" /\ driver' = Callback("notify", driver.path, NoBuffer)
        /\ UNCHANGED <<ctx, client, handler, on, user, pending>>
    BY <1>6 DEF FlushedFree
  <2> QED
    BY <2>1, CallbackPath, DriverCalls
<1>7. CASE DriverNotify
  <2>1. /\ driver.at = "notify" /\ UNCHANGED <<ctx, client, handler, on, user, pending>>
        /\ (driver' = [driver EXCEPT !.at = "refill"] \/ driver' = NoCallback)
    BY <1>7 DEF DriverNotify, Notified, hist
  <2>2. CASE driver' = NoCallback
    BY <2>1, <2>2, DriverDone
  <2>3. CASE driver' = [driver EXCEPT !.at = "refill"]
    <3>1. driver' \in DriverType /\ CallbacksMatch'
      BY <2>1, <2>3 DEF Threads, ThreadsTyped, DriverType, CallbacksMatch
    <3> QED
      BY <2>1, <3>1, OthersGo DEF ctx, Threads, ThreadsTyped
  <2> QED
    BY <2>1, <2>2, <2>3
<1> QED
  BY <1>1, <1>2, <1>3, <1>4, <1>5, <1>6, <1>7

LEMMA UserStep ==
  ASSUME Threads, UserFrees \/ UserNotify \/ UserRefill
  PROVE  Threads'
<1>1. UNCHANGED <<ctx, client, handler, driver, on, pending>>
  BY DEF UserFrees, UserNotify, UserRefill, Refill, hist
<1>2. \/ user' = NoCallback
      \/ alive /\ \E p \in Paths : user' = Callback("notify", p, NoBuffer)
      \/ user.at = "notify" /\ user' = [user EXCEPT !.at = "refill"]
  BY DEF UserFrees, UserNotify, Notified, UserRefill
<1>3. user' \in UserType /\ (user'.at = "idle" <=> user'.path = 0)
      /\ (user.at # "idle" \/ user'.at = "idle" \/ alive)
  <2>1. CASE user' = NoCallback
    BY <2>1, AtRest, Resting
  <2>2. CASE alive /\ \E p \in Paths : user' = Callback("notify", p, NoBuffer)
    BY <2>2, AtRest, Resting, Entries
  <2>3. CASE user.at = "notify" /\ user' = [user EXCEPT !.at = "refill"]
    BY <2>3 DEF Threads, ThreadsTyped, UserType, CallbacksMatch
  <2> QED
    BY <1>2, <2>1, <2>2, <2>3
<1> QED
  BY <1>1, <1>3, OthersGo DEF ctx, Threads, ThreadsTyped, CallbacksMatch

(***************************************************************************)
(* A command is queued, by the client or by the driver.                    *)
(***************************************************************************)
LEMMA QueuedDoes ==
  ASSUME Threads, NEW e \in AllCommands, Queued(e)
  PROVE  /\ queue' \in Seq(AllCommands) /\ Len(queue') <= MaxCommands
         /\ queue' = Append(queue, e) /\ queue' # <<>>
         /\ \A k : Times(queue', k) = Times(queue, k) + (IF e = k THEN 1 ELSE 0)
         /\ \A k : Times(queue, k) \in Nat
<1>1. /\ queue \in Seq(AllCommands) /\ Len(queue) < MaxCommands /\ queue' = Append(queue, e)
      /\ MaxCommands \in Nat
  BY MomAssumption DEF Queued, Threads, ThreadsTyped
<1>2. queue' \in Seq(AllCommands) /\ Len(queue') = Len(queue) + 1 /\ Len(queue) \in Nat
  BY <1>1, AppendProperties
<1>3. \A k : Times(queue', k) = Times(queue, k) + (IF e = k THEN 1 ELSE 0)
  BY <1>1, TimesAppend
<1>4. \A k : Times(queue, k) \in Nat
  BY <1>1, TimesNat
<1> QED
  BY <1>1, <1>2, <1>3, <1>4

LEMMA AnnounceStep ==
  ASSUME Threads, FullSend
  PROVE  Threads'
<1>1. /\ driver.at = "send" /\ driver' = NoCallback
      /\ UNCHANGED <<alive, state, attached, registered, client, handler, on, user, pending>>
  BY DEF FullSend, hist
<1>2. CASE state = "Invalid"
  BY <1>1, <1>2, DriverDone DEF FullSend, ctx
<1>3. CASE state # "Invalid"
  <2>1. Queued(Announce(driver.path)) /\ Announce(driver.path) \in AllCommands
        /\ Announce(driver.path).cmd = "PROC_FULL"
    BY <1>1, <1>3, CallbackPath, Entries DEF FullSend, Announce
  <2>2. /\ queue' \in Seq(AllCommands) /\ Len(queue') <= MaxCommands
        /\ \A k : Times(queue', k) = Times(queue, k)
                                     + (IF Announce(driver.path) = k THEN 1 ELSE 0)
        /\ \A k : Times(queue, k) \in Nat
    BY <2>1, QueuedDoes
  <2>3. \A k \in Commands : Times(queue', Request(k)) = Times(queue, Request(k))
    BY <2>1, <2>2, Entries
  <2>4. driver' \in DriverType /\ CallbacksMatch' /\ HandlerMatches'
    BY <1>1, AtRest, Resting, MomAssumption DEF Threads, CallbacksMatch, HandlerMatches
  <2>5. PhasesMatch'
    BY <1>1, AtRest DEF Threads, PhasesMatch
  <2>6. CommandsMatch'
    BY <1>1, <2>3 DEF Threads, CommandsMatch
  <2> QED
    BY <1>1, <2>2, <2>4, <2>5, <2>6 DEF Threads, ThreadsTyped
<1> QED
  BY <1>2, <1>3

-----------------------------------------------------------------------------
(* The client.                                                              *)

LEMMA ClientMoves ==
  ASSUME Threads, client' \in ClientType, PhasesMatch',
         UNCHANGED <<queue, handler, driver, on, user, pending, attached, registered>>,
         alive' \in BOOLEAN, state' = state \/ (state' \in States /\ handler.at = "read")
  PROVE  Threads'
<1>1. CallbacksMatch' /\ CommandsMatch' /\ HandlerMatches'
  BY DEF Threads, CallbacksMatch, CommandsMatch, HandlerMatches
<1> QED
  BY <1>1 DEF Threads, ThreadsTyped

LEMMA CreateStep ==
  ASSUME Threads, MomCtrlInit \/ InitDone
  PROVE  Threads'
<1>1. CASE MomCtrlInit
  <2>1. /\ handler.at = "none" /\ handler.cmd = NoCommand /\ queue = <<>> /\ state = "Invalid"
        /\ driver.at = "idle" /\ user.at = "idle"
    BY <1>1 DEF MomCtrlInit, Threads, PhasesMatch, HandlerMatches
  <2>2. /\ handler' \in HandlerType /\ handler'.at = "read" /\ handler'.cmd = NoCommand
        /\ handler'.buffer = NoBuffer /\ client' \in ClientType /\ client'.at = "init"
        /\ client'.cmd = NoCommand /\ alive'
        /\ UNCHANGED <<state, queue, attached, registered, driver, on, user, pending>>
    BY <1>1, AtRest, Resting DEF MomCtrlInit, hist
  <2>3. HandlerMatches' /\ CommandsMatch' /\ CallbacksMatch' /\ PhasesMatch'
    BY <2>1, <2>2, Entries
    DEF Threads, HandlerMatches, CommandsMatch, CallbacksMatch, PhasesMatch
  <2> QED
    BY <2>2, <2>3 DEF Threads, ThreadsTyped
<1>2. CASE InitDone
  <2>1. /\ client.at = "init" /\ handler.at = "read" /\ alive
    BY <1>2 DEF InitDone, Threads, PhasesMatch
  <2>2. /\ client' \in ClientType /\ client'.at = "idle" /\ client'.cmd = NoCommand
        /\ state' = "Initialize"
        /\ UNCHANGED <<alive, queue, handler, attached, registered, driver, on, user, pending>>
    BY <1>2, AtRest, Resting DEF InitDone, hist
  <2>3. PhasesMatch'
    BY <2>1, <2>2 DEF Threads, PhasesMatch
  <2> QED
    BY <2>1, <2>2, <2>3, ClientMoves DEF States, Threads, ThreadsTyped
<1> QED
  BY <1>1, <1>2

LEMMA EnterStep ==
  ASSUME Threads, MomCtrlStart \/ MomCtrlStop \/ MomCtrlShutDown
  PROVE  Threads'
<1>1. PICK k \in Commands \cup {"SHUTDOWN"} :
        /\ alive /\ client.at = "idle" /\ client' = [at |-> "send", cmd |-> Request(k)]
        /\ UNCHANGED <<ctx, handler, driver, on, user, pending>>
  BY DEF MomCtrlStart, MomCtrlStop, MomCtrlShutDown, Enter, Request, Commands, hist
<1>2. client' \in ClientType /\ client'.at = "send" /\ client'.cmd = Request(k)
  BY <1>1, Entries DEF ClientType
<1>3. PhasesMatch'
  BY <1>1, <1>2 DEF ctx, Threads, PhasesMatch
<1> QED
  BY <1>1, <1>2, <1>3, ClientMoves DEF ctx, Threads, ThreadsTyped

LEMMA SettingStep ==
  ASSUME Threads,
         \/ MomCtrlAttachQueueToPath \/ MomCtrlDetachQueueToPath
         \/ MomCtrlRegisterBufferCb \/ MomCtrlDeRegisterBufferCb \/ MiStart \/ MiStop
  PROVE  Threads'
<1>1. /\ UNCHANGED <<alive, state, queue, client, handler, driver, user, pending>>
      /\ attached' \subseteq Paths /\ registered' \subseteq Paths /\ on' \in BOOLEAN
  BY MomAssumption
  DEF MomCtrlAttachQueueToPath, MomCtrlDetachQueueToPath, MomCtrlRegisterBufferCb,
      MomCtrlDeRegisterBufferCb, MiStart, MiStop, SetAttached, SetRegistered, ctx, threads,
      hist, Threads, ThreadsTyped
<1>2. CallbacksMatch' /\ CommandsMatch' /\ HandlerMatches' /\ PhasesMatch'
  BY <1>1 DEF Threads, CallbacksMatch, CommandsMatch, HandlerMatches, PhasesMatch
<1> QED
  BY <1>1, <1>2 DEF Threads, ThreadsTyped

LEMMA SendStep ==
  ASSUME Threads, MomCtrlSendCommand
  PROVE  Threads'
<1>1. PICK k \in Commands \cup {"SHUTDOWN"} : client.cmd = Request(k)
  BY DEF MomCtrlSendCommand, Threads, PhasesMatch
<1>2. client.cmd \in AllCommands /\ client.cmd.cmd = k /\ Queued(client.cmd)
  BY <1>1, Entries DEF MomCtrlSendCommand
<1>3. /\ queue' \in Seq(AllCommands) /\ Len(queue') <= MaxCommands /\ queue' # <<>>
      /\ \A j : Times(queue', j) = Times(queue, j) + (IF client.cmd = j THEN 1 ELSE 0)
      /\ \A j : Times(queue, j) \in Nat
  BY <1>2, QueuedDoes
<1>4. /\ client.at = "send" /\ alive /\ state # "Invalid" /\ client.cmd.cmd = k
      /\ UNCHANGED <<alive, state, attached, registered, handler, driver, on, user>>
      /\ pending \in [Commands -> Nat]
  BY <1>2 DEF MomCtrlSendCommand, Threads, ThreadsTyped, PhasesMatch
<1>5. /\ client' \in ClientType /\ client'.at \in {"join", "idle"} /\ client'.cmd = NoCommand
  BY AtRest, Resting DEF MomCtrlSendCommand
<1>6. PhasesMatch'
  BY <1>3, <1>4, <1>5 DEF Threads, PhasesMatch
<1>7. pending' \in [Commands -> Nat]
      /\ \A j \in Commands : pending'[j] = pending[j] + (IF k = j THEN 1 ELSE 0)
  <2>1. CASE k = "SHUTDOWN"
    BY <1>4, <2>1, Entries DEF MomCtrlSendCommand
  <2>2. CASE k # "SHUTDOWN"
    <3>1. pending' = [pending EXCEPT ![k] = @ + 1] /\ k \in Commands
      BY <1>4, <2>2 DEF MomCtrlSendCommand
    <3> QED
      BY <1>4, <3>1
  <2> QED
    BY <2>1, <2>2
<1>8. CommandsMatch'
  <2> SUFFICES ASSUME NEW j \in Commands
               PROVE  pending'[j] = Times(queue', Request(j))
                                    + (IF handler.cmd.cmd = j THEN 1 ELSE 0)
    BY <1>4 DEF CommandsMatch
  <2>1. client.cmd = Request(j) <=> k = j
    BY <1>1, <1>2, Entries
  <2>2. /\ Times(queue', Request(j)) = Times(queue, Request(j)) + (IF k = j THEN 1 ELSE 0)
        /\ Times(queue, Request(j)) \in Nat
    BY <1>3, <2>1
  <2>3. pending[j] = Times(queue, Request(j)) + (IF handler.cmd.cmd = j THEN 1 ELSE 0)
    BY DEF Threads, CommandsMatch
  <2>4. pending'[j] = pending[j] + (IF k = j THEN 1 ELSE 0)
    BY <1>7
  <2> QED
    BY <2>2, <2>3, <2>4
<1>9. CallbacksMatch' /\ HandlerMatches'
  BY <1>4 DEF Threads, CallbacksMatch, HandlerMatches
<1> QED
  BY <1>3, <1>4, <1>5, <1>6, <1>7, <1>8, <1>9 DEF Threads, ThreadsTyped

LEMMA JoinStep ==
  ASSUME Threads, Join
  PROVE  Threads'
<1>1. client.at = "join" /\ handler.at = "none"
      /\ UNCHANGED <<ctx, handler, driver, on, user, pending>>
  BY DEF Join, hist
<1>2. client' \in ClientType /\ client'.at = "drain" /\ client'.cmd = NoCommand
  BY AtRest, Resting DEF Join
<1>3. PhasesMatch'
  BY <1>1, <1>2 DEF ctx, Threads, PhasesMatch
<1> QED
  BY <1>1, <1>2, <1>3, ClientMoves DEF ctx, Threads, ThreadsTyped

(***************************************************************************)
(* The client takes what is left out of the queue, and frees the context   *)
(* when nothing is left and nothing pending.                               *)
(***************************************************************************)
DrainOne ==
  /\ client.at = "drain" /\ queue # <<>>
  /\ queue' = Tail(queue)
  /\ pending' = IF Head(queue).cmd \in Commands
                THEN [pending EXCEPT ![Head(queue).cmd] = @ - 1]
                ELSE pending
  /\ UNCHANGED <<alive, state, attached, registered, places, threads, late, missed>>

FreeContext ==
  /\ client.at = "drain" /\ queue = <<>> /\ driver.at = "idle" /\ user.at = "idle"
  /\ alive' = FALSE /\ registered' = {} /\ client' = ClientAt("idle")
  /\ left' = [p \in Paths |-> left[p] \cup InQueues(p)]
  /\ empty' = NoQueue /\ full' = NoQueue
  /\ UNCHANGED <<state, queue, attached, handler, driver, on, user, pool, filling, out,
                 kept, lost, hist>>

LEMMA DrainSplit == Drain => DrainOne \/ FreeContext
BY DEF Drain, DrainOne, FreeContext, places, threads, hist

LEMMA DrainOneStep ==
  ASSUME Threads, DrainOne
  PROVE  Threads' /\ (Head(queue).cmd \in Commands => pending[Head(queue).cmd] > 0)
<1> DEFINE e == Head(queue)
<1>1. /\ handler.at = "none" /\ handler.cmd = NoCommand /\ queue # <<>>
      /\ queue \in Seq(AllCommands) /\ Len(queue) <= MaxCommands /\ MaxCommands \in Nat
      /\ pending \in [Commands -> Nat]
  BY MomAssumption DEF DrainOne, Threads, ThreadsTyped, PhasesMatch, HandlerMatches
<1>2. /\ e \in AllCommands /\ Tail(queue) \in Seq(AllCommands)
      /\ Len(Tail(queue)) = Len(queue) - 1 /\ Len(queue) \in Nat
  BY <1>1, HeadTailProperties
<1>3. \A k \in Commands : Times(queue, Request(k)) = Times(Tail(queue), Request(k))
                                                     + (IF e = Request(k) THEN 1 ELSE 0)
  BY <1>1, TimesTail
<1>4. \A k \in Commands : Times(Tail(queue), Request(k)) \in Nat
  BY <1>2, TimesNat
<1>5. \A k \in Commands : pending[k] = Times(Tail(queue), Request(k))
                                       + (IF e.cmd = k THEN 1 ELSE 0)
  BY <1>1, <1>2, <1>3, <1>4, Entries DEF Threads, CommandsMatch
<1>6. /\ queue' = Tail(queue)
      /\ pending' = IF e.cmd \in Commands THEN [pending EXCEPT ![e.cmd] = @ - 1] ELSE pending
      /\ UNCHANGED <<alive, state, attached, registered, threads>>
  BY DEF DrainOne
<1> HIDE DEF e
<1>7. pending' \in [Commands -> Nat]
      /\ \A k \in Commands : pending'[k] = Times(Tail(queue), Request(k))
  BY <1>1, <1>4, <1>5, <1>6
<1>8. CommandsMatch'
  BY <1>1, <1>4, <1>6, <1>7, Entries DEF CommandsMatch, threads
<1>9. CallbacksMatch' /\ HandlerMatches' /\ PhasesMatch'
  BY <1>1, <1>6 DEF threads, DrainOne, Threads, CallbacksMatch, HandlerMatches, PhasesMatch
<1>10. e.cmd \in Commands => pending[e.cmd] > 0
  BY <1>4, <1>5
<1> QED
  BY <1>1, <1>2, <1>6, <1>7, <1>8, <1>9, <1>10 DEF e, threads, Threads, ThreadsTyped

LEMMA FreeStep ==
  ASSUME Threads, FreeContext
  PROVE  Threads' /\ NothingPending
<1>1. /\ handler.at = "none" /\ handler.cmd = NoCommand /\ queue = <<>>
      /\ driver.at = "idle" /\ user.at = "idle"
  BY DEF FreeContext, Threads, PhasesMatch, HandlerMatches
<1>2. NothingPending
  <2>1. ASSUME NEW k \in Commands PROVE pending[k] = 0
    <3>1. pending[k] = Times(queue, Request(k)) + (IF handler.cmd.cmd = k THEN 1 ELSE 0)
      BY DEF Threads, CommandsMatch
    <3>2. Times(queue, Request(k)) = 0
      BY <1>1, TimesEmpty
    <3>3. handler.cmd.cmd # k
      BY <1>1, Entries
    <3> QED
      BY <3>1, <3>2, <3>3
  <2> QED
    BY <2>1 DEF NothingPending
<1>3. /\ alive' = FALSE /\ registered' = {} /\ client' \in ClientType /\ client'.at = "idle"
      /\ client'.cmd = NoCommand
      /\ UNCHANGED <<state, queue, attached, handler, driver, on, user, pending>>
  BY AtRest, Resting DEF FreeContext, hist
<1>4. CallbacksMatch' /\ CommandsMatch' /\ HandlerMatches' /\ PhasesMatch'
  BY <1>1, <1>3 DEF Threads, CallbacksMatch, CommandsMatch, HandlerMatches, PhasesMatch
<1> QED
  BY <1>2, <1>3, <1>4 DEF Threads, ThreadsTyped

-----------------------------------------------------------------------------
(* The steps that move buffers keep the types of the places.                *)

LEMMA PlacesStay ==
  ASSUME PlacesTyped, UNCHANGED <<places, late, missed>>
  PROVE  PlacesTyped'
BY DEF PlacesTyped, places

LEMMA FreedDoes ==
  ASSUME PlacesTyped, NEW p \in Paths, NEW b \in Buffers, Freed(p, b)
  PROVE  /\ pool' \in [Paths -> SUBSET Buffers] /\ missed' \in [Paths -> Nat]
         /\ \A q \in Paths : pool'[q] = IF q = p THEN pool[q] \cup {b} ELSE pool[q]
         /\ \A q \in Paths : missed'[q] = IF q = p /\ handler.at = "fill" /\ p <= handler.path
                                          THEN missed[q] + 1 ELSE missed[q]
<1>1. /\ pool' = [pool EXCEPT ![p] = @ \cup {b}]
      /\ pool \in [Paths -> SUBSET Buffers] /\ missed \in [Paths -> Nat]
  BY DEF Freed, PlacesTyped
<1>2. /\ pool' \in [Paths -> SUBSET Buffers]
      /\ \A q \in Paths : pool'[q] = IF q = p THEN pool[q] \cup {b} ELSE pool[q]
  BY <1>1
<1> DEFINE Behind == handler.at = "fill" /\ p <= handler.path
<1>3. missed' = IF Behind THEN [missed EXCEPT ![p] = @ + 1] ELSE missed
  BY DEF Freed
<1> HIDE DEF Behind
<1>4. /\ missed' \in [Paths -> Nat]
      /\ \A q \in Paths : missed'[q] = IF q = p /\ Behind THEN missed[q] + 1 ELSE missed[q]
  BY <1>1, <1>3
<1> QED
  BY <1>2, <1>4 DEF Behind

(***************************************************************************)
(* The queue of path p loses its head, or has a buffer put behind it.      *)
(***************************************************************************)
LEMMA TailDoes ==
  ASSUME NEW f \in [Paths -> Seq(Buffers)], NEW g, NEW p \in Paths, f[p] # <<>>,
         g = [f EXCEPT ![p] = Tail(f[p])]
  PROVE  /\ Head(f[p]) \in Buffers /\ g \in [Paths -> Seq(Buffers)]
         /\ Len(g[p]) = Len(f[p]) - 1 /\ Len(f[p]) \in Nat
         /\ \A q \in Paths \ {p} : g[q] = f[q]
<1>1. f[p] \in Seq(Buffers)
  OBVIOUS
<1>2. Head(f[p]) \in Buffers /\ Tail(f[p]) \in Seq(Buffers)
      /\ Len(Tail(f[p])) = Len(f[p]) - 1 /\ Len(f[p]) \in Nat
  BY <1>1, HeadTailProperties
<1>3. g \in [Paths -> Seq(Buffers)] /\ g[p] = Tail(f[p]) /\ \A q \in Paths \ {p} : g[q] = f[q]
  BY <1>2
<1> QED
  BY <1>2, <1>3

LEMMA AppendDoes ==
  ASSUME NEW f \in [Paths -> Seq(Buffers)], NEW g, NEW p \in Paths, NEW b \in Buffers,
         g = [f EXCEPT ![p] = Append(f[p], b)]
  PROVE  /\ g \in [Paths -> Seq(Buffers)]
         /\ Len(g[p]) = Len(f[p]) + 1 /\ Len(f[p]) \in Nat
         /\ \A q \in Paths \ {p} : g[q] = f[q]
<1>1. f[p] \in Seq(Buffers)
  OBVIOUS
<1>2. Append(f[p], b) \in Seq(Buffers) /\ Len(Append(f[p], b)) = Len(f[p]) + 1
      /\ Len(f[p]) \in Nat
  BY <1>1, AppendProperties
<1>3. g \in [Paths -> Seq(Buffers)] /\ g[p] = Append(f[p], b)
      /\ \A q \in Paths \ {p} : g[q] = f[q]
  BY <1>2
<1> QED
  BY <1>2, <1>3

LEMMA RefillTyped ==
  ASSUME PlacesTyped, NEW p \in Paths, Refill(p)
  PROVE  PlacesTyped'
<1>1. CASE UNCHANGED <<pool, empty, late>>
  BY <1>1 DEF Refill, PlacesTyped
<1>2. CASE ~UNCHANGED <<pool, empty, late>>
  <2>1. PICK b \in pool[p] :
          /\ pool' = [pool EXCEPT ![p] = @ \ {b}]
          /\ empty' = [empty EXCEPT ![p] = Append(@, b)]
          /\ late' = IF state = "Running" THEN late ELSE [late EXCEPT ![p] = @ \cup {b}]
    BY <1>2 DEF Refill
  <2>2. b \in Buffers
    BY DEF PlacesTyped
  <2>3. empty' \in [Paths -> Seq(Buffers)]
    BY <2>1, <2>2, AppendDoes DEF PlacesTyped
  <2> QED
    BY <2>1, <2>2, <2>3 DEF Refill, PlacesTyped
<1> QED
  BY <1>1, <1>2

LEMMA HandlerPlaces ==
  ASSUME Threads, PlacesTyped, Handler
  PROVE  PlacesTyped'
<1> DEFINE p == handler.path
<1>1. CASE FillOne
  <2>1. CASE UNCHANGED <<pool, empty>>
    BY <1>1, <2>1 DEF FillOne, PlacesTyped, hist
  <2>2. CASE ~UNCHANGED <<pool, empty>>
    <3>1. PICK b \in pool[p] : /\ pool' = [pool EXCEPT ![p] = @ \ {b}]
                               /\ empty' = [empty EXCEPT ![p] = Append(@, b)]
      BY <1>1, <2>2 DEF FillOne
    <3>2. p \in Paths /\ b \in Buffers
      BY <1>1 DEF FillOne, PlacesTyped
    <3>3. empty' \in [Paths -> Seq(Buffers)]
      BY <3>1, <3>2, AppendDoes DEF PlacesTyped
    <3> QED
      BY <1>1, <3>1, <3>2, <3>3 DEF FillOne, PlacesTyped, hist
  <2> QED
    BY <2>1, <2>2
<1>2. CASE FlushFull
  <2>1. p \in Paths
    BY <1>2 DEF FlushFull, Threads, HandlerMatches
  <2>2. CASE full[p] = <<>>
    BY <1>2, <2>2 DEF FlushFull, PlacesTyped
  <2>3. CASE full[p] # <<>>
    <3>0. full' = [full EXCEPT ![p] = Tail(full[p])] /\ full \in [Paths -> Seq(Buffers)]
      BY <1>2, <2>3 DEF FlushFull, PlacesTyped
    <3>1. Head(full[p]) \in Buffers /\ full' \in [Paths -> Seq(Buffers)]
      BY <2>1, <2>3, <3>0, TailDoes
    <3>2. pool' \in [Paths -> SUBSET Buffers] /\ missed' \in [Paths -> Nat]
      BY <1>2, <2>1, <2>3, <3>1, FreedDoes DEF FlushFull
    <3> QED
      BY <1>2, <3>1, <3>2 DEF FlushFull, PlacesTyped
  <2> QED
    BY <2>2, <2>3
<1>3. CASE FlushEmpty
  <2>1. p \in Paths
    BY <1>3 DEF FlushEmpty, Threads, HandlerMatches
  <2>2. CASE empty[p] = <<>>
    BY <1>3, <2>2 DEF FlushEmpty, PlacesTyped
  <2>3. CASE empty[p] # <<>>
    <3>0. empty' = [empty EXCEPT ![p] = Tail(empty[p])] /\ empty \in [Paths -> Seq(Buffers)]
      BY <1>3, <2>3 DEF FlushEmpty, PlacesTyped
    <3>1. Head(empty[p]) \in Buffers /\ empty' \in [Paths -> Seq(Buffers)]
      BY <2>1, <2>3, <3>0, TailDoes
    <3>2. pool' \in [Paths -> SUBSET Buffers] /\ missed' \in [Paths -> Nat]
      BY <1>3, <2>1, <2>3, <3>1, FreedDoes DEF FlushEmpty
    <3> QED
      BY <1>3, <3>1, <3>2 DEF FlushEmpty, PlacesTyped
  <2> QED
    BY <2>2, <2>3
<1>4. CASE HandleFull
  <2>1. handler.cmd.cmd = "PROC_FULL" /\ handler.cmd \in AllCommands
    BY <1>4, Executing DEF HandleFull
  <2>2. p \in Paths
    BY <2>1, Entries DEF Threads, HandlerMatches
  <2>3. CASE full[p] = <<>>
    BY <1>4, <2>3 DEF HandleFull, PlacesTyped, hist
  <2>4. CASE full[p] # <<>>
    <3>0. full' = [full EXCEPT ![p] = Tail(full[p])] /\ full \in [Paths -> Seq(Buffers)]
      BY <1>4, <2>4 DEF HandleFull, PlacesTyped
    <3>1. full' \in [Paths -> Seq(Buffers)]
      BY <2>2, <2>4, <3>0, TailDoes
    <3> QED
      BY <1>4, <3>1 DEF HandleFull, PlacesTyped, hist
  <2> QED
    BY <2>3, <2>4
<1>5. CASE LockPath
  <2>1. p \in Paths /\ handler.buffer \in Buffers
    BY <1>5, FullInHand DEF LockPath
  <2>2. lost' = lost \/ lost' = [lost EXCEPT ![p] = @ \cup {handler.buffer}]
    BY <1>5 DEF LockPath
  <2>3. lost' \in [Paths -> SUBSET Buffers]
    <3>1. lost \in [Paths -> SUBSET Buffers]
      BY DEF PlacesTyped
    <3> HIDE DEF p
    <3> QED
      BY <2>1, <2>2, <3>1
  <2> QED
    BY <1>5, <2>3 DEF LockPath, PlacesTyped, hist
<1>6. CASE AddToMediaBufferQueue
  <2>1. p \in Paths /\ handler.buffer \in Buffers
    BY <1>6, FullInHand DEF AddToMediaBufferQueue
  <2>2. out' \in [Paths -> Seq(Buffers)]
    BY <1>6, <2>1, AppendDoes DEF AddToMediaBufferQueue, PlacesTyped
  <2> QED
    BY <1>6, <2>2 DEF AddToMediaBufferQueue, PlacesTyped, hist
<1>7. CASE CallBufferCb
  <2>1. p \in Paths /\ handler.buffer \in Buffers
    BY <1>7, FullInHand DEF CallBufferCb
  <2>2. CASE Freed(p, handler.buffer) /\ UNCHANGED kept
    BY <1>7, <2>1, <2>2, FreedDoes DEF CallBufferCb, PlacesTyped
  <2>3. CASE kept' = [kept EXCEPT ![p] = @ \cup {handler.buffer}] /\ UNCHANGED <<pool, missed>>
    BY <1>7, <2>1, <2>3 DEF CallBufferCb, PlacesTyped
  <2> QED
    BY <1>7, <2>2, <2>3 DEF CallBufferCb
<1>8. CASE HandlerRefill
  BY <1>8, FullInHand, RefillTyped DEF HandlerRefill
<1>9. CASE HandleStart
  BY <1>9 DEF HandleStart, PlacesTyped, places
<1>10. CASE HandleStop
  BY <1>10 DEF HandleStop, PlacesTyped, places, NoBuffers
<1>11. CASE \/ HandlerRead \/ FillNext \/ HandleStarted \/ HandleWrongState \/ HandleShutDown
            \/ HandlerComplete
  BY <1>11, PlacesStay
  DEF HandlerRead, FillNext, HandleStarted, HandleWrongState, HandleShutDown,
      HandlerComplete, hist
<1> QED
  BY <1>1, <1>2, <1>3, <1>4, <1>5, <1>6, <1>7, <1>8, <1>9, <1>10, <1>11 DEF Handler

LEMMA IgnoredTyped ==
  ASSUME PlacesTyped, NEW p \in Paths, DriverEvent(p)
  PROVE  /\ Head(filling[p]) \in Buffers /\ filling' \in [Paths -> Seq(Buffers)]
         /\ EventIgnored(p) => lost' \in [Paths -> SUBSET Buffers] /\ UNCHANGED <<pool, missed>>
<1>1. /\ filling' = [filling EXCEPT ![p] = Tail(filling[p])] /\ filling[p] # <<>>
      /\ filling \in [Paths -> Seq(Buffers)]
  BY DEF DriverEvent, PlacesTyped
<1>2. Head(filling[p]) \in Buffers /\ filling' \in [Paths -> Seq(Buffers)]
  BY <1>1, TailDoes
<1>3. EventIgnored(p) => lost' = [lost EXCEPT ![p] = @ \cup {Head(filling[p])}]
                         /\ UNCHANGED <<pool, missed>>
  BY DEF EventIgnored
<1>4. lost \in [Paths -> SUBSET Buffers]
  BY DEF PlacesTyped
<1> QED
  BY <1>2, <1>3, <1>4

LEMMA DriverPlaces ==
  ASSUME Threads, PlacesTyped, Driver
  PROVE  PlacesTyped'
<1> DEFINE p == driver.path
<1>1. CASE RequestTake
  <2>1. p \in Paths
    BY <1>1, CallbackPath DEF RequestTake
  <2>2. CASE empty[p] = <<>>
    BY <1>1, <2>2 DEF RequestTake, PlacesTyped, hist
  <2>3. CASE empty[p] # <<>>
    <3>0. /\ empty' = [empty EXCEPT ![p] = Tail(empty[p])]
          /\ filling' = [filling EXCEPT ![p] = Append(filling[p], Head(empty[p]))]
          /\ empty \in [Paths -> Seq(Buffers)] /\ filling \in [Paths -> Seq(Buffers)]
      BY <1>1, <2>3 DEF RequestTake, PlacesTyped
    <3>1. Head(empty[p]) \in Buffers /\ empty' \in [Paths -> Seq(Buffers)]
      BY <2>1, <2>3, <3>0, TailDoes
    <3>2. filling' \in [Paths -> Seq(Buffers)]
      BY <2>1, <3>0, <3>1, AppendDoes
    <3> QED
      BY <1>1, <3>1, <3>2 DEF RequestTake, PlacesTyped, hist
  <2> QED
    BY <2>2, <2>3
<1>2. CASE FullWrite
  <2>1. p \in Paths /\ driver.buffer \in Buffers
    BY <1>2, CallbackPath DEF FullWrite
  <2>2. full' \in [Paths -> Seq(Buffers)]
    BY <1>2, <2>1, AppendDoes DEF FullWrite, PlacesTyped
  <2>3. late' \in [Paths -> SUBSET Buffers]
    BY <1>2, <2>1 DEF FullWrite, PlacesTyped
  <2> QED
    BY <1>2, <2>2, <2>3 DEF FullWrite, PlacesTyped
<1>3. CASE DriverRefill
  BY <1>3, CallbackPath, RefillTyped DEF DriverRefill
<1>4. CASE FullEvent \/ FlushedEvent
  <2>1. PICK q \in Paths :
          /\ DriverEvent(q) /\ (EventIgnored(q) \/ UNCHANGED <<pool, lost, missed>>)
          /\ UNCHANGED <<empty, full, out, kept, left, late>>
    BY <1>4 DEF FullEvent, FlushedEvent
  <2> QED
    BY <2>1, IgnoredTyped DEF PlacesTyped
<1>5. CASE FlushedFree
  BY <1>5, CallbackPath, FreedDoes DEF FlushedFree, PlacesTyped
<1>6. CASE MomCtrlCamerIcDrvRequestCb \/ FullSend \/ DriverNotify
  BY <1>6, PlacesStay DEF MomCtrlCamerIcDrvRequestCb, FullSend, DriverNotify, hist
<1> QED
  BY <1>1, <1>2, <1>3, <1>4, <1>5, <1>6 DEF Driver, DriverCallback

LEMMA UserPlaces ==
  ASSUME Threads, PlacesTyped, User
  PROVE  PlacesTyped'
<1>1. CASE UserFrees
  <2>1. PICK p \in Paths :
          \/ /\ out[p] # <<>> /\ out' = [out EXCEPT ![p] = Tail(@)]
             /\ Freed(p, Head(out[p])) /\ UNCHANGED kept
          \/ \E b \in kept[p] : /\ kept' = [kept EXCEPT ![p] = @ \ {b}]
                                /\ Freed(p, b) /\ UNCHANGED out
    BY <1>1 DEF UserFrees
  <2>2. UNCHANGED <<empty, full, filling, lost, left, late>>
    BY <1>1 DEF UserFrees
  <2>3. CASE /\ out[p] # <<>> /\ out' = [out EXCEPT ![p] = Tail(@)]
             /\ Freed(p, Head(out[p])) /\ UNCHANGED kept
    <3>1. Head(out[p]) \in Buffers /\ out' \in [Paths -> Seq(Buffers)]
      BY <2>3, TailDoes DEF PlacesTyped
    <3> QED
      BY <2>2, <2>3, <3>1, FreedDoes DEF PlacesTyped
  <2>4. ASSUME NEW b \in kept[p], kept' = [kept EXCEPT ![p] = @ \ {b}],
               Freed(p, b), UNCHANGED out
        PROVE  PlacesTyped'
    <3>1. b \in Buffers
      BY <2>4 DEF PlacesTyped
    <3> QED
      BY <2>2, <2>4, <3>1, FreedDoes DEF PlacesTyped
  <2> QED
    BY <2>1, <2>3, <2>4
<1>2. CASE UserRefill
  BY <1>2, CallbackPath, RefillTyped DEF UserRefill
<1>3. CASE UserNotify
  BY <1>3, PlacesStay DEF UserNotify, hist
<1> QED
  BY <1>1, <1>2, <1>3 DEF User

LEMMA ClientPlaces ==
  ASSUME PlacesTyped, ClientCalls \/ Client
  PROVE  PlacesTyped'
<1>1. CASE FreeContext
  <2>1. \A p \in Paths : InQueues(p) \subseteq Buffers
    <3> SUFFICES ASSUME NEW p \in Paths, NEW b \in InQueues(p) PROVE b \in Buffers
      OBVIOUS
    <3>1. empty[p] \in Seq(Buffers) /\ full[p] \in Seq(Buffers)
      BY DEF PlacesTyped
    <3> QED
      BY <3>1 DEF InQueues, ToSet
  <2> QED
    BY <1>1, <2>1 DEF FreeContext, PlacesTyped, NoQueue, hist
<1>2. CASE ClientCalls \/ InitDone \/ MomCtrlSendCommand \/ Join \/ DrainOne
  <2>1. CASE ClientCalls
    BY <2>1, PlacesStay
    DEF ClientCalls, MomCtrlInit, MomCtrlStart, MomCtrlStop, MomCtrlShutDown, Enter,
        MomCtrlAttachQueueToPath, MomCtrlDetachQueueToPath, MomCtrlRegisterBufferCb,
        MomCtrlDeRegisterBufferCb, MiStart, MiStop, SetAttached, SetRegistered, hist
  <2>2. CASE InitDone \/ MomCtrlSendCommand \/ Join \/ DrainOne
    BY <2>2, PlacesStay DEF InitDone, MomCtrlSendCommand, Join, DrainOne, hist
  <2> QED
    BY <1>2, <2>1, <2>2
<1> QED
  BY <1>1, <1>2, DrainSplit DEF Client

-----------------------------------------------------------------------------
(* The threads and the places keep their types, and the threads match.      *)

Control == Threads /\ PlacesTyped

LEMMA InitControl == Init => Control
<1> SUFFICES ASSUME Init PROVE Control
  OBVIOUS
<1>1. PlacesTyped
  BY DEF Init, PlacesTyped, NoQueue, NoBuffers
<1>2. ThreadsTyped
  <2>1. queue = <<>> /\ Len(<<>>) = 0 /\ <<>> \in Seq(AllCommands) /\ MaxCommands \in Nat
    BY MomAssumption DEF Init
  <2>2. pending \in [Commands -> Nat]
    BY DEF Init
  <2>3. /\ client \in ClientType /\ handler \in HandlerType /\ driver \in DriverType
        /\ user \in UserType
    BY Resting DEF Init
  <2>4. /\ alive \in BOOLEAN /\ on \in BOOLEAN /\ state \in States
        /\ attached \subseteq Paths /\ registered \subseteq Paths
    BY DEF Init, States
  <2>5. queue \in Seq(AllCommands) /\ Len(queue) <= MaxCommands
    BY <2>1
  <2> QED
    BY <2>2, <2>3, <2>4, <2>5 DEF ThreadsTyped
<1>3. /\ handler.at = "none" /\ handler.cmd = NoCommand /\ handler.buffer = NoBuffer
      /\ client.at = "idle" /\ client.cmd = NoCommand /\ queue = <<>>
      /\ driver = NoCallback /\ user = NoCallback /\ state = "Invalid" /\ ~alive
  BY AtRest DEF Init
<1>4. HandlerMatches /\ CallbacksMatch /\ PhasesMatch
  BY <1>3, AtRest, Entries, MomAssumption DEF HandlerMatches, CallbacksMatch, PhasesMatch
<1>5. CommandsMatch
  <2> SUFFICES ASSUME NEW k \in Commands
               PROVE  pending[k] = Times(queue, Request(k))
                                   + (IF handler.cmd.cmd = k THEN 1 ELSE 0)
    BY DEF CommandsMatch
  <2>1. pending[k] = 0 /\ handler.cmd.cmd # k
    BY <1>3, Entries DEF Init
  <2>2. Times(queue, Request(k)) = 0
    BY <1>3, TimesEmpty
  <2> QED
    BY <2>1, <2>2
<1> QED
  BY <1>1, <1>2, <1>4, <1>5 DEF Control, Threads

LEMMA StepControl == Control /\ [Next]_vars => Control'
<1> SUFFICES ASSUME Threads, PlacesTyped, [Next]_vars PROVE Threads' /\ PlacesTyped'
  BY DEF Control
<1>1. CASE ClientCalls
  BY <1>1, ClientPlaces, CreateStep, EnterStep, SettingStep DEF ClientCalls
<1>2. CASE Client
  BY <1>2, ClientPlaces, CreateStep, SendStep, JoinStep, DrainSplit, DrainOneStep, FreeStep
  DEF Client
<1>3. CASE Handler
  BY <1>3, HandlerPlaces, ReadStep, StartStep, StopStep, FullStep, RefuseStep, ShutDownStep,
     CompleteStep DEF Handler
<1>4. CASE Driver
  BY <1>4, DriverPlaces, DriverStep, AnnounceStep DEF Driver, DriverCallback
<1>5. CASE User
  BY <1>5, UserPlaces, UserStep DEF User
<1>6. CASE UNCHANGED vars
  BY <1>6, ThreadsStay, PlacesStay DEF vars, hist
<1> QED
  BY <1>1, <1>2, <1>3, <1>4, <1>5, <1>6 DEF Next

THEOREM Controlled == Spec => []Control
<1>1. Control /\ [Next]_vars => Control'
  BY StepControl
<1> QED
  BY <1>1, InitControl, PTL DEF Spec

(***************************************************************************)
(* The state of the control is what its comments say.                      *)
(***************************************************************************)
THEOREM TypeCorrect == Spec => []TypeOK
<1>1. Control => TypeOK
  BY TypeParts DEF Control, Threads
<1> QED
  BY <1>1, Controlled, PTL

-----------------------------------------------------------------------------
(* The control as a command service.                                        *)

LEMMA StepServes ==
  Control /\ [Next]_vars => [Service!ServiceNext]_(Service!serviceVars)
<1> SUFFICES ASSUME Control, [Next]_vars
             PROVE  [Service!ServiceNext]_(Service!serviceVars)
  OBVIOUS
<1> USE DEF Service!ServiceNext, Service!serviceVars
<1>0. pending \in [Commands -> Nat] /\ Threads
  BY DEF Control, Threads, ThreadsTyped
<1>1. CASE MomCtrlInit
  BY <1>1 DEF MomCtrlInit, hist, Service!Open
<1>2. CASE \/ InitDone \/ Join \/ MomCtrlStart \/ MomCtrlStop \/ MomCtrlShutDown
           \/ MomCtrlAttachQueueToPath \/ MomCtrlDetachQueueToPath
           \/ MomCtrlRegisterBufferCb \/ MomCtrlDeRegisterBufferCb \/ MiStart \/ MiStop
  BY <1>2
  DEF InitDone, Join, MomCtrlStart, MomCtrlStop, MomCtrlShutDown, Enter,
      MomCtrlAttachQueueToPath, MomCtrlDetachQueueToPath, MomCtrlRegisterBufferCb,
      MomCtrlDeRegisterBufferCb, MiStart, MiStop, SetAttached, SetRegistered, ctx, hist
<1>3. CASE MomCtrlSendCommand
  <2>1. CASE client.cmd.cmd = "SHUTDOWN"
    BY <1>3, <2>1 DEF MomCtrlSendCommand
  <2>2. CASE client.cmd.cmd # "SHUTDOWN"
    <3>1. client.cmd.cmd \in Commands /\ alive
      BY <1>0, <1>3, <2>2, Entries DEF MomCtrlSendCommand, Threads, PhasesMatch
    <3>2. pending' = [pending EXCEPT ![client.cmd.cmd] = @ + 1] /\ UNCHANGED alive
      BY <1>3, <2>2 DEF MomCtrlSendCommand
    <3>3. Service!Accept(client.cmd.cmd)
      BY <3>1, <3>2 DEF Service!Accept
    <3> QED
      BY <3>1, <3>3
  <2> QED
    BY <2>1, <2>2
<1>4. CASE DrainOne
  <2>1. CASE Head(queue).cmd \in Commands
    <3>1. /\ pending[Head(queue).cmd] > 0 /\ UNCHANGED alive
          /\ pending' = [pending EXCEPT ![Head(queue).cmd] = @ - 1]
      BY <1>0, <1>4, <2>1, DrainOneStep DEF DrainOne
    <3>2. Service!Answer(Head(queue).cmd)
      BY <3>1 DEF Service!Answer
    <3> QED
      BY <2>1, <3>2
  <2>2. CASE Head(queue).cmd \notin Commands
    BY <1>4, <2>2 DEF DrainOne
  <2> QED
    BY <2>1, <2>2
<1>5. CASE FreeContext
  <2>1. alive' = FALSE /\ alive /\ NothingPending /\ UNCHANGED pending
    BY <1>0, <1>5, FreeStep DEF FreeContext, hist, Threads, PhasesMatch
  <2>2. pending = [c \in Commands |-> 0]
    BY <1>0, <2>1 DEF NothingPending
  <2> QED
    BY <2>1, <2>2 DEF Service!Close, Service!Idle
<1>6. CASE HandlerComplete
  <2>1. CASE handler.cmd.cmd \in Commands
    <3>1. /\ pending[handler.cmd.cmd] > 0 /\ UNCHANGED alive
          /\ pending' = [pending EXCEPT ![handler.cmd.cmd] = @ - 1]
      BY <1>0, <1>6, <2>1, CompleteStep DEF HandlerComplete, ctx
    <3>2. Service!Answer(handler.cmd.cmd)
      BY <3>1 DEF Service!Answer
    <3> QED
      BY <2>1, <3>2
  <2>2. CASE handler.cmd.cmd \notin Commands
    BY <1>6, <2>2 DEF HandlerComplete, ctx
  <2> QED
    BY <2>1, <2>2
<1>7. CASE \/ HandlerRead \/ HandleStart \/ FillOne \/ FillNext \/ HandleStarted
           \/ HandleStop \/ FlushFull \/ FlushEmpty \/ HandleWrongState \/ HandleShutDown
  BY <1>7
  DEF HandlerRead, HandleStart, FillOne, FillNext, HandleStarted, HandleStop, FlushFull,
      FlushEmpty, HandleWrongState, HandleShutDown, ctx, hist
<1>8. CASE \/ HandleFull \/ LockPath \/ AddToMediaBufferQueue \/ CallBufferCb \/ HandlerRefill
  BY <1>8
  DEF HandleFull, LockPath, AddToMediaBufferQueue, CallBufferCb, HandlerRefill, Refill,
      ctx, hist
<1>9. CASE Driver \/ User
  BY <1>9
  DEF Driver, DriverCallback, MomCtrlCamerIcDrvRequestCb, RequestTake, FullEvent, FullWrite,
      FullSend, FlushedEvent, FlushedFree, DriverNotify, DriverRefill, Refill, User, UserFrees,
      UserNotify, UserRefill, ctx, hist
<1>10. CASE UNCHANGED vars
  BY <1>10 DEF vars, ctx, hist
<1> QED
  BY <1>1, <1>2, <1>3, <1>4, <1>5, <1>6, <1>7, <1>8, <1>9, <1>10, DrainSplit
  DEF Next, ClientCalls, Client, Handler

(***************************************************************************)
(* The control is a command service, step by step, though the driver and   *)
(* the users go on during START and STOP: an accepted START or STOP is     *)
(* answered once, and the context goes when all are answered.              *)
(***************************************************************************)
THEOREM Serves ==
  Spec => Service!ServiceInit /\ [][Service!ServiceNext]_(Service!serviceVars)
<1>1. Init => Service!ServiceInit
  BY DEF Init, Service!ServiceInit, Service!Idle
<1> QED
  BY <1>1, StepServes, Controlled, PTL DEF Spec

-----------------------------------------------------------------------------
(* What a STOP leaves in the queues.                                        *)

LEMMA SetOfEmpty == ToSet(<<>>) = {}
BY DEF ToSet

LEMMA SetOfAppend ==
  ASSUME NEW S, NEW q \in Seq(S), NEW b \in S
  PROVE  ToSet(Append(q, b)) \subseteq ToSet(q) \cup {b}
<1>1. /\ Len(q) \in Nat /\ DOMAIN q = 1 .. Len(q)
      /\ DOMAIN Append(q, b) = 1 .. Len(q) + 1 /\ Append(q, b)[Len(q) + 1] = b
      /\ \A i \in 1 .. Len(q) : Append(q, b)[i] = q[i]
  BY AppendProperties
<1> QED
  BY <1>1 DEF ToSet

LEMMA SetOfTail ==
  ASSUME NEW S, NEW q \in Seq(S), q # <<>>
  PROVE  ToSet(Tail(q)) \subseteq ToSet(q)
<1>1. /\ Len(q) \in Nat /\ DOMAIN q = 1 .. Len(q) /\ DOMAIN Tail(q) = 1 .. Len(q) - 1
      /\ \A i \in 1 .. Len(q) - 1 : Tail(q)[i] = q[i + 1]
  BY HeadTailProperties
<1> SUFFICES ASSUME NEW i \in 1 .. Len(q) - 1 PROVE Tail(q)[i] \in ToSet(q)
  BY <1>1 DEF ToSet
<1>2. i + 1 \in DOMAIN q /\ Tail(q)[i] = q[i + 1]
  BY <1>1
<1> QED
  BY <1>2 DEF ToSet

(***************************************************************************)
(* The queues may get late buffers, and lose others.                       *)
(***************************************************************************)
GrowLate ==
  \A p \in Paths :
    /\ late[p] \subseteq late'[p]
    /\ ToSet(full'[p]) \subseteq ToSet(full[p]) \cup late'[p]
    /\ ToSet(empty'[p]) \subseteq ToSet(empty[p]) \cup late'[p]

LEMMA FlushedKept ==
  ASSUME Flushed, GrowLate,
         state' = "Stopped" => state = "Stopped",
         handler.at = "fill" => handler'.at = "fill" \/ state' # "Stopped",
         UNCHANGED handler \/ handler.at \notin {"flushFull", "flushEmpty"}
  PROVE  Flushed'
<1> SUFFICES ASSUME state' = "Stopped", handler'.at # "fill", NEW p \in Paths
             PROVE  /\ FullFlushed(p)' => ToSet(full'[p]) \subseteq late'[p]
                    /\ EmptyFlushed(p)' => ToSet(empty'[p]) \subseteq late'[p]
  BY DEF Flushed
<1>1. FullFlushed(p)' => FullFlushed(p)
  BY DEF FullFlushed
<1>2. EmptyFlushed(p)' => EmptyFlushed(p)
  BY DEF EmptyFlushed
<1> QED
  BY <1>1, <1>2 DEF Flushed, GrowLate

LEMMA NothingGrows ==
  ASSUME UNCHANGED <<empty, full, late>>
  PROVE  GrowLate
BY DEF GrowLate

(***************************************************************************)
(* A refill outside of state Running queues a late buffer; while the       *)
(* control runs, nothing is claimed.                                       *)
(***************************************************************************)
LEMMA RefillGrows ==
  ASSUME PlacesTyped, NEW p \in Paths, Refill(p), state # "Running"
  PROVE  GrowLate
<1>1. CASE UNCHANGED <<empty, late>>
  BY <1>1, NothingGrows DEF Refill
<1>2. CASE ~UNCHANGED <<empty, late>>
  <2>1. PICK b \in pool[p] : /\ empty' = [empty EXCEPT ![p] = Append(@, b)]
                             /\ late' = [late EXCEPT ![p] = @ \cup {b}]
    BY <1>2 DEF Refill
  <2>2. /\ b \in Buffers /\ empty[p] \in Seq(Buffers) /\ empty \in [Paths -> Seq(Buffers)]
        /\ late \in [Paths -> SUBSET Buffers] /\ UNCHANGED full
    BY DEF Refill, PlacesTyped
  <2>3. ToSet(Append(empty[p], b)) \subseteq ToSet(empty[p]) \cup {b}
    BY <2>2, SetOfAppend
  <2> QED
    BY <2>1, <2>2, <2>3 DEF GrowLate
<1> QED
  BY <1>1, <1>2

LEMMA EmptyTakenGrows ==
  ASSUME PlacesTyped, NEW p \in Paths, empty[p] # <<>>,
         empty' = [empty EXCEPT ![p] = Tail(@)], UNCHANGED <<full, late>>
  PROVE  GrowLate
<1>1. ToSet(Tail(empty[p])) \subseteq ToSet(empty[p]) /\ empty \in [Paths -> Seq(Buffers)]
  BY SetOfTail DEF PlacesTyped
<1> QED
  BY <1>1 DEF GrowLate

LEMMA FullTakenGrows ==
  ASSUME PlacesTyped, NEW p \in Paths, full[p] # <<>>,
         full' = [full EXCEPT ![p] = Tail(@)], UNCHANGED <<empty, late>>
  PROVE  GrowLate
<1>1. ToSet(Tail(full[p])) \subseteq ToSet(full[p]) /\ full \in [Paths -> Seq(Buffers)]
  BY SetOfTail DEF PlacesTyped
<1> QED
  BY <1>1 DEF GrowLate

LEMMA NotStopped ==
  ASSUME state' # "Stopped"
  PROVE  Flushed'
BY DEF Flushed

LEMMA FlushSteps ==
  ASSUME Control, Flushed, FlushFull \/ FlushEmpty
  PROVE  Flushed'
<1> DEFINE p == handler.path
<1>0. /\ p \in Paths /\ handler.at \in {"flushFull", "flushEmpty"} /\ PlacesTyped
      /\ handler \in HandlerType /\ state = "Stopped" /\ UNCHANGED <<state, late>>
  BY DEF FlushFull, FlushEmpty, Control, Threads, ThreadsTyped, HandlerMatches, ctx
<1>1. CASE UNCHANGED handler
  <2>1. GrowLate
    <3>1. CASE FlushFull
      BY <1>0, <1>1, <3>1, FullTakenGrows DEF FlushFull, HandlerType
    <3>2. CASE FlushEmpty
      BY <1>0, <1>1, <3>2, EmptyTakenGrows DEF FlushEmpty, HandlerType
    <3> QED
      BY <3>1, <3>2
  <2> QED
    BY <1>0, <1>1, <2>1, FlushedKept
<1>2. CASE ~UNCHANGED handler /\ FlushFull
  <2>1. /\ full[p] = <<>> /\ handler'.at = "flushEmpty" /\ handler'.path = p
        /\ UNCHANGED <<full, empty>> /\ handler.at = "flushFull"
    BY <1>0, <1>2 DEF FlushFull, HandlerType
  <2> HIDE DEF p
  <2>2. ASSUME NEW q \in Paths
        PROVE  /\ FullFlushed(q)' => ToSet(full'[q]) \subseteq late'[q]
               /\ EmptyFlushed(q)' => ToSet(empty'[q]) \subseteq late'[q]
    <3>1. FullFlushed(q)' => q = p \/ FullFlushed(q)
      BY <2>1 DEF FullFlushed, p
    <3>2. EmptyFlushed(q)' => EmptyFlushed(q)
      BY <2>1 DEF EmptyFlushed, p
    <3> QED
      BY <1>0, <2>1, <3>1, <3>2, SetOfEmpty DEF Flushed
  <2> QED
    BY <2>2 DEF Flushed
<1>3. CASE ~UNCHANGED handler /\ FlushEmpty
  <2>1. /\ empty[p] = <<>> /\ UNCHANGED <<full, empty>> /\ handler.at = "flushEmpty"
        /\ \/ handler'.at = "flushFull" /\ handler'.path = p + 1
           \/ handler'.at = "complete" /\ ~(p < NumPaths)
    BY <1>0, <1>3 DEF FlushEmpty, HandlerType
  <2> HIDE DEF p
  <2>2. ASSUME NEW q \in Paths
        PROVE  /\ FullFlushed(q)' => ToSet(full'[q]) \subseteq late'[q]
               /\ EmptyFlushed(q)' => ToSet(empty'[q]) \subseteq late'[q]
    <3>0. q \in Nat /\ p \in Nat /\ q <= NumPaths /\ NumPaths \in Nat
      BY <1>0, PathBounds, MomAssumption
    <3>1. FullFlushed(q)' => q < p \/ q = p
      BY <2>1, <3>0 DEF FullFlushed
    <3>2. EmptyFlushed(q)' => q < p \/ q = p
      BY <2>1, <3>0 DEF EmptyFlushed
    <3>3. q < p \/ q = p => FullFlushed(q)
      BY <2>1 DEF FullFlushed, p
    <3>4. q < p => EmptyFlushed(q)
      BY DEF EmptyFlushed, p
    <3> QED
      BY <1>0, <2>1, <3>1, <3>2, <3>3, <3>4, SetOfEmpty DEF Flushed
  <2> QED
    BY <2>2 DEF Flushed
<1> QED
  BY <1>1, <1>2, <1>3

LEMMA HandlerFlushed ==
  ASSUME Control, Flushed, Handler
  PROVE  Flushed'
<1>0. PlacesTyped /\ Threads /\ handler \in HandlerType
  BY DEF Control, Threads, ThreadsTyped
<1>1. CASE FlushFull \/ FlushEmpty
  BY <1>1, FlushSteps
<1>2. CASE HandleStop
  <2>1. handler'.at = "flushFull" /\ handler'.path = 1
    BY <1>0, <1>2 DEF HandleStop, HandlerType
  <2>2. \A p \in Paths : ~(p < 1) /\ ~(p = 1 /\ handler'.at = "flushEmpty")
    BY <2>1, PathBounds
  <2>3. \A p \in Paths : ~FullFlushed(p)' /\ ~EmptyFlushed(p)'
    BY <2>1, <2>2 DEF FullFlushed, EmptyFlushed
  <2> QED
    BY <2>3 DEF Flushed
<1>3. CASE HandleStart \/ FillOne \/ FillNext
  <2>1. handler'.at = "fill"
    BY <1>0, <1>3 DEF HandleStart, FillOne, FillNext, HandlerType
  <2> QED
    BY <2>1 DEF Flushed
<1>4. CASE HandleStarted \/ HandleShutDown
  BY <1>4, NotStopped DEF HandleStarted, HandleShutDown
<1>5. CASE HandleFull \/ LockPath \/ AddToMediaBufferQueue \/ CallBufferCb \/ HandlerRefill
  <2>1. state' = "Running"
    <3>1. state = "Running"
      BY <1>0, <1>5, Executing, FullInHand
      DEF HandleFull, LockPath, AddToMediaBufferQueue, CallBufferCb, HandlerRefill
    <3> QED
      BY <1>5, <3>1
      DEF HandleFull, LockPath, AddToMediaBufferQueue, CallBufferCb, HandlerRefill, ctx
  <2> QED
    BY <2>1, NotStopped
<1>6. CASE HandlerRead \/ HandleWrongState \/ HandlerComplete
  <2>1. /\ UNCHANGED <<state, empty, full, late>>
        /\ handler.at \notin {"fill", "flushFull", "flushEmpty"}
    BY <1>6 DEF HandlerRead, HandleWrongState, HandlerComplete, ctx, places, hist
  <2> QED
    BY <2>1, FlushedKept, NothingGrows
<1> QED
  BY <1>1, <1>2, <1>3, <1>4, <1>5, <1>6 DEF Handler

LEMMA OthersFlushed ==
  ASSUME Control, Flushed, Driver \/ User
  PROVE  Flushed'
<1>0. PlacesTyped /\ Threads /\ UNCHANGED <<state, handler>>
  BY DEF Control, Driver, DriverCallback, MomCtrlCamerIcDrvRequestCb, RequestTake, FullEvent,
     FullWrite, FullSend, FlushedEvent, FlushedFree, DriverNotify, DriverRefill, User, UserFrees,
     UserNotify, UserRefill, ctx
<1>1. CASE state = "Running"
  BY <1>0, <1>1, NotStopped
<1>2. CASE state # "Running"
  <2> SUFFICES GrowLate
    BY <1>0, FlushedKept
  <2>1. CASE RequestTake
    <3>1. driver.path \in Paths
      BY <1>0, <2>1, CallbackPath DEF RequestTake
    <3> QED
      BY <1>0, <2>1, <3>1, NothingGrows, EmptyTakenGrows DEF RequestTake, hist
  <2>2. CASE FullWrite
    <3>1. /\ driver.path \in Paths /\ driver.buffer \in Buffers
          /\ full' = [full EXCEPT ![driver.path] = Append(@, driver.buffer)]
          /\ late' = [late EXCEPT ![driver.path] = @ \cup {driver.buffer}]
          /\ full \in [Paths -> Seq(Buffers)] /\ late \in [Paths -> SUBSET Buffers]
          /\ UNCHANGED empty
      BY <1>0, <1>2, <2>2, CallbackPath DEF FullWrite, PlacesTyped
    <3>2. ToSet(Append(full[driver.path], driver.buffer))
            \subseteq ToSet(full[driver.path]) \cup {driver.buffer}
      BY <3>1, SetOfAppend
    <3> QED
      BY <3>1, <3>2 DEF GrowLate
  <2>3. CASE DriverRefill \/ UserRefill
    BY <1>0, <1>2, <2>3, CallbackPath, RefillGrows DEF DriverRefill, UserRefill
  <2>4. CASE \/ MomCtrlCamerIcDrvRequestCb \/ FullEvent \/ FullSend \/ FlushedEvent
             \/ FlushedFree \/ DriverNotify \/ UserFrees \/ UserNotify
    BY <2>4, NothingGrows
    DEF MomCtrlCamerIcDrvRequestCb, FullEvent, FullSend, FlushedEvent, FlushedFree,
        DriverNotify, UserFrees, UserNotify, places, hist
  <2> QED
    BY <2>1, <2>2, <2>3, <2>4 DEF Driver, DriverCallback, User
<1> QED
  BY <1>1, <1>2

LEMMA ClientFlushed ==
  ASSUME Control, Flushed, ClientCalls \/ Client
  PROVE  Flushed'
<1>1. CASE InitDone
  BY <1>1, NotStopped DEF InitDone
<1>2. CASE FreeContext
  <2>1. ASSUME NEW p \in Paths PROVE empty'[p] = <<>> /\ full'[p] = <<>>
    BY <1>2, <2>1 DEF FreeContext, NoQueue
  <2> QED
    BY <2>1, SetOfEmpty DEF Flushed
<1>3. CASE MomCtrlInit
  <2>1. state = "Invalid" /\ UNCHANGED state
    BY <1>3 DEF MomCtrlInit, Control, Threads, PhasesMatch
  <2> QED
    BY <2>1, NotStopped
<1>4. CASE \/ Join \/ MomCtrlSendCommand \/ DrainOne
           \/ MomCtrlStart \/ MomCtrlStop \/ MomCtrlShutDown
           \/ MomCtrlAttachQueueToPath \/ MomCtrlDetachQueueToPath
           \/ MomCtrlRegisterBufferCb \/ MomCtrlDeRegisterBufferCb \/ MiStart \/ MiStop
  <2>1. UNCHANGED <<state, handler, empty, full, late>>
    BY <1>4
    DEF Join, MomCtrlSendCommand, DrainOne, MomCtrlStart, MomCtrlStop, MomCtrlShutDown, Enter,
        MomCtrlAttachQueueToPath, MomCtrlDetachQueueToPath, MomCtrlRegisterBufferCb,
        MomCtrlDeRegisterBufferCb, MiStart, MiStop, SetAttached, SetRegistered, ctx, places,
        threads, hist
  <2> QED
    BY <2>1, FlushedKept, NothingGrows
<1> QED
  BY <1>1, <1>2, <1>3, <1>4, DrainSplit DEF ClientCalls, Client

(***************************************************************************)
(* A STOP empties the queues of every path, buffer by buffer, whatever the *)
(* driver and the users put in meanwhile: what is there afterwards is late. *)
(***************************************************************************)
THEOREM StopEmpties == Spec => []StopEmptiesQueues
<1>1. Init => Flushed
  BY DEF Init, Flushed
<1>2. Control /\ Flushed /\ [Next]_vars => Flushed'
  <2>1. UNCHANGED vars => UNCHANGED <<state, handler, empty, full, late>>
    BY DEF vars, ctx, places, threads, hist
  <2>2. Flushed /\ UNCHANGED <<state, handler, empty, full, late>> => Flushed'
    BY FlushedKept, NothingGrows
  <2> QED
    BY <2>1, <2>2, HandlerFlushed, OthersFlushed, ClientFlushed DEF Next
<1>3. Flushed => StopEmptiesQueues
  BY DEF Flushed, StopEmptiesQueues, FullFlushed, EmptyFlushed, InQueues
<1> QED
  BY <1>1, <1>2, <1>3, Controlled, PTL DEF Spec

-----------------------------------------------------------------------------
(* The free buffers that stay in a pool.                                    *)

LEMMA PoolSize ==
  ASSUME PlacesTyped, NEW q \in Paths
  PROVE  /\ IsFiniteSet(pool[q]) /\ Cardinality(pool[q]) \in Nat
         /\ missed[q] \in Nat
         /\ \A thread : Refills(thread, q) \in {0, 1}
<1>1. pool[q] \subseteq Buffers /\ IsFiniteSet(Buffers) /\ missed[q] \in Nat
  BY MomAssumption DEF PlacesTyped
<1>2. IsFiniteSet(pool[q])
  BY <1>1, FS_Subset
<1>3. Cardinality(pool[q]) \in Nat
  BY <1>2, FS_CardinalityType
<1> QED
  BY <1>1, <1>2, <1>3 DEF Refills

(***************************************************************************)
(* A buffer that is freed makes its pool larger by one at most.            *)
(***************************************************************************)
LEMMA FreedSize ==
  ASSUME PlacesTyped, NEW p \in Paths, NEW b \in Buffers, Freed(p, b), NEW q \in Paths
  PROVE  /\ Cardinality(pool'[q]) <= Cardinality(pool[q]) + (IF q = p THEN 1 ELSE 0)
         /\ Cardinality(pool'[q]) \in Nat
         /\ missed'[q] = IF q = p /\ handler.at = "fill" /\ p <= handler.path
                         THEN missed[q] + 1 ELSE missed[q]
<1>1. /\ pool'[q] = IF q = p THEN pool[q] \cup {b} ELSE pool[q]
      /\ missed'[q] = IF q = p /\ handler.at = "fill" /\ p <= handler.path
                      THEN missed[q] + 1 ELSE missed[q]
  BY FreedDoes
<1>2. IsFiniteSet(pool[q]) /\ Cardinality(pool[q]) \in Nat
  BY PoolSize
<1>3. Cardinality(pool[q] \cup {b}) \in {Cardinality(pool[q]), Cardinality(pool[q]) + 1}
  BY <1>2, FS_AddElement
<1> QED
  BY <1>1, <1>2, <1>3

(***************************************************************************)
(* A refill empties the pool of its path by one, if it is not empty.       *)
(***************************************************************************)
LEMMA RefillSize ==
  ASSUME PlacesTyped, NEW p \in Paths, Refill(p)
  PROVE  /\ UNCHANGED missed /\ \A q \in Paths \ {p} : pool'[q] = pool[q]
         /\ \/ Cardinality(pool'[p]) = 0
            \/ Cardinality(pool'[p]) = Cardinality(pool[p]) - 1
<1>1. CASE pool[p] = {} /\ UNCHANGED pool
  BY <1>1, FS_EmptySet DEF Refill
<1>2. CASE ~(pool[p] = {} /\ UNCHANGED pool)
  <2>1. PICK b \in pool[p] : pool' = [pool EXCEPT ![p] = @ \ {b}]
    BY <1>2 DEF Refill
  <2>2. pool'[p] = pool[p] \ {b} /\ \A q \in Paths \ {p} : pool'[q] = pool[q]
    BY <2>1 DEF PlacesTyped
  <2>3. Cardinality(pool[p] \ {b}) = Cardinality(pool[p]) - 1
    BY PoolSize, FS_RemoveElement
  <2> QED
    BY <2>2, <2>3 DEF Refill
<1> QED
  BY <1>1, <1>2

LEMMA RefilledPaths == Refilled \subseteq Paths
BY MomAssumption

LEMMA StartingBound ==
  ASSUME Control, NEW q \in Paths
  PROVE  /\ Cardinality(pool[q]) <= NumBuffers
         /\ handler.at = "fill" => state # "Running"
         /\ TriesLeft(q) \in Nat
<1>1. IsFiniteSet(Buffers) /\ pool[q] \subseteq Buffers
  BY MomAssumption DEF Control, PlacesTyped
<1>2. handler.tries \in 0 .. NumBuffers /\ NumBuffers \in Nat
  BY TriesBounds DEF Control, Threads, ThreadsTyped, HandlerType
<1>3. TriesLeft(q) \in Nat
  BY <1>2 DEF TriesLeft
<1> QED
  BY <1>1, <1>3, FS_Subset DEF NumBuffers, Control, Threads, HandlerMatches

(***************************************************************************)
(* A step that leaves the pools and the refills alone.                     *)
(***************************************************************************)
LEMMA PoolsStay ==
  ASSUME Control, PoolsTaken, UNCHANGED <<pool, missed, state>>,
         handler'.at = "fill" => UNCHANGED handler,
         state = "Running" =>
           \A p \in Refilled : /\ Refills(handler', p) = Refills(handler, p)
                               /\ Refills(driver', p) = Refills(driver, p)
                               /\ Refills(user', p) = Refills(user, p)
  PROVE  PoolsTaken'
<1>1. ASSUME NEW p \in Refilled, handler'.at = "fill", p <= handler'.path
      PROVE  StartBound(p)'
  BY <1>1 DEF PoolsTaken, StartBound, TriesLeft
<1>2. ASSUME NEW p \in Refilled, state' = "Running" PROVE PoolBound(p)'
  BY <1>2 DEF PoolsTaken, PoolBound
<1> QED
  BY <1>1, <1>2 DEF PoolsTaken

LEMMA NoneRefills ==
  ASSUME NEW thread, thread.at \notin {"notify", "refill"}
  PROVE  \A p : Refills(thread, p) = 0
BY DEF Refills

LEMMA NotFilled ==
  ASSUME state' # "Running", handler'.at # "fill"
  PROVE  PoolsTaken'
BY DEF PoolsTaken

(***************************************************************************)
(* START tries each path as often as it has buffers.  A try takes a free   *)
(* buffer or finds none, so that the pool never has more than START has    *)
(* tries left, but for those freed meanwhile.                              *)
(***************************************************************************)
LEMMA TryPools ==
  ASSUME Control, PoolsTaken, FillOne
  PROVE  PoolsTaken'
<1> DEFINE p == handler.path
           t == handler.tries
<1>0. /\ handler \in HandlerType /\ PlacesTyped /\ p \in Paths /\ handler.at = "fill"
      /\ t \in 0 .. NumBuffers /\ t < NumBuffers /\ NumBuffers \in Nat
      /\ UNCHANGED <<state, missed>> /\ state # "Running"
  BY TriesBounds
  DEF FillOne, ctx, hist, Control, Threads, ThreadsTyped, HandlerType, HandlerMatches
<1>1. handler'.at = "fill" /\ handler'.path = p /\ handler'.tries = t + 1
  BY <1>0 DEF FillOne, HandlerType
<1>2. /\ \A q \in Paths \ {p} : pool'[q] = pool[q]
      /\ \/ Cardinality(pool'[p]) = 0
         \/ Cardinality(pool'[p]) = Cardinality(pool[p]) - 1
  <2>1. CASE pool[p] = {} /\ UNCHANGED pool
    BY <2>1, FS_EmptySet
  <2>2. CASE ~(pool[p] = {} /\ UNCHANGED pool)
    <3>1. PICK b \in pool[p] : pool' = [pool EXCEPT ![p] = @ \ {b}]
      BY <2>2 DEF FillOne
    <3>2. pool'[p] = pool[p] \ {b} /\ \A q \in Paths \ {p} : pool'[q] = pool[q]
      BY <1>0, <3>1 DEF PlacesTyped
    <3>3. Cardinality(pool[p] \ {b}) = Cardinality(pool[p]) - 1
      BY <1>0, PoolSize, FS_RemoveElement
    <3> QED
      BY <3>2, <3>3
  <2> QED
    BY <2>1, <2>2
<1> SUFFICES ASSUME NEW q \in Refilled, q <= p PROVE StartBound(q)'
  BY <1>0, <1>1 DEF PoolsTaken
<1>3. q \in Paths /\ StartBound(q)
  BY <1>0, RefilledPaths DEF PoolsTaken
<1>4. Cardinality(pool[q]) \in Nat /\ missed[q] \in Nat
  BY <1>0, <1>3, PoolSize
<1>5. CASE q = p
  <2>1. TriesLeft(q) = NumBuffers - t /\ TriesLeft(q)' = NumBuffers - (t + 1)
    BY <1>1, <1>5 DEF TriesLeft
  <2> HIDE DEF p, t
  <2>2. Cardinality(pool[q]) <= missed[q] + (NumBuffers - t)
    BY <1>3, <2>1 DEF StartBound
  <2>3. Cardinality(pool'[q]) <= missed[q] + (NumBuffers - (t + 1))
    BY <1>0, <1>2, <1>4, <1>5, <2>2
  <2> QED
    BY <1>0, <2>1, <2>3 DEF StartBound
<1>6. CASE q # p
  <2>1. TriesLeft(q) = 0 /\ TriesLeft(q)' = 0
    BY <1>1, <1>6 DEF TriesLeft
  <2> QED
    BY <1>0, <1>2, <1>3, <1>6, <2>1 DEF StartBound
<1> QED
  BY <1>5, <1>6

LEMMA StartPools ==
  ASSUME Control, PoolsTaken, HandleStart \/ FillOne \/ FillNext \/ HandleStarted
  PROVE  PoolsTaken'
<1>0. /\ handler \in HandlerType /\ PlacesTyped /\ Threads
      /\ UNCHANGED <<driver, user>> /\ state # "Running"
  BY DEF HandleStart, FillOne, FillNext, HandleStarted, Executes, Control, Threads,
     ThreadsTyped, HandlerMatches
<1>1. CASE HandleStart
  <2>1. /\ handler'.at = "fill" /\ handler'.path = 1 /\ handler'.tries = 0
        /\ UNCHANGED <<state, pool>> /\ missed' = [p \in Paths |-> 0]
    BY <1>0, <1>1 DEF HandleStart, HandlerType, ctx, places
  <2> SUFFICES ASSUME NEW q \in Refilled, q <= 1 PROVE StartBound(q)'
    BY <1>0, <2>1 DEF PoolsTaken
  <2>2. q \in Paths /\ q = 1
    <3>1. q \in Paths
      BY RefilledPaths
    <3>2. q \in Nat /\ q # 0
      BY <3>1, PathBounds
    <3> QED
      BY <3>1, <3>2
  <2>3. Cardinality(pool[q]) <= NumBuffers /\ NumBuffers \in Nat /\ Cardinality(pool[q]) \in Nat
    BY <1>0, <2>2, StartingBound, PoolSize, TriesBounds
  <2>4. missed'[q] = 0 /\ TriesLeft(q)' = NumBuffers
    BY <2>1, <2>2, <2>3 DEF TriesLeft
  <2> QED
    BY <2>1, <2>3, <2>4 DEF StartBound
<1>2. CASE FillOne
  BY <1>2, TryPools
<1>3. CASE FillNext
  <2> DEFINE p == handler.path
  <2>1. /\ p \in Paths /\ handler.at = "fill" /\ (Fills(p) => handler.tries = NumBuffers)
        /\ UNCHANGED <<state, pool, missed>>
    BY <1>3 DEF FillNext, ctx, places, hist
  <2>2. handler'.at = "fill" /\ handler'.path = p + 1 /\ handler'.tries = 0
    BY <1>0, <1>3 DEF FillNext, HandlerType
  <2> SUFFICES ASSUME NEW q \in Refilled, q <= p + 1 PROVE StartBound(q)'
    BY <1>0, <2>1, <2>2 DEF PoolsTaken
  <2>3. /\ q \in Paths /\ Cardinality(pool[q]) \in Nat /\ missed[q] \in Nat
        /\ NumBuffers \in Nat /\ q \in Nat /\ p \in Nat
    BY <1>0, <2>1, RefilledPaths, PoolSize, TriesBounds, PathBounds
  <2>4. CASE q = p + 1
    <3>1. TriesLeft(q)' = NumBuffers
      BY <2>2, <2>3, <2>4 DEF TriesLeft
    <3>2. Cardinality(pool[q]) <= NumBuffers
      BY <2>3, StartingBound
    <3> QED
      BY <2>1, <2>3, <3>1, <3>2 DEF StartBound
  <2>5. CASE q # p + 1
    <3>1. q <= p /\ TriesLeft(q)' = 0
      BY <2>2, <2>3, <2>5 DEF TriesLeft
    <3>2. StartBound(q)
      BY <2>1, <3>1 DEF PoolsTaken
    <3>3. TriesLeft(q) = 0
      BY <2>1, <2>3 DEF TriesLeft, Fills
    <3> QED
      BY <2>1, <3>1, <3>2, <3>3 DEF StartBound
  <2> QED
    BY <2>4, <2>5
<1>4. CASE HandleStarted
  <2>1. /\ handler.at = "fill" /\ handler.path = NumPaths + 1
        /\ UNCHANGED <<driver, user, pool, missed>>
    BY <1>4 DEF HandleStarted, places, hist
  <2>2. handler'.at = "complete"
    BY <1>0, <1>4 DEF HandleStarted, HandlerType
  <2> SUFFICES ASSUME NEW q \in Refilled PROVE PoolBound(q)'
    BY <2>2 DEF PoolsTaken
  <2>3. /\ q \in Paths /\ q <= handler.path /\ q # handler.path
    BY <2>1, RefilledPaths, PathBounds
  <2>4. Cardinality(pool[q]) <= missed[q] + 0
    BY <2>1, <2>3 DEF PoolsTaken, StartBound, TriesLeft
  <2>5. Cardinality(pool[q]) \in Nat /\ missed[q] \in Nat
    BY <1>0, <2>3, PoolSize
  <2>6. /\ Refills(handler', q) \in {0, 1} /\ Refills(driver', q) \in {0, 1}
        /\ Refills(user', q) \in {0, 1}
    BY DEF Refills
  <2> QED
    BY <2>1, <2>4, <2>5, <2>6 DEF PoolBound
<1> QED
  BY <1>1, <1>2, <1>3, <1>4

(***************************************************************************)
(* A buffer freed during START is counted; one freed while the control     *)
(* runs is followed by the notification of its thread, which takes one.    *)
(***************************************************************************)
LEMMA FreesPools ==
  ASSUME Control, PoolsTaken, NEW p \in Paths, NEW b \in Buffers, Freed(p, b),
         UNCHANGED state, handler'.at = "fill" => UNCHANGED handler,
         state = "Running" =>
           \A q \in Paths : Refills(handler', q) + Refills(driver', q) + Refills(user', q)
                              = Refills(handler, q) + Refills(driver, q) + Refills(user, q)
                                + (IF q = p THEN 1 ELSE 0)
  PROVE  PoolsTaken'
<1> SUFFICES ASSUME NEW q \in Refilled
             PROVE  /\ handler'.at = "fill" /\ q <= handler'.path => StartBound(q)'
                    /\ state = "Running" => PoolBound(q)'
  BY DEF PoolsTaken
<1>1. q \in Paths /\ PlacesTyped
  BY RefilledPaths DEF Control
<1>2. /\ Cardinality(pool'[q]) <= Cardinality(pool[q]) + (IF q = p THEN 1 ELSE 0)
      /\ Cardinality(pool'[q]) \in Nat
      /\ missed'[q] = IF q = p /\ handler.at = "fill" /\ p <= handler.path
                      THEN missed[q] + 1 ELSE missed[q]
  BY <1>1, FreedSize
<1>3. /\ Cardinality(pool[q]) \in Nat /\ missed[q] \in Nat /\ TriesLeft(q) \in Nat
      /\ handler.at = "fill" => state # "Running"
  BY <1>1, PoolSize, StartingBound
<1>4. ASSUME handler'.at = "fill", q <= handler'.path PROVE StartBound(q)'
  <2>1. StartBound(q) /\ TriesLeft(q)' = TriesLeft(q) /\ handler.at = "fill" /\ q <= handler.path
    BY <1>4 DEF PoolsTaken, TriesLeft
  <2>2. missed'[q] = missed[q] + (IF q = p THEN 1 ELSE 0)
    BY <1>2, <1>3, <2>1
  <2>3. Cardinality(pool[q]) <= missed[q] + TriesLeft(q)
    BY <2>1 DEF StartBound
  <2>4. Cardinality(pool'[q]) <= missed'[q] + TriesLeft(q)
    BY <1>2, <1>3, <2>2, <2>3
  <2> QED
    BY <2>1, <2>4 DEF StartBound
<1>5. ASSUME state = "Running" PROVE PoolBound(q)'
  <2>1. PoolBound(q) /\ missed'[q] = missed[q]
    BY <1>2, <1>3, <1>5 DEF PoolsTaken
  <2>2. /\ Refills(handler', q) \in {0, 1} /\ Refills(driver', q) \in {0, 1}
        /\ Refills(user', q) \in {0, 1} /\ Refills(handler, q) \in {0, 1}
        /\ Refills(driver, q) \in {0, 1} /\ Refills(user, q) \in {0, 1}
    BY DEF Refills
  <2>3. Refills(handler', q) + Refills(driver', q) + Refills(user', q)
          = Refills(handler, q) + Refills(driver, q) + Refills(user, q)
            + (IF q = p THEN 1 ELSE 0)
    BY <1>1, <1>5
  <2> QED
    BY <1>2, <1>3, <2>1, <2>2, <2>3 DEF PoolBound
<1> QED
  BY <1>4, <1>5

LEMMA RefillsPools ==
  ASSUME Control, PoolsTaken, NEW p \in Paths, Refill(p),
         UNCHANGED state, handler'.at = "fill" => UNCHANGED handler,
         \A q \in Paths : Refills(handler', q) + Refills(driver', q) + Refills(user', q)
                            = Refills(handler, q) + Refills(driver, q) + Refills(user, q)
                              - (IF q = p THEN 1 ELSE 0)
  PROVE  PoolsTaken'
<1> SUFFICES ASSUME NEW q \in Refilled
             PROVE  /\ handler'.at = "fill" /\ q <= handler'.path => StartBound(q)'
                    /\ state = "Running" => PoolBound(q)'
  BY DEF PoolsTaken
<1>1. q \in Paths /\ PlacesTyped
  BY RefilledPaths DEF Control
<1>2. /\ missed'[q] = missed[q]
      /\ q # p => pool'[q] = pool[q]
      /\ q = p => \/ Cardinality(pool'[q]) = 0
                  \/ Cardinality(pool'[q]) = Cardinality(pool[q]) - 1
  BY <1>1, RefillSize
<1>3. Cardinality(pool[q]) \in Nat /\ missed[q] \in Nat /\ TriesLeft(q) \in Nat
  BY <1>1, PoolSize, StartingBound
<1>4. ASSUME handler'.at = "fill", q <= handler'.path PROVE StartBound(q)'
  <2>1. StartBound(q) /\ TriesLeft(q)' = TriesLeft(q)
    BY <1>4 DEF PoolsTaken, TriesLeft
  <2>2. Cardinality(pool[q]) <= missed[q] + TriesLeft(q)
    BY <2>1 DEF StartBound
  <2>3. Cardinality(pool'[q]) <= missed[q] + TriesLeft(q)
    BY <1>2, <1>3, <2>2
  <2> QED
    BY <1>2, <2>1, <2>3 DEF StartBound
<1>5. ASSUME state = "Running" PROVE PoolBound(q)'
  <2>1. PoolBound(q)
    BY <1>5 DEF PoolsTaken
  <2>2. /\ Refills(handler', q) \in {0, 1} /\ Refills(driver', q) \in {0, 1}
        /\ Refills(user', q) \in {0, 1} /\ Refills(handler, q) \in {0, 1}
        /\ Refills(driver, q) \in {0, 1} /\ Refills(user, q) \in {0, 1}
    BY DEF Refills
  <2>3. Refills(handler', q) + Refills(driver', q) + Refills(user', q)
          = Refills(handler, q) + Refills(driver, q) + Refills(user, q)
            - (IF q = p THEN 1 ELSE 0)
    BY <1>1
  <2> QED
    BY <1>2, <1>3, <2>1, <2>2, <2>3 DEF PoolBound
<1> QED
  BY <1>4, <1>5

LEMMA HandlerPools ==
  ASSUME Control, PoolsTaken, Handler
  PROVE  PoolsTaken'
<1>0. PlacesTyped /\ Threads /\ handler \in HandlerType
  BY DEF Control, Threads, ThreadsTyped
<1>1. CASE HandleStart \/ FillOne \/ FillNext \/ HandleStarted
  BY <1>1, StartPools
<1>2. CASE HandleStop \/ FlushFull \/ FlushEmpty \/ HandleShutDown
  <2>1. state' # "Running"
    BY <1>0, <1>2
    DEF HandleStop, FlushFull, FlushEmpty, HandleShutDown, ctx, Threads, HandlerMatches
  <2>2. handler'.at # "fill"
    <3>1. CASE HandleStop
      BY <1>0, <3>1 DEF HandleStop, HandlerType
    <3>2. CASE FlushFull
      BY <1>0, <3>2 DEF FlushFull, HandlerType
    <3>3. CASE FlushEmpty
      BY <1>0, <3>3 DEF FlushEmpty, HandlerType
    <3>4. CASE HandleShutDown
      BY <3>4, AtRest DEF HandleShutDown
    <3> QED
      BY <1>2, <3>1, <3>2, <3>3, <3>4
  <2> QED
    BY <2>1, <2>2, NotFilled
<1>3. CASE HandleFull \/ LockPath \/ AddToMediaBufferQueue
  <2>1. /\ UNCHANGED <<pool, missed, driver, user, state>>
        /\ handler.at \notin {"fill", "notify", "refill"}
    BY <1>3 DEF HandleFull, LockPath, AddToMediaBufferQueue, Executes, hist, ctx
  <2>2. handler'.at \notin {"fill", "notify", "refill"}
    <3>1. HandlerAt("read").at = "read"
      BY AtRest
    <3>2. CASE HandleFull
      BY <1>0, <3>1, <3>2 DEF HandleFull, HandlerType
    <3>3. CASE LockPath
      BY <1>0, <3>1, <3>3 DEF LockPath, HandlerType
    <3>4. CASE AddToMediaBufferQueue
      BY <3>1, <3>4 DEF AddToMediaBufferQueue
    <3> QED
      BY <1>3, <3>2, <3>3, <3>4
  <2> QED
    BY <2>1, <2>2, PoolsStay, NoneRefills
<1>4. CASE CallBufferCb
  <2> DEFINE p == handler.path
  <2>1. /\ p \in Paths /\ handler.buffer \in Buffers /\ handler.at = "callback"
        /\ UNCHANGED <<state, driver, user>>
    BY <1>0, <1>4, FullInHand DEF CallBufferCb, ctx
  <2>2. CASE UNCHANGED <<pool, missed>> /\ handler' = HandlerAt("read")
    <3>1. handler'.at = "read"
      BY <2>2, AtRest
    <3> QED
      BY <2>1, <2>2, <3>1, PoolsStay, NoneRefills
  <2>3. CASE /\ Freed(p, handler.buffer)
             /\ handler' = [handler EXCEPT !.at = "refill", !.buffer = NoBuffer]
    <3>1. handler'.at = "refill" /\ handler'.path = p
      BY <1>0, <2>3 DEF HandlerType
    <3>2. \A q \in Paths : /\ Refills(handler', q) = (IF q = p THEN 1 ELSE 0)
                           /\ Refills(handler, q) = 0
      BY <2>1, <3>1 DEF Refills
    <3>3. \A q \in Paths : Refills(driver, q) \in {0, 1} /\ Refills(user, q) \in {0, 1}
      BY DEF Refills
    <3> HIDE DEF p
    <3>4. \A q \in Paths : Refills(handler', q) + Refills(driver', q) + Refills(user', q)
                             = Refills(handler, q) + Refills(driver, q) + Refills(user, q)
                               + (IF q = p THEN 1 ELSE 0)
      BY <2>1, <3>2, <3>3
    <3> QED
      BY <2>1, <2>3, <3>1, <3>4, FreesPools
  <2> QED
    BY <1>4, <2>2, <2>3 DEF CallBufferCb
<1>5. CASE HandlerRefill
  <2> DEFINE p == handler.path
  <2>1. /\ p \in Paths /\ handler.at = "refill" /\ Refill(p) /\ handler' = HandlerAt("read")
        /\ UNCHANGED <<state, driver, user>>
    BY <1>0, <1>5, FullInHand DEF HandlerRefill, ctx
  <2>2. handler'.at = "read"
    BY <2>1, AtRest
  <2>3. \A q \in Paths : /\ Refills(handler, q) = (IF q = p THEN 1 ELSE 0)
                         /\ Refills(handler', q) = 0
    BY <2>1, <2>2 DEF Refills
  <2>4. \A q \in Paths : Refills(driver, q) \in {0, 1} /\ Refills(user, q) \in {0, 1}
    BY DEF Refills
  <2> HIDE DEF p
  <2>6. \A q \in Paths : Refills(handler', q) + Refills(driver', q) + Refills(user', q)
                           = Refills(handler, q) + Refills(driver, q) + Refills(user, q)
                             - (IF q = p THEN 1 ELSE 0)
    BY <2>1, <2>3, <2>4
  <2> QED
    BY <2>1, <2>2, <2>6, RefillsPools
<1>6. CASE HandlerRead \/ HandleWrongState \/ HandlerComplete
  <2>1. /\ UNCHANGED <<pool, missed, driver, user, state>>
        /\ handler.at \notin {"fill", "notify", "refill"}
    BY <1>6 DEF HandlerRead, HandleWrongState, HandlerComplete, hist, ctx, places
  <2>2. handler'.at \notin {"fill", "notify", "refill"}
    <3>1. CASE HandlerRead
      BY <3>1 DEF HandlerRead, HandlerAt
    <3>2. CASE HandleWrongState
      BY <1>0, <3>2 DEF HandleWrongState, HandlerType
    <3>3. CASE HandlerComplete
      BY <3>3, AtRest DEF HandlerComplete
    <3> QED
      BY <1>6, <3>1, <3>2, <3>3
  <2> QED
    BY <2>1, <2>2, PoolsStay, NoneRefills
<1> QED
  BY <1>1, <1>2, <1>3, <1>4, <1>5, <1>6 DEF Handler

LEMMA DriverPools ==
  ASSUME Control, PoolsTaken, Driver
  PROVE  PoolsTaken'
<1>0. PlacesTyped /\ Threads /\ UNCHANGED <<handler, user, state>>
  BY DEF Control, Driver, DriverCallback, MomCtrlCamerIcDrvRequestCb, RequestTake, FullEvent,
     FullWrite, FullSend, FlushedEvent, FlushedFree, DriverNotify, DriverRefill, ctx
<1>1. \A q : Refills(driver, q) \in {0, 1} /\ Refills(user, q) \in {0, 1}
             /\ Refills(handler, q) \in {0, 1}
  BY DEF Refills
<1>2. CASE DriverRefill
  <2> DEFINE p == driver.path
  <2>1. p \in Paths /\ driver.at = "refill" /\ Refill(p) /\ driver' = NoCallback
    BY <1>0, <1>2, CallbackPath DEF DriverRefill
  <2>2. \A q \in Paths : /\ Refills(driver, q) = (IF q = p THEN 1 ELSE 0)
                         /\ Refills(driver', q) = 0
    BY <2>1, AtRest DEF Refills
  <2> HIDE DEF p
  <2>3. \A q \in Paths : Refills(handler', q) + Refills(driver', q) + Refills(user', q)
                           = Refills(handler, q) + Refills(driver, q) + Refills(user, q)
                             - (IF q = p THEN 1 ELSE 0)
    BY <1>0, <1>1, <2>2
  <2> QED
    BY <1>0, <2>1, <2>3, RefillsPools
<1>3. CASE FlushedFree
  <2> DEFINE p == driver.path
  <2>1. /\ driver.at = "free" /\ Freed(p, driver.buffer)
        /\ driver' = Callback("notify", p, NoBuffer)
    BY <1>3 DEF FlushedFree
  <2>2. p \in Paths /\ driver.buffer \in Buffers
    BY <1>0, <2>1, CallbackPath
  <2>3. \A q \in Paths : /\ Refills(driver', q) = (IF q = p THEN 1 ELSE 0)
                         /\ Refills(driver, q) = 0
    BY <2>1, AtRest DEF Refills
  <2> HIDE DEF p
  <2>4. \A q \in Paths : Refills(handler', q) + Refills(driver', q) + Refills(user', q)
                           = Refills(handler, q) + Refills(driver, q) + Refills(user, q)
                             + (IF q = p THEN 1 ELSE 0)
    BY <1>0, <1>1, <2>3
  <2> QED
    BY <1>0, <2>1, <2>2, <2>4, FreesPools
<1>4. CASE \/ MomCtrlCamerIcDrvRequestCb \/ RequestTake \/ FullEvent \/ FullWrite
           \/ FullSend \/ FlushedEvent
  <2>1. UNCHANGED <<pool, missed>>
    BY <1>4
    DEF MomCtrlCamerIcDrvRequestCb, RequestTake, FullEvent, EventIgnored, FullWrite, FullSend,
        FlushedEvent, places, hist
  <2>2. \/ driver'.at \notin {"notify", "refill"} /\ driver.at \notin {"notify", "refill"}
        \/ UNCHANGED driver
    <3>1. CASE MomCtrlCamerIcDrvRequestCb
      BY <3>1, AtRest DEF MomCtrlCamerIcDrvRequestCb
    <3>2. CASE RequestTake \/ FullSend
      BY <3>2, AtRest DEF RequestTake, FullSend
    <3>3. CASE FullEvent \/ FlushedEvent
      BY <3>3, AtRest DEF FullEvent, FlushedEvent, EventIgnored, DriverEvent
    <3>4. CASE FullWrite
      BY <3>4, AtRest DEF FullWrite
    <3> QED
      BY <1>4, <3>1, <3>2, <3>3, <3>4
  <2>3. \A q : Refills(driver', q) = Refills(driver, q)
    BY <2>2, NoneRefills
  <2> QED
    BY <1>0, <2>1, <2>3, PoolsStay
<1>5. CASE DriverNotify
  <2>1. /\ UNCHANGED <<pool, missed>>
        /\ driver.at = "notify" /\ driver' = Notified(driver)
    BY <1>5 DEF DriverNotify, places, hist
  <2>2. state = "Running" => \A q : Refills(driver', q) = Refills(driver, q)
    BY <1>0, <2>1 DEF Notified, Refills, Threads, ThreadsTyped, DriverType
  <2> QED
    BY <1>0, <2>1, <2>2, PoolsStay
<1> QED
  BY <1>2, <1>3, <1>4, <1>5 DEF Driver, DriverCallback

LEMMA UserPools ==
  ASSUME Control, PoolsTaken, User
  PROVE  PoolsTaken'
<1>0. PlacesTyped /\ Threads /\ UNCHANGED <<handler, driver, state>>
  BY DEF Control, User, UserFrees, UserNotify, UserRefill, ctx
<1>1. \A q : Refills(driver, q) \in {0, 1} /\ Refills(user, q) \in {0, 1}
             /\ Refills(handler, q) \in {0, 1}
  BY DEF Refills
<1>2. CASE UserRefill
  <2> DEFINE p == user.path
  <2>1. p \in Paths /\ user.at = "refill" /\ Refill(p) /\ user' = NoCallback
    BY <1>0, <1>2, CallbackPath DEF UserRefill
  <2>2. \A q \in Paths : /\ Refills(user, q) = (IF q = p THEN 1 ELSE 0)
                         /\ Refills(user', q) = 0
    BY <2>1, AtRest DEF Refills
  <2> HIDE DEF p
  <2>3. \A q \in Paths : Refills(handler', q) + Refills(driver', q) + Refills(user', q)
                           = Refills(handler, q) + Refills(driver, q) + Refills(user, q)
                             - (IF q = p THEN 1 ELSE 0)
    BY <1>0, <1>1, <2>2
  <2> QED
    BY <1>0, <2>1, <2>3, RefillsPools
<1>3. CASE UserFrees
  <2>1. PICK p \in Paths :
          /\ \/ out[p] # <<>> /\ Freed(p, Head(out[p]))
             \/ \E b \in kept[p] : Freed(p, b)
          /\ user' = IF alive THEN Callback("notify", p, NoBuffer) ELSE NoCallback
    BY <1>3 DEF UserFrees
  <2>2. PICK b \in Buffers : Freed(p, b)
    <3>1. ASSUME out[p] # <<>> PROVE Head(out[p]) \in Buffers
      BY <1>0, <3>1, HeadTailProperties DEF PlacesTyped
    <3>2. \A b \in kept[p] : b \in Buffers
      BY <1>0 DEF PlacesTyped
    <3> QED
      BY <2>1, <3>1, <3>2
  <2>3. \A q : Refills(user, q) = 0
    BY <1>3 DEF UserFrees, Refills
  <2>4. ASSUME state = "Running", NEW q \in Paths
        PROVE  Refills(handler', q) + Refills(driver', q) + Refills(user', q)
                 = Refills(handler, q) + Refills(driver, q) + Refills(user, q)
                   + (IF q = p THEN 1 ELSE 0)
    <3>1. alive
      BY <1>0, <2>4 DEF Threads, PhasesMatch
    <3>2. Refills(user', q) = (IF q = p THEN 1 ELSE 0)
      BY <2>1, <3>1, AtRest DEF Refills
    <3> QED
      BY <1>0, <1>1, <2>3, <3>2
  <2> QED
    BY <1>0, <2>2, <2>4, FreesPools
<1>4. CASE UserNotify
  <2>1. /\ UNCHANGED <<pool, missed>>
        /\ user.at = "notify" /\ user' = Notified(user)
    BY <1>4 DEF UserNotify, places, hist
  <2>2. state = "Running" => \A q : Refills(user', q) = Refills(user, q)
    BY <1>0, <2>1 DEF Notified, Refills, Threads, ThreadsTyped, UserType
  <2> QED
    BY <1>0, <2>1, <2>2, PoolsStay
<1> QED
  BY <1>2, <1>3, <1>4 DEF User

LEMMA ClientPools ==
  ASSUME Control, PoolsTaken, ClientCalls \/ Client
  PROVE  PoolsTaken'
<1>0. Threads
  BY DEF Control
<1>1. CASE MomCtrlInit \/ InitDone
  <2>1. state' # "Running" /\ handler'.at # "fill"
    BY <1>0, <1>1, AtRest DEF MomCtrlInit, InitDone, Threads, PhasesMatch
  <2> QED
    BY <2>1, NotFilled
<1>2. CASE \/ Join \/ MomCtrlSendCommand \/ DrainOne \/ FreeContext
           \/ MomCtrlStart \/ MomCtrlStop \/ MomCtrlShutDown
           \/ MomCtrlAttachQueueToPath \/ MomCtrlDetachQueueToPath
           \/ MomCtrlRegisterBufferCb \/ MomCtrlDeRegisterBufferCb \/ MiStart \/ MiStop
  <2>1. UNCHANGED <<state, handler, driver, user, pool, missed>>
    BY <1>2
    DEF Join, MomCtrlSendCommand, DrainOne, FreeContext, MomCtrlStart, MomCtrlStop,
        MomCtrlShutDown, Enter, MomCtrlAttachQueueToPath, MomCtrlDetachQueueToPath,
        MomCtrlRegisterBufferCb, MomCtrlDeRegisterBufferCb, MiStart, MiStop, SetAttached,
        SetRegistered, ctx, places, threads, hist
  <2> QED
    BY <2>1, PoolsStay
<1> QED
  BY <1>1, <1>2, DrainSplit DEF ClientCalls, Client

(***************************************************************************)
(* The threads on their way to refill path p, counted one by one.          *)
(***************************************************************************)
LEMMA RefillingCount ==
  ASSUME NEW p
  PROVE  Cardinality(Refilling(p)) = Refills(handler, p) + Refills(driver, p) + Refills(user, p)
<1> DEFINE H == IF handler.at \in {"notify", "refill"} /\ handler.path = p THEN {1} ELSE {}
           D == IF driver.at \in {"notify", "refill"} /\ driver.path = p THEN {2} ELSE {}
           U == IF user.at \in {"notify", "refill"} /\ user.path = p THEN {3} ELSE {}
<1>1. Refilling(p) = H \cup D \cup U
  <2>1. \A i \in 1 .. 3 : i \in Refilling(p) <=> i \in H \cup D \cup U
    <3>1. /\ 1 \in Refilling(p) <=> 1 \in H
          /\ 2 \in Refilling(p) <=> 2 \in D
          /\ 3 \in Refilling(p) <=> 3 \in U
      BY DEF Refilling
    <3> QED
      BY <3>1
  <2>2. Refilling(p) \subseteq 1 .. 3 /\ H \cup D \cup U \subseteq 1 .. 3
    BY DEF Refilling
  <2> QED
    BY <2>1, <2>2
<1>2. /\ IsFiniteSet(H) /\ Cardinality(H) = Refills(handler, p)
      /\ IsFiniteSet(D) /\ Cardinality(D) = Refills(driver, p)
      /\ IsFiniteSet(U) /\ Cardinality(U) = Refills(user, p)
  BY FS_EmptySet, FS_Singleton DEF Refills
<1>3. H \cap D = {} /\ (H \cup D) \cap U = {}
  OBVIOUS
<1>4. /\ Refills(handler, p) \in {0, 1} /\ Refills(driver, p) \in {0, 1}
      /\ Refills(user, p) \in {0, 1}
  BY DEF Refills
<1> HIDE DEF H, D, U
<1>5. IsFiniteSet(H \cup D) /\ Cardinality(H \cup D) = Cardinality(H) + Cardinality(D)
  BY <1>2, <1>3, <1>4, FS_Union, FS_EmptySet
<1>6. Cardinality(H \cup D \cup U) = Cardinality(H \cup D) + Cardinality(U)
  BY <1>2, <1>3, <1>4, <1>5, FS_Union, FS_EmptySet
<1> QED
  BY <1>1, <1>2, <1>5, <1>6

(***************************************************************************)
(* While the control runs, the pool of a path has no more idle buffers     *)
(* than were freed while START was at the path or past it: START has a try *)
(* for every buffer that was free before, and each later notification      *)
(* takes one.                                                              *)
(***************************************************************************)
THEOREM OnlyMissedIdle == Spec => []IdleOnlyMissed
<1>1. Init => PoolsTaken
  BY AtRest DEF Init, PoolsTaken
<1>2. Control /\ PoolsTaken /\ [Next]_vars => PoolsTaken'
  <2>1. Control /\ PoolsTaken /\ UNCHANGED vars => PoolsTaken'
    BY PoolsStay DEF vars, ctx, places, threads, hist
  <2> QED
    BY <2>1, HandlerPools, DriverPools, UserPools, ClientPools DEF Next
<1>3. PoolsTaken /\ Control => IdleOnlyMissed
  <2> SUFFICES ASSUME PoolsTaken, PlacesTyped, state = "Running", NEW p \in Refilled
               PROVE  Cardinality(pool[p]) <= missed[p] + Cardinality(Refilling(p))
    BY DEF IdleOnlyMissed, Control
  <2>1. PoolBound(p) /\ p \in Paths
    BY RefilledPaths DEF PoolsTaken
  <2>2. /\ Cardinality(pool[p]) \in Nat /\ missed[p] \in Nat
        /\ \A thread : Refills(thread, p) \in {0, 1}
    BY <2>1, PoolSize
  <2>3. /\ Refills(handler, p) \in {0, 1} /\ Refills(driver, p) \in {0, 1}
        /\ Refills(user, p) \in {0, 1}
    BY <2>2
  <2> QED
    BY <2>1, <2>2, <2>3, RefillingCount DEF PoolBound
<1> QED
  BY <1>1, <1>2, <1>3, Controlled, PTL DEF Spec

-----------------------------------------------------------------------------
(* The buffers, each in one place.                                          *)

LEMMA TimesInSet ==
  ASSUME NEW S, NEW q \in Seq(S), NEW b
  PROVE  Times(q, b) > 0 <=> b \in ToSet(q)
<1>1. IsFiniteSet(Positions(q, b)) /\ Times(q, b) \in Nat
  BY TimesNat
<1>2. Times(q, b) = 0 <=> Positions(q, b) = {}
  BY <1>1, FS_EmptySet DEF Times
<1>3. Positions(q, b) = {} <=> b \notin ToSet(q)
  BY DEF Positions, ToSet
<1> QED
  BY <1>1, <1>2, <1>3

\* Is buffer c of path q buffer b of path p?
It(p, b, q, c) == IF q = p /\ c = b THEN 1 ELSE 0

LEMMA ItOnce == \A p, b, q, c : It(p, b, q, c) \in {0, 1}
BY DEF It

LEMMA NoHand ==
  ASSUME NEW t, t.buffer = NoBuffer
  PROVE  \A q \in Paths, c \in Buffers : Holds(t, q, c) = 0
BY MomAssumption DEF Holds

LEMMA WithHand ==
  ASSUME NEW t, NEW p, NEW b, t.path = p, t.buffer = b
  PROVE  \A q \in Paths, c \in Buffers : Holds(t, q, c) = It(p, b, q, c)
BY DEF Holds, It

(***************************************************************************)
(* How the places of a path change: a set or a queue of path p gets or     *)
(* loses buffer b.                                                         *)
(***************************************************************************)
SetAdds(f, g, p, b) == g = [f EXCEPT ![p] = f[p] \cup {b}]
SetDrops(f, g, p, b) == g = [f EXCEPT ![p] = f[p] \ {b}]
Appends(f, g, p, b) == g = [f EXCEPT ![p] = Append(f[p], b)]
Takes(f, g, p, b) == f[p] # <<>> /\ b = Head(f[p]) /\ g = [f EXCEPT ![p] = Tail(f[p])]

Sets == [Paths -> SUBSET Buffers]
Queues == [Paths -> Seq(Buffers)]

\* What that does to the counts.
SetMore(f, g, p, b) ==
  \A q \in Paths, c \in Buffers : Has(g[q], c) = Has(f[q], c) + It(p, b, q, c)
SetLess(f, g, p, b) ==
  \A q \in Paths, c \in Buffers : Has(g[q], c) = Has(f[q], c) - It(p, b, q, c)
QueueMore(f, g, p, b) ==
  \A q \in Paths, c \in Buffers : Times(g[q], c) = Times(f[q], c) + It(p, b, q, c)
QueueLess(f, g, p, b) ==
  \A q \in Paths, c \in Buffers : Times(g[q], c) = Times(f[q], c) - It(p, b, q, c)

LEMMA SetGets ==
  ASSUME NEW f \in Sets, NEW g, NEW p \in Paths, NEW b \in Buffers,
         SetAdds(f, g, p, b), b \notin f[p]
  PROVE  SetMore(f, g, p, b)
BY DEF SetMore, Sets, Has, It, SetAdds

LEMMA SetLoses ==
  ASSUME NEW f \in Sets, NEW g, NEW p \in Paths, NEW b \in f[p],
         SetDrops(f, g, p, b)
  PROVE  SetLess(f, g, p, b)
BY DEF SetLess, Sets, Has, It, SetDrops

LEMMA QueueGets ==
  ASSUME NEW f \in Queues, NEW g, NEW p \in Paths, NEW b \in Buffers,
         Appends(f, g, p, b)
  PROVE  QueueMore(f, g, p, b)
<1>1. ASSUME NEW q \in Paths, NEW c \in Buffers
      PROVE  Times(g[q], c) = Times(f[q], c) + It(p, b, q, c)
  <2>1. f[q] \in Seq(Buffers) /\ g[q] = IF q = p THEN Append(f[q], b) ELSE f[q]
    BY DEF Appends, Queues
  <2>2. Times(f[q], c) \in Nat
    BY <2>1, TimesNat
  <2>3. Times(Append(f[q], b), c) = Times(f[q], c) + (IF b = c THEN 1 ELSE 0)
    BY <2>1, TimesAppend
  <2> QED
    BY <2>1, <2>2, <2>3 DEF It
<1> QED
  BY <1>1 DEF QueueMore

LEMMA QueueLoses ==
  ASSUME NEW f \in Queues, NEW g, NEW p \in Paths, NEW b, Takes(f, g, p, b)
  PROVE  /\ b \in Buffers /\ Times(f[p], b) > 0
         /\ QueueLess(f, g, p, b)
<1>1. f[p] \in Seq(Buffers) /\ f[p] # <<>> /\ b = Head(f[p])
  BY DEF Takes, Queues
<1>2. /\ b \in Buffers /\ Tail(f[p]) \in Seq(Buffers)
      /\ \A c : Times(f[p], c) = Times(Tail(f[p]), c) + (IF b = c THEN 1 ELSE 0)
  BY <1>1, TimesTail
<1>3. \A c : Times(Tail(f[p]), c) \in Nat
  BY <1>2, TimesNat
<1>4. Times(f[p], b) > 0
  BY <1>2, <1>3
<1>5. ASSUME NEW q \in Paths, NEW c \in Buffers
      PROVE  Times(g[q], c) = Times(f[q], c) - It(p, b, q, c)
  <2>1. f[q] \in Seq(Buffers) /\ g[q] = IF q = p THEN Tail(f[q]) ELSE f[q]
    BY DEF Takes, Queues
  <2>2. Times(f[q], c) \in Nat
    BY <2>1, TimesNat
  <2>3. q = p => /\ Times(f[q], c) = Times(Tail(f[q]), c) + (IF b = c THEN 1 ELSE 0)
                 /\ Times(Tail(f[q]), c) \in Nat
    BY <1>2, <1>3
  <2> QED
    BY <2>1, <2>2, <2>3 DEF It
<1> QED
  BY <1>2, <1>4, <1>5 DEF QueueLess

LEMMA CountTerms ==
  ASSUME PlacesTyped, NEW p \in Paths, NEW b \in Buffers
  PROVE  /\ Has(pool[p], b) \in {0, 1} /\ Has(kept[p], b) \in {0, 1}
         /\ Has(lost[p], b) \in {0, 1} /\ Has(left[p], b) \in {0, 1}
         /\ Times(empty[p], b) \in Nat /\ Times(full[p], b) \in Nat
         /\ Times(filling[p], b) \in Nat /\ Times(out[p], b) \in Nat
         /\ Holds(handler, p, b) \in {0, 1} /\ Holds(driver, p, b) \in {0, 1}
<1>1. /\ empty[p] \in Seq(Buffers) /\ full[p] \in Seq(Buffers)
      /\ filling[p] \in Seq(Buffers) /\ out[p] \in Seq(Buffers)
  BY DEF PlacesTyped, Sets, Queues
<1>2. /\ Times(empty[p], b) \in Nat /\ Times(full[p], b) \in Nat
      /\ Times(filling[p], b) \in Nat /\ Times(out[p], b) \in Nat
  BY <1>1, TimesNat
<1> QED
  BY <1>2 DEF Has, Holds

(***************************************************************************)
(* A buffer in a queue, in a hand or kept is in no set besides.            *)
(***************************************************************************)
LEMMA Elsewhere ==
  ASSUME PlacesTyped, PlacedOnce, NEW p \in Paths, NEW b \in Buffers,
         \/ Times(empty[p], b) > 0 \/ Times(full[p], b) > 0 \/ Times(filling[p], b) > 0
         \/ Times(out[p], b) > 0 \/ Holds(handler, p, b) = 1 \/ Holds(driver, p, b) = 1
  PROVE  b \notin pool[p] /\ b \notin kept[p] /\ b \notin lost[p] /\ b \notin left[p]
<1>1. Count(p, b) = 1
  BY DEF PlacedOnce
<1>2. Has(pool[p], b) # 1 /\ Has(kept[p], b) # 1 /\ Has(lost[p], b) # 1 /\ Has(left[p], b) # 1
  BY <1>1, CountTerms DEF Count
<1> QED
  BY <1>2 DEF Has

LEMMA KeptElsewhere ==
  ASSUME PlacesTyped, PlacedOnce, NEW p \in Paths, NEW b \in kept[p]
  PROVE  b \in Buffers /\ b \notin pool[p]
<1>1. b \in Buffers
  BY DEF PlacesTyped, Sets, Queues
<1>2. Count(p, b) = 1
  BY <1>1 DEF PlacedOnce
<1>3. Has(kept[p], b) = 1
  BY DEF Has
<1>4. Has(pool[p], b) # 1
  BY <1>1, <1>2, <1>3, CountTerms DEF Count
<1> QED
  BY <1>1, <1>4 DEF Has

LEMMA SameCount ==
  ASSUME PlacedOnce, \A q \in Paths, c \in Buffers : Count(q, c)' = Count(q, c)
  PROVE  PlacedOnce'
BY DEF PlacedOnce

LEMMA CountStays ==
  ASSUME PlacedOnce, UNCHANGED places,
         \A q \in Paths, c \in Buffers : Holds(handler', q, c) = Holds(handler, q, c),
         \A q \in Paths, c \in Buffers : Holds(driver', q, c) = Holds(driver, q, c)
  PROVE  PlacedOnce'
BY SameCount DEF Count, places

(***************************************************************************)
(* Who has no buffer in hand.                                              *)
(***************************************************************************)
LEMMA HandlerHand ==
  ASSUME Threads, handler.at \notin {"list", "write", "callback"}
  PROVE  handler.buffer = NoBuffer
BY DEF Threads, HandlerMatches

LEMMA DriverHand ==
  ASSUME Threads, driver.at \notin {"write", "free"}
  PROVE  driver.buffer = NoBuffer
BY DEF Threads, CallbacksMatch

(***************************************************************************)
(* A buffer taken from a pool to be filled; a buffer freed.                *)
(***************************************************************************)
LEMMA TakenCount ==
  ASSUME PlacesTyped, PlacedOnce, NEW p \in Paths, NEW b \in pool[p],
         SetDrops(pool, pool', p, b), Appends(empty, empty', p, b),
         UNCHANGED <<full, filling, out, kept, lost, left>>,
         \A q \in Paths, c \in Buffers : Holds(handler', q, c) = Holds(handler, q, c),
         \A q \in Paths, c \in Buffers : Holds(driver', q, c) = Holds(driver, q, c)
  PROVE  PlacedOnce'
<1>1. /\ b \in Buffers /\ empty \in Queues
      /\ pool \in Sets
  BY DEF PlacesTyped, Sets, Queues
<1>2. SetLess(pool, pool', p, b)
  BY <1>1, SetLoses
<1>3. QueueMore(empty, empty', p, b)
  BY <1>1, QueueGets
<1>4. ASSUME NEW q \in Paths, NEW c \in Buffers PROVE Count(q, c)' = Count(q, c)
  <2>1. /\ Has(pool'[q], c) = Has(pool[q], c) - It(p, b, q, c)
        /\ Times(empty'[q], c) = Times(empty[q], c) + It(p, b, q, c)
        /\ Holds(handler', q, c) = Holds(handler, q, c)
        /\ Holds(driver', q, c) = Holds(driver, q, c)
        /\ UNCHANGED <<full, filling, out, kept, lost, left>>
    BY <1>2, <1>3 DEF SetMore, SetLess, QueueMore, QueueLess
  <2>2. It(p, b, q, c) \in {0, 1}
    BY ItOnce
  <2> HIDE <1>2, <1>3
  <2> QED
    BY <2>1, <2>2, CountTerms DEF Count
<1> QED
  BY <1>4, SameCount

LEMMA FreedCount ==
  ASSUME PlacesTyped, NEW p \in Paths, NEW b \in Buffers, Freed(p, b), b \notin pool[p]
  PROVE  SetMore(pool, pool', p, b)
<1>1. SetAdds(pool, pool', p, b) /\ pool \in Sets
  BY DEF Freed, PlacesTyped, Sets, Queues, SetAdds
<1> QED
  BY <1>1, SetGets

LEMMA RefillCount ==
  ASSUME PlacesTyped, PlacedOnce, NEW p \in Paths, Refill(p),
         \A q \in Paths, c \in Buffers : Holds(handler', q, c) = Holds(handler, q, c),
         \A q \in Paths, c \in Buffers : Holds(driver', q, c) = Holds(driver, q, c)
  PROVE  PlacedOnce'
<1>1. CASE UNCHANGED <<pool, empty>>
  <2>1. UNCHANGED places
    BY <1>1 DEF Refill, places
  <2> QED
    BY <2>1, CountStays
<1>2. CASE ~UNCHANGED <<pool, empty>>
  <2>1. PICK b \in pool[p] : SetDrops(pool, pool', p, b) /\ Appends(empty, empty', p, b)
    BY <1>2 DEF Refill, SetDrops, Appends
  <2>2. UNCHANGED <<full, filling, out, kept, lost, left>>
    BY DEF Refill
  <2> QED
    BY <2>1, <2>2, TakenCount
<1> QED
  BY <1>1, <1>2

LEMMA FillCount ==
  ASSUME Threads, PlacesTyped, PlacedOnce,
         HandleStart \/ FillOne \/ FillNext \/ HandleStarted
  PROVE  PlacedOnce'
<1>0. /\ handler \in HandlerType /\ UNCHANGED driver
      /\ handler.at \notin {"list", "write", "callback"}
  BY DEF HandleStart, FillOne, FillNext, HandleStarted, Executes, threads, Threads, ThreadsTyped
<1>1. handler.buffer = NoBuffer
  BY <1>0, HandlerHand
<1>2. handler'.buffer = NoBuffer
  BY <1>0, <1>1 DEF HandleStart, FillOne, FillNext, HandleStarted, HandlerType
<1>3. /\ \A q \in Paths, c \in Buffers : Holds(handler, q, c) = 0
      /\ \A q \in Paths, c \in Buffers : Holds(handler', q, c) = 0
  BY <1>1, <1>2, NoHand
<1>4. /\ \A q \in Paths, c \in Buffers : Holds(handler', q, c) = Holds(handler, q, c)
      /\ \A q \in Paths, c \in Buffers : Holds(driver', q, c) = Holds(driver, q, c)
  BY <1>0, <1>3
<1>5. CASE HandleStart \/ FillNext \/ HandleStarted
  <2>1. UNCHANGED places
    BY <1>5 DEF HandleStart, FillNext, HandleStarted
  <2> QED
    BY <1>4, <2>1, CountStays
<1>6. CASE FillOne
  <2> DEFINE p == handler.path
  <2>1. p \in Paths /\ UNCHANGED <<full, filling, out, kept, lost, left>>
    BY <1>6 DEF FillOne
  <2>2. CASE UNCHANGED <<pool, empty>>
    BY <1>4, <2>1, <2>2, CountStays DEF places
  <2>3. CASE ~UNCHANGED <<pool, empty>>
    <3>1. PICK b \in pool[p] : SetDrops(pool, pool', p, b) /\ Appends(empty, empty', p, b)
      BY <1>6, <2>3 DEF FillOne, SetDrops, Appends
    <3> HIDE DEF p
    <3> QED
      BY <1>4, <2>1, <3>1, TakenCount
  <2> QED
    BY <2>2, <2>3
<1> QED
  BY <1>5, <1>6

LEMMA FlushCount ==
  ASSUME Threads, PlacesTyped, PlacedOnce, FlushFull \/ FlushEmpty
  PROVE  PlacedOnce'
<1> DEFINE p == handler.path
<1>0. /\ p \in Paths /\ UNCHANGED <<driver, filling, out, kept, lost, left>>
      /\ handler.at \in {"flushFull", "flushEmpty"} /\ handler \in HandlerType
      /\ full \in Queues /\ empty \in Queues
  BY DEF FlushFull, FlushEmpty, Threads, ThreadsTyped, HandlerMatches, PlacesTyped, Sets, Queues
<1>1. handler.buffer = NoBuffer
  BY <1>0, HandlerHand
<1>2. handler'.buffer = NoBuffer
  <2>1. CASE FlushFull
    BY <1>0, <1>1, <2>1 DEF FlushFull, HandlerType
  <2>2. CASE FlushEmpty
    BY <1>0, <1>1, <2>2 DEF FlushEmpty, HandlerType
  <2> QED
    BY <2>1, <2>2
<1>3. /\ \A q \in Paths, c \in Buffers : Holds(handler, q, c) = 0
      /\ \A q \in Paths, c \in Buffers : Holds(handler', q, c) = 0
  BY <1>1, <1>2, NoHand
<1>4. CASE FlushFull /\ full[p] # <<>>
  <2>1. PICK b : Takes(full, full', p, b) /\ Freed(p, b) /\ UNCHANGED empty
    BY <1>0, <1>4 DEF FlushFull, Takes
  <2> HIDE DEF p
  <2>2. /\ b \in Buffers /\ Times(full[p], b) > 0
        /\ QueueLess(full, full', p, b)
    BY <1>0, <2>1, QueueLoses
  <2>3. b \notin pool[p]
    BY <1>0, <2>2, Elsewhere
  <2>4. SetMore(pool, pool', p, b)
    BY <1>0, <2>1, <2>2, <2>3, FreedCount
  <2>5. ASSUME NEW q \in Paths, NEW c \in Buffers PROVE Count(q, c)' = Count(q, c)
    <3>1. /\ Has(pool'[q], c) = Has(pool[q], c) + It(p, b, q, c)
          /\ Times(full'[q], c) = Times(full[q], c) - It(p, b, q, c)
          /\ Holds(handler', q, c) = Holds(handler, q, c)
          /\ UNCHANGED <<empty, filling, out, kept, lost, left, driver>>
      BY <1>0, <1>3, <2>1, <2>2, <2>4 DEF SetMore, SetLess, QueueMore, QueueLess
    <3>2. It(p, b, q, c) \in {0, 1}
      BY ItOnce
    <3> QED
      BY <3>1, <3>2, CountTerms DEF Count
  <2> QED
    BY <2>5, SameCount
<1>5. CASE FlushEmpty /\ empty[p] # <<>>
  <2>1. PICK b : Takes(empty, empty', p, b) /\ Freed(p, b) /\ UNCHANGED full
    BY <1>0, <1>5 DEF FlushEmpty, Takes
  <2> HIDE DEF p
  <2>2. /\ b \in Buffers /\ Times(empty[p], b) > 0
        /\ QueueLess(empty, empty', p, b)
    <3>1. p \in Paths /\ empty \in Queues /\ Takes(empty, empty', p, b)
      BY <1>0, <2>1
    <3> QED
      BY <3>1, QueueLoses
  <2>3. b \notin pool[p]
    BY <1>0, <2>2, Elsewhere
  <2>4. SetMore(pool, pool', p, b)
    BY <1>0, <2>1, <2>2, <2>3, FreedCount
  <2>5. ASSUME NEW q \in Paths, NEW c \in Buffers PROVE Count(q, c)' = Count(q, c)
    <3>1. /\ Has(pool'[q], c) = Has(pool[q], c) + It(p, b, q, c)
          /\ Times(empty'[q], c) = Times(empty[q], c) - It(p, b, q, c)
          /\ Holds(handler', q, c) = Holds(handler, q, c)
          /\ UNCHANGED <<full, filling, out, kept, lost, left, driver>>
      BY <1>0, <1>3, <2>1, <2>2, <2>4 DEF SetMore, SetLess, QueueMore, QueueLess
    <3>2. It(p, b, q, c) \in {0, 1}
      BY ItOnce
    <3> QED
      BY <3>1, <3>2, CountTerms DEF Count
  <2> QED
    BY <2>5, SameCount
<1>6. CASE \/ FlushFull /\ full[p] = <<>>
           \/ FlushEmpty /\ empty[p] = <<>>
  <2>1. UNCHANGED places
    BY <1>0, <1>6 DEF FlushFull, FlushEmpty, places
  <2> QED
    BY <1>0, <1>3, <2>1, CountStays
<1> QED
  BY <1>4, <1>5, <1>6

(***************************************************************************)
(* A full buffer in the hand of the handler, from the queue to its user.   *)
(***************************************************************************)
LEMMA HandlerHolds ==
  ASSUME Threads, handler.at \in {"list", "write", "callback"}
  PROVE  /\ handler.path \in Paths /\ handler.buffer \in Buffers
         /\ Holds(handler, handler.path, handler.buffer) = 1
         /\ \A q \in Paths, c \in Buffers :
              Holds(handler, q, c) = It(handler.path, handler.buffer, q, c)
<1>1. handler.path \in Paths /\ handler.buffer # NoBuffer /\ handler \in HandlerType
  BY FullInHand DEF Threads, HandlerMatches, ThreadsTyped
<1>2. handler.buffer \in Buffers
  BY <1>1 DEF HandlerType
<1> QED
  BY <1>1, <1>2 DEF Holds, It

LEMMA HandleFullCount ==
  ASSUME Threads, PlacesTyped, PlacedOnce, HandleFull
  PROVE  PlacedOnce'
<1> DEFINE p == handler.path
<1>0. /\ p \in Paths /\ UNCHANGED <<driver, pool, empty, filling, out, kept, lost, left>>
      /\ handler \in HandlerType /\ full \in Queues
      /\ handler.at = "execute" /\ handler.buffer = NoBuffer
  <2>1. Executes("PROC_FULL", {"Running"})
    BY DEF HandleFull
  <2>2. /\ handler \in HandlerType /\ handler.at = "execute" /\ handler.cmd.cmd = "PROC_FULL"
        /\ handler.buffer = NoBuffer
    BY <2>1, Executing
  <2> QED
    <3>1. handler.cmd \in AllCommands /\ handler.path = handler.cmd.path
      BY <2>1, <2>2, Executing DEF Threads, HandlerMatches
    <3>2. handler.path \in Paths
      BY <2>2, <3>1, Entries
    <3> QED
      BY <2>2, <3>2 DEF HandleFull, PlacesTyped, Sets, Queues
<1>1. \A q \in Paths, c \in Buffers : Holds(handler, q, c) = 0
  BY <1>0, NoHand
<1>2. CASE full[p] # <<>>
  <2>1. PICK b : /\ Takes(full, full', p, b)
                 /\ handler' = [handler EXCEPT
                      !.at = IF p \in attached THEN "list" ELSE "callback", !.buffer = b]
    BY <1>0, <1>2 DEF HandleFull, Takes
  <2>2. handler'.path = p /\ handler'.buffer = b
    BY <1>0, <2>1 DEF HandlerType
  <2> HIDE DEF p
  <2>3. /\ b \in Buffers
        /\ QueueLess(full, full', p, b)
    BY <1>0, <2>1, QueueLoses
  <2>4. \A q \in Paths, c \in Buffers : Holds(handler', q, c) = It(p, b, q, c)
    BY <2>2, WithHand
  <2>5. ASSUME NEW q \in Paths, NEW c \in Buffers PROVE Count(q, c)' = Count(q, c)
    <3>1. /\ Holds(handler', q, c) = It(p, b, q, c) /\ Holds(handler, q, c) = 0
          /\ Times(full'[q], c) = Times(full[q], c) - It(p, b, q, c)
          /\ UNCHANGED <<driver, pool, empty, filling, out, kept, lost, left>>
      BY <1>0, <1>1, <2>3, <2>4 DEF SetMore, SetLess, QueueMore, QueueLess
    <3>2. It(p, b, q, c) \in {0, 1}
      BY ItOnce
    <3> QED
      BY <3>1, <3>2, CountTerms DEF Count
  <2> QED
    BY <2>5, SameCount
<1>3. CASE full[p] = <<>>
  <2>1. UNCHANGED places /\ handler' = HandlerAt("read")
    BY <1>0, <1>3 DEF HandleFull, places
  <2>2. \A q \in Paths, c \in Buffers : Holds(handler', q, c) = 0
    BY <2>1, AtRest, NoHand
  <2> QED
    BY <1>0, <1>1, <2>1, <2>2, CountStays
<1> QED
  BY <1>2, <1>3

LEMMA LockPathCount ==
  ASSUME Threads, PlacesTyped, PlacedOnce, LockPath
  PROVE  PlacedOnce'
<1> DEFINE p == handler.path
           b == handler.buffer
<1>0. /\ UNCHANGED <<driver, pool, empty, full, filling, out, kept, left>>
      /\ handler \in HandlerType /\ lost \in Sets
      /\ handler.at = "list"
  BY DEF LockPath, Threads, ThreadsTyped, PlacesTyped, Sets, Queues
<1>1. /\ p \in Paths /\ b \in Buffers /\ Holds(handler, p, b) = 1
      /\ \A q \in Paths, c \in Buffers : Holds(handler, q, c) = It(p, b, q, c)
  BY <1>0, HandlerHolds
<1>2. CASE p \in attached
  <2>1. UNCHANGED places /\ handler' = [handler EXCEPT !.at = "write"]
    BY <1>0, <1>2 DEF LockPath, places
  <2>2. handler'.path = handler.path /\ handler'.buffer = handler.buffer
    BY <1>0, <2>1 DEF HandlerType
  <2>3. /\ \A q \in Paths, c \in Buffers : Holds(handler', q, c) = Holds(handler, q, c)
        /\ \A q \in Paths, c \in Buffers : Holds(driver', q, c) = Holds(driver, q, c)
    BY <1>0, <2>2 DEF Holds
  <2> QED
    BY <2>1, <2>3, CountStays
<1>3. CASE p \notin attached
  <2>1. SetAdds(lost, lost', p, b) /\ handler' = HandlerAt("read")
    BY <1>3 DEF LockPath, SetAdds
  <2>2. \A q \in Paths, c \in Buffers : Holds(handler', q, c) = 0
    BY <2>1, AtRest, NoHand
  <2> HIDE DEF p, b
  <2>3. b \notin lost[p]
    BY <1>1, Elsewhere
  <2>4. SetMore(lost, lost', p, b)
    BY <1>0, <1>1, <2>1, <2>3, SetGets
  <2>5. ASSUME NEW q \in Paths, NEW c \in Buffers PROVE Count(q, c)' = Count(q, c)
    <3>1. /\ Holds(handler, q, c) = It(p, b, q, c) /\ Holds(handler', q, c) = 0
          /\ Has(lost'[q], c) = Has(lost[q], c) + It(p, b, q, c)
          /\ UNCHANGED <<driver, pool, empty, full, filling, out, kept, left>>
      BY <1>0, <1>1, <2>2, <2>4 DEF SetMore, SetLess, QueueMore, QueueLess
    <3>2. It(p, b, q, c) \in {0, 1}
      BY ItOnce
    <3> QED
      BY <3>1, <3>2, CountTerms DEF Count
  <2> QED
    BY <2>5, SameCount
<1> QED
  BY <1>2, <1>3

LEMMA WriteCount ==
  ASSUME Threads, PlacesTyped, PlacedOnce, AddToMediaBufferQueue
  PROVE  PlacedOnce'
<1> DEFINE p == handler.path
           b == handler.buffer
<1>0. /\ UNCHANGED <<driver, pool, empty, full, filling, kept, lost, left>>
      /\ out \in Queues /\ Appends(out, out', p, b)
      /\ handler.at = "write" /\ handler' = HandlerAt("read")
  BY DEF AddToMediaBufferQueue, PlacesTyped, Sets, Queues, Appends
<1>1. /\ p \in Paths /\ b \in Buffers
      /\ \A q \in Paths, c \in Buffers : Holds(handler, q, c) = It(p, b, q, c)
  BY <1>0, HandlerHolds
<1>2. \A q \in Paths, c \in Buffers : Holds(handler', q, c) = 0
  BY <1>0, AtRest, NoHand
<1> HIDE DEF p, b
<1>3. QueueMore(out, out', p, b)
  BY <1>0, <1>1, QueueGets
<1>4. ASSUME NEW q \in Paths, NEW c \in Buffers PROVE Count(q, c)' = Count(q, c)
  <2>1. /\ Holds(handler, q, c) = It(p, b, q, c) /\ Holds(handler', q, c) = 0
        /\ Times(out'[q], c) = Times(out[q], c) + It(p, b, q, c)
        /\ UNCHANGED <<driver, pool, empty, full, filling, kept, lost, left>>
    BY <1>0, <1>1, <1>2, <1>3 DEF SetMore, SetLess, QueueMore, QueueLess
  <2>2. It(p, b, q, c) \in {0, 1}
    BY ItOnce
  <2> QED
    BY <2>1, <2>2, CountTerms DEF Count
<1> QED
  BY <1>4, SameCount

LEMMA CallbackCount ==
  ASSUME Threads, PlacesTyped, PlacedOnce, CallBufferCb
  PROVE  PlacedOnce'
<1> DEFINE p == handler.path
           b == handler.buffer
<1>0. /\ UNCHANGED <<driver, empty, full, filling, out, lost, left>>
      /\ kept \in Sets /\ handler \in HandlerType
      /\ handler.at = "callback"
  BY DEF CallBufferCb, Threads, ThreadsTyped, PlacesTyped, Sets, Queues
<1>1. /\ p \in Paths /\ b \in Buffers /\ Holds(handler, p, b) = 1
      /\ \A q \in Paths, c \in Buffers : Holds(handler, q, c) = It(p, b, q, c)
  BY <1>0, HandlerHolds
<1>2. \/ SetAdds(kept, kept', p, b) /\ handler' = HandlerAt("read") /\ UNCHANGED pool
      \/ /\ Freed(p, b) /\ UNCHANGED kept
         /\ handler' = [handler EXCEPT !.at = "refill", !.buffer = NoBuffer]
  BY DEF CallBufferCb, SetAdds
<1>3. handler'.buffer = NoBuffer
  <2>1. CASE handler' = HandlerAt("read")
    BY <2>1, AtRest
  <2>2. CASE handler' = [handler EXCEPT !.at = "refill", !.buffer = NoBuffer]
    BY <1>0, <2>2 DEF HandlerType
  <2> QED
    BY <1>2, <2>1, <2>2
<1>4. \A q \in Paths, c \in Buffers : Holds(handler', q, c) = 0
  BY <1>3, NoHand
<1> HIDE DEF p, b
<1>5. b \notin kept[p] /\ b \notin pool[p]
  BY <1>1, Elsewhere
<1>6. CASE SetAdds(kept, kept', p, b) /\ UNCHANGED pool
  <2>1. SetMore(kept, kept', p, b)
    BY <1>0, <1>1, <1>5, <1>6, SetGets
  <2>2. ASSUME NEW q \in Paths, NEW c \in Buffers PROVE Count(q, c)' = Count(q, c)
    <3>1. /\ Holds(handler, q, c) = It(p, b, q, c) /\ Holds(handler', q, c) = 0
          /\ Has(kept'[q], c) = Has(kept[q], c) + It(p, b, q, c)
          /\ UNCHANGED <<driver, pool, empty, full, filling, out, lost, left>>
      BY <1>0, <1>1, <1>4, <1>6, <2>1 DEF SetMore, SetLess, QueueMore, QueueLess
    <3>2. It(p, b, q, c) \in {0, 1}
      BY ItOnce
    <3> QED
      BY <3>1, <3>2, CountTerms DEF Count
  <2> QED
    BY <2>2, SameCount
<1>7. CASE Freed(p, b) /\ UNCHANGED kept
  <2>1. SetMore(pool, pool', p, b)
    BY <1>1, <1>5, <1>7, FreedCount
  <2>2. ASSUME NEW q \in Paths, NEW c \in Buffers PROVE Count(q, c)' = Count(q, c)
    <3>1. /\ Holds(handler, q, c) = It(p, b, q, c) /\ Holds(handler', q, c) = 0
          /\ Has(pool'[q], c) = Has(pool[q], c) + It(p, b, q, c)
          /\ UNCHANGED <<driver, kept, empty, full, filling, out, lost, left>>
      BY <1>0, <1>1, <1>4, <1>7, <2>1 DEF SetMore, SetLess, QueueMore, QueueLess
    <3>2. It(p, b, q, c) \in {0, 1}
      BY ItOnce
    <3> QED
      BY <3>1, <3>2, CountTerms DEF Count
  <2> QED
    BY <2>2, SameCount
<1> QED
  BY <1>2, <1>6, <1>7

(***************************************************************************)
(* The buffers in the hands of the driver and of the users.                *)
(***************************************************************************)
LEMMA DriverHolds ==
  ASSUME Threads, driver.at \in {"write", "free"}
  PROVE  /\ driver.path \in Paths /\ driver.buffer \in Buffers
         /\ Holds(driver, driver.path, driver.buffer) = 1
         /\ \A q \in Paths, c \in Buffers :
              Holds(driver, q, c) = It(driver.path, driver.buffer, q, c)
<1>1. driver.path \in Paths /\ driver.buffer \in Buffers
  BY DEF Threads, ThreadsTyped, CallbacksMatch, DriverType
<1> QED
  BY <1>1 DEF Holds, It

LEMMA RequestCount ==
  ASSUME Threads, PlacesTyped, PlacedOnce, RequestTake
  PROVE  PlacedOnce'
<1> DEFINE p == driver.path
<1>0. /\ UNCHANGED <<handler, pool, full, out, kept, lost, left>>
      /\ p \in Paths /\ driver.at = "request" /\ driver' = NoCallback
      /\ empty \in Queues /\ filling \in Queues
  BY DEF RequestTake, Threads, ThreadsTyped, CallbacksMatch, DriverType, PlacesTyped, Sets, Queues
<1>1. driver.buffer = NoBuffer /\ driver'.buffer = NoBuffer
  BY <1>0, DriverHand, AtRest
<1>2. /\ \A q \in Paths, c \in Buffers : Holds(driver, q, c) = 0
      /\ \A q \in Paths, c \in Buffers : Holds(driver', q, c) = 0
  BY <1>1, NoHand
<1>3. CASE empty[p] # <<>>
  <2>1. PICK b : Takes(empty, empty', p, b) /\ Appends(filling, filling', p, b)
    BY <1>3 DEF RequestTake, Takes, Appends
  <2> HIDE DEF p
  <2>2. /\ b \in Buffers
        /\ QueueLess(empty, empty', p, b)
    <3>1. p \in Paths /\ empty \in Queues /\ Takes(empty, empty', p, b)
      BY <1>0, <2>1
    <3> QED
      BY <3>1, QueueLoses
  <2>3. QueueMore(filling, filling', p, b)
    BY <1>0, <2>1, <2>2, QueueGets
  <2>4. ASSUME NEW q \in Paths, NEW c \in Buffers PROVE Count(q, c)' = Count(q, c)
    <3>1. /\ Holds(driver, q, c) = 0 /\ Holds(driver', q, c) = 0
          /\ Times(empty'[q], c) = Times(empty[q], c) - It(p, b, q, c)
          /\ Times(filling'[q], c) = Times(filling[q], c) + It(p, b, q, c)
          /\ UNCHANGED <<handler, pool, full, out, kept, lost, left>>
      BY <1>0, <1>2, <2>2, <2>3 DEF SetMore, SetLess, QueueMore, QueueLess
    <3>2. It(p, b, q, c) \in {0, 1}
      BY ItOnce
    <3> QED
      BY <3>1, <3>2, CountTerms DEF Count
  <2> QED
    BY <2>4, SameCount
<1>4. CASE empty[p] = <<>>
  <2>1. UNCHANGED places
    BY <1>0, <1>4 DEF RequestTake, places
  <2> QED
    BY <1>0, <1>2, <2>1, CountStays
<1> QED
  BY <1>3, <1>4

(***************************************************************************)
(* A buffer the driver gives back goes to the hand of the callback, or     *)
(* nowhere.                                                                *)
(***************************************************************************)
LEMMA EventCount ==
  ASSUME Threads, PlacesTyped, PlacedOnce, FullEvent \/ FlushedEvent
  PROVE  PlacedOnce'
<1>1. PICK p \in Paths :
        /\ DriverEvent(p)
        /\ \/ EventIgnored(p)
           \/ /\ \E l : driver' = Callback(l, p, Head(filling[p]))
              /\ UNCHANGED <<pool, lost>>
        /\ UNCHANGED <<handler, empty, full, out, kept, left>>
  BY DEF FullEvent, FlushedEvent
<1>2. PICK b : /\ Takes(filling, filling', p, b)
               /\ \/ SetAdds(lost, lost', p, b) /\ UNCHANGED <<pool, driver>>
                  \/ (\E l : driver' = Callback(l, p, b)) /\ UNCHANGED <<pool, lost>>
  BY <1>1 DEF DriverEvent, EventIgnored, Takes, SetAdds
<1>3. /\ b \in Buffers /\ Times(filling[p], b) > 0
      /\ QueueLess(filling, filling', p, b)
  <2>1. filling \in Queues /\ Takes(filling, filling', p, b)
    BY <1>2 DEF PlacesTyped, Sets, Queues
  <2> QED
    BY <2>1, QueueLoses
<1>4. b \notin lost[p]
  BY <1>3, Elsewhere
<1>5. driver.at = "idle" /\ driver.buffer = NoBuffer
  BY <1>1, DriverHand DEF DriverEvent
<1>6. \A q \in Paths, c \in Buffers : Holds(driver, q, c) = 0
  BY <1>5, NoHand
<1>7. CASE SetAdds(lost, lost', p, b) /\ UNCHANGED <<pool, driver>>
  <2>1. lost \in Sets
    BY DEF PlacesTyped, Sets, Queues
  <2>2. SetMore(lost, lost', p, b)
    BY <1>3, <1>4, <1>7, <2>1, SetGets
  <2>3. ASSUME NEW q \in Paths, NEW c \in Buffers PROVE Count(q, c)' = Count(q, c)
    <3>1. /\ Has(lost'[q], c) = Has(lost[q], c) + It(p, b, q, c)
          /\ Times(filling'[q], c) = Times(filling[q], c) - It(p, b, q, c)
          /\ UNCHANGED <<pool, driver, handler, empty, full, out, kept, left>>
      BY <1>1, <1>3, <1>7, <2>2 DEF SetMore, SetLess, QueueMore, QueueLess
    <3>2. It(p, b, q, c) \in {0, 1}
      BY ItOnce
    <3> QED
      BY <3>1, <3>2, CountTerms DEF Count
  <2> QED
    BY <2>3, SameCount
<1>8. CASE (\E l : driver' = Callback(l, p, b)) /\ UNCHANGED <<pool, lost>>
  <2>1. driver'.path = p /\ driver'.buffer = b
    BY <1>8, AtRest
  <2>2. \A q \in Paths, c \in Buffers : Holds(driver', q, c) = It(p, b, q, c)
    BY <2>1, WithHand
  <2>3. ASSUME NEW q \in Paths, NEW c \in Buffers PROVE Count(q, c)' = Count(q, c)
    <3>1. /\ Holds(driver', q, c) = It(p, b, q, c) /\ Holds(driver, q, c) = 0
          /\ Times(filling'[q], c) = Times(filling[q], c) - It(p, b, q, c)
          /\ UNCHANGED <<pool, lost, handler, empty, full, out, kept, left>>
      BY <1>1, <1>3, <1>6, <1>8, <2>2 DEF SetMore, SetLess, QueueMore, QueueLess
    <3>2. It(p, b, q, c) \in {0, 1}
      BY ItOnce
    <3> QED
      BY <3>1, <3>2, CountTerms DEF Count
  <2> QED
    BY <2>3, SameCount
<1> QED
  BY <1>2, <1>7, <1>8

LEMMA FullWriteCount ==
  ASSUME Threads, PlacesTyped, PlacedOnce, FullWrite
  PROVE  PlacedOnce'
<1> DEFINE p == driver.path
           b == driver.buffer
<1>0. /\ UNCHANGED <<handler, pool, empty, filling, out, kept, lost, left>>
      /\ full \in Queues /\ Appends(full, full', p, b)
      /\ driver.at = "write" /\ driver' = Callback("send", p, NoBuffer)
  BY DEF FullWrite, PlacesTyped, Sets, Queues, Appends
<1>1. /\ p \in Paths /\ b \in Buffers
      /\ \A q \in Paths, c \in Buffers : Holds(driver, q, c) = It(p, b, q, c)
  BY <1>0, DriverHolds
<1>2. driver'.buffer = NoBuffer
  BY <1>0, AtRest
<1>3. \A q \in Paths, c \in Buffers : Holds(driver', q, c) = 0
  BY <1>2, NoHand
<1> HIDE DEF p, b
<1>4. QueueMore(full, full', p, b)
  BY <1>0, <1>1, QueueGets
<1>5. ASSUME NEW q \in Paths, NEW c \in Buffers PROVE Count(q, c)' = Count(q, c)
  <2>1. /\ Holds(driver, q, c) = It(p, b, q, c) /\ Holds(driver', q, c) = 0
        /\ Times(full'[q], c) = Times(full[q], c) + It(p, b, q, c)
        /\ UNCHANGED <<handler, pool, empty, filling, out, kept, lost, left>>
    BY <1>0, <1>1, <1>3, <1>4 DEF SetMore, SetLess, QueueMore, QueueLess
  <2>2. It(p, b, q, c) \in {0, 1}
    BY ItOnce
  <2> QED
    BY <2>1, <2>2, CountTerms DEF Count
<1> QED
  BY <1>5, SameCount

LEMMA FlushedFreeCount ==
  ASSUME Threads, PlacesTyped, PlacedOnce, FlushedFree
  PROVE  PlacedOnce'
<1> DEFINE p == driver.path
           b == driver.buffer
<1>0. /\ UNCHANGED <<handler, empty, full, filling, out, kept, lost, left>>
      /\ Freed(p, b) /\ driver.at = "free" /\ driver' = Callback("notify", p, NoBuffer)
  BY DEF FlushedFree
<1>1. /\ p \in Paths /\ b \in Buffers /\ Holds(driver, p, b) = 1
      /\ \A q \in Paths, c \in Buffers : Holds(driver, q, c) = It(p, b, q, c)
  BY <1>0, DriverHolds
<1>2. driver'.buffer = NoBuffer
  BY <1>0, AtRest
<1>3. \A q \in Paths, c \in Buffers : Holds(driver', q, c) = 0
  BY <1>2, NoHand
<1> HIDE DEF p, b
<1>4. b \notin pool[p]
  BY <1>1, Elsewhere
<1>5. SetMore(pool, pool', p, b)
  BY <1>0, <1>1, <1>4, FreedCount
<1>6. ASSUME NEW q \in Paths, NEW c \in Buffers PROVE Count(q, c)' = Count(q, c)
  <2>1. /\ Holds(driver, q, c) = It(p, b, q, c) /\ Holds(driver', q, c) = 0
        /\ Has(pool'[q], c) = Has(pool[q], c) + It(p, b, q, c)
        /\ UNCHANGED <<handler, empty, full, filling, out, kept, lost, left>>
    BY <1>0, <1>1, <1>3, <1>5 DEF SetMore
  <2>2. It(p, b, q, c) \in {0, 1}
    BY ItOnce
  <2> QED
    BY <2>1, <2>2, CountTerms DEF Count
<1> QED
  BY <1>6, SameCount

LEMMA UserFreesCount ==
  ASSUME Threads, PlacesTyped, PlacedOnce, UserFrees
  PROVE  PlacedOnce'
<1>0. UNCHANGED <<handler, driver, empty, full, filling, lost, left>>
  BY DEF UserFrees
<1>1. PICK p \in Paths : \E b :
        \/ Takes(out, out', p, b) /\ Freed(p, b) /\ UNCHANGED kept
        \/ b \in kept[p] /\ SetDrops(kept, kept', p, b) /\ Freed(p, b) /\ UNCHANGED out
  BY DEF UserFrees, Takes, SetDrops
<1>2. PICK b :
        \/ Takes(out, out', p, b) /\ Freed(p, b) /\ UNCHANGED kept
        \/ b \in kept[p] /\ SetDrops(kept, kept', p, b) /\ Freed(p, b) /\ UNCHANGED out
  BY <1>1
<1>3. CASE Takes(out, out', p, b) /\ Freed(p, b) /\ UNCHANGED kept
  <2>1. /\ b \in Buffers /\ Times(out[p], b) > 0
        /\ QueueLess(out, out', p, b)
    <3>1. out \in Queues /\ Takes(out, out', p, b)
      BY <1>3 DEF PlacesTyped, Sets, Queues
    <3> QED
      BY <3>1, QueueLoses
  <2>2. b \notin pool[p]
    BY <2>1, Elsewhere
  <2>3. SetMore(pool, pool', p, b)
    BY <1>3, <2>1, <2>2, FreedCount
  <2>4. ASSUME NEW q \in Paths, NEW c \in Buffers PROVE Count(q, c)' = Count(q, c)
    <3>1. /\ Has(pool'[q], c) = Has(pool[q], c) + It(p, b, q, c)
          /\ Times(out'[q], c) = Times(out[q], c) - It(p, b, q, c)
          /\ UNCHANGED <<handler, driver, empty, full, filling, lost, left, kept>>
      BY <1>0, <1>3, <2>1, <2>3 DEF SetMore, SetLess, QueueMore, QueueLess
    <3>2. It(p, b, q, c) \in {0, 1}
      BY ItOnce
    <3> QED
      BY <3>1, <3>2, CountTerms DEF Count
  <2> QED
    BY <2>4, SameCount
<1>4. CASE b \in kept[p] /\ SetDrops(kept, kept', p, b) /\ Freed(p, b) /\ UNCHANGED out
  <2>1. kept \in Sets
    BY DEF PlacesTyped, Sets, Queues
  <2>2. b \in Buffers /\ b \notin pool[p]
    BY <1>4, KeptElsewhere
  <2>3. SetLess(kept, kept', p, b)
    BY <1>4, <2>1, SetLoses
  <2>4. SetMore(pool, pool', p, b)
    BY <1>4, <2>2, FreedCount
  <2>5. ASSUME NEW q \in Paths, NEW c \in Buffers PROVE Count(q, c)' = Count(q, c)
    <3>1. /\ Has(pool'[q], c) = Has(pool[q], c) + It(p, b, q, c)
          /\ Has(kept'[q], c) = Has(kept[q], c) - It(p, b, q, c)
          /\ UNCHANGED <<handler, driver, empty, full, filling, lost, left, out>>
      BY <1>0, <1>4, <2>3, <2>4 DEF SetMore, SetLess, QueueMore, QueueLess
    <3>2. It(p, b, q, c) \in {0, 1}
      BY ItOnce
    <3> QED
      BY <3>1, <3>2, CountTerms DEF Count
  <2> QED
    BY <2>5, SameCount
<1> QED
  BY <1>2, <1>3, <1>4

LEMMA OneOfThree ==
  ASSUME NEW i \in Nat, NEW j \in Nat, NEW k \in {0, 1}, NEW n \in {0, 1}, i + j + k <= 1,
         n = 1 <=> k = 1 \/ i > 0 \/ j > 0
  PROVE  n = k + i + j
OBVIOUS

LEMMA FreeCount ==
  ASSUME PlacesTyped, PlacedOnce, FreeContext
  PROVE  PlacedOnce'
<1>1. ASSUME NEW q \in Paths, NEW c \in Buffers PROVE Count(q, c)' = Count(q, c)
  <2>1. empty[q] \in Seq(Buffers) /\ full[q] \in Seq(Buffers)
    BY DEF PlacesTyped
  <2>2. /\ Times(empty[q], c) > 0 <=> c \in ToSet(empty[q])
        /\ Times(full[q], c) > 0 <=> c \in ToSet(full[q])
    BY <2>1, TimesInSet
  <2>3. empty'[q] = <<>> /\ full'[q] = <<>> /\ left'[q] = left[q] \cup InQueues(q)
        /\ UNCHANGED <<pool, filling, out, kept, lost, handler, driver>>
    BY DEF FreeContext, NoQueue
  <2>4. Times(empty'[q], c) = 0 /\ Times(full'[q], c) = 0
    BY <2>3, TimesEmpty
  <2>5. c \in left'[q] <=> c \in left[q] \/ Times(empty[q], c) > 0 \/ Times(full[q], c) > 0
    BY <2>2, <2>3 DEF InQueues
  <2>6. Count(q, c) = 1
    BY DEF PlacedOnce
  <2>7. /\ Times(empty[q], c) + Times(full[q], c) + Has(left[q], c) <= 1
        /\ Times(empty[q], c) \in Nat /\ Times(full[q], c) \in Nat /\ Has(left[q], c) \in {0, 1}
    BY <2>6, CountTerms DEF Count
  <2>8. Has(left'[q], c) = Has(left[q], c) + Times(empty[q], c) + Times(full[q], c)
    <3>1. /\ Has(left'[q], c) \in {0, 1}
          /\ Has(left'[q], c) = 1 <=> c \in left'[q]
          /\ Has(left[q], c) = 1 <=> c \in left[q]
      BY DEF Has
    <3>2. Has(left'[q], c) = 1 <=>
            Has(left[q], c) = 1 \/ Times(empty[q], c) > 0 \/ Times(full[q], c) > 0
      BY <2>5, <3>1
    <3> QED
      BY <2>7, <3>1, <3>2, OneOfThree
  <2> QED
    BY <2>3, <2>4, <2>7, <2>8, CountTerms DEF Count
<1> QED
  BY <1>1, SameCount

(***************************************************************************)
(* The steps that move no buffer.                                          *)
(***************************************************************************)
LEMMA HandsEmpty ==
  ASSUME UNCHANGED driver \/ (driver.buffer = NoBuffer /\ driver'.buffer = NoBuffer),
         UNCHANGED handler \/ (handler.buffer = NoBuffer /\ handler'.buffer = NoBuffer)
  PROVE  /\ \A q \in Paths, c \in Buffers : Holds(handler', q, c) = Holds(handler, q, c)
         /\ \A q \in Paths, c \in Buffers : Holds(driver', q, c) = Holds(driver, q, c)
<1>1. handler.buffer = NoBuffer /\ handler'.buffer = NoBuffer =>
        \A q \in Paths, c \in Buffers : Holds(handler', q, c) = 0 /\ Holds(handler, q, c) = 0
  BY NoHand
<1>2. driver.buffer = NoBuffer /\ driver'.buffer = NoBuffer =>
        \A q \in Paths, c \in Buffers : Holds(driver', q, c) = 0 /\ Holds(driver, q, c) = 0
  BY NoHand
<1> QED
  BY <1>1, <1>2

LEMMA HandlerCount ==
  ASSUME Control, PlacedOnce, Handler
  PROVE  PlacedOnce'
<1>0. Threads /\ PlacesTyped /\ handler \in HandlerType
  BY DEF Control, Threads, ThreadsTyped
<1>1. CASE \/ HandlerRead \/ HandleStop \/ HandleWrongState \/ HandleShutDown
           \/ HandlerComplete
  <2>1. handler.at \in {"read", "execute", "complete"} /\ UNCHANGED <<places, driver>>
    BY <1>1 DEF HandlerRead, HandleStop, Executes, HandleWrongState, HandleShutDown,
                HandlerComplete
  <2>2. handler.buffer = NoBuffer
    BY <1>0, <2>1, HandlerHand
  <2>3. CASE HandlerRead
    <3>1. handler'.buffer = HandlerAt("execute").buffer
      BY <2>3 DEF HandlerRead, HandlerAt
    <3> QED
      BY <2>1, <2>2, <3>1, AtRest, HandsEmpty, CountStays
  <2>4. CASE HandleStop \/ HandleWrongState
    <3>1. handler'.buffer = handler.buffer
      BY <1>0, <2>4 DEF HandleStop, HandleWrongState, HandlerType
    <3> QED
      BY <2>1, <2>2, <3>1, HandsEmpty, CountStays
  <2>5. CASE HandleShutDown \/ HandlerComplete
    <3>1. handler'.buffer = NoBuffer
      BY <2>5, AtRest DEF HandleShutDown, HandlerComplete
    <3> QED
      BY <2>1, <2>2, <3>1, HandsEmpty, CountStays
  <2> QED
    BY <1>1, <2>3, <2>4, <2>5
<1>2. CASE HandlerRefill
  <2>1. handler.at = "refill" /\ Refill(handler.path) /\ UNCHANGED driver
        /\ handler' = HandlerAt("read")
    BY <1>2 DEF HandlerRefill
  <2>2. handler.path \in Paths /\ handler.buffer = NoBuffer /\ handler'.buffer = NoBuffer
    BY <1>0, <2>1, FullInHand, AtRest
  <2> QED
    BY <1>0, <2>1, <2>2, HandsEmpty, RefillCount
<1> QED
  BY <1>0, <1>1, <1>2, FillCount, FlushCount, HandleFullCount, LockPathCount, WriteCount,
     CallbackCount DEF Handler

LEMMA DriverCount ==
  ASSUME Control, PlacedOnce, Driver
  PROVE  PlacedOnce'
<1>0. Threads /\ PlacesTyped
  BY DEF Control
<1>1. CASE MomCtrlCamerIcDrvRequestCb \/ FullSend
  <2>1. driver.at \in {"idle", "send"} /\ UNCHANGED <<places, handler>>
    BY <1>1 DEF MomCtrlCamerIcDrvRequestCb, FullSend
  <2>2. driver'.buffer = NoBuffer
    BY <1>1, AtRest DEF MomCtrlCamerIcDrvRequestCb, FullSend
  <2>3. driver.buffer = NoBuffer
    BY <1>0, <2>1, DriverHand
  <2> QED
    BY <2>1, <2>2, <2>3, HandsEmpty, CountStays
<1>2. CASE DriverRefill
  <2>1. driver.at = "refill" /\ Refill(driver.path) /\ UNCHANGED handler /\ driver' = NoCallback
    BY <1>2 DEF DriverRefill
  <2>2. driver.path \in Paths /\ driver.buffer = NoBuffer /\ driver'.buffer = NoBuffer
    BY <1>0, <2>1, DriverHand, AtRest
    DEF Threads, ThreadsTyped, CallbacksMatch, DriverType
  <2> QED
    BY <1>0, <2>1, <2>2, HandsEmpty, RefillCount
<1>3. CASE DriverNotify
  <2>1. driver.at = "notify" /\ UNCHANGED <<places, handler>>
        /\ (driver' = [driver EXCEPT !.at = "refill"] \/ driver' = NoCallback)
    BY <1>3 DEF DriverNotify, Notified
  <2>2. driver.buffer = NoBuffer
    BY <1>0, <2>1, DriverHand
  <2>3. driver'.buffer = NoBuffer
    BY <1>0, <2>1, <2>2, AtRest DEF Threads, ThreadsTyped, DriverType
  <2> QED
    BY <2>1, <2>2, <2>3, HandsEmpty, CountStays
<1> QED
  BY <1>0, <1>1, <1>2, <1>3, RequestCount, EventCount, FullWriteCount, FlushedFreeCount
  DEF Driver, DriverCallback

LEMMA UserCount ==
  ASSUME Control, PlacedOnce, User
  PROVE  PlacedOnce'
<1>0. Threads /\ PlacesTyped
  BY DEF Control
<1>1. CASE UserRefill
  <2>1. user.at = "refill" /\ Refill(user.path) /\ UNCHANGED <<handler, driver>>
    BY <1>1 DEF UserRefill
  <2>2. user.path \in Paths
    BY <1>0, <2>1 DEF Threads, ThreadsTyped, CallbacksMatch, UserType
  <2> QED
    BY <1>0, <2>1, <2>2, HandsEmpty, RefillCount
<1>2. CASE UserNotify
  <2>1. UNCHANGED <<places, handler, driver>>
    BY <1>2 DEF UserNotify
  <2> QED
    BY <2>1, HandsEmpty, CountStays
<1> QED
  BY <1>0, <1>1, <1>2, UserFreesCount DEF User

LEMMA ClientCount ==
  ASSUME Control, PlacedOnce, ClientCalls \/ Client
  PROVE  PlacedOnce'
<1>0. Threads /\ PlacesTyped
  BY DEF Control
<1>1. CASE MomCtrlInit
  <2>1. handler.at = "none"
    BY <1>0, <1>1 DEF MomCtrlInit, Threads, PhasesMatch
  <2>2. /\ handler.buffer = NoBuffer /\ handler'.buffer = NoBuffer
        /\ UNCHANGED <<places, driver>>
    BY <1>0, <1>1, <2>1, HandlerHand, AtRest DEF MomCtrlInit
  <2> QED
    BY <2>2, HandsEmpty, CountStays
<1>2. CASE \/ InitDone \/ Join \/ MomCtrlSendCommand \/ DrainOne
           \/ MomCtrlStart \/ MomCtrlStop \/ MomCtrlShutDown
           \/ MomCtrlAttachQueueToPath \/ MomCtrlDetachQueueToPath
           \/ MomCtrlRegisterBufferCb \/ MomCtrlDeRegisterBufferCb \/ MiStart \/ MiStop
  <2>1. UNCHANGED <<places, handler, driver>>
    BY <1>2
    DEF InitDone, Join, MomCtrlSendCommand, DrainOne, MomCtrlStart, MomCtrlStop,
        MomCtrlShutDown, Enter, MomCtrlAttachQueueToPath, MomCtrlDetachQueueToPath,
        MomCtrlRegisterBufferCb, MomCtrlDeRegisterBufferCb, MiStart, MiStop, SetAttached,
        SetRegistered, threads
  <2> QED
    BY <2>1, HandsEmpty, CountStays
<1> QED
  BY <1>0, <1>1, <1>2, FreeCount, DrainSplit DEF ClientCalls, Client

LEMMA InitCount == Init => PlacedOnce
<1> SUFFICES ASSUME Init, NEW q \in Paths, NEW c \in Buffers PROVE Count(q, c) = 1
  BY DEF PlacedOnce
<1>1. /\ pool[q] = Buffers /\ empty[q] = <<>> /\ full[q] = <<>> /\ filling[q] = <<>>
      /\ out[q] = <<>> /\ kept[q] = {} /\ lost[q] = {} /\ left[q] = {}
  BY DEF Init, NoQueue, NoBuffers
<1>2. handler.buffer = NoBuffer /\ driver.buffer = NoBuffer
  BY AtRest DEF Init
<1>3. Holds(handler, q, c) = 0 /\ Holds(driver, q, c) = 0
  BY <1>2, NoHand
<1>4. Times(<<>>, c) = 0
  BY TimesEmpty
<1> QED
  BY <1>1, <1>3, <1>4 DEF Count, Has

LEMMA Placed == Spec => []PlacedOnce
<1>1. Control /\ PlacedOnce /\ [Next]_vars => PlacedOnce'
  <2>1. Control /\ PlacedOnce /\ UNCHANGED vars => PlacedOnce'
    BY HandsEmpty, CountStays DEF vars, threads
  <2> QED
    BY <2>1, HandlerCount, DriverCount, UserCount, ClientCount DEF Next
<1> QED
  BY <1>1, InitCount, Controlled, PTL DEF Spec

-----------------------------------------------------------------------------
(* Counted once, the buffers of a path add up.                              *)

LEMMA UnionSize ==
  ASSUME NEW S, NEW T, IsFiniteSet(S), IsFiniteSet(T), \A c \in S : c \notin T
  PROVE  /\ IsFiniteSet(S \cup T) /\ Cardinality(S \cup T) = Cardinality(S) + Cardinality(T)
         /\ Cardinality(S) \in Nat /\ Cardinality(T) \in Nat
<1>1. S \cap T = {}
  OBVIOUS
<1>2. Cardinality(S) \in Nat /\ Cardinality(T) \in Nat /\ Cardinality({}) = 0
  BY FS_CardinalityType, FS_EmptySet
<1>3. /\ IsFiniteSet(S \cup T)
      /\ Cardinality(S \cup T) = Cardinality(S) + Cardinality(T) - Cardinality(S \cap T)
  BY FS_Union
<1>4. Cardinality(S \cap T) = 0
  BY <1>1, <1>2
<1> QED
  BY <1>2, <1>3, <1>4

LEMMA PairSize ==
  ASSUME NEW i, NEW j, i # j
  PROVE  Cardinality({i} \cup {j}) = 2
<1>1. /\ IsFiniteSet({i}) /\ Cardinality({i}) = 1
      /\ IsFiniteSet({j}) /\ Cardinality({j}) = 1
  BY FS_Singleton
<1>2. \A c \in {i} : c \notin {j}
  OBVIOUS
<1>3. Cardinality({i} \cup {j}) = Cardinality({i}) + Cardinality({j})
  BY <1>1, <1>2, UnionSize
<1> QED
  BY <1>1, <1>3

(***************************************************************************)
(* A queue that has no buffer twice has as many entries as buffers.        *)
(***************************************************************************)
LEMMA NoneTwice ==
  ASSUME NEW q \in Seq(Buffers), \A b \in Buffers : Times(q, b) <= 1
  PROVE  /\ IsFiniteSet(ToSet(q)) /\ Cardinality(ToSet(q)) = Len(q)
         /\ ToSet(q) \subseteq Buffers
<1>1. /\ Len(q) \in Nat /\ DOMAIN q = 1 .. Len(q) /\ \A i \in 1 .. Len(q) : q[i] \in Buffers
  OBVIOUS
<1>2. ToSet(q) = {q[i] : i \in 1 .. Len(q)} /\ ToSet(q) \subseteq Buffers
  BY <1>1 DEF ToSet
<1>3. ASSUME NEW i \in 1 .. Len(q), NEW j \in 1 .. Len(q), q[i] = q[j] PROVE i = j
  <2>1. {i} \cup {j} \subseteq Positions(q, q[i])
    BY <1>1, <1>3 DEF Positions
  <2>2. IsFiniteSet(Positions(q, q[i])) /\ Times(q, q[i]) \in Nat
    BY TimesNat
  <2>3. Cardinality({i} \cup {j}) <= Times(q, q[i])
    BY <2>1, <2>2, FS_Subset DEF Times
  <2>4. Times(q, q[i]) <= 1
    BY <1>1
  <2>5. ASSUME i # j PROVE Cardinality({i} \cup {j}) = 2
    BY <2>5, PairSize
  <2>6. ASSUME i # j PROVE FALSE
    BY <2>2, <2>3, <2>4, <2>5, <2>6
  <2> QED
    BY <2>6
<1>4. IsFiniteSet(1 .. Len(q)) /\ Cardinality(1 .. Len(q)) = Len(q)
  <2>1. 1 \in Int /\ Len(q) \in Int
    BY <1>1
  <2>2. /\ IsFiniteSet(1 .. Len(q))
        /\ Cardinality(1 .. Len(q)) = IF 1 > Len(q) THEN 0 ELSE Len(q) - 1 + 1
    BY <2>1, FS_Interval
  <2> QED
    BY <1>1, <2>2
<1> DEFINE f == [i \in 1 .. Len(q) |-> q[i]]
<1>5. f \in Bijection(1 .. Len(q), ToSet(q))
  <2>1. \A i \in 1 .. Len(q) : f[i] \in ToSet(q)
    BY <1>2
  <2>2. \A i, j \in 1 .. Len(q) : f[i] = f[j] => i = j
    BY <1>3
  <2>3. \A c \in ToSet(q) : \E i \in 1 .. Len(q) : f[i] = c
    BY <1>2
  <2> QED
    BY <2>1, <2>2, <2>3 DEF Bijection, Injection, Surjection, IsInjective
<1> QED
  BY <1>2, <1>4, <1>5, FS_Bijection DEF ExistsBijection

(***************************************************************************)
(* A count above zero says where a buffer is.                              *)
(***************************************************************************)
LEMMA Whereabouts ==
  ASSUME PlacesTyped, NEW p \in Paths, NEW c \in Buffers
  PROVE  /\ Has(pool[p], c) > 0 <=> c \in pool[p]
         /\ Has(kept[p], c) > 0 <=> c \in kept[p]
         /\ Has(lost[p], c) > 0 <=> c \in lost[p]
         /\ Has(left[p], c) > 0 <=> c \in left[p]
         /\ Times(empty[p], c) > 0 <=> c \in ToSet(empty[p])
         /\ Times(full[p], c) > 0 <=> c \in ToSet(full[p])
         /\ Times(filling[p], c) > 0 <=> c \in ToSet(filling[p])
         /\ Times(out[p], c) > 0 <=> c \in ToSet(out[p])
         /\ Holds(handler, p, c) + Holds(driver, p, c) > 0 <=> c \in InHand(p)
<1>1. /\ empty[p] \in Seq(Buffers) /\ full[p] \in Seq(Buffers)
      /\ filling[p] \in Seq(Buffers) /\ out[p] \in Seq(Buffers)
  BY DEF PlacesTyped
<1>2. /\ Times(empty[p], c) > 0 <=> c \in ToSet(empty[p])
      /\ Times(full[p], c) > 0 <=> c \in ToSet(full[p])
      /\ Times(filling[p], c) > 0 <=> c \in ToSet(filling[p])
      /\ Times(out[p], c) > 0 <=> c \in ToSet(out[p])
  BY <1>1, TimesInSet
<1>3. \A s : Has(s, c) > 0 <=> c \in s
  BY DEF Has
<1>4. Holds(handler, p, c) + Holds(driver, p, c) > 0 <=> c \in InHand(p)
  BY DEF Holds, InHand
<1> QED
  BY <1>2, <1>3, <1>4

LEMMA AddsUp ==
  ASSUME PlacesTyped, PlacedOnce
  PROVE  OneOwner
<1> SUFFICES ASSUME NEW p \in Paths
             PROVE  /\ Buffers = pool[p] \cup InQueues(p) \cup ToSet(filling[p])
                         \cup ToSet(out[p]) \cup kept[p] \cup lost[p] \cup left[p] \cup InHand(p)
                    /\ Cardinality(Buffers) =
                         Cardinality(pool[p]) + Len(empty[p]) + Len(full[p]) + Len(filling[p])
                         + Len(out[p]) + Cardinality(kept[p]) + Cardinality(lost[p])
                         + Cardinality(left[p]) + Cardinality(InHand(p))
  BY DEF OneOwner
<1> DEFINE E == ToSet(empty[p])
           F == ToSet(full[p])
           G == ToSet(filling[p])
           O == ToSet(out[p])
           H == InHand(p)
           A == pool[p]
           K == kept[p]
           L == lost[p]
           M == left[p]
<1>1. \A c \in Buffers :
        /\ Has(pool[p], c) + Times(empty[p], c) + Times(full[p], c) + Times(filling[p], c)
           + Times(out[p], c) + Has(kept[p], c) + Has(lost[p], c) + Has(left[p], c)
           + Holds(handler, p, c) + Holds(driver, p, c) = 1
        /\ Has(pool[p], c) \in Nat /\ Has(kept[p], c) \in Nat
        /\ Has(lost[p], c) \in Nat /\ Has(left[p], c) \in Nat
        /\ Times(empty[p], c) \in Nat /\ Times(full[p], c) \in Nat
        /\ Times(filling[p], c) \in Nat /\ Times(out[p], c) \in Nat
        /\ Holds(handler, p, c) \in Nat /\ Holds(driver, p, c) \in Nat
  BY CountTerms DEF PlacedOnce, Count
<1>2. /\ empty[p] \in Seq(Buffers) /\ full[p] \in Seq(Buffers)
      /\ filling[p] \in Seq(Buffers) /\ out[p] \in Seq(Buffers)
      /\ A \subseteq Buffers /\ K \subseteq Buffers /\ L \subseteq Buffers
      /\ M \subseteq Buffers /\ H \subseteq Buffers
  BY DEF PlacesTyped, InHand
<1>3. \A c \in Buffers : /\ Times(empty[p], c) <= 1 /\ Times(full[p], c) <= 1
                         /\ Times(filling[p], c) <= 1 /\ Times(out[p], c) <= 1
  BY <1>1
<1>4. /\ IsFiniteSet(E) /\ Cardinality(E) = Len(empty[p]) /\ E \subseteq Buffers
      /\ IsFiniteSet(F) /\ Cardinality(F) = Len(full[p]) /\ F \subseteq Buffers
      /\ IsFiniteSet(G) /\ Cardinality(G) = Len(filling[p]) /\ G \subseteq Buffers
      /\ IsFiniteSet(O) /\ Cardinality(O) = Len(out[p]) /\ O \subseteq Buffers
  BY <1>2, <1>3, NoneTwice
<1>5. /\ IsFiniteSet(A) /\ IsFiniteSet(K) /\ IsFiniteSet(L) /\ IsFiniteSet(M) /\ IsFiniteSet(H)
  BY <1>2, MomAssumption, FS_Subset
<1>6. \A c \in Buffers :
        /\ Has(pool[p], c) > 0 <=> c \in A
        /\ Has(kept[p], c) > 0 <=> c \in K
        /\ Has(lost[p], c) > 0 <=> c \in L
        /\ Has(left[p], c) > 0 <=> c \in M
        /\ Times(empty[p], c) > 0 <=> c \in E
        /\ Times(full[p], c) > 0 <=> c \in F
        /\ Times(filling[p], c) > 0 <=> c \in G
        /\ Times(out[p], c) > 0 <=> c \in O
        /\ Holds(handler, p, c) + Holds(driver, p, c) > 0 <=> c \in H
  BY Whereabouts
<1>7. InQueues(p) = E \cup F
  BY DEF InQueues
<1> HIDE DEF A, E, F, G, O, K, L, M, H
<1>8. ASSUME NEW c \in Buffers
      PROVE  c \in A \/ c \in E \/ c \in F \/ c \in G \/ c \in O \/ c \in K \/ c \in L
             \/ c \in M \/ c \in H
  BY <1>1, <1>6
<1>9. ASSUME NEW c \in Buffers
      PROVE  /\ ~(c \in A /\ c \in E)
             /\ ~((c \in A \/ c \in E) /\ c \in F)
             /\ ~((c \in A \/ c \in E \/ c \in F) /\ c \in G)
             /\ ~((c \in A \/ c \in E \/ c \in F \/ c \in G) /\ c \in O)
             /\ ~((c \in A \/ c \in E \/ c \in F \/ c \in G \/ c \in O) /\ c \in K)
             /\ ~((c \in A \/ c \in E \/ c \in F \/ c \in G \/ c \in O \/ c \in K) /\ c \in L)
             /\ ~((c \in A \/ c \in E \/ c \in F \/ c \in G \/ c \in O \/ c \in K \/ c \in L)
                  /\ c \in M)
             /\ ~((c \in A \/ c \in E \/ c \in F \/ c \in G \/ c \in O \/ c \in K \/ c \in L
                   \/ c \in M) /\ c \in H)
  BY <1>1, <1>6
<1> DEFINE U2 == A \cup E
           U3 == U2 \cup F
           U4 == U3 \cup G
           U5 == U4 \cup O
           U6 == U5 \cup K
           U7 == U6 \cup L
           U8 == U7 \cup M
           U9 == U8 \cup H
<1>10. Buffers = U9
  BY <1>2, <1>4, <1>8
<1>11. /\ \A c \in A : c \notin E
       /\ \A c \in U2 : c \notin F
       /\ \A c \in U3 : c \notin G
       /\ \A c \in U4 : c \notin O
       /\ \A c \in U5 : c \notin K
       /\ \A c \in U6 : c \notin L
       /\ \A c \in U7 : c \notin M
       /\ \A c \in U8 : c \notin H
  BY <1>2, <1>4, <1>9
<1>12. IsFiniteSet(U2) /\ Cardinality(U2) = Cardinality(A) + Cardinality(E)
       /\ Cardinality(A) \in Nat /\ Cardinality(E) \in Nat
  BY <1>4, <1>5, <1>11, UnionSize
<1>13. IsFiniteSet(U3) /\ Cardinality(U3) = Cardinality(U2) + Cardinality(F)
       /\ Cardinality(F) \in Nat
  BY <1>4, <1>11, <1>12, UnionSize
<1>14. IsFiniteSet(U4) /\ Cardinality(U4) = Cardinality(U3) + Cardinality(G)
       /\ Cardinality(G) \in Nat
  BY <1>4, <1>11, <1>13, UnionSize
<1>15. IsFiniteSet(U5) /\ Cardinality(U5) = Cardinality(U4) + Cardinality(O)
       /\ Cardinality(O) \in Nat
  BY <1>4, <1>11, <1>14, UnionSize
<1>16. IsFiniteSet(U6) /\ Cardinality(U6) = Cardinality(U5) + Cardinality(K)
       /\ Cardinality(K) \in Nat
  BY <1>5, <1>11, <1>15, UnionSize
<1>17. IsFiniteSet(U7) /\ Cardinality(U7) = Cardinality(U6) + Cardinality(L)
       /\ Cardinality(L) \in Nat
  BY <1>5, <1>11, <1>16, UnionSize
<1>18. IsFiniteSet(U8) /\ Cardinality(U8) = Cardinality(U7) + Cardinality(M)
       /\ Cardinality(M) \in Nat
  BY <1>5, <1>11, <1>17, UnionSize
<1>19. IsFiniteSet(U9) /\ Cardinality(U9) = Cardinality(U8) + Cardinality(H)
       /\ Cardinality(H) \in Nat
  BY <1>5, <1>11, <1>18, UnionSize
<1> HIDE DEF U2, U3, U4, U5, U6, U7, U8
<1>20. Cardinality(Buffers) =
         Cardinality(A) + Len(empty[p]) + Len(full[p]) + Len(filling[p]) + Len(out[p])
         + Cardinality(K) + Cardinality(L) + Cardinality(M) + Cardinality(H)
  BY <1>4, <1>10, <1>12, <1>13, <1>14, <1>15, <1>16, <1>17, <1>18, <1>19
<1>21. Buffers = A \cup (E \cup F) \cup G \cup O \cup K \cup L \cup M \cup H
  BY <1>10 DEF U2, U3, U4, U5, U6, U7, U8
<1> QED
  BY <1>7, <1>20, <1>21 DEF A, G, O, H, K, L, M

(***************************************************************************)
(* No race of a STOP with the callbacks gives a buffer two owners or makes *)
(* it vanish: each buffer of each path is in one place.                    *)
(***************************************************************************)
THEOREM OwnedOnce == Spec => []OneOwner
<1>1. Control /\ PlacedOnce => OneOwner
  BY AddsUp DEF Control
<1> QED
  BY <1>1, Placed, Controlled, PTL

-----------------------------------------------------------------------------
(* A client that stops the driver before the control.                       *)

LEMMA AnnounceOrStop ==
  /\ \A p, q \in Paths : Announce(p) = Announce(q) => p = q
  /\ \A p \in Paths, k \in Commands \cup {"SHUTDOWN"} : Announce(p) # Request(k)
  /\ \A p \in Paths : Announce(p) # NoCommand
  /\ Request("STOP") # NoCommand /\ Request("STOP") # Request("START")
  /\ Request("STOP") # Request("SHUTDOWN") /\ Request("STOP").cmd = "STOP"
BY DEF Announce, Request, NoCommand, Command, Commands

(***************************************************************************)
(* A step that neither moves a full buffer nor touches the queue or the    *)
(* driver.                                                                 *)
(***************************************************************************)
LEMMA OrderKept ==
  ASSUME Ordered, UNCHANGED <<queue, full, lost, driver, on, filling>>,
         Stopping' => DriverQuiet,
         state' # "Running" => handler'.cmd.cmd # "PROC_FULL",
         state' # "Running" \/ handler'.cmd = Request("STOP") =>
           state # "Running" \/ handler.cmd = Request("STOP"),
         handler'.at = "list" => handler'.path \in attached',
         \A p \in Paths : Handling(p)' = Handling(p)
  PROVE  Ordered'
<1>1. DriverQuiet' = DriverQuiet
  BY DEF DriverQuiet
<1>2. NoneBehindStop' = NoneBehindStop
  BY DEF NoneBehindStop
<1>3. \A p \in Paths : Announced(p)' = Announced(p)
  BY DEF Announced, Sending
<1> QED
  BY <1>1, <1>2, <1>3 DEF Ordered

(***************************************************************************)
(* A step of the driver, or of its start and stop.                         *)
(***************************************************************************)
LEMMA DriverOrder ==
  ASSUME Ordered, Threads, UNCHANGED <<state, queue, attached, client, handler, pending, lost>>,
         Stopping => DriverQuiet',
         \A p \in Paths : Len(full'[p]) - Sending(p)' = Len(full[p]) - Sending(p)
                          /\ Len(full'[p]) \in Nat /\ Len(full[p]) \in Nat
  PROVE  Ordered'
<1>1. Stopping' = Stopping /\ NoneBehindStop' = NoneBehindStop
  BY DEF Stopping, NoneBehindStop
<1>2. ASSUME NEW p \in Paths PROVE Len(full'[p]) = Announced(p)'
  <2>1. Len(full[p]) = Times(queue, Announce(p)) + Handling(p) + Sending(p)
    BY DEF Ordered, Announced
  <2>2. Sending(p) \in {0, 1} /\ Sending(p)' \in {0, 1} /\ Handling(p)' = Handling(p)
        /\ Handling(p) \in {0, 1}
    BY DEF Sending, Handling
  <2>3. Announced(p)' = Times(queue, Announce(p)) + Handling(p) + Sending(p)'
    BY <2>2 DEF Announced
  <2>4. Len(full'[p]) - Sending(p)' = Len(full[p]) - Sending(p)
        /\ Len(full'[p]) \in Nat /\ Len(full[p]) \in Nat
    OBVIOUS
  <2>5. Times(queue, Announce(p)) \in Nat
    BY TimesNat DEF Threads, ThreadsTyped
  <2> QED
    BY <2>1, <2>2, <2>3, <2>4, <2>5
<1> QED
  BY <1>1, <1>2 DEF Ordered

(***************************************************************************)
(* A driver that is not quiet: the control runs and nobody stops it.       *)
(***************************************************************************)
LEMMA NotStopping ==
  ASSUME Ordered, Threads, ~DriverQuiet
  PROVE  /\ ~Stopping /\ state = "Running" /\ pending["STOP"] = 0
         /\ handler.cmd # Request("STOP") /\ Times(queue, Request("STOP")) = 0
<1>1. ~Stopping /\ state = "Running" /\ pending["STOP"] = 0
  BY DEF Ordered, Stopping
<1>2. pending["STOP"] = Times(queue, Request("STOP"))
                         + (IF handler.cmd.cmd = "STOP" THEN 1 ELSE 0)
  BY DEF Threads, CommandsMatch, Commands
<1>3. Times(queue, Request("STOP")) \in Nat
  BY TimesNat DEF Threads, ThreadsTyped
<1> QED
  BY <1>1, <1>2, <1>3, AnnounceOrStop

LEMMA FullLengths ==
  ASSUME PlacesTyped, NEW p \in Paths
  PROVE  full[p] \in Seq(Buffers) /\ Len(full[p]) \in Nat /\ (Len(full[p]) = 0 <=> full[p] = <<>>)
BY DEF PlacesTyped

LEMMA DriverOrdered ==
  ASSUME Control, Ordered, Driver \/ MiStart \/ MiStop, Orderly
  PROVE  Ordered'
<1>0. Threads /\ PlacesTyped
  BY DEF Control
<1>1. \A p \in Paths : Len(full[p]) \in Nat
  BY <1>0, FullLengths
<1>2. CASE MiStart
  <2>1. state = "Running" /\ NothingPending /\ client.at = "idle"
    BY <1>2 DEF MiStart, Usable
  <2>2. client.cmd = NoCommand /\ pending["STOP"] = 0
    BY <1>0, <2>1 DEF Threads, PhasesMatch, NothingPending, Commands
  <2>3. ~Stopping
    BY <2>1, <2>2, AnnounceOrStop DEF Stopping
  <2>4. UNCHANGED <<state, queue, attached, client, handler, pending, lost, full, driver>>
    BY <1>2 DEF MiStart, ctx, places, hist
  <2> QED
    BY <1>0, <1>1, <2>3, <2>4, DriverOrder DEF Sending
<1>3. CASE MiStop
  <2>1. UNCHANGED <<state, queue, attached, client, handler, pending, lost, full, driver, filling>>
        /\ ~on'
    BY <1>3 DEF MiStop, ctx, places, hist
  <2>2. Stopping => DriverQuiet'
    BY <2>1 DEF Ordered, DriverQuiet
  <2> QED
    BY <1>0, <1>1, <2>1, <2>2, DriverOrder DEF Sending
<1>4. CASE MomCtrlCamerIcDrvRequestCb
  <2>1. on /\ driver.at = "idle" /\ driver'.at = "request"
    BY <1>4, AtRest DEF MomCtrlCamerIcDrvRequestCb
  <2>2. ~Stopping
    BY <1>0, <2>1, NotStopping DEF DriverQuiet
  <2>3. UNCHANGED <<state, queue, attached, client, handler, pending, lost, full>>
    BY <1>4 DEF MomCtrlCamerIcDrvRequestCb, ctx, places, hist
  <2>4. \A p \in Paths : Sending(p) = 0 /\ Sending(p)' = 0
    BY <2>1 DEF Sending
  <2> QED
    BY <1>0, <1>1, <2>2, <2>3, <2>4, DriverOrder
<1>5. CASE RequestTake \/ FlushedFree \/ DriverNotify \/ DriverRefill
  <2>1. /\ driver.at \in {"request", "free", "notify", "refill"}
        /\ driver'.at \in {"idle", "notify", "refill"}
    <3>1. driver \in DriverType
      BY <1>0 DEF Threads, ThreadsTyped
    <3> QED
      BY <1>5, <3>1, AtRest
      DEF RequestTake, FlushedFree, DriverNotify, Notified, DriverRefill, DriverType
  <2>2. ~Stopping
    BY <1>0, <2>1, NotStopping DEF DriverQuiet
  <2>3. UNCHANGED <<state, queue, attached, client, handler, pending, lost, full>>
    BY <1>5 DEF RequestTake, FlushedFree, DriverNotify, DriverRefill, Refill, ctx, places, hist
  <2>4. \A p \in Paths : Sending(p) = 0 /\ Sending(p)' = 0
    BY <2>1 DEF Sending
  <2> QED
    BY <1>0, <1>1, <2>2, <2>3, <2>4, DriverOrder
<1>6. CASE FullEvent \/ FlushedEvent
  <2>1. PICK q \in Paths : DriverEvent(q)
    BY <1>6 DEF FullEvent, FlushedEvent
  <2>2. ~Stopping /\ state = "Running"
    BY <1>0, <2>1, NotStopping DEF DriverQuiet, DriverEvent
  <2>3. UNCHANGED <<state, queue, attached, client, handler, pending, lost, full>>
    BY <1>6, <2>2 DEF FullEvent, FlushedEvent, EventIgnored, ctx, hist
  <2>4. driver.at = "idle" /\ driver'.at \in {"write", "free"}
    BY <1>6, <2>2, AtRest DEF FullEvent, FlushedEvent, EventIgnored, DriverEvent
  <2>5. \A p \in Paths : Sending(p) = 0 /\ Sending(p)' = 0
    BY <2>4 DEF Sending
  <2> QED
    BY <1>0, <1>1, <2>2, <2>3, <2>5, DriverOrder
<1>7. CASE FullWrite
  <2> DEFINE q == driver.path
  <2>1. /\ driver.at = "write" /\ full' = [full EXCEPT ![q] = Append(@, driver.buffer)]
        /\ driver' = Callback("send", q, NoBuffer)
        /\ UNCHANGED <<state, queue, attached, client, handler, pending, lost>>
    BY <1>7 DEF FullWrite, ctx
  <2>2. driver'.at = "send" /\ driver'.path = q
    BY <2>1, AtRest
  <2>3. ~Stopping
    BY <1>0, <2>1, NotStopping DEF DriverQuiet
  <2>4. q \in Paths /\ driver.buffer \in Buffers
    BY <1>0, <2>1, DriverHolds
  <2>5. ASSUME NEW p \in Paths
        PROVE  Len(full'[p]) - Sending(p)' = Len(full[p]) - Sending(p) /\ Len(full'[p]) \in Nat
    <3>1. full[p] \in Seq(Buffers) /\ Len(full[p]) \in Nat
          /\ full'[p] = IF p = q THEN Append(full[p], driver.buffer) ELSE full[p]
      BY <1>0, <2>1 DEF PlacesTyped
    <3>2. Len(Append(full[p], driver.buffer)) = Len(full[p]) + 1
      BY <2>4, <3>1, AppendProperties
    <3>3. Sending(p) = 0 /\ Sending(p)' = IF p = q THEN 1 ELSE 0
      BY <2>1, <2>2 DEF Sending
    <3>4. Len(full'[p]) = Len(full[p]) + (IF p = q THEN 1 ELSE 0)
      <4>1. CASE p = q
        BY <3>1, <3>2, <3>3, <4>1
      <4>2. CASE p # q
        BY <3>1, <3>3, <4>2
      <4> QED
        BY <4>1, <4>2
    <3>5. CASE p = q
      BY <3>1, <3>3, <3>4, <3>5
    <3>6. CASE p # q
      BY <3>1, <3>3, <3>4, <3>6
    <3> QED
      BY <3>5, <3>6
  <2> QED
    BY <1>0, <1>1, <2>1, <2>3, <2>5, DriverOrder
<1>8. CASE FullSend
  <2> DEFINE q == driver.path
  <2>1. /\ driver.at = "send" /\ driver' = NoCallback
        /\ UNCHANGED <<state, attached, client, handler, pending, lost, full, filling, on>>
        /\ state # "Invalid" => Queued(Announce(q))
    BY <1>8 DEF FullSend, places, hist, Announce
  <2>2. /\ ~Stopping /\ state = "Running" /\ handler.cmd # Request("STOP")
        /\ Times(queue, Request("STOP")) = 0
    BY <1>0, <2>1, NotStopping DEF DriverQuiet
  <2>3. q \in Paths
    BY <1>0, <2>1 DEF Threads, ThreadsTyped, CallbacksMatch, DriverType
  <2>4. /\ queue \in Seq(AllCommands) /\ Announce(q) \in AllCommands
        /\ queue' = Append(queue, Announce(q))
    BY <1>0, <2>1, <2>2, <2>3, Entries DEF Threads, ThreadsTyped, Queued
  <2>5. driver'.at = "idle"
    BY <2>1, AtRest
  <2>6. ASSUME NEW p \in Paths PROVE Announced(p)' = Announced(p)
    <3>1. Times(queue', Announce(p)) = Times(queue, Announce(p))
                                       + (IF Announce(q) = Announce(p) THEN 1 ELSE 0)
      BY <2>4, TimesAppend
    <3>2. Announce(q) = Announce(p) <=> q = p
      BY <2>3, AnnounceOrStop
    <3>3. Sending(p) = (IF q = p THEN 1 ELSE 0) /\ Sending(p)' = 0
      BY <2>1, <2>5 DEF Sending
    <3>4. Times(queue, Announce(p)) \in Nat /\ Handling(p) \in {0, 1} /\ Handling(p)' = Handling(p)
      BY <2>1, <2>4, TimesNat DEF Handling
    <3> QED
      BY <3>1, <3>2, <3>3, <3>4 DEF Announced
  <2>7. NoneBehindStop'
    <3>1. \A i \in DOMAIN queue : queue[i] # Request("STOP")
      <4>1. IsFiniteSet(Positions(queue, Request("STOP")))
        BY <2>4, TimesNat
      <4>2. Positions(queue, Request("STOP")) = {}
        BY <2>2, <4>1, FS_EmptySet DEF Times
      <4> QED
        BY <4>2 DEF Positions
    <3>2. \A i \in DOMAIN queue' : queue'[i] # Request("STOP")
      <4>1. /\ Len(queue) \in Nat /\ DOMAIN queue = 1 .. Len(queue)
            /\ DOMAIN queue' = 1 .. Len(queue) + 1 /\ queue'[Len(queue) + 1] = Announce(q)
            /\ \A i \in 1 .. Len(queue) : queue'[i] = queue[i]
        BY <2>4, AppendProperties
      <4>2. Announce(q) # Request("STOP")
        BY <2>3, AnnounceOrStop DEF Commands
      <4> QED
        BY <3>1, <4>1, <4>2
    <3> QED
      BY <3>2 DEF NoneBehindStop
  <2>8. ~Stopping'
    BY <2>1, <2>2 DEF Stopping
  <2> QED
    BY <2>1, <2>2, <2>6, <2>7, <2>8 DEF Ordered
<1> QED
  BY <1>2, <1>3, <1>4, <1>5, <1>6, <1>7, <1>8 DEF Driver, DriverCallback

(***************************************************************************)
(* The flush has no full buffer to free.                                   *)
(***************************************************************************)
LEMMA NoneToFlush ==
  ASSUME Control, Ordered, handler.at \in {"flushFull", "flushEmpty"}
  PROVE  \A p \in Paths : full[p] = <<>>
<1>1. state = "Stopped" /\ Threads /\ PlacesTyped
  BY DEF Control, Threads, HandlerMatches
<1>2. driver.at = "idle" /\ \A p \in Paths : Times(queue, Announce(p)) = 0
  BY <1>1 DEF Ordered, Stopping, DriverQuiet
<1>3. \A p \in Paths : Sending(p) = 0 /\ Handling(p) = 0
  BY <1>2 DEF Sending, Handling
<1>4. \A p \in Paths : Len(full[p]) = 0
  BY <1>2, <1>3 DEF Ordered, Announced
<1> QED
  BY <1>1, <1>4, FullLengths

LEMMA ReadOrder ==
  ASSUME Control, Ordered, HandlerRead
  PROVE  Ordered'
<1> DEFINE h == Head(queue)
<1>0. Threads /\ queue \in Seq(AllCommands) /\ queue # <<>>
  BY DEF Control, Threads, ThreadsTyped, HandlerRead
<1>1. /\ handler.at = "read" /\ queue' = Tail(queue)
      /\ UNCHANGED <<state, attached, client, driver, on, filling, lost, full, pending>>
  BY DEF HandlerRead, places, hist
<1>2. handler'.at = "execute" /\ handler'.cmd = h
  BY DEF HandlerRead, HandlerAt
<1>3. /\ h \in AllCommands /\ queue' \in Seq(AllCommands)
      /\ Len(queue) \in Nat /\ Len(queue) >= 1 /\ h = queue[1]
      /\ DOMAIN queue = 1 .. Len(queue) /\ DOMAIN queue' = 1 .. Len(queue) - 1
      /\ \A i \in 1 .. Len(queue) - 1 : queue'[i] = queue[i + 1]
  BY <1>0, <1>1, HeadTailProperties
<1>4. \A p \in Paths :
        /\ Times(queue, Announce(p)) = Times(queue', Announce(p))
                                       + (IF h = Announce(p) THEN 1 ELSE 0)
        /\ Times(queue, Announce(p)) \in Nat /\ Times(queue', Announce(p)) \in Nat
  BY <1>0, <1>1, <1>3, TimesTail, TimesNat
<1> HIDE DEF h
<1>5. \A p \in Paths : Announced(p)' = Announced(p)
  <2> SUFFICES ASSUME NEW p \in Paths PROVE Announced(p)' = Announced(p)
    OBVIOUS
  <2>1. Handling(p) = 0 /\ Handling(p)' = (IF h = Announce(p) THEN 1 ELSE 0)
    BY <1>1, <1>2 DEF Handling
  <2>2. Sending(p)' = Sending(p) /\ Sending(p) \in {0, 1}
    BY <1>1 DEF Sending
  <2> QED
    BY <1>4, <2>1, <2>2 DEF Announced
<1>6. NoneBehindStop'
  <2> SUFFICES ASSUME NEW i \in DOMAIN queue', NEW j \in DOMAIN queue', i < j,
                      queue'[i] = Request("STOP"), NEW p \in Paths
               PROVE  queue'[j] # Announce(p)
    BY DEF NoneBehindStop
  <2>1. /\ i + 1 \in DOMAIN queue /\ j + 1 \in DOMAIN queue /\ i + 1 < j + 1
        /\ queue'[i] = queue[i + 1] /\ queue'[j] = queue[j + 1]
    BY <1>3
  <2> QED
    BY <2>1 DEF Ordered, NoneBehindStop
<1>7. h = Request("STOP") => \A p \in Paths : Times(queue', Announce(p)) = 0
  <2> SUFFICES ASSUME h = Request("STOP"), NEW p \in Paths
               PROVE  Times(queue', Announce(p)) = 0
    OBVIOUS
  <2>1. ASSUME NEW i \in DOMAIN queue' PROVE queue'[i] # Announce(p)
    <3>1. 1 \in DOMAIN queue /\ i + 1 \in DOMAIN queue /\ 1 < i + 1
          /\ queue'[i] = queue[i + 1] /\ queue[1] = Request("STOP")
      BY <1>3
    <3> QED
      BY <3>1 DEF Ordered, NoneBehindStop
  <2>2. Positions(queue', Announce(p)) = {}
    BY <2>1 DEF Positions
  <2> QED
    BY <2>2, FS_EmptySet DEF Times
<1>8. state # "Running" => \A p \in Paths : h # Announce(p) /\ Times(queue', Announce(p)) = 0
  BY <1>4 DEF Ordered
<1>9. state' # "Running" => handler'.cmd.cmd # "PROC_FULL"
  BY <1>1, <1>2, <1>3, <1>8, Entries
<1>10. Stopping' => DriverQuiet'
  BY <1>1 DEF Ordered, Stopping, DriverQuiet
<1> QED
  BY <1>1, <1>2, <1>5, <1>6, <1>7, <1>8, <1>9, <1>10 DEF Ordered

LEMMA HandleFullOrder ==
  ASSUME Control, Ordered, HandleFull
  PROVE  Ordered'
<1> DEFINE q == handler.path
<1>0. Threads /\ PlacesTyped
  BY DEF Control
<1>1. Executes("PROC_FULL", {"Running"})
  BY DEF HandleFull
<1>2. /\ handler \in HandlerType /\ handler.at = "execute" /\ handler.cmd.cmd = "PROC_FULL"
      /\ handler.cmd \in AllCommands /\ state = "Running"
  BY <1>0, <1>1, Executing
<1>3. handler.path = handler.cmd.path
  BY <1>0, <1>2 DEF Threads, HandlerMatches
<1>4. q \in Paths /\ handler.cmd = Announce(q) /\ handler.cmd # Request("STOP")
  BY <1>2, <1>3, Entries, AnnounceOrStop
<1>5. UNCHANGED <<state, queue, attached, client, driver, on, filling, lost, pending>>
  BY DEF HandleFull, ctx, hist
<1>6. \A p \in Paths : /\ Len(full[p]) = Announced(p) /\ full[p] \in Seq(Buffers)
                       /\ Times(queue, Announce(p)) \in Nat /\ Sending(p) \in {0, 1}
                       /\ Handling(p) = (IF p = q THEN 1 ELSE 0)
  <2>1. \A p \in Paths : Handling(p) = (IF p = q THEN 1 ELSE 0)
    BY <1>2, <1>4, AnnounceOrStop DEF Handling
  <2>2. \A p \in Paths : Times(queue, Announce(p)) \in Nat
    BY <1>0, TimesNat DEF Threads, ThreadsTyped
  <2> QED
    BY <1>0, <2>1, <2>2 DEF Ordered, Sending, PlacesTyped
<1>7. Len(full[q]) >= 1 /\ full[q] # <<>>
  <2>1. Len(full[q]) = Times(queue, Announce(q)) + 1 + Sending(q)
    BY <1>4, <1>6 DEF Announced
  <2> QED
    BY <1>4, <1>6, <2>1
<1>8. /\ full' = [full EXCEPT ![q] = Tail(full[q])]
      /\ handler' = [handler EXCEPT !.at = IF q \in attached THEN "list" ELSE "callback",
                                    !.buffer = Head(full[q])]
  BY <1>7 DEF HandleFull
<1>9. /\ handler'.at = (IF q \in attached THEN "list" ELSE "callback")
      /\ handler'.cmd = handler.cmd /\ handler'.path = q
  BY <1>2, <1>8 DEF HandlerType
<1> HIDE DEF q
<1>10. ASSUME NEW p \in Paths PROVE Len(full'[p]) = Announced(p)'
  <2>1. Handling(p)' = 0 /\ Sending(p)' = Sending(p)
    BY <1>5, <1>9 DEF Handling, Sending
  <2>2. Announced(p)' = Times(queue, Announce(p)) + Sending(p)
    BY <1>5, <1>6, <2>1 DEF Announced
  <2>3. Len(full[p]) = Times(queue, Announce(p)) + Handling(p) + Sending(p)
    BY <1>6 DEF Announced
  <2>4. CASE p = q
    <3>1. Len(full'[q]) = Len(full[q]) - 1
      <4>1. full'[q] = Tail(full[q])
        BY <1>0, <1>4, <1>8 DEF PlacesTyped
      <4> QED
        BY <1>4, <1>6, <1>7, <4>1, HeadTailProperties
    <3> QED
      BY <1>6, <2>2, <2>3, <2>4, <3>1
  <2>5. CASE p # q
    <3>1. full'[p] = full[p]
      BY <1>0, <1>8, <2>5 DEF PlacesTyped
    <3> QED
      BY <1>6, <2>2, <2>3, <2>5, <3>1
  <2> QED
    BY <2>4, <2>5
<1>11. (Stopping' => DriverQuiet') /\ NoneBehindStop'
  BY <1>5 DEF Ordered, Stopping, DriverQuiet, NoneBehindStop
<1> QED
  BY <1>2, <1>4, <1>5, <1>9, <1>10, <1>11 DEF Ordered

LEMMA HandlerOrdered ==
  ASSUME Control, Ordered, Handler
  PROVE  Ordered'
<1>0. Threads /\ PlacesTyped /\ handler \in HandlerType
  BY DEF Control, Threads, ThreadsTyped
<1>1. CASE HandleStart \/ FillOne \/ FillNext \/ HandleStarted
  <2>1. /\ handler.cmd.cmd = "START" /\ handler'.cmd = handler.cmd
        /\ handler'.at \in {"fill", "complete"} /\ state # "Running"
    <3>1. CASE HandleStart
      <4>1. handler.cmd.cmd = "START" /\ state # "Running"
        BY <3>1 DEF HandleStart, Executes
      <4>2. handler'.cmd = handler.cmd /\ handler'.at = "fill"
        BY <1>0, <3>1 DEF HandleStart, HandlerType
      <4> QED
        BY <4>1, <4>2
    <3>2. CASE FillOne \/ FillNext \/ HandleStarted
      <4>1. handler.at = "fill"
        BY <3>2 DEF FillOne, FillNext, HandleStarted
      <4>2. handler.cmd.cmd = "START" /\ state # "Running"
        BY <1>0, <4>1, Entries DEF Threads, HandlerMatches, Commands
      <4>3. CASE FillOne
        BY <1>0, <4>1, <4>2, <4>3 DEF FillOne, HandlerType
      <4>4. CASE FillNext
        BY <1>0, <4>1, <4>2, <4>4 DEF FillNext, HandlerType
      <4>5. CASE HandleStarted
        BY <1>0, <4>1, <4>2, <4>5 DEF HandleStarted, HandlerType
      <4> QED
        BY <3>2, <4>3, <4>4, <4>5
    <3> QED
      BY <1>1, <3>1, <3>2
  <2>2. UNCHANGED <<queue, attached, full, lost, driver, on, filling, pending, client>>
    BY <1>1 DEF HandleStart, FillOne, FillNext, HandleStarted, ctx, places, threads, hist
  <2>3. \A p \in Paths : Handling(p)' = 0 /\ Handling(p) = 0
    BY <2>1, Entries DEF Handling
  <2>4. DriverQuiet
    BY <2>1 DEF Ordered, Stopping
  <2> QED
    BY <2>1, <2>2, <2>3, <2>4, OrderKept, AnnounceOrStop
<1>2. CASE HandleStop
  <2>1. Executes("STOP", {"Running"})
    BY <1>2 DEF HandleStop
  <2>2. handler.cmd = Request("STOP")
    BY <1>0, <2>1, Executing, Entries
  <2>3. handler'.cmd = handler.cmd /\ handler'.at = "flushFull"
    BY <1>0, <1>2 DEF HandleStop, HandlerType
  <2>4. UNCHANGED <<queue, attached, full, lost, driver, on, filling, pending, client>>
    BY <1>2 DEF HandleStop, places
  <2>5. DriverQuiet
    BY <1>0, <2>2, NotStopping
  <2>6. \A p \in Paths : Handling(p)' = 0 /\ Handling(p) = 0
    BY <2>2, <2>3, AnnounceOrStop, Entries DEF Handling
  <2> QED
    BY <2>2, <2>3, <2>4, <2>5, <2>6, OrderKept, AnnounceOrStop
<1>3. CASE FlushFull \/ FlushEmpty
  <2>1. handler.at \in {"flushFull", "flushEmpty"}
    BY <1>3 DEF FlushFull, FlushEmpty
  <2>2. handler.path \in Paths /\ handler.cmd = Request("STOP") /\ state = "Stopped"
    BY <1>0, <2>1 DEF Threads, HandlerMatches
  <2>3. full[handler.path] = <<>>
    BY <2>1, <2>2, NoneToFlush
  <2>4. UNCHANGED <<queue, attached, full, lost, driver, on, filling, pending, client, state>>
    BY <1>3, <2>3 DEF FlushFull, FlushEmpty, ctx
  <2>5. /\ handler'.cmd = handler.cmd
        /\ handler'.at \in {"flushFull", "flushEmpty", "complete"}
    BY <1>0, <1>3, <2>1 DEF FlushFull, FlushEmpty, HandlerType
  <2>6. \A p \in Paths : Handling(p)' = 0 /\ Handling(p) = 0
    BY <2>1, <2>5 DEF Handling
  <2>7. DriverQuiet
    BY <2>2 DEF Ordered, Stopping
  <2> QED
    BY <2>2, <2>4, <2>5, <2>6, <2>7, OrderKept, AnnounceOrStop
<1>4. CASE LockPath \/ AddToMediaBufferQueue \/ CallBufferCb \/ HandlerRefill
  <2>1. handler.at \in {"list", "write", "callback", "refill"}
    BY <1>4 DEF LockPath, AddToMediaBufferQueue, CallBufferCb, HandlerRefill
  <2>2. state = "Running" /\ handler.path \in Paths /\ handler.cmd = Announce(handler.path)
    BY <1>0, <2>1, FullInHand
  <2>3. handler.at = "list" => handler.path \in attached
    BY DEF Ordered
  <2>4. UNCHANGED <<queue, attached, full, lost, driver, on, filling, pending, client, state>>
    BY <1>4, <2>3 DEF LockPath, AddToMediaBufferQueue, CallBufferCb, HandlerRefill, Refill,
                      ctx, hist
  <2>5. \/ handler' = HandlerAt("read")
        \/ handler' = [handler EXCEPT !.at = "write"]
        \/ handler' = [handler EXCEPT !.at = "refill", !.buffer = NoBuffer]
    BY <1>4 DEF LockPath, AddToMediaBufferQueue, CallBufferCb, HandlerRefill
  <2>6. /\ handler'.at \in {"read", "write", "refill"}
        /\ handler'.cmd = NoCommand \/ handler'.cmd = handler.cmd
    <3>1. CASE handler' = HandlerAt("read")
      BY <3>1, AtRest
    <3>2. CASE handler' = [handler EXCEPT !.at = "write"]
      BY <1>0, <3>2 DEF HandlerType
    <3>3. CASE handler' = [handler EXCEPT !.at = "refill", !.buffer = NoBuffer]
      BY <1>0, <3>3 DEF HandlerType
    <3> QED
      BY <2>5, <3>1, <3>2, <3>3
  <2>7. \A p \in Paths : Handling(p)' = 0 /\ Handling(p) = 0
    BY <2>1, <2>6 DEF Handling
  <2>8. handler'.cmd # Request("STOP")
    BY <2>2, <2>6, AnnounceOrStop DEF Commands
  <2>9. Stopping' => DriverQuiet
    BY <2>4 DEF Ordered, Stopping
  <2> QED
    BY <2>2, <2>4, <2>6, <2>7, <2>8, <2>9, OrderKept
<1>5. CASE HandleWrongState
  <2>1. /\ handler.at = "execute" /\ state \notin Handled(handler.cmd.cmd)
        /\ UNCHANGED <<queue, attached, full, lost, driver, on, filling, pending, client, state>>
    BY <1>5 DEF HandleWrongState, ctx, places, hist
  <2>2. handler'.at = "complete" /\ handler'.cmd = handler.cmd
    BY <1>0, <1>5 DEF HandleWrongState, HandlerType
  <2>3. handler.cmd.cmd # "PROC_FULL"
    BY <2>1 DEF Ordered, Handled
  <2>4. \A p \in Paths : Handling(p)' = 0 /\ Handling(p) = 0
    BY <2>2, <2>3, Entries DEF Handling
  <2>5. Stopping' => DriverQuiet
    BY <2>1 DEF Ordered, Stopping
  <2> QED
    BY <2>1, <2>2, <2>3, <2>4, <2>5, OrderKept
<1>6. CASE HandleShutDown
  <2>1. Executes("SHUTDOWN", {"Initialize", "Stopped"})
    BY <1>6 DEF HandleShutDown
  <2>2. state # "Running" /\ handler.cmd.cmd = "SHUTDOWN"
    BY <1>0, <2>1, Executing
  <2>3. UNCHANGED <<queue, attached, full, lost, driver, on, filling, pending, client>>
        /\ handler' = HandlerAt("none")
    BY <1>6 DEF HandleShutDown, places, hist
  <2>4. handler'.at = "none" /\ handler'.cmd = NoCommand
    BY <2>3, AtRest
  <2>5. \A p \in Paths : Handling(p)' = 0 /\ Handling(p) = 0
    BY <2>2, <2>4, Entries DEF Handling
  <2>6. DriverQuiet
    BY <2>2 DEF Ordered, Stopping
  <2>7. handler'.cmd.cmd # "PROC_FULL"
    BY <2>4, Entries
  <2> QED
    BY <2>2, <2>3, <2>4, <2>5, <2>6, <2>7, OrderKept, AnnounceOrStop
<1>7. CASE HandlerComplete
  <2>1. /\ handler.at = "complete" /\ handler' = HandlerAt("read")
        /\ pending' = IF handler.cmd.cmd \in Commands
                      THEN [pending EXCEPT ![handler.cmd.cmd] = @ - 1] ELSE pending
        /\ UNCHANGED <<queue, attached, full, lost, driver, on, filling, client, state>>
    BY <1>7 DEF HandlerComplete, ctx, places
  <2>2. handler'.at = "read" /\ handler'.cmd = NoCommand /\ NoCommand.cmd # "PROC_FULL"
    BY <2>1, AtRest, Entries
  <2>3. pending'["STOP"] # 0 => pending["STOP"] # 0
    <3>1. handler.cmd.cmd = "STOP" => pending["STOP"] > 0
      BY <1>0, <1>7, <2>1, CompleteStep, Entries
    <3>2. handler.cmd.cmd # "STOP" => pending'["STOP"] = pending["STOP"]
      BY <1>0, <2>1, Entries DEF Threads, ThreadsTyped
    <3> QED
      BY <3>1, <3>2
  <2>4. Stopping' => DriverQuiet
    BY <2>1, <2>3 DEF Ordered, Stopping
  <2>5. \A p \in Paths : Handling(p)' = 0 /\ Handling(p) = 0
    BY <2>1, <2>2 DEF Handling
  <2> QED
    BY <2>1, <2>2, <2>4, <2>5, OrderKept, AnnounceOrStop
<1> QED
  BY <1>1, <1>2, <1>3, <1>4, <1>5, <1>6, <1>7, ReadOrder, HandleFullOrder DEF Handler

LEMMA UserOrdered ==
  ASSUME Control, Ordered, User
  PROVE  Ordered'
<1>1. UNCHANGED <<queue, attached, full, lost, driver, on, filling, pending, client, state,
                  handler>>
  BY DEF User, UserFrees, UserNotify, UserRefill, Refill, ctx, places, hist
<1>2. (Stopping' => DriverQuiet) /\ \A p \in Paths : Handling(p)' = Handling(p)
  BY <1>1 DEF Ordered, Stopping, Handling
<1> QED
  BY <1>1, <1>2, OrderKept DEF Ordered

LEMMA SendOrder ==
  ASSUME Control, Ordered, MomCtrlSendCommand
  PROVE  Ordered'
<1>0. Threads /\ queue \in Seq(AllCommands) /\ client.at = "send"
  BY DEF Control, Threads, ThreadsTyped, MomCtrlSendCommand
<1>1. PICK k \in Commands \cup {"SHUTDOWN"} : client.cmd = Request(k)
  BY <1>0 DEF Threads, PhasesMatch
<1>2. /\ client.cmd \in AllCommands /\ queue' = Append(queue, client.cmd)
      /\ UNCHANGED <<state, attached, handler, driver, on, filling, lost, full>>
  BY <1>1, Entries DEF MomCtrlSendCommand, Queued, places
<1>3. Stopping' => Stopping
  <2>1. client'.cmd = NoCommand
    BY AtRest DEF MomCtrlSendCommand
  <2>2. client.cmd # Request("STOP") => pending'["STOP"] = pending["STOP"]
    <3>1. client.cmd # Request("STOP") => client.cmd.cmd # "STOP"
      BY <1>1, Entries
    <3>2. pending \in [Commands -> Nat]
      BY <1>0 DEF Threads, ThreadsTyped
    <3> QED
      BY <3>1, <3>2 DEF MomCtrlSendCommand, Commands
  <2> QED
    BY <1>2, <2>1, <2>2, AnnounceOrStop DEF Stopping
<1>4. \A p \in Paths : Times(queue', Announce(p)) = Times(queue, Announce(p))
  <2> SUFFICES ASSUME NEW p \in Paths
               PROVE  Times(queue', Announce(p)) = Times(queue, Announce(p))
    OBVIOUS
  <2>1. Times(queue', Announce(p)) = Times(queue, Announce(p))
                                     + (IF client.cmd = Announce(p) THEN 1 ELSE 0)
    BY <1>0, <1>2, TimesAppend
  <2>2. client.cmd # Announce(p)
    BY <1>1, AnnounceOrStop
  <2>3. Times(queue, Announce(p)) \in Nat
    BY <1>0, TimesNat
  <2> QED
    BY <2>1, <2>2, <2>3
<1>5. NoneBehindStop'
  <2> SUFFICES ASSUME NEW i \in DOMAIN queue', NEW j \in DOMAIN queue', i < j,
                      queue'[i] = Request("STOP"), NEW p \in Paths
               PROVE  queue'[j] # Announce(p)
    BY DEF NoneBehindStop
  <2>1. /\ Len(queue) \in Nat /\ DOMAIN queue = 1 .. Len(queue)
        /\ DOMAIN queue' = 1 .. Len(queue) + 1 /\ queue'[Len(queue) + 1] = client.cmd
        /\ \A m \in 1 .. Len(queue) : queue'[m] = queue[m]
    BY <1>0, <1>2, AppendProperties
  <2>2. CASE j = Len(queue) + 1
    BY <1>1, <2>1, <2>2, AnnounceOrStop
  <2>3. CASE j # Len(queue) + 1
    <3>1. i \in DOMAIN queue /\ j \in DOMAIN queue /\ queue'[i] = queue[i] /\ queue'[j] = queue[j]
      BY <2>1, <2>3
    <3> QED
      BY <3>1 DEF Ordered, NoneBehindStop
  <2> QED
    BY <2>2, <2>3
<1>6. \A p \in Paths : Announced(p)' = Announced(p)
  BY <1>2, <1>4 DEF Announced, Handling, Sending
<1>7. Stopping' => DriverQuiet'
  BY <1>2, <1>3 DEF Ordered, DriverQuiet
<1> QED
  BY <1>2, <1>4, <1>5, <1>6, <1>7 DEF Ordered

LEMMA DrainOrder ==
  ASSUME Control, Ordered, DrainOne
  PROVE  Ordered'
<1>0. /\ Threads /\ queue \in Seq(AllCommands) /\ queue # <<>> /\ queue' = Tail(queue)
      /\ UNCHANGED <<state, attached, handler, driver, on, filling, lost, full, client>>
  BY DEF Control, Threads, ThreadsTyped, DrainOne, places, threads
<1>1. handler.at = "none" /\ state = "Invalid"
  BY <1>0 DEF DrainOne, Threads, PhasesMatch
<1>2. DriverQuiet' /\ \A p \in Paths : Times(queue, Announce(p)) = 0
  BY <1>0, <1>1 DEF Ordered, Stopping, DriverQuiet
<1>3. \A p \in Paths : Times(queue', Announce(p)) = 0
  <2> SUFFICES ASSUME NEW p \in Paths PROVE Times(queue', Announce(p)) = 0
    OBVIOUS
  <2>1. /\ queue' \in Seq(AllCommands)
        /\ Times(queue, Announce(p)) = Times(queue', Announce(p))
                                       + (IF Head(queue) = Announce(p) THEN 1 ELSE 0)
    BY <1>0, TimesTail
  <2>2. Times(queue', Announce(p)) \in Nat
    BY <2>1, TimesNat
  <2> QED
    BY <1>2, <2>1, <2>2
<1>4. NoneBehindStop'
  <2> SUFFICES ASSUME NEW j \in DOMAIN queue', NEW p \in Paths PROVE queue'[j] # Announce(p)
    BY DEF NoneBehindStop
  <2>1. queue' \in Seq(AllCommands)
    BY <1>0, HeadTailProperties
  <2>2. IsFiniteSet(Positions(queue', Announce(p)))
    BY <2>1, TimesNat
  <2>3. Positions(queue', Announce(p)) = {}
    BY <1>3, <2>2, FS_EmptySet DEF Times
  <2> QED
    BY <2>3 DEF Positions
<1>5. \A p \in Paths : Announced(p)' = Announced(p)
  BY <1>0, <1>2, <1>3 DEF Announced, Handling, Sending
<1> QED
  BY <1>0, <1>2, <1>3, <1>4, <1>5 DEF Ordered

LEMMA FreeOrder ==
  ASSUME Control, Ordered, FreeContext
  PROVE  Ordered'
<1>0. Threads
  BY DEF Control
<1>1. /\ client.at = "drain" /\ queue = <<>> /\ driver.at = "idle" /\ full' = NoQueue
      /\ UNCHANGED <<state, queue, attached, handler, driver, on, filling, lost>>
  BY DEF FreeContext
<1>2. handler.at = "none" /\ state = "Invalid"
  BY <1>0, <1>1 DEF Threads, PhasesMatch
<1>3. DriverQuiet'
  BY <1>1, <1>2 DEF Ordered, Stopping, DriverQuiet
<1>4. \A p \in Paths : Announced(p)' = 0
  <2>1. \A p \in Paths : Times(queue', Announce(p)) = 0
    BY <1>1, TimesEmpty
  <2>2. \A p \in Paths : Handling(p)' = 0 /\ Sending(p)' = 0
    BY <1>1, <1>2 DEF Handling, Sending
  <2> QED
    BY <2>1, <2>2 DEF Announced
<1>5. \A p \in Paths : Len(full'[p]) = 0
  BY <1>1 DEF NoQueue
<1>6. NoneBehindStop' = NoneBehindStop
  BY <1>1 DEF NoneBehindStop
<1> QED
  BY <1>1, <1>3, <1>4, <1>5, <1>6 DEF Ordered

LEMMA ClientOrdered ==
  ASSUME Control, Ordered, ClientCalls \/ Client, Orderly
  PROVE  Ordered'
<1>0. Threads
  BY DEF Control
<1>1. CASE MomCtrlInit
  <2>1. /\ ~alive /\ UNCHANGED <<state, queue, attached, full, lost, driver, on, filling, pending>>
        /\ handler' = HandlerAt("read")
    BY <1>1 DEF MomCtrlInit, places, hist
  <2>2. handler.at = "none" /\ state = "Invalid"
    BY <1>0, <2>1 DEF Threads, PhasesMatch
  <2>3. /\ handler'.at = "read" /\ handler'.cmd = NoCommand /\ NoCommand.cmd # "PROC_FULL"
    BY <2>1, AtRest, Entries
  <2>4. DriverQuiet /\ \A p \in Paths : Handling(p)' = 0 /\ Handling(p) = 0
    BY <2>2, <2>3 DEF Ordered, Stopping, Handling
  <2> QED
    BY <2>1, <2>2, <2>3, <2>4, OrderKept, AnnounceOrStop
<1>2. CASE InitDone \/ Join
  <2>1. /\ client.at \in {"init", "join"} /\ client'.cmd = NoCommand
        /\ UNCHANGED <<queue, attached, full, lost, driver, on, filling, pending, handler>>
        /\ state' = state \/ state = "Invalid"
    BY <1>0, <1>2, AtRest DEF InitDone, Join, Threads, PhasesMatch, ctx, places, hist
  <2>2. DriverQuiet \/ ~Stopping'
    BY <2>1, AnnounceOrStop DEF Ordered, Stopping
  <2>3. state' # "Running" => state # "Running"
    BY <2>1
  <2>4. \A p \in Paths : Handling(p)' = Handling(p)
    BY <2>1 DEF Handling
  <2> QED
    BY <2>1, <2>2, <2>3, <2>4, OrderKept DEF Ordered
<1>3. CASE MomCtrlStart \/ MomCtrlStop \/ MomCtrlShutDown
  <2>1. UNCHANGED <<state, queue, attached, full, lost, driver, on, filling, pending, handler>>
    BY <1>3 DEF MomCtrlStart, MomCtrlStop, MomCtrlShutDown, Enter, ctx, places, hist
  <2>2. CASE MomCtrlStop
    <3>1. DriverQuiet
      BY <2>2 DEF MomCtrlStop
    <3>2. \A p \in Paths : Handling(p)' = Handling(p)
      BY <2>1 DEF Handling
    <3> QED
      BY <2>1, <3>1, <3>2, OrderKept DEF Ordered
  <2>3. CASE MomCtrlStart \/ MomCtrlShutDown
    <3>1. client'.cmd = Request("START") \/ client'.cmd = Request("SHUTDOWN")
      BY <2>3 DEF MomCtrlStart, MomCtrlShutDown, Enter, Request
    <3>2. Stopping' => DriverQuiet
      BY <2>1, <3>1, AnnounceOrStop DEF Ordered, Stopping
    <3>3. \A p \in Paths : Handling(p)' = Handling(p)
      BY <2>1 DEF Handling
    <3> QED
      BY <2>1, <3>2, <3>3, OrderKept DEF Ordered
  <2> QED
    BY <1>3, <2>2, <2>3
<1>4. CASE \/ MomCtrlAttachQueueToPath \/ MomCtrlDetachQueueToPath
           \/ MomCtrlRegisterBufferCb \/ MomCtrlDeRegisterBufferCb
  <2>1. /\ UNCHANGED <<state, queue, full, lost, driver, on, filling, pending, handler, client>>
    BY <1>4 DEF MomCtrlAttachQueueToPath, MomCtrlDetachQueueToPath, MomCtrlRegisterBufferCb,
                MomCtrlDeRegisterBufferCb, SetAttached, SetRegistered, places, threads, hist
  <2>2. attached \subseteq attached' \/ state # "Running"
    BY <1>4 DEF MomCtrlAttachQueueToPath, MomCtrlDetachQueueToPath, MomCtrlRegisterBufferCb,
                MomCtrlDeRegisterBufferCb, SetAttached, SetRegistered
  <2>3. handler.at = "list" => handler.path \in attached'
    BY <1>0, <2>2 DEF Ordered, Threads, HandlerMatches
  <2>4. (Stopping' => DriverQuiet) /\ \A p \in Paths : Handling(p)' = Handling(p)
    BY <2>1 DEF Ordered, Stopping, Handling
  <2> QED
    BY <2>1, <2>3, <2>4, OrderKept DEF Ordered
<1> QED
  BY <1>1, <1>2, <1>3, <1>4, SendOrder, DrainOrder, FreeOrder, DrainSplit, DriverOrdered
  DEF ClientCalls, Client

LEMMA InitOrdered == Init => Ordered
<1> SUFFICES ASSUME Init PROVE Ordered
  OBVIOUS
<1>1. /\ queue = <<>> /\ lost = NoBuffers /\ ~on /\ full = NoQueue /\ filling = NoQueue
      /\ driver.at = "idle" /\ handler.at = "none" /\ handler.cmd = NoCommand
      /\ handler.cmd.cmd # "PROC_FULL"
  BY AtRest, Entries DEF Init
<1>2. DriverQuiet /\ NoneBehindStop
  BY <1>1 DEF DriverQuiet, NoneBehindStop, NoQueue
<1>3. \A p \in Paths : Times(queue, Announce(p)) = 0
  BY <1>1, TimesEmpty
<1>4. \A p \in Paths : Announced(p) = 0 /\ Len(full[p]) = 0
  BY <1>1, <1>3 DEF Announced, Handling, Sending, NoQueue
<1> QED
  BY <1>1, <1>2, <1>3, <1>4 DEF Ordered

LEMMA OrderlyRuns == Spec => [](Orderly => Ordered)
<1>1. Control /\ (Orderly => Ordered) /\ [Next]_vars => (Orderly => Ordered)'
  <2>1. ASSUME Ordered, UNCHANGED vars PROVE Ordered'
    BY <2>1 DEF vars, ctx, places, threads, hist, Ordered, Stopping, DriverQuiet, NoneBehindStop,
                Announced, Handling, Sending
  <2> QED
    BY <2>1, HandlerOrdered, DriverOrdered, UserOrdered, ClientOrdered DEF Next
<1> QED
  BY <1>1, InitOrdered, Controlled, PTL DEF Spec

(***************************************************************************)
(* A client that stops the driver before the control, and detaches a queue *)
(* only from a control at rest, loses no buffer.                           *)
(***************************************************************************)
THEOREM NoneLost == Spec => []NothingLost
<1>1. (Orderly => Ordered) => NothingLost
  BY DEF NothingLost, Ordered
<1> QED
  BY <1>1, OrderlyRuns, PTL

(***************************************************************************)
(* With such a client, the buffers in FullBufQueue and their commands are  *)
(* as many: in CommandQueue, about to be carried out, or about to be sent. *)
(***************************************************************************)
THEOREM EachAnnounced == Spec => []FramesAnnounced
<1>1. (Orderly => Ordered) => FramesAnnounced
  BY DEF FramesAnnounced, Ordered, Announced, Handling, Sending, Announce, Times, Positions
<1> QED
  BY <1>1, OrderlyRuns, PTL

=============================================================================
