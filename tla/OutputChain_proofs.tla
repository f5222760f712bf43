------------------------- MODULE OutputChain_proofs -------------------------
(***************************************************************************)
(* What holds of an output chain for every number of buffers and of        *)
(* pictures left out, when its queues are long enough: events and pictures *)
(* match, the chain keeps its contract, and nobody uses it when it is      *)
(* deleted.                                                                *)
(***************************************************************************)
EXTENDS OutputChain, FiniteSetTheorems, TLAPS

(***************************************************************************)
(* What the code takes care of: FullBufQueue has room for every buffer.    *)
(***************************************************************************)
RoomForPictures == IsFiniteSet(Buffers) /\ Cardinality(Buffers) <= MaxBuffers

(***************************************************************************)
(* What is there at which point of NativeSensor::start and stop.           *)
(***************************************************************************)
PhasesMatch ==
  /\ state = "none" <=> client \in {"idle", "init"}
  /\ state = "Idle" <=> client \in {"start", "deinit"}
  /\ attached <=> client \in {"running", "previewStop", "join"}
  /\ bRunning <=> client = "running"
  /\ streaming => client \notin {"idle", "join", "stop", "deinit"}
  /\ loop # "none" => client \in {"running", "previewStop", "join"}
  /\ callback.at # "idle" => client \in {"running", "previewStop"}
  /\ client \in {"idle", "init", "start"} => FullBufQueue = <<>> /\ CommandQueue = <<>>

(***************************************************************************)
(* Where a buffer is: a picture in FullBufQueue is in it once, locked, and *)
(* not with the dewarp; nothing else is locked but what the dewarp has.    *)
(***************************************************************************)
Distinct(q) == \A i, j \in DOMAIN q : q[i] = q[j] => i = j

PlacesMatch ==
  /\ Distinct(FullBufQueue)
  /\ ToSet(FullBufQueue) \cap held = {}
  /\ locked = held \cup ToSet(FullBufQueue)
  /\ back.at # "idle" => back.buf \in held
  /\ callback.at = "write" => callback.buf \in Buffers \ locked

(***************************************************************************)
(* Besides the events of the pictures there is only the START, as long as  *)
(* no picture is left out.                                                 *)
(***************************************************************************)
EventsBounded ==
  /\ callback.at = "write" => callback.event = "READY"
  /\ FrameSkip_Max = 0 /\ callback.at = "send" => callback.event = "READY"
  /\ FrameSkip_Max = 0 /\ state = "Running"
       => Len(CommandQueue) <= Cardinality(Ready(CommandQueue)) + 1

IInv == ChainTypeOK /\ PhasesMatch /\ PlacesMatch /\ EventsMatch /\ EventsBounded

-----------------------------------------------------------------------------
(***************************************************************************)
(* The events of a queue are finitely many.                                *)
(***************************************************************************)
LEMMA ReadyFinite ==
  ASSUME NEW S, NEW q \in Seq(S)
  PROVE  IsFiniteSet(Ready(q)) /\ Cardinality(Ready(q)) \in Nat
<1>1. IsFiniteSet(1 .. Len(q))
  BY FS_Interval
<1>2. Ready(q) \in SUBSET (1 .. Len(q))
  BY DEF Ready
<1> QED
  BY <1>1, <1>2, FS_Subset, FS_CardinalityType

(***************************************************************************)
(* An event at the end of a queue adds one announcement, or none.          *)
(***************************************************************************)
LEMMA ReadyAppend ==
  ASSUME NEW S, NEW q \in Seq(S), NEW e \in S
  PROVE  Cardinality(Ready(Append(q, e)))
           = Cardinality(Ready(q)) + (IF e = "READY" THEN 1 ELSE 0)
<1>1. IsFiniteSet(Ready(q))
  BY ReadyFinite
<1>2. CASE e = "READY"
  <2>1. Ready(Append(q, e)) = Ready(q) \cup {Len(q) + 1}
    BY <1>2 DEF Ready
  <2>2. Len(q) + 1 \notin Ready(q)
    BY DEF Ready
  <2> QED
    BY <1>1, <1>2, <2>1, <2>2, FS_AddElement
<1>3. CASE e # "READY"
  <2>1. Ready(Append(q, e)) = Ready(q)
    BY <1>3 DEF Ready
  <2> QED
    BY <1>1, <1>3, <2>1, ReadyFinite
<1> QED
  BY <1>2, <1>3

(***************************************************************************)
(* An event taken from the front of a queue takes its announcement along.  *)
(***************************************************************************)
LEMMA ReadyTail ==
  ASSUME NEW S, NEW q \in Seq(S), q # <<>>
  PROVE  Cardinality(Ready(Tail(q)))
           = Cardinality(Ready(q)) - (IF Head(q) = "READY" THEN 1 ELSE 0)
<1> DEFINE Later == Ready(q) \ {1}
           shift == [i \in Ready(Tail(q)) |-> i + 1]
<1>0. Tail(q) \in Seq(S)
  OBVIOUS
<1>1. IsFiniteSet(Ready(q)) /\ IsFiniteSet(Ready(Tail(q)))
  BY <1>0, ReadyFinite
<1>2. Len(q) >= 1 /\ Len(q) \in Nat
  OBVIOUS
<1>3. \A i \in Ready(Tail(q)) : i \in Nat /\ i + 1 \in Later
  BY <1>2 DEF Ready
<1>4. \A j \in Later : j - 1 \in Ready(Tail(q)) /\ (j - 1) + 1 = j
  BY <1>2 DEF Ready
<1>5. shift \in Bijection(Ready(Tail(q)), Later)
  <2>1. shift \in [Ready(Tail(q)) -> Later]
    BY <1>3
  <2>2. \A i, j \in Ready(Tail(q)) : shift[i] = shift[j] => i = j
    BY <1>3
  <2>3. \A j \in Later : \E i \in Ready(Tail(q)) : shift[i] = j
    BY <1>4
  <2> QED
    BY <2>1, <2>2, <2>3 DEF Bijection, Injection, Surjection, IsInjective
<1>6. Cardinality(Later) = Cardinality(Ready(Tail(q)))
  BY <1>1, <1>5, FS_Bijection DEF ExistsBijection
<1>7. 1 \in Ready(q) <=> Head(q) = "READY"
  BY <1>2 DEF Ready
<1> HIDE DEF Later
<1>8. Cardinality(Later) = IF 1 \in Ready(q) THEN Cardinality(Ready(q)) - 1
                                             ELSE Cardinality(Ready(q))
  BY <1>1, FS_RemoveElement DEF Later
<1>9. Cardinality(Ready(q)) \in Nat
  BY ReadyFinite
<1> QED
  BY <1>6, <1>7, <1>8, <1>9

(***************************************************************************)
(* A queue of different buffers is no longer than there are buffers, and   *)
(* shorter if there is one that it does not have.                          *)
(***************************************************************************)
LEMMA DistinctLength ==
  ASSUME IsFiniteSet(Buffers), NEW q \in Seq(Buffers), Distinct(q)
  PROVE  /\ Len(q) <= Cardinality(Buffers)
         /\ \A b \in Buffers \ ToSet(q) : Len(q) < Cardinality(Buffers)
<1>1. ASSUME NEW T, IsFiniteSet(T), ToSet(q) \subseteq T
      PROVE  Len(q) <= Cardinality(T)
  <2>1. q \in Injection(1 .. Len(q), T)
    BY <1>1 DEF Distinct, ToSet, Injection, IsInjective
  <2>2. Cardinality(1 .. Len(q)) <= Cardinality(T)
    BY <1>1, <2>1, FS_Injection
  <2> QED
    <3>1. Len(q) \in Nat /\ Len(q) \in Int /\ 1 \in Int
      OBVIOUS
    <3>2. Cardinality(1 .. Len(q)) = IF 1 > Len(q) THEN 0 ELSE Len(q) - 1 + 1
      BY <3>1, FS_Interval
    <3> QED
      BY <2>2, <3>1, <3>2
<1>2. ToSet(q) \subseteq Buffers
  BY DEF ToSet
<1>3. Cardinality(Buffers) \in Nat
  BY FS_CardinalityType
<1>4. ASSUME NEW b \in Buffers \ ToSet(q)
      PROVE  Len(q) < Cardinality(Buffers)
  <2>1. /\ IsFiniteSet(Buffers \ {b})
        /\ Cardinality(Buffers \ {b}) = Cardinality(Buffers) - 1
    BY FS_RemoveElement
  <2>2. Len(q) <= Cardinality(Buffers \ {b})
    BY <1>1, <1>2, <2>1
  <2> QED
    BY <1>3, <2>1, <2>2
<1> QED
  BY <1>1, <1>2, <1>4

(***************************************************************************)
(* A buffer that a queue of different buffers does not have, put at its    *)
(* end, and the first one, taken from it.                                  *)
(***************************************************************************)
LEMMA DistinctAppend ==
  ASSUME NEW q \in Seq(Buffers), Distinct(q), NEW b \in Buffers \ ToSet(q)
  PROVE  Distinct(Append(q, b)) /\ ToSet(Append(q, b)) = ToSet(q) \cup {b}
  BY DEF Distinct, ToSet

LEMMA DistinctTail ==
  ASSUME NEW q \in Seq(Buffers), Distinct(q), q # <<>>
  PROVE  /\ Distinct(Tail(q)) /\ Head(q) \in ToSet(q)
         /\ ToSet(Tail(q)) = ToSet(q) \ {Head(q)}
<1>1. Len(q) \in Nat /\ Len(q) >= 1 /\ Head(q) = q[1]
  OBVIOUS
<1>2. \A i \in 1 .. Len(q) - 1 : Tail(q)[i] = q[i + 1]
  OBVIOUS
<1>3. DOMAIN Tail(q) = 1 .. Len(q) - 1 /\ DOMAIN q = 1 .. Len(q)
  OBVIOUS
<1>4. Distinct(Tail(q))
  BY <1>1, <1>2, <1>3 DEF Distinct
<1>5. Head(q) \in ToSet(q)
  BY <1>1, <1>3 DEF ToSet
<1>6. ASSUME NEW x \in ToSet(Tail(q))
      PROVE  x \in ToSet(q) \ {Head(q)}
  <2>1. PICK i \in 1 .. Len(q) - 1 : x = q[i + 1]
    BY <1>2, <1>3 DEF ToSet
  <2> QED
    BY <1>1, <1>3, <2>1 DEF Distinct, ToSet
<1>7. ASSUME NEW x \in ToSet(q) \ {Head(q)}
      PROVE  x \in ToSet(Tail(q))
  <2>1. PICK i \in 2 .. Len(q) : x = q[i]
    BY <1>1, <1>3 DEF ToSet
  <2>2. i - 1 \in 1 .. Len(q) - 1 /\ Tail(q)[i - 1] = x
    BY <1>1, <1>2, <2>1
  <2> QED
    BY <1>3, <2>2 DEF ToSet
<1> QED
  BY <1>4, <1>5, <1>6, <1>7

-----------------------------------------------------------------------------
(***************************************************************************)
(* The two branches of the code that are never taken: a picture always has *)
(* room in FullBufQueue, and DQBUF always finds one.                       *)
(***************************************************************************)
LEMMA NeverFull ==
  ASSUME RoomForPictures, ChainTypeOK, PlacesMatch, callback.at = "write"
  PROVE  Len(FullBufQueue) < MaxBuffers /\ callback.buf \in Buffers \ ToSet(FullBufQueue)
<1>1. callback.buf \in Buffers \ ToSet(FullBufQueue)
  BY DEF PlacesMatch
<1>2. FullBufQueue \in Seq(Buffers) /\ Distinct(FullBufQueue) /\ IsFiniteSet(Buffers)
  BY DEF ChainTypeOK, PlacesMatch, RoomForPictures
<1>3. Len(FullBufQueue) < Cardinality(Buffers)
  BY <1>1, <1>2, DistinctLength
<1>4. Cardinality(Buffers) \in Nat
  BY <1>2, FS_CardinalityType
<1> QED
  BY <1>1, <1>2, <1>3, <1>4, OutputChainAssumption DEF RoomForPictures

LEMMA NeverEmpty ==
  ASSUME ChainTypeOK, PhasesMatch, EventsMatch, loop = "dqbuf"
  PROVE  FullBufQueue # <<>>
<1>1. Cardinality(Ready(CommandQueue)) \in Nat
  BY ReadyFinite DEF ChainTypeOK
<1>2. state = "Running"
  BY DEF ChainTypeOK, PhasesMatch
<1>3. Len(FullBufQueue) >= 1
  BY <1>1, <1>2 DEF EventsMatch
<1> QED
  BY <1>3 DEF ChainTypeOK

(***************************************************************************)
(* What the two steps that have such a branch do.                          *)
(***************************************************************************)
LEMMA WriteDoes ==
  ASSUME RoomForPictures, IInv, FullBufWrite
  PROVE  /\ callback.at = "write" /\ callback.event = "READY"
         /\ callback.buf \in Buffers \ ToSet(FullBufQueue)
         /\ Len(FullBufQueue) < MaxBuffers
         /\ FullBufQueue' = Append(FullBufQueue, callback.buf)
         /\ locked' = locked \cup {callback.buf}
         /\ callback' = [callback EXCEPT !.at = "send"]
<1>1. callback.at = "write"
  BY DEF FullBufWrite
<1>2. Len(FullBufQueue) < MaxBuffers /\ callback.buf \in Buffers \ ToSet(FullBufQueue)
  BY <1>1, NeverFull DEF IInv
<1> QED
  BY <1>1, <1>2 DEF FullBufWrite, IInv, EventsBounded

LEMMA TakeDoes ==
  ASSUME IInv, CitfDQBUF
  PROVE  /\ FullBufQueue # <<>>
         /\ FullBufQueue' = Tail(FullBufQueue)
         /\ held' = held \cup {Head(FullBufQueue)}
<1>1. FullBufQueue # <<>>
  BY NeverEmpty DEF CitfDQBUF, IInv
<1> QED
  BY <1>1 DEF CitfDQBUF

(***************************************************************************)
(* The START announces nothing.                                            *)
(***************************************************************************)
LEMMA ReadyStart ==
  /\ Cardinality(Ready(Append(<<>>, "START"))) = 0
  /\ Len(Append(<<>>, "START")) = 1
<1>1. Ready(Append(<<>>, "START")) = {}
  BY DEF Ready
<1> QED
  BY <1>1, FS_EmptySet

-----------------------------------------------------------------------------
LEMMA InitHolds == Init => IInv
<1> SUFFICES ASSUME Init PROVE IInv
  OBVIOUS
<1>1. ChainTypeOK
  <2>1. 0 \in 0 .. FrameSkip_Max /\ 0 <= MaxEvents /\ 0 <= MaxBuffers
    BY OutputChainAssumption
  <2>2. <<>> \in Seq(Events) /\ <<>> \in Seq(Buffers) /\ Len(<<>>) = 0
    OBVIOUS
  <2>3. "START" \in Events
    BY DEF Events
  <2> QED
    BY <2>1, <2>2, <2>3 DEF Init, ChainTypeOK, NoCallback, NoBack
<1>2. PhasesMatch
  BY DEF Init, PhasesMatch, NoCallback
<1>3. PlacesMatch
  BY DEF Init, PlacesMatch, NoCallback, NoBack, Distinct, ToSet
<1>4. EventsMatch /\ EventsBounded
  BY DEF Init, EventsMatch, EventsBounded, NoCallback
<1> QED
  BY <1>1, <1>2, <1>3, <1>4 DEF IInv

(***************************************************************************)
(* The state keeps its type.                                               *)
(***************************************************************************)
LEMMA TypeStep ==
  ASSUME RoomForPictures, IInv, [Next]_vars
  PROVE  ChainTypeOK'
<1>1. CASE PreviewStart
  BY <1>1, OutputChainAssumption
  DEF IInv, ChainTypeOK, PhasesMatch, Events, PreviewStart, Goto
<1>2. CASE CitfInitOutChain
  BY <1>2, OutputChainAssumption
  DEF IInv, ChainTypeOK, PhasesMatch, Events, CitfInitOutChain, Goto,
      engineVars
<1>3. CASE CitfStartOutChain
  BY <1>3, OutputChainAssumption
  DEF IInv, ChainTypeOK, PhasesMatch, Events, CitfStartOutChain, Goto,
      engineVars
<1>4. CASE CitfAttachChain
  BY <1>4, OutputChainAssumption
  DEF IInv, ChainTypeOK, PhasesMatch, Events, CitfAttachChain, Goto, engineVars
<1>5. CASE StopSensor
  BY <1>5, OutputChainAssumption
  DEF IInv, ChainTypeOK, PhasesMatch, Events, StopSensor, Goto, xomVars,
      engineVars
<1>6. CASE PreviewStop
  BY <1>6, OutputChainAssumption
  DEF IInv, ChainTypeOK, PhasesMatch, Events, PreviewStop, Goto, xomVars
<1>7. CASE CitfDetachChain
  BY <1>7, OutputChainAssumption
  DEF IInv, ChainTypeOK, PhasesMatch, Events, CitfDetachChain, Goto, engineVars
<1>8. CASE CitfStopOutChain
  BY <1>8, OutputChainAssumption
  DEF IInv, ChainTypeOK, PhasesMatch, Events, CitfStopOutChain, Goto,
      engineVars, SendEvent
<1>9. CASE CitfDeinitOutChain
  BY <1>9, OutputChainAssumption
  DEF IInv, ChainTypeOK, PhasesMatch, Events, CitfDeinitOutChain, Goto,
      engineVars
<1>10. CASE BufferCb
  BY <1>10, OutputChainAssumption
  DEF IInv, ChainTypeOK, PhasesMatch, Events, BufferCb, sensorVars
<1>11. CASE FullBufWrite
  <2> FullBufQueue \in Seq(Buffers) /\ MaxBuffers \in Nat
    BY OutputChainAssumption DEF IInv, ChainTypeOK
  <2>1. FullBufQueue' \in Seq(Buffers) /\ Len(FullBufQueue') <= MaxBuffers
    BY <1>11, WriteDoes
  <2>2. /\ callback' \in [at : {"idle", "write", "send"},
                         buf : Buffers \cup {NoBuffer}, event : Events]
        /\ locked' \subseteq Buffers
    BY <1>11, WriteDoes DEF IInv, ChainTypeOK
  <2> QED
    <3>1. UNCHANGED <<state, attached, CommandQueue, FrameIdx, streaming, client,
                      bRunning, loop, held, back>>
      BY <1>11 DEF FullBufWrite, sensorVars
    <3> QED
      BY <2>1, <2>2, <3>1 DEF IInv, ChainTypeOK
<1>12. CASE CallbackSends
  <2>1. callback.event \in Events
    BY DEF IInv, ChainTypeOK
  <2>2. CommandQueue' \in Seq(Events) /\ Len(CommandQueue') <= MaxEvents
    <3>1. /\ CommandQueue \in Seq(Events) /\ Len(CommandQueue) <= MaxEvents
          /\ MaxEvents \in Nat
      BY OutputChainAssumption DEF IInv, ChainTypeOK
    <3>2. CASE state = "Running"
      <4>1. /\ Len(CommandQueue) < MaxEvents
            /\ CommandQueue' = Append(CommandQueue, callback.event)
        BY <1>12, <3>2 DEF CallbackSends, SendEvent
      <4> QED
        BY <2>1, <3>1, <4>1
    <3>3. CASE state # "Running"
      BY <1>12, <3>1, <3>3 DEF CallbackSends, SendEvent
    <3> QED
      BY <3>2, <3>3
  <2>3. callback' \in [at : {"idle", "write", "send"},
                      buf : Buffers \cup {NoBuffer}, event : Events]
    BY <1>12 DEF CallbackSends, NoCallback, Events
  <2> QED
    BY <1>12, <2>2, <2>3 DEF IInv, ChainTypeOK, CallbackSends, sensorVars
<1>13. CASE LoopEnd
  BY <1>13, OutputChainAssumption
  DEF IInv, ChainTypeOK, PhasesMatch, Events, LoopEnd, xomVars, engineVars
<1>14. CASE CitfWaitForBufferEvent
  BY <1>14, OutputChainAssumption
  DEF IInv, ChainTypeOK, PhasesMatch, Events, CitfWaitForBufferEvent,
      engineVars
<1>15. CASE CitfDQBUF
  <2> /\ FullBufQueue \in Seq(Buffers) /\ Len(FullBufQueue) <= MaxBuffers
      /\ MaxBuffers \in Nat
    BY OutputChainAssumption DEF IInv, ChainTypeOK
  <2>1. /\ FullBufQueue' \in Seq(Buffers) /\ Len(FullBufQueue') <= MaxBuffers
        /\ Head(FullBufQueue) \in Buffers
    BY <1>15, TakeDoes
  <2>2. held' \subseteq Buffers
    BY <1>15, <2>1, TakeDoes DEF IInv, ChainTypeOK
  <2> QED
    BY <1>15, <2>1, <2>2 DEF IInv, ChainTypeOK, CitfDQBUF, engineVars
<1>16. CASE CitfQBUF
  BY <1>16, OutputChainAssumption
  DEF IInv, ChainTypeOK, PhasesMatch, Events, CitfQBUF, xomVars, engineVars,
      sensorVars
<1>17. CASE XomQBUF
  BY <1>17, OutputChainAssumption
  DEF IInv, ChainTypeOK, PhasesMatch, Events, XomQBUF, xomVars, engineVars,
      sensorVars, NoBack
<1>18. CASE MediaBufUnlockBuffer
  BY <1>18, OutputChainAssumption
  DEF IInv, ChainTypeOK, PhasesMatch, Events, MediaBufUnlockBuffer, engineVars,
      sensorVars, NoBack
<1>19. CASE UNCHANGED vars
  BY <1>19, OutputChainAssumption
  DEF IInv, ChainTypeOK, PhasesMatch, Events, vars, xomVars, engineVars,
      sensorVars
<1> QED
  BY <1>1, <1>2, <1>3, <1>4, <1>5, <1>6, <1>7, <1>8, <1>9, <1>10, <1>11, <1>12,
     <1>13, <1>14, <1>15, <1>16, <1>17, <1>18, <1>19
  DEF Next, Start, Stop, Callback, Loop, Back

(***************************************************************************)
(* Every step of start and stop leaves behind what the next one finds.     *)
(***************************************************************************)
LEMMA PhasesStep ==
  ASSUME RoomForPictures, IInv, [Next]_vars
  PROVE  PhasesMatch'
<1>1. CASE PreviewStart
  BY <1>1 DEF IInv, ChainTypeOK, PhasesMatch, PreviewStart, Goto
<1>2. CASE CitfInitOutChain
  BY <1>2
  DEF IInv, ChainTypeOK, PhasesMatch, CitfInitOutChain, Goto, engineVars
<1>3. CASE CitfStartOutChain
  BY <1>3
  DEF IInv, ChainTypeOK, PhasesMatch, CitfStartOutChain, Goto, engineVars
<1>4. CASE CitfAttachChain
  BY <1>4 DEF IInv, ChainTypeOK, PhasesMatch, CitfAttachChain, Goto, engineVars
<1>5. CASE StopSensor
  BY <1>5
  DEF IInv, ChainTypeOK, PhasesMatch, StopSensor, Goto, xomVars, engineVars
<1>6. CASE PreviewStop
  BY <1>6 DEF IInv, ChainTypeOK, PhasesMatch, PreviewStop, Goto, xomVars
<1>7. CASE CitfDetachChain
  BY <1>7 DEF IInv, ChainTypeOK, PhasesMatch, CitfDetachChain, Goto, engineVars
<1>8. CASE CitfStopOutChain
  BY <1>8
  DEF IInv, ChainTypeOK, PhasesMatch, CitfStopOutChain, Goto, engineVars,
      SendEvent
<1>9. CASE CitfDeinitOutChain
  BY <1>9
  DEF IInv, ChainTypeOK, PhasesMatch, CitfDeinitOutChain, Goto, engineVars
<1>10. CASE BufferCb
  BY <1>10 DEF IInv, ChainTypeOK, PhasesMatch, BufferCb, sensorVars
<1>11. CASE FullBufWrite
  BY <1>11 DEF IInv, ChainTypeOK, PhasesMatch, FullBufWrite, sensorVars
<1>12. CASE CallbackSends
  BY <1>12
  DEF IInv, ChainTypeOK, PhasesMatch, CallbackSends, sensorVars, NoCallback,
      SendEvent
<1>13. CASE LoopEnd
  BY <1>13 DEF IInv, ChainTypeOK, PhasesMatch, LoopEnd, xomVars, engineVars
<1>14. CASE CitfWaitForBufferEvent
  BY <1>14
  DEF IInv, ChainTypeOK, PhasesMatch, CitfWaitForBufferEvent, engineVars
<1>15. CASE CitfDQBUF
  BY <1>15 DEF IInv, ChainTypeOK, PhasesMatch, CitfDQBUF, engineVars
<1>16. CASE CitfQBUF
  BY <1>16
  DEF IInv, ChainTypeOK, PhasesMatch, CitfQBUF, xomVars, engineVars, sensorVars
<1>17. CASE XomQBUF
  BY <1>17
  DEF IInv, ChainTypeOK, PhasesMatch, XomQBUF, xomVars, engineVars, sensorVars,
      NoBack
<1>18. CASE MediaBufUnlockBuffer
  BY <1>18
  DEF IInv, ChainTypeOK, PhasesMatch, MediaBufUnlockBuffer, engineVars,
      sensorVars, NoBack
<1>19. CASE UNCHANGED vars
  BY <1>19
  DEF IInv, ChainTypeOK, PhasesMatch, vars, xomVars, engineVars, sensorVars
<1> QED
  BY <1>1, <1>2, <1>3, <1>4, <1>5, <1>6, <1>7, <1>8, <1>9, <1>10, <1>11, <1>12,
     <1>13, <1>14, <1>15, <1>16, <1>17, <1>18, <1>19
  DEF Next, Start, Stop, Callback, Loop, Back

(***************************************************************************)
(* A buffer comes into FullBufQueue when it is locked, leaves it for the   *)
(* dewarp, and is unlocked when the dewarp has given it back.              *)
(***************************************************************************)
LEMMA PlacesStep ==
  ASSUME RoomForPictures, IInv, [Next]_vars
  PROVE  PlacesMatch'
<1>1. CASE PreviewStart
  <2>1. FullBufQueue' = <<>> /\ callback'.at = "idle" /\ back'.at = "idle"
    BY <1>1 DEF IInv, ChainTypeOK, PhasesMatch, PreviewStart, Goto
  <2>2. locked' = {} /\ held' = {}
    BY <1>1 DEF PreviewStart
  <2> QED
    BY <2>1, <2>2 DEF PlacesMatch, Distinct, ToSet
<1>2. CASE CitfInitOutChain
  BY <1>2
  DEF IInv, ChainTypeOK, PhasesMatch, PlacesMatch, CitfInitOutChain, Goto,
      engineVars
<1>3. CASE CitfStartOutChain
  BY <1>3
  DEF IInv, ChainTypeOK, PhasesMatch, PlacesMatch, CitfStartOutChain, Goto,
      engineVars
<1>4. CASE CitfAttachChain
  BY <1>4
  DEF IInv, ChainTypeOK, PhasesMatch, PlacesMatch, CitfAttachChain, Goto,
      engineVars
<1>5. CASE StopSensor
  BY <1>5
  DEF IInv, ChainTypeOK, PhasesMatch, PlacesMatch, StopSensor, Goto, xomVars,
      engineVars
<1>6. CASE PreviewStop
  BY <1>6
  DEF IInv, ChainTypeOK, PhasesMatch, PlacesMatch, PreviewStop, Goto, xomVars
<1>7. CASE CitfDetachChain
  BY <1>7
  DEF IInv, ChainTypeOK, PhasesMatch, PlacesMatch, CitfDetachChain, Goto,
      engineVars
<1>8. CASE CitfStopOutChain
  BY <1>8
  DEF IInv, ChainTypeOK, PhasesMatch, PlacesMatch, CitfStopOutChain, Goto,
      engineVars, SendEvent
<1>9. CASE CitfDeinitOutChain
  <2>1. FullBufQueue' = <<>> /\ callback'.at = "idle"
    BY <1>9 DEF IInv, ChainTypeOK, PhasesMatch, CitfDeinitOutChain, Goto, engineVars
  <2>2. Distinct(FullBufQueue)' /\ ToSet(FullBufQueue)' = {}
    BY <2>1 DEF Distinct, ToSet
  <2>3. locked' = locked \ ToSet(FullBufQueue) /\ held' = held /\ back' = back
    BY <1>9 DEF CitfDeinitOutChain
  <2> QED
    BY <2>1, <2>2, <2>3 DEF IInv, PlacesMatch
<1>10. CASE BufferCb
  BY <1>10
  DEF IInv, ChainTypeOK, PhasesMatch, PlacesMatch, BufferCb, sensorVars
<1>11. CASE FullBufWrite
  <2>1. /\ Distinct(FullBufQueue')
        /\ ToSet(FullBufQueue') = ToSet(FullBufQueue) \cup {callback.buf}
    <3>1. FullBufQueue \in Seq(Buffers) /\ Distinct(FullBufQueue)
      BY DEF IInv, ChainTypeOK, PlacesMatch
    <3>2. /\ callback.buf \in Buffers \ ToSet(FullBufQueue)
          /\ FullBufQueue' = Append(FullBufQueue, callback.buf)
      BY <1>11, WriteDoes
    <3> QED
      BY <3>1, <3>2, DistinctAppend
  <2>2. callback.buf \notin held
    BY <1>11, WriteDoes DEF IInv, PlacesMatch
  <2>3. callback'.at = "send"
    BY <1>11, WriteDoes DEF IInv, ChainTypeOK
  <2> QED
    BY <1>11, <2>1, <2>2, <2>3, WriteDoes DEF IInv, PlacesMatch, FullBufWrite
<1>12. CASE CallbackSends
  BY <1>12
  DEF IInv, ChainTypeOK, PhasesMatch, PlacesMatch, CallbackSends, sensorVars,
      NoCallback, SendEvent
<1>13. CASE LoopEnd
  BY <1>13
  DEF IInv, ChainTypeOK, PhasesMatch, PlacesMatch, LoopEnd, xomVars, engineVars
<1>14. CASE CitfWaitForBufferEvent
  BY <1>14
  DEF IInv, ChainTypeOK, PhasesMatch, PlacesMatch, CitfWaitForBufferEvent,
      engineVars
<1>15. CASE CitfDQBUF
  <2>1. /\ Distinct(FullBufQueue')
        /\ ToSet(FullBufQueue') = ToSet(FullBufQueue) \ {Head(FullBufQueue)}
        /\ Head(FullBufQueue) \in ToSet(FullBufQueue)
    BY <1>15, TakeDoes, DistinctTail DEF IInv, ChainTypeOK, PlacesMatch
  <2>2. held' = held \cup {Head(FullBufQueue)}
    BY <1>15, TakeDoes
  <2> QED
    BY <1>15, <2>1, <2>2 DEF IInv, PlacesMatch, CitfDQBUF, engineVars
<1>16. CASE CitfQBUF
  BY <1>16
  DEF IInv, ChainTypeOK, PhasesMatch, PlacesMatch, CitfQBUF, xomVars,
      engineVars, sensorVars
<1>17. CASE XomQBUF
  BY <1>17
  DEF IInv, ChainTypeOK, PhasesMatch, PlacesMatch, XomQBUF, xomVars,
      engineVars, sensorVars, NoBack
<1>18. CASE MediaBufUnlockBuffer
  BY <1>18
  DEF IInv, ChainTypeOK, PhasesMatch, PlacesMatch, MediaBufUnlockBuffer,
      engineVars, sensorVars, NoBack
<1>19. CASE UNCHANGED vars
  BY <1>19
  DEF IInv, ChainTypeOK, PhasesMatch, PlacesMatch, vars, xomVars, engineVars,
      sensorVars
<1> QED
  BY <1>1, <1>2, <1>3, <1>4, <1>5, <1>6, <1>7, <1>8, <1>9, <1>10, <1>11, <1>12,
     <1>13, <1>14, <1>15, <1>16, <1>17, <1>18, <1>19
  DEF Next, Start, Stop, Callback, Loop, Back

(***************************************************************************)
(* Pictures and events come and go together.                               *)
(***************************************************************************)
LEMMA EventsStep ==
  ASSUME RoomForPictures, IInv, [Next]_vars
  PROVE  EventsMatch'
<1>1. CASE PreviewStart
  BY <1>1 DEF IInv, ChainTypeOK, PhasesMatch, EventsMatch, PreviewStart, Goto
<1>2. CASE CitfInitOutChain
  BY <1>2
  DEF IInv, ChainTypeOK, PhasesMatch, EventsMatch, CitfInitOutChain, Goto,
      engineVars
<1>3. CASE CitfStartOutChain
  <2>1. CommandQueue = <<>> /\ FullBufQueue' = <<>>
    BY <1>3 DEF IInv, PhasesMatch, CitfStartOutChain, Goto
  <2>2. callback'.at = "idle" /\ loop' = "none"
    BY <1>3 DEF IInv, ChainTypeOK, PhasesMatch, CitfStartOutChain, Goto, engineVars
  <2>3. CommandQueue' = Append(<<>>, "START")
    BY <1>3, <2>1 DEF CitfStartOutChain
  <2>4. Cardinality(Ready(CommandQueue')) = 0
    BY <2>3, ReadyStart
  <2> QED
    BY <2>1, <2>2, <2>4 DEF EventsMatch
<1>4. CASE CitfAttachChain
  BY <1>4
  DEF IInv, ChainTypeOK, PhasesMatch, EventsMatch, CitfAttachChain, Goto,
      engineVars
<1>5. CASE StopSensor
  BY <1>5
  DEF IInv, ChainTypeOK, PhasesMatch, EventsMatch, StopSensor, Goto, xomVars,
      engineVars
<1>6. CASE PreviewStop
  BY <1>6
  DEF IInv, ChainTypeOK, PhasesMatch, EventsMatch, PreviewStop, Goto, xomVars
<1>7. CASE CitfDetachChain
  BY <1>7
  DEF IInv, ChainTypeOK, PhasesMatch, EventsMatch, CitfDetachChain, Goto,
      engineVars
<1>8. CASE CitfStopOutChain
  BY <1>8
  DEF IInv, ChainTypeOK, PhasesMatch, EventsMatch, CitfStopOutChain, Goto,
      engineVars, SendEvent
<1>9. CASE CitfDeinitOutChain
  BY <1>9
  DEF IInv, ChainTypeOK, PhasesMatch, EventsMatch, CitfDeinitOutChain, Goto,
      engineVars
<1>10. CASE BufferCb
  BY <1>10
  DEF IInv, ChainTypeOK, PhasesMatch, EventsMatch, BufferCb, sensorVars
<1>11. CASE FullBufWrite
  <2>1. Len(FullBufQueue') = Len(FullBufQueue) + 1
    BY <1>11, WriteDoes DEF IInv, ChainTypeOK
  <2>2. callback'.at = "send" /\ callback'.event = "READY" /\ callback.at = "write"
    BY <1>11, WriteDoes DEF IInv, ChainTypeOK
  <2>3. CommandQueue' = CommandQueue /\ loop' = loop /\ state' = state
    BY <1>11 DEF FullBufWrite, sensorVars
  <2>4. Cardinality(Ready(CommandQueue)) \in Nat
    BY ReadyFinite DEF IInv, ChainTypeOK
  <2> QED
    BY <2>1, <2>2, <2>3, <2>4 DEF IInv, EventsMatch
<1>12. CASE CallbackSends
  <2>1. state = "Running" /\ callback.event \in Events
    BY <1>12 DEF IInv, ChainTypeOK, PhasesMatch, CallbackSends
  <2>2. CommandQueue' = Append(CommandQueue, callback.event)
    BY <1>12, <2>1 DEF CallbackSends, SendEvent
  <2>3. Cardinality(Ready(CommandQueue'))
          = Cardinality(Ready(CommandQueue)) + (IF callback.event = "READY" THEN 1 ELSE 0)
    BY <2>1, <2>2, ReadyAppend DEF IInv, ChainTypeOK
  <2>4. Cardinality(Ready(CommandQueue)) \in Nat
    BY ReadyFinite DEF IInv, ChainTypeOK
  <2>5. /\ callback.at = "send" /\ callback'.at = "idle"
        /\ FullBufQueue' = FullBufQueue /\ loop' = loop
    BY <1>12 DEF CallbackSends, NoCallback, sensorVars
  <2> QED
    BY <2>1, <2>3, <2>4, <2>5 DEF IInv, EventsMatch
<1>13. CASE LoopEnd
  BY <1>13
  DEF IInv, ChainTypeOK, PhasesMatch, EventsMatch, LoopEnd, xomVars, engineVars
<1>14. CASE CitfWaitForBufferEvent
  <2>1. Cardinality(Ready(CommandQueue'))
          = Cardinality(Ready(CommandQueue))
              - (IF Head(CommandQueue) = "READY" THEN 1 ELSE 0)
    BY <1>14, ReadyTail DEF IInv, ChainTypeOK, CitfWaitForBufferEvent
  <2>2. Cardinality(Ready(CommandQueue)) \in Nat
    BY ReadyFinite DEF IInv, ChainTypeOK
  <2>3. /\ loop = "wait" /\ (loop' = "dqbuf" <=> Head(CommandQueue) = "READY")
        /\ UNCHANGED <<FullBufQueue, callback>> /\ state = "Running"
    BY <1>14 DEF CitfWaitForBufferEvent, engineVars
  <2> QED
    BY <2>1, <2>2, <2>3 DEF IInv, EventsMatch
<1>15. CASE CitfDQBUF
  <2>1. Len(FullBufQueue') = Len(FullBufQueue) - 1
    BY <1>15, TakeDoes DEF IInv, ChainTypeOK
  <2>2. Cardinality(Ready(CommandQueue)) \in Nat
    BY ReadyFinite DEF IInv, ChainTypeOK
  <2>3. loop = "dqbuf" /\ loop' = "wait" /\ UNCHANGED <<CommandQueue, callback, state>>
    BY <1>15 DEF CitfDQBUF, engineVars
  <2> QED
    BY <2>1, <2>2, <2>3 DEF IInv, EventsMatch
<1>16. CASE CitfQBUF
  BY <1>16
  DEF IInv, ChainTypeOK, PhasesMatch, EventsMatch, CitfQBUF, xomVars,
      engineVars, sensorVars
<1>17. CASE XomQBUF
  BY <1>17
  DEF IInv, ChainTypeOK, PhasesMatch, EventsMatch, XomQBUF, xomVars,
      engineVars, sensorVars, NoBack
<1>18. CASE MediaBufUnlockBuffer
  BY <1>18
  DEF IInv, ChainTypeOK, PhasesMatch, EventsMatch, MediaBufUnlockBuffer,
      engineVars, sensorVars, NoBack
<1>19. CASE UNCHANGED vars
  BY <1>19
  DEF IInv, ChainTypeOK, PhasesMatch, EventsMatch, vars, xomVars, engineVars,
      sensorVars
<1> QED
  BY <1>1, <1>2, <1>3, <1>4, <1>5, <1>6, <1>7, <1>8, <1>9, <1>10, <1>11, <1>12,
     <1>13, <1>14, <1>15, <1>16, <1>17, <1>18, <1>19
  DEF Next, Start, Stop, Callback, Loop, Back

(***************************************************************************)
(* The events stay bounded by the pictures.                                *)
(***************************************************************************)
LEMMA BoundedStep ==
  ASSUME RoomForPictures, IInv, [Next]_vars
  PROVE  EventsBounded'
<1>1. CASE PreviewStart
  BY <1>1 DEF IInv, ChainTypeOK, PhasesMatch, EventsBounded, PreviewStart, Goto
<1>2. CASE CitfInitOutChain
  BY <1>2
  DEF IInv, ChainTypeOK, PhasesMatch, EventsBounded, CitfInitOutChain, Goto,
      engineVars
<1>3. CASE CitfStartOutChain
  <2>1. CommandQueue = <<>> /\ callback'.at = "idle"
    BY <1>3 DEF IInv, ChainTypeOK, PhasesMatch, CitfStartOutChain, Goto, engineVars
  <2>2. CommandQueue' = Append(<<>>, "START")
    BY <1>3, <2>1 DEF CitfStartOutChain
  <2>3. Cardinality(Ready(CommandQueue')) = 0 /\ Len(CommandQueue') = 1
    BY <2>2, ReadyStart
  <2> QED
    BY <2>1, <2>3 DEF EventsBounded
<1>4. CASE CitfAttachChain
  BY <1>4
  DEF IInv, ChainTypeOK, PhasesMatch, EventsBounded, CitfAttachChain, Goto,
      engineVars
<1>5. CASE StopSensor
  BY <1>5
  DEF IInv, ChainTypeOK, PhasesMatch, EventsBounded, StopSensor, Goto, xomVars,
      engineVars
<1>6. CASE PreviewStop
  BY <1>6
  DEF IInv, ChainTypeOK, PhasesMatch, EventsBounded, PreviewStop, Goto, xomVars
<1>7. CASE CitfDetachChain
  BY <1>7
  DEF IInv, ChainTypeOK, PhasesMatch, EventsBounded, CitfDetachChain, Goto,
      engineVars
<1>8. CASE CitfStopOutChain
  BY <1>8
  DEF IInv, ChainTypeOK, PhasesMatch, EventsBounded, CitfStopOutChain, Goto,
      engineVars, SendEvent
<1>9. CASE CitfDeinitOutChain
  BY <1>9
  DEF IInv, ChainTypeOK, PhasesMatch, EventsBounded, CitfDeinitOutChain, Goto,
      engineVars
<1>10. CASE BufferCb
  BY <1>10
  DEF IInv, ChainTypeOK, PhasesMatch, EventsBounded, BufferCb, sensorVars
<1>11. CASE FullBufWrite
  <2>1. callback'.at = "send" /\ callback'.event = "READY"
    BY <1>11, WriteDoes DEF IInv, ChainTypeOK
  <2>2. CommandQueue' = CommandQueue /\ state' = state
    BY <1>11 DEF FullBufWrite
  <2> QED
    BY <2>1, <2>2 DEF IInv, EventsBounded
<1>12. CASE CallbackSends
  <2>1. state = "Running" /\ callback.event \in Events /\ callback.at = "send"
    BY <1>12 DEF IInv, ChainTypeOK, PhasesMatch, CallbackSends
  <2>2. CommandQueue' = Append(CommandQueue, callback.event)
    BY <1>12, <2>1 DEF CallbackSends, SendEvent
  <2>3. Cardinality(Ready(CommandQueue'))
          = Cardinality(Ready(CommandQueue)) + (IF callback.event = "READY" THEN 1 ELSE 0)
    BY <2>1, <2>2, ReadyAppend DEF IInv, ChainTypeOK
  <2>4. Len(CommandQueue') = Len(CommandQueue) + 1 /\ Len(CommandQueue) \in Nat
    BY <2>1, <2>2 DEF IInv, ChainTypeOK
  <2>5. Cardinality(Ready(CommandQueue)) \in Nat
    BY ReadyFinite DEF IInv, ChainTypeOK
  <2>6. callback'.at = "idle"
    BY <1>12 DEF CallbackSends, NoCallback
  <2> QED
    BY <2>1, <2>3, <2>4, <2>5, <2>6 DEF IInv, EventsBounded
<1>13. CASE LoopEnd
  BY <1>13
  DEF IInv, ChainTypeOK, PhasesMatch, EventsBounded, LoopEnd, xomVars,
      engineVars
<1>14. CASE CitfWaitForBufferEvent
  <2>1. Cardinality(Ready(CommandQueue'))
          = Cardinality(Ready(CommandQueue))
              - (IF Head(CommandQueue) = "READY" THEN 1 ELSE 0)
    BY <1>14, ReadyTail DEF IInv, ChainTypeOK, CitfWaitForBufferEvent
  <2>2. Cardinality(Ready(CommandQueue)) \in Nat
    BY ReadyFinite DEF IInv, ChainTypeOK
  <2>3. Len(CommandQueue') = Len(CommandQueue) - 1 /\ Len(CommandQueue) \in Nat
    BY <1>14 DEF IInv, ChainTypeOK, CitfWaitForBufferEvent
  <2>4. callback' = callback /\ state = "Running"
    BY <1>14 DEF CitfWaitForBufferEvent, engineVars
  <2> QED
    BY <2>1, <2>2, <2>3, <2>4 DEF IInv, EventsBounded
<1>15. CASE CitfDQBUF
  BY <1>15
  DEF IInv, ChainTypeOK, PhasesMatch, EventsBounded, CitfDQBUF, engineVars
<1>16. CASE CitfQBUF
  BY <1>16
  DEF IInv, ChainTypeOK, PhasesMatch, EventsBounded, CitfQBUF, xomVars,
      engineVars, sensorVars
<1>17. CASE XomQBUF
  BY <1>17
  DEF IInv, ChainTypeOK, PhasesMatch, EventsBounded, XomQBUF, xomVars,
      engineVars, sensorVars, NoBack
<1>18. CASE MediaBufUnlockBuffer
  BY <1>18
  DEF IInv, ChainTypeOK, PhasesMatch, EventsBounded, MediaBufUnlockBuffer,
      engineVars, sensorVars, NoBack
<1>19. CASE UNCHANGED vars
  BY <1>19
  DEF IInv, ChainTypeOK, PhasesMatch, EventsBounded, vars, xomVars, engineVars,
      sensorVars
<1> QED
  BY <1>1, <1>2, <1>3, <1>4, <1>5, <1>6, <1>7, <1>8, <1>9, <1>10, <1>11, <1>12,
     <1>13, <1>14, <1>15, <1>16, <1>17, <1>18, <1>19
  DEF Next, Start, Stop, Callback, Loop, Back

-----------------------------------------------------------------------------
THEOREM Invariance ==
  ASSUME RoomForPictures
  PROVE  Spec => []IInv
<1>1. Init => IInv
  BY InitHolds
<1>2. IInv /\ [Next]_vars => IInv'
  BY TypeStep, PhasesStep, PlacesStep, EventsStep, BoundedStep DEF IInv
<1> QED
  BY <1>1, <1>2, PTL DEF Spec

(***************************************************************************)
(* Pictures and events match, so that DQBUF never succeeds with an old     *)
(* pointer: for every number of buffers, if FullBufQueue has room for all. *)
(***************************************************************************)
THEOREM PicturesAnnounced ==
  ASSUME RoomForPictures
  PROVE  Spec => []EventsMatch
<1>1. IInv => EventsMatch
  BY DEF IInv
<1> QED
  BY <1>1, Invariance, PTL

(***************************************************************************)
(* The chain is deleted only when the callback and the loop thread are     *)
(* out of it.                                                              *)
(***************************************************************************)
THEOREM DeletedLast ==
  ASSUME RoomForPictures
  PROVE  Spec => []DeletedUnused
<1>1. IInv => DeletedUnused
  BY DEF IInv, ChainTypeOK, PhasesMatch, DeletedUnused
<1> QED
  BY <1>1, Invariance, PTL

(***************************************************************************)
(* After a stop nothing is locked but what the dewarp has.                 *)
(***************************************************************************)
THEOREM RestUnlocked ==
  ASSUME RoomForPictures
  PROVE  Spec => []OnlyHeldLocked
<1>1. IInv => OnlyHeldLocked
  <2> SUFFICES ASSUME IInv, client = "idle" PROVE locked \subseteq held
    BY DEF OnlyHeldLocked
  <2>1. FullBufQueue = <<>>
    BY DEF IInv, PhasesMatch
  <2> QED
    BY <2>1 DEF IInv, PlacesMatch, ToSet
<1> QED
  BY <1>1, Invariance, PTL

(***************************************************************************)
(* When no picture is left out, a command queue that is longer than the    *)
(* number of buffers by two has room for the event of a stop.              *)
(***************************************************************************)
THEOREM StopHasRoom ==
  ASSUME RoomForPictures, FrameSkip_Max = 0, Cardinality(Buffers) + 2 <= MaxEvents
  PROVE  Spec => []RoomForStop
<1>1. IInv => RoomForStop
  <2> SUFFICES ASSUME IInv, client = "stop" PROVE Len(CommandQueue) < MaxEvents
    BY DEF RoomForStop
  <2>1. state = "Running" /\ callback.at = "idle" /\ loop = "none"
    BY DEF IInv, ChainTypeOK, PhasesMatch
  <2>2. /\ Cardinality(Ready(CommandQueue)) \in Nat
        /\ Len(FullBufQueue) = Cardinality(Ready(CommandQueue))
    BY <2>1, ReadyFinite DEF IInv, ChainTypeOK, EventsMatch
  <2>3. Len(CommandQueue) <= Cardinality(Ready(CommandQueue)) + 1
    BY <2>1 DEF IInv, EventsBounded
  <2>4. Len(FullBufQueue) <= Cardinality(Buffers)
    BY DistinctLength DEF IInv, ChainTypeOK, PlacesMatch, RoomForPictures
  <2>5. Cardinality(Buffers) \in Nat /\ Len(CommandQueue) \in Nat
    BY FS_CardinalityType DEF RoomForPictures, IInv, ChainTypeOK
  <2> QED
    BY <2>2, <2>3, <2>4, <2>5, OutputChainAssumption
<1> QED
  BY <1>1, Invariance, PTL

-----------------------------------------------------------------------------
(***************************************************************************)
(* A step of the chain is a step of its contract, or leaves it alone.      *)
(***************************************************************************)
LEMMA StepKeepsContract ==
  ASSUME RoomForPictures, IInv, IInv', [Next]_vars
  PROVE  [Contract!ChainNext]_(Contract!chainVars)
<1>1. ASSUME UNCHANGED <<state, locked, FullBufQueue>>
      PROVE  UNCHANGED Contract!chainVars
  BY <1>1 DEF Contract!chainVars
<1>2. ASSUME state # "Running", state' # "Running"
      PROVE  UNCHANGED Contract!chainVars
  BY <1>2 DEF Contract!chainVars
<1>3. CASE PreviewStart
  BY <1>2, <1>3 DEF IInv, PhasesMatch, PreviewStart, Goto
<1>4. CASE CitfInitOutChain
  BY <1>2, <1>4 DEF IInv, PhasesMatch, CitfInitOutChain, Goto
<1>5. CASE CitfStartOutChain
  <2>1. state # "Running" /\ state' = "Running" /\ FullBufQueue' = <<>>
    BY <1>5 DEF IInv, PhasesMatch, CitfStartOutChain, Goto
  <2>2. Contract!Attach
    BY <2>1 DEF Contract!Attach
  <2> QED
    BY <2>2 DEF Contract!ChainNext
<1>6. CASE CitfAttachChain \/ StopSensor \/ PreviewStop \/ CitfDetachChain
  BY <1>1, <1>6 DEF CitfAttachChain, StopSensor, PreviewStop, CitfDetachChain, xomVars
<1>7. CASE CitfStopOutChain
  <2>1. client = "stop" /\ state' = "Idle"
    BY <1>7 DEF CitfStopOutChain, Goto
  <2>2. state = "Running"
    BY <2>1 DEF IInv, ChainTypeOK, PhasesMatch
  <2>3. state' # "Running"
    BY <2>1
  <2>4. Contract!Detach
    BY <2>2, <2>3 DEF Contract!Detach
  <2> QED
    BY <2>4 DEF Contract!ChainNext
<1>8. CASE CitfDeinitOutChain
  BY <1>2, <1>8 DEF IInv, PhasesMatch, CitfDeinitOutChain, Goto
<1>9. CASE BufferCb \/ CallbackSends
  BY <1>1, <1>9 DEF BufferCb, CallbackSends
<1>10. CASE FullBufWrite
  <2>1. state = "Running" /\ state' = "Running"
    BY <1>10 DEF IInv, ChainTypeOK, PhasesMatch, FullBufWrite
  <2>2. callback.buf \in Buffers \ locked
    BY <1>10 DEF IInv, PlacesMatch, FullBufWrite
  <2>3. /\ FullBufQueue' = Append(FullBufQueue, callback.buf)
        /\ Buffers \ locked' = (Buffers \ locked) \ {callback.buf}
    BY <1>10, WriteDoes
  <2>4. Contract!Fill
    BY <2>1, <2>2, <2>3 DEF Contract!Fill
  <2> QED
    BY <2>4 DEF Contract!ChainNext
<1>11. CASE LoopEnd \/ CitfWaitForBufferEvent
  BY <1>1, <1>11 DEF LoopEnd, CitfWaitForBufferEvent, xomVars
<1>12. CASE CitfDQBUF
  <2>1. state = "Running" /\ UNCHANGED <<state, locked>>
    BY <1>12 DEF IInv, ChainTypeOK, PhasesMatch, CitfDQBUF
  <2>2. FullBufQueue # <<>> /\ FullBufQueue' = Tail(FullBufQueue)
    BY <1>12, TakeDoes
  <2>3. Contract!Take
    BY <2>1, <2>2 DEF Contract!Take
  <2> QED
    BY <2>3 DEF Contract!ChainNext
<1>13. CASE CitfQBUF \/ XomQBUF
  BY <1>1, <1>13 DEF CitfQBUF, XomQBUF, xomVars
<1>14. CASE MediaBufUnlockBuffer
  <2>1. back.buf \in held /\ held \subseteq Buffers
    BY <1>14 DEF IInv, ChainTypeOK, PlacesMatch, MediaBufUnlockBuffer
  <2>2. back.buf \in locked /\ back.buf \notin ToSet(FullBufQueue)
    BY <2>1 DEF IInv, PlacesMatch
  <2>3. locked' = locked \ {back.buf} /\ UNCHANGED <<state, FullBufQueue>>
    BY <1>14 DEF MediaBufUnlockBuffer
  <2>4. CASE state = "Running"
    <3>1. Buffers \ locked' = (Buffers \ locked) \cup {back.buf}
      BY <2>1, <2>3
    <3>2. state' = "Running" /\ FullBufQueue' = FullBufQueue
      BY <2>3, <2>4
    <3>3. back.buf \in Buffers \ ((Buffers \ locked) \cup ToSet(FullBufQueue))
      BY <2>1, <2>2
    <3>4. Contract!Give
      BY <2>4, <3>1, <3>2, <3>3 DEF Contract!Give, Contract!ToSet, ToSet
    <3> QED
      BY <3>4 DEF Contract!ChainNext
  <2>5. CASE state # "Running"
    BY <1>2, <2>3, <2>5
  <2> QED
    BY <2>4, <2>5
<1>15. CASE UNCHANGED vars
  BY <1>1, <1>15 DEF vars, xomVars
<1> QED
  BY <1>3, <1>4, <1>5, <1>6, <1>7, <1>8, <1>9, <1>10, <1>11, <1>12, <1>13, <1>14,
     <1>15
     DEF Next, Start, Stop, Callback, Loop, Back

(***************************************************************************)
(* The chain implements IspChain, the contract MediaStream builds on, for  *)
(* every number of buffers, if FullBufQueue has room for all of them.      *)
(***************************************************************************)
THEOREM ContractKept ==
  ASSUME RoomForPictures
  PROVE  Spec => KeepsContract
<1>1. Init => Contract!ChainInit
  BY DEF Init, Contract!ChainInit
<1>2. IInv /\ IInv' /\ [Next]_vars => [Contract!ChainNext]_(Contract!chainVars)
  BY StepKeepsContract
<1> QED
  BY <1>1, <1>2, Invariance, PTL DEF Spec, KeepsContract, Contract!ChainSpec
=============================================================================
