------------------------------ MODULE OsQueue ------------------------------
(***************************************************************************)
(* osQueue (units/oslayer, oslayer_generic.c): a ring buffer of ItemNum    *)
(* slots guarded by two counting semaphores and a mutex, as it runs over   *)
(* the semaphores of oslayer_linux.c.                                      *)
(*                                                                         *)
(* A read or a write passes through                                        *)
(*    the wait on its gate   ItemsUsedSema for a read, ItemsFreeSema for a *)
(*                           write ("asleep" there, or straight through),  *)
(*    "reserve"              under AccessMutex, take the next slot and     *)
(*                           advance the pointer,                          *)
(*    "copy"                 memcpy of the item, after the mutex has been  *)
(*                           released,                                     *)
(*    "post"                 post the other semaphore and return.          *)
(* The mutex section is straight-line code and one atomic step; the wait,  *)
(* the copy and the post are steps of their own.                           *)
(***************************************************************************)
EXTENDS OsSemaphoreOps, FiniteSets, Sequences

CONSTANTS Writers, Readers,  \* the threads that write, and those that read
          ItemNum,           \* slots of the ring
          Items,             \* what is written
          NoItem             \* the zeroed contents of a fresh slot or buffer

ASSUME QueueAssumption == /\ ItemNum \in Nat \ {0}
                          /\ NoItem \notin Items
                          /\ Writers \cap Readers = {}

VARIABLES ring,   \* ring[i]: contents of slot i of pItemBuffer
          rd, wr, \* pItemBufferRead and pItemBufferWrite, as slot numbers
          sems,   \* ItemsFreeSema and ItemsUsedSema
          pc,     \* pc[t]: where thread t is in its call
          slot,   \* slot[t]: the slot t reserved
          item    \* item[t]: *pvItem of t

vars == <<ring, rd, wr, sems, pc, slot, item>>

Threads == Writers \cup Readers
Slots == 0 .. ItemNum - 1
Modes == {"wait", "timed", "try"}
PCs == {"idle", "wait", "timed", "lapsed", "reserve", "copy", "post"}

\* No osQueue ever posts past its number of slots, so the int32 limit of the
\* semaphores is out of reach: any value above ItemNum stands for it.
SemaMax == 2 * ItemNum + 1

\* Faulty variant for the checks: a read makes no room.
OtherSame(t) == "used"

Gate(t) == IF t \in Writers THEN "free" ELSE "used"
Other(t) == IF t \in Writers THEN "used" ELSE "free"

TypeOK ==
  /\ ring \in [Slots -> Items \cup {NoItem}]
  /\ rd \in Slots /\ wr \in Slots
  /\ sems \in [{"free", "used"} -> Semaphores(Threads)]
  /\ pc \in [Threads -> PCs]
  /\ slot \in [Threads -> Slots]
  /\ item \in [Threads -> Items \cup {NoItem}]

\* Faulty variant for the checks: one permit more than there are slots.
InitialPermitsOneMore == [free |-> ItemNum + 1, used |-> 0]

InitialPermits == [free |-> ItemNum, used |-> 0]

osQueueInit ==
  /\ ring = [i \in Slots |-> NoItem]
  /\ rd = 0 /\ wr = 0
  /\ sems = [g \in {"free", "used"} |-> osSemaphoreInit(InitialPermits[g])]
  /\ pc = [t \in Threads |-> "idle"]
  /\ slot = [t \in Threads |-> 0]
  /\ item = [t \in Threads |-> NoItem]

Goto(t, l) == pc' = [pc EXCEPT ![t] = l]

(***************************************************************************)
(* The wait on the gate, in the three modes of the interface: blocking,    *)
(* with a timeout, and not at all.                                         *)
(***************************************************************************)
PassGate(t, mode) ==
  /\ pc[t] = "idle"
  /\ IF ~MustSleep(sems[Gate(t)])
     THEN /\ sems' = [sems EXCEPT ![Gate(t)] = Take(@)]
          /\ Goto(t, "reserve")
     ELSE IF mode = "try"
     THEN UNCHANGED <<sems, pc>>
     ELSE /\ sems' = [sems EXCEPT ![Gate(t)] = Sleep(@, t)]
          /\ Goto(t, mode)
  /\ UNCHANGED <<ring, rd, wr, slot>>

Write(t, mode) == /\ t \in Writers
                  /\ \E v \in Items : item' = [item EXCEPT ![t] = v]
                  /\ PassGate(t, mode)

Read(t, mode) == /\ t \in Readers
                 /\ item' = item
                 /\ PassGate(t, mode)

osQueueWrite(t) == Write(t, "wait")
osQueueTimedWrite(t) == Write(t, "timed")
osQueueTryWrite(t) == Write(t, "try")
osQueueRead(t) == Read(t, "wait")
osQueueTimedRead(t) == Read(t, "timed")
osQueueTryRead(t) == Read(t, "try")

\* The wait returns to a signalled thread.
Wake(t) ==
  /\ t \in sems[Gate(t)].signalled
  /\ sems' = [sems EXCEPT ![Gate(t)] = Resume(@, t)]
  /\ Goto(t, "reserve")
  /\ UNCHANGED <<ring, rd, wr, slot, item>>

\* The time of a thread nobody signalled is up: it waits for the mutex only.
TimeUp(t) ==
  /\ pc[t] = "timed"
  /\ t \in sems[Gate(t)].blocked
  /\ sems' = [sems EXCEPT ![Gate(t)] = Lapse(@, t)]
  /\ Goto(t, "lapsed")
  /\ UNCHANGED <<ring, rd, wr, slot, item>>

\* Faulty variant for the checks: the permit taken at the last moment is lost.
TimeOutLeaks(t) ==
  /\ pc[t] = "lapsed"
  /\ sems' = [sems EXCEPT ![Gate(t)] = Expire(@)]
  /\ Goto(t, "idle")
  /\ UNCHANGED <<ring, rd, wr, slot, item>>

\* The timed wait ends: OSLAYER_TIMEOUT leaves the queue as it is.
TimeOut(t) ==
  /\ pc[t] = "lapsed"
  /\ sems' = [sems EXCEPT ![Gate(t)] = Expire(@)]
  /\ Goto(t, IF ExpireTakes(sems[Gate(t)]) THEN "reserve" ELSE "idle")
  /\ UNCHANGED <<ring, rd, wr, slot, item>>

\* The pointer after i, back to the first slot at the end of the buffer.
Advance(i) == IF i + 1 >= ItemNum THEN 0 ELSE i + 1

\* Faulty variant for the checks: a reader takes the pointer after advancing it.
ReserveNext(t) ==
  /\ pc[t] = "reserve"
  /\ IF t \in Writers
     THEN slot' = [slot EXCEPT ![t] = wr] /\ wr' = Advance(wr) /\ UNCHANGED rd
     ELSE /\ slot' = [slot EXCEPT ![t] = Advance(rd)]
          /\ rd' = Advance(rd)
          /\ UNCHANGED wr
  /\ Goto(t, "copy")
  /\ UNCHANGED <<ring, sems, item>>

Reserve(t) ==
  /\ pc[t] = "reserve"
  /\ IF t \in Writers
     THEN slot' = [slot EXCEPT ![t] = wr] /\ wr' = Advance(wr) /\ UNCHANGED rd
     ELSE slot' = [slot EXCEPT ![t] = rd] /\ rd' = Advance(rd) /\ UNCHANGED wr
  /\ Goto(t, "copy")
  /\ UNCHANGED <<ring, sems, item>>

Copy(t) ==
  /\ pc[t] = "copy"
  /\ IF t \in Writers
     THEN ring' = [ring EXCEPT ![slot[t]] = item[t]] /\ UNCHANGED item
     ELSE item' = [item EXCEPT ![t] = ring[slot[t]]] /\ UNCHANGED ring
  /\ Goto(t, "post")
  /\ UNCHANGED <<rd, wr, sems, slot>>

Post(t) ==
  /\ pc[t] = "post"
  /\ \E s \in Posted(sems[Other(t)], SemaMax) :
       sems' = [sems EXCEPT ![Other(t)] = s]
  /\ Goto(t, "idle")
  /\ UNCHANGED <<ring, rd, wr, slot, item>>

\* The rest of a call, after the point where it may stay asleep.
Proceed(t) == Wake(t) \/ TimeOut(t) \/ Reserve(t) \/ Copy(t) \/ Post(t)

Next ==
  \E t \in Threads :
    \/ osQueueWrite(t) \/ osQueueTimedWrite(t) \/ osQueueTryWrite(t)
    \/ osQueueRead(t) \/ osQueueTimedRead(t) \/ osQueueTryRead(t)
    \/ TimeUp(t)
    \/ Proceed(t)

Spec == osQueueInit /\ [][Next]_vars

(***************************************************************************)
(* Fairness: a thread that can go on inside a call goes on, and a reader   *)
(* reads again when it is done, as the handler threads of the controllers  *)
(* do in their command loops.  Nobody has to write.                        *)
(***************************************************************************)
Fairness ==
  /\ \A t \in Threads : WF_vars(Proceed(t))
  /\ \A r \in Readers : WF_vars(osQueueRead(r))

FairSpec == Spec /\ Fairness

InFlight(T) == {t \in T : pc[t] \in {"reserve", "copy", "post"}}

(***************************************************************************)
(* The copies, made after AccessMutex has been released, are exclusive: no *)
(* two threads copy to or from the same slot at the same time.             *)
(***************************************************************************)
NoSlotRace ==
  \A t, u \in Threads :
    t # u /\ pc[t] = "copy" /\ pc[u] = "copy" => slot[t] # slot[u]

(***************************************************************************)
(* A permit is either in one of the two semaphores or with the call that   *)
(* took it and has not posted yet: no timeout, failed try or late wakeup   *)
(* makes one appear or disappear.                                          *)
(***************************************************************************)
PermitsConserved ==
  sems["free"].count + sems["used"].count + Cardinality(InFlight(Threads))
    = ItemNum

(***************************************************************************)
(* Nobody is left behind: while a writer sleeps for room, the queue holds  *)
(* an item or some call is under way that will wake it.                    *)
(***************************************************************************)
NoStrandedWriter ==
  sems["free"].blocked # {} =>
    \/ sems["used"].count > 0
    \/ InFlight(Threads) # {}
    \/ sems["free"].signalled \cup sems["used"].signalled # {}

(***************************************************************************)
(* A write, once called, returns: the reader that keeps reading makes room *)
(* and the wakeup it sends arrives.                                        *)
(***************************************************************************)
WritersReturn ==
  \A w \in Writers : pc[w] # "idle" ~> pc[w] = "idle"

(***************************************************************************)
(* The items in the channel: those posted, and those a reader has taken    *)
(* the permit of but not yet copied out; the oldest is in the slot of the  *)
(* reader that is copying, or else in the next slot to read.               *)
(***************************************************************************)
At(l) == {r \in Readers : pc[r] \in l}

Stored == sems["used"].count + Cardinality(At({"reserve", "copy"}))

Oldest == (rd - Cardinality(At({"copy"}))) % ItemNum

Contents == [i \in 1 .. Stored |-> ring[(Oldest + i - 1) % ItemNum]]

Fifo == INSTANCE OsFifo
          WITH q <- Contents, got <- [r \in Readers |-> item[r]]

(***************************************************************************)
(* The ring buffer implements the first-in first-out channel its callers   *)
(* take it for, including the delivery of every item to a reader that      *)
(* keeps reading.                                                          *)
(***************************************************************************)
Channel == Fifo!FifoSpec
=============================================================================
