-------------------------- MODULE OsThread_proofs --------------------------
(***************************************************************************)
(* What holds of osThread for every finite set of threads that wait for it *)
(* and close it at once: the waiters are counted exactly, the thread is    *)
(* joined once, and nothing is destroyed that is still used.  They wait    *)
(* for an event: what holds of an event by itself, for every set of        *)
(* waiters, comes first.                                                   *)
(***************************************************************************)
EXTENDS OsEvent, OsThread, FiniteSetTheorems, TLAPS

(***************************************************************************)
(* Who is woken: some of those asleep, all of them if the event is         *)
(* automatic; nobody is lost and the flag is left alone.                   *)
(***************************************************************************)
LEMMA RousedType ==
  ASSUME NEW T, NEW automatic \in BOOLEAN, NEW e \in Events(T), e.blocked \cap e.woken = {},
         NEW r \in Roused(e, automatic)
  PROVE  /\ r \in Events(T) /\ r.blocked \cap r.woken = {}
         /\ r.state = e.state
         /\ r.blocked \cup r.woken = e.blocked \cup e.woken
         /\ automatic => r.blocked = {}
<1>1. CASE automatic
  BY <1>1 DEF Roused, WakeAll, Events
<1>2. CASE ~automatic /\ e.blocked = {}
  BY <1>2 DEF Roused, WakeOne
<1>3. CASE ~automatic /\ e.blocked # {}
  <2>1. PICK t \in e.blocked : r = [state |-> e.state,
                                    blocked |-> e.blocked \ {t},
                                    woken |-> e.woken \cup {t}]
    BY <1>3 DEF Roused, WakeOne
  <2> QED
    BY <1>3, <2>1 DEF Events
<1> QED
  BY <1>1, <1>2, <1>3

LEMMA SetStateType ==
  ASSUME NEW T, NEW e \in Events(T), NEW b \in BOOLEAN
  PROVE  /\ SetState(e, b) \in Events(T)
         /\ SetState(e, b).state = b
         /\ SetState(e, b).blocked = e.blocked /\ SetState(e, b).woken = e.woken
BY DEF SetState, Events

LEMMA AsleepType ==
  ASSUME NEW T, NEW e \in Events(T), NEW t \in T
  PROVE  /\ Asleep(e, t) \in Events(T)
         /\ Asleep(e, t).state = e.state
         /\ Asleep(e, t).blocked = e.blocked \cup {t}
         /\ Asleep(e, t).woken = e.woken
BY DEF Asleep, Events

LEMMA LapsedType ==
  ASSUME NEW T, NEW e \in Events(T), NEW t \in T
  PROVE  /\ Lapsed(e, t) \in Events(T)
         /\ Lapsed(e, t).state = e.state
         /\ Lapsed(e, t).blocked = e.blocked \ {t}
         /\ Lapsed(e, t).woken = e.woken
BY DEF Lapsed, Events

LEMMA SignalledType ==
  ASSUME NEW T, NEW e \in Events(T), e.blocked \cap e.woken = {},
         NEW r \in Signalled(e, TRUE)
  PROVE  /\ r \in Events(T) /\ r.blocked \cap r.woken = {}
         /\ r.blocked \cup r.woken = e.blocked \cup e.woken
<1>1. CASE e.state
  BY <1>1 DEF Signalled
<1>2. CASE ~e.state
  <2>1. r = WakeAll(SetState(e, TRUE))
    BY <1>2 DEF Signalled, Roused
  <2> QED
    BY <2>1, SetStateType DEF WakeAll, Events
<1> QED
  BY <1>1, <1>2

(***************************************************************************)
(* The threads in pthread_cond_(timed)wait are those asleep and those      *)
(* woken: one whose time is up is neither, and takes no wakeup with it.    *)
(***************************************************************************)
EventWaitersMatch ==
  \A t \in Waiters :
    waiter[t] \in {"wait", "timed"} <=> t \in ev.blocked \cup ev.woken

EventInv ==
  /\ EventTypeOK
  /\ EventWaitersMatch
  /\ SignalLatched
  /\ (Automatic => NobodySleepsWhileSet)

LEMMA EventInitHolds == EventInit => EventInv
<1> SUFFICES ASSUME EventInit PROVE EventInv
  OBVIOUS
<1>1. /\ ev \in Events(Waiters) /\ ev.blocked = {} /\ ev.woken = {}
  BY EventAssumption DEF EventInit, osEventInit, Events
<1>2. EventTypeOK
  BY <1>1 DEF EventInit, EventTypeOK
<1>3. EventWaitersMatch /\ SignalLatched /\ NobodySleepsWhileSet
  BY <1>1 DEF EventInit, EventWaitersMatch, SignalLatched, NobodySleepsWhileSet
<1> QED
  BY <1>2, <1>3 DEF EventInv

(***************************************************************************)
(* A signal is latched where it is raised: in the flag.                    *)
(***************************************************************************)
LEMMA SignalStep ==
  ASSUME EventInv, osEventSignal
  PROVE  EventInv'
<1>1. ev \in Events(Waiters) /\ ev.blocked \cap ev.woken = {}
  BY DEF EventInv, EventTypeOK
<1>2. CASE ev.state
  <2>1. ev' = ev
    BY <1>2 DEF osEventSignal, Signalled
  <2> QED
    BY <1>2, <2>1 DEF osEventSignal, EventInv, EventTypeOK, EventWaitersMatch, SignalLatched,
                      NobodySleepsWhileSet
<1>3. CASE ~ev.state
  <2> DEFINE e == SetState(ev, TRUE)
  <2>1. /\ e \in Events(Waiters) /\ e.blocked \cap e.woken = {} /\ e.state
        /\ e.blocked = ev.blocked /\ e.woken = ev.woken
    BY <1>1, SetStateType
  <2>2. ev' \in Roused(e, Automatic)
    BY <1>3 DEF osEventSignal, Signalled
  <2>3. /\ ev' \in Events(Waiters) /\ ev'.blocked \cap ev'.woken = {}
        /\ ev'.state /\ ev'.blocked \cup ev'.woken = ev.blocked \cup ev.woken
        /\ Automatic => ev'.blocked = {}
    <3> HIDE DEF e
    <3> QED
      BY <2>1, <2>2, RousedType, EventAssumption
  <2> QED
    BY <2>3 DEF osEventSignal, EventInv, EventTypeOK, EventWaitersMatch, SignalLatched,
                NobodySleepsWhileSet
<1> QED
  BY <1>2, <1>3

LEMMA ResetStep ==
  ASSUME EventInv, osEventReset
  PROVE  EventInv'
<1>1. /\ ev' \in Events(Waiters) /\ ~ev'.state
      /\ ev'.blocked = ev.blocked /\ ev'.woken = ev.woken
  BY SetStateType DEF EventInv, EventTypeOK, osEventReset
<1> QED
  BY <1>1 DEF osEventReset, EventInv, EventTypeOK, EventWaitersMatch, SignalLatched,
              NobodySleepsWhileSet

LEMMA PulseStep ==
  ASSUME EventInv, osEventPulse
  PROVE  EventInv'
<1>1. PICK r \in Roused(ev, Automatic) : ev' = SetState(r, FALSE)
  BY DEF osEventPulse, Pulsed
<1>2. /\ r \in Events(Waiters) /\ r.blocked \cap r.woken = {}
      /\ r.blocked \cup r.woken = ev.blocked \cup ev.woken
  BY <1>1, RousedType, EventAssumption DEF EventInv, EventTypeOK
<1>3. /\ ev' \in Events(Waiters) /\ ~ev'.state
      /\ ev'.blocked = r.blocked /\ ev'.woken = r.woken
  BY <1>1, <1>2, SetStateType
<1> QED
  BY <1>2, <1>3 DEF osEventPulse, EventInv, EventTypeOK, EventWaitersMatch, SignalLatched,
                    NobodySleepsWhileSet

(***************************************************************************)
(* A wait that ends takes a signal with it only if it tells so: a timeout  *)
(* neither resets a flag that is set nor carries off another's wakeup.     *)
(***************************************************************************)
LEMMA ReturnStep ==
  ASSUME EventInv, NEW t \in Waiters, NEW r \in {"OK", "TIMEOUT"}, Return(t, r),
         waiter[t] = "idle" \/ waiter[t] = "lapsed" \/ t \in ev.woken,
         r = "TIMEOUT" => waiter[t] = "lapsed" /\ ~ev.state
  PROVE  EventInv'
<1>1. /\ ev' \in Events(Waiters)
      /\ (Automatic => ev'.state = FALSE) /\ (~Automatic => ev'.state = ev.state)
      /\ ev'.blocked = ev.blocked /\ ev'.woken = ev.woken \ {t}
  <2>1. ev \in Events(Waiters) /\ ev' = Returned(ev, t, Automatic)
    BY DEF EventInv, EventTypeOK, Return
  <2> DEFINE rec(b) == [state |-> b, blocked |-> ev.blocked, woken |-> ev.woken \ {t}]
  <2>2. \A b \in BOOLEAN : /\ rec(b) \in Events(Waiters) /\ rec(b).state = b
                          /\ rec(b).blocked = ev.blocked
                          /\ rec(b).woken = ev.woken \ {t}
    BY <2>1 DEF Events
  <2>3. CASE Automatic
    <3>1. ev' = rec(FALSE)
      BY <2>1, <2>3 DEF Returned
    <3> QED
      BY <2>2, <2>3, <3>1
  <2>4. CASE ~Automatic
    <3>1. ev' = rec(ev.state) /\ ev.state \in BOOLEAN
      BY <2>1, <2>4 DEF Returned, Events
    <3> QED
      BY <2>2, <2>4, <3>1
  <2> QED
    BY <2>3, <2>4
<1>2. t \notin ev.blocked
  BY DEF EventInv, EventTypeOK, EventWaitersMatch
<1>3. EventTypeOK'
  BY <1>1 DEF EventInv, EventTypeOK, Return
<1>4. EventWaitersMatch'
  BY <1>1, <1>2 DEF EventInv, EventTypeOK, EventWaitersMatch, Return
<1>5. SignalLatched'
  <2>1. CASE r = "OK"
    BY <2>1 DEF Return, SignalLatched
  <2>2. CASE r = "TIMEOUT"
    <3>1. t \notin ev.woken /\ ~ev.state
      BY <2>2 DEF EventInv, EventTypeOK, EventWaitersMatch
    <3> QED
      BY <1>1, <2>2, <3>1 DEF EventInv, Return, SignalLatched
  <2> QED
    BY <2>1, <2>2
<1>6. (Automatic => NobodySleepsWhileSet)'
  BY <1>1 DEF EventInv, NobodySleepsWhileSet
<1> QED
  BY <1>3, <1>4, <1>5, <1>6 DEF EventInv

LEMMA EnterStep ==
  ASSUME EventInv, NEW t \in Waiters, NEW mode \in {"wait", "timed"}, Enter(t, mode)
  PROVE  EventInv'
<1>1. CASE ev.state
  BY <1>1, ReturnStep DEF Enter
<1>2. CASE ~ev.state
  <2>1. /\ ev' \in Events(Waiters) /\ ~ev'.state
        /\ ev'.blocked = ev.blocked \cup {t} /\ ev'.woken = ev.woken
    BY <1>2, AsleepType DEF EventInv, EventTypeOK, Enter
  <2>2. t \notin ev.woken
    BY DEF Enter, EventInv, EventWaitersMatch
  <2> QED
    BY <1>2, <2>1, <2>2 DEF Enter, EventInv, EventTypeOK, EventWaitersMatch, SignalLatched,
                            NobodySleepsWhileSet
<1> QED
  BY <1>1, <1>2

LEMMA TimeUpStep ==
  ASSUME EventInv, NEW t \in Waiters, TimeUp(t)
  PROVE  EventInv'
<1>1. /\ ev' \in Events(Waiters) /\ ev'.state = ev.state
      /\ ev'.blocked = ev.blocked \ {t} /\ ev'.woken = ev.woken
  BY LapsedType DEF EventInv, EventTypeOK, TimeUp
<1>2. t \notin ev.woken
  BY DEF TimeUp, EventInv, EventTypeOK
<1> QED
  BY <1>1, <1>2 DEF TimeUp, EventInv, EventTypeOK, EventWaitersMatch, SignalLatched,
                    NobodySleepsWhileSet

LEMMA EventInductive == EventInv /\ [EventNext]_eventVars => EventInv'
<1> SUFFICES ASSUME EventInv, [EventNext]_eventVars PROVE EventInv'
  OBVIOUS
<1>1. CASE osEventSignal \/ osEventReset \/ osEventPulse
  BY <1>1, SignalStep, ResetStep, PulseStep
<1>2. ASSUME NEW t \in Waiters, osEventWait(t) \/ osEventTimedWait(t)
      PROVE  EventInv'
  BY <1>2, EnterStep DEF osEventWait, osEventTimedWait
<1>3. ASSUME NEW t \in Waiters, EventWake(t)
      PROVE  EventInv'
  BY <1>3, ReturnStep DEF EventWake
<1>4. ASSUME NEW t \in Waiters, TimeUp(t)
      PROVE  EventInv'
  BY <1>4, TimeUpStep
<1>5. ASSUME NEW t \in Waiters, TimeOut(t)
      PROVE  EventInv'
  <2>1. CASE ev.state
    BY <1>5, <2>1, ReturnStep DEF TimeOut
  <2>2. CASE ~ev.state
    BY <1>5, <2>2, ReturnStep DEF TimeOut
  <2> QED
    BY <2>1, <2>2
<1>6. CASE UNCHANGED eventVars
  BY <1>6 DEF eventVars, EventInv, EventTypeOK, EventWaitersMatch, SignalLatched, NobodySleepsWhileSet
<1> QED
  BY <1>1, <1>2, <1>3, <1>4, <1>5, <1>6 DEF EventNext

(***************************************************************************)
(* No signal is lost, for any number of waiting threads and in both reset  *)
(* modes: whether the completion callback of cam_device or the thread that *)
(* waits for it comes first, and whatever timeouts expire meanwhile.       *)
(***************************************************************************)
THEOREM NoSignalLost == EventSpec => []SignalLatched
<1>1. EventInv => SignalLatched
  BY DEF EventInv
<1> QED
  BY <1>1, EventInitHolds, EventInductive, PTL DEF EventSpec

(***************************************************************************)
(* Nobody sleeps on next to the signal of an automatic event, which is the *)
(* only kind the repository creates.                                       *)
(***************************************************************************)
THEOREM SignalWakesAll ==
  ASSUME Automatic
  PROVE  EventSpec => [](EventTypeOK /\ NobodySleepsWhileSet)
<1>1. EventInv => EventTypeOK /\ NobodySleepsWhileSet
  BY DEF EventInv
<1> QED
  BY <1>1, EventInitHolds, EventInductive, PTL DEF EventSpec

\* Where a joiner may go that does not enter.
PCs == {"idle", "enter", "join", "close"}

Inside == {j \in Joiners : pc[j] \in {"wait", "count"}}

(***************************************************************************)
(* The handle: it is there while anyone is inside or joins, the thread has *)
(* ended when it is gone, and whoever holds access_mut joins alone.        *)
(***************************************************************************)
HandleOK ==
  /\ \A j \in Joiners : pc[j] \in {"wait", "count", "join"} => handle
  /\ ~handle => thread \in {"none", "done"}
  /\ \A j \in Joiners : pc[j] = "join" <=> access_mut = j
  /\ access_mut # NoHolder => Inside = {}

(***************************************************************************)
(* A thread that closes is alone from its call to the destruction.         *)
(***************************************************************************)
ClosingOK ==
  /\ \A j \in closing : pc[j] # "idle" /\ \A k \in Joiners \ {j} : pc[k] = "idle"
  /\ \A j \in Joiners : pc[j] = "close" => j \in closing /\ ~handle
  /\ \A j \in Joiners : pc[j] # "idle" => created

EventOK ==
  /\ exit_event.blocked \cap exit_event.woken = {}
  /\ \A j \in exit_event.blocked \cup exit_event.woken : pc[j] = "wait"

IInv ==
  /\ TypeOK
  /\ WaitCountExact
  /\ HandleOK
  /\ ClosingOK
  /\ EventOK
  /\ DestroyedUnused

LEMMA InsideFinite == IsFiniteSet(Inside) /\ Cardinality(Inside) \in Nat
<1>1. Inside \subseteq Joiners
  BY DEF Inside
<1> QED
  BY <1>1, ThreadAssumption, FS_Subset, FS_CardinalityType

(***************************************************************************)
(* A step of the counter: one more or one less of those inside.            *)
(***************************************************************************)
LEMMA CountStep ==
  ASSUME IInv, NEW j \in Joiners, NEW l, pc' = [pc EXCEPT ![j] = l],
         \/ /\ pc[j] = "enter" /\ l = "wait" /\ wait_count' = wait_count + 1
         \/ /\ pc[j] = "count" /\ l \in PCs /\ wait_count' = wait_count - 1
         \/ /\ pc[j] = "wait" /\ l = "count" /\ wait_count' = wait_count
         \/ /\ pc[j] \notin {"wait", "count"} /\ l \in PCs /\ wait_count' = wait_count
  PROVE  WaitCountExact' /\ wait_count' \in 0 .. Cardinality(Joiners)
<1> DEFINE In == Inside
<1>1. wait_count = Cardinality(In) /\ IsFiniteSet(In) /\ Cardinality(In) \in Nat
  BY InsideFinite DEF IInv, WaitCountExact, Inside
<1>2. pc \in [Joiners -> {"idle", "enter", "wait", "count", "join", "close"}]
  BY DEF IInv, TypeOK
<1>3. wait_count' = Cardinality(Inside')
  <2>1. CASE pc[j] = "enter" /\ l = "wait" /\ wait_count' = wait_count + 1
    <3>1. Inside' = In \cup {j} /\ j \notin In
      BY <1>2, <2>1 DEF Inside
    <3> QED
      BY <1>1, <2>1, <3>1, FS_AddElement
  <2>2. CASE pc[j] = "count" /\ l \in PCs /\ wait_count' = wait_count - 1
    <3>1. Inside' = In \ {j} /\ j \in In
      BY <1>2, <2>2 DEF Inside, PCs
    <3> QED
      BY <1>1, <2>2, <3>1, FS_RemoveElement
  <2>3. CASE \/ pc[j] = "wait" /\ l = "count" /\ wait_count' = wait_count
             \/ /\ pc[j] \notin {"wait", "count"} /\ l \in PCs
                /\ wait_count' = wait_count
    <3>1. Inside' = In
      BY <1>2, <2>3 DEF Inside, PCs
    <3> QED
      BY <1>1, <2>3, <3>1
  <2> QED
    BY <2>1, <2>2, <2>3
<1>4. IsFiniteSet(Inside') /\ Cardinality(Inside') <= Cardinality(Joiners)
      /\ Cardinality(Inside') \in Nat /\ Cardinality(Joiners) \in Nat
  <2>1. Inside' \subseteq Joiners
    BY DEF Inside
  <2> QED
    BY <2>1, ThreadAssumption, FS_Subset, FS_CardinalityType
<1> QED
  BY <1>3, <1>4 DEF WaitCountExact, Inside

LEMMA InitHolds == Init => IInv
<1> SUFFICES ASSUME Init PROVE IInv
  OBVIOUS
<1>1. /\ exit_event \in Events(Joiners)
      /\ exit_event.blocked = {} /\ exit_event.woken = {}
  BY DEF Init, osEventInit, Events
<1>2. Inside = {} /\ Cardinality(Inside) = 0 /\ Cardinality(Joiners) \in Nat
  BY FS_EmptySet, FS_CardinalityType, ThreadAssumption DEF Init, Inside
<1>3. WaitCountExact
  BY <1>2 DEF Init, WaitCountExact, Inside
<1>4. TypeOK
  <2>1. 0 \in 0 .. Cardinality(Joiners)
    BY <1>2
  <2> QED
    BY <1>1, <2>1 DEF Init, TypeOK
<1>5. HandleOK /\ ClosingOK
  BY <1>2, ThreadAssumption DEF Init, HandleOK, ClosingOK
<1>6. EventOK /\ DestroyedUnused
  BY <1>1 DEF Init, EventOK, DestroyedUnused
<1> QED
  BY <1>3, <1>4, <1>5, <1>6 DEF IInv

LEMMA CreateStep ==
  ASSUME IInv, osThreadCreate
  PROVE  IInv'
<1>1. /\ exit_event' \in Events(Joiners)
      /\ exit_event'.blocked = {} /\ exit_event'.woken = {}
  BY DEF osThreadCreate, osEventInit, Events
<1>2. Inside' = {} /\ Cardinality({}) = 0 /\ Cardinality(Joiners) \in Nat
  BY FS_EmptySet, FS_CardinalityType, ThreadAssumption DEF osThreadCreate, Inside
<1>3. TypeOK' /\ WaitCountExact'
  BY <1>1, <1>2 DEF osThreadCreate, IInv, TypeOK, WaitCountExact, Inside
<1>4. HandleOK'
  BY <1>2 DEF osThreadCreate, IInv, HandleOK, Inside
<1>5. ClosingOK' /\ EventOK' /\ DestroyedUnused'
  BY <1>1 DEF osThreadCreate, IInv, ClosingOK, EventOK, DestroyedUnused
<1> QED
  BY <1>3, <1>4, <1>5 DEF IInv

(***************************************************************************)
(* The thread itself: it only ever nears its end, and its signal only      *)
(* moves sleepers to those woken.                                          *)
(***************************************************************************)
LEMMA ThreadStep ==
  ASSUME IInv, ThreadReturns \/ ThreadSignals \/ ThreadEnds
  PROVE  IInv'
<1>1. /\ exit_event' \in Events(Joiners)
      /\ exit_event'.blocked \cap exit_event'.woken = {}
      /\ exit_event'.blocked \cup exit_event'.woken
           = exit_event.blocked \cup exit_event.woken
  BY SignalledType DEF IInv, TypeOK, EventOK, ThreadReturns, ThreadSignals, ThreadEnds
<1>2. /\ thread \in {"runs", "signals", "ends"}
      /\ thread' \in {"none", "runs", "signals", "ends", "done"}
      /\ UNCHANGED <<created, handle, wait_count, access_mut, pc, closing>>
  BY DEF ThreadReturns, ThreadSignals, ThreadEnds
<1>3. TypeOK' /\ WaitCountExact'
  BY <1>1, <1>2 DEF IInv, TypeOK, WaitCountExact
<1>4. HandleOK' /\ ClosingOK'
  BY <1>2 DEF IInv, HandleOK, ClosingOK, Inside
<1>5. EventOK' /\ DestroyedUnused'
  BY <1>1, <1>2 DEF IInv, EventOK, DestroyedUnused
<1> QED
  BY <1>3, <1>4, <1>5 DEF IInv

LEMMA CallStep ==
  ASSUME IInv, NEW j \in Joiners, osThreadWait(j) \/ osThreadClose(j)
  PROVE  IInv'
<1>1. /\ created /\ pc[j] = "idle" /\ closing = {} /\ pc' = [pc EXCEPT ![j] = "enter"]
      /\ UNCHANGED <<created, thread, exit_event, handle, wait_count, access_mut>>
      /\ \/ closing' = {}
         \/ closing' = {j} /\ \A k \in Joiners : pc[k] = "idle"
  BY DEF osThreadWait, osThreadClose, Call, Goto
<1>2. TypeOK' /\ WaitCountExact'
  BY <1>1, CountStep DEF IInv, TypeOK, PCs
<1>3. \A k \in Joiners : pc'[k] = IF k = j THEN "enter" ELSE pc[k]
  BY <1>1 DEF IInv, TypeOK
<1>4. HandleOK' /\ EventOK' /\ DestroyedUnused'
  BY <1>1, <1>3 DEF IInv, TypeOK, HandleOK, EventOK, DestroyedUnused, Inside, Events
<1>5. ClosingOK'
  BY <1>1, <1>3 DEF IInv, ClosingOK
<1> QED
  BY <1>2, <1>4, <1>5 DEF IInv

LEMMA CountInStep ==
  ASSUME IInv, NEW j \in Joiners, CountIn(j)
  PROVE  IInv'
<1> DEFINE l == IF handle THEN "wait" ELSE After(j)
<1>1. /\ pc[j] = "enter" /\ access_mut = NoHolder /\ pc' = [pc EXCEPT ![j] = l]
      /\ wait_count' = wait_count + (IF handle THEN 1 ELSE 0)
      /\ UNCHANGED <<created, thread, exit_event, handle, access_mut, closing>>
  BY DEF CountIn, Goto, IInv, TypeOK
<1>2. l \in (IF handle THEN {"wait"} ELSE {"close", "idle"})
  BY DEF After
<1>3. TypeOK' /\ WaitCountExact'
  <2> HIDE DEF l
  <2>1. wait_count \in Nat /\ wait_count + 0 = wait_count
    BY ThreadAssumption, FS_CardinalityType DEF IInv, TypeOK
  <2>2. \/ l = "wait" /\ wait_count' = wait_count + 1
        \/ l \in PCs /\ wait_count' = wait_count
    BY <1>1, <1>2, <2>1 DEF PCs
  <2>3. WaitCountExact' /\ wait_count' \in 0 .. Cardinality(Joiners)
    BY <1>1, <2>2, CountStep
  <2>4. l \in {"idle", "enter", "wait", "count", "join", "close"}
    BY <2>2 DEF PCs
  <2> QED
    BY <1>1, <2>3, <2>4 DEF IInv, TypeOK
<1>4. \A k \in Joiners : pc'[k] = IF k = j THEN l ELSE pc[k]
  BY <1>1 DEF IInv, TypeOK
<1>5. HandleOK'
  BY <1>1, <1>2, <1>4 DEF IInv, HandleOK, Inside
<1>6. ClosingOK'
  BY <1>1, <1>4 DEF IInv, ClosingOK, After
<1>7. EventOK' /\ DestroyedUnused'
  BY <1>1, <1>4 DEF IInv, TypeOK, EventOK, DestroyedUnused, ClosingOK, Events
<1> QED
  BY <1>3, <1>5, <1>6, <1>7 DEF IInv
(***************************************************************************)
(* The wait for the event, whichever way it returns, leaves the joiner     *)
(* inside; a sleeper stays where it is.                                    *)
(***************************************************************************)
LEMMA WaitStep ==
  ASSUME IInv, NEW j \in Joiners, Wait(j) \/ Wake(j)
  PROVE  IInv'
<1>1. pc[j] = "wait"
  BY DEF Wait, Wake, IInv, EventOK
<1>2. UNCHANGED <<created, thread, handle, wait_count, access_mut, closing>>
  BY DEF Wait, Wake
<1>3. CASE exit_event' = Returned(exit_event, j, TRUE) /\ pc' = [pc EXCEPT ![j] = "count"]
           /\ j \notin exit_event.blocked
  <2>1. /\ exit_event' \in Events(Joiners)
        /\ exit_event'.blocked = exit_event.blocked
        /\ exit_event'.woken = exit_event.woken \ {j}
    <3>1. exit_event \in Events(Joiners)
      BY DEF IInv, TypeOK
    <3> QED
      BY <1>3, <3>1 DEF Returned, Events
  <2>2. WaitCountExact' /\ wait_count' \in 0 .. Cardinality(Joiners)
    BY <1>1, <1>2, <1>3, CountStep
  <2>3. TypeOK'
    BY <1>2, <1>3, <2>1, <2>2 DEF IInv, TypeOK
  <2>4. \A k \in Joiners : pc'[k] = IF k = j THEN "count" ELSE pc[k]
    BY <1>3 DEF IInv, TypeOK
  <2>5. HandleOK'
    BY <1>1, <1>2, <2>4 DEF IInv, HandleOK, Inside
  <2>6. ClosingOK'
    BY <1>1, <1>2, <2>4 DEF IInv, ClosingOK
  <2>7. EventOK' /\ DestroyedUnused'
    BY <1>1, <1>2, <1>3, <2>1, <2>4
    DEF IInv, TypeOK, EventOK, DestroyedUnused, ClosingOK, Events
  <2> QED
    BY <2>2, <2>3, <2>5, <2>6, <2>7 DEF IInv
<1>4. CASE exit_event' = Asleep(exit_event, j) /\ UNCHANGED pc
           /\ j \notin exit_event.woken
  <2>1. /\ exit_event' \in Events(Joiners)
        /\ exit_event'.blocked = exit_event.blocked \cup {j}
        /\ exit_event'.woken = exit_event.woken
    BY <1>4, AsleepType DEF IInv, TypeOK
  <2>2. TypeOK' /\ WaitCountExact' /\ HandleOK' /\ ClosingOK'
    BY <1>2, <1>4, <2>1 DEF IInv, TypeOK, WaitCountExact, HandleOK, ClosingOK, Inside
  <2>3. EventOK' /\ DestroyedUnused'
    BY <1>1, <1>2, <1>4, <2>1 DEF IInv, TypeOK, EventOK, DestroyedUnused, ClosingOK
  <2> QED
    BY <2>2, <2>3 DEF IInv
<1> QED
  BY <1>3, <1>4 DEF Wait, Wake, Goto, IInv, EventOK

(***************************************************************************)
(* Leaving the count: at zero nobody is inside, so that the one that left  *)
(* joins alone; a thread that closes is always that one.                   *)
(***************************************************************************)
LEMMA CountOutStep ==
  ASSUME IInv, NEW j \in Joiners, CountOut(j)
  PROVE  IInv'
<1> DEFINE l == IF wait_count' = 0 THEN "join" ELSE After(j)
<1>1. /\ pc[j] = "count" /\ access_mut = NoHolder /\ pc' = [pc EXCEPT ![j] = l]
      /\ wait_count' = wait_count - 1
      /\ access_mut' = (IF wait_count' = 0 THEN j ELSE access_mut)
      /\ UNCHANGED <<created, thread, exit_event, handle, closing>>
  BY DEF CountOut, Goto
<1>2. l \in PCs /\ l \in {"idle", "close", "join"} /\ l # "enter"
  BY DEF After, PCs
<1>3. WaitCountExact' /\ wait_count' \in 0 .. Cardinality(Joiners)
  <2> HIDE DEF l
  <2> QED
    BY <1>1, <1>2, CountStep
<1>4. \A k \in Joiners : pc'[k] = IF k = j THEN l ELSE pc[k]
  BY <1>1 DEF IInv, TypeOK
<1>5. Inside' = Inside \ {j} /\ j \in Inside
  <2> HIDE DEF l
  <2> QED
    BY <1>1, <1>2, <1>4 DEF Inside
<1>6. IsFiniteSet(Inside') /\ wait_count' = Cardinality(Inside')
  BY <1>3, <1>5, InsideFinite, FS_Subset DEF WaitCountExact, Inside
<1>7. wait_count' = 0 <=> Inside' = {}
  BY <1>6, FS_EmptySet
<1>8. TypeOK'
  <2> HIDE DEF l
  <2> QED
    BY <1>1, <1>2, <1>3 DEF IInv, TypeOK
<1>9. j \in closing => l = "join"
  <2>1. j \in closing => Inside' = {}
    BY <1>5 DEF IInv, ClosingOK, Inside
  <2> QED
    BY <1>7, <2>1
<1>10. l = "join" <=> wait_count' = 0
  BY DEF After
<1>11. l \in {"idle", "join"}
  BY <1>9 DEF After
<1> HIDE DEF l
<1>12. HandleOK'
  <2>1. \A k \in Joiners : pc'[k] \in {"wait", "count", "join"} => handle'
    BY <1>1, <1>4 DEF IInv, HandleOK
  <2>2. \A k \in Joiners : pc'[k] = "join" <=> access_mut' = k
    BY <1>1, <1>4, <1>10, ThreadAssumption DEF IInv, HandleOK
  <2>3. access_mut' # NoHolder => Inside' = {}
    BY <1>1, <1>7
  <2> QED
    BY <1>1, <2>1, <2>2, <2>3 DEF IInv, HandleOK
<1>13. ClosingOK'
  BY <1>1, <1>4, <1>9, <1>11 DEF IInv, ClosingOK
<1>14. EventOK' /\ DestroyedUnused'
  BY <1>1, <1>4, <1>11 DEF IInv, TypeOK, EventOK, DestroyedUnused, ClosingOK, Events
<1> QED
  BY <1>3, <1>8, <1>12, <1>13, <1>14 DEF IInv

LEMMA JoinStep ==
  ASSUME IInv, NEW j \in Joiners, Join(j)
  PROVE  IInv'
<1> DEFINE l == After(j)
<1>1. /\ pc[j] = "join" /\ thread = "done" /\ handle' = FALSE /\ access_mut' = NoHolder
      /\ pc' = [pc EXCEPT ![j] = l]
      /\ UNCHANGED <<created, thread, exit_event, wait_count, closing>>
  BY DEF Join, Goto
<1>2. l \in PCs /\ l \in {"idle", "close"} /\ (l = "close" <=> j \in closing)
  BY DEF After, PCs
<1> HIDE DEF l
<1>3. WaitCountExact' /\ wait_count' \in 0 .. Cardinality(Joiners)
  BY <1>1, <1>2, CountStep
<1>4. TypeOK'
  BY <1>1, <1>2, <1>3 DEF IInv, TypeOK
<1>5. \A k \in Joiners : pc'[k] = IF k = j THEN l ELSE pc[k]
  BY <1>1 DEF IInv, TypeOK
<1>6. access_mut = j /\ Inside = {}
  BY <1>1, ThreadAssumption DEF IInv, HandleOK
<1>7. Inside' = {}
  BY <1>2, <1>5, <1>6 DEF Inside
<1>8. \A k \in Joiners : pc'[k] \notin {"wait", "count", "join"}
  BY <1>1, <1>2, <1>5, <1>6 DEF Inside, IInv, HandleOK
<1>9. HandleOK'
  BY <1>1, <1>7, <1>8, ThreadAssumption DEF HandleOK
<1>10. ClosingOK'
  BY <1>1, <1>2, <1>5 DEF IInv, ClosingOK
<1>11. EventOK' /\ DestroyedUnused'
  BY <1>1, <1>5 DEF IInv, TypeOK, EventOK, DestroyedUnused, ClosingOK, Events
<1> QED
  BY <1>3, <1>4, <1>9, <1>10, <1>11 DEF IInv

(***************************************************************************)
(* The destruction: the thread that closes is alone, and the handle that   *)
(* it found gone says that the thread has ended.                           *)
(***************************************************************************)
LEMMA DestroyStep ==
  ASSUME IInv, NEW j \in Joiners, Destroy(j)
  PROVE  IInv'
<1>1. /\ pc[j] = "close" /\ created' = FALSE /\ closing' = closing \ {j}
      /\ pc' = [pc EXCEPT ![j] = "idle"]
      /\ UNCHANGED <<thread, exit_event, handle, wait_count, access_mut>>
  BY DEF Destroy, Goto
<1>2. WaitCountExact' /\ wait_count' \in 0 .. Cardinality(Joiners)
  BY <1>1, CountStep DEF PCs
<1>3. TypeOK'
  BY <1>1, <1>2 DEF IInv, TypeOK
<1>4. j \in closing /\ ~handle /\ \A k \in Joiners \ {j} : pc[k] = "idle"
  BY <1>1 DEF IInv, ClosingOK
<1>5. \A k \in Joiners : pc'[k] = "idle"
  BY <1>1, <1>4 DEF IInv, TypeOK
<1>6. closing' = {}
  <2>1. ASSUME NEW k \in closing PROVE k = j
    BY <1>1, <1>4 DEF IInv, ClosingOK, TypeOK
  <2> QED
    BY <1>1, <2>1
<1>7. exit_event.blocked \cup exit_event.woken = {}
  BY <1>1, <1>4 DEF IInv, TypeOK, EventOK, Events
<1>8. thread \in {"none", "done"}
  BY <1>4 DEF IInv, HandleOK
<1>9. HandleOK'
  BY <1>1, <1>5, <1>8 DEF IInv, TypeOK, HandleOK, Inside
<1>10. ClosingOK' /\ EventOK' /\ DestroyedUnused'
  BY <1>1, <1>5, <1>6, <1>7, <1>8 DEF ClosingOK, EventOK, DestroyedUnused
<1> QED
  BY <1>2, <1>3, <1>9, <1>10 DEF IInv

LEMMA Inductive == IInv /\ [Next]_vars => IInv'
<1> SUFFICES ASSUME IInv, [Next]_vars PROVE IInv'
  OBVIOUS
<1>1. CASE osThreadCreate
  BY <1>1, CreateStep
<1>2. CASE ThreadReturns \/ ThreadSignals \/ ThreadEnds
  BY <1>2, ThreadStep
<1>3. ASSUME NEW j \in Joiners, osThreadWait(j) \/ osThreadClose(j) \/ Proceed(j)
      PROVE  IInv'
  BY <1>3, CallStep, CountInStep, WaitStep, CountOutStep, JoinStep, DestroyStep
  DEF Proceed
<1>4. CASE UNCHANGED vars
  BY <1>4 DEF vars, IInv, TypeOK, WaitCountExact, HandleOK, ClosingOK, EventOK,
              DestroyedUnused, Inside
<1> QED
  BY <1>1, <1>2, <1>3, <1>4 DEF Next

(***************************************************************************)
(* However many threads wait for it, and one closes it at once: wait_count *)
(* counts them exactly, only the last joins, once, and the event and the   *)
(* mutex are destroyed when neither the thread nor a waiter uses them.     *)
(***************************************************************************)
THEOREM JoinedOnce == Spec => [](TypeOK /\ WaitCountExact /\ NoDoubleJoin /\ DestroyedUnused)
<1>1. IInv => TypeOK /\ WaitCountExact /\ NoDoubleJoin /\ DestroyedUnused
  BY DEF IInv, HandleOK, NoDoubleJoin
<1> QED
  BY InitHolds, Inductive, <1>1, PTL DEF Spec
===========================================================================
