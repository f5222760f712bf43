-------------------------- MODULE OsQueue_proofs --------------------------
(***************************************************************************)
(* What holds of osQueue for every number of slots and every set of items  *)
(* when one thread writes and one thread reads: the discipline of a client *)
(* and the handler thread it commands.  With two writers the exclusion is  *)
(* false.  Its two gates are semaphores: what holds of one of them for     *)
(* every set of threads, or for a single thread that takes, comes first.   *)
(***************************************************************************)
EXTENDS OsSemaphore, OsQueue, FiniteSetTheorems, SequenceTheorems, TLAPS

(***************************************************************************)
(* The operators on a semaphore keep it one, whoever sleeps or is woken.   *)
(***************************************************************************)
LEMMA TakeType ==
  ASSUME NEW T, NEW s \in Semaphores(T)
  PROVE  /\ Take(s) \in Semaphores(T)
         /\ Take(s).count = s.count - 1
         /\ Take(s).blocked = s.blocked /\ Take(s).signalled = s.signalled
BY DEF Take, Semaphores

LEMMA SleepType ==
  ASSUME NEW T, NEW s \in Semaphores(T), NEW t \in T
  PROVE  /\ Sleep(s, t) \in Semaphores(T)
         /\ Sleep(s, t).count = s.count
         /\ Sleep(s, t).blocked = s.blocked \cup {t}
         /\ Sleep(s, t).signalled = s.signalled
BY DEF Sleep, Semaphores

LEMMA ResumeType ==
  ASSUME NEW T, NEW s \in Semaphores(T), NEW t \in T
  PROVE  /\ Resume(s, t) \in Semaphores(T)
         /\ Resume(s, t).count = s.count - 1
         /\ Resume(s, t).blocked = s.blocked
         /\ Resume(s, t).signalled = s.signalled \ {t}
BY DEF Resume, Semaphores

LEMMA LapseType ==
  ASSUME NEW T, NEW s \in Semaphores(T), NEW t \in T
  PROVE  /\ Lapse(s, t) \in Semaphores(T)
         /\ Lapse(s, t).count = s.count
         /\ Lapse(s, t).blocked = s.blocked \ {t}
         /\ Lapse(s, t).signalled = s.signalled
BY DEF Lapse, Semaphores

LEMMA ExpireType ==
  ASSUME NEW T, NEW s \in Semaphores(T)
  PROVE  /\ Expire(s) \in Semaphores(T)
         /\ Expire(s).count = (IF s.count # 0 THEN s.count - 1 ELSE s.count)
         /\ Expire(s).blocked = s.blocked
         /\ Expire(s).signalled = s.signalled
BY TakeType DEF Expire, ExpireTakes

(***************************************************************************)
(* A post either is refused at the limit, or adds one permit and wakes     *)
(* exactly one sleeper when, and only when, it found the counter at zero.  *)
(***************************************************************************)
LEMMA PostedType ==
  ASSUME NEW T, NEW s \in Semaphores(T), NEW max \in Nat, NEW r \in Posted(s, max)
  PROVE  /\ r \in Semaphores(T)
         /\ \/ s.count = max /\ r = s
            \/ /\ s.count # max /\ s.count = 0 /\ r.count = 1
               /\ \E t \in s.blocked : /\ r.blocked = s.blocked \ {t}
                                       /\ r.signalled = s.signalled \cup {t}
            \/ /\ s.count # max /\ (s.count # 0 \/ s.blocked = {})
               /\ r.count = s.count + 1
               /\ r.blocked = s.blocked /\ r.signalled = s.signalled
<1> DEFINE Wakes(t) == [count |-> s.count + 1,
                        blocked |-> s.blocked \ {t},
                        signalled |-> s.signalled \cup {t}]
           Adds == [count |-> s.count + 1, blocked |-> s.blocked,
                    signalled |-> s.signalled]
<1>1. s.count \in Int /\ s.blocked \subseteq T /\ s.signalled \subseteq T
  BY DEF Semaphores
<1>2. [s EXCEPT !.count = @ + 1] = Adds
  BY DEF Semaphores
<1>3. CASE s.count = max
  BY <1>3 DEF Posted, PostFails
<1>4. CASE s.count # max /\ s.count = 0 /\ s.blocked # {}
  <2>1. PICK t \in s.blocked : r = Wakes(t)
    BY <1>4 DEF Posted, PostFails, Signals
  <2> QED
    BY <1>1, <1>4, <2>1 DEF Semaphores
<1>5. CASE s.count # max /\ ~(s.count = 0 /\ s.blocked # {})
  <2>1. r = Adds
    BY <1>2, <1>5 DEF Posted, PostFails, Signals
  <2> QED
    BY <1>1, <1>5, <2>1 DEF Semaphores
<1> QED
  BY <1>3, <1>4, <1>5

(***************************************************************************)
(* Every sequence of semaphore calls keeps the types: in particular the    *)
(* counter never passes the limit that osSemaphorePost tests.              *)
(***************************************************************************)
THEOREM SemaphoreTyping == SemaphoreSpec => []SemaphoreTypeOK
<1>1. SemaphoreInit => SemaphoreTypeOK
  BY CountAssumption DEF SemaphoreInit, SemaphoreTypeOK, osSemaphoreInit, Semaphores, Calls, Results
<1>2. SemaphoreTypeOK /\ [SemaphoreNext]_semaphoreVars => SemaphoreTypeOK'
  <2> SUFFICES ASSUME SemaphoreTypeOK, [SemaphoreNext]_semaphoreVars PROVE SemaphoreTypeOK'
    OBVIOUS
  <2> USE CountAssumption
  <2>0. sem.count \in Int
    BY DEF SemaphoreTypeOK, Semaphores
  <2>1. CASE osSemaphorePost
    BY <2>0, <2>1, PostedType DEF osSemaphorePost, SemaphoreTypeOK
  <2>2. ASSUME NEW t \in Takers, NEW call \in {"wait", "timedwait"}, Enter(t, call)
        PROVE  SemaphoreTypeOK'
    <3>1. sem' = Sleep(sem, t) \/ sem' = Take(sem)
      BY <2>2 DEF Enter
    <3>2. sem' \in Semaphores(Takers) /\ sem'.count <= MaxCount
      BY <2>0, <3>1, SleepType, TakeType DEF SemaphoreTypeOK
    <3>3. taker' \in [Takers -> Calls] /\ ret' \in [Takers -> Results]
      BY <2>2 DEF Enter, Return, SemaphoreTypeOK, Calls, Results
    <3> QED
      BY <3>2, <3>3 DEF SemaphoreTypeOK
  <2>3. ASSUME NEW t \in Takers, SemaphoreWake(t)
        PROVE  SemaphoreTypeOK'
    <3>1. sem' \in Semaphores(Takers) /\ sem'.count <= MaxCount
      BY <2>0, <2>3, ResumeType DEF SemaphoreWake, SemaphoreTypeOK
    <3>2. taker' \in [Takers -> Calls] /\ ret' \in [Takers -> Results]
      BY <2>3 DEF SemaphoreWake, Return, SemaphoreTypeOK, Calls, Results
    <3> QED
      BY <3>1, <3>2 DEF SemaphoreTypeOK
  <2>4. ASSUME NEW t \in Takers, SemaphoreTimeOut(t)
        PROVE  SemaphoreTypeOK'
    BY <2>0, <2>4, ExpireType DEF SemaphoreTimeOut, Return, SemaphoreTypeOK, Calls, Results
  <2>5. ASSUME NEW t \in Takers, osSemaphoreTryWait(t)
        PROVE  SemaphoreTypeOK'
    BY <2>0, <2>5, TakeType DEF osSemaphoreTryWait, Return, SemaphoreTypeOK, Calls, Results
  <2>6. ASSUME NEW t \in Takers, SemaphoreTimeUp(t)
        PROVE  SemaphoreTypeOK'
    BY <2>0, <2>6, LapseType DEF SemaphoreTimeUp, SemaphoreTypeOK, Calls
  <2>7. CASE UNCHANGED semaphoreVars
    BY <2>7 DEF semaphoreVars, SemaphoreTypeOK
  <2> QED
    BY <2>1, <2>2, <2>3, <2>4, <2>5, <2>6, <2>7
       DEF SemaphoreNext, osSemaphoreWait, osSemaphoreTimedWait
<1> QED
  BY <1>1, <1>2, PTL DEF SemaphoreSpec

(***************************************************************************)
(* With a single taking thread osSemaphore is a counting semaphore: it     *)
(* hands out no permit it does not have and sleeps on none that is there.  *)
(* The induction needs to know where the thread is (WaitersMatch) and how  *)
(* its sleep and the counter go together (InStep); InStep fails as soon as *)
(* a second thread takes from the semaphore, because the wait does not     *)
(* test the counter again after it has been signalled.                     *)
(***************************************************************************)
SemaphoreInv == SemaphoreTypeOK /\ NoOverdraw /\ WaitersMatch /\ InStep

THEOREM SingleTaker ==
  ASSUME \A t, u \in Takers : t = u
  PROVE  SemaphoreSpec => [](NoOverdraw /\ NoLostWakeup)
<1>1. SemaphoreInit => SemaphoreInv
  <2> SUFFICES ASSUME SemaphoreInit PROVE SemaphoreInv
    OBVIOUS
  <2>1. SemaphoreTypeOK
    BY CountAssumption DEF SemaphoreInit, SemaphoreTypeOK, osSemaphoreInit, Semaphores, Calls, Results
  <2> QED
    BY <2>1, CountAssumption DEF SemaphoreInit, SemaphoreInv, NoOverdraw, WaitersMatch, InStep, osSemaphoreInit
<1>2. SemaphoreInv /\ SemaphoreTypeOK' /\ [SemaphoreNext]_semaphoreVars => SemaphoreInv'
  <2> SUFFICES ASSUME SemaphoreInv, SemaphoreTypeOK', [SemaphoreNext]_semaphoreVars PROVE SemaphoreInv'
    OBVIOUS
  <2> USE CountAssumption DEF SemaphoreInv, NoOverdraw
  <2>0. sem \in Semaphores(Takers) /\ sem.count \in Nat
        /\ sem.blocked \subseteq Takers /\ sem.signalled \subseteq Takers
        /\ DOMAIN taker = Takers
    BY DEF SemaphoreTypeOK, Semaphores
  <2>1. CASE osSemaphorePost
    <3>1. sem' \in Posted(sem, MaxCount) /\ taker' = taker
      BY <2>1 DEF osSemaphorePost
    <3>2. CASE sem' = sem
      BY <3>1, <3>2 DEF WaitersMatch, InStep
    <3>3. CASE \E t \in sem.blocked : /\ sem.count = 0 /\ sem'.count = 1
                                      /\ sem'.blocked = sem.blocked \ {t}
                                      /\ sem'.signalled = sem.signalled \cup {t}
      <4>1. PICK t \in sem.blocked : /\ sem.count = 0 /\ sem'.count = 1
                                     /\ sem'.blocked = sem.blocked \ {t}
                                     /\ sem'.signalled = sem.signalled \cup {t}
        BY <3>3
      <4>2. sem'.blocked = {}
        BY <2>0, <4>1
      <4> QED
        BY <2>0, <3>1, <4>1, <4>2 DEF WaitersMatch, InStep
    <3>4. CASE /\ sem.count # 0 \/ sem.blocked = {}
               /\ sem'.count = sem.count + 1
               /\ sem'.blocked = sem.blocked /\ sem'.signalled = sem.signalled
      BY <2>0, <3>1, <3>4 DEF WaitersMatch, InStep
    <3> QED
      BY <2>0, <3>1, <3>2, <3>3, <3>4, PostedType
  <2>2. ASSUME NEW t \in Takers, NEW call \in {"wait", "timedwait"}, Enter(t, call)
        PROVE  SemaphoreInv'
    <3>1. taker[t] = "idle" /\ sem.blocked = {} /\ sem.signalled = {}
      BY <2>0, <2>2 DEF Enter, WaitersMatch
    <3>2. CASE MustSleep(sem)
      <4>1. sem' = Sleep(sem, t) /\ taker' = [taker EXCEPT ![t] = call]
        BY <2>2, <3>2 DEF Enter
      <4>2. sem'.count = 0 /\ sem'.blocked = {t} /\ sem'.signalled = {}
        BY <2>0, <3>1, <3>2, <4>1, SleepType DEF MustSleep
      <4>3. \A u \in Takers : taker'[u] \in {"wait", "timedwait"} /\ u \in sem'.blocked
        BY <2>0, <4>1, <4>2
      <4> QED
        BY <2>0, <4>2, <4>3 DEF WaitersMatch, InStep
    <3>3. CASE ~MustSleep(sem)
      <4>1. sem' = Take(sem) /\ taker' = [taker EXCEPT ![t] = "idle"]
        BY <2>2, <3>3 DEF Enter, Return
      <4>2. sem'.count \in Nat /\ sem'.blocked = {} /\ sem'.signalled = {}
        BY <2>0, <3>1, <3>3, <4>1, TakeType DEF MustSleep
      <4>3. \A u \in Takers : taker'[u] = "idle"
        BY <2>0, <4>1
      <4> QED
        BY <4>2, <4>3 DEF WaitersMatch, InStep
    <3> QED
      BY <3>2, <3>3
  <2>3. ASSUME NEW t \in Takers, SemaphoreWake(t)
        PROVE  SemaphoreInv'
    <3>1. sem' = Resume(sem, t) /\ taker' = [taker EXCEPT ![t] = "idle"] /\ t \in sem.signalled
      BY <2>3 DEF SemaphoreWake, Return
    <3>2. sem.count > 0 /\ sem.blocked = {} /\ sem.signalled = {t}
      BY <2>0, <3>1 DEF WaitersMatch, InStep
    <3>3. sem'.count \in Nat /\ sem'.blocked = {} /\ sem'.signalled = {}
      BY <2>0, <3>1, <3>2, ResumeType
    <3>4. \A u \in Takers : taker'[u] = "idle"
      BY <2>0, <3>1
    <3> QED
      BY <3>3, <3>4 DEF WaitersMatch, InStep
  <2>4. ASSUME NEW t \in Takers, SemaphoreTimeOut(t)
        PROVE  SemaphoreInv'
    <3>1. sem' = Expire(sem) /\ taker' = [taker EXCEPT ![t] = "idle"] /\ taker[t] = "lapsed"
      BY <2>4 DEF SemaphoreTimeOut, Return
    <3>2. sem.blocked = {} /\ sem.signalled = {}
      BY <2>0, <3>1 DEF WaitersMatch
    <3>3. sem'.count \in Nat /\ sem'.blocked = {} /\ sem'.signalled = {}
      BY <2>0, <3>1, <3>2, ExpireType
    <3>4. \A u \in Takers : taker'[u] = "idle"
      BY <2>0, <3>1
    <3> QED
      BY <3>3, <3>4 DEF WaitersMatch, InStep
  <2>5. ASSUME NEW t \in Takers, osSemaphoreTryWait(t)
        PROVE  SemaphoreInv'
    <3>1. sem.blocked = {} /\ sem.signalled = {} /\ taker' = [taker EXCEPT ![t] = "idle"]
      BY <2>0, <2>5 DEF osSemaphoreTryWait, Return, WaitersMatch
    <3>2. sem'.count \in Nat /\ sem'.blocked = {} /\ sem'.signalled = {}
      BY <2>0, <2>5, <3>1, TakeType DEF osSemaphoreTryWait, MustSleep
    <3>3. \A u \in Takers : taker'[u] = "idle"
      BY <2>0, <3>1
    <3> QED
      BY <3>2, <3>3 DEF WaitersMatch, InStep
  <2>6. ASSUME NEW t \in Takers, SemaphoreTimeUp(t)
        PROVE  SemaphoreInv'
    <3>1. sem' = Lapse(sem, t) /\ taker' = [taker EXCEPT ![t] = "lapsed"] /\ t \in sem.blocked
      BY <2>6 DEF SemaphoreTimeUp
    <3>2. sem.blocked = {t} /\ sem.signalled = {}
      BY <2>0, <3>1 DEF WaitersMatch
    <3>3. sem'.count \in Nat /\ sem'.blocked = {} /\ sem'.signalled = {}
      BY <2>0, <3>1, <3>2, LapseType
    <3>4. \A u \in Takers : taker'[u] = "lapsed"
      BY <2>0, <3>1
    <3> QED
      BY <3>3, <3>4 DEF WaitersMatch, InStep
  <2>7. CASE UNCHANGED semaphoreVars
    BY <2>7 DEF semaphoreVars, WaitersMatch, InStep
  <2> QED
    BY <2>1, <2>2, <2>3, <2>4, <2>5, <2>6, <2>7
       DEF SemaphoreNext, osSemaphoreWait, osSemaphoreTimedWait
<1>3. SemaphoreInv => NoOverdraw /\ NoLostWakeup
  BY DEF SemaphoreInv, NoLostWakeup, InStep
<1> QED
  BY <1>1, <1>2, <1>3, SemaphoreTyping, PTL DEF SemaphoreSpec

OneEach(w, r) == Writers = {w} /\ Readers = {r}

(***************************************************************************)
(* The semaphore thread t waits on knows of no other thread and is in step *)
(* with it: t sleeps only at zero, and a signal leaves a permit behind.    *)
(***************************************************************************)
GateOK(t) ==
  LET s == sems[Gate(t)] IN
  /\ s.count >= 0
  /\ s.blocked \cup s.signalled \subseteq {t}
  /\ s.blocked \cap s.signalled = {}
  /\ pc[t] \in {"wait", "timed"} <=> t \in s.blocked \cup s.signalled
  /\ t \in s.blocked => s.count = 0
  /\ t \in s.signalled => s.count > 0

Held(t) == IF pc[t] \in {"reserve", "copy", "post"} THEN 1 ELSE 0

Conserved(w, r) ==
  sems["free"].count + sems["used"].count + Held(w) + Held(r) = ItemNum

(***************************************************************************)
(* The slots between the two pointers: those in ItemsUsedSema, the one the *)
(* writer has passed and not posted, the one the reader has yet to pass.   *)
(***************************************************************************)
Filled(w, r) ==
  sems["used"].count
    + (IF pc[w] \in {"copy", "post"} THEN 1 ELSE 0)
    + (IF pc[r] = "reserve" THEN 1 ELSE 0)

Wrap(i) == IF i >= ItemNum THEN i - ItemNum ELSE i

Pointers(w, r) ==
  /\ wr = Wrap(rd + Filled(w, r))
  /\ pc[w] \in {"copy", "post"} => Advance(slot[w]) = wr
  /\ pc[r] = "copy" => Advance(slot[r]) = rd

IInv(w, r) ==
  /\ TypeOK
  /\ GateOK(w) /\ GateOK(r)
  /\ Conserved(w, r)
  /\ Pointers(w, r)

LEMMA Places ==
  ASSUME NEW w, NEW r, OneEach(w, r)
  PROVE  /\ w # r /\ Threads = {w, r} /\ w \in Writers /\ r \notin Writers
         /\ Gate(w) = "free" /\ Other(w) = "used"
         /\ Gate(r) = "used" /\ Other(r) = "free"
BY QueueAssumption DEF OneEach, Threads, Gate, Other

(***************************************************************************)
(* The permits in flight counted thread by thread.                         *)
(***************************************************************************)
LEMMA InFlightCount ==
  ASSUME NEW w, NEW r, OneEach(w, r)
  PROVE  Cardinality(InFlight(Threads)) = Held(w) + Held(r)
<1>1. w # r /\ Threads = {w, r}
  BY Places
<1>2. CASE Held(w) = 0 /\ Held(r) = 0
  <2>1. InFlight(Threads) = {}
    BY <1>1, <1>2 DEF InFlight, Held
  <2> QED
    BY <1>2, <2>1, FS_EmptySet
<1>3. CASE Held(w) = 1 /\ Held(r) = 0
  <2>1. InFlight(Threads) = {w}
    BY <1>1, <1>3 DEF InFlight, Held
  <2> QED
    BY <1>3, <2>1, FS_Singleton
<1>4. CASE Held(w) = 0 /\ Held(r) = 1
  <2>1. InFlight(Threads) = {r}
    BY <1>1, <1>4 DEF InFlight, Held
  <2> QED
    BY <1>4, <2>1, FS_Singleton
<1>5. CASE Held(w) = 1 /\ Held(r) = 1
  <2>1. InFlight(Threads) = {w} \cup {r}
    BY <1>1, <1>5 DEF InFlight, Held
  <2>2. IsFiniteSet({w}) /\ Cardinality({w}) = 1 /\ r \notin {w}
    BY <1>1, FS_Singleton
  <2>3. Cardinality({w} \cup {r}) = Cardinality({w}) + 1
    BY <2>2, FS_AddElement
  <2> QED
    BY <1>5, <2>1, <2>2, <2>3
<1> QED
  BY <1>2, <1>3, <1>4, <1>5 DEF Held

LEMMA PermitsFromInv ==
  ASSUME NEW w, NEW r, OneEach(w, r), IInv(w, r)
  PROVE  PermitsConserved
BY InFlightCount DEF IInv, Conserved, PermitsConserved, Held, TypeOK, Semaphores

(***************************************************************************)
(* If both copied to or from one slot, the pointers would be equal with at *)
(* least one slot filled and at least one not.                             *)
(***************************************************************************)
LEMMA NoSlotRaceFromInv ==
  ASSUME NEW w, NEW r, OneEach(w, r), IInv(w, r)
  PROVE  NoSlotRace
<1> SUFFICES ASSUME pc[w] = "copy", pc[r] = "copy", slot[w] = slot[r]
             PROVE  FALSE
  BY Places DEF NoSlotRace
<1>1. wr = rd
  BY DEF IInv, Pointers
<1>2. /\ sems["used"].count \in Int /\ sems["free"].count \in Int
      /\ sems["used"].count >= 0 /\ sems["free"].count >= 0
      /\ rd \in 0 .. ItemNum - 1
  BY Places DEF IInv, GateOK, TypeOK, Semaphores, Slots
<1>3. Filled(w, r) = sems["used"].count + 1 /\ Filled(w, r) <= ItemNum - 1
  BY <1>2, QueueAssumption DEF IInv, Conserved, Filled, Held
<1> QED
  BY <1>1, <1>2, <1>3, QueueAssumption DEF IInv, Pointers, Wrap

LEMMA InitHolds ==
  ASSUME NEW w, NEW r, OneEach(w, r), osQueueInit
  PROVE  IInv(w, r)
<1> USE QueueAssumption DEF osQueueInit
<1>1. /\ sems["free"] = osSemaphoreInit(ItemNum)
      /\ sems["used"] = osSemaphoreInit(0)
      /\ pc[w] = "idle" /\ pc[r] = "idle"
  BY Places DEF InitialPermits
<1>2. sems \in [{"free", "used"} -> Semaphores(Threads)]
  BY DEF InitialPermits, osSemaphoreInit, Semaphores
<1>3. TypeOK
  BY <1>2 DEF TypeOK, Slots, PCs
<1>4. GateOK(w) /\ GateOK(r)
  BY <1>1, Places DEF GateOK, osSemaphoreInit
<1>5. Conserved(w, r)
  BY <1>1 DEF Conserved, Held, osSemaphoreInit
<1>6. Pointers(w, r)
  BY <1>1 DEF Pointers, Filled, Wrap, osSemaphoreInit
<1> QED
  BY <1>3, <1>4, <1>5, <1>6 DEF IInv

(***************************************************************************)
(* What a step that changes the gate of t only has to show: the rest of    *)
(* the invariant is about counts, which are those before or one less.      *)
(***************************************************************************)
LEMMA GateTypes ==
  ASSUME NEW w, NEW r, OneEach(w, r), IInv(w, r), NEW t \in Threads
  PROVE  /\ Gate(t) \in {"free", "used"} /\ Other(t) \in {"free", "used"}
         /\ Gate(t) # Other(t)
         /\ sems[Gate(t)] \in Semaphores(Threads)
         /\ sems[Other(t)] \in Semaphores(Threads)
         /\ sems[Gate(t)].count \in Int /\ sems[Other(t)].count \in Int
         /\ GateOK(t)
BY Places DEF IInv, TypeOK, Semaphores

(***************************************************************************)
(* A call that passes its gate takes one permit along, and one that goes   *)
(* to sleep, or that gives up, takes none.  s is the gate afterwards.      *)
(***************************************************************************)
LEMMA GateStep ==
  ASSUME NEW w, NEW r, OneEach(w, r), IInv(w, r), NEW t \in Threads,
         NEW s \in Semaphores(Threads), NEW l \in PCs \ {"copy", "post"},
         pc[t] \notin {"reserve", "copy", "post"},
         sems' = [sems EXCEPT ![Gate(t)] = s], pc' = [pc EXCEPT ![t] = l],
         UNCHANGED <<ring, rd, wr, slot>>, item' \in [Threads -> Items \cup {NoItem}],
         s.count = sems[Gate(t)].count - (IF l = "reserve" THEN 1 ELSE 0),
         s.count >= 0,
         s.blocked \cup s.signalled \subseteq {t},
         s.blocked \cap s.signalled = {},
         l \in {"wait", "timed"} <=> t \in s.blocked \cup s.signalled,
         t \in s.blocked => s.count = 0,
         t \in s.signalled => s.count > 0
  PROVE  IInv(w, r)'
<1>1. TypeOK'
  BY GateTypes DEF IInv, TypeOK
<1>2. \A u \in Threads : GateOK(u)'
  <2> TAKE u \in Threads
  <2>1. CASE u = t
    BY <2>1, GateTypes DEF GateOK, IInv, TypeOK, Gate
  <2>2. CASE u # t
    <3>1. Gate(u) # Gate(t) /\ pc'[u] = pc[u]
      BY <2>2, Places DEF IInv, TypeOK
    <3>2. sems'[Gate(u)] = sems[Gate(u)]
      BY <3>1, GateTypes DEF IInv, TypeOK
    <3> QED
      BY <3>1, <3>2, GateTypes DEF GateOK, Gate
  <2> QED
    BY <2>1, <2>2
<1>3. CASE t = w
  <2>1. /\ sems'["free"] = s /\ sems'["used"] = sems["used"]
        /\ pc'[w] = l /\ pc'[r] = pc[r]
    BY <1>3, Places DEF IInv, TypeOK
  <2>2. Conserved(w, r)'
    BY <1>3, <2>1, GateTypes, Places DEF IInv, Conserved, Held, Semaphores
  <2>3. Filled(w, r)' = Filled(w, r)
    BY <1>3, <2>1 DEF Filled, PCs
  <2>4. Pointers(w, r)'
    BY <1>3, <2>1, <2>3 DEF IInv, Pointers, Wrap, Advance
  <2> QED
    BY <1>1, <1>2, <2>2, <2>4, Places DEF IInv
<1>4. CASE t = r
  <2>1. /\ sems'["used"] = s /\ sems'["free"] = sems["free"]
        /\ pc'[r] = l /\ pc'[w] = pc[w]
    BY <1>4, Places DEF IInv, TypeOK
  <2>2. Conserved(w, r)'
    BY <1>4, <2>1, GateTypes, Places DEF IInv, Conserved, Held, Semaphores
  <2>3. Filled(w, r)' = Filled(w, r)
    BY <1>4, <2>1, GateTypes, Places DEF Filled, PCs, Semaphores
  <2>4. Pointers(w, r)'
    BY <1>4, <2>1, <2>3 DEF IInv, Pointers, Wrap, Advance
  <2> QED
    BY <1>1, <1>2, <2>2, <2>4, Places DEF IInv
<1> QED
  BY <1>3, <1>4, Places

LEMMA PassGateStep ==
  ASSUME NEW w, NEW r, OneEach(w, r), IInv(w, r), NEW t \in Threads, NEW mode \in Modes,
         PassGate(t, mode), item' \in [Threads -> Items \cup {NoItem}]
  PROVE  IInv(w, r)'
<1> DEFINE s == sems[Gate(t)]
<1>1. s \in Semaphores(Threads) /\ s.count \in Int /\ GateOK(t)
  BY GateTypes
<1>2. pc[t] = "idle" /\ t \notin s.blocked \cup s.signalled
  BY <1>1 DEF PassGate, GateOK
<1>3. CASE ~MustSleep(s)
  <2>1. /\ Take(s) \in Semaphores(Threads) /\ Take(s).count = s.count - 1
        /\ Take(s).blocked = s.blocked /\ Take(s).signalled = s.signalled
    BY <1>1, TakeType
  <2>2. Take(s).blocked = {} /\ Take(s).signalled = {} /\ Take(s).count >= 0
    BY <1>1, <1>2, <1>3, <2>1 DEF GateOK, MustSleep
  <2>3. sems' = [sems EXCEPT ![Gate(t)] = Take(s)] /\ pc' = [pc EXCEPT ![t] = "reserve"]
    BY <1>3 DEF PassGate, Goto
  <2> QED
    BY <1>2, <2>1, <2>2, <2>3, GateStep DEF PassGate, PCs
<1>4. CASE MustSleep(s) /\ mode = "try"
  <2>1. UNCHANGED <<ring, rd, wr, slot, sems, pc>>
    BY <1>4 DEF PassGate
  <2> QED
    BY <2>1 DEF IInv, TypeOK, GateOK, Gate, Conserved, Held, Pointers, Filled, Wrap, Advance
<1>5. CASE MustSleep(s) /\ mode # "try"
  <2>1. /\ Sleep(s, t) \in Semaphores(Threads) /\ Sleep(s, t).count = s.count
        /\ Sleep(s, t).blocked = s.blocked \cup {t}
        /\ Sleep(s, t).signalled = s.signalled
    BY <1>1, SleepType
  <2>2. /\ Sleep(s, t).blocked = {t} /\ Sleep(s, t).signalled = {}
        /\ Sleep(s, t).count = 0
    BY <1>1, <1>2, <1>5, <2>1 DEF GateOK, MustSleep
  <2>3. sems' = [sems EXCEPT ![Gate(t)] = Sleep(s, t)] /\ pc' = [pc EXCEPT ![t] = mode]
    BY <1>5 DEF PassGate, Goto
  <2>4. mode \in {"wait", "timed"} /\ mode \in PCs \ {"copy", "post"}
    BY <1>5 DEF Modes, PCs
  <2> DEFINE z == Sleep(s, t)
  <2>5. z.blocked = {t} /\ z.signalled = {} /\ z.count = 0 /\ z \in Semaphores(Threads)
    BY <2>1, <2>2
  <2>6. z.count = s.count - (IF mode = "reserve" THEN 1 ELSE 0)
    BY <1>1, <2>1, <2>4
  <2>7. sems' = [sems EXCEPT ![Gate(t)] = z] /\ UNCHANGED <<ring, rd, wr, slot>>
    BY <2>3 DEF PassGate
  <2>8. pc[t] \notin {"reserve", "copy", "post"}
    BY <1>2
  <2> HIDE DEF z
  <2>9. /\ z.blocked \cup z.signalled \subseteq {t} /\ z.blocked \cap z.signalled = {}
        /\ t \in z.blocked \cup z.signalled /\ t \notin z.signalled /\ z.count >= 0
    BY <2>5
  <2> QED
    BY <2>3, <2>4, <2>5, <2>6, <2>7, <2>8, <2>9, GateStep
<1> QED
  BY <1>3, <1>4, <1>5

LEMMA WakeStep ==
  ASSUME NEW w, NEW r, OneEach(w, r), IInv(w, r), NEW t \in Threads, Wake(t)
  PROVE  IInv(w, r)'
<1> DEFINE s == sems[Gate(t)]
<1>1. s \in Semaphores(Threads) /\ s.count \in Int /\ GateOK(t)
  BY GateTypes
<1>2. t \in s.signalled /\ t \notin s.blocked /\ s.count > 0 /\ pc[t] \in {"wait", "timed"}
  BY <1>1 DEF Wake, GateOK
<1>3. /\ Resume(s, t) \in Semaphores(Threads) /\ Resume(s, t).count = s.count - 1
      /\ Resume(s, t).blocked = s.blocked
      /\ Resume(s, t).signalled = s.signalled \ {t}
  BY <1>1, ResumeType
<1>4. Resume(s, t).blocked = {} /\ Resume(s, t).signalled = {}
  BY <1>1, <1>2, <1>3 DEF GateOK
<1>5. item' \in [Threads -> Items \cup {NoItem}]
  BY DEF Wake, IInv, TypeOK
<1>6. /\ sems' = [sems EXCEPT ![Gate(t)] = Resume(s, t)]
      /\ pc' = [pc EXCEPT ![t] = "reserve"]
      /\ UNCHANGED <<ring, rd, wr, slot>>
  BY DEF Wake, Goto
<1>7. /\ Resume(s, t).count = s.count - (IF "reserve" = "reserve" THEN 1 ELSE 0)
      /\ Resume(s, t).count >= 0 /\ "reserve" \in PCs \ {"copy", "post"}
  BY <1>1, <1>2, <1>3 DEF PCs
<1> HIDE DEF s
<1> QED
  BY <1>1, <1>2, <1>3, <1>4, <1>5, <1>6, <1>7, GateStep DEF s

LEMMA TimeUpStep ==
  ASSUME NEW w, NEW r, OneEach(w, r), IInv(w, r), NEW t \in Threads, TimeUp(t)
  PROVE  IInv(w, r)'
<1> DEFINE s == sems[Gate(t)]
<1>1. s \in Semaphores(Threads) /\ s.count \in Int /\ GateOK(t)
  BY GateTypes
<1>2. t \in s.blocked /\ t \notin s.signalled /\ s.count = 0 /\ pc[t] = "timed"
  BY <1>1 DEF TimeUp, GateOK
<1>3. /\ Lapse(s, t) \in Semaphores(Threads) /\ Lapse(s, t).count = s.count
      /\ Lapse(s, t).blocked = s.blocked \ {t}
      /\ Lapse(s, t).signalled = s.signalled
  BY <1>1, LapseType
<1>4. Lapse(s, t).blocked = {} /\ Lapse(s, t).signalled = {}
  BY <1>1, <1>2, <1>3 DEF GateOK
<1>5. item' \in [Threads -> Items \cup {NoItem}]
  BY DEF TimeUp, IInv, TypeOK
<1>6. /\ sems' = [sems EXCEPT ![Gate(t)] = Lapse(s, t)]
      /\ pc' = [pc EXCEPT ![t] = "lapsed"]
      /\ UNCHANGED <<ring, rd, wr, slot>>
  BY DEF TimeUp, Goto
<1>7. /\ Lapse(s, t).count = s.count - (IF "lapsed" = "reserve" THEN 1 ELSE 0)
      /\ Lapse(s, t).count >= 0 /\ "lapsed" \in PCs \ {"copy", "post"}
  BY <1>1, <1>2, <1>3 DEF PCs
<1> HIDE DEF s
<1> QED
  BY <1>1, <1>2, <1>3, <1>4, <1>5, <1>6, <1>7, GateStep DEF s

LEMMA TimeOutStep ==
  ASSUME NEW w, NEW r, OneEach(w, r), IInv(w, r), NEW t \in Threads, TimeOut(t)
  PROVE  IInv(w, r)'
<1> DEFINE s == sems[Gate(t)]
           l == IF s.count # 0 THEN "reserve" ELSE "idle"
<1>1. s \in Semaphores(Threads) /\ s.count \in Int /\ GateOK(t)
  BY GateTypes
<1>2. pc[t] = "lapsed" /\ t \notin s.blocked /\ t \notin s.signalled
  BY <1>1 DEF TimeOut, GateOK
<1>3. /\ Expire(s) \in Semaphores(Threads)
      /\ Expire(s).count = (IF s.count # 0 THEN s.count - 1 ELSE s.count)
      /\ Expire(s).blocked = s.blocked /\ Expire(s).signalled = s.signalled
  BY <1>1, ExpireType
<1>4. Expire(s).blocked = {} /\ Expire(s).signalled = {} /\ Expire(s).count >= 0
  BY <1>1, <1>2, <1>3 DEF GateOK
<1>5. item' \in [Threads -> Items \cup {NoItem}]
  BY DEF TimeOut, IInv, TypeOK
<1>6. /\ sems' = [sems EXCEPT ![Gate(t)] = Expire(s)]
      /\ pc' = [pc EXCEPT ![t] = l]
      /\ UNCHANGED <<ring, rd, wr, slot>>
  BY DEF TimeOut, Goto, ExpireTakes
<1>7. Expire(s).count = s.count - (IF l = "reserve" THEN 1 ELSE 0)
  BY <1>1, <1>3
<1>8. l \in PCs \ {"copy", "post"} /\ l \notin {"wait", "timed"}
  BY DEF PCs
<1> HIDE DEF l
<1> QED
  BY <1>1, <1>2, <1>3, <1>4, <1>5, <1>6, <1>7, <1>8, GateStep

(***************************************************************************)
(* The writer's pointer moves on over a free slot, the reader's over a     *)
(* filled one: by the permits, there is one.                               *)
(***************************************************************************)
LEMMA ReserveStep ==
  ASSUME NEW w, NEW r, OneEach(w, r), IInv(w, r), NEW t \in Threads, Reserve(t)
  PROVE  IInv(w, r)'
<1>1. /\ sems["free"].count \in Int /\ sems["free"].count >= 0
      /\ sems["used"].count \in Int /\ sems["used"].count >= 0
      /\ rd \in 0 .. ItemNum - 1 /\ wr \in 0 .. ItemNum - 1 /\ ItemNum \in Nat \ {0}
  BY Places, QueueAssumption DEF IInv, TypeOK, GateOK, Semaphores, Slots
<1>2. \A i \in Slots : Advance(i) \in Slots
  BY QueueAssumption DEF Advance, Slots
<1>3. TypeOK'
  BY <1>2 DEF Reserve, Goto, IInv, TypeOK, PCs
<1>4. \A u \in Threads : GateOK(u)'
  <2> TAKE u \in Threads
  <2>1. pc'[u] = pc[u] \/ (pc[u] = "reserve" /\ pc'[u] = "copy")
    BY DEF Reserve, Goto, IInv, TypeOK
  <2> QED
    BY <2>1, GateTypes DEF Reserve, GateOK, Gate
<1>5. pc[t] = "reserve" /\ pc' = [pc EXCEPT ![t] = "copy"] /\ sems' = sems
  BY DEF Reserve, Goto
<1>6. Conserved(w, r)'
  BY <1>5, Places DEF IInv, TypeOK, Conserved, Held
<1>7. CASE t = w
  <2>1. /\ pc'[w] = "copy" /\ pc'[r] = pc[r]
        /\ slot'[w] = wr /\ slot'[r] = slot[r] /\ wr' = Advance(wr) /\ rd' = rd
    BY <1>5, <1>7, Places DEF Reserve, IInv, TypeOK
  <2>2. Filled(w, r)' = Filled(w, r) + 1 /\ Filled(w, r) \in 0 .. ItemNum - 1
    BY <1>1, <1>5, <1>7, <2>1 DEF IInv, Conserved, Held, Filled
  <2>3. wr' = Wrap(rd + Filled(w, r) + 1)
    BY <1>1, <2>1, <2>2 DEF IInv, Pointers, Wrap, Advance
  <2>4. Pointers(w, r)'
    BY <1>1, <2>1, <2>2, <2>3 DEF IInv, Pointers, Wrap, Advance
  <2> QED
    BY <1>3, <1>4, <1>6, <2>4, Places DEF IInv
<1>8. CASE t = r
  <2>1. /\ pc'[r] = "copy" /\ pc'[w] = pc[w]
        /\ slot'[r] = rd /\ slot'[w] = slot[w] /\ rd' = Advance(rd) /\ wr' = wr
    BY <1>5, <1>8, Places DEF Reserve, IInv, TypeOK
  <2>2. Filled(w, r)' = Filled(w, r) - 1 /\ Filled(w, r) \in 1 .. ItemNum
    BY <1>1, <1>5, <1>8, <2>1 DEF IInv, Conserved, Held, Filled
  <2>3. wr = Wrap(Advance(rd) + Filled(w, r) - 1)
    BY <1>1, <2>1, <2>2 DEF IInv, Pointers, Wrap, Advance
  <2>4. Pointers(w, r)'
    BY <1>1, <1>2, <2>1, <2>2, <2>3 DEF IInv, Pointers, Wrap, Advance
  <2> QED
    BY <1>3, <1>4, <1>6, <2>4, Places DEF IInv
<1> QED
  BY <1>7, <1>8, Places

LEMMA CopyStep ==
  ASSUME NEW w, NEW r, OneEach(w, r), IInv(w, r), NEW t \in Threads, Copy(t)
  PROVE  IInv(w, r)'
<1>1. /\ pc[t] = "copy" /\ pc' = [pc EXCEPT ![t] = "post"]
      /\ UNCHANGED <<rd, wr, sems, slot>>
  BY DEF Copy, Goto
<1>2. TypeOK'
  BY <1>1 DEF Copy, IInv, TypeOK, PCs
<1>3. \A u \in Threads : GateOK(u)'
  <2> TAKE u \in Threads
  <2>1. pc'[u] = pc[u] \/ (pc[u] = "copy" /\ pc'[u] = "post")
    BY <1>1 DEF IInv, TypeOK
  <2> QED
    BY <1>1, <2>1, GateTypes DEF GateOK, Gate
<1>4. \A u \in Threads : pc'[u] = pc[u] \/ (pc[u] = "copy" /\ pc'[u] = "post")
  BY <1>1 DEF IInv, TypeOK
<1>5. Conserved(w, r)' /\ Filled(w, r)' = Filled(w, r)
  BY <1>1, <1>4, Places DEF IInv, Conserved, Held, Filled
<1>6. Pointers(w, r)'
  BY <1>1, <1>4, <1>5, Places DEF IInv, Pointers, Wrap, Advance
<1> QED
  BY <1>2, <1>3, <1>5, <1>6, Places DEF IInv

(***************************************************************************)
(* The post hands the permit to the other side, and wakes it if it sleeps. *)
(***************************************************************************)
LEMMA PostStep ==
  ASSUME NEW w, NEW r, OneEach(w, r), IInv(w, r), NEW t \in Threads, Post(t)
  PROVE  IInv(w, r)'
<1> DEFINE s == sems[Other(t)]
<1>1. PICK z \in Posted(s, SemaMax) : sems' = [sems EXCEPT ![Other(t)] = z]
  BY DEF Post
<1>2. /\ pc[t] = "post" /\ pc' = [pc EXCEPT ![t] = "idle"]
      /\ UNCHANGED <<ring, rd, wr, slot, item>>
  BY DEF Post, Goto
<1>3. PICK u \in Threads : u # t /\ Gate(u) = Other(t) /\ Gate(t) = Other(u)
  BY Places
<1>4. s \in Semaphores(Threads) /\ s.count \in Int /\ GateOK(u)
  BY <1>3, GateTypes
<1>5. s.count <= ItemNum /\ SemaMax \in Nat /\ SemaMax > ItemNum
  BY Places, QueueAssumption
  DEF IInv, TypeOK, Semaphores, GateOK, Conserved, Held, SemaMax
<1>6. /\ z \in Semaphores(Threads)
      /\ \/ /\ s.count = 0 /\ z.count = 1
            /\ \E x \in s.blocked : /\ z.blocked = s.blocked \ {x}
                                    /\ z.signalled = s.signalled \cup {x}
         \/ /\ s.count # 0 \/ s.blocked = {}
            /\ z.count = s.count + 1
            /\ z.blocked = s.blocked /\ z.signalled = s.signalled
  <2> HIDE DEF s
  <2>1. s.count # SemaMax
    BY <1>4, <1>5, QueueAssumption
  <2>2. SemaMax \in Nat /\ z \in Posted(s, SemaMax)
    BY <1>5
  <2> HIDE DEF SemaMax
  <2> QED
    BY <1>4, <2>1, <2>2, PostedType
<1>7. /\ z.count = s.count + 1 /\ z.count > 0
      /\ z.blocked = {} /\ z.signalled \subseteq {u}
      /\ z.blocked \cup z.signalled = s.blocked \cup s.signalled
  BY <1>3, <1>4, <1>6 DEF GateOK
<1>8. TypeOK'
  BY <1>1, <1>2, <1>3, <1>6, GateTypes DEF IInv, TypeOK, PCs
<1>9. /\ sems'[Gate(u)] = z /\ sems'[Gate(t)] = sems[Gate(t)]
      /\ pc'[t] = "idle" /\ pc'[u] = pc[u]
  BY <1>1, <1>2, <1>3, GateTypes DEF IInv, TypeOK
<1>10. GateOK(u)'
  <2> HIDE DEF s
  <2> QED
    BY <1>3, <1>4, <1>7, <1>9 DEF GateOK, Gate, s
<1>11. GateOK(t)'
  BY <1>2, <1>9, GateTypes DEF GateOK, Gate
<1>12. CASE t = w
  <2>1. /\ u = r /\ sems'["used"] = z /\ sems'["free"] = sems["free"]
        /\ z.count = sems["used"].count + 1
    BY <1>3, <1>7, <1>9, <1>12, Places
  <2>2. Conserved(w, r)'
    BY <1>2, <1>9, <1>12, <2>1, GateTypes, Places
    DEF IInv, TypeOK, Semaphores, Conserved, Held
  <2>3. Filled(w, r)' = Filled(w, r)
    BY <1>2, <1>4, <1>9, <1>12, <2>1, Places DEF Filled
  <2>4. Pointers(w, r)'
    BY <1>2, <1>9, <1>12, <2>1, <2>3 DEF IInv, Pointers, Wrap, Advance
  <2> QED
    BY <1>8, <1>10, <1>11, <1>12, <2>1, <2>2, <2>4 DEF IInv
<1>13. CASE t = r
  <2>1. /\ u = w /\ sems'["free"] = z /\ sems'["used"] = sems["used"]
        /\ z.count = sems["free"].count + 1
    BY <1>3, <1>7, <1>9, <1>13, Places
  <2>2. Conserved(w, r)'
    BY <1>2, <1>9, <1>13, <2>1, GateTypes, Places
    DEF IInv, TypeOK, Semaphores, Conserved, Held
  <2>3. Filled(w, r)' = Filled(w, r)
    BY <1>2, <1>9, <1>13, <2>1, Places DEF Filled
  <2>4. Pointers(w, r)'
    BY <1>2, <1>9, <1>13, <2>1, <2>3 DEF IInv, Pointers, Wrap, Advance
  <2> QED
    BY <1>8, <1>10, <1>11, <1>13, <2>1, <2>2, <2>4 DEF IInv
<1> QED
  BY <1>12, <1>13, Places

LEMMA Inductive ==
  ASSUME NEW w, NEW r, OneEach(w, r), IInv(w, r), [Next]_vars
  PROVE  IInv(w, r)'
<1>1. ASSUME NEW t \in Threads, NEW mode \in Modes, Write(t, mode) \/ Read(t, mode)
      PROVE  IInv(w, r)'
  <2>1. PassGate(t, mode) /\ item' \in [Threads -> Items \cup {NoItem}]
    BY <1>1 DEF Write, Read, IInv, TypeOK
  <2> QED
    BY <2>1, PassGateStep
<1>2. ASSUME NEW t \in Threads,
             \/ osQueueWrite(t) \/ osQueueTimedWrite(t) \/ osQueueTryWrite(t)
             \/ osQueueRead(t) \/ osQueueTimedRead(t) \/ osQueueTryRead(t)
      PROVE  IInv(w, r)'
  BY <1>1, <1>2 DEF osQueueWrite, osQueueTimedWrite, osQueueTryWrite,
                    osQueueRead, osQueueTimedRead, osQueueTryRead, Modes
<1>3. ASSUME NEW t \in Threads, TimeUp(t) \/ Proceed(t)
      PROVE  IInv(w, r)'
  BY <1>3, TimeUpStep, WakeStep, TimeOutStep, ReserveStep, CopyStep, PostStep DEF Proceed
<1>4. CASE UNCHANGED vars
  BY <1>4 DEF vars, IInv, TypeOK, GateOK, Gate, Conserved, Held, Pointers, Filled,
              Wrap, Advance
<1> QED
  BY <1>2, <1>3, <1>4 DEF Next

(***************************************************************************)
(* With one writer and one reader the copies, which are made without the   *)
(* mutex, are exclusive, whatever the number of slots.                     *)
(***************************************************************************)
THEOREM CopiesExclusive ==
  ASSUME NEW w, NEW r, OneEach(w, r)
  PROVE  Spec => []NoSlotRace
<1>1. osQueueInit => IInv(w, r)
  BY InitHolds
<1>2. IInv(w, r) /\ [Next]_vars => IInv(w, r)'
  BY Inductive
<1>3. IInv(w, r) => NoSlotRace
  BY NoSlotRaceFromInv
<1> QED
  BY <1>1, <1>2, <1>3, PTL DEF Spec

(***************************************************************************)
(* And no permit appears or disappears, whatever mix of blocking, timed    *)
(* and trying calls the two make.                                          *)
(***************************************************************************)
THEOREM PermitsKept ==
  ASSUME NEW w, NEW r, OneEach(w, r)
  PROVE  Spec => [](TypeOK /\ PermitsConserved)
<1>1. osQueueInit => IInv(w, r)
  BY InitHolds
<1>2. IInv(w, r) /\ [Next]_vars => IInv(w, r)'
  BY Inductive
<1>3. IInv(w, r) => TypeOK /\ PermitsConserved
  BY PermitsFromInv DEF IInv
<1> QED
  BY <1>1, <1>2, <1>3, PTL DEF Spec

(***************************************************************************)
(* The channel.  With one reader the oldest item is in the slot the reader *)
(* is copying from, or else in the next slot to read, and the slot of a    *)
(* writer that copies or posts is the first one behind the items.          *)
(***************************************************************************)
First(r) == IF pc[r] = "copy" THEN slot[r] ELSE rd

Kept(r) == sems["used"].count + (IF pc[r] \in {"reserve", "copy"} THEN 1 ELSE 0)

Carried(w) ==
  /\ pc[w] # "idle" => item[w] \in Items
  /\ pc[w] = "post" => ring[slot[w]] = item[w]

LEMMA Modulo ==
  ASSUME NEW n \in Nat \ {0}, NEW x \in 0 .. n - 1
  PROVE  /\ x % n = x
         /\ (x + n) % n = x
         /\ (x - n) % n = x
<1>1. x % n = x
  BY SMTT(30)
<1>2. (x + n) % n = x
  BY SMTT(30)
<1>3. (x - n) % n = x
  BY SMTT(30)
<1> QED
  BY <1>1, <1>2, <1>3

LEMMA WrapModulo ==
  ASSUME NEW i \in 0 .. 2 * ItemNum - 1
  PROVE  i % ItemNum = Wrap(i)
<1>1. ItemNum \in Nat \ {0}
  BY QueueAssumption
<1>2. CASE i < ItemNum
  BY <1>1, <1>2, Modulo DEF Wrap
<1>3. CASE i >= ItemNum
  <2> DEFINE x == i - ItemNum
  <2>1. x \in 0 .. ItemNum - 1 /\ i = x + ItemNum
    BY <1>1, <1>3
  <2>2. (x + ItemNum) % ItemNum = x
    BY <1>1, <2>1, Modulo
  <2> QED
    BY <1>3, <2>1, <2>2 DEF Wrap
<1> QED
  BY <1>1, <1>2, <1>3

LEMMA ChannelTypes ==
  ASSUME NEW w, NEW r, OneEach(w, r), IInv(w, r)
  PROVE  /\ ItemNum \in Nat \ {0}
         /\ sems["used"].count \in Nat /\ sems["free"].count \in Nat
         /\ rd \in 0 .. ItemNum - 1 /\ wr \in 0 .. ItemNum - 1
         /\ slot[w] \in 0 .. ItemNum - 1 /\ slot[r] \in 0 .. ItemNum - 1
         /\ First(r) \in 0 .. ItemNum - 1
         /\ Kept(r) \in 0 .. ItemNum
BY Places, QueueAssumption
DEF IInv, TypeOK, GateOK, Semaphores, Slots, Conserved, Held, First, Kept

LEMMA ContentsAre ==
  ASSUME NEW w, NEW r, OneEach(w, r), IInv(w, r)
  PROVE  Contents = [i \in 1 .. Kept(r) |-> ring[Wrap(First(r) + i - 1)]]
<1>1. Readers = {r}
  BY DEF OneEach
<1>2. \A l : Cardinality(At(l)) = IF pc[r] \in l THEN 1 ELSE 0
  <2> TAKE l
  <2>1. CASE pc[r] \in l
    <3>1. At(l) = {r}
      BY <1>1, <2>1 DEF At
    <3> QED
      BY <2>1, <3>1, FS_Singleton
  <2>2. CASE pc[r] \notin l
    <3>1. At(l) = {}
      BY <1>1, <2>2 DEF At
    <3> QED
      BY <2>2, <3>1, FS_EmptySet
  <2> QED
    BY <2>1, <2>2
<1>3. Stored = Kept(r)
  BY <1>2 DEF Stored, Kept
<1>4. Oldest = First(r)
  <2>1. CASE pc[r] = "copy"
    <3>1. Oldest = (rd - 1) % ItemNum
      BY <1>2, <2>1 DEF Oldest
    <3>2. CASE slot[r] + 1 >= ItemNum
      <4>1. rd = 0 /\ slot[r] = ItemNum - 1 /\ rd - 1 = slot[r] - ItemNum
        BY <2>1, <3>2, ChannelTypes DEF IInv, Pointers, Advance
      <4> QED
        BY <2>1, <3>1, <4>1, ChannelTypes, Modulo DEF First
    <3>3. CASE ~(slot[r] + 1 >= ItemNum)
      <4>1. rd - 1 = slot[r]
        BY <2>1, <3>3, ChannelTypes DEF IInv, Pointers, Advance
      <4> QED
        BY <2>1, <3>1, <4>1, ChannelTypes, Modulo DEF First
    <3> QED
      BY <3>2, <3>3
  <2>2. CASE pc[r] # "copy"
    <3>1. Oldest = (rd - 0) % ItemNum /\ rd - 0 = rd
      BY <1>2, <2>2, ChannelTypes DEF Oldest
    <3> QED
      BY <2>2, <3>1, ChannelTypes, Modulo DEF First
  <2> QED
    BY <2>1, <2>2
<1>5. \A i \in 1 .. Kept(r) :
        (First(r) + i - 1) % ItemNum = Wrap(First(r) + i - 1)
  BY ChannelTypes, WrapModulo
<1> QED
  BY <1>3, <1>4, <1>5 DEF Contents

LEMMA ContentsSeq ==
  ASSUME NEW w, NEW r, OneEach(w, r), IInv(w, r)
  PROVE  Contents \in Seq(Items \cup {NoItem})
<1>1. \A i \in 1 .. Kept(r) : Wrap(First(r) + i - 1) \in Slots
  BY ChannelTypes DEF Wrap, Slots
<1>2. \A i \in 1 .. Kept(r) : ring[Wrap(First(r) + i - 1)] \in Items \cup {NoItem}
  BY <1>1 DEF IInv, TypeOK
<1>3. Contents \in [1 .. Kept(r) -> Items \cup {NoItem}]
  BY <1>2, ContentsAre
<1> QED
  BY <1>3, ChannelTypes, SeqDef

LEMMA ContentsAreNext ==
  ASSUME NEW w, NEW r
  PROVE  (OneEach(w, r) /\ IInv(w, r)
            => /\ Contents = [i \in 1 .. Kept(r) |-> ring[Wrap(First(r) + i - 1)]]
               /\ Contents \in Seq(Items \cup {NoItem}))'
<1>1. OneEach(w, r) /\ IInv(w, r)
        => /\ Contents = [i \in 1 .. Kept(r) |-> ring[Wrap(First(r) + i - 1)]]
           /\ Contents \in Seq(Items \cup {NoItem})
  BY ContentsAre, ContentsSeq
<1> QED
  BY <1>1, PTL

(***************************************************************************)
(* A writer that has its slot fills the first one behind the items.        *)
(***************************************************************************)
LEMMA WritersSlot ==
  ASSUME NEW w, NEW r, OneEach(w, r), IInv(w, r), pc[w] \in {"copy", "post"}
  PROVE  slot[w] = Wrap(First(r) + Kept(r)) /\ Kept(r) < ItemNum
<1>1. Kept(r) < ItemNum
  BY ChannelTypes DEF IInv, Conserved, Held, Kept
<1>2. Filled(w, r) \in 1 .. ItemNum /\ wr = Wrap(rd + Filled(w, r)) /\ Advance(slot[w]) = wr
  BY ChannelTypes DEF IInv, Conserved, Held, Filled, Pointers
<1>3. CASE pc[r] = "copy"
  <2>1. Filled(w, r) = Kept(r) /\ Advance(First(r)) = rd
    BY <1>3, ChannelTypes DEF Filled, Kept, First, IInv, Pointers
  <2> QED
    BY <1>1, <1>2, <2>1, ChannelTypes DEF Wrap, Advance
<1>4. CASE pc[r] # "copy"
  <2>1. Filled(w, r) = Kept(r) + 1 /\ First(r) = rd
    BY <1>4, ChannelTypes DEF Filled, Kept, First
  <2> QED
    BY <1>1, <1>2, <2>1, ChannelTypes DEF Wrap, Advance
<1> QED
  BY <1>1, <1>3, <1>4

LEMMA CarriedStep ==
  ASSUME NEW w, NEW r, OneEach(w, r), IInv(w, r), Carried(w), [Next]_vars
  PROVE  Carried(w)'
<1> USE DEF Carried, IInv, TypeOK
<1>0. w \in Writers /\ w \in Threads /\ r \notin Writers /\ Threads = {w, r}
  BY Places
<1>1. ASSUME NEW t \in Threads, NEW mode \in Modes, Write(t, mode) \/ Read(t, mode)
      PROVE  Carried(w)'
  <2>1. PassGate(t, mode) /\ (t = w => \E v \in Items : item' = [item EXCEPT ![t] = v])
        /\ (t # w => item' = item)
    BY <1>0, <1>1, QueueAssumption DEF Write, Read, OneEach
  <2>2. ring' = ring /\ slot' = slot /\ (pc'[w] = "post" => pc[w] = "post")
    BY <1>0, <2>1 DEF PassGate, Goto, Modes
  <2>3. t # w => pc'[w] = pc[w]
    BY <1>0, <2>1 DEF PassGate, Goto
  <2>4. t = w => item'[w] \in Items /\ pc[w] = "idle"
    BY <1>0, <2>1 DEF PassGate
  <2> QED
    BY <1>0, <2>1, <2>2, <2>3, <2>4
<1>2. ASSUME NEW t \in Threads, TimeUp(t) \/ Wake(t) \/ TimeOut(t) \/ Reserve(t) \/ Post(t)
      PROVE  Carried(w)'
  <2>1. pc'[w] # "idle" => pc[w] # "idle"
    <3>1. CASE t = w
      BY <1>0, <1>2, <3>1, GateTypes DEF TimeUp, Wake, TimeOut, Reserve, Post, Goto, GateOK
    <3>2. CASE t # w
      BY <1>0, <1>2, <3>2 DEF TimeUp, Wake, TimeOut, Reserve, Post, Goto
    <3> QED
      BY <3>1, <3>2
  <2>2. pc'[w] = "post" => pc[w] = "post" /\ slot'[w] = slot[w]
    BY <1>0, <1>2 DEF TimeUp, Wake, TimeOut, Reserve, Post, Goto
  <2>3. item' = item /\ ring' = ring
    BY <1>2 DEF TimeUp, Wake, TimeOut, Reserve, Post
  <2> QED
    BY <2>1, <2>2, <2>3
<1>3. ASSUME NEW t \in Threads, Copy(t)
      PROVE  Carried(w)'
  BY <1>0, <1>3 DEF Copy, Goto
<1>4. CASE UNCHANGED vars
  BY <1>4 DEF vars
<1> QED
  BY <1>1, <1>2, <1>3, <1>4
  DEF Next, Proceed, Modes, osQueueWrite, osQueueTimedWrite, osQueueTryWrite,
      osQueueRead, osQueueTimedRead, osQueueTryRead

Got == [x \in Readers |-> item[x]]

(***************************************************************************)
(* What leaves the items, their place and the reader's buffer alone leaves *)
(* the channel alone.                                                      *)
(***************************************************************************)
LEMMA ChannelSame ==
  ASSUME NEW w, NEW r, OneEach(w, r), IInv(w, r), IInv(w, r)',
         Kept(r)' = Kept(r), First(r)' = First(r), item'[r] = item[r],
         \A i \in 1 .. Kept(r) :
           ring'[Wrap(First(r) + i - 1)] = ring[Wrap(First(r) + i - 1)]
  PROVE  UNCHANGED Fifo!fifoVars
<1>1. /\ Contents = [i \in 1 .. Kept(r) |-> ring[Wrap(First(r) + i - 1)]]
      /\ Contents' = [i \in 1 .. Kept(r) |-> ring'[Wrap(First(r) + i - 1)]]
  <2>1. (OneEach(w, r))'
    BY DEF OneEach
  <2>2. Contents' = [i \in 1 .. Kept(r)' |-> ring'[Wrap(First(r)' + i - 1)]]
    BY <2>1, ContentsAreNext DEF Wrap
  <2> QED
    BY <2>2, ContentsAre
<1>2. Got' = Got
  BY DEF Got, OneEach
<1> QED
  BY <1>1, <1>2 DEF Fifo!fifoVars, Got

(***************************************************************************)
(* Every step is a step of the channel or leaves it as it is: an item goes *)
(* in when its writer posts it and leaves when the reader has copied it.   *)
(***************************************************************************)
LEMMA CallStep ==
  ASSUME NEW w, NEW r, OneEach(w, r), IInv(w, r), IInv(w, r)', NEW t \in Threads,
         \/ \E mode \in Modes : PassGate(t, mode) /\ (t # w => item' = item)
         \/ TimeUp(t) \/ Wake(t) \/ TimeOut(t) \/ Reserve(t),
         item'[r] = item[r]
  PROVE  UNCHANGED Fifo!fifoVars
<1> USE DEF IInv, TypeOK
<1>0. /\ Threads = {w, r} /\ w # r /\ w \in Writers /\ r \notin Writers
      /\ Gate(w) = "free" /\ Gate(r) = "used"
  BY Places
<1>1. ring' = ring
  BY DEF PassGate, TimeUp, Wake, TimeOut, Reserve
<1>2. \A g \in {"free", "used"} : sems[g] \in Semaphores(Threads)
  OBVIOUS
<1>3. First(r)' = First(r)
  BY <1>0 DEF First, PassGate, TimeUp, Wake, TimeOut, Reserve, Goto, Modes, GateOK
<1>4. Kept(r)' = Kept(r)
  <2>1. CASE t = w
    BY <1>0, <2>1 DEF Kept, PassGate, TimeUp, Wake, TimeOut, Reserve, Goto, Modes
  <2>2. CASE t = r /\ \E mode \in Modes : PassGate(t, mode)
    BY <1>0, <1>2, <2>2, TakeType, SleepType DEF Kept, PassGate, Goto, Modes, Semaphores
  <2>3. CASE t = r /\ TimeUp(t)
    <3>1. sems'["used"].count = sems["used"].count
      BY <1>0, <1>2, <2>3, LapseType DEF TimeUp
    <3>2. pc[r] = "timed" /\ pc'[r] = "lapsed"
      BY <2>3 DEF TimeUp, Goto
    <3> QED
      BY <3>1, <3>2 DEF Kept
  <2>4. CASE t = r /\ Wake(t)
    BY <1>0, <1>2, <2>4, ResumeType DEF Kept, Wake, Goto, GateOK, Semaphores
  <2>5. CASE t = r /\ TimeOut(t)
    BY <1>0, <1>2, <2>5, ExpireType DEF Kept, TimeOut, Goto, ExpireTakes, Semaphores
  <2>6. CASE t = r /\ Reserve(t)
    BY <1>0, <2>6 DEF Kept, Reserve, Goto
  <2> QED
    BY <1>0, <2>1, <2>2, <2>3, <2>4, <2>5, <2>6
<1> QED
  BY <1>1, <1>3, <1>4, ChannelSame

LEMMA CopyInto ==
  ASSUME NEW w, NEW r, OneEach(w, r), IInv(w, r), IInv(w, r)', Copy(w)
  PROVE  UNCHANGED Fifo!fifoVars
<1>0. /\ w # r /\ w \in Writers /\ w \in Threads /\ r \in Threads
  BY Places
<1>1. /\ pc[w] = "copy" /\ pc' = [pc EXCEPT ![w] = "post"]
      /\ ring' = [ring EXCEPT ![slot[w]] = item[w]]
      /\ UNCHANGED <<rd, sems, slot, item>>
  BY <1>0 DEF Copy, Goto
<1>2. First(r)' = First(r) /\ Kept(r)' = Kept(r)
  BY <1>0, <1>1 DEF First, Kept, IInv, TypeOK
<1>3. slot[w] = Wrap(First(r) + Kept(r)) /\ Kept(r) < ItemNum
  BY <1>1, WritersSlot
<1>4. \A i \in 1 .. Kept(r) : Wrap(First(r) + i - 1) # slot[w]
  BY <1>3, ChannelTypes DEF Wrap
<1>5. \A i \in 1 .. Kept(r) :
        ring'[Wrap(First(r) + i - 1)] = ring[Wrap(First(r) + i - 1)]
  BY <1>1, <1>4, ChannelTypes DEF IInv, TypeOK, Slots, Wrap
<1> QED
  BY <1>1, <1>2, <1>5, ChannelSame

LEMMA PostPuts ==
  ASSUME NEW w, NEW r, OneEach(w, r), IInv(w, r), IInv(w, r)', Carried(w), Post(w)
  PROVE  Fifo!Put
<1>0. /\ w # r /\ w \in Writers /\ Other(w) = "used"
      /\ w \in Threads /\ r \in Threads /\ Gate(r) = "used"
  BY Places
<1>1. PICK z \in Posted(sems["used"], SemaMax) : sems' = [sems EXCEPT !["used"] = z]
  BY <1>0 DEF Post
<1>2. /\ pc[w] = "post" /\ pc' = [pc EXCEPT ![w] = "idle"]
      /\ UNCHANGED <<ring, rd, slot, item>>
  BY DEF Post, Goto
<1>3. sems'["used"].count = sems["used"].count + 1
  <2>1. sems["used"] \in Semaphores(Threads) /\ sems["used"].count # SemaMax
    BY ChannelTypes DEF IInv, TypeOK, Conserved, Held, SemaMax
  <2>2. SemaMax \in Nat
    BY ChannelTypes DEF SemaMax
  <2>3. z.count = sems["used"].count + 1
    BY <2>1, <2>2, PostedType, ChannelTypes
  <2> QED
    BY <1>1, <2>3 DEF IInv, TypeOK
<1>4. First(r)' = First(r) /\ Kept(r)' = Kept(r) + 1
  BY <1>0, <1>2, <1>3, ChannelTypes DEF First, Kept, IInv, TypeOK
<1>5. slot[w] = Wrap(First(r) + Kept(r)) /\ Kept(r) < ItemNum
  BY <1>2, WritersSlot
<1>6. /\ Contents = [i \in 1 .. Kept(r) |-> ring[Wrap(First(r) + i - 1)]]
      /\ Contents' = [i \in 1 .. Kept(r) + 1 |-> ring[Wrap(First(r) + i - 1)]]
  <2>1. (OneEach(w, r))'
    BY DEF OneEach
  <2>2. Contents' = [i \in 1 .. Kept(r)' |-> ring'[Wrap(First(r)' + i - 1)]]
    BY <2>1, ContentsAreNext DEF Wrap
  <2> QED
    BY <1>2, <1>4, <2>2, ContentsAre
<1>7. Kept(r) \in Nat /\ First(r) \in Nat
  BY ChannelTypes
<1>8. Len(Contents) = Kept(r)
  BY <1>6, <1>7
<1>9. Contents' = Append(Contents, ring[slot[w]])
  <2> DEFINE V == Items \cup {NoItem}
             n == Kept(r)
             v == ring[slot[w]]
  <2>1. Contents \in Seq(V) /\ Contents' \in Seq(V) /\ v \in V
    <3>1. (OneEach(w, r))'
      BY DEF OneEach
    <3>2. v \in V
      BY ChannelTypes DEF IInv, TypeOK, Slots
    <3> QED
      BY <3>1, <3>2, ContentsSeq, ContentsAreNext
  <2>2. /\ Append(Contents, v) \in Seq(V) /\ Len(Append(Contents, v)) = n + 1
        /\ \A i \in 1 .. n : Append(Contents, v)[i] = Contents[i]
        /\ Append(Contents, v)[n + 1] = v
    BY <1>8, <2>1, AppendProperties
  <2>3. /\ Len(Contents') = n + 1 /\ Contents'[n + 1] = v
        /\ \A i \in 1 .. n : Contents'[i] = Contents[i]
    BY <1>5, <1>6, <1>7
  <2>4. \A i \in 1 .. n + 1 : Contents'[i] = Append(Contents, v)[i]
    BY <1>7, <2>2, <2>3
  <2> HIDE DEF V, n, v
  <2> QED
    BY <2>1, <2>2, <2>3, <2>4, SeqEqual DEF v
<1>10. ring[slot[w]] \in Items
  BY <1>2 DEF Carried
<1>11. Got' = Got
  BY <1>2 DEF Got
<1> QED
  BY <1>5, <1>8, <1>9, <1>10, <1>11 DEF Fifo!Put, Got

LEMMA CopyGets ==
  ASSUME NEW w, NEW r, OneEach(w, r), IInv(w, r), IInv(w, r)', Copy(r)
  PROVE  Fifo!Get(r)
<1>0. r \notin Writers /\ r \in Threads /\ r \in Readers
  BY Places DEF OneEach
<1>1. /\ pc[r] = "copy" /\ pc' = [pc EXCEPT ![r] = "post"]
      /\ item' = [item EXCEPT ![r] = ring[slot[r]]]
      /\ UNCHANGED <<ring, rd, sems, slot>>
  BY <1>0 DEF Copy, Goto
<1>2. First(r) = slot[r] /\ First(r)' = Advance(First(r)) /\ Kept(r)' = Kept(r) - 1
      /\ Kept(r) \in 1 .. ItemNum /\ First(r) \in 0 .. ItemNum - 1
  BY <1>0, <1>1, ChannelTypes DEF First, Kept, IInv, TypeOK, Pointers
<1>3. /\ Contents = [i \in 1 .. Kept(r) |-> ring[Wrap(First(r) + i - 1)]]
      /\ Contents' = [i \in 1 .. Kept(r) - 1 |-> ring[Wrap(Advance(First(r)) + i - 1)]]
  <2>1. (OneEach(w, r))'
    BY DEF OneEach
  <2>2. Contents' = [i \in 1 .. Kept(r)' |-> ring'[Wrap(First(r)' + i - 1)]]
    BY <2>1, ContentsAreNext DEF Wrap
  <2> QED
    BY <1>1, <1>2, <2>2, ContentsAre
<1>4. \A i \in 1 .. Kept(r) - 1 :
        Wrap(Advance(First(r)) + i - 1) = Wrap(First(r) + i)
  BY <1>2, ChannelTypes DEF Wrap, Advance
<1>5. Contents' = Tail(Contents)
  <2> DEFINE V == Items \cup {NoItem}
  <2>1. Contents \in Seq(V) /\ Contents' \in Seq(V)
    <3>1. (OneEach(w, r))'
      BY DEF OneEach
    <3> QED
      BY <3>1, ContentsSeq, ContentsAreNext
  <2>2. /\ Len(Contents) = Kept(r) /\ Contents # <<>> /\ Kept(r) \in Nat
        /\ Len(Contents') = Kept(r) - 1
    BY <1>2, <1>3, ChannelTypes
  <2>3. \A i \in 1 .. Kept(r) - 1 : Contents'[i] = Contents[i + 1]
    BY <1>2, <1>3, <1>4, <2>2
  <2> HIDE DEF V
  <2>4. /\ Tail(Contents) \in Seq(V) /\ Len(Tail(Contents)) = Kept(r) - 1
        /\ \A i \in 1 .. Kept(r) - 1 : Tail(Contents)[i] = Contents[i + 1]
    BY <2>1, <2>2, HeadTailProperties
  <2> QED
    BY <2>1, <2>2, <2>3, <2>4, SeqEqual
<1>6. Contents # <<>> /\ Head(Contents) = ring[slot[r]]
  BY <1>2, <1>3, ChannelTypes DEF Wrap
<1>7. Got' = [Got EXCEPT ![r] = Head(Contents)]
  BY <1>0, <1>1, <1>6, Places DEF Got, IInv, TypeOK, Threads
<1> QED
  BY <1>5, <1>6, <1>7 DEF Fifo!Get, Got

LEMMA ReaderPosts ==
  ASSUME NEW w, NEW r, OneEach(w, r), IInv(w, r), IInv(w, r)', Post(r)
  PROVE  UNCHANGED Fifo!fifoVars
<1>0. r \in Threads /\ Other(r) = "free"
  BY Places
<1>1. /\ pc[r] = "post" /\ pc' = [pc EXCEPT ![r] = "idle"]
      /\ UNCHANGED <<ring, rd, slot, item>> /\ sems'["used"] = sems["used"]
  BY <1>0 DEF Post, Goto, IInv, TypeOK
<1> QED
  BY <1>0, <1>1, ChannelSame DEF First, Kept, IInv, TypeOK

(***************************************************************************)
(* For every queue size, with one writer and one reader, the ring buffer   *)
(* implements the channel's safety part: what is read is what was written, *)
(* in that order, nothing lost, repeated or invented, and never more items *)
(* than there are slots, through every timeout and failed try.             *)
(***************************************************************************)
THEOREM ChannelInOrder ==
  ASSUME NEW w, NEW r, OneEach(w, r)
  PROVE  Spec => Fifo!FifoInit /\ [][Fifo!FifoNext]_(Fifo!fifoVars)
<1>1. osQueueInit => IInv(w, r) /\ Carried(w)
  BY InitHolds, Places DEF Carried, osQueueInit
<1>2. IInv(w, r) /\ Carried(w) /\ [Next]_vars => IInv(w, r)' /\ Carried(w)'
  BY Inductive, CarriedStep
<1>3. osQueueInit => Fifo!FifoInit
  <2> SUFFICES ASSUME osQueueInit PROVE Fifo!FifoInit
    OBVIOUS
  <2>1. IInv(w, r)
    BY <1>1
  <2>2. Kept(r) = 0
    BY Places DEF osQueueInit, Kept, InitialPermits, osSemaphoreInit
  <2>3. Contents = <<>>
    BY <2>1, <2>2, ContentsAre
  <2> QED
    BY <2>3, Places DEF Fifo!FifoInit, osQueueInit, OneEach
<1>4. /\ IInv(w, r) /\ Carried(w) /\ IInv(w, r)' /\ [Next]_vars
      => [Fifo!FifoNext]_(Fifo!fifoVars)
  <2> SUFFICES ASSUME IInv(w, r), Carried(w), IInv(w, r)', [Next]_vars
               PROVE  [Fifo!FifoNext]_(Fifo!fifoVars)
    OBVIOUS
  <2>0. Threads = {w, r} /\ w # r /\ w \in Writers /\ r \notin Writers /\ r \in Readers
    BY Places DEF OneEach
  <2>1. ASSUME NEW t \in Threads, NEW mode \in Modes, Write(t, mode) \/ Read(t, mode)
        PROVE  UNCHANGED Fifo!fifoVars
    <3>1. PassGate(t, mode) /\ (t # w => item' = item) /\ item'[r] = item[r]
      BY <2>0, <2>1, QueueAssumption DEF Write, Read, OneEach, IInv, TypeOK
    <3> QED
      BY <3>1, CallStep
  <2>2. ASSUME NEW t \in Threads, TimeUp(t) \/ Wake(t) \/ TimeOut(t) \/ Reserve(t)
        PROVE  UNCHANGED Fifo!fifoVars
    <3>1. item' = item
      BY <2>2 DEF TimeUp, Wake, TimeOut, Reserve
    <3> QED
      BY <2>2, <3>1, CallStep
  <2>3. ASSUME NEW t \in Threads, Copy(t) \/ Post(t)
        PROVE  [Fifo!FifoNext]_(Fifo!fifoVars)
    BY <2>0, <2>3, CopyInto, PostPuts, CopyGets, ReaderPosts DEF Fifo!FifoNext
  <2>4. CASE UNCHANGED vars
    BY <2>4, ChannelSame DEF vars, Kept, First
  <2> QED
    BY <2>1, <2>2, <2>3, <2>4
    DEF Next, Proceed, Modes, osQueueWrite, osQueueTimedWrite, osQueueTryWrite,
        osQueueRead, osQueueTimedRead, osQueueTryRead
<1> QED
  BY <1>1, <1>2, <1>3, <1>4, PTL DEF Spec
===========================================================================
