---------------------------- MODULE OsSemaphore ----------------------------
(***************************************************************************)
(* osSemaphore (units/oslayer, Linux user mode) used by a set of threads   *)
(* that take from it and by posters, whose identity does not matter since  *)
(* a post is one critical section.                                         *)
(***************************************************************************)
EXTENDS OsSemaphoreOps

CONSTANTS Takers,     \* threads that call Wait, TimedWait and TryWait
          InitCount,  \* init_count of osSemaphoreInit
          MaxCount    \* 0x7fffffff in the code

ASSUME CountAssumption == /\ InitCount \in Nat
                          /\ MaxCount \in Nat \ {0}
                          /\ InitCount <= MaxCount

VARIABLES sem,   \* the semaphore
          taker,    \* taker[t]: the call t is blocked in, or "idle"
          ret    \* ret[t]: what t's last completed call returned

semaphoreVars == <<sem, taker, ret>>

Results == {"NONE", "OK", "TIMEOUT"}
Calls == {"idle", "wait", "timedwait", "lapsed"}

SemaphoreTypeOK ==
  /\ sem \in Semaphores(Takers)
  /\ sem.count <= MaxCount
  /\ taker \in [Takers -> Calls]
  /\ ret \in [Takers -> Results]

SemaphoreInit ==
  /\ sem = osSemaphoreInit(InitCount)
  /\ taker = [t \in Takers |-> "idle"]
  /\ ret = [t \in Takers |-> "NONE"]

Return(t, r) ==
  /\ taker' = [taker EXCEPT ![t] = "idle"]
  /\ ret' = [ret EXCEPT ![t] = r]

\* osSemaphoreWait or osSemaphoreTimedWait up to its first return or sleep.
Enter(t, call) ==
  /\ taker[t] = "idle"
  /\ IF MustSleep(sem)
     THEN /\ sem' = Sleep(sem, t)
          /\ taker' = [taker EXCEPT ![t] = call]
          /\ UNCHANGED ret
     ELSE /\ sem' = Take(sem)
          /\ Return(t, "OK")

osSemaphoreWait(t) == Enter(t, "wait")
osSemaphoreTimedWait(t) == Enter(t, "timedwait")

\* pthread_cond_(timed)wait returns 0 to a signalled thread.
SemaphoreWake(t) ==
  /\ t \in sem.signalled
  /\ sem' = Resume(sem, t)
  /\ Return(t, "OK")

\* The time of a thread nobody signalled is up: it waits for the mutex only.
SemaphoreTimeUp(t) ==
  /\ taker[t] = "timedwait"
  /\ t \in sem.blocked
  /\ sem' = Lapse(sem, t)
  /\ taker' = [taker EXCEPT ![t] = "lapsed"]
  /\ UNCHANGED ret

\* pthread_cond_timedwait returns ETIMEDOUT.
SemaphoreTimeOut(t) ==
  /\ taker[t] = "lapsed"
  /\ sem' = Expire(sem)
  /\ Return(t, IF ExpireTakes(sem) THEN "OK" ELSE "TIMEOUT")

osSemaphoreTryWait(t) ==
  /\ taker[t] = "idle"
  /\ sem' = IF MustSleep(sem) THEN sem ELSE Take(sem)
  /\ Return(t, IF MustSleep(sem) THEN "TIMEOUT" ELSE "OK")

osSemaphorePost ==
  /\ sem' \in Posted(sem, MaxCount)
  /\ UNCHANGED <<taker, ret>>

SemaphoreNext ==
  \/ osSemaphorePost
  \/ \E t \in Takers :
       \/ osSemaphoreWait(t)
       \/ osSemaphoreTimedWait(t)
       \/ SemaphoreWake(t)
       \/ SemaphoreTimeUp(t)
       \/ SemaphoreTimeOut(t)
       \/ osSemaphoreTryWait(t)

SemaphoreSpec == SemaphoreInit /\ [][SemaphoreNext]_semaphoreVars

(***************************************************************************)
(* A semaphore never hands out more permits than were posted: the counter  *)
(* of oslayer_linux.c never goes below zero, whatever the order of wakeups *)
(* and later calls.                                                        *)
(***************************************************************************)
NoOverdraw == sem.count >= 0

(***************************************************************************)
(* No wakeup is lost: while a thread sleeps in the wait and a permit is    *)
(* available, some thread has been signalled and is on its way to take it. *)
(***************************************************************************)
NoLostWakeup ==
  sem.blocked # {} /\ sem.count > 0 => sem.signalled # {}

(***************************************************************************)
(* The threads asleep or signalled are exactly those in pthread_cond_wait. *)
(***************************************************************************)
WaitersMatch ==
  /\ sem.blocked \cap sem.signalled = {}
  /\ \A t \in Takers :
       taker[t] \in {"wait", "timedwait"} <=> t \in sem.blocked \cup sem.signalled

(***************************************************************************)
(* With one taking thread the counter and the sleeper are in step: it      *)
(* sleeps only at zero, and a signal always leaves a permit behind.        *)
(***************************************************************************)
InStep ==
  /\ sem.blocked # {} => sem.count = 0
  /\ sem.signalled # {} => sem.count > 0
=============================================================================
