--------------------------- MODULE OsSemaphoreOps ---------------------------
(***************************************************************************)
(* The user-mode Linux semaphore of the OS layer as operators on a value.  *)
(*                                                                         *)
(* An osSemaphore is a counter, a pthread mutex and a condition variable.  *)
(* Every function is one critical section of the mutex, except that a      *)
(* waiter releases it inside pthread_cond_wait: a wait that finds the      *)
(* counter at zero is therefore two atomic steps, going to sleep and, once *)
(* signalled, returning.  The value of a semaphore is                      *)
(*    count      the counter                                               *)
(*    blocked    the threads asleep in pthread_cond_(timed)wait            *)
(*    signalled  the threads pthread_cond_signal has taken out of the wait *)
(*               and that have not yet reacquired the mutex                *)
(***************************************************************************)
EXTENDS Integers

Semaphores(T) == [count : Int, blocked : SUBSET T, signalled : SUBSET T]

osSemaphoreInit(n) == [count |-> n, blocked |-> {}, signalled |-> {}]

\* Faulty variant for the checks: a wait that never goes to sleep.
MustSleepNever(s) == s.count < 0

\* The guard that sends a waiter to sleep: the test is for equality with zero.
MustSleep(s) == s.count = 0

Take(s) == [s EXCEPT !.count = @ - 1]

Sleep(s, t) == [s EXCEPT !.blocked = @ \cup {t}]

(***************************************************************************)
(* A signalled waiter reacquires the mutex and decrements the counter: the *)
(* condition is tested by an `if' before the wait and never again after it *)
(***************************************************************************)
Resume(s, t) == [count |-> s.count - 1,
                 blocked |-> s.blocked,
                 signalled |-> s.signalled \ {t}]

(***************************************************************************)
(* A timed wait that expires leaves the condition's queue, and looks at    *)
(* the counter once more when it has the mutex again: by then a post may   *)
(* have come, and any non-zero counter is taken.                           *)
(***************************************************************************)
Lapse(s, t) == [s EXCEPT !.blocked = @ \ {t}]

ExpireTakes(s) == s.count # 0

Expire(s) == IF ExpireTakes(s) THEN Take(s) ELSE s

(***************************************************************************)
(* The values osSemaphorePost may leave: the waiter that is woken is the   *)
(* implementation's choice, and only the post that finds the counter at    *)
(* zero signals.  At the int32 limit `max' the post is refused.            *)
(***************************************************************************)
\* Faulty variants for the checks: a post that signals one permit late, and a
\* limit test that a count at the limit passes.
SignalsLate(s) == s.count = 1 /\ s.blocked # {}
PostFailsLate(s, max) == s.count = max + 1

PostFails(s, max) == s.count = max

Signals(s) == s.count = 0 /\ s.blocked # {}

Posted(s, max) ==
  IF PostFails(s, max) THEN {s}
  ELSE IF Signals(s)
       THEN {[count |-> s.count + 1,
              blocked |-> s.blocked \ {t},
              signalled |-> s.signalled \cup {t}] : t \in s.blocked}
       ELSE {[s EXCEPT !.count = @ + 1]}
=============================================================================
