---------------------------- MODULE OsEventOps ----------------------------
(***************************************************************************)
(* The user-mode Linux event of the OS layer as operators on a value: a    *)
(* flag, a pthread mutex and a condition variable.                         *)
(*    state    the flag                                                    *)
(*    blocked  the threads asleep in pthread_cond_(timed)wait              *)
(*    woken    the threads a signal or broadcast has taken out of the wait *)
(*             and that have not yet reacquired the mutex                  *)
(***************************************************************************)
EXTENDS Integers

Events(T) == [state : BOOLEAN, blocked : SUBSET T, woken : SUBSET T]

osEventInit(init) == [state |-> init, blocked |-> {}, woken |-> {}]

WakeAll(e) == [state |-> e.state,
               blocked |-> {},
               woken |-> e.woken \cup e.blocked]

WakeOne(e) == IF e.blocked = {} THEN {e}
              ELSE {[state |-> e.state,
                     blocked |-> e.blocked \ {t},
                     woken |-> e.woken \cup {t}] : t \in e.blocked}

\* Faulty variant for the checks: one waiter of an automatic event is woken.
RousedOne(e, automatic) == WakeOne(e)

\* An automatic event wakes all its waiters, another one of them.
Roused(e, automatic) == IF automatic THEN {WakeAll(e)} ELSE WakeOne(e)

SetState(e, b) == [state |-> b, blocked |-> e.blocked, woken |-> e.woken]

\* A signal that finds the flag set does nothing.
Signalled(e, automatic) ==
  IF e.state THEN {e} ELSE Roused(SetState(e, TRUE), automatic)

Pulsed(e, automatic) == {SetState(r, FALSE) : r \in Roused(e, automatic)}

Asleep(e, t) == [e EXCEPT !.blocked = @ \cup {t}]

\* A timed wait that expires waits for the mutex only.
Lapsed(e, t) == [e EXCEPT !.blocked = @ \ {t}]

\* A wait returns, whatever the flag is; an automatic event is reset by it.
Returned(e, t, automatic) ==
  [state |-> IF automatic THEN FALSE ELSE e.state,
   blocked |-> e.blocked,
   woken |-> e.woken \ {t}]
=============================================================================
