----------------------------- MODULE OsThread -----------------------------
(***************************************************************************)
(* osThread (units/oslayer, Linux user mode): a thread, the automatic      *)
(* event it signals when its function has returned, and the threads that   *)
(* wait for it.  osThreadClose is osThreadWait and the destruction of the  *)
(* event and the mutex.                                                    *)
(***************************************************************************)
EXTENDS OsEventOps, FiniteSets

CONSTANT Joiners  \* threads that call osThreadWait and osThreadClose

NoHolder == "none"

ASSUME ThreadAssumption == IsFiniteSet(Joiners) /\ NoHolder \notin Joiners

VARIABLES
  created,    \* does the object exist, between osThreadCreate and Close?
  thread,     \* the thread: "none", "runs", "signals" its end, "ends", "done"
  exit_event,
  handle,     \* is `handle' non-zero?
  wait_count,
  access_mut, \* the joiner that holds access_mut across a blocking call
  pc,         \* pc[j]: where j is in its call, or "idle"
  closing     \* the joiners whose call is osThreadClose

vars == <<created, thread, exit_event, handle, wait_count, access_mut, pc, closing>>

TypeOK ==
  /\ created \in BOOLEAN
  /\ thread \in {"none", "runs", "signals", "ends", "done"}
  /\ exit_event \in Events(Joiners)
  /\ handle \in BOOLEAN
  /\ wait_count \in 0 .. Cardinality(Joiners)
  /\ access_mut \in Joiners \cup {NoHolder}
  /\ pc \in [Joiners -> {"idle", "enter", "wait", "count", "join", "close"}]
  /\ closing \subseteq Joiners

Init ==
  /\ created = FALSE
  /\ thread = "none"
  /\ exit_event = osEventInit(FALSE)
  /\ handle = FALSE
  /\ wait_count = 0
  /\ access_mut = NoHolder
  /\ pc = [j \in Joiners |-> "idle"]
  /\ closing = {}

Goto(j, l) == pc' = [pc EXCEPT ![j] = l]

\* The callers clear the object first, so that wait_count starts at zero.
osThreadCreate ==
  /\ ~created /\ thread \in {"none", "done"}
  /\ \A j \in Joiners : pc[j] = "idle"
  /\ created' = TRUE /\ thread' = "runs" /\ handle' = TRUE
  /\ exit_event' = osEventInit(FALSE) /\ wait_count' = 0
  /\ UNCHANGED <<access_mut, pc, closing>>

\* osThreadProc: the thread function returns, and the end is signalled.
ThreadReturns ==
  /\ thread = "runs"
  /\ thread' = "signals"
  /\ UNCHANGED <<created, exit_event, handle, wait_count, access_mut, pc, closing>>

ThreadSignals ==
  /\ thread = "signals"
  /\ thread' = "ends"
  /\ exit_event' \in Signalled(exit_event, TRUE)
  /\ UNCHANGED <<created, handle, wait_count, access_mut, pc, closing>>

\* A waiter may run before the thread is out of osEventSignal.
ThreadEnds ==
  /\ thread = "ends"
  /\ thread' = "done"
  /\ UNCHANGED <<created, exit_event, handle, wait_count, access_mut, pc, closing>>

Call(j) ==
  /\ created /\ pc[j] = "idle" /\ closing = {}
  /\ Goto(j, "enter")
  /\ UNCHANGED <<created, thread, exit_event, handle, wait_count, access_mut>>

osThreadWait(j) == Call(j) /\ UNCHANGED closing

\* The last user closes: nobody is inside then, and nobody calls afterwards.
osThreadClose(j) ==
  /\ Call(j)
  /\ \A k \in Joiners : pc[k] = "idle"
  /\ closing' = closing \cup {j}

After(j) == IF j \in closing THEN "close" ELSE "idle"

\* The first section of access_mut.
CountIn(j) ==
  /\ pc[j] = "enter" /\ access_mut = NoHolder
  /\ IF handle
     THEN wait_count' = wait_count + 1 /\ Goto(j, "wait")
     ELSE Goto(j, After(j)) /\ UNCHANGED wait_count
  /\ UNCHANGED <<created, thread, exit_event, handle, access_mut, closing>>

\* osEventWait(&pThread->exit_event), up to its return or its sleep.
Wait(j) ==
  /\ pc[j] = "wait" /\ j \notin exit_event.blocked \cup exit_event.woken
  /\ IF exit_event.state
     THEN exit_event' = Returned(exit_event, j, TRUE) /\ Goto(j, "count")
     ELSE exit_event' = Asleep(exit_event, j) /\ UNCHANGED pc
  /\ UNCHANGED <<created, thread, handle, wait_count, access_mut, closing>>

Wake(j) ==
  /\ j \in exit_event.woken
  /\ exit_event' = Returned(exit_event, j, TRUE)
  /\ Goto(j, "count")
  /\ UNCHANGED <<created, thread, handle, wait_count, access_mut, closing>>

\* Faulty variant for the checks: every waiter joins, not only the last one.
CountOutJoins(j) ==
  /\ pc[j] = "count" /\ access_mut = NoHolder
  /\ wait_count' = wait_count - 1
  /\ Goto(j, "join") /\ access_mut' = j
  /\ UNCHANGED <<created, thread, exit_event, handle, closing>>

\* The second section of access_mut: the last waiter joins the thread.
CountOut(j) ==
  /\ pc[j] = "count" /\ access_mut = NoHolder
  /\ wait_count' = wait_count - 1
  /\ IF wait_count' = 0
     THEN Goto(j, "join") /\ access_mut' = j
     ELSE Goto(j, After(j)) /\ UNCHANGED access_mut
  /\ UNCHANGED <<created, thread, exit_event, handle, closing>>

\* Faulty variant for the checks: the thread is not waited for.
JoinEarly(j) ==
  /\ pc[j] = "join"
  /\ handle' = FALSE
  /\ access_mut' = NoHolder
  /\ Goto(j, After(j))
  /\ UNCHANGED <<created, thread, exit_event, wait_count, closing>>

Join(j) ==
  /\ pc[j] = "join" /\ thread = "done"
  /\ handle' = FALSE
  /\ access_mut' = NoHolder
  /\ Goto(j, After(j))
  /\ UNCHANGED <<created, thread, exit_event, wait_count, closing>>

\* osEventDestroy and osMutexDestroy.
Destroy(j) ==
  /\ pc[j] = "close"
  /\ created' = FALSE
  /\ closing' = closing \ {j}
  /\ Goto(j, "idle")
  /\ UNCHANGED <<thread, exit_event, handle, wait_count, access_mut>>

Proceed(j) ==
  CountIn(j) \/ Wait(j) \/ Wake(j) \/ CountOut(j) \/ Join(j) \/ Destroy(j)

Next ==
  \/ osThreadCreate \/ ThreadReturns \/ ThreadSignals \/ ThreadEnds
  \/ \E j \in Joiners : osThreadWait(j) \/ osThreadClose(j) \/ Proceed(j)

Spec == Init /\ [][Next]_vars

(***************************************************************************)
(* The thread is joined once: whoever is the last waiter finds the handle  *)
(* still there, however late others come and find it gone.                 *)
(***************************************************************************)
NoDoubleJoin == \A j \in Joiners : pc[j] = "join" => handle

(***************************************************************************)
(* wait_count is the number of threads between the two sections of         *)
(* access_mut, so that exactly the last of them joins.                     *)
(***************************************************************************)
WaitCountExact == wait_count = Cardinality({j \in Joiners : pc[j] \in {"wait", "count"}})

(***************************************************************************)
(* The event and the mutex are destroyed when the thread is past its last  *)
(* use of them, and nobody else is inside osThreadWait.                    *)
(***************************************************************************)
DestroyedUnused ==
  ~created => /\ thread \in {"none", "done"}
              /\ exit_event.blocked \cup exit_event.woken = {}
              /\ \A j \in Joiners : pc[j] = "idle"
=============================================================================
