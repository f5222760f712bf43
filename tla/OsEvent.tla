------------------------------ MODULE OsEvent ------------------------------
(***************************************************************************)
(* osEvent (units/oslayer, Linux user mode) with threads that wait for it  *)
(* and callbacks that signal it: how cam_device turns the asynchronous     *)
(* completions of the controllers into blocking calls.                     *)
(***************************************************************************)
EXTENDS OsEventOps

CONSTANTS Waiters, Automatic, InitState

ASSUME EventAssumption == Automatic \in BOOLEAN /\ InitState \in BOOLEAN

VARIABLES ev,     \* the event
          waiter,     \* waiter[t]: where t is in its call, or "idle"
          ret,    \* ret[t]: what t's last completed call returned
          unseen  \* has the event been signalled since a wait last ended?

eventVars == <<ev, waiter, ret, unseen>>

EventTypeOK ==
  /\ ev \in Events(Waiters) /\ ev.blocked \cap ev.woken = {}
  /\ waiter \in [Waiters -> {"idle", "wait", "timed", "lapsed"}]
  /\ ret \in [Waiters -> {"NONE", "OK", "TIMEOUT"}]
  /\ unseen \in BOOLEAN

EventInit ==
  /\ ev = osEventInit(InitState)
  /\ waiter = [t \in Waiters |-> "idle"]
  /\ ret = [t \in Waiters |-> "NONE"]
  /\ unseen = FALSE

osEventSignal ==
  /\ ev' \in Signalled(ev, Automatic)
  /\ unseen' = TRUE
  /\ UNCHANGED <<waiter, ret>>

osEventReset ==
  /\ ev' = SetState(ev, FALSE)
  /\ unseen' = FALSE
  /\ UNCHANGED <<waiter, ret>>

\* A pulse is for the threads asleep at that moment only.
osEventPulse ==
  /\ ev' \in Pulsed(ev, Automatic)
  /\ unseen' = FALSE
  /\ UNCHANGED <<waiter, ret>>

Return(t, r) ==
  /\ ev' = Returned(ev, t, Automatic)
  /\ waiter' = [waiter EXCEPT ![t] = "idle"]
  /\ ret' = [ret EXCEPT ![t] = r]
  /\ unseen' = (unseen /\ r # "OK")

Enter(t, mode) ==
  /\ waiter[t] = "idle"
  /\ IF ev.state
     THEN Return(t, "OK")
     ELSE /\ ev' = Asleep(ev, t)
          /\ waiter' = [waiter EXCEPT ![t] = mode]
          /\ UNCHANGED <<ret, unseen>>

osEventWait(t) == Enter(t, "wait")
osEventTimedWait(t) == Enter(t, "timed")

\* pthread_cond_(timed)wait returns 0.
EventWake(t) == t \in ev.woken /\ Return(t, "OK")

TimeUp(t) ==
  /\ waiter[t] = "timed" /\ t \in ev.blocked
  /\ ev' = Lapsed(ev, t)
  /\ waiter' = [waiter EXCEPT ![t] = "lapsed"]
  /\ UNCHANGED <<ret, unseen>>

\* pthread_cond_timedwait returns ETIMEDOUT: the flag has the last word.
TimeOut(t) ==
  /\ waiter[t] = "lapsed"
  /\ Return(t, IF ev.state THEN "OK" ELSE "TIMEOUT")

EventNext ==
  \/ osEventSignal \/ osEventReset \/ osEventPulse
  \/ \E t \in Waiters :
       \/ osEventWait(t) \/ osEventTimedWait(t)
       \/ EventWake(t) \/ TimeUp(t) \/ TimeOut(t)

EventSpec == EventInit /\ [][EventNext]_eventVars

EventFairSpec == EventSpec /\ \A t \in Waiters : WF_eventVars(EventWake(t)) /\ WF_eventVars(TimeOut(t))

(***************************************************************************)
(* No signal is lost: until a wait has ended because of it, it is latched  *)
(* in the flag or a woken thread is on its way back with it.  It does not  *)
(* matter whether the signal or the wait comes first, nor that a timeout   *)
(* expires at the same moment.                                             *)
(***************************************************************************)
SignalLatched == unseen => ev.state \/ ev.woken # {}

(***************************************************************************)
(* No thread sleeps on while an automatic event is set.                    *)
(***************************************************************************)
NobodySleepsWhileSet == ev.state => ev.blocked = {}

(***************************************************************************)
(* A thread asleep when an automatic event is signalled returns, however   *)
(* many others the same signal woke and whoever resets the event first.    *)
(***************************************************************************)
SignalReleases ==
  \A t \in Waiters :
    [](ev.state /\ waiter[t] \in {"wait", "timed"} => <>(waiter[t] = "idle"))
=============================================================================
