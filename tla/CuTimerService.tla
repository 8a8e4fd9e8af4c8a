---------------------------- MODULE CuTimerService ----------------------------
(***************************************************************************)
(* The timer service of the cumbia engine, as its clients (the CuThread    *)
(* objects) see it: one single-shot CuTimer per timeout, shared by every   *)
(* thread that needs that timeout.  A CuTimer is named by its address, and *)
(* the address of a deleted timer may be given to a new one.               *)
(*                                                                         *)
(* The module holds the state of the service and the effect of each of its *)
(* operations as a function from one map of timers to the next, so that a  *)
(* caller can apply several of them in one step.  CuThread uses them; the  *)
(* protocol inside one timer (lock, condition variable, counters) is the   *)
(* subject of module CuTimer.                                              *)
(***************************************************************************)
EXTENDS Naturals

CONSTANTS Threads,   \* the CuThread objects: the timer listeners
          Timers,    \* the addresses a CuTimer may have
          Periods,   \* the timeouts in use, in milliseconds
          NoTimer    \* "no entry" in a map whose values are timers

ASSUME PeriodsAssumption == Periods \subseteq Nat \ {0}
ASSUME NoTimerAssumption == NoTimer \notin Timers

VARIABLES
  timer,    \* the CuTimer at each address; timeout 0 when there is none
  adding    \* adding[t]: the timer t found pending inside registerListener and
            \* has not joined yet; while it is set, t holds the service's mutex

tsvars == <<timer, adding>>

Timer == [timeout : Periods \union {0}, lis : SUBSET Threads, pending : BOOLEAN]

Unallocated == [timeout |-> 0, lis |-> {}, pending |-> FALSE]

TimersTypeOK == /\ timer \in [Timers -> Timer]
                /\ adding \in [Threads -> Timers \union {NoTimer}]

TimersInit == /\ timer = [tm \in Timers |-> Unallocated]
              /\ adding = [t \in Threads |-> NoTimer]

Live(tm) == timer[tm].timeout # 0

\* CuTimerServicePrivate::shmu
ServiceUnlocked == \A t \in Threads : adding[t] = NoTimer

(***************************************************************************)
(* registerListener finds the timer of the timeout or allocates one, calls *)
(* start() and then addListener().  start() arms a timer that is not       *)
(* pending, for a full timeout: it does not elapse before the listener is  *)
(* added.  A timer that is pending is left alone by start(), and may       *)
(* expire before the listener is added: that is a step of its own.         *)
(***************************************************************************)
TimersFor(f, p) ==
  LET known == {tm \in Timers : f[tm].timeout = p}
  IN  IF known # {} THEN known ELSE {tm \in Timers : f[tm].timeout = 0}

Started(f, t, tm, p) ==
  IF f[tm].pending
    THEN f
    ELSE [f EXCEPT ![tm] = [timeout |-> p, lis |-> @.lis \union {t}, pending |-> TRUE]]

\* addListener on a timer start() found pending
AddListener(t) ==
  /\ adding[t] # NoTimer
  /\ timer' = [timer EXCEPT ![adding[t]].lis = @ \union {t}]
  /\ adding' = [adding EXCEPT ![t] = NoTimer]

\* the timer is deleted although other threads use it
BugDeletedInUse(f, t, tm) == [f EXCEPT ![tm] = Unallocated]

(***************************************************************************)
(* unregisterListener: the last listener to leave stops, joins and deletes *)
(* the timer.                                                              *)
(***************************************************************************)
Left(f, t, tm) ==
  LET others == f[tm].lis \ {t}
  IN  [f EXCEPT ![tm] = IF others = {} THEN Unallocated
                                       ELSE [f[tm] EXCEPT !.lis = others]]

\* a thread that shares the timer leaves it to the others to restart it
BugLeftToOthers(f, tm) == [f EXCEPT ![tm].pending = \A t, u \in f[tm].lis : t = u]

\* restart: re-arm the timer; one that is pending already is rescheduled.
Restarted(f, tm) == [f EXCEPT ![tm].pending = TRUE]

\* The timeout elapsed: the listeners are told, and the timer waits for the
\* next start or restart.
Expired(f, tm) == [f EXCEPT ![tm].pending = FALSE]
===============================================================================
