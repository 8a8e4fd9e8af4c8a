-------------------------------- MODULE CuTimer --------------------------------
(***************************************************************************)
(* The protocol inside one shared timer: CuTimer, with the parts of        *)
(* CuTimerService that create and delete it.  The threads that use it are  *)
(* CuThread objects with periodic activities of the same period: each      *)
(* registers, handles the expiries it is told (module CuThread has the     *)
(* whole of that), restarts the timer, and leaves.                         *)
(*                                                                         *)
(* A block under CuTimer's m_mutex is one step: nobody sees its inside.    *)
(* What is not under the mutex is a step of its own: the fetch_add of      *)
(* start(), and the moments at which run() gives the mutex back in         *)
(* wait_for() and wait().  Timeouts have no length: wait_for() may return  *)
(* at any time.                                                            *)
(*                                                                         *)
(* The definitions whose names begin with Bug are plausible mistakes in    *)
(* the definition that follows them: nothing uses them.                    *)
(***************************************************************************)
EXTENDS Integers

CONSTANTS Threads, NoThread,
          MaxTold,        \* bound on the expiries a thread leaves unhandled
          MaxPending,     \* bound on the counter of start()
          SpuriousWakeup  \* whether a condition variable may wake by itself

ASSUME TimerAssumption ==
  /\ NoThread \notin Threads
  /\ MaxTold \in Nat \ {0} /\ MaxPending \in Nat \ {0}
  /\ SpuriousWakeup \in BOOLEAN

VARIABLES
  exists,   \* the CuTimer of this timeout is in ti_map
  shmu,     \* the thread that holds CuTimerService::shmu
  pending, skip, quit, \* CuTimerPrivate: m_pending, m_skip, m_quit
  lis,      \* m_lis_map
  run,      \* CuTimer::run: "none", "enter", "waitfor", "firing", "idle", "ended"
  notified, \* m_wait was notified while run() was waiting in it
  user,     \* a thread: "out", "start", "add", "in", "stop", "join"
  inbox     \* a thread: its TimerExpired events of this timer

vars == <<exists, shmu, pending, skip, quit, lis, run, notified, user, inbox>>

RunStates == {"none", "enter", "waitfor", "firing", "idle", "ended"}
UserStates == {"out", "start", "add", "in", "stop", "join"}

TypeOK ==
  /\ exists \in BOOLEAN /\ skip \in BOOLEAN /\ quit \in BOOLEAN
  /\ notified \in BOOLEAN
  /\ shmu \in Threads \union {NoThread}
  /\ pending \in Nat
  /\ lis \subseteq Threads
  /\ run \in RunStates
  /\ user \in [Threads -> UserStates]
  /\ inbox \in [Threads -> Nat]

Init ==
  /\ exists = FALSE /\ shmu = NoThread
  /\ pending = 0 /\ skip = FALSE /\ quit = FALSE /\ notified = FALSE
  /\ lis = {} /\ run = "none"
  /\ user = [t \in Threads |-> "out"]
  /\ inbox = [t \in Threads |-> 0]

\* m_mutex: run() holds it from the end of a wait to the next wait
Unlocked == run # "firing"

Goto(t, u) == user' = [user EXCEPT ![t] = u]

BugNoNotify == UNCHANGED notified

\* notify_one wakes run() only if it is waiting
Notify == notified' = (run \in {"waitfor", "idle"})

-------------------------------------------------------------------------------
BugNoLock == TRUE

ServiceUnlocked == shmu = NoThread

(***************************************************************************)
(* registerListener: under shmu, start() and then addListener().           *)
(***************************************************************************)
\* a timer that does not exist is created; then m_pending.fetch_add(1)
RegisterListener(t) ==
  /\ user[t] = "out" /\ ServiceUnlocked
  /\ pending < MaxPending
  /\ shmu' = t
  /\ exists' = TRUE
  /\ pending' = pending + 1
  /\ Goto(t, IF pending = 0 THEN "start" ELSE "add")
  /\ UNCHANGED <<skip, quit, lis, run, notified, inbox>>

\* the timer was not pending: create the thread or wake it
StartLocked(t) ==
  /\ user[t] = "start" /\ Unlocked
  /\ quit' = FALSE /\ skip' = FALSE
  /\ run' = IF run = "none" THEN "enter" ELSE run
  /\ Notify
  /\ Goto(t, "add")
  /\ UNCHANGED <<exists, shmu, pending, lis, inbox>>

AddListener(t) ==
  /\ user[t] = "add" /\ Unlocked
  /\ lis' = lis \union {t}
  /\ shmu' = NoThread
  /\ Goto(t, "in")
  /\ UNCHANGED <<exists, pending, skip, quit, run, notified, inbox>>

(***************************************************************************)
(* unregisterListener: the last listener stops, joins and deletes the      *)
(* timer.                                                                  *)
(***************************************************************************)
UnregisterListener(t) ==
  /\ user[t] = "in" /\ ServiceUnlocked /\ Unlocked
  /\ lis' = lis \ {t}
  /\ IF lis' = {} THEN shmu' = t /\ Goto(t, "stop")
                  ELSE UNCHANGED shmu /\ Goto(t, "out")
  /\ UNCHANGED <<exists, pending, skip, quit, run, notified, inbox>>

Stop(t) ==
  /\ user[t] = "stop" /\ Unlocked
  /\ quit' = TRUE
  /\ Notify
  /\ Goto(t, "join")
  /\ UNCHANGED <<exists, shmu, pending, skip, lis, run, inbox>>

\* The timer thread has ended: the timer is deleted.  A later timer may have
\* its address, and then the expiries still queued are taken for its own.
JoinAndDelete(t) ==
  /\ user[t] = "join" /\ run = "ended"
  /\ exists' = FALSE /\ run' = "none"
  /\ pending' = 0 /\ skip' = FALSE /\ quit' = FALSE /\ notified' = FALSE
  /\ inbox' \in {inbox, [u \in Threads |-> 0]}
  /\ shmu' = NoThread
  /\ Goto(t, "out")
  /\ UNCHANGED lis

(***************************************************************************)
(* A thread handles an expiry.  restart() does not take shmu.              *)
(***************************************************************************)
Restart(t) ==
  /\ user[t] = "in" /\ inbox[t] > 0 /\ Unlocked
  /\ inbox' = [inbox EXCEPT ![t] = @ - 1]
  /\ quit' = FALSE
  /\ IF run = "none"
       THEN run' = "enter" /\ UNCHANGED <<skip, pending, notified>>
       ELSE /\ IF pending > 0 THEN skip' = TRUE /\ UNCHANGED pending
                              ELSE pending' = pending + 1 /\ UNCHANGED skip
            /\ Notify
            /\ UNCHANGED run
  /\ UNCHANGED <<exists, shmu, lis, user>>

\* the thread wakes up and handles an event without looking at its queue
BugNoEvent(t) ==
  /\ user[t] \in {"in", "out"}
  /\ inbox' = [inbox EXCEPT ![t] = @ - 1]
  /\ UNCHANGED <<exists, shmu, pending, skip, quit, lis, run, notified, user>>

\* no activity of the thread is served by the timer any more, or it is paused
Ignore(t) ==
  /\ user[t] \in {"in", "out"} /\ inbox[t] > 0
  /\ inbox' = [inbox EXCEPT ![t] = @ - 1]
  /\ UNCHANGED <<exists, shmu, pending, skip, quit, lis, run, notified, user>>

-------------------------------------------------------------------------------
(***************************************************************************)
(* CuTimer::run.                                                           *)
(***************************************************************************)
\* the test of the while loop, and into wait_for()
Loop == IF quit THEN run' = "ended" ELSE run' = "waitfor"

Enter ==
  /\ run = "enter"
  /\ Loop
  /\ UNCHANGED <<exists, shmu, pending, skip, quit, lis, notified, user, inbox>>

\* wait_for() returns, by the timeout or because it was notified
WaitForReturns ==
  /\ run = "waitfor"
  /\ \A t \in lis : inbox[t] < MaxTold
  /\ notified' = FALSE
  /\ IF skip THEN skip' = FALSE /\ Loop
             ELSE UNCHANGED skip /\ run' = "firing"
  /\ UNCHANGED <<exists, shmu, pending, quit, lis, user, inbox>>

\* run() waits for the next timeout: neither restart nor stop is looked for
BugNotSingleShot ==
  /\ run = "firing"
  /\ inbox' = [t \in Threads |-> IF t \in lis /\ ~quit THEN inbox[t] + 1 ELSE inbox[t]]
  /\ pending' = 0
  /\ run' = "waitfor"
  /\ UNCHANGED <<exists, shmu, skip, quit, lis, notified, user>>

\* the listeners are told and m_pending is reset, all under m_mutex
Fire ==
  /\ run = "firing"
  /\ inbox' = [t \in Threads |-> IF t \in lis /\ ~quit THEN inbox[t] + 1 ELSE inbox[t]]
  /\ pending' = 0
  /\ run' = IF quit THEN "ended" ELSE "idle"
  /\ UNCHANGED <<exists, shmu, skip, quit, lis, notified, user>>

\* wait() returns: the loop begins again
WaitReturns ==
  /\ run = "idle"
  /\ notified \/ SpuriousWakeup
  /\ notified' = FALSE
  /\ Loop
  /\ UNCHANGED <<exists, shmu, pending, skip, quit, lis, user, inbox>>

Run == Enter \/ WaitForReturns \/ Fire \/ WaitReturns

-------------------------------------------------------------------------------
Serving(t) == StartLocked(t) \/ AddListener(t) \/ Stop(t) \/ JoinAndDelete(t)

Next ==
  \/ Run
  \/ \E t \in Threads : \/ RegisterListener(t) \/ UnregisterListener(t)
                        \/ Restart(t) \/ Ignore(t) \/ Serving(t)

Spec == Init /\ [][Next]_vars

\* the timer thread runs, and a thread inside the service or with an expiry
\* to handle goes on
FairSpec ==
  /\ Spec
  /\ WF_vars(Run)
  /\ \A t \in Threads : WF_vars(Serving(t)) /\ WF_vars(Restart(t) \/ Ignore(t))

-------------------------------------------------------------------------------
(***************************************************************************)
(* A timer that sleeps while its counter says it is pending is about to be *)
(* woken: otherwise no later start() would ever wake it.                   *)
(***************************************************************************)
NoStartLost ==
  run = "idle" /\ ~notified /\ pending > 0 => \E t \in Threads : user[t] = "start"

(***************************************************************************)
(* Nobody uses a timer that is deleted, and a timer that is being stopped  *)
(* is not brought back by a restart.                                       *)
(***************************************************************************)
StoppedForGood ==
  /\ \A t \in Threads : user[t] \in {"in", "start", "add", "stop", "join"} => exists
  /\ \A t \in Threads : user[t] = "join" => quit /\ lis = {}

(***************************************************************************)
(* unregisterListener returns: the join in stop() ends.                    *)
(***************************************************************************)
StopReturns == \A t \in Threads : user[t] \in {"stop", "join"} ~> user[t] = "out"

(***************************************************************************)
(* The timer implements SharedTimer.  It is armed when run() waits for a   *)
(* timeout, or has been told to, and is not being stopped.                 *)
(***************************************************************************)
Armed == ~quit /\ (run \in {"enter", "waitfor", "firing"} \/ (run = "idle" /\ notified))

PhaseOf(t) == CASE user[t] = "add" -> "joining"
                [] user[t] = "in"  -> "in"
                [] OTHER -> "out"

Shared == INSTANCE SharedTimer WITH
  phase <- [t \in Threads |-> PhaseOf(t)], armed <- Armed, told <- inbox

SharedTimerKept == Shared!SharedSpec
===============================================================================
