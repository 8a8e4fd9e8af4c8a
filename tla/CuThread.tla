------------------------------- MODULE CuThread -------------------------------
(***************************************************************************)
(* The engine of cumbia: activities run in background threads, their       *)
(* results and their end are delivered in the main thread.                 *)
(*                                                                         *)
(*  - The main thread calls Cumbia (register, unregister, pause, resume,   *)
(*    set the period of an activity, leave the event loop, finish), runs   *)
(*    CuEventLoopService::run and, from it, CuThread::onEventPosted.  The  *)
(*    links of CuActivityManager, the threads of CuThreadService and the   *)
(*    listeners of each CuThread belong to it.                             *)
(*  - Each CuThread has a queue of events (eq) written by the main thread  *)
(*    and by the timers, and the thread that runs CuThread::run.           *)
(*  - The timers of CuTimerService (module CuTimerService) write eq when   *)
(*    they expire.                                                         *)
(*                                                                         *)
(* An activity is handed to the engine once: a client that is done with    *)
(* it makes a new one, as the readers and writers of the libraries above   *)
(* do.  A CuThread object has a name of its own: it is never recycled.     *)
(*                                                                         *)
(* The definitions whose names begin with Bug are plausible mistakes in    *)
(* the definition that follows them: nothing uses them.  Each shows that a *)
(* property would fail if the code were wrong in that place.               *)
(***************************************************************************)
EXTENDS Naturals, Sequences, FiniteSets, CuTimerService

CONSTANTS
  Activities, Listeners,  \* CuActivity and CuThreadListener objects
  Tokens,                 \* the thread tokens clients use
  TokenOf,                \* the token each activity is registered with
  PeriodOf,               \* its initial period; 0: executed only once
  DeleteOnExit,           \* the activities with the flag CuADeleteOnExit
  Posts,                  \* the events clients post to periodic activities
  SelfPeriods,            \* periods execute() may switch its activity to
  MayQuit,                \* whether the client may leave the event loop
  MaxEq, MaxLoop,         \* bounds on the queues, for posts and for results
  None                    \* "no thread", "no token"

ASSUME ActivityAssumption ==
  /\ TokenOf \in [Activities -> Tokens]
  /\ PeriodOf \in [Activities -> Periods \union {0}]
  /\ DeleteOnExit \subseteq Activities
  /\ SelfPeriods \subseteq Periods
  /\ Posts \subseteq {"Pause", "Resume", "Execute", "TimeoutChange"}
  /\ None \notin Threads \union Tokens
ASSUME FinitelyManyObjects == IsFiniteSet(Activities \X Listeners \X Threads)
ASSUME BoundsAssumption ==
  MayQuit \in BOOLEAN /\ MaxEq \in Nat /\ MaxLoop \in Nat

VARIABLES
  (* the main thread *)
  mpc,       \* "exec", "leaving" (CuExitLoopEv seen), "finish", "ended"
  conn,      \* CuActivityManager: the links activity, listener, thread
  svc,       \* CuThreadService: the threads that take new activities
  threads,   \* Cumbia: the threads started and not yet deleted
  token,     \* token of a CuThread; None before its construction
  alimmap,   \* per CuThread: the activities it serves and their listeners
  listening, \* CuEventLoopService::eloo_liss: the threads whose bridge is alive
  qcopy,     \* CuEventLoopService::run: the events taken, not yet dispatched
  calls,     \* onEventPosted: the callbacks <<activity, listener>> still to make
  joining,   \* finish: the thread being waited for
  life,      \* an activity, for its client: "new", "registered", "unregistered"
  freed,     \* how many times the activity was deleted
  quit,      \* CuEventLoopService::exit was called
  (* shared *)
  loopq,     \* CuEventLoopService::queue
  eq,        \* per CuThread: the queue of thread events
  (* each background thread *)
  pc,        \* "off", "start", "loop", "timer", "drain", "exit", "done"
  activity_set,   \* the activities initialised and not exited
  tmr_amap,       \* the timer of each activity
  todo, cur, again, \* TimerExpired: a_for_t, timer, tmr_restart
  destroy,        \* run: leave because there are no activities
  period, paused  \* CuPeriodicActivity: timeout and pause

mainvars == <<mpc, conn, svc, threads, token, alimmap, listening, qcopy, calls,
              joining, life, freed, quit>>
runvars == <<pc, activity_set, tmr_amap, todo, cur, again, destroy>>
actvars == <<period, paused>>
vars == <<mainvars, loopq, eq, runvars, actvars, tsvars>>

ThreadEvent ==
       [type : {"Register", "Unregister", "Pause", "Resume", "Execute"}, a : Activities]
  \union [type : {"TimeoutChange"}, a : Activities, to : Periods]
  \union [type : {"TimerExpired"}, tm : Timers]
  \union [type : {"ThreadExit", "ZeroActivities"}]

LoopEvent ==
       [type : {"Result", "Exit"}, t : Threads, a : Activities]
  \union [type : {"AutoDestroy"}, t : Threads]
  \union [type : {"ExitLoop"}]

TypeOK ==
  /\ mpc \in {"exec", "leaving", "finish", "ended"}
  /\ conn \subseteq Activities \X Listeners \X Threads
  /\ svc \subseteq Threads
  /\ threads \subseteq Threads
  /\ token \in [Threads -> Tokens \union {None}]
  /\ alimmap \in [Threads -> SUBSET (Activities \X Listeners)]
  /\ listening \subseteq Threads
  /\ qcopy \in Seq(LoopEvent)
  /\ calls \subseteq Activities \X Listeners
  /\ joining \in Threads \union {None}
  /\ life \in [Activities -> {"new", "registered", "unregistered"}]
  /\ freed \in [Activities -> Nat]
  /\ quit \in BOOLEAN
  /\ loopq \in Seq(LoopEvent)
  /\ eq \in [Threads -> Seq(ThreadEvent)]
  /\ pc \in [Threads -> {"off", "start", "loop", "timer", "drain", "exit", "done"}]
  /\ activity_set \in [Threads -> SUBSET Activities]
  /\ tmr_amap \in [Threads -> [Activities -> Timers \union {NoTimer}]]
  /\ todo \in [Threads -> SUBSET Activities]
  /\ cur \in [Threads -> Timers \union {NoTimer}]
  /\ again \in [Threads -> BOOLEAN]
  /\ destroy \in [Threads -> BOOLEAN]
  /\ period \in [Activities -> Periods \union {0}]
  /\ paused \in [Activities -> BOOLEAN]
  /\ TimersTypeOK

Init ==
  /\ mpc = "exec" /\ conn = {} /\ svc = {} /\ threads = {} /\ listening = {}
  /\ token = [t \in Threads |-> None]
  /\ alimmap = [t \in Threads |-> {}]
  /\ qcopy = <<>> /\ calls = {} /\ joining = None
  /\ life = [a \in Activities |-> "new"]
  /\ freed = [a \in Activities |-> 0]
  /\ quit = FALSE
  /\ loopq = <<>>
  /\ eq = [t \in Threads |-> <<>>]
  /\ pc = [t \in Threads |-> "off"]
  /\ activity_set = [t \in Threads |-> {}]
  /\ tmr_amap = [t \in Threads |-> [a \in Activities |-> NoTimer]]
  /\ todo = [t \in Threads |-> {}]
  /\ cur = [t \in Threads |-> NoTimer]
  /\ again = [t \in Threads |-> FALSE]
  /\ destroy = [t \in Threads |-> FALSE]
  /\ period = PeriodOf
  /\ paused = [a \in Activities |-> FALSE]
  /\ TimersInit

-------------------------------------------------------------------------------
(***************************************************************************)
(* Events.                                                                 *)
(***************************************************************************)
Event(ty) == [type |-> ty]
AEvent(ty, a) == [type |-> ty, a |-> a]
FromThread(ty, t, a) == [type |-> ty, t |-> t, a |-> a]

Push(t, e) == eq' = [eq EXCEPT ![t] = Append(@, e)]

-------------------------------------------------------------------------------
(***************************************************************************)
(* The main thread: what clients call.  They run between two events, or    *)
(* from within a callback of the event being dispatched.                   *)
(***************************************************************************)
ClientTurn == mpc \in {"exec", "leaving"}

\* a new thread whatever the token
BugNewThread(tk) == {t \in Threads : token[t] = None}

\* CuThreadService::getThread: the thread with this token, else a new one
ThreadsFor(tk) ==
  LET known == {t \in svc : token[t] = tk}
  IN  IF known # {} THEN known ELSE {t \in Threads : token[t] = None}

RegisterActivity(a, l) ==
  /\ ClientTurn
  /\ life[a] = "new" \/ (life[a] = "registered" /\ \A t \in Threads : <<a, l, t>> \notin conn)
  /\ \E t \in ThreadsFor(TokenOf[a]) :
       /\ token' = [token EXCEPT ![t] = TokenOf[a]]
       /\ svc' = svc \union {t}
       /\ listening' = IF token[t] = None THEN listening \union {t} ELSE listening
       /\ conn' = conn \union {<<a, l, t>>}
       /\ threads' = IF pc[t] = "off" THEN threads \union {t} ELSE threads
       /\ pc' = [pc EXCEPT ![t] = IF @ = "off" THEN "start" ELSE @]
       /\ alimmap' = [alimmap EXCEPT ![t] = @ \union {<<a, l>>}]
       /\ Push(t, AEvent("Register", a))
  /\ life' = [life EXCEPT ![a] = "registered"]
  /\ UNCHANGED <<mpc, qcopy, calls, joining, freed, quit, loopq, activity_set,
                 tmr_amap, todo, cur, again, destroy, actvars, tsvars>>

ThreadsOf(a) == {t \in Threads : \E l \in Listeners : <<a, l, t>> \in conn}

\* the links of the activity are forgotten in CuActivityManager::disconnect
BugLinksKept(a) == {}

LinksOf(a) == {c \in conn : c[1] = a}

BugErasedNothing(m, a) == m

\* alimmap without an activity
Erased(m, a) == {p \in m : p[1] # a}

BugThreadKept(t, links) == svc

\* removeThread, if the thread has no links left
ServiceAfter(t, links) == IF \E c \in links : c[3] = t THEN svc ELSE svc \ {t}

UnregisterActivity(a) ==
  /\ ClientTurn
  /\ \E t \in ThreadsOf(a) :
       /\ alimmap' = [alimmap EXCEPT ![t] = Erased(@, a)]
       /\ Push(t, AEvent("Unregister", a))
       /\ conn' = conn \ LinksOf(a)
       /\ svc' = ServiceAfter(t, conn')
  /\ life' = [life EXCEPT ![a] = "unregistered"]
  /\ UNCHANGED <<mpc, threads, token, listening, qcopy, calls, joining, freed,
                 quit, loopq, runvars, actvars, tsvars>>

\* pauseActivity, resumeActivity, setActivityPeriod, postEvent
PostEvent(a, e) ==
  /\ ClientTurn
  /\ PeriodOf[a] # 0
  /\ \E t \in ThreadsOf(a) : Len(eq[t]) < MaxEq /\ Push(t, e)
  /\ UNCHANGED <<mainvars, loopq, runvars, actvars, tsvars>>

PostTo(a) ==
  \/ \E ty \in Posts \ {"TimeoutChange"} : PostEvent(a, AEvent(ty, a))
  \/ /\ "TimeoutChange" \in Posts
     /\ \E p \in Periods : PostEvent(a, [type |-> "TimeoutChange", a |-> a, to |-> p])

\* CuEventLoopService::exit
ExitEventLoop ==
  /\ MayQuit /\ ClientTurn /\ ~quit
  /\ quit' = TRUE
  /\ loopq' = Append(loopq, Event("ExitLoop"))
  /\ UNCHANGED <<mpc, conn, svc, threads, token, alimmap, listening, qcopy, calls,
                 joining, life, freed, eq, runvars, actvars, tsvars>>

Client ==
  \/ \E a \in Activities : \/ \E l \in Listeners : RegisterActivity(a, l)
                           \/ UnregisterActivity(a)
                           \/ PostTo(a)
  \/ ExitEventLoop

-------------------------------------------------------------------------------
(***************************************************************************)
(* The main thread: CuEventLoopService::run and CuThread::onEventPosted.   *)
(***************************************************************************)
\* the first event is taken and the others are thrown away
BugTakeOne ==
  /\ mpc = "exec" /\ qcopy = <<>> /\ calls = {} /\ loopq # <<>>
  /\ qcopy' = <<Head(loopq)>>
  /\ loopq' = <<>>
  /\ UNCHANGED <<mpc, conn, svc, threads, token, alimmap, listening, calls, joining,
                 life, freed, quit, eq, runvars, actvars, tsvars>>

\* take every queued event at once
TakeEvents ==
  /\ mpc = "exec" /\ qcopy = <<>> /\ calls = {} /\ loopq # <<>>
  /\ qcopy' = loopq
  /\ loopq' = <<>>
  /\ UNCHANGED <<mpc, conn, svc, threads, token, alimmap, listening, calls, joining,
                 life, freed, quit, eq, runvars, actvars, tsvars>>

NextEvent(ty) ==
  /\ ClientTurn /\ calls = {} /\ qcopy # <<>>
  /\ Head(qcopy).type = ty
  /\ qcopy' = Tail(qcopy)

(***************************************************************************)
(* An event whose listener, the bridge of its thread, is gone has no       *)
(* effect.  The listeners told of a result are those of a copy of alimmap: *)
(* the first callback is made, and clients may call the engine from within *)
(* it before the next one.                                                 *)
(***************************************************************************)
OnResult ==
  /\ NextEvent("Result")
  /\ LET e == Head(qcopy)
         listeners == {p \in alimmap[e.t] : p[1] = e.a /\ e.t \in listening}
     IN  IF listeners = {} THEN UNCHANGED calls
                           ELSE \E p \in listeners : calls' = listeners \ {p}
  /\ UNCHANGED <<mpc, conn, svc, threads, token, alimmap, listening, joining,
                 life, freed, quit, loopq, eq, runvars, actvars, tsvars>>

\* the next callback of the copy
Notify(p) ==
  /\ p \in calls
  /\ calls' = calls \ {p}
  /\ UNCHANGED <<mpc, conn, svc, threads, token, alimmap, listening, qcopy, joining,
                 life, freed, quit, loopq, eq, runvars, actvars, tsvars>>

BugAlwaysZero(t) == TRUE

ZeroActivities(t) == alimmap[t] = {}

\* the thread is disconnected from the event loop with its last activity
BugDisconnect ==
  /\ NextEvent("Exit")
  /\ LET e == Head(qcopy)
         told == e.t \in listening
     IN  /\ freed' = IF told /\ e.a \in DeleteOnExit
                       THEN [freed EXCEPT ![e.a] = @ + 1] ELSE freed
         /\ listening' = IF ZeroActivities(e.t) THEN listening \ {e.t} ELSE listening
  /\ UNCHANGED <<mpc, conn, svc, threads, token, alimmap, calls, joining,
                 life, quit, loopq, eq, runvars, actvars, tsvars>>

\* mOnActivityExited
OnActivityExited ==
  /\ NextEvent("Exit")
  /\ LET e == Head(qcopy)
         told == e.t \in listening
     IN  /\ freed' = IF told /\ e.a \in DeleteOnExit
                       THEN [freed EXCEPT ![e.a] = @ + 1] ELSE freed
         /\ IF told /\ ZeroActivities(e.t)
              THEN Push(e.t, Event("ZeroActivities")) ELSE UNCHANGED eq
  /\ UNCHANGED <<mpc, conn, svc, threads, token, alimmap, listening, calls, joining,
                 life, quit, loopq, runvars, actvars, tsvars>>

\* wait() joins the thread, then `delete this' deletes the bridge with it
OnAutoDestroy ==
  /\ NextEvent("AutoDestroy")
  /\ LET gone == {Head(qcopy).t} \intersect listening
     IN  /\ \A t \in gone : pc[t] = "done"
         /\ threads' = threads \ gone
         /\ listening' = listening \ gone
  /\ UNCHANGED <<mpc, conn, svc, token, alimmap, calls, joining, life, freed, quit,
                 loopq, eq, runvars, actvars, tsvars>>

OnExitLoop ==
  /\ NextEvent("ExitLoop")
  /\ mpc' = "leaving"
  /\ UNCHANGED <<conn, svc, threads, token, alimmap, listening, calls, joining,
                 life, freed, quit, loopq, eq, runvars, actvars, tsvars>>

EventLoop ==
  \/ TakeEvents \/ OnResult \/ OnActivityExited \/ OnAutoDestroy
  \/ OnExitLoop
  \/ \E p \in calls : Notify(p)

-------------------------------------------------------------------------------
(***************************************************************************)
(* The main thread: Cumbia::finish, after the event loop has returned.     *)
(***************************************************************************)
StartFinish ==
  /\ mpc = "leaving" /\ qcopy = <<>> /\ calls = {}
  /\ mpc' = "finish"
  /\ UNCHANGED <<conn, svc, threads, token, alimmap, listening, qcopy, calls, joining,
                 life, freed, quit, loopq, eq, runvars, actvars, tsvars>>

\* only the threads the service knows are told to exit
BugExitIfKnown(t) == t \in svc /\ pc[t] # "start"

\* run() has built d->thpp
HasThpp(t) == pc[t] # "start"

\* CuThread::exit pushes its event only if there is a thpp
FinishExit(t) ==
  /\ mpc = "finish" /\ joining = None /\ t \in threads
  /\ joining' = t
  /\ IF HasThpp(t) THEN Push(t, Event("ThreadExit")) ELSE UNCHANGED eq
  /\ UNCHANGED <<mpc, conn, svc, threads, token, alimmap, listening, qcopy, calls,
                 life, freed, quit, loopq, runvars, actvars, tsvars>>

BugNoWait(t) == TRUE

\* wait() returns
Joined(t) == pc[t] = "done"

\* delete the activities still linked to the thread, and the thread
FinishDelete ==
  /\ mpc = "finish" /\ joining # None
  /\ Joined(joining)
  /\ LET links == {c \in conn : c[3] = joining}
     IN  /\ conn' = {c \in conn : \A k \in links : c[1] # k[1]}
         /\ freed' = [a \in Activities |-> freed[a] + Cardinality({k \in links : k[1] = a})]
  /\ threads' = threads \ {joining}
  /\ listening' = listening \ {joining}
  /\ joining' = None
  /\ UNCHANGED <<mpc, svc, token, alimmap, qcopy, calls, life, quit, loopq, eq,
                 runvars, actvars, tsvars>>

FinishEnd ==
  /\ mpc = "finish" /\ threads = {} /\ joining = None
  /\ mpc' = "ended"
  /\ UNCHANGED <<conn, svc, threads, token, alimmap, listening, qcopy, calls, joining,
                 life, freed, quit, loopq, eq, runvars, actvars, tsvars>>

Finish == StartFinish \/ (\E t \in Threads : FinishExit(t)) \/ FinishDelete \/ FinishEnd

-------------------------------------------------------------------------------
(***************************************************************************)
(* The background thread: CuThread::run.                                   *)
(***************************************************************************)
\* run: thpp is built, the loop begins
Start(t) ==
  /\ pc[t] = "start"
  /\ pc' = [pc EXCEPT ![t] = "loop"]
  /\ UNCHANGED <<mainvars, loopq, eq, activity_set, tmr_amap, todo, cur, again,
                 destroy, actvars, tsvars>>

Idle(t, at) == pc[t] = at /\ adding[t] = NoTimer

Dequeue(t, types) ==
  /\ Idle(t, "loop")
  /\ eq[t] # <<>>
  /\ Head(eq[t]).type \in types
  /\ eq' = [eq EXCEPT ![t] = Tail(@)]

\* CuPeriodicActivity::repeat
RepeatOf(a, p) == IF paused[a] THEN 0 ELSE p

\* what a hook of a may leave in the queue of the event loop: publishResult
Published(t, a) ==
  {loopq} \union IF Len(loopq) < MaxLoop
                   THEN {Append(loopq, FromThread("Result", t, a))}
                   ELSE {}

\* an activity slows down from its current period, again and again
BugSlowedAgain(a) == {period[a], 3 * period[a]}

\* the period after execute(), which may call setInterval
PeriodsAfter(a) == {period[a]} \union IF period[a] = 0 THEN {} ELSE SelfPeriods

\* registerListener(t, p) from f, the map of timers; a is served by the timer
RegisterListener(f, t, a, p, amap) ==
  /\ ServiceUnlocked
  /\ \E tm \in TimersFor(f, p) :
       /\ timer' = Started(f, t, tm, p)
       /\ adding' = IF f[tm].pending THEN [adding EXCEPT ![t] = tm] ELSE adding
       /\ tmr_amap' = [tmr_amap EXCEPT ![t] = [amap EXCEPT ![a] = tm]]

\* activity_run: init, execute, and a timer if the activity repeats
HandleRegister(t) ==
  /\ Dequeue(t, {"Register"})
  /\ LET a == Head(eq[t]).a
     IN  /\ activity_set' = [activity_set EXCEPT ![t] = @ \union {a}]
         /\ loopq' \in Published(t, a)
         /\ \E p \in PeriodsAfter(a) :
              /\ period' = [period EXCEPT ![a] = p]
              /\ IF RepeatOf(a, p) > 0
                   THEN RegisterListener(timer, t, a, p, tmr_amap[t])
                   ELSE UNCHANGED <<tsvars, tmr_amap>>
  /\ UNCHANGED <<mainvars, pc, todo, cur, again, destroy, paused>>

\* the second half of registerListener
JoinTimer(t) ==
  /\ AddListener(t)
  /\ UNCHANGED <<mainvars, loopq, eq, runvars, actvars>>

Sharing(t, a) == {b \in Activities \ {a} : tmr_amap[t][b] = tmr_amap[t][a]}

BugSharingIgnored(t, a) == Left(timer, t, tmr_amap[t][a])

\* the timers once a no longer uses its own: mRemoveActivityTimer
TimersWithout(t, a) ==
  IF Sharing(t, a) = {} THEN Left(timer, t, tmr_amap[t][a]) ELSE timer

\* the exit event is published, the activity still runs
BugNotExited(t, a) == UNCHANGED <<timer, adding, tmr_amap, activity_set>>

\* the activity exits, and the thread stays a listener of its timer
BugTimerNotLeft(t, a) ==
  /\ activity_set' = [activity_set EXCEPT ![t] = @ \ {a}]
  /\ UNCHANGED <<timer, adding, tmr_amap>>

\* mExitActivity for an activity of the set
ExitActivity(t, a) ==
  /\ IF tmr_amap[t][a] = NoTimer
       THEN UNCHANGED <<timer, tmr_amap>>
       ELSE /\ Sharing(t, a) # {} \/ ServiceUnlocked
            /\ timer' = TimersWithout(t, a)
            /\ tmr_amap' = [tmr_amap EXCEPT ![t][a] = NoTimer]
  /\ activity_set' = [activity_set EXCEPT ![t] = @ \ {a}]
  /\ UNCHANGED adding

HandleUnregister(t) ==
  /\ Dequeue(t, {"Unregister"})
  /\ LET a == Head(eq[t]).a
     IN  IF a \in activity_set[t]
           THEN /\ ExitActivity(t, a)
                /\ \E q \in Published(t, a) : loopq' = Append(q, FromThread("Exit", t, a))
           ELSE UNCHANGED <<tsvars, tmr_amap, activity_set, loopq>>
  /\ UNCHANGED <<mainvars, pc, todo, cur, again, destroy, actvars>>

\* m_a_new_timeout: leave the old timer, register for the new timeout
NewTimeout(t, a, p) ==
  /\ ServiceUnlocked
  /\ RegisterListener(TimersWithout(t, a), t, a, p, tmr_amap[t])

\* TimerExpired: the activities of the timer, one by one
HandleTimer(t) ==
  /\ Dequeue(t, {"TimerExpired"})
  /\ LET tm == Head(eq[t]).tm
     IN  /\ todo' = [todo EXCEPT ![t] = {a \in Activities : tmr_amap[t][a] = tm}]
         /\ cur' = [cur EXCEPT ![t] = tm]
  /\ again' = [again EXCEPT ![t] = FALSE]
  /\ pc' = [pc EXCEPT ![t] = "timer"]
  /\ UNCHANGED <<mainvars, loopq, activity_set, tmr_amap, destroy, actvars, tsvars>>

ExecuteOnTimer(t, a) ==
  /\ Idle(t, "timer") /\ a \in todo[t]
  /\ todo' = [todo EXCEPT ![t] = @ \ {a}]
  /\ IF RepeatOf(a, period[a]) > 0
       THEN /\ loopq' \in Published(t, a)
            /\ \E p \in PeriodsAfter(a) :
                 /\ period' = [period EXCEPT ![a] = p]
                 /\ IF p # timer[cur[t]].timeout
                      THEN /\ NewTimeout(t, a, p)
                           /\ UNCHANGED again
                      ELSE /\ again' = [again EXCEPT ![t] = TRUE]
                           /\ UNCHANGED <<tsvars, tmr_amap>>
       ELSE UNCHANGED <<loopq, period, again, tsvars, tmr_amap>>
  /\ UNCHANGED <<mainvars, eq, pc, activity_set, cur, destroy, paused>>

\* restart the timer if an activity needs it
EndTimer(t) ==
  /\ Idle(t, "timer") /\ todo[t] = {}
  /\ pc' = [pc EXCEPT ![t] = "loop"]
  /\ cur' = [cur EXCEPT ![t] = NoTimer]
  /\ again' = [again EXCEPT ![t] = FALSE]
  /\ timer' = IF again[t] THEN Restarted(timer, cur[t]) ELSE timer
  /\ UNCHANGED <<mainvars, loopq, eq, activity_set, tmr_amap, todo, destroy, actvars,
                 adding>>

\* PostToActivity, with CuPeriodicActivity::event
HandlePost(t) ==
  /\ Dequeue(t, {"Pause", "Resume", "Execute", "TimeoutChange"})
  /\ LET e == Head(eq[t])
         present == e.a \in activity_set[t]
     IN  /\ IF e.type = "TimeoutChange" /\ tmr_amap[t][e.a] # NoTimer
              THEN NewTimeout(t, e.a, e.to)
              ELSE UNCHANGED <<tsvars, tmr_amap>>
         /\ period' = IF present /\ e.type = "TimeoutChange"
                        THEN [period EXCEPT ![e.a] = e.to] ELSE period
         /\ paused' = IF present /\ e.type \in {"Pause", "Resume"}
                        THEN [paused EXCEPT ![e.a] = e.type = "Pause"] ELSE paused
         /\ IF present /\ e.type = "Execute"
              THEN loopq' \in Published(t, e.a) ELSE UNCHANGED loopq
  /\ UNCHANGED <<mainvars, pc, activity_set, todo, cur, again, destroy>>

BugDestroyOnExit(e) == e.type = "ThreadExit"

Destroys(e) == e.type = "ZeroActivities"

\* ThreadExit and ZeroActivities leave the loop
LeaveLoop(t) ==
  /\ Dequeue(t, {"ThreadExit", "ZeroActivities"})
  /\ destroy' = [destroy EXCEPT ![t] = Destroys(Head(eq[t]))]
  /\ pc' = [pc EXCEPT ![t] = "drain"]
  /\ UNCHANGED <<mainvars, loopq, activity_set, tmr_amap, todo, cur, again, actvars,
                 tsvars>>

\* `empty and delete queued events': no lock is taken here
Drain(t) ==
  /\ pc[t] = "drain"
  /\ IF eq[t] # <<>>
       THEN /\ eq' = [eq EXCEPT ![t] = Tail(@)]
            /\ UNCHANGED pc
       ELSE /\ pc' = [pc EXCEPT ![t] = "exit"]
            /\ UNCHANGED eq
  /\ UNCHANGED <<mainvars, loopq, activity_set, tmr_amap, todo, cur, again, destroy,
                 actvars, tsvars>>

\* mExitActivity with on_quit: no exit event
QuitActivity(t, a) ==
  /\ pc[t] = "exit" /\ a \in activity_set[t]
  /\ ExitActivity(t, a)
  /\ loopq' \in Published(t, a)
  /\ UNCHANGED <<mainvars, eq, pc, todo, cur, again, destroy, actvars>>

EndRun(t) ==
  /\ pc[t] = "exit" /\ activity_set[t] = {}
  /\ pc' = [pc EXCEPT ![t] = "done"]
  /\ loopq' = IF destroy[t] THEN Append(loopq, [type |-> "AutoDestroy", t |-> t])
                            ELSE loopq
  /\ UNCHANGED <<mainvars, eq, activity_set, tmr_amap, todo, cur, again, destroy,
                 actvars, tsvars>>

Run(t) ==
  \/ Start(t) \/ HandleRegister(t) \/ JoinTimer(t) \/ HandleUnregister(t)
  \/ HandleTimer(t) \/ EndTimer(t) \/ HandlePost(t) \/ LeaveLoop(t) \/ Drain(t)
  \/ EndRun(t)
  \/ \E a \in Activities : ExecuteOnTimer(t, a) \/ QuitActivity(t, a)

\* CuTimer::run tells the listeners: CuThread::onTimeout pushes an event
Expire(tm) ==
  /\ Live(tm) /\ timer[tm].pending
  /\ \A t \in timer[tm].lis : Len(eq[t]) < MaxEq
  /\ timer' = Expired(timer, tm)
  /\ eq' = [t \in Threads |->
              IF t \in timer[tm].lis
                THEN Append(eq[t], [type |-> "TimerExpired", tm |-> tm])
                ELSE eq[t]]
  /\ UNCHANGED <<mainvars, loopq, runvars, actvars, adding>>

-------------------------------------------------------------------------------
Ended == mpc = "ended" /\ UNCHANGED vars

Next ==
  \/ Client \/ EventLoop \/ Finish
  \/ \E t \in Threads : Run(t)
  \/ \E tm \in Timers : Expire(tm)
  \/ Ended

Spec == Init /\ [][Next]_vars

(***************************************************************************)
(* Clients may stop calling; the event loop, finish, the background        *)
(* threads and the timers are threads the system schedules.                *)
(***************************************************************************)
Fairness ==
  /\ WF_vars(EventLoop) /\ WF_vars(Finish)
  /\ \A t \in Threads : WF_vars(Run(t))
  /\ \A tm \in Timers : WF_vars(Expire(tm))

FairSpec == Spec /\ Fairness

-------------------------------------------------------------------------------
(***************************************************************************)
(* Safety.                                                                 *)
(***************************************************************************)
Contains(q, types) == \E i \in DOMAIN q : q[i].type \in types

LinksOfThread(t) == {c \in conn : c[3] = t}

(***************************************************************************)
(* What CuActivityManager, CuThreadService and each CuThread keep about    *)
(* the same links agrees, although each has a copy of its own: one         *)
(* activity belongs to one thread only, and no two threads of the service  *)
(* have the same token; the listeners a thread serves are those linked to  *)
(* it, and the service knows exactly the threads that have links.          *)
(***************************************************************************)
OneThreadEach ==
  /\ \A c, k \in conn : c[1] = k[1] => c[3] = k[3]
  /\ \A t, u \in svc : token[t] = token[u] => t = u

CopiesAgree ==
  /\ OneThreadEach
  /\ ClientTurn =>
       /\ \A t \in threads : alimmap[t] = {<<c[1], c[2]>> : c \in LinksOfThread(t)}
       /\ svc = {t \in Threads : LinksOfThread(t) # {}}

(***************************************************************************)
(* A thread the service hands out for a new activity is one that will run  *)
(* it: it is alive, its results are listened to, it is not leaving its     *)
(* loop and no event makes it leave.  Unregistering the last activity      *)
(* takes the thread out of the service before it is told to end.           *)
(***************************************************************************)
ServiceThreadsUsable ==
  ClientTurn =>
    \A t \in svc : /\ t \in threads \intersect listening
                   /\ pc[t] \in {"start", "loop", "timer"}
                   /\ ~Contains(eq[t], {"ThreadExit", "ZeroActivities"})

(***************************************************************************)
(* A thread that ends because it has no activities throws no registration  *)
(* away (the perr of CuThread::run, `exits with a still queued register    *)
(* event', is never printed).                                              *)
(***************************************************************************)
NoRegisterDiscarded ==
  \A t \in Threads :
    pc[t] \in {"drain", "exit", "done"} /\ destroy[t] => ~Contains(eq[t], {"Register"})

(***************************************************************************)
(* The main thread deletes an activity only when no background thread will *)
(* touch it again: it is in no activity_set and no queued event makes a    *)
(* living thread start or stop it.                                         *)
(***************************************************************************)
NoUseAfterDelete ==
  \A a \in Activities : freed[a] > 0 =>
    \A t \in threads :
      /\ a \notin activity_set[t]
      /\ \A i \in DOMAIN eq[t] :
           eq[t][i].type \in {"Register", "Unregister"} => eq[t][i].a # a

(***************************************************************************)
(* An activity is deleted at most once.                                    *)
(***************************************************************************)
DeletedOnce == \A a \in Activities : freed[a] <= 1

(***************************************************************************)
(* The event loop never drops the end of an activity: while it runs, an    *)
(* exit event is addressed to a thread that is still listening and no      *)
(* destruction of that thread is queued before it.                         *)
(***************************************************************************)
Undelivered == qcopy \o loopq

ExitEventsDelivered ==
  ClientTurn =>
    \A i \in DOMAIN Undelivered :
      Undelivered[i].type = "Exit" =>
        /\ Undelivered[i].t \in listening
        /\ \A j \in 1..i : Undelivered[j].type = "AutoDestroy"
                             => Undelivered[j].t # Undelivered[i].t

(***************************************************************************)
(* A timer an activity relies on exists and calls its thread; a timer      *)
(* about to be restarted exists; and a timeout has one timer.  So          *)
(* unregisterListener never fails (it would abort) and run() never follows *)
(* the pointer of a deleted timer.                                         *)
(***************************************************************************)
TimerLinks ==
  /\ \A t \in Threads, a \in Activities :
       LET tm == tmr_amap[t][a]
       IN  tm # NoTimer => Live(tm) /\ (t \in timer[tm].lis \/ adding[t] = tm)
  /\ \A t \in Threads : again[t] => Live(cur[t])
  /\ \A tm, un \in Timers :
       Live(tm) /\ timer[tm].timeout = timer[un].timeout => tm = un

(***************************************************************************)
(* No timer calls back a CuThread that has ended: its listeners are        *)
(* threads that still run and have an activity served by the timer.        *)
(***************************************************************************)
TimerListenersAlive ==
  \A tm \in Timers : \A t \in timer[tm].lis :
    /\ t \in threads
    /\ pc[t] # "done"
    /\ \E a \in Activities : tmr_amap[t][a] = tm

(***************************************************************************)
(* A thread with nothing to do will be woken for each of its periodic      *)
(* activities that is not paused: the timer is pending, or has just told   *)
(* a listener of it that will restart it.  Otherwise the activity is never *)
(* executed again.                                                         *)
(***************************************************************************)
WillRestart(tm) ==
  \E u \in timer[tm].lis : \/ Contains(eq[u], {"TimerExpired"})
                           \/ pc[u] = "timer" /\ cur[u] = tm

PeriodicServed ==
  \A t \in Threads, a \in Activities :
    LET tm == tmr_amap[t][a]
    IN  /\ pc[t] = "loop" /\ eq[t] = <<>> /\ adding[t] = NoTimer
        /\ a \in activity_set[t] /\ period[a] > 0 /\ ~paused[a]
        => tm # NoTimer /\ (timer[tm].pending \/ WillRestart(tm))

(***************************************************************************)
(* The same for threads that share a timer, as long as none of them has    *)
(* let it down by leaving, pausing or changing its period: who restarts a  *)
(* timer restarts it for every listener.                                   *)
(***************************************************************************)
Steady == period = PeriodOf /\ \A a \in Activities : ~paused[a] /\ life[a] # "unregistered"

PeriodicServedTogether == Steady => PeriodicServed

-------------------------------------------------------------------------------
(***************************************************************************)
(* Liveness.                                                               *)
(***************************************************************************)
(***************************************************************************)
(* An activity its client unregistered is deleted, unless the client       *)
(* leaves the event loop first.                                            *)
(***************************************************************************)
UnregisteredIsDeleted ==
  \A a \in DeleteOnExit : life[a] = "unregistered" ~> freed[a] > 0 \/ quit

(***************************************************************************)
(* A thread taken out of the service is joined and deleted, unless the     *)
(* client leaves the event loop first.                                     *)
(***************************************************************************)
RemovedThreadEnds ==
  \A t \in Threads : token[t] # None /\ t \notin svc ~> t \notin threads \/ quit

(***************************************************************************)
(* Cumbia::finish terminates.                                              *)
(***************************************************************************)
FinishTerminates == mpc = "finish" ~> mpc = "ended"

(***************************************************************************)
(* Cumbia::finish terminates if every thread has entered its loop.         *)
(***************************************************************************)
FinishTerminatesOnceStarted ==
  mpc = "finish" /\ joining = None /\ (\A t \in threads : pc[t] # "start")
    ~> mpc = "ended"
===============================================================================
