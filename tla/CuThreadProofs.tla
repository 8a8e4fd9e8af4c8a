---------------------------- MODULE CuThreadProofs ----------------------------
(***************************************************************************)
(* What TLAPS proves of CuThread, for every value of its constants.        *)
(***************************************************************************)
EXTENDS CuThread, SequenceTheorems, FiniteSetTheorems, TLAPS

(***************************************************************************)
(* The fields of an event are those of its type.                           *)
(***************************************************************************)
LEMMA ThreadEventFields ==
  ASSUME NEW e \in ThreadEvent
  PROVE  /\ e.type \in {"Register", "Unregister", "Pause", "Resume", "Execute",
                        "TimeoutChange"} => e.a \in Activities
         /\ e.type = "TimeoutChange" => e.to \in Periods
         /\ e.type = "TimerExpired" => e.tm \in Timers
BY DEF ThreadEvent

LEMMA LoopEventFields ==
  ASSUME NEW e \in LoopEvent
  PROVE  /\ e.type \in {"Result", "Exit", "AutoDestroy"} => e.t \in Threads
         /\ e.type \in {"Result", "Exit"} => e.a \in Activities
BY DEF LoopEvent

(***************************************************************************)
(* The events the engine makes are events.                                 *)
(***************************************************************************)
LEMMA ThreadEventsMade ==
  /\ \A ty \in {"Register", "Unregister", "Pause", "Resume", "Execute"}, a \in Activities :
       AEvent(ty, a) \in ThreadEvent
  /\ \A ty \in {"ThreadExit", "ZeroActivities"} : Event(ty) \in ThreadEvent
  /\ \A a \in Activities, p \in Periods :
       [type |-> "TimeoutChange", a |-> a, to |-> p] \in ThreadEvent
  /\ \A tm \in Timers : [type |-> "TimerExpired", tm |-> tm] \in ThreadEvent
BY DEF ThreadEvent, AEvent, Event

LEMMA LoopEventsMade ==
  /\ \A ty \in {"Result", "Exit"}, t \in Threads, a \in Activities :
       FromThread(ty, t, a) \in LoopEvent
  /\ \A t \in Threads : [type |-> "AutoDestroy", t |-> t] \in LoopEvent
  /\ Event("ExitLoop") \in LoopEvent
BY DEF LoopEvent, FromThread, Event

LEMMA PushType ==
  ASSUME eq \in [Threads -> Seq(ThreadEvent)], NEW t \in Threads,
         NEW e \in ThreadEvent, Push(t, e)
  PROVE  eq' \in [Threads -> Seq(ThreadEvent)]
BY AppendProperties DEF Push

LEMMA DequeueType ==
  ASSUME eq \in [Threads -> Seq(ThreadEvent)], NEW t \in Threads, NEW types,
         Dequeue(t, types)
  PROVE  /\ eq' \in [Threads -> Seq(ThreadEvent)]
         /\ Head(eq[t]) \in ThreadEvent
         /\ Head(eq[t]).type \in types
BY HeadTailProperties DEF Dequeue

LEMMA NextEventType ==
  ASSUME qcopy \in Seq(LoopEvent), NEW ty, NextEvent(ty)
  PROVE  /\ qcopy' \in Seq(LoopEvent)
         /\ Head(qcopy) \in LoopEvent
         /\ Head(qcopy).type = ty
BY HeadTailProperties DEF NextEvent

LEMMA PublishedType ==
  ASSUME loopq \in Seq(LoopEvent), NEW t \in Threads, NEW a \in Activities
  PROVE  Published(t, a) \subseteq Seq(LoopEvent)
BY LoopEventsMade, AppendProperties DEF Published

(***************************************************************************)
(* The operations on timers give timers back.                              *)
(***************************************************************************)
LEMMA TimerOpsType ==
  ASSUME NEW f \in [Timers -> Timer], NEW t \in Threads, NEW tm \in Timers
  PROVE  /\ \A p \in Periods : Started(f, t, tm, p) \in [Timers -> Timer]
         /\ Restarted(f, tm) \in [Timers -> Timer]
         /\ Expired(f, tm) \in [Timers -> Timer]
<1>1. f[tm].lis \union {t} \subseteq Threads /\ f[tm].timeout \in Periods \union {0}
  BY DEF Timer
<1>2. \A p \in Periods : Started(f, t, tm, p) \in [Timers -> Timer]
  BY <1>1 DEF Started, Timer
<1>3. Restarted(f, tm) \in [Timers -> Timer] /\ Expired(f, tm) \in [Timers -> Timer]
  BY DEF Restarted, Expired, Timer
<1> QED BY <1>2, <1>3

LEMMA LeftType ==
  ASSUME NEW f \in [Timers -> Timer], NEW t, NEW tm \in Timers \union {NoTimer}
  PROVE  Left(f, t, tm) \in [Timers -> Timer]
<1>1. CASE tm \in Timers
  <2>1. [f[tm] EXCEPT !.lis = f[tm].lis \ {t}] \in Timer
    BY <1>1 DEF Timer
  <2>2. Unallocated \in Timer
    BY DEF Unallocated, Timer
  <2> QED BY <2>1, <2>2 DEF Left
<1>2. CASE tm = NoTimer
  BY <1>2, NoTimerAssumption DEF Left
<1> QED BY <1>1, <1>2

LEMMA RegisterListenerType ==
  ASSUME TypeOK, NEW f \in [Timers -> Timer], NEW t \in Threads, NEW a \in Activities,
         NEW p \in Periods, NEW amap \in [Activities -> Timers \union {NoTimer}],
         RegisterListener(f, t, a, p, amap)
  PROVE  /\ timer' \in [Timers -> Timer]
         /\ adding' \in [Threads -> Timers \union {NoTimer}]
         /\ tmr_amap' \in [Threads -> [Activities -> Timers \union {NoTimer}]]
<1>1. PICK tm \in TimersFor(f, p) :
        /\ timer' = Started(f, t, tm, p)
        /\ adding' = IF f[tm].pending THEN [adding EXCEPT ![t] = tm] ELSE adding
        /\ tmr_amap' = [tmr_amap EXCEPT ![t] = [amap EXCEPT ![a] = tm]]
  BY DEF RegisterListener
<1>2. tm \in Timers
  BY DEF TimersFor
<1>3. timer' \in [Timers -> Timer]
  BY <1>1, <1>2, TimerOpsType
<1>4. adding' \in [Threads -> Timers \union {NoTimer}]
  BY <1>1, <1>2 DEF TypeOK, TimersTypeOK
<1>5. [amap EXCEPT ![a] = tm] \in [Activities -> Timers \union {NoTimer}]
  BY <1>2
<1>6. tmr_amap' \in [Threads -> [Activities -> Timers \union {NoTimer}]]
  BY <1>1, <1>5 DEF TypeOK
<1> QED BY <1>3, <1>4, <1>6

LEMMA TimersWithoutType ==
  ASSUME TypeOK, NEW t \in Threads, NEW a \in Activities
  PROVE  TimersWithout(t, a) \in [Timers -> Timer]
<1>1. timer \in [Timers -> Timer] /\ tmr_amap[t][a] \in Timers \union {NoTimer}
  BY DEF TypeOK, TimersTypeOK
<1>2. Left(timer, t, tmr_amap[t][a]) \in [Timers -> Timer]
  BY <1>1, LeftType
<1> QED BY <1>1, <1>2 DEF TimersWithout

LEMMA NewTimeoutType ==
  ASSUME TypeOK, NEW t \in Threads, NEW a \in Activities, NEW p \in Periods,
         NewTimeout(t, a, p)
  PROVE  /\ timer' \in [Timers -> Timer]
         /\ adding' \in [Threads -> Timers \union {NoTimer}]
         /\ tmr_amap' \in [Threads -> [Activities -> Timers \union {NoTimer}]]
<1>1. tmr_amap[t] \in [Activities -> Timers \union {NoTimer}]
  BY DEF TypeOK
<1> QED BY <1>1, TimersWithoutType, RegisterListenerType DEF NewTimeout

LEMMA ExitActivityType ==
  ASSUME TypeOK, NEW t \in Threads, NEW a \in Activities, ExitActivity(t, a)
  PROVE  /\ timer' \in [Timers -> Timer]
         /\ adding' \in [Threads -> Timers \union {NoTimer}]
         /\ tmr_amap' \in [Threads -> [Activities -> Timers \union {NoTimer}]]
         /\ activity_set' \in [Threads -> SUBSET Activities]
<1>1. timer' \in [Timers -> Timer]
  BY TimersWithoutType DEF ExitActivity, TypeOK, TimersTypeOK
<1>2. [tmr_amap[t] EXCEPT ![a] = NoTimer] \in [Activities -> Timers \union {NoTimer}]
  BY DEF TypeOK
<1>3. tmr_amap' \in [Threads -> [Activities -> Timers \union {NoTimer}]]
  BY <1>2 DEF ExitActivity, TypeOK
<1>4. activity_set' \in [Threads -> SUBSET Activities]
  BY DEF ExitActivity, TypeOK
<1>5. adding' \in [Threads -> Timers \union {NoTimer}]
  BY DEF ExitActivity, TypeOK, TimersTypeOK
<1> QED BY <1>1, <1>3, <1>4, <1>5

(***************************************************************************)
(* A period an activity repeats with is one of Periods.                    *)
(***************************************************************************)
LEMMA RepeatingPeriod ==
  ASSUME TypeOK, NEW a \in Activities, NEW p \in PeriodsAfter(a)
  PROVE  /\ p \in Periods \union {0}
         /\ RepeatOf(a, p) > 0 => p \in Periods
         /\ period[a] > 0 => p \in Periods
<1>1. period[a] \in Periods \union {0} /\ (period[a] > 0 => period[a] \in Periods)
  BY DEF TypeOK
<1>2. p = period[a] \/ (period[a] # 0 /\ p \in Periods)
  BY ActivityAssumption DEF PeriodsAfter
<1> QED BY <1>1, <1>2, PeriodsAssumption DEF RepeatOf

(***************************************************************************)
(* finish frees an activity once for each of its links.                    *)
(***************************************************************************)
LEMMA LinksCounted ==
  ASSUME conn \subseteq Activities \X Listeners \X Threads, NEW S \in SUBSET conn
  PROVE  Cardinality(S) \in Nat
<1>1. IsFiniteSet(S)
  BY FinitelyManyObjects, FS_Subset
<1> QED BY <1>1, FS_CardinalityType

-------------------------------------------------------------------------------
(***************************************************************************)
(* Type correctness.                                                       *)
(***************************************************************************)
LEMMA TypeInit == Init => TypeOK
<1> SUFFICES ASSUME Init PROVE TypeOK
  OBVIOUS
<1>1. TimersTypeOK
  BY DEF Init, TimersInit, TimersTypeOK, Timer, Unallocated
<1>2. period \in [Activities -> Periods \union {0}]
  BY ActivityAssumption DEF Init
<1>3. /\ qcopy \in Seq(LoopEvent)
      /\ loopq \in Seq(LoopEvent)
      /\ eq \in [Threads -> Seq(ThreadEvent)]
  BY DEF Init
<1>4. /\ alimmap \in [Threads -> SUBSET (Activities \X Listeners)]
      /\ conn \subseteq Activities \X Listeners \X Threads
      /\ calls \subseteq Activities \X Listeners
      /\ tmr_amap \in [Threads -> [Activities -> Timers \union {NoTimer}]]
  BY DEF Init
<1> QED BY <1>1, <1>2, <1>3, <1>4 DEF Init, TypeOK

LEMMA TypeClient ==
  ASSUME TypeOK, Client
  PROVE  TypeOK'
<1> USE DEF vars, mainvars, runvars, actvars, tsvars
<1>1. ASSUME NEW a \in Activities, NEW l \in Listeners, RegisterActivity(a, l)
      PROVE  TypeOK'
  <2>1. PICK t \in ThreadsFor(TokenOf[a]) :
          /\ token' = [token EXCEPT ![t] = TokenOf[a]]
          /\ svc' = svc \union {t}
          /\ listening' = IF token[t] = None THEN listening \union {t} ELSE listening
          /\ conn' = conn \union {<<a, l, t>>}
          /\ threads' = IF pc[t] = "off" THEN threads \union {t} ELSE threads
          /\ pc' = [pc EXCEPT ![t] = IF @ = "off" THEN "start" ELSE @]
          /\ alimmap' = [alimmap EXCEPT ![t] = @ \union {<<a, l>>}]
          /\ Push(t, AEvent("Register", a))
    BY <1>1 DEF RegisterActivity
  <2>2. t \in Threads
    BY DEF TypeOK, ThreadsFor
  <2>3. eq' \in [Threads -> Seq(ThreadEvent)]
    BY <2>1, <2>2, PushType, ThreadEventsMade DEF TypeOK
  <2>4. token' \in [Threads -> Tokens \union {None}]
    BY <2>1, <2>2, ActivityAssumption DEF TypeOK
  <2>5. alimmap' \in [Threads -> SUBSET (Activities \X Listeners)]
    BY <2>1, <2>2 DEF TypeOK
  <2>6. /\ conn' \subseteq Activities \X Listeners \X Threads
        /\ svc' \subseteq Threads
        /\ threads' \subseteq Threads
        /\ listening' \subseteq Threads
        /\ pc' \in [Threads -> {"off", "start", "loop", "timer", "drain", "exit", "done"}]
    BY <2>1, <2>2 DEF TypeOK
  <2>7. life' \in [Activities -> {"new", "registered", "unregistered"}]
    BY <1>1 DEF RegisterActivity, TypeOK
  <2> QED BY <1>1, <2>3, <2>4, <2>5, <2>6, <2>7 DEF RegisterActivity, TypeOK, TimersTypeOK
<1>2. ASSUME NEW a \in Activities, UnregisterActivity(a)
      PROVE  TypeOK'
  <2>1. PICK t \in ThreadsOf(a) :
          /\ alimmap' = [alimmap EXCEPT ![t] = Erased(@, a)]
          /\ Push(t, AEvent("Unregister", a))
          /\ conn' = conn \ LinksOf(a)
          /\ svc' = ServiceAfter(t, conn')
    BY <1>2 DEF UnregisterActivity
  <2>2. t \in Threads
    BY DEF ThreadsOf
  <2>3. eq' \in [Threads -> Seq(ThreadEvent)]
    BY <2>1, <2>2, PushType, ThreadEventsMade DEF TypeOK
  <2>4. alimmap' \in [Threads -> SUBSET (Activities \X Listeners)]
    BY <2>1, <2>2 DEF TypeOK, Erased
  <2>5. /\ conn' \subseteq Activities \X Listeners \X Threads
        /\ svc' \subseteq Threads
    BY <2>1 DEF TypeOK, ServiceAfter
  <2>6. life' \in [Activities -> {"new", "registered", "unregistered"}]
    BY <1>2 DEF UnregisterActivity, TypeOK
  <2> QED BY <1>2, <2>3, <2>4, <2>5, <2>6 DEF UnregisterActivity, TypeOK, TimersTypeOK
<1>3. ASSUME NEW a \in Activities, PostTo(a)
      PROVE  TypeOK'
  <2>1. PICK e \in ThreadEvent : PostEvent(a, e)
    BY <1>3, ThreadEventsMade, ActivityAssumption DEF PostTo
  <2>2. PICK t \in Threads : Push(t, e)
    BY <2>1 DEF PostEvent, ThreadsOf
  <2>3. eq' \in [Threads -> Seq(ThreadEvent)]
    BY <2>2, PushType DEF TypeOK
  <2> QED BY <2>1, <2>3 DEF PostEvent, TypeOK, TimersTypeOK
<1>4. CASE ExitEventLoop
  BY <1>4, AppendProperties, LoopEventsMade DEF ExitEventLoop, TypeOK, TimersTypeOK
<1> QED BY <1>1, <1>2, <1>3, <1>4 DEF Client

LEMMA TypeMain ==
  ASSUME TypeOK, EventLoop \/ Finish
  PROVE  TypeOK'
<1> USE DEF vars, mainvars, runvars, actvars, tsvars
<1>1. CASE TakeEvents
  BY <1>1 DEF TakeEvents, TypeOK, TimersTypeOK
<1>2. CASE OnResult
  BY <1>2, NextEventType, SMTT(30) DEF OnResult, TypeOK, TimersTypeOK
<1>3. CASE OnActivityExited
  <2>1. PICK e \in LoopEvent : e = Head(qcopy) /\ e.type = "Exit"
    BY <1>3, NextEventType DEF OnActivityExited, TypeOK
  <2>2. e.t \in Threads /\ e.a \in Activities
    BY <2>1, LoopEventFields
  <2>3. qcopy' \in Seq(LoopEvent)
    BY <1>3, NextEventType DEF OnActivityExited, TypeOK
  <2>4. freed' \in [Activities -> Nat]
    BY <1>3, <2>1, <2>2 DEF OnActivityExited, TypeOK
  <2>5. Push(e.t, Event("ZeroActivities")) => eq' \in [Threads -> Seq(ThreadEvent)]
    BY <2>2, PushType, ThreadEventsMade DEF TypeOK
  <2>6. eq' \in [Threads -> Seq(ThreadEvent)]
    BY <1>3, <2>1, <2>5 DEF OnActivityExited, TypeOK
  <2> QED BY <1>3, <2>3, <2>4, <2>6 DEF OnActivityExited, TypeOK, TimersTypeOK
<1>4. CASE OnAutoDestroy
  BY <1>4, NextEventType DEF OnAutoDestroy, TypeOK, TimersTypeOK
<1>5. CASE OnExitLoop
  BY <1>5, NextEventType DEF OnExitLoop, TypeOK, TimersTypeOK
<1>6. ASSUME NEW p \in calls, Notify(p)
      PROVE  TypeOK'
  BY <1>6 DEF Notify, TypeOK, TimersTypeOK
<1>7. CASE StartFinish
  BY <1>7 DEF StartFinish, TypeOK, TimersTypeOK
<1>8. ASSUME NEW t \in Threads, FinishExit(t)
      PROVE  TypeOK'
  <2>1. Push(t, Event("ThreadExit")) => eq' \in [Threads -> Seq(ThreadEvent)]
    BY PushType, ThreadEventsMade DEF TypeOK
  <2> QED BY <1>8, <2>1 DEF FinishExit, TypeOK, TimersTypeOK
<1>9. CASE FinishDelete
  <2> DEFINE links == {c \in conn : c[3] = joining}
  <2>1. \A a \in Activities : Cardinality({k \in links : k[1] = a}) \in Nat
    BY LinksCounted DEF TypeOK
  <2>2. freed' = [a \in Activities |-> freed[a] + Cardinality({k \in links : k[1] = a})]
    BY <1>9 DEF FinishDelete
  <2> HIDE DEF links
  <2>3. freed' \in [Activities -> Nat]
    <3>1. \A a \in Activities : freed[a] \in Nat
      BY DEF TypeOK
    <3> QED BY <2>1, <2>2, <3>1
  <2>4. conn' \subseteq Activities \X Listeners \X Threads
    BY <1>9 DEF FinishDelete, TypeOK
  <2> QED BY <1>9, <2>3, <2>4 DEF FinishDelete, TypeOK, TimersTypeOK
<1>10. CASE FinishEnd
  BY <1>10 DEF FinishEnd, TypeOK, TimersTypeOK
<1> QED BY <1>1, <1>2, <1>3, <1>4, <1>5, <1>6, <1>7, <1>8, <1>9, <1>10
        DEF EventLoop, Finish

LEMMA TypeRun ==
  ASSUME TypeOK, NEW t \in Threads, Run(t)
  PROVE  TypeOK'
<1> USE DEF vars, mainvars, runvars, actvars, tsvars
<1> DEFINE HeadOf(types) == /\ eq' \in [Threads -> Seq(ThreadEvent)]
                            /\ Head(eq[t]) \in ThreadEvent
                            /\ Head(eq[t]).type \in types
<1>0. \A types : Dequeue(t, types) => HeadOf(types)
  BY DequeueType DEF TypeOK
<1>1. CASE Start(t)
  BY <1>1 DEF Start, TypeOK, TimersTypeOK
<1>2. CASE HandleRegister(t)
  <2>1. HeadOf({"Register"})
    BY <1>2, <1>0 DEF HandleRegister
  <2>2. PICK a \in Activities : a = Head(eq[t]).a
    BY <2>1, ThreadEventFields
  <2>3. PICK p \in PeriodsAfter(a) :
          /\ period' = [period EXCEPT ![a] = p]
          /\ IF RepeatOf(a, p) > 0
               THEN RegisterListener(timer, t, a, p, tmr_amap[t])
               ELSE UNCHANGED <<tsvars, tmr_amap>>
    BY <1>2, <2>2 DEF HandleRegister
  <2>4. p \in Periods \union {0} /\ (RepeatOf(a, p) > 0 => p \in Periods)
    BY RepeatingPeriod
  <2>5. /\ timer' \in [Timers -> Timer]
        /\ adding' \in [Threads -> Timers \union {NoTimer}]
        /\ tmr_amap' \in [Threads -> [Activities -> Timers \union {NoTimer}]]
    <3>1. CASE RepeatOf(a, p) > 0
      <4>1. timer \in [Timers -> Timer]
        BY DEF TypeOK, TimersTypeOK
      <4>2. tmr_amap[t] \in [Activities -> Timers \union {NoTimer}]
        BY DEF TypeOK
      <4> QED BY <2>3, <2>4, <3>1, <4>1, <4>2, RegisterListenerType
    <3>2. CASE ~(RepeatOf(a, p) > 0)
      BY <2>3, <3>2 DEF TypeOK, TimersTypeOK
    <3> QED BY <3>1, <3>2
  <2>6. loopq' \in Seq(LoopEvent)
    BY <1>2, <2>2, PublishedType DEF HandleRegister, TypeOK
  <2>7. period' \in [Activities -> Periods \union {0}]
    BY <2>3, <2>4 DEF TypeOK
  <2>8. activity_set' \in [Threads -> SUBSET Activities]
    BY <1>2, <2>2 DEF HandleRegister, TypeOK
  <2> QED BY <1>2, <2>1, <2>5, <2>6, <2>7, <2>8 DEF HandleRegister, TypeOK, TimersTypeOK
<1>3. CASE JoinTimer(t)
  <2>1. PICK tm \in Timers : tm = adding[t]
    BY <1>3 DEF JoinTimer, AddListener, TypeOK, TimersTypeOK
  <2>2. timer' = [timer EXCEPT ![tm].lis = timer[tm].lis \union {t}]
    BY <1>3, <2>1 DEF JoinTimer, AddListener, TypeOK, TimersTypeOK
  <2>3. timer' \in [Timers -> Timer]
    <3>1. timer \in [Timers -> Timer]
      BY DEF TypeOK, TimersTypeOK
    <3>2. timer[tm].lis \union {t} \in SUBSET Threads
      BY <3>1 DEF Timer
    <3> QED BY <2>2, <3>1, <3>2 DEF Timer
  <2>4. adding' \in [Threads -> Timers \union {NoTimer}]
    BY <1>3 DEF JoinTimer, AddListener, TypeOK, TimersTypeOK
  <2> QED BY <1>3, <2>3, <2>4 DEF JoinTimer, AddListener, TypeOK, TimersTypeOK
<1>4. CASE HandleUnregister(t)
  <2>1. HeadOf({"Unregister"})
    BY <1>4, <1>0 DEF HandleUnregister
  <2>2. PICK a \in Activities : a = Head(eq[t]).a
    BY <2>1, ThreadEventFields
  <2>3. CASE a \in activity_set[t]
    <3>1. PICK q \in Published(t, a) : loopq' = Append(q, FromThread("Exit", t, a))
      BY <1>4, <2>2, <2>3 DEF HandleUnregister
    <3>2. q \in Seq(LoopEvent)
      BY PublishedType DEF TypeOK
    <3>3. loopq' \in Seq(LoopEvent)
      BY <3>1, <3>2, AppendProperties, LoopEventsMade
    <3>4. ExitActivity(t, a)
      BY <1>4, <2>2, <2>3 DEF HandleUnregister
    <3> QED BY <1>4, <2>1, <3>3, <3>4, ExitActivityType
            DEF HandleUnregister, TypeOK, TimersTypeOK
  <2>4. CASE a \notin activity_set[t]
    BY <1>4, <2>1, <2>2, <2>4 DEF HandleUnregister, TypeOK, TimersTypeOK
  <2> QED BY <2>3, <2>4
<1>5. CASE HandleTimer(t)
  <2>1. HeadOf({"TimerExpired"})
    BY <1>5, <1>0 DEF HandleTimer
  <2>2. Head(eq[t]).tm \in Timers
    BY <2>1, ThreadEventFields
  <2> QED BY <1>5, <2>1, <2>2 DEF HandleTimer, TypeOK, TimersTypeOK
<1>6. CASE EndTimer(t)
  <2>1. timer' \in [Timers -> Timer]
    <3>1. timer \in [Timers -> Timer] /\ cur[t] \in Timers \union {NoTimer}
      BY DEF TypeOK, TimersTypeOK
    <3>2. Restarted(timer, cur[t]) \in [Timers -> Timer]
      <4>1. CASE cur[t] \in Timers
        BY <3>1, <4>1, TimerOpsType
      <4>2. CASE cur[t] = NoTimer
        BY <3>1, <4>2, NoTimerAssumption DEF Restarted
      <4> QED BY <3>1, <4>1, <4>2
    <3> QED BY <1>6, <3>1, <3>2 DEF EndTimer
  <2> QED BY <1>6, <2>1 DEF EndTimer, TypeOK, TimersTypeOK
<1>7. CASE HandlePost(t)
  <2>1. HeadOf({"Pause", "Resume", "Execute", "TimeoutChange"})
    BY <1>7, <1>0 DEF HandlePost
  <2>2. PICK e \in ThreadEvent : e = Head(eq[t])
    BY <2>1
  <2>3. e.a \in Activities /\ (e.type = "TimeoutChange" => e.to \in Periods)
    BY <2>1, <2>2, ThreadEventFields
  <2>4. /\ timer' \in [Timers -> Timer]
        /\ adding' \in [Threads -> Timers \union {NoTimer}]
        /\ tmr_amap' \in [Threads -> [Activities -> Timers \union {NoTimer}]]
    <3>1. CASE e.type = "TimeoutChange" /\ tmr_amap[t][e.a] # NoTimer
      BY <1>7, <2>2, <2>3, <3>1, NewTimeoutType DEF HandlePost
    <3>2. CASE ~(e.type = "TimeoutChange" /\ tmr_amap[t][e.a] # NoTimer)
      BY <1>7, <2>2, <3>2 DEF HandlePost, TypeOK, TimersTypeOK
    <3> QED BY <3>1, <3>2
  <2>5. loopq' \in Seq(LoopEvent)
    BY <1>7, <2>2, <2>3, PublishedType DEF HandlePost, TypeOK
  <2>6. period' \in [Activities -> Periods \union {0}]
    BY <1>7, <2>2, <2>3 DEF HandlePost, TypeOK
  <2>7. paused' \in [Activities -> BOOLEAN]
    BY <1>7, <2>2, <2>3 DEF HandlePost, TypeOK
  <2> QED BY <1>7, <2>1, <2>4, <2>5, <2>6, <2>7 DEF HandlePost, TypeOK, TimersTypeOK
<1>8. CASE LeaveLoop(t)
  <2>1. HeadOf({"ThreadExit", "ZeroActivities"})
    BY <1>8, <1>0 DEF LeaveLoop
  <2> QED BY <1>8, <2>1 DEF LeaveLoop, Destroys, TypeOK, TimersTypeOK
<1>9. CASE Drain(t)
  <2>1. eq[t] # <<>> => Tail(eq[t]) \in Seq(ThreadEvent)
    BY HeadTailProperties DEF TypeOK
  <2>2. eq' \in [Threads -> Seq(ThreadEvent)]
    BY <1>9, <2>1, ZenonT(60) DEF Drain, TypeOK
  <2> QED BY <1>9, <2>2 DEF Drain, TypeOK, TimersTypeOK
<1>10. CASE EndRun(t)
  BY <1>10, AppendProperties, LoopEventsMade DEF EndRun, TypeOK, TimersTypeOK
<1>11. ASSUME NEW a \in Activities, ExecuteOnTimer(t, a)
       PROVE  TypeOK'
  <2>1. todo' \in [Threads -> SUBSET Activities]
    BY <1>11 DEF ExecuteOnTimer, TypeOK
  <2>2. CASE RepeatOf(a, period[a]) > 0
    <3>1. PICK p \in PeriodsAfter(a) :
            /\ period' = [period EXCEPT ![a] = p]
            /\ IF p # timer[cur[t]].timeout
                 THEN NewTimeout(t, a, p) /\ UNCHANGED again
                 ELSE again' = [again EXCEPT ![t] = TRUE] /\ UNCHANGED <<tsvars, tmr_amap>>
      BY <1>11, <2>2 DEF ExecuteOnTimer
    <3>2. p \in Periods
      <4>1. period[a] > 0
        BY <2>2 DEF RepeatOf
      <4> QED BY <4>1, RepeatingPeriod
    <3>3. loopq' \in Seq(LoopEvent)
      BY <1>11, <2>2, PublishedType DEF ExecuteOnTimer, TypeOK
    <3>4. period' \in [Activities -> Periods \union {0}]
      BY <3>1, <3>2 DEF TypeOK
    <3>5. CASE p # timer[cur[t]].timeout
      BY <1>11, <2>1, <3>1, <3>2, <3>3, <3>4, <3>5, NewTimeoutType
         DEF ExecuteOnTimer, TypeOK, TimersTypeOK
    <3>6. CASE p = timer[cur[t]].timeout
      BY <1>11, <2>1, <3>1, <3>3, <3>4, <3>6, ZenonT(60) DEF ExecuteOnTimer, TypeOK, TimersTypeOK
    <3> QED BY <3>5, <3>6
  <2>3. CASE ~(RepeatOf(a, period[a]) > 0)
    BY <1>11, <2>1, <2>3 DEF ExecuteOnTimer, TypeOK, TimersTypeOK
  <2> QED BY <2>2, <2>3
<1>12. ASSUME NEW a \in Activities, QuitActivity(t, a)
       PROVE  TypeOK'
  <2>1. ExitActivity(t, a) /\ loopq' \in Seq(LoopEvent)
    BY <1>12, PublishedType DEF QuitActivity, TypeOK
  <2> QED BY <1>12, <2>1, ExitActivityType DEF QuitActivity, TypeOK, TimersTypeOK
<1> QED BY <1>1, <1>2, <1>3, <1>4, <1>5, <1>6, <1>7, <1>8, <1>9, <1>10, <1>11, <1>12
        DEF Run

LEMMA TypeExpire ==
  ASSUME TypeOK, NEW tm \in Timers, Expire(tm)
  PROVE  TypeOK'
<1> USE DEF vars, mainvars, runvars, actvars, tsvars
<1>1. timer' \in [Timers -> Timer]
  <2>1. timer \in [Timers -> Timer] /\ timer' = [timer EXCEPT ![tm] = [@ EXCEPT !.pending = FALSE]]
    BY DEF Expire, Expired, TypeOK, TimersTypeOK
  <2> QED BY <2>1 DEF Timer
<1>2. eq' \in [Threads -> Seq(ThreadEvent)]
  <2>1. \A t \in Threads : Append(eq[t], [type |-> "TimerExpired", tm |-> tm]) \in Seq(ThreadEvent)
    BY AppendProperties, ThreadEventsMade DEF TypeOK
  <2> QED BY <2>1 DEF Expire, TypeOK
<1> QED BY <1>1, <1>2 DEF Expire, TypeOK, TimersTypeOK

LEMMA TypeNext == TypeOK /\ [Next]_vars => TypeOK'
<1> SUFFICES ASSUME TypeOK, [Next]_vars PROVE TypeOK'
  OBVIOUS
<1>1. CASE UNCHANGED vars
  BY <1>1 DEF vars, mainvars, runvars, actvars, tsvars, TypeOK, TimersTypeOK
<1> QED BY <1>1, TypeClient, TypeMain, TypeRun, TypeExpire DEF Next, Ended

(***************************************************************************)
(* Every variable keeps its type: no step of the engine, whatever its      *)
(* threads, activities and timers, leaves the states TypeOK describes.     *)
(***************************************************************************)
THEOREM TypeCorrect == Spec => []TypeOK
BY TypeInit, TypeNext, PTL DEF Spec

-------------------------------------------------------------------------------
(***************************************************************************)
(* The inductive invariant of the main thread's bookkeeping.               *)
(***************************************************************************)
\* a link is to a thread of the service, with the token of the activity
LinksInService ==
  /\ \A a \in Activities, l \in Listeners, t \in Threads :
       <<a, l, t>> \in conn => t \in svc /\ token[t] = TokenOf[a]
  /\ \A t \in svc : token[t] # None
  /\ \A t, u \in svc : token[t] = token[u] => t = u

\* CopiesAgree, for every CuThread object and link by link
LinksCopied ==
  /\ \A a \in Activities, l \in Listeners, t \in Threads :
       <<a, l>> \in alimmap[t] <=> <<a, l, t>> \in conn
  /\ \A t \in svc : \E a \in Activities, l \in Listeners : <<a, l, t>> \in conn

LeaveEvents == {"ThreadExit", "ZeroActivities"}

\* a CuThread that is not constructed yet has done nothing
Unborn ==
  \A t \in Threads : token[t] = None =>
    pc[t] = "off" /\ t \notin listening /\ ~Contains(eq[t], LeaveEvents)

\* ServiceThreadsUsable without its condition
Usable ==
  \A t \in svc : /\ t \in threads /\ t \in listening
                 /\ pc[t] \in {"start", "loop", "timer"}
                 /\ ~Contains(eq[t], LeaveEvents)

\* nothing is registered behind the event that ends the loop
ZeroIsLast(q) ==
  \A i, j \in DOMAIN q : q[i].type = "ZeroActivities" /\ i < j => q[j].type # "Register"

EngineInv ==
  /\ TypeOK
  /\ LinksInService
  /\ ClientTurn => LinksCopied /\ Unborn /\ Usable
  /\ \A t \in Threads : ZeroIsLast(eq[t])
  /\ NoRegisterDiscarded

(***************************************************************************)
(* Queues: what an event more or less changes.                             *)
(***************************************************************************)
LEMMA QueueAppend ==
  ASSUME NEW q \in Seq(ThreadEvent), NEW e, NEW types
  PROVE  /\ Contains(Append(q, e), types) <=> Contains(q, types) \/ e.type \in types
         /\ ZeroIsLast(q) /\ (e.type = "Register" => ~Contains(q, LeaveEvents))
              => ZeroIsLast(Append(q, e))
<1>1. /\ DOMAIN Append(q, e) = DOMAIN q \union {Len(q) + 1}
      /\ Len(q) \in Nat /\ DOMAIN q = 1..Len(q)
      /\ \A i \in DOMAIN q : Append(q, e)[i] = q[i]
      /\ Append(q, e)[Len(q) + 1] = e
  OBVIOUS
<1>2. Contains(Append(q, e), types) <=> Contains(q, types) \/ e.type \in types
  BY <1>1 DEF Contains
<1>3. ASSUME ZeroIsLast(q), e.type = "Register" => ~Contains(q, LeaveEvents)
      PROVE  ZeroIsLast(Append(q, e))
  BY <1>1, <1>3 DEF ZeroIsLast, Contains, LeaveEvents
<1> QED BY <1>2, <1>3

LEMMA QueueTail ==
  ASSUME NEW q \in Seq(ThreadEvent), q # <<>>, NEW types
  PROVE  /\ Contains(Tail(q), types) => Contains(q, types)
         /\ Head(q).type \in types => Contains(q, types)
         /\ ZeroIsLast(q) => ZeroIsLast(Tail(q))
         /\ ZeroIsLast(q) /\ Head(q).type = "ZeroActivities"
              => ~Contains(Tail(q), {"Register"})
<1>1. /\ Len(q) \in Nat /\ 1 \in DOMAIN q /\ DOMAIN q = 1..Len(q) /\ q[1] = Head(q)
      /\ \A i \in DOMAIN Tail(q) : Tail(q)[i] = q[i + 1] /\ i + 1 \in DOMAIN q /\ 1 < i + 1
      /\ DOMAIN Tail(q) \subseteq Nat
  OBVIOUS
<1>2. Contains(Tail(q), types) => Contains(q, types)
  BY <1>1 DEF Contains
<1>3. Head(q).type \in types => Contains(q, types)
  BY <1>1 DEF Contains
<1>4. ZeroIsLast(q) => ZeroIsLast(Tail(q))
  <2> SUFFICES ASSUME ZeroIsLast(q),
                      NEW i \in DOMAIN Tail(q), NEW j \in DOMAIN Tail(q),
                      Tail(q)[i].type = "ZeroActivities", i < j
               PROVE  Tail(q)[j].type # "Register"
    BY DEF ZeroIsLast
  <2>1. i + 1 < j + 1
    BY <1>1
  <2> QED BY <1>1, <2>1 DEF ZeroIsLast
<1>5. ZeroIsLast(q) /\ Head(q).type = "ZeroActivities" => ~Contains(Tail(q), {"Register"})
  BY <1>1 DEF ZeroIsLast, Contains
<1> QED BY <1>2, <1>3, <1>4, <1>5

(***************************************************************************)
(* The steps that only lengthen the queues of the threads, with events     *)
(* that neither register an activity nor end the thread, or do not touch   *)
(* them, keep the invariant.                                               *)
(***************************************************************************)
LEMMA QuietStep ==
  ASSUME EngineInv, TypeOK', ClientTurn' => ClientTurn,
         UNCHANGED <<conn, svc, threads, token, alimmap, listening, pc, destroy>>,
         \A t \in Threads :
           \/ eq'[t] = eq[t]
           \/ \E e \in ThreadEvent : /\ e.type \notin LeaveEvents \union {"Register"}
                                     /\ eq'[t] = Append(eq[t], e)
  PROVE  EngineInv'
<1>1. ASSUME NEW t \in Threads
      PROVE  /\ ZeroIsLast(eq'[t])
             /\ Contains(eq'[t], LeaveEvents) => Contains(eq[t], LeaveEvents)
             /\ Contains(eq'[t], {"Register"}) => Contains(eq[t], {"Register"})
  <2>1. eq[t] \in Seq(ThreadEvent) /\ ZeroIsLast(eq[t])
    BY DEF EngineInv, TypeOK
  <2>2. CASE eq'[t] = eq[t]
    BY <2>1, <2>2
  <2>3. ASSUME NEW e \in ThreadEvent, e.type \notin LeaveEvents \union {"Register"},
               eq'[t] = Append(eq[t], e)
        PROVE  /\ ZeroIsLast(eq'[t])
               /\ Contains(eq'[t], LeaveEvents) => Contains(eq[t], LeaveEvents)
               /\ Contains(eq'[t], {"Register"}) => Contains(eq[t], {"Register"})
    <3>1. e.type \notin LeaveEvents /\ e.type \notin {"Register"}
      BY <2>3
    <3> QED BY <2>1, <2>3, <3>1, QueueAppend
  <2> QED BY <2>2, <2>3
<1>2. LinksInService'
  BY DEF EngineInv, LinksInService
<1>3. ClientTurn' => LinksCopied' /\ Unborn' /\ Usable'
  <2>1. ClientTurn => LinksCopied'
    BY DEF EngineInv, LinksCopied
  <2>2. ClientTurn => Unborn'
    BY <1>1 DEF EngineInv, Unborn
  <2>3. ClientTurn => Usable'
    BY <1>1 DEF EngineInv, Usable, TypeOK
  <2> QED BY <2>1, <2>2, <2>3
<1>4. NoRegisterDiscarded'
  BY <1>1 DEF EngineInv, NoRegisterDiscarded
<1> QED BY <1>1, <1>2, <1>3, <1>4 DEF EngineInv

(***************************************************************************)
(* What a step of a background thread does to the queues and to the state  *)
(* of the threads.  JoinTimer only changes the timer service.              *)
(***************************************************************************)
LEMMA RunStep ==
  ASSUME TypeOK, NEW t \in Threads, Run(t), ~JoinTimer(t)
  PROVE  /\ UNCHANGED mainvars
         /\ \A u \in Threads \ {t} :
              eq'[u] = eq[u] /\ pc'[u] = pc[u] /\ destroy'[u] = destroy[u]
         /\ eq'[t] = eq[t] \/ (eq[t] # <<>> /\ eq'[t] = Tail(eq[t]))
         /\ \/ /\ pc[t] \in {"start", "loop", "timer"}
               /\ pc'[t] \in {"start", "loop", "timer"}
            \/ /\ pc[t] = "loop" /\ eq[t] # <<>> /\ eq'[t] = Tail(eq[t])
               /\ Head(eq[t]).type \in LeaveEvents
               /\ destroy'[t] = (Head(eq[t]).type = "ZeroActivities")
            \/ /\ pc[t] \in {"drain", "exit"}
               /\ pc'[t] \in {"drain", "exit", "done"}
               /\ destroy'[t] = destroy[t]
<1> USE DEF runvars, TypeOK
<1>1. CASE Start(t)
  BY <1>1 DEF Start
<1>2. CASE HandleRegister(t)
  BY <1>2 DEF HandleRegister, Dequeue, Idle
<1>3. CASE HandleUnregister(t)
  BY <1>3 DEF HandleUnregister, Dequeue, Idle
<1>4. CASE HandleTimer(t)
  BY <1>4 DEF HandleTimer, Dequeue, Idle
<1>5. CASE EndTimer(t)
  BY <1>5 DEF EndTimer, Idle
<1>6. CASE HandlePost(t)
  BY <1>6 DEF HandlePost, Dequeue, Idle
<1>7. CASE LeaveLoop(t)
  BY <1>7 DEF LeaveLoop, Dequeue, Idle, LeaveEvents, Destroys
<1>8. CASE Drain(t)
  BY <1>8 DEF Drain
<1>9. CASE EndRun(t)
  BY <1>9 DEF EndRun
<1>10. ASSUME NEW a \in Activities, ExecuteOnTimer(t, a) \/ QuitActivity(t, a)
       PROVE  /\ UNCHANGED <<mainvars, eq, pc, destroy>>
              /\ pc[t] \in {"timer", "exit"}
  BY <1>10 DEF ExecuteOnTimer, QuitActivity, Idle
<1> QED BY <1>1, <1>2, <1>3, <1>4, <1>5, <1>6, <1>7, <1>8, <1>9, <1>10 DEF Run

LEMMA InvRun ==
  ASSUME EngineInv, TypeOK', NEW t \in Threads, Run(t), ~JoinTimer(t)
  PROVE  EngineInv'
<1>1. TypeOK
  BY DEF EngineInv
<1>2. UNCHANGED <<mpc, conn, svc, threads, token, alimmap, listening>>
  BY <1>1, RunStep DEF mainvars
<1>3. \A u \in Threads \ {t} :
        eq'[u] = eq[u] /\ pc'[u] = pc[u] /\ destroy'[u] = destroy[u]
  BY <1>1, RunStep
<1>4. /\ ZeroIsLast(eq'[t])
      /\ \A types : Contains(eq'[t], types) => Contains(eq[t], types)
  <2>1. eq[t] \in Seq(ThreadEvent) /\ ZeroIsLast(eq[t])
    BY <1>1 DEF EngineInv, TypeOK
  <2>2. CASE eq'[t] = eq[t]
    BY <2>1, <2>2
  <2>3. CASE eq[t] # <<>> /\ eq'[t] = Tail(eq[t])
    BY <2>1, <2>3, QueueTail
  <2> QED BY <1>1, <2>2, <2>3, RunStep
<1>5. pc[t] \notin {"off", "done"}
  BY <1>1, RunStep
<1>6. LinksInService'
  BY <1>2 DEF EngineInv, LinksInService
<1>7. ClientTurn' => LinksCopied'
  BY <1>2 DEF EngineInv, LinksCopied, ClientTurn
<1>8. ClientTurn' => Unborn'
  BY <1>2, <1>3, <1>4, <1>5 DEF EngineInv, Unborn, ClientTurn
<1>9. ClientTurn' => Usable'
  <2> SUFFICES ASSUME ClientTurn', NEW u \in svc
               PROVE  /\ u \in threads /\ u \in listening
                      /\ pc'[u] \in {"start", "loop", "timer"}
                      /\ ~Contains(eq'[u], LeaveEvents)
    BY <1>2 DEF Usable
  <2>1. /\ u \in threads /\ u \in listening
        /\ pc[u] \in {"start", "loop", "timer"}
        /\ ~Contains(eq[u], LeaveEvents)
    BY <1>2 DEF EngineInv, Usable, ClientTurn
  <2>2. u \in Threads /\ eq[u] \in Seq(ThreadEvent)
    BY <1>1 DEF TypeOK
  <2>3. CASE u # t
    BY <1>3, <2>1, <2>2, <2>3
  <2>4. CASE u = t
    <3>1. ~(eq[t] # <<>> /\ Head(eq[t]).type \in LeaveEvents)
      BY <2>1, <2>2, <2>4, QueueTail
    <3>2. pc'[t] \in {"start", "loop", "timer"}
      BY <1>1, <2>1, <2>4, <3>1, RunStep
    <3> QED BY <1>4, <2>1, <2>4, <3>2
  <2> QED BY <2>3, <2>4
<1>10. NoRegisterDiscarded'
  <2> SUFFICES ASSUME NEW u \in Threads, pc'[u] \in {"drain", "exit", "done"}, destroy'[u]
               PROVE  ~Contains(eq'[u], {"Register"})
    BY DEF NoRegisterDiscarded
  <2>1. CASE u # t
    BY <1>3, <2>1 DEF EngineInv, NoRegisterDiscarded
  <2>2. CASE u = t
    <3>1. eq[t] \in Seq(ThreadEvent) /\ ZeroIsLast(eq[t])
      BY <1>1 DEF EngineInv, TypeOK
    <3>2. CASE /\ eq[t] # <<>> /\ eq'[t] = Tail(eq[t])
               /\ destroy'[t] = (Head(eq[t]).type = "ZeroActivities")
      BY <2>2, <3>1, <3>2, QueueTail
    <3>3. CASE pc[t] \in {"drain", "exit"} /\ destroy'[t] = destroy[t]
      BY <1>4, <2>2, <3>3 DEF EngineInv, NoRegisterDiscarded
    <3>4. pc'[t] \notin {"start", "loop", "timer"}
      BY <2>2
    <3> QED BY <1>1, <3>2, <3>3, <3>4, RunStep
  <2> QED BY <2>1, <2>2
<1>11. \A u \in Threads : ZeroIsLast(eq'[u])
  BY <1>3, <1>4 DEF EngineInv
<1> QED BY <1>6, <1>7, <1>8, <1>9, <1>10, <1>11 DEF EngineInv

LEMMA InvJoinTimer ==
  ASSUME EngineInv, TypeOK', NEW t \in Threads, JoinTimer(t)
  PROVE  EngineInv'
BY QuietStep DEF JoinTimer, mainvars, runvars, ClientTurn

LEMMA InvRegister ==
  ASSUME EngineInv, TypeOK', NEW a \in Activities, NEW l \in Listeners,
         RegisterActivity(a, l)
  PROVE  EngineInv'
<1>1. PICK t \in ThreadsFor(TokenOf[a]) :
        /\ token' = [token EXCEPT ![t] = TokenOf[a]]
        /\ svc' = svc \union {t}
        /\ listening' = IF token[t] = None THEN listening \union {t} ELSE listening
        /\ conn' = conn \union {<<a, l, t>>}
        /\ threads' = IF pc[t] = "off" THEN threads \union {t} ELSE threads
        /\ pc' = [pc EXCEPT ![t] = IF @ = "off" THEN "start" ELSE @]
        /\ alimmap' = [alimmap EXCEPT ![t] = @ \union {<<a, l>>}]
        /\ Push(t, AEvent("Register", a))
  BY DEF RegisterActivity
<1>2. TypeOK /\ ClientTurn /\ destroy' = destroy
  BY DEF EngineInv, RegisterActivity
<1>3. /\ LinksInService /\ LinksCopied /\ Unborn /\ Usable
      /\ NoRegisterDiscarded /\ \A u \in Threads : ZeroIsLast(eq[u])
  BY <1>2 DEF EngineInv
<1>4. TokenOf[a] \in Tokens /\ TokenOf[a] # None
  BY ActivityAssumption
<1>5. /\ t \in Threads
      /\ \/ t \in svc /\ token[t] = TokenOf[a]
         \/ /\ t \notin svc /\ token[t] = None
            /\ \A u \in svc : token[u] # TokenOf[a]
  BY <1>2, <1>3 DEF ThreadsFor, TypeOK, LinksInService
<1>6. /\ token'[t] = TokenOf[a]
      /\ \A u \in Threads \ {t} : /\ token'[u] = token[u] /\ pc'[u] = pc[u]
                                  /\ alimmap'[u] = alimmap[u] /\ eq'[u] = eq[u]
      /\ alimmap'[t] = alimmap[t] \union {<<a, l>>}
      /\ eq'[t] = Append(eq[t], AEvent("Register", a))
  BY <1>1, <1>2, <1>5 DEF TypeOK, Push
<1>7. /\ ~Contains(eq[t], LeaveEvents)
      /\ t \in threads' /\ t \in listening' /\ pc'[t] \in {"start", "loop", "timer"}
  <2>1. CASE t \in svc
    BY <1>1, <1>2, <1>3, <1>5, <2>1 DEF Usable, LinksInService, TypeOK
  <2>2. CASE token[t] = None
    BY <1>1, <1>2, <1>3, <1>5, <2>2 DEF Unborn, TypeOK
  <2> QED BY <1>5, <2>1, <2>2
<1>8. /\ ZeroIsLast(eq'[t])
      /\ ~Contains(eq'[t], LeaveEvents)
  <2>1. eq[t] \in Seq(ThreadEvent) /\ ZeroIsLast(eq[t])
    BY <1>2, <1>3, <1>5 DEF TypeOK
  <2>2. AEvent("Register", a).type \notin LeaveEvents
    BY DEF AEvent, LeaveEvents
  <2> QED BY <1>6, <1>7, <2>1, <2>2, QueueAppend
<1>9. LinksInService'
  <2>1. ASSUME NEW b \in Activities, NEW m \in Listeners, NEW u \in Threads,
               <<b, m, u>> \in conn'
        PROVE  u \in svc' /\ token'[u] = TokenOf[b]
    <3>1. CASE <<b, m, u>> \in conn
      BY <1>1, <1>3, <1>5, <1>6, <3>1 DEF LinksInService
    <3>2. CASE <<b, m, u>> = <<a, l, t>>
      BY <1>1, <1>6, <3>2
    <3> QED BY <1>1, <2>1, <3>1, <3>2
  <2>2. \A u \in svc' : u \in Threads /\ token'[u] # None
    BY <1>1, <1>2, <1>3, <1>4, <1>5, <1>6 DEF LinksInService, TypeOK
  <2>3. \A u, v \in svc' : token'[u] = token'[v] => u = v
    BY <1>1, <1>2, <1>3, <1>5, <1>6 DEF LinksInService, TypeOK
  <2> QED BY <2>1, <2>2, <2>3 DEF LinksInService
<1>10. LinksCopied'
  <2>1. ASSUME NEW b \in Activities, NEW m \in Listeners, NEW u \in Threads
        PROVE  <<b, m>> \in alimmap'[u] <=> <<b, m, u>> \in conn'
    <3>1. <<b, m>> \in alimmap[u] <=> <<b, m, u>> \in conn
      BY <1>3 DEF LinksCopied
    <3>2. CASE u = t
      BY <1>1, <1>6, <3>1, <3>2
    <3>3. CASE u # t
      BY <1>1, <1>6, <3>1, <3>3
    <3> QED BY <3>2, <3>3
  <2>2. \A u \in svc' : \E b \in Activities, m \in Listeners : <<b, m, u>> \in conn'
    BY <1>1, <1>3 DEF LinksCopied
  <2> QED BY <2>1, <2>2 DEF LinksCopied
<1>11. Unborn'
  <2> SUFFICES ASSUME NEW u \in Threads, token'[u] = None
               PROVE  pc'[u] = "off" /\ u \notin listening' /\ ~Contains(eq'[u], LeaveEvents)
    BY DEF Unborn
  <2>1. u # t /\ token[u] = None
    BY <1>4, <1>6
  <2> QED BY <1>1, <1>3, <1>6, <2>1 DEF Unborn
<1>12. Usable'
  <2> SUFFICES ASSUME NEW u \in svc'
               PROVE  /\ u \in threads' /\ u \in listening'
                      /\ pc'[u] \in {"start", "loop", "timer"}
                      /\ ~Contains(eq'[u], LeaveEvents)
    BY DEF Usable
  <2>1. CASE u = t
    BY <1>7, <1>8, <2>1
  <2>2. CASE u # t
    BY <1>1, <1>2, <1>3, <1>6, <2>2 DEF Usable, TypeOK
  <2> QED BY <2>1, <2>2
<1>13. NoRegisterDiscarded'
  BY <1>2, <1>3, <1>6, <1>7 DEF NoRegisterDiscarded
<1>14. \A u \in Threads : ZeroIsLast(eq'[u])
  BY <1>3, <1>6, <1>8
<1> QED BY <1>9, <1>10, <1>11, <1>12, <1>13, <1>14 DEF EngineInv

LEMMA InvUnregister ==
  ASSUME EngineInv, TypeOK', NEW a \in Activities, UnregisterActivity(a)
  PROVE  EngineInv'
<1>1. PICK t \in ThreadsOf(a) :
        /\ alimmap' = [alimmap EXCEPT ![t] = Erased(@, a)]
        /\ Push(t, AEvent("Unregister", a))
        /\ conn' = conn \ LinksOf(a)
        /\ svc' = ServiceAfter(t, conn')
  BY DEF UnregisterActivity
<1>2. /\ TypeOK /\ ClientTurn
      /\ UNCHANGED <<threads, token, listening, pc, destroy>>
  BY DEF EngineInv, UnregisterActivity, runvars
<1>3. /\ LinksInService /\ LinksCopied /\ Unborn /\ Usable
      /\ NoRegisterDiscarded /\ \A u \in Threads : ZeroIsLast(eq[u])
  BY <1>2 DEF EngineInv
<1>4. t \in Threads
  BY DEF ThreadsOf
<1>5. \A b \in Activities, m \in Listeners, u \in Threads :
        <<b, m, u>> \in conn' <=> <<b, m, u>> \in conn /\ b # a
  BY <1>1 DEF LinksOf
<1>6. \A m \in Listeners, u \in Threads : <<a, m, u>> \in conn => u = t
  <2>1. PICK k \in Listeners : <<a, k, t>> \in conn
    BY DEF ThreadsOf
  <2> QED BY <1>3, <1>4, <2>1 DEF LinksInService
<1>7. /\ \A u \in Threads \ {t} : alimmap'[u] = alimmap[u] /\ eq'[u] = eq[u]
      /\ alimmap'[t] = {p \in alimmap[t] : p[1] # a}
      /\ eq'[t] = Append(eq[t], AEvent("Unregister", a))
  BY <1>1, <1>2, <1>4 DEF TypeOK, Push, Erased
<1>8. /\ ZeroIsLast(eq'[t])
      /\ Contains(eq'[t], LeaveEvents) => Contains(eq[t], LeaveEvents)
      /\ Contains(eq'[t], {"Register"}) => Contains(eq[t], {"Register"})
  <2>1. eq[t] \in Seq(ThreadEvent) /\ ZeroIsLast(eq[t])
    BY <1>2, <1>3, <1>4 DEF TypeOK
  <2>2. AEvent("Unregister", a).type \notin LeaveEvents \union {"Register"}
    BY DEF AEvent, LeaveEvents
  <2> QED BY <1>7, <2>1, <2>2, QueueAppend
<1>9. svc' \subseteq svc /\ (\A u \in svc : u # t => u \in svc')
  BY <1>1 DEF ServiceAfter
<1>10. t \in svc' => \E b \in Activities, m \in Listeners : <<b, m, t>> \in conn'
  <2>1. t \in svc' => \E c \in conn' : c[3] = t
    BY <1>1 DEF ServiceAfter
  <2>2. \A c \in conn' : /\ c[1] \in Activities /\ c[2] \in Listeners
                         /\ c = <<c[1], c[2], c[3]>>
    BY DEF TypeOK
  <2> QED BY <2>1, <2>2
<1>11. LinksInService'
  <2>1. ASSUME NEW b \in Activities, NEW m \in Listeners, NEW u \in Threads,
               <<b, m, u>> \in conn'
        PROVE  u \in svc' /\ token'[u] = TokenOf[b]
    <3>1. u \in svc /\ token[u] = TokenOf[b]
      BY <1>3, <1>5, <2>1 DEF LinksInService
    <3>2. u = t => svc' = svc
      BY <1>1, <2>1 DEF ServiceAfter
    <3> QED BY <1>2, <1>9, <3>1, <3>2
  <2>2. \A u \in svc' : token'[u] # None
    BY <1>2, <1>3, <1>9 DEF LinksInService
  <2>3. \A u, v \in svc' : token'[u] = token'[v] => u = v
    BY <1>2, <1>3, <1>9 DEF LinksInService
  <2> QED BY <2>1, <2>2, <2>3 DEF LinksInService
<1>12. LinksCopied'
  <2>1. ASSUME NEW b \in Activities, NEW m \in Listeners, NEW u \in Threads
        PROVE  <<b, m>> \in alimmap'[u] <=> <<b, m, u>> \in conn'
    <3>1. <<b, m>> \in alimmap[u] <=> <<b, m, u>> \in conn
      BY <1>3 DEF LinksCopied
    <3>2. CASE u = t
      BY <1>5, <1>7, <3>1, <3>2
    <3>3. CASE u # t
      BY <1>5, <1>6, <1>7, <3>1, <3>3
    <3> QED BY <3>2, <3>3
  <2>2. ASSUME NEW u \in svc'
        PROVE  \E b \in Activities, m \in Listeners : <<b, m, u>> \in conn'
    <3>1. PICK b \in Activities, m \in Listeners : <<b, m, u>> \in conn
      BY <1>3, <1>9 DEF LinksCopied
    <3>2. u \in Threads
      BY <2>2 DEF TypeOK
    <3>3. u # t => b # a
      BY <1>6, <3>1, <3>2
    <3> QED BY <1>5, <1>10, <3>1, <3>2, <3>3
  <2> QED BY <2>1, <2>2 DEF LinksCopied
<1>13. Unborn'
  BY <1>2, <1>3, <1>7, <1>8 DEF Unborn
<1>14. Usable'
  BY <1>2, <1>3, <1>7, <1>8, <1>9 DEF Usable, TypeOK
<1>15. NoRegisterDiscarded'
  BY <1>2, <1>3, <1>7, <1>8 DEF NoRegisterDiscarded
<1>16. \A u \in Threads : ZeroIsLast(eq'[u])
  BY <1>3, <1>7, <1>8
<1> QED BY <1>11, <1>12, <1>13, <1>14, <1>15, <1>16 DEF EngineInv

LEMMA InvPost ==
  ASSUME EngineInv, TypeOK', NEW a \in Activities, PostTo(a)
  PROVE  EngineInv'
<1>1. PICK e \in ThreadEvent : PostEvent(a, e) /\ e.type \notin LeaveEvents \union {"Register"}
  BY ThreadEventsMade, ActivityAssumption, ZenonT(60) DEF PostTo, AEvent, LeaveEvents
<1>2. PICK t \in Threads : Push(t, e)
  BY <1>1 DEF PostEvent, ThreadsOf
<1>3. \A u \in Threads : eq'[u] = eq[u] \/ eq'[u] = Append(eq[u], e)
  BY <1>2 DEF Push, EngineInv, TypeOK
<1>4. /\ UNCHANGED <<conn, svc, threads, token, alimmap, listening, pc, destroy>>
      /\ ClientTurn' => ClientTurn
  BY <1>1 DEF PostEvent, mainvars, runvars, ClientTurn
<1> QED BY <1>1, <1>3, <1>4, QuietStep

LEMMA InvExpire ==
  ASSUME EngineInv, TypeOK', NEW tm \in Timers, Expire(tm)
  PROVE  EngineInv'
<1> DEFINE e == [type |-> "TimerExpired", tm |-> tm]
<1>1. e \in ThreadEvent /\ e.type \notin LeaveEvents \union {"Register"}
  BY ThreadEventsMade DEF LeaveEvents
<1>2. \A t \in Threads : eq'[t] = eq[t] \/ eq'[t] = Append(eq[t], e)
  BY DEF Expire
<1>3. /\ UNCHANGED <<conn, svc, threads, token, alimmap, listening, pc, destroy>>
      /\ ClientTurn' => ClientTurn
  BY DEF Expire, mainvars, runvars, ClientTurn
<1> HIDE DEF e
<1> QED BY <1>1, <1>2, <1>3, QuietStep

\* the steps of the main thread that leave the links and the threads alone
LEMMA InvMainQuiet ==
  ASSUME EngineInv, TypeOK',
         \/ ExitEventLoop \/ TakeEvents \/ OnResult \/ OnExitLoop
         \/ (\E p \in calls : Notify(p)) \/ StartFinish \/ FinishEnd
         \/ UNCHANGED vars
  PROVE  EngineInv'
<1>1. /\ UNCHANGED <<conn, svc, threads, token, alimmap, listening, eq, pc, destroy>>
      /\ ClientTurn' => ClientTurn
  BY DEF ExitEventLoop, TakeEvents, OnResult, OnExitLoop, Notify, StartFinish, FinishEnd,
         NextEvent, vars, mainvars, runvars, ClientTurn
<1> QED BY <1>1, QuietStep

LEMMA InvActivityExited ==
  ASSUME EngineInv, TypeOK', OnActivityExited
  PROVE  EngineInv'
<1>1. /\ TypeOK /\ ClientTurn
      /\ UNCHANGED <<mpc, conn, svc, threads, token, alimmap, listening, pc, destroy>>
  BY DEF EngineInv, OnActivityExited, NextEvent, runvars
<1>2. PICK t \in Threads : t = Head(qcopy).t
  BY <1>1, NextEventType, LoopEventFields DEF OnActivityExited, TypeOK
<1>3. CASE UNCHANGED eq
  BY <1>1, <1>3, QuietStep DEF ClientTurn
<1>4. CASE t \in listening /\ ZeroActivities(t) /\ Push(t, Event("ZeroActivities"))
  <2>1. /\ LinksInService /\ LinksCopied /\ Unborn /\ Usable
        /\ NoRegisterDiscarded /\ \A u \in Threads : ZeroIsLast(eq[u])
    BY <1>1 DEF EngineInv
  <2>2. t \notin svc
    BY <1>4, <2>1 DEF LinksCopied, ZeroActivities
  <2>3. token[t] # None
    BY <1>4, <2>1 DEF Unborn
  <2>4. \A u \in Threads \ {t} : eq'[u] = eq[u]
    BY <1>1, <1>4 DEF Push, TypeOK
  <2>5. /\ ZeroIsLast(eq'[t])
        /\ Contains(eq'[t], {"Register"}) => Contains(eq[t], {"Register"})
    <3>1. eq[t] \in Seq(ThreadEvent) /\ ZeroIsLast(eq[t])
      BY <1>1, <2>1 DEF TypeOK
    <3>2. eq'[t] = Append(eq[t], Event("ZeroActivities"))
      BY <1>1, <1>4 DEF Push, TypeOK
    <3>3. Event("ZeroActivities").type = "ZeroActivities"
      BY DEF Event
    <3> QED BY <3>1, <3>2, <3>3, QueueAppend
  <2>6. LinksInService' /\ LinksCopied'
    BY <1>1, <2>1 DEF LinksInService, LinksCopied
  <2>7. Unborn'
    BY <1>1, <2>1, <2>3, <2>4 DEF Unborn
  <2>8. Usable'
    BY <1>1, <2>1, <2>2, <2>4 DEF Usable, TypeOK
  <2>9. NoRegisterDiscarded' /\ \A u \in Threads : ZeroIsLast(eq'[u])
    BY <1>1, <2>1, <2>4, <2>5 DEF NoRegisterDiscarded
  <2> QED BY <2>6, <2>7, <2>8, <2>9 DEF EngineInv
<1> QED BY <1>2, <1>3, <1>4 DEF OnActivityExited

LEMMA InvAutoDestroy ==
  ASSUME EngineInv, TypeOK', OnAutoDestroy
  PROVE  EngineInv'
<1>1. /\ TypeOK /\ ClientTurn
      /\ UNCHANGED <<mpc, conn, svc, token, alimmap, eq, pc, destroy>>
  BY DEF EngineInv, OnAutoDestroy, NextEvent, runvars
<1>2. /\ LinksInService /\ LinksCopied /\ Unborn /\ Usable
      /\ NoRegisterDiscarded /\ \A u \in Threads : ZeroIsLast(eq[u])
  BY <1>1 DEF EngineInv
<1>3. PICK gone : /\ \A t \in gone : pc[t] = "done"
                  /\ threads' = threads \ gone
                  /\ listening' = listening \ gone
  BY DEF OnAutoDestroy
<1>4. LinksInService' /\ LinksCopied'
  BY <1>1, <1>2 DEF LinksInService, LinksCopied
<1>5. Unborn'
  BY <1>1, <1>2, <1>3 DEF Unborn
<1>6. Usable'
  BY <1>1, <1>2, <1>3 DEF Usable
<1>7. NoRegisterDiscarded' /\ \A u \in Threads : ZeroIsLast(eq'[u])
  BY <1>1, <1>2 DEF NoRegisterDiscarded
<1> QED BY <1>4, <1>5, <1>6, <1>7 DEF EngineInv

LEMMA InvFinishExit ==
  ASSUME EngineInv, TypeOK', NEW t \in Threads, FinishExit(t)
  PROVE  EngineInv'
<1>1. /\ TypeOK /\ ~ClientTurn'
      /\ UNCHANGED <<conn, svc, token, pc, destroy>>
  BY DEF EngineInv, FinishExit, ClientTurn, runvars
<1>2. ASSUME NEW u \in Threads
      PROVE  /\ ZeroIsLast(eq'[u])
             /\ Contains(eq'[u], {"Register"}) => Contains(eq[u], {"Register"})
  <2>1. eq[u] \in Seq(ThreadEvent) /\ ZeroIsLast(eq[u])
    BY DEF EngineInv, TypeOK
  <2>2. eq'[u] = eq[u] \/ eq'[u] = Append(eq[u], Event("ThreadExit"))
    BY <1>1 DEF FinishExit, Push, TypeOK
  <2>3. Event("ThreadExit").type = "ThreadExit"
    BY DEF Event
  <2> QED BY <2>1, <2>2, <2>3, QueueAppend
<1>3. LinksInService'
  BY <1>1 DEF EngineInv, LinksInService
<1>4. NoRegisterDiscarded'
  BY <1>1, <1>2 DEF EngineInv, NoRegisterDiscarded
<1> QED BY <1>1, <1>2, <1>3, <1>4 DEF EngineInv

LEMMA InvFinishDelete ==
  ASSUME EngineInv, TypeOK', FinishDelete
  PROVE  EngineInv'
<1>1. /\ ~ClientTurn' /\ conn' \subseteq conn
      /\ UNCHANGED <<svc, token, eq, pc, destroy>>
  BY DEF FinishDelete, ClientTurn, runvars
<1>2. LinksInService'
  BY <1>1 DEF EngineInv, LinksInService
<1>3. NoRegisterDiscarded' /\ \A u \in Threads : ZeroIsLast(eq'[u])
  BY <1>1 DEF EngineInv, NoRegisterDiscarded
<1> QED BY <1>1, <1>2, <1>3 DEF EngineInv

(***************************************************************************)
(* EngineInv holds initially, every step keeps it, and it implies the      *)
(* properties below.                                                       *)
(***************************************************************************)
LEMMA InvInit == Init => EngineInv
<1> SUFFICES ASSUME Init PROVE EngineInv
  OBVIOUS
<1>1. TypeOK
  BY TypeInit
<1>2. \A t \in Threads : ZeroIsLast(eq[t]) /\ \A types : ~Contains(eq[t], types)
  BY DEF Init, ZeroIsLast, Contains
<1>3. LinksInService /\ LinksCopied /\ Unborn /\ Usable
  BY <1>2 DEF Init, LinksInService, LinksCopied, Unborn, Usable
<1>4. NoRegisterDiscarded
  BY DEF Init, NoRegisterDiscarded
<1> QED BY <1>1, <1>2, <1>3, <1>4 DEF EngineInv

LEMMA InvNext == EngineInv /\ [Next]_vars => EngineInv'
<1> SUFFICES ASSUME EngineInv, [Next]_vars PROVE EngineInv'
  OBVIOUS
<1>1. TypeOK'
  BY TypeNext DEF EngineInv
<1>2. CASE Client
  BY <1>1, <1>2, InvRegister, InvUnregister, InvPost, InvMainQuiet DEF Client
<1>3. CASE EventLoop
  BY <1>1, <1>3, InvMainQuiet, InvActivityExited, InvAutoDestroy DEF EventLoop
<1>4. CASE Finish
  BY <1>1, <1>4, InvMainQuiet, InvFinishExit, InvFinishDelete DEF Finish
<1>5. ASSUME NEW t \in Threads, Run(t)
      PROVE  EngineInv'
  BY <1>1, <1>5, InvRun, InvJoinTimer
<1>6. ASSUME NEW tm \in Timers, Expire(tm)
      PROVE  EngineInv'
  BY <1>1, <1>6, InvExpire
<1>7. CASE UNCHANGED vars
  BY <1>1, <1>7, InvMainQuiet
<1> QED BY <1>2, <1>3, <1>4, <1>5, <1>6, <1>7 DEF Next, Ended

LEMMA EngineInvariant == Spec => []EngineInv
BY InvInit, InvNext, PTL DEF Spec

(***************************************************************************)
(* An activity belongs to one thread, and a token to one thread of the     *)
(* service.                                                                *)
(***************************************************************************)
LEMMA LinksNameOneThread == EngineInv => OneThreadEach
<1> SUFFICES ASSUME EngineInv PROVE OneThreadEach
  OBVIOUS
<1>1. LinksInService /\ TypeOK
  BY DEF EngineInv
<1>2. ASSUME NEW c \in conn, NEW k \in conn, c[1] = k[1]
      PROVE  c[3] = k[3]
  <2>1. \A x \in conn : /\ x[1] \in Activities /\ x[2] \in Listeners /\ x[3] \in Threads
                        /\ x = <<x[1], x[2], x[3]>>
    BY <1>1 DEF TypeOK
  <2>2. \A x \in conn : x[3] \in svc /\ token[x[3]] = TokenOf[x[1]]
    BY <1>1, <2>1 DEF LinksInService
  <2> QED BY <1>1, <1>2, <2>2 DEF LinksInService
<1> QED BY <1>1, <1>2 DEF OneThreadEach, LinksInService

(***************************************************************************)
(* The links of CuActivityManager, the listeners kept by each CuThread and *)
(* the threads of CuThreadService always agree, and name one thread for an *)
(* activity and one for a token.                                           *)
(***************************************************************************)
THEOREM CopiesAlwaysAgree == Spec => []CopiesAgree
<1>1. EngineInv => CopiesAgree
  <2> SUFFICES ASSUME EngineInv, ClientTurn
               PROVE  /\ \A t \in threads :
                           alimmap[t] = {<<c[1], c[2]>> : c \in LinksOfThread(t)}
                      /\ svc = {t \in Threads : LinksOfThread(t) # {}}
    BY LinksNameOneThread DEF CopiesAgree
  <2>1. LinksInService /\ LinksCopied /\ TypeOK
    BY DEF EngineInv
  <2>2. \A c \in conn : /\ c[1] \in Activities /\ c[2] \in Listeners /\ c[3] \in Threads
                        /\ c = <<c[1], c[2], c[3]>>
    BY <2>1 DEF TypeOK
  <2>3. ASSUME NEW t \in threads
        PROVE  alimmap[t] = {<<c[1], c[2]>> : c \in LinksOfThread(t)}
    <3>1. t \in Threads /\ alimmap[t] \subseteq Activities \X Listeners
      BY <2>1 DEF TypeOK
    <3>2. ASSUME NEW p \in alimmap[t]
          PROVE  p \in {<<c[1], c[2]>> : c \in LinksOfThread(t)}
      <4>1. /\ p[1] \in Activities /\ p[2] \in Listeners /\ p = <<p[1], p[2]>>
        BY <3>1
      <4>2. <<p[1], p[2], t>> \in conn
        BY <2>1, <3>1, <4>1 DEF LinksCopied
      <4>3. <<p[1], p[2], t>> \in LinksOfThread(t)
        BY <4>2 DEF LinksOfThread
      <4> QED BY <4>1, <4>3
    <3>3. ASSUME NEW c \in LinksOfThread(t)
          PROVE  <<c[1], c[2]>> \in alimmap[t]
      BY <2>1, <2>2, <3>1 DEF LinksOfThread, LinksCopied
    <3> QED BY <3>2, <3>3
  <2>4. ASSUME NEW t \in Threads
        PROVE  t \in svc <=> LinksOfThread(t) # {}
    <3>1. ASSUME t \in svc PROVE LinksOfThread(t) # {}
      <4>1. PICK a \in Activities, l \in Listeners : <<a, l, t>> \in conn
        BY <2>1, <3>1 DEF LinksCopied
      <4>2. <<a, l, t>> \in LinksOfThread(t)
        BY <4>1 DEF LinksOfThread
      <4> QED BY <4>2
    <3>2. LinksOfThread(t) # {} => t \in svc
      BY <2>1, <2>2 DEF LinksInService, LinksOfThread
    <3> QED BY <3>1, <3>2
  <2> QED BY <2>1, <2>3, <2>4 DEF TypeOK
<1> QED BY <1>1, EngineInvariant, PTL

(***************************************************************************)
(* The service never hands out a thread that is ending or was told to end. *)
(***************************************************************************)
THEOREM ServiceThreadsAlwaysUsable == Spec => []ServiceThreadsUsable
<1>1. EngineInv => ServiceThreadsUsable
  BY DEF EngineInv, ServiceThreadsUsable, Usable, LeaveEvents
<1> QED BY <1>1, EngineInvariant, PTL

(***************************************************************************)
(* A thread that ends for lack of activities never discards a queued       *)
(* registration, and so never reaches the error message of CuThread::run.  *)
(***************************************************************************)
THEOREM NoRegisterEverDiscarded == Spec => []NoRegisterDiscarded
<1>1. EngineInv => NoRegisterDiscarded
  BY DEF EngineInv
<1> QED BY <1>1, EngineInvariant, PTL

===============================================================================
