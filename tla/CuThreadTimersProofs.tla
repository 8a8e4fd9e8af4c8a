------------------------- MODULE CuThreadTimersProofs -------------------------
(***************************************************************************)
(* What TLAPS proves of the timers of the engine: the timer each thread    *)
(* keeps for an activity exists, whoever it calls back still needs it, and *)
(* it goes on as long as nobody lets it down.                              *)
(***************************************************************************)
EXTENDS CuThreadLifecycleProofs

(***************************************************************************)
(* The timers f, the entries m of the threads for them and the threads add *)
(* that are about to join one fit together.  The operations of a thread on *)
(* its timers are composed of functions of these three.                    *)
(***************************************************************************)
Fit(f, m, add) ==
  /\ \A t \in Threads : \A a \in Activities : m[t][a] # NoTimer =>
       /\ f[m[t][a]].timeout # 0
       /\ t \in f[m[t][a]].lis \/ add[t] = m[t][a]
  /\ \A tm, un \in Timers : f[tm].timeout # 0 /\ f[tm].timeout = f[un].timeout => tm = un
  /\ \A tm \in Timers : /\ f[tm].timeout = 0 <=> f[tm].lis = {}
                        /\ f[tm].pending => f[tm].timeout # 0
  /\ \A t \in Threads : add[t] # NoTimer => f[add[t]].timeout # 0

\* a timer calls back who has an activity for it, and only such threads join
Heard(f, m, add) ==
  \A tm \in Timers : \A t \in Threads :
    t \in f[tm].lis \/ add[t] = tm => \E a \in Activities : m[t][a] = tm

Entries == [Threads -> [Activities -> Timers \union {NoTimer}]]
Joining == [Threads -> Timers \union {NoTimer}]

\* the entries of all threads, with tm for that of t for a
WithEntry(m, t, a, tm) == [m EXCEPT ![t] = [m[t] EXCEPT ![a] = tm]]

LEMMA EntryChanged ==
  ASSUME NEW m \in Entries, NEW t \in Threads, NEW a \in Activities,
         NEW tm \in Timers \union {NoTimer}
  PROVE  /\ WithEntry(m, t, a, tm) \in Entries
         /\ WithEntry(m, t, a, tm)[t][a] = tm
         /\ \A u \in Threads : \A b \in Activities :
              u # t \/ b # a => WithEntry(m, t, a, tm)[u][b] = m[u][b]
<1>1. m[t] \in [Activities -> Timers \union {NoTimer}]
  BY DEF Entries
<1>2. [m[t] EXCEPT ![a] = tm] \in [Activities -> Timers \union {NoTimer}]
  BY <1>1
<1>3. WithEntry(m, t, a, tm) \in Entries
  BY <1>2 DEF WithEntry, Entries
<1>4. WithEntry(m, t, a, tm)[t] = [m[t] EXCEPT ![a] = tm]
  BY DEF WithEntry, Entries
<1>5. \A u \in Threads : u # t => WithEntry(m, t, a, tm)[u] = m[u]
  BY DEF WithEntry, Entries
<1> QED BY <1>1, <1>3, <1>4, <1>5

(***************************************************************************)
(* A thread drops its entry: it leaves the timer if it was the last one.   *)
(***************************************************************************)
LEMMA LeaveFits ==
  ASSUME TypeOK, Fit(timer, tmr_amap, adding),
         NEW t \in Threads, NEW a \in Activities, tmr_amap[t][a] # NoTimer,
         Sharing(t, a) = {} => ServiceUnlocked
  PROVE  LET f == TimersWithout(t, a)
             m == WithEntry(tmr_amap, t, a, NoTimer)
         IN  /\ Fit(f, m, adding)
             /\ Heard(timer, tmr_amap, adding) => Heard(f, m, adding)
             /\ \A tm \in Timers :
                  /\ f[tm].timeout # 0 => /\ f[tm].timeout = timer[tm].timeout
                                          /\ timer[tm].pending => f[tm].pending
                  /\ tm # tmr_amap[t][a] => f[tm] = timer[tm]
<1> DEFINE f == TimersWithout(t, a)
           m == WithEntry(tmr_amap, t, a, NoTimer)
           x == tmr_amap[t][a]
<1>1. /\ timer \in [Timers -> Timer] /\ tmr_amap \in Entries /\ adding \in Joining
      /\ x \in Timers /\ f \in [Timers -> Timer]
  BY TimersWithoutType, SMTT(30) DEF TypeOK, TimersTypeOK, Entries, Joining
<1>2. /\ m \in Entries /\ m[t][a] = NoTimer
      /\ \A u \in Threads : \A b \in Activities : u # t \/ b # a => m[u][b] = tmr_amap[u][b]
  BY <1>1, EntryChanged
<1>3. CASE Sharing(t, a) # {}
  <2>1. f = timer
    BY <1>3 DEF TimersWithout
  <2>2. PICK c \in Activities : c # a /\ tmr_amap[t][c] = x
    BY <1>3 DEF Sharing
  <2> HIDE DEF f, m
  <2>3. Fit(f, m, adding)
    BY <1>2, <2>1 DEF Fit
  <2>4. Heard(timer, tmr_amap, adding) => Heard(f, m, adding)
    BY <1>2, <2>1, <2>2 DEF Heard
  <2> QED BY <2>1, <2>3, <2>4 DEF f, m
<1>4. CASE Sharing(t, a) = {}
  <2>1. /\ \A u \in Threads : adding[u] = NoTimer
        /\ \A c \in Activities : tmr_amap[t][c] = x => c = a
    BY <1>4 DEF ServiceUnlocked, Sharing
  <2>2. /\ \A tm \in Timers : tm # x => f[tm] = timer[tm]
        /\ timer[x].lis \ {t} = {} => f[x] = Unallocated
        /\ timer[x].lis \ {t} # {} => f[x] = [timer[x] EXCEPT !.lis = timer[x].lis \ {t}]
    BY <1>1, <1>4 DEF TimersWithout, Left
  <2>3. /\ f[x].lis = timer[x].lis \ {t}
        /\ f[x].timeout # 0 => /\ f[x].timeout = timer[x].timeout
                               /\ timer[x].pending => f[x].pending
                               /\ f[x].pending => timer[x].pending
        /\ f[x].timeout = 0 => ~f[x].pending
        /\ f[x].timeout = 0 <=> f[x].lis = {}
        /\ timer[x].timeout # 0
    <3>1. timer[x].timeout # 0
      BY <1>1 DEF Fit
    <3>2. CASE timer[x].lis \ {t} = {}
      BY <2>2, <3>1, <3>2 DEF Unallocated
    <3>3. CASE timer[x].lis \ {t} # {}
      BY <1>1, <2>2, <3>1, <3>3 DEF Timer
    <3> QED BY <3>2, <3>3
  <2> HIDE DEF f, m, x
  <2>4. ASSUME NEW u \in Threads, NEW b \in Activities, m[u][b] # NoTimer
        PROVE  f[m[u][b]].timeout # 0 /\ u \in f[m[u][b]].lis
    <3>1. u # t \/ b # a
      BY <1>2, <2>4
    <3>2. /\ m[u][b] = tmr_amap[u][b] /\ tmr_amap[u][b] \in Timers
          /\ timer[tmr_amap[u][b]].timeout # 0 /\ u \in timer[tmr_amap[u][b]].lis
      BY <1>1, <1>2, <2>1, <2>4, <3>1 DEF Fit, Entries
    <3>3. CASE tmr_amap[u][b] = x
      BY <2>1, <2>3, <3>1, <3>2, <3>3
    <3>4. CASE tmr_amap[u][b] # x
      BY <2>2, <3>2, <3>4
    <3> QED BY <3>3, <3>4
  <2>5. \A tm \in Timers : /\ f[tm].timeout # 0 => /\ f[tm].timeout = timer[tm].timeout
                                                   /\ timer[tm].pending => f[tm].pending
                           /\ f[tm].timeout = 0 <=> f[tm].lis = {}
                           /\ f[tm].pending => f[tm].timeout # 0
    BY <2>2, <2>3 DEF Fit
  <2>6. \A tm, un \in Timers : f[tm].timeout # 0 /\ f[tm].timeout = f[un].timeout => tm = un
    BY <2>5 DEF Fit
  <2>7. Fit(f, m, adding)
    BY <2>1, <2>4, <2>5, <2>6 DEF Fit
  <2>8. ASSUME Heard(timer, tmr_amap, adding),
               NEW tm \in Timers, NEW u \in Threads, u \in f[tm].lis \/ adding[u] = tm
        PROVE  \E b \in Activities : m[u][b] = tm
    <3>1. u \in f[tm].lis
      BY <2>1, <2>8, NoTimerAssumption
    <3>2. u \in timer[tm].lis /\ (u # t \/ tm # x)
      BY <2>2, <2>3, <3>1
    <3>3. PICK b \in Activities : tmr_amap[u][b] = tm
      BY <2>8, <3>2 DEF Heard
    <3>4. u # t \/ b # a
      BY <3>2, <3>3 DEF x
    <3> QED BY <1>2, <3>3, <3>4
  <2>9. Heard(timer, tmr_amap, adding) => Heard(f, m, adding)
    BY <2>8 DEF Heard
  <2> QED BY <2>2, <2>5, <2>7, <2>9 DEF f, m, x
<1> QED BY <1>3, <1>4

(***************************************************************************)
(* A thread registers with the timer of a timeout.                         *)
(***************************************************************************)
Registered(f, m, t, a, p, tm) ==
  /\ timer' = Started(f, t, tm, p)
  /\ adding' = IF f[tm].pending THEN [adding EXCEPT ![t] = tm] ELSE adding
  /\ tmr_amap' = WithEntry(m, t, a, tm)

LEMMA RegisterFits ==
  ASSUME NEW f \in [Timers -> Timer], NEW m \in Entries, adding \in Joining,
         NEW t \in Threads, NEW a \in Activities, NEW p \in Periods, NEW tm \in TimersFor(f, p),
         Fit(f, WithEntry(m, t, a, NoTimer), adding), ServiceUnlocked,
         Registered(f, m, t, a, p, tm)
  PROVE  /\ tm \in Timers
         /\ Fit(timer', tmr_amap', adding')
         /\ timer'[tm].timeout = p /\ timer'[tm].pending
         /\ \A un \in Timers \ {tm} : timer'[un] = f[un] /\ f[un].timeout # p
         /\ f[tm].timeout \in {0, p}
         /\ f[tm].lis \subseteq timer'[tm].lis
         /\ tmr_amap' \in Entries /\ tmr_amap'[t][a] = tm
         /\ \A u \in Threads : \A b \in Activities :
              u # t \/ b # a => tmr_amap'[u][b] = m[u][b]
<1> DEFINE n == WithEntry(m, t, a, NoTimer)
<1>1. tm \in Timers /\ f[tm].timeout \in {0, p} /\ p # 0 /\ p \in Nat
  BY PeriodsAssumption DEF TimersFor
<1>2. \A un \in Timers \ {tm} : f[un].timeout # p
  BY <1>1 DEF TimersFor, Fit
<1>3. /\ tmr_amap' \in Entries /\ tmr_amap'[t][a] = tm
      /\ \A u \in Threads : \A b \in Activities : u # t \/ b # a => tmr_amap'[u][b] = m[u][b]
  BY <1>1, EntryChanged DEF Registered
<1>4. /\ n \in Entries /\ n[t][a] = NoTimer
      /\ \A u \in Threads : \A b \in Activities : u # t \/ b # a => n[u][b] = m[u][b]
  BY EntryChanged
<1>5. \A u \in Threads : adding[u] = NoTimer
  BY DEF ServiceUnlocked
<1> HIDE DEF n
<1>6. Fit(f, n, adding)
  BY DEF n
<1>7. /\ \A un \in Timers \ {tm} : timer'[un] = f[un]
      /\ timer'[tm].timeout = p /\ timer'[tm].pending
      /\ f[tm].lis \subseteq timer'[tm].lis
      /\ timer'[tm].lis # {}
      /\ t \in timer'[tm].lis \/ adding'[t] = tm
      /\ \A u \in Threads : adding'[u] = NoTimer \/ (u = t /\ adding'[u] = tm)
  <2>1. CASE f[tm].pending
    <3>1. timer' = f /\ adding' = [adding EXCEPT ![t] = tm]
      BY <2>1 DEF Registered, Started
    <3>2. f[tm].timeout # 0 /\ f[tm].lis # {}
      BY <1>1, <1>6, <2>1 DEF Fit
    <3>3. adding'[t] = tm /\ \A u \in Threads : u # t => adding'[u] = adding[u]
      BY <3>1 DEF Joining
    <3>4. \A u \in Threads : adding'[u] = NoTimer \/ (u = t /\ adding'[u] = tm)
      BY <1>5, <3>3
    <3> QED BY <1>1, <2>1, <3>1, <3>2, <3>3, <3>4
  <2>2. CASE ~f[tm].pending
    <3>1. /\ timer' = [f EXCEPT ![tm] = [timeout |-> p, lis |-> f[tm].lis \union {t},
                                         pending |-> TRUE]]
          /\ adding' = adding
      BY <2>2 DEF Registered, Started
    <3>2. /\ timer'[tm] = [timeout |-> p, lis |-> f[tm].lis \union {t}, pending |-> TRUE]
          /\ \A un \in Timers \ {tm} : timer'[un] = f[un]
      BY <1>1, <3>1
    <3> QED BY <1>5, <3>1, <3>2
  <2> QED BY <2>1, <2>2
<1>8. ASSUME NEW u \in Threads, NEW b \in Activities, tmr_amap'[u][b] # NoTimer
      PROVE  /\ timer'[tmr_amap'[u][b]].timeout # 0
             /\ u \in timer'[tmr_amap'[u][b]].lis \/ adding'[u] = tmr_amap'[u][b]
  <2>1. CASE u = t /\ b = a
    BY <1>1, <1>3, <1>7, <2>1
  <2>2. CASE u # t \/ b # a
    <3>1. /\ tmr_amap'[u][b] = n[u][b] /\ n[u][b] \in Timers
          /\ f[n[u][b]].timeout # 0 /\ u \in f[n[u][b]].lis
      <4>1. tmr_amap'[u][b] = n[u][b]
        BY <1>3, <1>4, <2>2
      <4>2. n[u][b] \in Timers
        BY <1>4, <1>8, <4>1 DEF Entries
      <4> QED BY <1>5, <1>6, <1>8, <4>1, <4>2 DEF Fit
    <3> QED BY <1>1, <1>7, <3>1
  <2> QED BY <2>1, <2>2
<1>9. \A un, wn \in Timers :
        timer'[un].timeout # 0 /\ timer'[un].timeout = timer'[wn].timeout => un = wn
  BY <1>1, <1>2, <1>6, <1>7 DEF Fit
<1>10. \A un \in Timers : /\ timer'[un].timeout = 0 <=> timer'[un].lis = {}
                          /\ timer'[un].pending => timer'[un].timeout # 0
  BY <1>1, <1>6, <1>7 DEF Fit
<1>11. \A u \in Threads : adding'[u] # NoTimer => timer'[adding'[u]].timeout # 0
  BY <1>1, <1>7
<1>12. Fit(timer', tmr_amap', adding')
  BY <1>8, <1>9, <1>10, <1>11 DEF Fit
<1> QED BY <1>1, <1>2, <1>3, <1>7, <1>12

\* whoever is called back has an entry, if the old entry of t for a is given
\* up with its timer
LEMMA RegisterHeard ==
  ASSUME NEW f \in [Timers -> Timer], NEW m \in Entries, adding \in Joining,
         NEW t \in Threads, NEW a \in Activities, NEW p \in Periods, NEW tm \in TimersFor(f, p),
         ServiceUnlocked, Registered(f, m, t, a, p, tm),
         \/ Heard(f, WithEntry(m, t, a, NoTimer), adding)
         \/ Heard(f, m, adding) /\ m[t][a] = tm
  PROVE  Heard(timer', tmr_amap', adding')
<1>1. tm \in Timers
  BY DEF TimersFor
<1>2. /\ tmr_amap'[t][a] = tm
      /\ \A u \in Threads : \A b \in Activities : u # t \/ b # a => tmr_amap'[u][b] = m[u][b]
  BY <1>1, EntryChanged DEF Registered
<1>3. \A u \in Threads : adding[u] = NoTimer
  BY DEF ServiceUnlocked
<1>4. ASSUME NEW un \in Timers, NEW u \in Threads, u \in timer'[un].lis \/ adding'[u] = un,
             ~(u = t /\ un = tm)
      PROVE  u \in f[un].lis
  <2>1. CASE f[tm].pending
    BY <1>1, <1>3, <1>4, <2>1, NoTimerAssumption DEF Registered, Started, Joining
  <2>2. CASE ~f[tm].pending
    <3>1. adding' = adding
      BY <2>2 DEF Registered
    <3>2. u \in timer'[un].lis
      BY <1>3, <1>4, <3>1, NoTimerAssumption
    <3>3. CASE un = tm
      BY <1>1, <1>4, <2>2, <3>2, <3>3 DEF Registered, Started
    <3>4. CASE un # tm
      BY <1>1, <2>2, <3>2, <3>4 DEF Registered, Started
    <3> QED BY <3>3, <3>4
  <2> QED BY <2>1, <2>2
<1>5. ASSUME NEW un \in Timers, NEW u \in Threads, u \in timer'[un].lis \/ adding'[u] = un
      PROVE  \E b \in Activities : tmr_amap'[u][b] = un
  <2>1. CASE u = t /\ un = tm
    BY <1>2, <2>1
  <2>2. CASE ~(u = t /\ un = tm)
    <3>1. u \in f[un].lis
      BY <1>4, <1>5, <2>2
    <3>2. CASE Heard(f, m, adding) /\ m[t][a] = tm
      <4>1. PICK b \in Activities : m[u][b] = un
        BY <3>1, <3>2 DEF Heard
      <4> QED BY <1>2, <2>2, <3>2, <4>1
    <3>3. CASE Heard(f, WithEntry(m, t, a, NoTimer), adding)
      <4>1. PICK b \in Activities : WithEntry(m, t, a, NoTimer)[u][b] = un
        BY <3>1, <3>3 DEF Heard
      <4>2. /\ WithEntry(m, t, a, NoTimer)[t][a] = NoTimer
            /\ \A w \in Threads : \A c \in Activities :
                 w # t \/ c # a => WithEntry(m, t, a, NoTimer)[w][c] = m[w][c]
        BY EntryChanged
      <4>3. u # t \/ b # a
        BY <4>1, <4>2, NoTimerAssumption
      <4> QED BY <1>2, <4>1, <4>2, <4>3
    <3> QED BY <3>2, <3>3
  <2> QED BY <2>1, <2>2
<1> QED BY <1>5 DEF Heard

-------------------------------------------------------------------------------
(***************************************************************************)
(* The inductive invariant of the timers.                                  *)
(***************************************************************************)
\* what a thread knows of its timers, between the steps of TimerExpired too
ThreadFit(t) ==
  /\ pc[t] = "timer" => cur[t] \in Timers /\ \A a \in todo[t] : tmr_amap[t][a] = cur[t]
  /\ again[t] => pc[t] = "timer" /\ \E b \in Activities \ todo[t] : tmr_amap[t][b] = cur[t]
  /\ adding[t] # NoTimer => pc[t] \in {"loop", "timer"}
  /\ \A a \in Activities : tmr_amap[t][a] # NoTimer => a \in activity_set[t]
  /\ pc[t] = "off" => activity_set[t] = {}

TimersFit == Fit(timer, tmr_amap, adding) /\ \A t \in Threads : ThreadFit(t)

\* the timer of an activity has its period
TimeoutsKept ==
  \A t \in Threads : \A a \in Activities :
    tmr_amap[t][a] # NoTimer => timer[tmr_amap[t][a]].timeout = period[a]

\* only TimeoutChange changes a period in this step
PeriodsKept == SelfPeriods = {} \/ period' = period

\* what a step keeps of them
TimersKept ==
  /\ TimersFit'
  /\ Heard(timer, tmr_amap, adding) => Heard(timer', tmr_amap', adding')
  /\ TimeoutsKept /\ PeriodsKept => TimeoutsKept'

LEMMA TimersTyped ==
  ASSUME TypeOK
  PROVE  timer \in [Timers -> Timer] /\ tmr_amap \in Entries /\ adding \in Joining
BY DEF TypeOK, TimersTypeOK, Entries, Joining

\* steps of other threads
LEMMA OtherThreads ==
  ASSUME TimersFit, NEW t \in Threads,
         \A u \in Threads \ {t} :
           /\ pc'[u] = pc[u] /\ cur'[u] = cur[u] /\ todo'[u] = todo[u] /\ again'[u] = again[u]
           /\ tmr_amap'[u] = tmr_amap[u] /\ adding'[u] = adding[u]
           /\ activity_set'[u] = activity_set[u]
  PROVE  \A u \in Threads \ {t} : ThreadFit(u)'
BY DEF TimersFit, ThreadFit

(***************************************************************************)
(* Steps that leave the timers alone.                                      *)
(***************************************************************************)
LEMMA TimersQuiet ==
  ASSUME TimersFit,
         UNCHANGED <<timer, adding, tmr_amap, todo, cur, again, activity_set, period>>,
         \A t \in Threads :
           \/ pc'[t] = pc[t]
           \/ pc[t] # "timer" /\ pc'[t] \notin {"timer", "off"} /\ adding[t] = NoTimer
  PROVE  TimersKept
<1>1. \A t \in Threads : ThreadFit(t)'
  BY DEF TimersFit, ThreadFit
<1> QED BY <1>1 DEF TimersKept, TimersFit, TimeoutsKept

LEMMA TimersMain ==
  ASSUME EngineInv, TimersFit,
         \/ \E a \in Activities : \/ PostTo(a) \/ UnregisterActivity(a)
                                  \/ \E l \in Listeners : RegisterActivity(a, l)
         \/ ExitEventLoop \/ EventLoop \/ Finish \/ UNCHANGED vars
  PROVE  TimersKept
<1>1. CASE \E a \in Activities, l \in Listeners : RegisterActivity(a, l)
  <2>1. \A t \in Threads : pc'[t] = pc[t] \/ (pc[t] = "off" /\ pc'[t] = "start")
    BY <1>1 DEF RegisterActivity, EngineInv, TypeOK
  <2>2. \A t \in Threads : pc[t] = "off" => adding[t] = NoTimer
    BY DEF TimersFit, ThreadFit
  <2>3. UNCHANGED <<timer, adding, tmr_amap, todo, cur, again, activity_set, period>>
    BY <1>1 DEF RegisterActivity, actvars, tsvars
  <2>4. \A t \in Threads :
          \/ pc'[t] = pc[t]
          \/ pc[t] # "timer" /\ pc'[t] \notin {"timer", "off"} /\ adding[t] = NoTimer
    BY <2>1, <2>2
  <2> QED BY <2>3, <2>4, TimersQuiet
<1>2. CASE \/ \E a \in Activities : PostTo(a) \/ UnregisterActivity(a)
           \/ ExitEventLoop \/ EventLoop \/ Finish \/ UNCHANGED vars
  <2>1. UNCHANGED <<runvars, actvars, tsvars>>
    BY <1>2 DEF PostTo, PostEvent, UnregisterActivity, ExitEventLoop,
                EventLoop, TakeEvents, OnResult, OnActivityExited, OnAutoDestroy, OnExitLoop, Notify,
                Finish, StartFinish, FinishExit, FinishDelete, FinishEnd, vars
  <2>2. /\ UNCHANGED <<timer, adding, tmr_amap, todo, cur, again, activity_set, period>>
        /\ UNCHANGED pc
    BY <2>1 DEF runvars, actvars, tsvars
  <2>3. \A t \in Threads :
          \/ pc'[t] = pc[t]
          \/ pc[t] # "timer" /\ pc'[t] \notin {"timer", "off"} /\ adding[t] = NoTimer
    BY <2>2
  <2> QED BY <2>2, <2>3, TimersQuiet, SMTT(30)
<1> QED BY <1>1, <1>2

LEMMA TimersRunQuiet ==
  ASSUME EngineInv, TimersFit, NEW t \in Threads,
         Start(t) \/ LeaveLoop(t) \/ Drain(t) \/ EndRun(t)
  PROVE  TimersKept
<1>1. UNCHANGED <<timer, adding, tmr_amap, todo, cur, again, activity_set, period>>
  BY DEF Start, LeaveLoop, Drain, EndRun, actvars, tsvars
<1>2. /\ \A u \in Threads \ {t} : pc'[u] = pc[u]
      /\ pc'[t] = pc[t] \/ (pc[t] # "timer" /\ pc'[t] \notin {"timer", "off"})
      /\ pc[t] \in {"start", "drain", "exit"} \/ adding[t] = NoTimer
  BY DEF Start, LeaveLoop, Dequeue, Idle, Drain, EndRun, EngineInv, TypeOK
<1>3. adding[t] = NoTimer
  BY <1>2 DEF TimersFit, ThreadFit
<1>4. \A u \in Threads :
        \/ pc'[u] = pc[u]
        \/ pc[u] # "timer" /\ pc'[u] \notin {"timer", "off"} /\ adding[u] = NoTimer
  BY <1>2, <1>3
<1> QED BY <1>1, <1>4, TimersQuiet

(***************************************************************************)
(* Steps that leave the timers to whom they belong: a timer expires, is    *)
(* restarted, or is joined by who was about to.                            *)
(***************************************************************************)
LEMMA FitKept ==
  ASSUME Fit(timer, tmr_amap, adding), adding \in Joining, tmr_amap \in Entries,
         \A tm \in Timers : /\ timer'[tm].timeout = timer[tm].timeout
                            /\ timer[tm].lis \subseteq timer'[tm].lis
                            /\ timer[tm].timeout = 0 => timer'[tm].lis = {} /\ ~timer'[tm].pending,
         \A t \in Threads : \/ adding'[t] = adding[t]
                            \/ adding'[t] = NoTimer /\ t \in timer'[adding[t]].lis,
         tmr_amap' = tmr_amap
  PROVE  Fit(timer', tmr_amap', adding')
<1>1. ASSUME NEW t \in Threads, NEW a \in Activities, tmr_amap[t][a] # NoTimer
      PROVE  /\ timer'[tmr_amap[t][a]].timeout # 0
             /\ t \in timer'[tmr_amap[t][a]].lis \/ adding'[t] = tmr_amap[t][a]
  <2>1. tmr_amap[t][a] \in Timers
    BY <1>1 DEF Entries
  <2> QED BY <1>1, <2>1 DEF Fit
<1>2. \A tm, un \in Timers :
        timer'[tm].timeout # 0 /\ timer'[tm].timeout = timer'[un].timeout => tm = un
  BY DEF Fit
<1>3. \A tm \in Timers : /\ timer'[tm].timeout = 0 <=> timer'[tm].lis = {}
                         /\ timer'[tm].pending => timer'[tm].timeout # 0
  BY DEF Fit
<1>4. \A t \in Threads : adding'[t] # NoTimer => timer'[adding'[t]].timeout # 0
  BY DEF Fit, Joining
<1> QED BY <1>1, <1>2, <1>3, <1>4 DEF Fit

LEMMA TimersExpire ==
  ASSUME EngineInv, TimersFit, NEW tm \in Timers, Expire(tm)
  PROVE  TimersKept
<1>1. timer \in [Timers -> Timer] /\ tmr_amap \in Entries /\ adding \in Joining
  BY TimersTyped DEF EngineInv
<1>2. /\ timer' = [timer EXCEPT ![tm].pending = FALSE]
      /\ UNCHANGED <<adding, tmr_amap, todo, cur, again, activity_set, period, pc>>
  BY DEF Expire, Expired, runvars, actvars
<1>3. \A un \in Timers : /\ timer'[un].timeout = timer[un].timeout
                         /\ timer'[un].lis = timer[un].lis
                         /\ timer'[un].pending => timer[un].pending
  BY <1>1, <1>2 DEF Timer
<1>4. Fit(timer', tmr_amap', adding')
  BY <1>1, <1>2, <1>3, FitKept DEF TimersFit, Fit
<1>5. \A t \in Threads : ThreadFit(t)'
  BY <1>2 DEF TimersFit, ThreadFit
<1>6. Heard(timer, tmr_amap, adding) => Heard(timer', tmr_amap', adding')
  BY <1>2, <1>3 DEF Heard
<1>7. TimeoutsKept => TimeoutsKept'
  BY <1>1, <1>2, <1>3 DEF TimeoutsKept, Entries
<1> QED BY <1>4, <1>5, <1>6, <1>7 DEF TimersKept, TimersFit

LEMMA TimersEnd ==
  ASSUME EngineInv, TimersFit, NEW t \in Threads, EndTimer(t)
  PROVE  TimersKept
<1>1. timer \in [Timers -> Timer] /\ tmr_amap \in Entries /\ adding \in Joining /\ TypeOK
  BY TimersTyped DEF EngineInv
<1>2. /\ UNCHANGED <<adding, tmr_amap, todo, activity_set, period>>
      /\ pc' = [pc EXCEPT ![t] = "loop"] /\ pc[t] = "timer" /\ adding[t] = NoTimer
      /\ cur' = [cur EXCEPT ![t] = NoTimer] /\ again' = [again EXCEPT ![t] = FALSE]
      /\ timer' = IF again[t] THEN Restarted(timer, cur[t]) ELSE timer
  BY DEF EndTimer, Idle, actvars
<1>3. /\ cur[t] \in Timers
      /\ again[t] => timer[cur[t]].timeout # 0
  BY <1>1, <1>2, NoTimerAssumption DEF TimersFit, ThreadFit, Fit
<1>4. \A un \in Timers : /\ timer'[un].timeout = timer[un].timeout
                         /\ timer'[un].lis = timer[un].lis
                         /\ timer'[un].pending => timer[un].pending \/ timer[un].timeout # 0
  BY <1>1, <1>2, <1>3 DEF Restarted, Timer
<1>5. Fit(timer', tmr_amap', adding')
  BY <1>1, <1>2, <1>4, FitKept DEF TimersFit, Fit
<1>6. \A u \in Threads \ {t} : ThreadFit(u)'
  BY <1>1, <1>2, OtherThreads DEF TypeOK
<1>7. ThreadFit(t)'
  BY <1>1, <1>2 DEF TimersFit, ThreadFit, TypeOK
<1>8. Heard(timer, tmr_amap, adding) => Heard(timer', tmr_amap', adding')
  BY <1>2, <1>4 DEF Heard
<1>9. TimeoutsKept => TimeoutsKept'
  BY <1>1, <1>2, <1>4 DEF TimeoutsKept, Entries
<1> QED BY <1>5, <1>6, <1>7, <1>8, <1>9 DEF TimersKept, TimersFit

LEMMA TimersJoin ==
  ASSUME EngineInv, TimersFit, NEW t \in Threads, JoinTimer(t)
  PROVE  TimersKept
<1>1. timer \in [Timers -> Timer] /\ tmr_amap \in Entries /\ adding \in Joining
  BY TimersTyped DEF EngineInv
<1>2. /\ UNCHANGED <<pc, tmr_amap, todo, cur, again, activity_set, period>>
      /\ adding[t] # NoTimer
      /\ timer' = [timer EXCEPT ![adding[t]].lis = @ \union {t}]
      /\ adding' = [adding EXCEPT ![t] = NoTimer]
  BY DEF JoinTimer, AddListener, runvars, actvars
<1> DEFINE x == adding[t]
<1>3. x \in Timers /\ timer[x].timeout # 0
  BY <1>1, <1>2 DEF TimersFit, Fit, Joining
<1>4. /\ \A un \in Timers : /\ timer'[un].timeout = timer[un].timeout
                            /\ timer'[un].pending = timer[un].pending
                            /\ un # x => timer'[un].lis = timer[un].lis
      /\ timer'[x].lis = timer[x].lis \union {t}
  BY <1>1, <1>2, <1>3 DEF Timer
<1>5. adding'[t] = NoTimer /\ \A u \in Threads : u # t => adding'[u] = adding[u]
  BY <1>1, <1>2 DEF Joining
<1>6. Fit(timer', tmr_amap', adding')
  <2>1. \A un \in Timers : /\ timer[un].lis \subseteq timer'[un].lis
                           /\ timer[un].timeout = 0 => timer'[un].lis = {} /\ ~timer'[un].pending
    BY <1>3, <1>4 DEF TimersFit, Fit
  <2>2. \A u \in Threads : adding'[u] = adding[u] \/ (adding'[u] = NoTimer /\ u \in timer'[adding[u]].lis)
    BY <1>4, <1>5
  <2> QED BY <1>1, <1>2, <1>4, <2>1, <2>2, FitKept DEF TimersFit
<1>7. \A u \in Threads : ThreadFit(u)'
  BY <1>2, <1>5 DEF TimersFit, ThreadFit
<1>8. Heard(timer, tmr_amap, adding) => Heard(timer', tmr_amap', adding')
  <2> SUFFICES ASSUME Heard(timer, tmr_amap, adding),
                      NEW un \in Timers, NEW u \in Threads, u \in timer'[un].lis \/ adding'[u] = un
               PROVE  \E a \in Activities : tmr_amap[u][a] = un
    BY <1>2 DEF Heard
  <2>1. u \in timer[un].lis \/ adding[u] = un
    BY <1>4, <1>5, NoTimerAssumption
  <2> QED BY <2>1 DEF Heard
<1>9. TimeoutsKept => TimeoutsKept'
  BY <1>1, <1>2, <1>4 DEF TimeoutsKept, Entries
<1> QED BY <1>6, <1>7, <1>8, <1>9 DEF TimersKept, TimersFit

LEMMA TimersHandle ==
  ASSUME EngineInv, TimersFit, NEW t \in Threads, HandleTimer(t)
  PROVE  TimersKept
<1>1. TypeOK
  BY DEF EngineInv
<1>2. PICK tm \in Timers : tm = Head(eq[t]).tm
  <2>1. Head(eq[t]) \in ThreadEvent /\ Head(eq[t]).type = "TimerExpired"
    BY <1>1, DequeueType DEF HandleTimer, TypeOK
  <2> QED BY <2>1, ThreadEventFields
<1>3. /\ UNCHANGED <<timer, adding, tmr_amap, activity_set, period>>
      /\ pc' = [pc EXCEPT ![t] = "timer"] /\ adding[t] = NoTimer
      /\ todo' = [todo EXCEPT ![t] = {a \in Activities : tmr_amap[t][a] = tm}]
      /\ cur' = [cur EXCEPT ![t] = tm] /\ again' = [again EXCEPT ![t] = FALSE]
  BY <1>2 DEF HandleTimer, Dequeue, Idle, actvars, tsvars
<1>4. \A u \in Threads \ {t} : ThreadFit(u)'
  BY <1>1, <1>3, OtherThreads DEF TypeOK
<1>5. ThreadFit(t)'
  BY <1>1, <1>3 DEF TimersFit, ThreadFit, TypeOK
<1> QED BY <1>3, <1>4, <1>5 DEF TimersKept, TimersFit, TimeoutsKept

(***************************************************************************)
(* Steps that register: of an activity that had no timer, or whose timer   *)
(* is left first, or (activity_run for a second listener) is not.          *)
(***************************************************************************)
\* f, the timers before, and the timers after a registration of a by t
JoinedFor(f, t, a, p, tm) ==
  /\ Fit(timer', tmr_amap', adding')
  /\ timer'[tm].timeout = p /\ timer'[tm].pending
  /\ tmr_amap'[t][a] = tm
  /\ \A u \in Threads : \A b \in Activities : u # t \/ b # a =>
       /\ tmr_amap'[u][b] = tmr_amap[u][b]
       /\ tmr_amap[u][b] # NoTimer =>
            timer'[tmr_amap[u][b]].timeout = timer[tmr_amap[u][b]].timeout
  /\ \A u \in Threads \ {t} : adding'[u] = adding[u]
  /\ \A un \in Timers \ {tm} :
       /\ timer'[un].timeout # p
       /\ timer'[un].timeout # 0 => /\ timer'[un].timeout = timer[un].timeout
                                    /\ timer[un].pending => timer'[un].pending
       /\ un # tmr_amap[t][a] => timer'[un] = timer[un]
  /\ \/ f = TimersWithout(t, a)
     \/ tmr_amap[t][a] = NoTimer
     \/ timer[tmr_amap[t][a]].timeout = p
     => (Heard(timer, tmr_amap, adding) => Heard(timer', tmr_amap', adding'))

LEMMA JoinsTimer ==
  ASSUME TypeOK, Fit(timer, tmr_amap, adding), NEW f,
         NEW t \in Threads, NEW a \in Activities, NEW p \in Periods,
         f = timer \/ (f = TimersWithout(t, a) /\ tmr_amap[t][a] # NoTimer),
         RegisterListener(f, t, a, p, tmr_amap[t])
  PROVE  \E tm \in Timers : JoinedFor(f, t, a, p, tm)
<1> DEFINE m == WithEntry(tmr_amap, t, a, NoTimer)
           x == tmr_amap[t][a]
<1>1. /\ timer \in [Timers -> Timer] /\ tmr_amap \in Entries /\ adding \in Joining
      /\ x \in Timers \union {NoTimer}
      /\ TimersWithout(t, a) \in [Timers -> Timer] \/ x = NoTimer
      /\ p \in Nat /\ p # 0
  <2>1. timer \in [Timers -> Timer] /\ tmr_amap \in Entries /\ adding \in Joining
    BY TimersTyped
  <2>2. x \in Timers \union {NoTimer}
    BY <2>1 DEF Entries
  <2>3. TimersWithout(t, a) \in [Timers -> Timer] \/ x = NoTimer
    BY <2>1, <2>2, TimersWithoutType
  <2>4. p \in Nat /\ p # 0
    BY PeriodsAssumption
  <2> QED BY <2>1, <2>2, <2>3, <2>4
<1>2. ServiceUnlocked
  BY DEF RegisterListener
<1>3. /\ m \in Entries /\ m[t][a] = NoTimer
      /\ \A u \in Threads : \A b \in Activities : u # t \/ b # a => m[u][b] = tmr_amap[u][b]
  BY <1>1, EntryChanged
<1>4. /\ f \in [Timers -> Timer] /\ Fit(f, m, adding)
      /\ f = TimersWithout(t, a) /\ x # NoTimer /\ Heard(timer, tmr_amap, adding)
           => Heard(f, m, adding)
      /\ \A un \in Timers :
           /\ f[un].timeout # 0 => /\ f[un].timeout = timer[un].timeout
                                   /\ timer[un].pending => f[un].pending
           /\ un # x => f[un] = timer[un]
  <2>1. CASE f = TimersWithout(t, a) /\ x # NoTimer
    BY <1>1, <1>2, <2>1, LeaveFits
  <2>2. CASE f = timer /\ ~(f = TimersWithout(t, a) /\ x # NoTimer)
    <3> HIDE DEF m
    <3>1. Fit(f, m, adding)
      BY <1>3, <2>2 DEF Fit
    <3> QED BY <1>1, <2>2, <3>1
  <2> QED BY <2>1, <2>2
<1>5. PICK tm \in TimersFor(f, p) : Registered(f, tmr_amap, t, a, p, tm)
  BY DEF RegisterListener, Registered, WithEntry
<1> HIDE DEF m, x
<1>6. /\ tm \in Timers
      /\ Fit(timer', tmr_amap', adding')
      /\ timer'[tm].timeout = p /\ timer'[tm].pending
      /\ \A un \in Timers \ {tm} : timer'[un] = f[un] /\ f[un].timeout # p
      /\ f[tm].timeout \in {0, p}
      /\ tmr_amap'[t][a] = tm
      /\ \A u \in Threads : \A b \in Activities :
           u # t \/ b # a => tmr_amap'[u][b] = tmr_amap[u][b]
  BY <1>1, <1>2, <1>4, <1>5, RegisterFits DEF m
<1>7. ASSUME NEW u \in Threads, NEW b \in Activities, u # t \/ b # a, tmr_amap[u][b] # NoTimer
      PROVE  timer'[tmr_amap[u][b]].timeout = timer[tmr_amap[u][b]].timeout
  <2>1. m[u][b] = tmr_amap[u][b] /\ tmr_amap[u][b] \in Timers
    BY <1>1, <1>3, <1>7 DEF Entries
  <2>2. f[tmr_amap[u][b]].timeout # 0
    BY <1>4, <1>7, <2>1 DEF Fit
  <2> QED BY <1>4, <1>6, <2>1, <2>2
<1>8. \A u \in Threads \ {t} : adding'[u] = adding[u]
  BY <1>1, <1>5 DEF Registered, Joining
<1>9. \A un \in Timers \ {tm} :
        /\ timer'[un].timeout # p
        /\ timer'[un].timeout # 0 => /\ timer'[un].timeout = timer[un].timeout
                                     /\ timer[un].pending => timer'[un].pending
        /\ un # x => timer'[un] = timer[un]
  BY <1>4, <1>6
<1>10. ASSUME f = TimersWithout(t, a) \/ x = NoTimer \/ timer[x].timeout = p,
              Heard(timer, tmr_amap, adding)
       PROVE  Heard(timer', tmr_amap', adding')
  <2>1. CASE f = TimersWithout(t, a) /\ x # NoTimer
    <3>1. Heard(f, m, adding)
      BY <1>4, <1>10, <2>1
    <3> QED BY <1>1, <1>2, <1>4, <1>5, <3>1, RegisterHeard DEF m
  <2>2. CASE x = NoTimer
    <3>1. m = tmr_amap /\ f = timer
      BY <1>1, <2>2 DEF m, x, WithEntry, Entries
    <3> QED BY <1>1, <1>2, <1>4, <1>5, <1>10, <3>1, RegisterHeard DEF m
  <2>3. CASE f = timer /\ x # NoTimer /\ timer[x].timeout = p
    <3>1. x \in Timers
      BY <1>1, <2>3
    <3>2. x = tm
      BY <1>6, <2>3, <3>1
    <3> QED BY <1>1, <1>2, <1>4, <1>5, <1>10, <2>3, <3>2, RegisterHeard DEF x
  <2>4. f = timer \/ (f = TimersWithout(t, a) /\ x # NoTimer)
    BY DEF x
  <2> QED BY <1>10, <2>1, <2>2, <2>3, <2>4
<1> QED BY <1>6, <1>7, <1>8, <1>9, <1>10 DEF JoinedFor, x

\* the registration does not touch other threads
LEMMA JoinedOthers ==
  ASSUME TypeOK, NEW f, NEW t \in Threads, NEW a \in Activities, NEW p, NEW tm \in Timers,
         JoinedFor(f, t, a, p, tm), tmr_amap' \in Entries
  PROVE  \A u \in Threads \ {t} : tmr_amap'[u] = tmr_amap[u] /\ adding'[u] = adding[u]
<1>1. tmr_amap \in Entries
  BY TimersTyped
<1>2. ASSUME NEW u \in Threads \ {t}
      PROVE  tmr_amap'[u] = tmr_amap[u]
  <2>1. \A b \in Activities : tmr_amap'[u][b] = tmr_amap[u][b]
    BY DEF JoinedFor
  <2>2. /\ tmr_amap'[u] \in [Activities -> Timers \union {NoTimer}]
        /\ tmr_amap[u] \in [Activities -> Timers \union {NoTimer}]
    BY <1>1 DEF Entries
  <2> QED BY <2>1, <2>2
<1> QED BY <1>2 DEF JoinedFor

LEMMA TimersRegister ==
  ASSUME EngineInv, EngineInv', TimersFit, NEW t \in Threads, HandleRegister(t)
  PROVE  /\ TimersFit'
         /\ \/ Head(eq[t]).a \notin activity_set[t]
            \/ TimeoutsKept /\ PeriodsKept
            => (Heard(timer, tmr_amap, adding) => Heard(timer', tmr_amap', adding'))
         /\ TimeoutsKept /\ PeriodsKept => TimeoutsKept' /\ period' = period
<1>1. TypeOK /\ TypeOK' /\ tmr_amap \in Entries /\ tmr_amap' \in Entries /\ adding \in Joining
  BY TimersTyped DEF EngineInv, TypeOK, Entries
<1>2. PICK a \in Activities : a = Head(eq[t]).a
  <2>1. Dequeue(t, {"Register"}) /\ eq \in [Threads -> Seq(ThreadEvent)]
    BY <1>1 DEF HandleRegister, TypeOK
  <2>2. Head(eq[t]) \in ThreadEvent /\ Head(eq[t]).type = "Register"
    BY <2>1, DequeueType
  <2> QED BY <2>2, ThreadEventFields
<1>3. /\ pc[t] = "loop" /\ adding[t] = NoTimer
      /\ activity_set' = [activity_set EXCEPT ![t] = @ \union {a}]
      /\ UNCHANGED <<pc, todo, cur, again, paused>>
  BY <1>2 DEF HandleRegister, Dequeue, Idle
<1>4. PICK p \in PeriodsAfter(a) :
        /\ period' = [period EXCEPT ![a] = p]
        /\ IF RepeatOf(a, p) > 0
             THEN RegisterListener(timer, t, a, p, tmr_amap[t])
             ELSE UNCHANGED <<tsvars, tmr_amap>>
  BY <1>2 DEF HandleRegister
<1>5. /\ PeriodsKept => p = period[a]
      /\ RepeatOf(a, p) > 0 => p \in Periods
      /\ PeriodsKept => period' = period
  <2>1. p \in Periods \union {0} /\ period \in [Activities -> Periods \union {0}]
    BY <1>1, ActivityAssumption DEF PeriodsAfter, TypeOK
  <2>2. PeriodsKept => p = period[a]
    BY <1>4, <2>1 DEF PeriodsKept, PeriodsAfter
  <2> QED BY <1>4, <2>1, <2>2 DEF RepeatOf
<1>6. activity_set'[t] = activity_set[t] \union {a} /\ \A u \in Threads : u # t => activity_set'[u] = activity_set[u]
  BY <1>1, <1>3 DEF TypeOK
<1>7. CASE RepeatOf(a, p) > 0
  <2>1. RegisterListener(timer, t, a, p, tmr_amap[t]) /\ p \in Periods
    BY <1>4, <1>5, <1>7
  <2>2. PICK tm \in Timers : JoinedFor(timer, t, a, p, tm)
    BY <1>1, <2>1, JoinsTimer DEF TimersFit
  <2>3. \A u \in Threads \ {t} : tmr_amap'[u] = tmr_amap[u] /\ adding'[u] = adding[u]
    BY <1>1, <2>2, JoinedOthers
  <2>4. \A u \in Threads \ {t} : ThreadFit(u)'
    <3>1. \A u \in Threads \ {t} :
            /\ pc'[u] = pc[u] /\ cur'[u] = cur[u] /\ todo'[u] = todo[u] /\ again'[u] = again[u]
            /\ tmr_amap'[u] = tmr_amap[u] /\ adding'[u] = adding[u]
            /\ activity_set'[u] = activity_set[u]
      BY <1>3, <1>6, <2>3
    <3> QED BY <3>1, OtherThreads
  <2>5. ThreadFit(t)'
    BY <1>3, <1>6, <2>2 DEF TimersFit, ThreadFit, JoinedFor
  <2>6. Heard(timer, tmr_amap, adding) /\ Head(eq[t]).a \notin activity_set[t]
          => Heard(timer', tmr_amap', adding')
    BY <1>2, <2>2 DEF TimersFit, ThreadFit, JoinedFor
  <2>7. Heard(timer, tmr_amap, adding) /\ TimeoutsKept /\ PeriodsKept
          => Heard(timer', tmr_amap', adding')
    BY <1>5, <2>2 DEF TimeoutsKept, JoinedFor
  <2>8. TimeoutsKept /\ PeriodsKept => TimeoutsKept'
    <3> SUFFICES ASSUME TimeoutsKept, PeriodsKept,
                        NEW u \in Threads, NEW b \in Activities, tmr_amap'[u][b] # NoTimer
                 PROVE  timer'[tmr_amap'[u][b]].timeout = period'[b]
      BY DEF TimeoutsKept
    <3>1. CASE u = t /\ b = a
      BY <1>5, <2>2, <3>1 DEF JoinedFor
    <3>2. CASE ~(u = t /\ b = a)
      BY <1>5, <2>2, <3>2 DEF JoinedFor, TimeoutsKept
    <3> QED BY <3>1, <3>2
  <2>9. Fit(timer', tmr_amap', adding')
    BY <2>2 DEF JoinedFor
  <2> QED BY <1>5, <2>4, <2>5, <2>6, <2>7, <2>8, <2>9 DEF TimersFit
<1>8. CASE ~(RepeatOf(a, p) > 0)
  <2>1. UNCHANGED <<timer, adding, tmr_amap>>
    BY <1>4, <1>8 DEF tsvars
  <2>2. \A u \in Threads : ThreadFit(u)'
    BY <1>3, <1>6, <2>1 DEF TimersFit, ThreadFit
  <2> QED BY <1>5, <2>1, <2>2 DEF TimersFit, TimeoutsKept
<1> QED BY <1>7, <1>8

(***************************************************************************)
(* An activity exits, and its timer is left to the others.                 *)
(***************************************************************************)
LeftBy(t, a) ==
  /\ tmr_amap'[t][a] = NoTimer
  /\ \A b \in Activities \ {a} : tmr_amap'[t][b] = tmr_amap[t][b]
  /\ \A tm \in Timers : timer'[tm].timeout # 0 /\ timer[tm].pending => timer'[tm].pending

LEMMA TimersExit ==
  ASSUME EngineInv, EngineInv', TimersFit, NEW t \in Threads, NEW a \in Activities,
         ExitActivity(t, a), UNCHANGED <<pc, todo, cur, again, period>>, pc[t] # "timer"
  PROVE  TimersKept /\ LeftBy(t, a)
<1>1. /\ TypeOK /\ TypeOK' /\ tmr_amap \in Entries /\ tmr_amap' \in Entries
      /\ timer \in [Timers -> Timer]
  BY TimersTyped DEF EngineInv, TypeOK, Entries
<1>2. /\ activity_set'[t] = activity_set[t] \ {a}
      /\ \A u \in Threads : u # t => activity_set'[u] = activity_set[u]
      /\ UNCHANGED adding
  BY <1>1 DEF ExitActivity, TypeOK
<1>3. CASE tmr_amap[t][a] = NoTimer
  <2>1. UNCHANGED <<timer, tmr_amap>>
    BY <1>3 DEF ExitActivity
  <2>2. \A u \in Threads : ThreadFit(u)'
    BY <1>2, <1>3, <2>1 DEF TimersFit, ThreadFit
  <2> QED BY <1>2, <1>3, <2>1, <2>2 DEF TimersKept, TimersFit, TimeoutsKept, LeftBy
<1>4. CASE tmr_amap[t][a] # NoTimer
  <2>1. /\ timer' = TimersWithout(t, a)
        /\ tmr_amap' = WithEntry(tmr_amap, t, a, NoTimer)
        /\ Sharing(t, a) = {} => ServiceUnlocked
    BY <1>4 DEF ExitActivity, WithEntry
  <2>2. /\ Fit(timer', tmr_amap', adding)
        /\ Heard(timer, tmr_amap, adding) => Heard(timer', tmr_amap', adding)
        /\ \A tm \in Timers : timer'[tm].timeout # 0 =>
             /\ timer'[tm].timeout = timer[tm].timeout
             /\ timer[tm].pending => timer'[tm].pending
    BY <1>1, <1>4, <2>1, LeaveFits DEF TimersFit
  <2>3. /\ tmr_amap'[t][a] = NoTimer
        /\ \A u \in Threads : \A b \in Activities :
             u # t \/ b # a => tmr_amap'[u][b] = tmr_amap[u][b]
    BY <1>1, <2>1, EntryChanged
  <2>4. \A u \in Threads \ {t} : tmr_amap'[u] = tmr_amap[u]
    BY <1>1, <2>1 DEF WithEntry, Entries
  <2>5. \A u \in Threads \ {t} : ThreadFit(u)'
    <3>1. \A u \in Threads \ {t} :
            /\ pc'[u] = pc[u] /\ cur'[u] = cur[u] /\ todo'[u] = todo[u] /\ again'[u] = again[u]
            /\ tmr_amap'[u] = tmr_amap[u] /\ adding'[u] = adding[u]
            /\ activity_set'[u] = activity_set[u]
      BY <1>2, <2>4
    <3> QED BY <3>1, OtherThreads
  <2>6. ThreadFit(t)'
    BY <1>2, <2>3 DEF TimersFit, ThreadFit
  <2>7. TimeoutsKept => TimeoutsKept'
    <3> SUFFICES ASSUME TimeoutsKept,
                        NEW u \in Threads, NEW b \in Activities, tmr_amap'[u][b] # NoTimer
                 PROVE  timer'[tmr_amap'[u][b]].timeout = period[b]
      BY DEF TimeoutsKept
    <3>1. tmr_amap'[u][b] = tmr_amap[u][b] /\ tmr_amap[u][b] \in Timers
      BY <1>1, <2>3 DEF Entries
    <3>2. timer'[tmr_amap[u][b]].timeout # 0
      BY <2>2, <3>1 DEF Fit
    <3> QED BY <2>2, <3>1, <3>2 DEF TimeoutsKept
  <2>8. LeftBy(t, a)
    BY <2>2, <2>3 DEF LeftBy
  <2> QED BY <1>2, <2>2, <2>5, <2>6, <2>7, <2>8 DEF TimersKept, TimersFit
<1> QED BY <1>3, <1>4

LEMMA TimersUnregister ==
  ASSUME EngineInv, EngineInv', TimersFit, NEW t \in Threads, HandleUnregister(t)
  PROVE  TimersKept
<1>1. PICK a \in Activities : a = Head(eq[t]).a
  <2>1. Dequeue(t, {"Unregister"}) /\ eq \in [Threads -> Seq(ThreadEvent)]
    BY DEF HandleUnregister, EngineInv, TypeOK
  <2>2. Head(eq[t]) \in ThreadEvent /\ Head(eq[t]).type = "Unregister"
    BY <2>1, DequeueType
  <2> QED BY <2>2, ThreadEventFields
<1>2. pc[t] = "loop" /\ UNCHANGED <<pc, todo, cur, again, period>>
  BY DEF HandleUnregister, Dequeue, Idle, actvars
<1>3. CASE a \in activity_set[t]
  BY <1>1, <1>2, <1>3, TimersExit DEF HandleUnregister
<1>4. CASE a \notin activity_set[t]
  <2>1. UNCHANGED <<timer, adding, tmr_amap, todo, cur, again, activity_set, period>>
    BY <1>1, <1>2, <1>4 DEF HandleUnregister, tsvars
  <2>2. \A u \in Threads :
          \/ pc'[u] = pc[u]
          \/ pc[u] # "timer" /\ pc'[u] \notin {"timer", "off"} /\ adding[u] = NoTimer
    BY <1>2
  <2> QED BY <2>1, <2>2, TimersQuiet
<1> QED BY <1>3, <1>4

LEMMA TimersQuit ==
  ASSUME EngineInv, EngineInv', TimersFit, NEW t \in Threads, NEW a \in Activities,
         QuitActivity(t, a)
  PROVE  TimersKept
<1>1. pc[t] = "exit" /\ UNCHANGED <<pc, todo, cur, again, period>> /\ ExitActivity(t, a)
  BY DEF QuitActivity, actvars
<1> QED BY <1>1, TimersExit

(***************************************************************************)
(* An activity takes another timeout: NewTimeout leaves the timer it has.  *)
(***************************************************************************)
LEMMA TimersNewTimeout ==
  ASSUME EngineInv, EngineInv', TimersFit, NEW t \in Threads, NEW a \in Activities,
         NEW p \in Periods, tmr_amap[t][a] # NoTimer, NewTimeout(t, a, p),
         pc' = pc, cur' = cur, again' = again, activity_set' = activity_set,
         \/ pc[t] = "loop" /\ todo' = todo
         \/ pc[t] = "timer" /\ a \in todo[t] /\ todo' = [todo EXCEPT ![t] = @ \ {a}]
  PROVE  /\ TimersFit'
         /\ Heard(timer, tmr_amap, adding) => Heard(timer', tmr_amap', adding')
         /\ \E tm \in Timers : JoinedFor(TimersWithout(t, a), t, a, p, tm)
<1>1. /\ TypeOK /\ TypeOK' /\ tmr_amap \in Entries /\ tmr_amap' \in Entries
      /\ timer \in [Timers -> Timer]
  BY TimersTyped DEF EngineInv, TypeOK, Entries
<1>2. PICK tm \in Timers : JoinedFor(TimersWithout(t, a), t, a, p, tm)
  BY <1>1, JoinsTimer DEF NewTimeout, TimersFit
<1>3. todo'[t] \subseteq todo[t] /\ \A u \in Threads : u # t => todo'[u] = todo[u]
  BY <1>1 DEF TypeOK
<1>4. \A u \in Threads \ {t} : ThreadFit(u)'
  <2>1. \A u \in Threads \ {t} : tmr_amap'[u] = tmr_amap[u] /\ adding'[u] = adding[u]
    BY <1>1, <1>2, JoinedOthers
  <2>2. \A u \in Threads \ {t} :
          /\ pc'[u] = pc[u] /\ cur'[u] = cur[u] /\ todo'[u] = todo[u] /\ again'[u] = again[u]
          /\ tmr_amap'[u] = tmr_amap[u] /\ adding'[u] = adding[u]
          /\ activity_set'[u] = activity_set[u]
    BY <1>3, <2>1
  <2> QED BY <2>2, OtherThreads
<1>5. ThreadFit(t)'
  <2>1. \A b \in Activities : b # a => tmr_amap'[t][b] = tmr_amap[t][b]
    BY <1>2 DEF JoinedFor
  <2>2. pc[t] \in {"loop", "timer"}
    OBVIOUS
  <2>3. pc[t] = "timer" => a \notin todo'[t] /\ \A b \in todo'[t] : tmr_amap'[t][b] = cur[t]
    BY <1>1, <1>3, <2>1 DEF TimersFit, ThreadFit, TypeOK
  <2>4. again[t] => pc[t] = "timer" /\ \E b \in Activities \ todo'[t] : tmr_amap'[t][b] = cur[t]
    BY <1>3, <2>1 DEF TimersFit, ThreadFit
  <2>5. a \in activity_set[t]
    BY DEF TimersFit, ThreadFit
  <2> QED BY <2>1, <2>2, <2>3, <2>4, <2>5 DEF TimersFit, ThreadFit
<1> QED BY <1>2, <1>4, <1>5 DEF JoinedFor, TimersFit

LEMMA TimersExecute ==
  ASSUME EngineInv, EngineInv', TimersFit, NEW t \in Threads, NEW a \in Activities,
         ExecuteOnTimer(t, a)
  PROVE  /\ TimersKept
         /\ TimeoutsKept /\ PeriodsKept =>
              /\ UNCHANGED <<timer, adding, tmr_amap, period>>
              /\ again'[t] <=> again[t] \/ RepeatOf(a, period[a]) > 0
<1>1. /\ TypeOK /\ timer \in [Timers -> Timer] /\ tmr_amap \in Entries
  BY TimersTyped DEF EngineInv
<1>2. /\ pc[t] = "timer" /\ a \in todo[t] /\ todo' = [todo EXCEPT ![t] = @ \ {a}]
      /\ UNCHANGED <<pc, activity_set, cur, paused>>
  BY DEF ExecuteOnTimer, Idle
<1>3. cur[t] \in Timers /\ tmr_amap[t][a] = cur[t] /\ tmr_amap[t][a] # NoTimer
  BY <1>2, NoTimerAssumption DEF TimersFit, ThreadFit
<1>4. /\ a \notin todo'[t] /\ todo'[t] \subseteq todo[t]
      /\ \A u \in Threads : u # t => todo'[u] = todo[u]
  BY <1>1, <1>2 DEF TypeOK
<1>5. CASE RepeatOf(a, period[a]) > 0
  <2>1. PICK p \in PeriodsAfter(a) :
          /\ period' = [period EXCEPT ![a] = p]
          /\ IF p # timer[cur[t]].timeout
               THEN NewTimeout(t, a, p) /\ UNCHANGED again
               ELSE again' = [again EXCEPT ![t] = TRUE] /\ UNCHANGED <<tsvars, tmr_amap>>
    BY <1>5 DEF ExecuteOnTimer
  <2>2. p \in Periods /\ period \in [Activities -> Periods \union {0}]
    <3>1. period[a] \in Periods \union {0} /\ period[a] # 0
      BY <1>1, <1>5 DEF TypeOK, RepeatOf
    <3> QED BY <1>1, <3>1, ActivityAssumption DEF PeriodsAfter, TypeOK
  <2>3. PeriodsKept => p = period[a] /\ period' = period
    BY <2>1, <2>2 DEF PeriodsKept, PeriodsAfter
  <2>4. CASE p # timer[cur[t]].timeout
    <3>1. NewTimeout(t, a, p) /\ UNCHANGED again
      BY <2>1, <2>4
    <3>2. TimersFit' /\ (Heard(timer, tmr_amap, adding) => Heard(timer', tmr_amap', adding'))
      BY <1>2, <1>3, <2>2, <3>1, TimersNewTimeout
    <3>3. ~(TimeoutsKept /\ PeriodsKept)
      BY <1>3, <2>3, <2>4 DEF TimeoutsKept
    <3> QED BY <3>2, <3>3 DEF TimersKept
  <2>5. CASE p = timer[cur[t]].timeout
    <3>1. again' = [again EXCEPT ![t] = TRUE] /\ UNCHANGED <<timer, adding, tmr_amap>>
      BY <2>1, <2>5 DEF tsvars
    <3>2. again'[t] = TRUE /\ \A u \in Threads : u # t => again'[u] = again[u]
      BY <1>1, <3>1 DEF TypeOK
    <3>3. \A u \in Threads : ThreadFit(u)'
      BY <1>2, <1>3, <1>4, <3>1, <3>2 DEF TimersFit, ThreadFit
    <3>4. TimeoutsKept /\ PeriodsKept => TimeoutsKept'
      BY <2>3, <3>1 DEF TimeoutsKept
    <3> QED BY <1>5, <2>3, <3>1, <3>2, <3>3, <3>4 DEF TimersKept, TimersFit
  <2> QED BY <2>4, <2>5
<1>6. CASE ~(RepeatOf(a, period[a]) > 0)
  <2>1. UNCHANGED <<period, timer, adding, tmr_amap, again>>
    BY <1>6 DEF ExecuteOnTimer, tsvars
  <2>2. \A u \in Threads : ThreadFit(u)'
    BY <1>2, <1>4, <2>1 DEF TimersFit, ThreadFit
  <2>3. again'[t] <=> again[t] \/ RepeatOf(a, period[a]) > 0
    BY <1>6, <2>1
  <2> QED BY <1>2, <2>1, <2>2, <2>3 DEF TimersKept, TimersFit, TimeoutsKept
<1> QED BY <1>5, <1>6

LEMMA TimersPost ==
  ASSUME LifeInv, EngineInv', TimersFit, NEW t \in Threads, HandlePost(t)
  PROVE  /\ TimersKept
         /\ \/ UNCHANGED <<timer, adding, tmr_amap>>
            \/ \E a \in Activities : \E p \in Periods : \E tm \in Timers :
                 /\ JoinedFor(TimersWithout(t, a), t, a, p, tm)
                 /\ period' = [period EXCEPT ![a] = p]
                 /\ tmr_amap[t][a] # NoTimer
<1>1. /\ EngineInv /\ TypeOK /\ timer \in [Timers -> Timer] /\ tmr_amap \in Entries
      /\ period \in [Activities -> Periods \union {0}]
  BY TimersTyped DEF LifeInv, EngineInv, TypeOK
<1> DEFINE e == Head(eq[t])
<1>2. e.a \in Activities /\ (e.type = "TimeoutChange" => e.to \in Periods)
  <2>1. Dequeue(t, {"Pause", "Resume", "Execute", "TimeoutChange"})
        /\ eq \in [Threads -> Seq(ThreadEvent)]
    BY <1>1 DEF HandlePost, TypeOK
  <2>2. e \in ThreadEvent /\ e.type \in {"Pause", "Resume", "Execute", "TimeoutChange"}
    BY <2>1, DequeueType
  <2> QED BY <2>2, ThreadEventFields
<1>3. /\ pc[t] = "loop" /\ UNCHANGED <<pc, activity_set, todo, cur, again>>
      /\ IF e.type = "TimeoutChange" /\ tmr_amap[t][e.a] # NoTimer
           THEN NewTimeout(t, e.a, e.to) ELSE UNCHANGED <<tsvars, tmr_amap>>
      /\ period' = IF e.a \in activity_set[t] /\ e.type = "TimeoutChange"
                     THEN [period EXCEPT ![e.a] = e.to] ELSE period
  BY DEF HandlePost, Dequeue, Idle
<1> HIDE DEF e
<1>4. CASE e.type = "TimeoutChange" /\ tmr_amap[t][e.a] # NoTimer
  <2>1. NewTimeout(t, e.a, e.to) /\ e.a \in activity_set[t]
    BY <1>2, <1>3, <1>4 DEF TimersFit, ThreadFit
  <2>2. /\ TimersFit'
        /\ Heard(timer, tmr_amap, adding) => Heard(timer', tmr_amap', adding')
        /\ \E tm \in Timers : JoinedFor(TimersWithout(t, e.a), t, e.a, e.to, tm)
    BY <1>1, <1>2, <1>3, <1>4, <2>1, TimersNewTimeout
  <2>3. PICK tm \in Timers : JoinedFor(TimersWithout(t, e.a), t, e.a, e.to, tm)
    BY <2>2
  <2>4. period' = [period EXCEPT ![e.a] = e.to]
    BY <1>3, <1>4, <2>1
  <2>5. \A u \in Threads : tmr_amap[u][e.a] # NoTimer => u = t
    <3> SUFFICES ASSUME NEW u \in Threads, tmr_amap[u][e.a] # NoTimer
                 PROVE  u = t
      OBVIOUS
    <3>1. e.a \in activity_set[u]
      BY <1>2 DEF TimersFit, ThreadFit
    <3>2. Uses(u, e.a) /\ Uses(t, e.a)
      BY <2>1, <3>1 DEF Uses, Entered
    <3> QED BY <1>2, <3>2 DEF LifeInv, LinkInv, LinkRel, OneUser
  <2>6. TimeoutsKept => TimeoutsKept'
    <3> SUFFICES ASSUME TimeoutsKept,
                        NEW u \in Threads, NEW b \in Activities, tmr_amap'[u][b] # NoTimer
                 PROVE  timer'[tmr_amap'[u][b]].timeout = period'[b]
      BY DEF TimeoutsKept
    <3>1. CASE u = t /\ b = e.a
      BY <1>1, <1>2, <2>3, <2>4, <3>1 DEF JoinedFor
    <3>2. CASE ~(u = t /\ b = e.a)
      <4>1. /\ tmr_amap'[u][b] = tmr_amap[u][b]
            /\ timer'[tmr_amap[u][b]].timeout = timer[tmr_amap[u][b]].timeout
        BY <2>3, <3>2 DEF JoinedFor
      <4>2. b # e.a
        BY <2>5, <3>2, <4>1
      <4> QED BY <1>1, <2>4, <4>1, <4>2 DEF TimeoutsKept
    <3> QED BY <3>1, <3>2
  <2> QED BY <1>2, <1>4, <2>2, <2>3, <2>4, <2>6 DEF TimersKept
<1>5. CASE ~(e.type = "TimeoutChange" /\ tmr_amap[t][e.a] # NoTimer)
  <2>1. UNCHANGED <<timer, adding, tmr_amap>>
    BY <1>3, <1>5 DEF tsvars
  <2>2. \A u \in Threads : ThreadFit(u)'
    BY <1>3, <2>1 DEF TimersFit, ThreadFit
  <2>3. TimeoutsKept => TimeoutsKept'
    <3> SUFFICES ASSUME TimeoutsKept,
                        NEW u \in Threads, NEW b \in Activities, tmr_amap[u][b] # NoTimer
                 PROVE  timer[tmr_amap[u][b]].timeout = period'[b]
      BY <2>1 DEF TimeoutsKept
    <3>1. CASE period' = period
      BY <3>1 DEF TimeoutsKept
    <3>2. CASE e.a \in activity_set[t] /\ e.type = "TimeoutChange"
      <4>1. b \in activity_set[u]
        BY DEF TimersFit, ThreadFit
      <4>2. b # e.a
        <5>1. Uses(u, b) /\ Uses(t, e.a)
          BY <3>2, <4>1 DEF Uses, Entered
        <5> QED BY <1>2, <1>5, <3>2, <5>1 DEF LifeInv, LinkInv, LinkRel, OneUser
      <4>3. period'[b] = period[b]
        BY <1>1, <1>3, <3>2, <4>2
      <4> QED BY <4>3 DEF TimeoutsKept
    <3> QED BY <1>3, <3>1, <3>2
  <2> QED BY <2>1, <2>2, <2>3 DEF TimersKept, TimersFit
<1> QED BY <1>4, <1>5

LEMMA TimersInitially == Init => TimersFit /\ TimeoutsKept /\ Heard(timer, tmr_amap, adding)
<1> SUFFICES ASSUME Init PROVE TimersFit /\ TimeoutsKept /\ Heard(timer, tmr_amap, adding)
  OBVIOUS
<1>1. /\ \A t \in Threads : \A a \in Activities : tmr_amap[t][a] = NoTimer
      /\ \A tm \in Timers : timer[tm].timeout = 0 /\ timer[tm].lis = {} /\ ~timer[tm].pending
      /\ \A t \in Threads : /\ adding[t] = NoTimer /\ ~again[t] /\ activity_set[t] = {}
                            /\ pc[t] = "off"
  BY DEF Init, TimersInit, Unallocated
<1>2. Fit(timer, tmr_amap, adding) /\ TimeoutsKept
  BY <1>1 DEF Fit, TimeoutsKept
<1>3. Heard(timer, tmr_amap, adding)
  BY <1>1, NoTimerAssumption DEF Heard
<1>4. \A t \in Threads : ThreadFit(t)
  BY <1>1 DEF ThreadFit
<1> QED BY <1>2, <1>3, <1>4 DEF TimersFit

-------------------------------------------------------------------------------
(***************************************************************************)
(* An activity is handed to its thread once, if there is one listener.     *)
(***************************************************************************)
\* the queue q starts no activity twice, and none of S
StartsOnce(q, S) ==
  /\ \A a \in S : ~Has(q, "Register", a)
  /\ \A i, j \in DOMAIN q :
       q[i].type = "Register" /\ q[j].type = "Register" /\ i < j => q[i].a # q[j].a

RegisteredOnce == \A t \in Threads : StartsOnce(eq[t], activity_set[t])

LEMMA StartsOnceAppend ==
  ASSUME NEW q \in Seq(ThreadEvent), NEW e, NEW S, StartsOnce(q, S),
         e.type = "Register" => e.a \notin S /\ ~Has(q, "Register", e.a)
  PROVE  StartsOnce(Append(q, e), S)
<1>1. /\ DOMAIN Append(q, e) = DOMAIN q \union {Len(q) + 1}
      /\ Len(q) \in Nat /\ DOMAIN q = 1..Len(q)
      /\ \A i \in DOMAIN q : Append(q, e)[i] = q[i]
      /\ Append(q, e)[Len(q) + 1] = e
  OBVIOUS
<1>2. \A a \in S : ~Has(Append(q, e), "Register", a)
  BY EventsAppend DEF StartsOnce
<1>3. ASSUME NEW i \in DOMAIN Append(q, e), NEW j \in DOMAIN Append(q, e), i < j,
             Append(q, e)[i].type = "Register", Append(q, e)[j].type = "Register"
      PROVE  Append(q, e)[i].a # Append(q, e)[j].a
  <2>1. i \in DOMAIN q
    BY <1>1, <1>3
  <2>2. CASE j \in DOMAIN q
    BY <1>1, <1>3, <2>1, <2>2 DEF StartsOnce
  <2>3. CASE j = Len(q) + 1
    BY <1>1, <1>3, <2>1, <2>3 DEF Has
  <2> QED BY <1>1, <2>2, <2>3
<1> QED BY <1>2, <1>3 DEF StartsOnce

LEMMA StartsOnceTail ==
  ASSUME NEW q \in Seq(ThreadEvent), q # <<>>, NEW S, StartsOnce(q, S)
  PROVE  /\ StartsOnce(Tail(q), S)
         /\ Head(q).type = "Register" =>
              Head(q).a \notin S /\ StartsOnce(Tail(q), S \union {Head(q).a})
<1>1. /\ Len(q) \in Nat /\ 1 \in DOMAIN q /\ DOMAIN q = 1..Len(q) /\ q[1] = Head(q)
      /\ \A i \in DOMAIN Tail(q) : Tail(q)[i] = q[i + 1] /\ i + 1 \in DOMAIN q /\ 1 < i + 1
      /\ DOMAIN Tail(q) \subseteq Nat
  OBVIOUS
<1>2. \A a \in S : ~Has(Tail(q), "Register", a) /\ (Head(q).type = "Register" => Head(q).a # a)
  BY EventsTail DEF StartsOnce
<1>3. ASSUME NEW i \in DOMAIN Tail(q), NEW j \in DOMAIN Tail(q), i < j,
             Tail(q)[i].type = "Register", Tail(q)[j].type = "Register"
      PROVE  Tail(q)[i].a # Tail(q)[j].a
  <2>1. i + 1 < j + 1
    BY <1>1, <1>3
  <2> QED BY <1>1, <1>3, <2>1 DEF StartsOnce
<1>4. Head(q).type = "Register" => ~Has(Tail(q), "Register", Head(q).a)
  BY <1>1 DEF StartsOnce, Has
<1> QED BY <1>2, <1>3, <1>4 DEF StartsOnce

LEMMA OnceQuiet ==
  ASSUME TypeOK, TypeOK', RegisteredOnce, NEW t \in Threads,
         activity_set'[t] \subseteq activity_set[t],
         \/ eq'[t] = eq[t]
         \/ \E e : e.type # "Register" /\ eq'[t] = Append(eq[t], e)
         \/ eq[t] # <<>> /\ eq'[t] = Tail(eq[t])
  PROVE  StartsOnce(eq'[t], activity_set'[t])
<1>1. eq[t] \in Seq(ThreadEvent) /\ StartsOnce(eq[t], activity_set[t])
  BY DEF TypeOK, RegisteredOnce
<1>2. StartsOnce(eq'[t], activity_set[t])
  <2>1. CASE eq'[t] = eq[t]
    BY <1>1, <2>1
  <2>2. ASSUME NEW e, e.type # "Register", eq'[t] = Append(eq[t], e)
        PROVE  StartsOnce(eq'[t], activity_set[t])
    BY <1>1, <2>2, StartsOnceAppend
  <2>3. CASE eq[t] # <<>> /\ eq'[t] = Tail(eq[t])
    BY <1>1, <2>3, StartsOnceTail
  <2> QED BY <2>1, <2>2, <2>3
<1> QED BY <1>2 DEF StartsOnce

LEMMA OnceMoves ==
  ASSUME TypeOK, TypeOK', RegisteredOnce, NobodyMoves, QueuesQuiet
  PROVE  RegisteredOnce'
<1> SUFFICES ASSUME NEW t \in Threads PROVE StartsOnce(eq'[t], activity_set'[t])
  BY DEF RegisteredOnce
<1>1. activity_set'[t] \subseteq activity_set[t]
  BY DEF NobodyMoves, TypeOK
<1>2. \/ eq'[t] = eq[t]
      \/ \E e : e.type # "Register" /\ eq'[t] = Append(eq[t], e)
      \/ eq[t] # <<>> /\ eq'[t] = Tail(eq[t])
  BY DEF QueuesQuiet, QueueQuiet, StartStop
<1> QED BY <1>1, <1>2, OnceQuiet

\* a client that has one listener registers an activity once
LEMMA OnceRegister ==
  ASSUME LifeInv, LifeInv', OneListener, RegisteredOnce,
         NEW a \in Activities, NEW l \in Listeners, RegisterActivity(a, l)
  PROVE  RegisteredOnce'
<1>1. TypeOK /\ TypeOK' /\ ClientTurn
  BY DEF LifeInv, EngineInv, RegisterActivity
<1>2. life[a] = "new"
  <2>1. ASSUME life[a] = "registered", \A t \in Threads : <<a, l, t>> \notin conn
        PROVE  FALSE
    <3>1. PICK t \in Threads : Linked(t, a)
      BY <1>1, <2>1 DEF LifeInv, LinkInv, LinkRel, RegisteredEntered
    <3> QED BY <2>1, <3>1 DEF Linked, OneListener
  <2> QED BY <2>1 DEF RegisterActivity
<1>3. \A t \in Threads : a \notin activity_set[t] /\ ~Has(eq[t], "Register", a)
  BY <1>2 DEF LifeInv, LinkInv, LinkRel, NewUnused, Uses, Entered
<1>4. PICK u \in Threads : Push(u, AEvent("Register", a))
  BY <1>1 DEF RegisterActivity, ThreadsFor, EngineInv, TypeOK
<1>5. ASSUME NEW t \in Threads PROVE StartsOnce(eq'[t], activity_set'[t])
  <2>1. eq[t] \in Seq(ThreadEvent) /\ StartsOnce(eq[t], activity_set[t]) /\ activity_set' = activity_set
    BY <1>1 DEF TypeOK, RegisteredOnce, RegisterActivity
  <2>2. CASE t = u
    <3>1. eq'[t] = Append(eq[t], AEvent("Register", a))
      BY <1>1, <1>4, <2>2 DEF Push, TypeOK
    <3> QED BY <1>3, <2>1, <3>1, StartsOnceAppend DEF AEvent
  <2>3. CASE t # u
    BY <1>1, <1>4, <2>1, <2>3 DEF Push, TypeOK
  <2> QED BY <2>2, <2>3
<1> QED BY <1>5 DEF RegisteredOnce

LEMMA OnceHandleRegister ==
  ASSUME LifeInv, LifeInv', RegisteredOnce, NEW t \in Threads, HandleRegister(t)
  PROVE  RegisteredOnce' /\ Head(eq[t]).a \notin activity_set[t]
<1>1. TypeOK /\ TypeOK'
  BY DEF LifeInv, EngineInv
<1>2. /\ eq[t] # <<>> /\ Head(eq[t]).type = "Register" /\ eq[t] \in Seq(ThreadEvent)
      /\ eq'[t] = Tail(eq[t]) /\ \A u \in Threads \ {t} : eq'[u] = eq[u]
      /\ activity_set'[t] = activity_set[t] \union {Head(eq[t]).a}
      /\ \A u \in Threads \ {t} : activity_set'[u] = activity_set[u]
  BY <1>1 DEF HandleRegister, Dequeue, Idle, TypeOK
<1>3. /\ Head(eq[t]).a \notin activity_set[t]
      /\ StartsOnce(eq'[t], activity_set'[t])
  <2>1. StartsOnce(eq[t], activity_set[t])
    BY DEF RegisteredOnce
  <2>2. /\ Head(eq[t]).a \notin activity_set[t]
        /\ StartsOnce(Tail(eq[t]), activity_set[t] \union {Head(eq[t]).a})
    BY <1>2, <2>1, StartsOnceTail
  <2> QED BY <1>2, <2>2
<1>4. ASSUME NEW u \in Threads, u # t PROVE StartsOnce(eq'[u], activity_set'[u])
  BY <1>2, <1>4 DEF RegisteredOnce
<1> QED BY <1>3, <1>4 DEF RegisteredOnce

LEMMA OnceNext ==
  ASSUME LifeInv, LifeInv', OneListener, RegisteredOnce, [Next]_vars
  PROVE  RegisteredOnce'
<1>1. EngineInv /\ LinkInv /\ TypeOK /\ TypeOK'
  BY DEF LifeInv, EngineInv
<1>2. ASSUME NEW a \in Activities, UnregisterActivity(a) PROVE RegisteredOnce'
  <2>1. PICK u \in Threads : Push(u, AEvent("Unregister", a))
    BY <1>2 DEF UnregisterActivity, ThreadsOf
  <2>2. activity_set' = activity_set
    BY <1>2 DEF UnregisterActivity, runvars
  <2>3. \A t \in Threads : eq'[t] = eq[t] \/ eq'[t] = Append(eq[t], AEvent("Unregister", a))
    BY <1>1, <2>1 DEF Push, TypeOK
  <2>4. AEvent("Unregister", a).type # "Register"
    BY DEF AEvent
  <2> QED BY <1>1, <2>2, <2>3, <2>4, OnceQuiet DEF RegisteredOnce
<1>3. CASE Client
  BY <1>1, <1>2, <1>3, OnceRegister, LinkMain, OnceMoves DEF Client
<1>4. CASE EventLoop \/ Finish
  <2>1. CASE OnAutoDestroy \/ FinishDelete
    BY <2>1 DEF OnAutoDestroy, FinishDelete, RegisteredOnce, runvars
  <2> QED BY <1>1, <1>4, <2>1, LinkMain, OnceMoves DEF EventLoop, Finish
<1>5. ASSUME NEW t \in Threads, Run(t) PROVE RegisteredOnce'
  <2>1. CASE HandleRegister(t)
    BY <2>1, OnceHandleRegister
  <2>2. CASE HandleUnregister(t) \/ \E a \in Activities : QuitActivity(t, a)
    <3>1. /\ \A u \in Threads : activity_set'[u] \subseteq activity_set[u]
          /\ \A u \in Threads : eq'[u] = eq[u] \/ (eq[u] # <<>> /\ eq'[u] = Tail(eq[u]))
      <4>1. CASE HandleUnregister(t)
        <5>1. /\ eq[t] # <<>> /\ eq' = [eq EXCEPT ![t] = Tail(eq[t])]
              /\ \/ activity_set' = activity_set
                 \/ activity_set' = [activity_set EXCEPT ![t] = @ \ {Head(eq[t]).a}]
          BY <4>1 DEF HandleUnregister, ExitActivity, Dequeue
        <5>2. eq'[t] = Tail(eq[t]) /\ \A u \in Threads : u # t => eq'[u] = eq[u]
          BY <1>1, <5>1 DEF TypeOK
        <5>3. \A u \in Threads : activity_set'[u] \subseteq activity_set[u]
          <6>1. CASE activity_set' = activity_set
            BY <6>1
          <6>2. CASE activity_set' = [activity_set EXCEPT ![t] = @ \ {Head(eq[t]).a}]
            BY <1>1, <6>2 DEF TypeOK
          <6> QED BY <5>1, <6>1, <6>2
        <5> QED BY <5>1, <5>2, <5>3
      <4>2. CASE \E a \in Activities : QuitActivity(t, a)
        <5>1. PICK a \in Activities : /\ eq' = eq
                                      /\ activity_set' = [activity_set EXCEPT ![t] = @ \ {a}]
          BY <4>2 DEF QuitActivity, ExitActivity
        <5> QED BY <1>1, <5>1 DEF TypeOK
      <4> QED BY <2>2, <4>1, <4>2
    <3> QED BY <1>1, <3>1, OnceQuiet DEF RegisteredOnce
  <2>3. CASE \/ Start(t) \/ JoinTimer(t) \/ HandleTimer(t) \/ HandlePost(t) \/ EndTimer(t)
             \/ LeaveLoop(t) \/ Drain(t) \/ EndRun(t)
             \/ \E a \in Activities : ExecuteOnTimer(t, a)
    BY <1>1, <2>3, LinkRunOther, OnceMoves
  <2> QED BY <1>5, <2>1, <2>2, <2>3 DEF Run
<1>6. CASE (\E tm \in Timers : Expire(tm)) \/ UNCHANGED vars
  BY <1>1, <1>6, LinkMain, OnceMoves
<1> QED BY <1>3, <1>4, <1>5, <1>6 DEF Next, Ended

-------------------------------------------------------------------------------
(***************************************************************************)
(* The invariant.  A listener is heard by none but its activities unless   *)
(* activity_run runs again for another listener, after execute() changed   *)
(* the period: then the thread keeps the timer it had for ever.            *)
(***************************************************************************)
TimerInv ==
  /\ TimersFit
  /\ OneListener => RegisteredOnce
  /\ SelfPeriods = {} => TimeoutsKept
  /\ OneListener \/ SelfPeriods = {} => Heard(timer, tmr_amap, adding)

LEMMA TimersKeptInv ==
  ASSUME TimerInv, TimersKept, OneListener => RegisteredOnce'
  PROVE  TimerInv'
BY DEF TimerInv, TimersKept, PeriodsKept, OneListener

LEMMA TimersNext == LifeInv /\ TimerInv /\ [Next]_vars => TimerInv'
<1> SUFFICES ASSUME LifeInv, TimerInv, [Next]_vars PROVE TimerInv'
  OBVIOUS
<1>1. EngineInv /\ LifeInv' /\ EngineInv' /\ TimersFit
  BY LifeNext DEF LifeInv, TimerInv
<1>2. OneListener => RegisteredOnce'
  BY <1>1, OnceNext DEF TimerInv
<1>3. CASE Client \/ EventLoop \/ Finish \/ UNCHANGED vars
  BY <1>1, <1>2, <1>3, TimersMain, TimersKeptInv DEF Client
<1>4. ASSUME NEW tm \in Timers, Expire(tm) PROVE TimerInv'
  BY <1>1, <1>2, <1>4, TimersExpire, TimersKeptInv
<1>5. ASSUME NEW t \in Threads, Run(t) PROVE TimerInv'
  <2>1. CASE HandleRegister(t)
    <3>1. OneListener => Head(eq[t]).a \notin activity_set[t]
      BY <1>1, <2>1, OnceHandleRegister DEF TimerInv
    <3>2. SelfPeriods = {} => TimeoutsKept /\ PeriodsKept
      BY DEF TimerInv, PeriodsKept
    <3>3. /\ TimersFit'
          /\ \/ Head(eq[t]).a \notin activity_set[t]
             \/ TimeoutsKept /\ PeriodsKept
             => (Heard(timer, tmr_amap, adding) => Heard(timer', tmr_amap', adding'))
          /\ TimeoutsKept /\ PeriodsKept => TimeoutsKept'
      BY <1>1, <2>1, TimersRegister
    <3> QED BY <1>2, <3>1, <3>2, <3>3 DEF TimerInv, OneListener
  <2>2. CASE HandleUnregister(t) \/ \E a \in Activities : QuitActivity(t, a)
    BY <1>1, <1>2, <2>2, TimersUnregister, TimersQuit, TimersKeptInv
  <2>3. CASE JoinTimer(t) \/ HandleTimer(t) \/ EndTimer(t) \/ HandlePost(t)
    BY <1>1, <1>2, <2>3, TimersJoin, TimersHandle, TimersEnd, TimersPost, TimersKeptInv
  <2>4. CASE Start(t) \/ LeaveLoop(t) \/ Drain(t) \/ EndRun(t)
    BY <1>1, <1>2, <2>4, TimersRunQuiet, TimersKeptInv
  <2>5. CASE \E a \in Activities : ExecuteOnTimer(t, a)
    BY <1>1, <1>2, <2>5, TimersExecute, TimersKeptInv
  <2> QED BY <1>5, <2>1, <2>2, <2>3, <2>4, <2>5 DEF Run
<1> QED BY <1>3, <1>4, <1>5 DEF Next, Ended

LEMMA TimersInvariant == Spec => [](LifeInv /\ TimerInv)
<1>1. Init => LifeInv /\ TimerInv
  <2> SUFFICES ASSUME Init PROVE LifeInv /\ TimerInv
    OBVIOUS
  <2>1. LifeInv
    BY InvInit, LinkInit, GoneInit DEF LifeInv
  <2>2. RegisteredOnce
    BY DEF Init, RegisteredOnce, StartsOnce, Has
  <2> QED BY <2>1, <2>2, TimersInitially DEF TimerInv
<1>2. LifeInv /\ TimerInv /\ [Next]_vars => (LifeInv /\ TimerInv)'
  BY LifeNext, TimersNext
<1> QED BY <1>1, <1>2, PTL DEF Spec

(***************************************************************************)
(* The timer of an activity exists and calls its thread, or is about to; a *)
(* timer about to be restarted exists; a timeout has one timer.            *)
(***************************************************************************)
THEOREM TimersOfActivitiesExist == Spec => []TimerLinks
<1>1. LifeInv /\ TimerInv => TimerLinks
  <2> SUFFICES ASSUME LifeInv, TimerInv PROVE TimerLinks
    OBVIOUS
  <2>1. Fit(timer, tmr_amap, adding) /\ \A t \in Threads : ThreadFit(t)
    BY DEF TimerInv, TimersFit
  <2>2. \A t \in Threads, a \in Activities :
          tmr_amap[t][a] # NoTimer =>
            /\ timer[tmr_amap[t][a]].timeout # 0
            /\ t \in timer[tmr_amap[t][a]].lis \/ adding[t] = tmr_amap[t][a]
    BY <2>1 DEF Fit
  <2>3. ASSUME NEW t \in Threads, again[t] PROVE timer[cur[t]].timeout # 0
    BY <2>1, <2>3, NoTimerAssumption DEF ThreadFit, Fit
  <2>4. \A tm, un \in Timers : timer[tm].timeout # 0 /\ timer[tm].timeout = timer[un].timeout => tm = un
    BY <2>1 DEF Fit
  <2> QED BY <2>2, <2>3, <2>4 DEF TimerLinks, Live
<1> QED BY <1>1, TimersInvariant, PTL

(***************************************************************************)
(* No timer calls back a CuThread that has ended.  It needs a condition:   *)
(* an activity is registered by one listener, or its execute() leaves its  *)
(* period alone.                                                           *)
(***************************************************************************)
THEOREM TimersCallTheLiving ==
  Spec => [](OneListener \/ SelfPeriods = {} => TimerListenersAlive)
<1>1. LifeInv /\ TimerInv => (OneListener \/ SelfPeriods = {} => TimerListenersAlive)
  <2> SUFFICES ASSUME LifeInv, TimerInv, OneListener \/ SelfPeriods = {},
                      NEW tm \in Timers, NEW t \in timer[tm].lis
               PROVE  /\ t \in threads
                      /\ pc[t] # "done"
                      /\ \E a \in Activities : tmr_amap[t][a] = tm
    BY DEF TimerListenersAlive
  <2>1. t \in Threads
    BY DEF LifeInv, EngineInv, TypeOK, TimersTypeOK, Timer
  <2>2. PICK a \in Activities : tmr_amap[t][a] = tm
    BY <2>1 DEF TimerInv, Heard
  <2>3. a \in activity_set[t] /\ pc[t] # "off"
    BY <2>1, <2>2, NoTimerAssumption DEF TimerInv, TimersFit, ThreadFit
  <2>4. pc[t] # "done" /\ t \in threads
    BY <2>1, <2>3 DEF LifeInv, LinkInv, ThreadsAlive, Runs
  <2> QED BY <2>2, <2>4
<1> QED BY <1>1, TimersInvariant, PTL

-------------------------------------------------------------------------------
(***************************************************************************)
(* Threads that share a timer keep it going together.                      *)
(***************************************************************************)
\* the queue q tells that the timer expired
Told(q, tm) == \E i \in DOMAIN q : q[i].type = "TimerExpired" /\ q[i].tm = tm

\* t restarts the timer unless something happens to its activities
Serving(t, tm) ==
  \/ Told(eq[t], tm)
  \/ pc[t] = "timer" /\ cur[t] = tm /\ (again[t] \/ todo[t] # {})

HaveTimers ==
  \A t \in Threads : \A a \in activity_set[t] : period[a] # 0 => tmr_amap[t][a] # NoTimer

TimersServed ==
  \A tm \in Timers : timer[tm].timeout # 0 =>
    timer[tm].pending \/ \E t \in timer[tm].lis : Serving(t, tm)

ServedInv == /\ TimeoutsKept /\ Heard(timer, tmr_amap, adding)
             /\ HaveTimers /\ TimersServed

Calm == Steady /\ ClientTurn

LEMMA ToldAppend ==
  ASSUME NEW q \in Seq(ThreadEvent), NEW e, NEW tm
  PROVE  /\ Told(q, tm) => Told(Append(q, e), tm)
         /\ e.type = "TimerExpired" /\ e.tm = tm => Told(Append(q, e), tm)
<1>1. /\ DOMAIN Append(q, e) = DOMAIN q \union {Len(q) + 1}
      /\ \A i \in DOMAIN q : Append(q, e)[i] = q[i]
      /\ Append(q, e)[Len(q) + 1] = e
  OBVIOUS
<1> QED BY <1>1 DEF Told

LEMMA ToldTail ==
  ASSUME NEW q \in Seq(ThreadEvent), q # <<>>, NEW tm, Told(q, tm),
         ~(Head(q).type = "TimerExpired" /\ Head(q).tm = tm)
  PROVE  Told(Tail(q), tm)
<1>1. /\ q[1] = Head(q)
      /\ \A i \in DOMAIN q : i = 1 \/ (i - 1 \in DOMAIN Tail(q) /\ Tail(q)[i - 1] = q[i])
  OBVIOUS
<1> QED BY <1>1 DEF Told

\* who has an activity while nobody is unregistered goes on serving it
LEMMA CalmThreads ==
  ASSUME LifeInv, Calm, NEW t \in Threads, activity_set[t] # {}
  PROVE  pc[t] \in {"start", "loop", "timer"} /\ ~Contains(eq[t], LeaveEvents)
<1>1. PICK a \in Activities : a \in activity_set[t]
  BY DEF LifeInv, EngineInv, TypeOK
<1>2. ~Leaving(t, a)
  BY DEF Calm, Steady, LifeInv, LinkInv, LinkRel, LeavingLife
<1>3. Linked(t, a)
  BY <1>1, <1>2 DEF Calm, LifeInv, LinkInv, LinkRel, EnteredLeaves, Entered
<1>4. t \in svc
  BY <1>3 DEF Linked, LifeInv, EngineInv, LinksInService
<1> QED BY <1>4 DEF Calm, LifeInv, EngineInv, Usable

\* its listeners are such threads
LEMMA CalmListeners ==
  ASSUME LifeInv, TimersFit, ServedInv, Calm, NEW tm \in Timers, NEW t \in timer[tm].lis
  PROVE  /\ t \in Threads /\ pc[t] \in {"start", "loop", "timer"}
         /\ ~Contains(eq[t], LeaveEvents)
         /\ \E a \in activity_set[t] : tmr_amap[t][a] = tm
<1>1. t \in Threads
  BY DEF LifeInv, EngineInv, TypeOK, TimersTypeOK, Timer
<1>2. PICK a \in Activities : tmr_amap[t][a] = tm
  BY <1>1 DEF ServedInv, Heard
<1>3. a \in activity_set[t]
  BY <1>1, <1>2, NoTimerAssumption DEF TimersFit, ThreadFit
<1> QED BY <1>1, <1>2, <1>3, CalmThreads

(***************************************************************************)
(* Steps that change no entry: each timer is pending, or served as before. *)
(***************************************************************************)
LEMMA ServedKept ==
  ASSUME ServedInv, TimersKept, period' = period, tmr_amap' = tmr_amap,
         activity_set' = activity_set,
         \A tm \in Timers :
           /\ timer'[tm].timeout = timer[tm].timeout
           /\ timer[tm].lis \subseteq timer'[tm].lis
           /\ \/ timer'[tm].timeout # 0 => timer'[tm].pending
              \/ \E t \in timer[tm].lis : Serving(t, tm)'
              \/ /\ ~timer[tm].pending
                 /\ \A t \in timer[tm].lis : Serving(t, tm) => Serving(t, tm)'
  PROVE  ServedInv'
<1>1. TimeoutsKept' /\ Heard(timer', tmr_amap', adding')
  BY DEF ServedInv, TimersKept, PeriodsKept
<1>2. HaveTimers'
  BY DEF ServedInv, HaveTimers
<1>3. TimersServed'
  <2> SUFFICES ASSUME NEW tm \in Timers, timer'[tm].timeout # 0
               PROVE  timer'[tm].pending \/ \E t \in timer'[tm].lis : Serving(t, tm)'
    BY DEF TimersServed
  <2> QED BY DEF ServedInv, TimersServed
<1> QED BY <1>1, <1>2, <1>3 DEF ServedInv

LEMMA ServedQuiet ==
  ASSUME ServedInv, TimersKept, UNCHANGED <<timer, tmr_amap, activity_set, period>>,
         \A tm \in Timers : \A t \in timer[tm].lis : Serving(t, tm) => Serving(t, tm)'
  PROVE  ServedInv'
<1>1. \A tm \in Timers :
        /\ timer'[tm].timeout = timer[tm].timeout
        /\ timer[tm].lis \subseteq timer'[tm].lis
        /\ \/ timer'[tm].timeout # 0 => timer'[tm].pending
           \/ \E t \in timer[tm].lis : Serving(t, tm)'
           \/ /\ ~timer[tm].pending
              /\ \A t \in timer[tm].lis : Serving(t, tm) => Serving(t, tm)'
  OBVIOUS
<1> QED BY <1>1, ServedKept

\* the queues only grow, and nobody is in the middle of something else
LEMMA ServedGrow ==
  ASSUME LifeInv, ServedInv, TimersKept, UNCHANGED <<timer, tmr_amap, activity_set, period>>,
         UNCHANGED <<cur, todo, again>>,
         \A t \in Threads :
           /\ pc[t] = "timer" => pc'[t] = "timer"
           /\ eq'[t] = eq[t] \/ \E e : eq'[t] = Append(eq[t], e)
  PROVE  ServedInv'
<1>1. \A tm \in Timers : \A t \in Threads : Serving(t, tm) => Serving(t, tm)'
  <2> SUFFICES ASSUME NEW tm \in Timers, NEW t \in Threads, Serving(t, tm)
               PROVE  Serving(t, tm)'
    OBVIOUS
  <2>1. eq[t] \in Seq(ThreadEvent)
    BY DEF LifeInv, EngineInv, TypeOK
  <2>2. CASE Told(eq[t], tm)
    BY <2>1, <2>2, ToldAppend, ZenonT(60) DEF Serving
  <2>3. CASE ~Told(eq[t], tm)
    BY <2>3 DEF Serving
  <2> QED BY <2>2, <2>3
<1>2. \A tm \in Timers : timer[tm].lis \subseteq Threads
  BY DEF LifeInv, EngineInv, TypeOK, TimersTypeOK, Timer
<1> QED BY <1>1, <1>2, ServedQuiet

LEMMA ServedMain ==
  ASSUME LifeInv, LifeInv', TimersFit, ServedInv,
         Client \/ EventLoop \/ Finish \/ UNCHANGED vars
  PROVE  ServedInv'
<1>1. EngineInv /\ TypeOK /\ TypeOK'
  BY DEF LifeInv, EngineInv
<1>2. TimersKept
  BY <1>1, TimersMain DEF Client
<1>3. CASE \E a \in Activities, l \in Listeners : RegisterActivity(a, l)
  <2>1. UNCHANGED <<timer, tmr_amap, activity_set, period, cur, todo, again>>
    BY <1>3 DEF RegisterActivity, actvars, tsvars
  <2>2. PICK a \in Activities, t \in Threads :
          /\ pc' = [pc EXCEPT ![t] = IF @ = "off" THEN "start" ELSE @]
          /\ Push(t, AEvent("Register", a))
    BY <1>1, <1>3, ZenonT(60) DEF RegisterActivity, ThreadsFor, TypeOK
  <2>3. \A u \in Threads :
          /\ pc[u] = "timer" => pc'[u] = "timer"
          /\ eq'[u] = eq[u] \/ \E e : eq'[u] = Append(eq[u], e)
    BY <1>1, <2>2, ZenonT(60) DEF Push, TypeOK
  <2> QED BY <1>2, <2>1, <2>3, ServedGrow
<1>4. CASE \/ \E a \in Activities : PostTo(a) \/ UnregisterActivity(a)
           \/ ExitEventLoop \/ EventLoop \/ Finish \/ UNCHANGED vars
  <2>1. UNCHANGED <<runvars, actvars, tsvars>>
    BY <1>4 DEF PostTo, PostEvent, UnregisterActivity, ExitEventLoop,
                EventLoop, TakeEvents, OnResult, OnActivityExited, OnAutoDestroy, OnExitLoop, Notify,
                Finish, StartFinish, FinishExit, FinishDelete, FinishEnd, vars
  <2>2. eq' = eq \/ \E t, e : Push(t, e)
    BY <1>4 DEF PostTo, PostEvent, UnregisterActivity, ExitEventLoop,
                EventLoop, TakeEvents, OnResult, OnActivityExited, OnAutoDestroy, OnExitLoop, Notify,
                Finish, StartFinish, FinishExit, FinishDelete, FinishEnd, vars, mainvars
  <2>3. \A u \in Threads : eq'[u] = eq[u] \/ \E e : eq'[u] = Append(eq[u], e)
    BY <1>1, <2>2 DEF Push, TypeOK
  <2>4. UNCHANGED <<timer, tmr_amap, activity_set, period, cur, todo, again>> /\ UNCHANGED pc
    BY <2>1 DEF runvars, actvars, tsvars
  <2>5. \A u \in Threads :
          /\ pc[u] = "timer" => pc'[u] = "timer"
          /\ eq'[u] = eq[u] \/ \E e : eq'[u] = Append(eq[u], e)
    BY <2>3, <2>4
  <2> QED BY <1>2, <2>4, <2>5, ServedGrow
<1> QED BY <1>3, <1>4 DEF Client

LEMMA ServedExpire ==
  ASSUME LifeInv, TimersFit, ServedInv, NEW x \in Timers, Expire(x)
  PROVE  ServedInv'
<1>1. EngineInv /\ timer \in [Timers -> Timer] /\ TimersKept
  BY TimersTyped, TimersExpire DEF LifeInv, EngineInv
<1>2. /\ timer' = [timer EXCEPT ![x].pending = FALSE] /\ timer[x].timeout # 0
      /\ UNCHANGED <<tmr_amap, todo, cur, again, activity_set, period, pc>>
      /\ \A t \in Threads :
           eq'[t] = IF t \in timer[x].lis
                      THEN Append(eq[t], [type |-> "TimerExpired", tm |-> x]) ELSE eq[t]
  BY DEF Expire, Expired, Live, runvars, actvars
<1>3. ASSUME NEW tm \in Timers, NEW t \in timer[tm].lis
      PROVE  /\ Serving(t, tm) => Serving(t, tm)'
             /\ tm = x => Serving(t, tm)'
  <2>1. t \in Threads /\ eq[t] \in Seq(ThreadEvent)
    BY <1>1 DEF EngineInv, TypeOK, Timer
  <2>2. Told(eq[t], tm) => Told(eq'[t], tm)
    BY <1>2, <2>1, ToldAppend
  <2>3. tm = x => Told(eq'[t], tm)
    BY <1>2, <2>1, ToldAppend
  <2> QED BY <1>2, <2>2, <2>3 DEF Serving
<1>4. PICK u : u \in timer[x].lis
  BY <1>2 DEF TimersFit, Fit
<1>5. ASSUME NEW tm \in Timers
      PROVE  /\ timer'[tm].timeout = timer[tm].timeout
             /\ timer[tm].lis \subseteq timer'[tm].lis
             /\ \/ timer'[tm].timeout # 0 => timer'[tm].pending
                \/ \E t \in timer[tm].lis : Serving(t, tm)'
                \/ /\ ~timer[tm].pending
                   /\ \A t \in timer[tm].lis : Serving(t, tm) => Serving(t, tm)'
  <2>1. CASE tm = x
    BY <1>1, <1>2, <1>3, <1>4, <2>1 DEF Timer
  <2>2. CASE tm # x
    BY <1>1, <1>2, <1>3, <2>2 DEF Timer
  <2> QED BY <2>1, <2>2
<1> QED BY <1>1, <1>2, <1>5, ServedKept

LEMMA ServedEnd ==
  ASSUME LifeInv, TimersFit, ServedInv, NEW t \in Threads, EndTimer(t)
  PROVE  ServedInv'
<1>1. EngineInv /\ timer \in [Timers -> Timer] /\ TimersKept
  BY TimersTyped, TimersEnd DEF LifeInv, EngineInv
<1>2. /\ UNCHANGED <<tmr_amap, todo, activity_set, period, eq>> /\ todo[t] = {}
      /\ pc' = [pc EXCEPT ![t] = "loop"] /\ pc[t] = "timer"
      /\ cur' = [cur EXCEPT ![t] = NoTimer] /\ again' = [again EXCEPT ![t] = FALSE]
      /\ timer' = IF again[t] THEN Restarted(timer, cur[t]) ELSE timer
  BY DEF EndTimer, Idle, actvars
<1>3. /\ cur[t] \in Timers
      /\ \A tm \in Timers : /\ timer'[tm].timeout = timer[tm].timeout
                            /\ timer'[tm].lis = timer[tm].lis
                            /\ timer[tm].pending => timer'[tm].pending
      /\ again[t] => timer'[cur[t]].pending
  BY <1>1, <1>2 DEF Restarted, Timer, TimersFit, ThreadFit
<1>4. ASSUME NEW tm \in Timers, NEW u \in timer[tm].lis, Serving(u, tm), ~timer'[tm].pending
      PROVE  Serving(u, tm)'
  <2>1. u \in Threads
    BY <1>1 DEF Timer
  <2>2. CASE u = t
    BY <1>2, <1>3, <1>4, <2>2 DEF Serving
  <2>3. CASE u # t
    <3>1. pc'[u] = pc[u] /\ cur'[u] = cur[u] /\ again'[u] = again[u]
      BY <1>1, <1>2, <2>1, <2>3 DEF EngineInv, TypeOK
    <3> QED BY <1>2, <1>4, <3>1 DEF Serving
  <2> QED BY <2>2, <2>3
<1>5. ASSUME NEW tm \in Timers
      PROVE  /\ timer'[tm].timeout = timer[tm].timeout
             /\ timer[tm].lis \subseteq timer'[tm].lis
             /\ \/ timer'[tm].timeout # 0 => timer'[tm].pending
                \/ \E u \in timer[tm].lis : Serving(u, tm)'
                \/ /\ ~timer[tm].pending
                   /\ \A u \in timer[tm].lis : Serving(u, tm) => Serving(u, tm)'
  <2>1. /\ timer'[tm].timeout = timer[tm].timeout /\ timer'[tm].lis = timer[tm].lis
        /\ timer[tm].pending => timer'[tm].pending
    BY <1>3
  <2>2. CASE timer'[tm].pending
    BY <2>1, <2>2
  <2>3. CASE ~timer'[tm].pending
    <3>1. \A u \in timer[tm].lis : Serving(u, tm) => Serving(u, tm)'
      BY <1>4, <2>3
    <3> QED BY <2>1, <2>3, <3>1
  <2> QED BY <2>2, <2>3
<1> QED BY <1>1, <1>2, <1>5, ServedKept

LEMMA ServedJoin ==
  ASSUME LifeInv, TimersFit, ServedInv, NEW t \in Threads, JoinTimer(t)
  PROVE  ServedInv'
<1>1. EngineInv /\ timer \in [Timers -> Timer] /\ TimersKept
  BY TimersTyped, TimersJoin DEF LifeInv, EngineInv
<1>2. /\ UNCHANGED <<pc, eq, tmr_amap, todo, cur, again, activity_set, period>>
      /\ timer' = [timer EXCEPT ![adding[t]].lis = @ \union {t}]
  BY DEF JoinTimer, AddListener, runvars, actvars
<1>3. ASSUME NEW tm \in Timers
      PROVE  /\ timer'[tm].timeout = timer[tm].timeout
             /\ timer[tm].lis \subseteq timer'[tm].lis
             /\ timer[tm].pending => timer'[tm].pending
             /\ \A u : Serving(u, tm) => Serving(u, tm)'
  <2>1. \A u : Serving(u, tm) => Serving(u, tm)'
    BY <1>2 DEF Serving
  <2> QED BY <1>1, <1>2, <2>1 DEF Timer
<1>4. \A tm \in Timers :
        /\ timer'[tm].timeout = timer[tm].timeout
        /\ timer[tm].lis \subseteq timer'[tm].lis
        /\ \/ timer'[tm].timeout # 0 => timer'[tm].pending
           \/ \E u \in timer[tm].lis : Serving(u, tm)'
           \/ /\ ~timer[tm].pending
              /\ \A u \in timer[tm].lis : Serving(u, tm) => Serving(u, tm)'
  BY <1>3
<1> QED BY <1>1, <1>2, <1>4, ServedKept

LEMMA ServedHandle ==
  ASSUME LifeInv, TimersFit, ServedInv, NEW t \in Threads, HandleTimer(t)
  PROVE  ServedInv'
<1>1. EngineInv /\ TypeOK /\ timer \in [Timers -> Timer] /\ TimersKept /\ eq[t] \in Seq(ThreadEvent)
  BY TimersTyped, TimersHandle DEF LifeInv, EngineInv, TypeOK
<1>2. /\ UNCHANGED <<timer, tmr_amap, activity_set, period>>
      /\ pc[t] = "loop" /\ pc' = [pc EXCEPT ![t] = "timer"]
      /\ eq[t] # <<>> /\ eq' = [eq EXCEPT ![t] = Tail(eq[t])]
      /\ todo' = [todo EXCEPT ![t] = {a \in Activities : tmr_amap[t][a] = Head(eq[t]).tm}]
      /\ cur' = [cur EXCEPT ![t] = Head(eq[t]).tm] /\ again' = [again EXCEPT ![t] = FALSE]
  BY DEF HandleTimer, Dequeue, Idle, actvars, tsvars
<1>3. ASSUME NEW tm \in Timers, NEW u \in timer[tm].lis, Serving(u, tm)
      PROVE  Serving(u, tm)'
  <2>1. u \in Threads
    BY <1>1 DEF Timer
  <2>2. CASE u = t
    <3>1. Told(eq[t], tm)
      BY <1>2, <1>3, <2>2 DEF Serving
    <3>2. /\ eq'[t] = Tail(eq[t]) /\ pc'[t] = "timer" /\ cur'[t] = Head(eq[t]).tm
          /\ todo'[t] = {a \in Activities : tmr_amap[t][a] = Head(eq[t]).tm}
      BY <1>1, <1>2 DEF TypeOK
    <3>3. CASE Head(eq[t]).type = "TimerExpired" /\ Head(eq[t]).tm = tm
      <4>1. PICK a \in Activities : tmr_amap[t][a] = tm
        BY <1>3, <2>2 DEF ServedInv, Heard
      <4> QED BY <2>2, <3>2, <3>3, <4>1 DEF Serving
    <3>4. CASE ~(Head(eq[t]).type = "TimerExpired" /\ Head(eq[t]).tm = tm)
      <4>1. Told(eq'[t], tm)
        BY <1>1, <1>2, <3>1, <3>2, <3>4, ToldTail
      <4> QED BY <2>2, <4>1 DEF Serving
    <3> QED BY <3>3, <3>4
  <2>3. CASE u # t
    <3>1. pc'[u] = pc[u] /\ cur'[u] = cur[u] /\ again'[u] = again[u] /\ todo'[u] = todo[u] /\ eq'[u] = eq[u]
      BY <1>1, <1>2, <2>1, <2>3 DEF TypeOK
    <3> QED BY <1>3, <3>1 DEF Serving
  <2> QED BY <2>2, <2>3
<1> QED BY <1>1, <1>2, <1>3, ServedQuiet

\* under Calm an activity is executed and its timer is restarted
LEMMA ServedExecute ==
  ASSUME LifeInv, LifeInv', TimersFit, ServedInv, Calm, Calm',
         NEW t \in Threads, NEW x \in Activities, ExecuteOnTimer(t, x)
  PROVE  ServedInv'
<1>1. EngineInv /\ EngineInv' /\ TypeOK /\ timer \in [Timers -> Timer]
  BY TimersTyped DEF LifeInv, EngineInv
<1>2. PeriodsKept /\ TimeoutsKept /\ ~paused[x]
  BY DEF Calm, Steady, PeriodsKept, ServedInv
<1>3. /\ TimersKept /\ UNCHANGED <<timer, adding, tmr_amap, period>>
      /\ again'[t] <=> again[t] \/ RepeatOf(x, period[x]) > 0
  BY <1>1, <1>2, TimersExecute
<1>4. /\ pc[t] = "timer" /\ x \in todo[t] /\ todo' = [todo EXCEPT ![t] = @ \ {x}]
      /\ UNCHANGED <<pc, activity_set, cur, eq>>
  BY DEF ExecuteOnTimer, Idle
<1>5. again'[t]
  <2>1. cur[t] \in Timers /\ tmr_amap[t][x] = cur[t]
    BY <1>4 DEF TimersFit, ThreadFit
  <2>2. timer[cur[t]].timeout # 0 /\ timer[cur[t]].timeout = period[x]
    BY <1>2, <2>1, NoTimerAssumption DEF TimersFit, Fit, TimeoutsKept
  <2>3. period[x] \in Periods \union {0}
    BY <1>1 DEF TypeOK
  <2>4. period[x] > 0
    <3>1. period[x] # 0
      BY <2>2
    <3>2. period[x] \in Nat
      BY <2>3, <3>1, PeriodsAssumption
    <3> QED BY <3>1, <3>2
  <2>5. RepeatOf(x, period[x]) = period[x]
    BY <1>2 DEF RepeatOf
  <2> QED BY <1>3, <2>4, <2>5
<1>6. \A u \in Threads : u # t => again'[u] = again[u] /\ todo'[u] = todo[u]
  <2>1. again' = [again EXCEPT ![t] = TRUE] \/ again' = again
    BY DEF ExecuteOnTimer
  <2> QED BY <1>1, <1>4, <2>1 DEF TypeOK
<1>7. \A tm \in Timers : \A u \in timer[tm].lis : Serving(u, tm) => Serving(u, tm)'
  BY <1>1, <1>4, <1>5, <1>6 DEF Serving, Timer
<1> QED BY <1>3, <1>4, <1>7, ServedQuiet

\* who leaves its loop has no activities, and no timers
LEMMA ServedRunQuiet ==
  ASSUME LifeInv, TimersFit, ServedInv, Calm, NEW t \in Threads,
         Start(t) \/ LeaveLoop(t) \/ Drain(t) \/ EndRun(t)
  PROVE  ServedInv'
<1>1. EngineInv /\ TypeOK /\ timer \in [Timers -> Timer] /\ TimersKept
  BY TimersTyped, TimersRunQuiet DEF LifeInv, EngineInv
<1>2. /\ UNCHANGED <<timer, tmr_amap, activity_set, period, cur, todo, again>>
      /\ \A u \in Threads : u # t => pc'[u] = pc[u] /\ eq'[u] = eq[u]
      /\ Start(t) => pc[t] = "start" /\ eq' = eq
  BY <1>1 DEF Start, LeaveLoop, Drain, EndRun, Dequeue, actvars, tsvars, TypeOK
<1>3. ASSUME ~Start(t), NEW tm \in Timers, t \in timer[tm].lis
      PROVE  FALSE
  <2>1. pc[t] \in {"start", "loop", "timer"} /\ ~Contains(eq[t], LeaveEvents)
    BY <1>3, CalmListeners
  <2>2. CASE LeaveLoop(t)
    <3>1. eq[t] # <<>> /\ Head(eq[t]).type \in LeaveEvents /\ eq[t] \in Seq(ThreadEvent)
      BY <1>1, <2>2 DEF LeaveLoop, Dequeue, LeaveEvents, TypeOK
    <3> QED BY <2>1, <3>1, QueueTail
  <2>3. CASE Drain(t) \/ EndRun(t)
    BY <2>1, <2>3 DEF Drain, EndRun
  <2> QED BY <1>3, <2>2, <2>3
<1>4. \A tm \in Timers : \A u \in timer[tm].lis : Serving(u, tm) => Serving(u, tm)'
  <2> SUFFICES ASSUME NEW tm \in Timers, NEW u \in timer[tm].lis, Serving(u, tm)
               PROVE  Serving(u, tm)'
    OBVIOUS
  <2>1. u \in Threads
    BY <1>1 DEF Timer
  <2>2. CASE u = t
    BY <1>2, <1>3, <2>2 DEF Serving
  <2>3. CASE u # t
    BY <1>2, <2>1, <2>3 DEF Serving
  <2> QED BY <2>2, <2>3
<1> QED BY <1>1, <1>2, <1>4, ServedQuiet

\* nothing exits under Calm
LEMMA CalmExits ==
  ASSUME LifeInv, Calm, NEW t \in Threads
  PROVE  /\ ~HandleUnregister(t)
         /\ \A a \in Activities : ~QuitActivity(t, a)
<1>1. LinkInv /\ TypeOK
  BY DEF LifeInv, EngineInv
<1>2. ASSUME HandleUnregister(t) PROVE FALSE
  <2>1. \E a \in Activities : Leaving(t, a)
    BY <1>1, <1>2, LinkHandleUnregister
  <2> QED BY <1>1, <2>1 DEF LinkInv, LinkRel, LeavingLife, Calm, Steady
<1>3. ASSUME NEW a \in Activities, QuitActivity(t, a) PROVE FALSE
  BY <1>3, CalmThreads DEF QuitActivity
<1> QED BY <1>2, <1>3

(***************************************************************************)
(* A registration leaves its timer pending; the others stay as they are,   *)
(* but for the one that is left by its last activity.                      *)
(***************************************************************************)
LEMMA ServedJoined ==
  ASSUME LifeInv, LifeInv', ServedInv, TimersFit', TimeoutsKept',
         Heard(timer', tmr_amap', adding'), period' = period,
         NEW f, NEW t \in Threads, NEW x \in Activities, NEW tm \in Timers,
         JoinedFor(f, t, x, period[x], tm),
         \A u \in Threads : /\ activity_set'[u] \subseteq activity_set[u] \union {x}
                            /\ u # t => activity_set'[u] = activity_set[u],
         \A u \in Threads : \A un \in Timers : Serving(u, un) => Serving(u, un)'
  PROVE  ServedInv'
<1>1. TypeOK /\ timer \in [Timers -> Timer] /\ tmr_amap \in Entries
  BY TimersTyped DEF LifeInv, EngineInv
<1>2. HaveTimers'
  <2> SUFFICES ASSUME NEW u \in Threads, NEW b \in activity_set'[u], period[b] # 0
               PROVE  tmr_amap'[u][b] # NoTimer
    BY DEF HaveTimers
  <2>1. CASE u = t /\ b = x
    BY <2>1, NoTimerAssumption DEF JoinedFor
  <2>2. CASE ~(u = t /\ b = x)
    <3>1. b \in activity_set[u] /\ b \in Activities
      BY <1>1, <2>2 DEF TypeOK
    <3> QED BY <2>2, <3>1 DEF JoinedFor, ServedInv, HaveTimers
  <2> QED BY <2>1, <2>2
<1>3. TimersServed'
  <2> SUFFICES ASSUME NEW un \in Timers, timer'[un].timeout # 0, un # tm
               PROVE  timer'[un].pending \/ \E u \in timer'[un].lis : Serving(u, un)'
    BY DEF TimersServed, JoinedFor
  <2>1. timer'[un] = timer[un]
    <3>1. timer'[un].timeout # period[x] /\ timer'[un].timeout = timer[un].timeout
      BY DEF JoinedFor
    <3>2. un # tmr_amap[t][x]
      BY <3>1, NoTimerAssumption DEF ServedInv, TimeoutsKept
    <3> QED BY <3>2 DEF JoinedFor
  <2>2. \A u \in timer[un].lis : u \in Threads
    BY <1>1 DEF Timer
  <2> QED BY <2>1, <2>2 DEF ServedInv, TimersServed
<1> QED BY <1>2, <1>3 DEF ServedInv

LEMMA ServedRegister ==
  ASSUME LifeInv, LifeInv', TimersFit, ServedInv, Calm, Calm',
         NEW t \in Threads, HandleRegister(t)
  PROVE  ServedInv'
<1>1. /\ EngineInv /\ EngineInv' /\ TypeOK /\ TypeOK' /\ TimeoutsKept
      /\ PeriodsKept /\ period' = period /\ Heard(timer, tmr_amap, adding)
      /\ \A b \in Activities : ~paused[b]
  BY DEF LifeInv, EngineInv, Calm, Steady, PeriodsKept, ServedInv
<1>2. TimersFit' /\ TimeoutsKept' /\ Heard(timer', tmr_amap', adding')
  BY <1>1, TimersRegister
<1>3. PICK x \in Activities : x = Head(eq[t]).a
  <2>1. Dequeue(t, {"Register"}) /\ eq \in [Threads -> Seq(ThreadEvent)]
    BY <1>1 DEF HandleRegister, TypeOK
  <2>2. Head(eq[t]) \in ThreadEvent /\ Head(eq[t]).type = "Register"
    BY <2>1, DequeueType
  <2> QED BY <2>2, ThreadEventFields
<1>4. /\ pc[t] = "loop" /\ adding[t] = NoTimer
      /\ activity_set' = [activity_set EXCEPT ![t] = @ \union {x}]
      /\ eq[t] # <<>> /\ eq' = [eq EXCEPT ![t] = Tail(eq[t])] /\ Head(eq[t]).type = "Register"
      /\ UNCHANGED <<pc, todo, cur, again, paused>>
  BY <1>3 DEF HandleRegister, Dequeue, Idle
<1>5. IF RepeatOf(x, period[x]) > 0
        THEN RegisterListener(timer, t, x, period[x], tmr_amap[t])
        ELSE UNCHANGED <<tsvars, tmr_amap>>
  <2>1. PICK p \in PeriodsAfter(x) :
          /\ period' = [period EXCEPT ![x] = p]
          /\ IF RepeatOf(x, p) > 0
               THEN RegisterListener(timer, t, x, p, tmr_amap[t])
               ELSE UNCHANGED <<tsvars, tmr_amap>>
    BY <1>3 DEF HandleRegister
  <2>2. p = period[x]
    <3>1. period \in [Activities -> Periods \union {0}]
      BY <1>1 DEF TypeOK
    <3> QED BY <1>1, <2>1, <3>1
  <2> QED BY <2>1, <2>2
<1>6. /\ activity_set'[t] = activity_set[t] \union {x}
      /\ \A u \in Threads : u # t => activity_set'[u] = activity_set[u] /\ eq'[u] = eq[u]
      /\ eq'[t] = Tail(eq[t])
  BY <1>1, <1>4 DEF TypeOK
<1>7. \A u \in Threads : \A un \in Timers : Serving(u, un) => Serving(u, un)'
  <2> SUFFICES ASSUME NEW u \in Threads, NEW un \in Timers, Serving(u, un)
               PROVE  Serving(u, un)'
    OBVIOUS
  <2>1. CASE u = t
    <3>1. Told(eq[t], un)
      BY <1>4, <2>1 DEF Serving
    <3>2. Told(eq'[t], un)
      <4>1. eq[t] \in Seq(ThreadEvent)
        BY <1>1 DEF TypeOK
      <4> QED BY <1>4, <1>6, <3>1, <4>1, ToldTail
    <3> QED BY <2>1, <3>2 DEF Serving
  <2>2. CASE u # t
    BY <1>4, <1>6, <2>2 DEF Serving
  <2> QED BY <2>1, <2>2
<1>8. period[x] \in Periods \union {0}
  BY <1>1 DEF TypeOK
<1>9. CASE period[x] # 0
  <2>1. RepeatOf(x, period[x]) > 0 /\ period[x] \in Periods
    <3>1. RepeatOf(x, period[x]) = period[x]
      BY <1>1 DEF RepeatOf
    <3>2. period[x] \in Periods /\ period[x] \in Nat
      BY <1>8, <1>9, PeriodsAssumption
    <3> QED BY <1>9, <3>1, <3>2
  <2>2. RegisterListener(timer, t, x, period[x], tmr_amap[t])
    BY <1>5, <2>1
  <2>3. PICK tm \in Timers : JoinedFor(timer, t, x, period[x], tm)
    BY <1>1, <2>1, <2>2, JoinsTimer DEF TimersFit
  <2>4. \A u \in Threads : /\ activity_set'[u] \subseteq activity_set[u] \union {x}
                           /\ u # t => activity_set'[u] = activity_set[u]
    BY <1>6
  <2> QED BY <1>1, <1>2, <1>7, <2>3, <2>4, ServedJoined
<1>10. CASE period[x] = 0
  <2>1. UNCHANGED <<timer, tmr_amap>>
    BY <1>1, <1>5, <1>10 DEF RepeatOf, tsvars
  <2>2. HaveTimers'
    BY <1>1, <1>6, <1>10, <2>1 DEF HaveTimers, ServedInv
  <2>3. TimersServed'
    <3>1. \A un \in Timers : timer[un].lis \subseteq Threads
      BY <1>1 DEF TypeOK, TimersTypeOK, Timer
    <3> QED BY <1>7, <2>1, <3>1 DEF TimersServed, ServedInv
  <2> QED BY <1>2, <2>2, <2>3 DEF ServedInv
<1> QED BY <1>9, <1>10

\* a period set to what it is: the timer is left and taken up again
LEMMA ServedPost ==
  ASSUME LifeInv, LifeInv', TimersFit, ServedInv, Calm, Calm',
         NEW t \in Threads, HandlePost(t)
  PROVE  ServedInv'
<1>1. /\ EngineInv /\ EngineInv' /\ TypeOK /\ TypeOK' /\ TimeoutsKept
      /\ PeriodsKept /\ period' = period /\ Heard(timer, tmr_amap, adding)
  BY DEF LifeInv, EngineInv, Calm, Steady, PeriodsKept, ServedInv
<1>2. /\ TimersKept
      /\ \/ UNCHANGED <<timer, adding, tmr_amap>>
         \/ \E a \in Activities : \E p \in Periods : \E tm \in Timers :
              /\ JoinedFor(TimersWithout(t, a), t, a, p, tm)
              /\ period' = [period EXCEPT ![a] = p]
              /\ tmr_amap[t][a] # NoTimer
  BY <1>1, TimersPost
<1>3. /\ pc[t] = "loop" /\ UNCHANGED <<pc, activity_set, todo, cur, again>>
      /\ eq[t] # <<>> /\ eq' = [eq EXCEPT ![t] = Tail(eq[t])]
      /\ Head(eq[t]).type # "TimerExpired"
  BY DEF HandlePost, Dequeue, Idle
<1>4. \A u \in Threads : \A un \in Timers : Serving(u, un) => Serving(u, un)'
  <2> SUFFICES ASSUME NEW u \in Threads, NEW un \in Timers, Serving(u, un)
               PROVE  Serving(u, un)'
    OBVIOUS
  <2>1. CASE u = t
    <3>1. Told(eq[t], un)
      BY <1>3, <2>1 DEF Serving
    <3>2. Told(eq'[t], un)
      <4>1. eq[t] \in Seq(ThreadEvent) /\ eq'[t] = Tail(eq[t])
        BY <1>1, <1>3 DEF TypeOK
      <4> QED BY <1>3, <3>1, <4>1, ToldTail
    <3> QED BY <2>1, <3>2 DEF Serving
  <2>2. CASE u # t
    <3>1. eq'[u] = eq[u]
      BY <1>1, <1>3, <2>2 DEF TypeOK
    <3> QED BY <1>3, <3>1 DEF Serving
  <2> QED BY <2>1, <2>2
<1>5. CASE UNCHANGED <<timer, adding, tmr_amap>>
  <2>1. \A un \in Timers : \A u \in timer[un].lis : Serving(u, un) => Serving(u, un)'
    BY <1>1, <1>4 DEF TypeOK, TimersTypeOK, Timer
  <2> QED BY <1>1, <1>2, <1>3, <1>5, <2>1, ServedQuiet
<1>6. ASSUME NEW a \in Activities, NEW p \in Periods, NEW tm \in Timers,
             JoinedFor(TimersWithout(t, a), t, a, p, tm), period' = [period EXCEPT ![a] = p]
      PROVE  ServedInv'
  <2>1. p = period[a]
    <3>1. period \in [Activities -> Periods \union {0}]
      BY <1>1 DEF TypeOK
    <3>2. period'[a] = p
      BY <1>6, <3>1
    <3> QED BY <1>1, <3>2
  <2>2. TimersFit' /\ TimeoutsKept' /\ Heard(timer', tmr_amap', adding')
    BY <1>1, <1>2 DEF TimersKept
  <2>3. JoinedFor(TimersWithout(t, a), t, a, period[a], tm)
    BY <1>6, <2>1
  <2>4. \A u \in Threads : /\ activity_set'[u] \subseteq activity_set[u] \union {a}
                           /\ u # t => activity_set'[u] = activity_set[u]
    BY <1>3
  <2> QED BY <1>1, <1>4, <2>2, <2>3, <2>4, ServedJoined
<1> QED BY <1>2, <1>5, <1>6

LEMMA ServedNext ==
  LifeInv /\ TimerInv /\ ServedInv /\ Calm /\ Calm' /\ [Next]_vars => ServedInv'
<1> SUFFICES ASSUME LifeInv, TimerInv, ServedInv, Calm, Calm', [Next]_vars
             PROVE  ServedInv'
  OBVIOUS
<1>1. LifeInv' /\ TimersFit
  BY LifeNext DEF TimerInv
<1>2. CASE Client \/ EventLoop \/ Finish \/ UNCHANGED vars
  BY <1>1, <1>2, ServedMain
<1>3. ASSUME NEW t \in Threads, Run(t) PROVE ServedInv'
  BY <1>1, <1>3, CalmExits, ServedRegister, ServedJoin, ServedHandle, ServedEnd, ServedPost,
     ServedExecute, ServedRunQuiet DEF Run
<1>4. ASSUME NEW tm \in Timers, Expire(tm) PROVE ServedInv'
  BY <1>1, <1>4, ServedExpire
<1> QED BY <1>2, <1>3, <1>4 DEF Next, Ended

LEMMA ServedPeriodic == LifeInv /\ TimerInv /\ ServedInv => PeriodicServed
<1> SUFFICES ASSUME LifeInv, TimerInv, ServedInv, NEW t \in Threads, NEW a \in Activities,
                    a \in activity_set[t], period[a] > 0
             PROVE  /\ tmr_amap[t][a] # NoTimer
                    /\ timer[tmr_amap[t][a]].pending \/ WillRestart(tmr_amap[t][a])
  BY DEF PeriodicServed
<1>1. tmr_amap[t][a] # NoTimer
  BY DEF ServedInv, HaveTimers
<1>2. tmr_amap[t][a] \in Timers /\ timer[tmr_amap[t][a]].timeout # 0
  BY <1>1 DEF LifeInv, EngineInv, TypeOK, TimerInv, TimersFit, Fit
<1>3. CASE timer[tmr_amap[t][a]].pending
  BY <1>1, <1>3
<1>4. ASSUME NEW u \in timer[tmr_amap[t][a]].lis, Serving(u, tmr_amap[t][a])
      PROVE  WillRestart(tmr_amap[t][a])
  <2>1. Contains(eq[u], {"TimerExpired"}) \/ (pc[u] = "timer" /\ cur[u] = tmr_amap[t][a])
    BY <1>4 DEF Serving, Told, Contains
  <2> QED BY <2>1 DEF WillRestart
<1> QED BY <1>1, <1>2, <1>3, <1>4 DEF ServedInv, TimersServed

(***************************************************************************)
(* Threads share timers, and each periodic activity goes on: as long as no *)
(* activity is unregistered, is paused or changes its period, and the      *)
(* event loop runs, its timer is pending or about to be restarted.         *)
(***************************************************************************)
THEOREM SharedTimersGoOn ==
  Spec => ([](Steady /\ ClientTurn) => []PeriodicServedTogether)
<1>1. Init => ServedInv
  <2> SUFFICES ASSUME Init PROVE ServedInv
    OBVIOUS
  <2>1. HaveTimers
    BY DEF Init, HaveTimers
  <2>2. TimersServed
    BY DEF Init, TimersInit, Unallocated, TimersServed
  <2> QED BY <2>1, <2>2, TimersInitially DEF ServedInv
<1>2. LifeInv /\ TimerInv /\ ServedInv => PeriodicServedTogether
  BY ServedPeriodic DEF PeriodicServedTogether
<1>3. Calm <=> Steady /\ ClientTurn
  BY DEF Calm
<1> QED BY <1>1, <1>2, <1>3, ServedNext, TimersInvariant, PTL DEF Spec

-------------------------------------------------------------------------------
(***************************************************************************)
(* Threads that share no timer keep theirs going alone, whatever becomes   *)
(* of their activities.                                                    *)
(***************************************************************************)
\* the thread that uses a timer, or is about to, is the only one
Unshared ==
  \A tm \in Timers : \A t, u \in Threads :
    /\ t \in timer[tm].lis \/ adding[t] = tm
    /\ u \in timer[tm].lis \/ adding[u] = tm
    => t = u

Unresumed == \A t \in Threads : ~Contains(eq[t], {"Resume"})

\* the thread has not left its loop
On(t) == pc[t] \notin {"drain", "exit", "done"}

\* t will restart the timer it has for a, or execute a, which does
Awaited(t, a) ==
  \/ timer[tmr_amap[t][a]].pending
  \/ Told(eq[t], tmr_amap[t][a])
  \/ pc[t] = "timer" /\ cur[t] = tmr_amap[t][a] /\ (again[t] \/ a \in todo[t])

AllAwaited ==
  \A t \in Threads : \A a \in Activities :
    On(t) /\ tmr_amap[t][a] # NoTimer /\ ~paused[a] => Awaited(t, a)

\* who repeats has a timer, unless it is paused; who does not, never will
Scheduled ==
  /\ \A t \in Threads : \A a \in Activities : tmr_amap[t][a] # NoTimer => period[a] # 0
  /\ \A t \in Threads : \A a \in activity_set[t] :
       period[a] # 0 /\ ~paused[a] => tmr_amap[t][a] # NoTimer
  /\ \A a \in Activities : period[a] = 0 <=> PeriodOf[a] = 0

\* periods are changed of activities that have one
Harmless(e) == e.type = "TimeoutChange" => PeriodOf[e.a] # 0
Sound(q) == \A i \in DOMAIN q : Harmless(q[i])

AloneInv == AllAwaited /\ Scheduled /\ \A t \in Threads : Sound(eq[t])

LEMMA SoundMoves ==
  ASSUME NEW q \in Seq(ThreadEvent), Sound(q)
  PROVE  /\ \A e : Harmless(e) => Sound(Append(q, e))
         /\ q # <<>> => Sound(Tail(q)) /\ Harmless(Head(q))
<1>1. ASSUME NEW e, Harmless(e) PROVE Sound(Append(q, e))
  <2>1. /\ DOMAIN Append(q, e) = DOMAIN q \union {Len(q) + 1}
        /\ \A i \in DOMAIN q : Append(q, e)[i] = q[i]
        /\ Append(q, e)[Len(q) + 1] = e
    OBVIOUS
  <2> QED BY <1>1, <2>1 DEF Sound
<1>2. ASSUME q # <<>> PROVE Sound(Tail(q)) /\ Harmless(Head(q))
  <2>1. /\ Head(q) = q[1] /\ 1 \in DOMAIN q
        /\ \A i \in DOMAIN Tail(q) : i + 1 \in DOMAIN q /\ Tail(q)[i] = q[i + 1]
    BY <1>2
  <2> QED BY <2>1 DEF Sound
<1> QED BY <1>1, <1>2

\* what a step does to the queue of t
Moves(t) ==
  \/ eq'[t] = eq[t]
  \/ \E e : Harmless(e) /\ eq'[t] = Append(eq[t], e)
  \/ eq[t] # <<>> /\ Head(eq[t]).type # "TimerExpired" /\ eq'[t] = Tail(eq[t])

LEMMA SoundKept ==
  ASSUME TypeOK, NEW t \in Threads, Sound(eq[t]), Moves(t)
  PROVE  /\ Sound(eq'[t])
         /\ \A tm : Told(eq[t], tm) => Told(eq'[t], tm)
<1>1. eq[t] \in Seq(ThreadEvent)
  BY DEF TypeOK
<1>2. CASE eq'[t] = eq[t]
  BY <1>2
<1>3. CASE \E e : Harmless(e) /\ eq'[t] = Append(eq[t], e)
  BY <1>1, <1>3, SoundMoves, ToldAppend
<1>4. CASE eq[t] # <<>> /\ Head(eq[t]).type # "TimerExpired" /\ eq'[t] = Tail(eq[t])
  BY <1>1, <1>4, SoundMoves, ToldTail
<1> QED BY <1>2, <1>3, <1>4 DEF Moves

\* timers are kept pending, but for those that are deleted
PendingKept ==
  \A tm \in Timers : timer'[tm].timeout # 0 /\ timer[tm].pending => timer'[tm].pending

(***************************************************************************)
(* t awaits its timer for a as before.                                     *)
(***************************************************************************)
Steadily(t, a) ==
  /\ On(t)' => On(t)
  /\ paused'[a] = paused[a]
  /\ tmr_amap'[t][a] = tmr_amap[t][a]
  /\ pc[t] = "timer" /\ (again[t] \/ a \in todo[t]) =>
       pc'[t] = "timer" /\ cur'[t] = cur[t] /\ (again'[t] \/ a \in todo'[t])

LEMMA AwaitedKept ==
  ASSUME TypeOK, TypeOK', TimersFit', AloneInv, PendingKept, NEW t \in Threads, NEW a \in Activities,
         On(t)', tmr_amap'[t][a] # NoTimer, ~paused'[a], Moves(t), Steadily(t, a)
  PROVE  Awaited(t, a)'
<1> DEFINE x == tmr_amap[t][a]
<1>1. tmr_amap'[t][a] = x /\ x # NoTimer /\ x \in Timers
  BY TimersTyped DEF Steadily, Entries
<1>2. timer'[x].timeout # 0
  BY <1>1 DEF TimersFit, Fit
<1>3. Awaited(t, a)
  BY <1>1 DEF AloneInv, AllAwaited, Steadily
<1>4. Told(eq[t], x) => Told(eq'[t], x)
  BY SoundKept DEF AloneInv
<1>5. timer[x].pending => timer'[x].pending
  BY <1>1, <1>2 DEF PendingKept
<1> QED BY <1>1, <1>3, <1>4, <1>5 DEF Awaited, Steadily

\* steps that change no activity
LEMMA AloneKept ==
  ASSUME TypeOK, TypeOK', TimersFit', AloneInv, PendingKept,
         UNCHANGED <<activity_set, tmr_amap, period, paused>>,
         \A t \in Threads : /\ Moves(t)
                            /\ \A a \in Activities : Steadily(t, a)
  PROVE  AloneInv'
<1>1. AllAwaited'
  BY AwaitedKept DEF AllAwaited
<1>2. Scheduled'
  BY DEF AloneInv, Scheduled
<1>3. \A t \in Threads : Sound(eq'[t])
  BY SoundKept DEF AloneInv
<1> QED BY <1>1, <1>2, <1>3 DEF AloneInv

LEMMA AloneMain ==
  ASSUME LifeInv, LifeInv', TimersFit, TimersFit', AloneInv,
         Client \/ EventLoop \/ Finish \/ UNCHANGED vars
  PROVE  AloneInv'
<1>1. TypeOK /\ TypeOK'
  BY DEF LifeInv, EngineInv
<1>2. /\ UNCHANGED <<timer, tmr_amap, activity_set, period, paused, cur, todo, again>>
      /\ \A t \in Threads : pc'[t] = pc[t] \/ pc[t] = "off"
  <2>1. CASE \E a \in Activities, l \in Listeners : RegisterActivity(a, l)
    BY <1>1, <2>1 DEF RegisterActivity, actvars, tsvars, TypeOK
  <2>2. CASE \/ \E a \in Activities : PostTo(a) \/ UnregisterActivity(a)
             \/ ExitEventLoop \/ EventLoop \/ Finish \/ UNCHANGED vars
    <3>1. UNCHANGED <<runvars, actvars, tsvars>>
      BY <2>2 DEF PostTo, PostEvent, UnregisterActivity, ExitEventLoop,
                  EventLoop, TakeEvents, OnResult, OnActivityExited, OnAutoDestroy, OnExitLoop, Notify,
                  Finish, StartFinish, FinishExit, FinishDelete, FinishEnd, vars
    <3> QED BY <3>1, SMTT(30) DEF runvars, actvars, tsvars
  <2> QED BY <2>1, <2>2 DEF Client
<1>3. eq' = eq \/ \E t, e : Harmless(e) /\ Push(t, e)
  <2>1. CASE EventLoop \/ Finish \/ UNCHANGED vars \/ ExitEventLoop
    <3>1. eq' = eq \/ \E t : Push(t, Event("ZeroActivities")) \/ Push(t, Event("ThreadExit"))
      BY <2>1 DEF ExitEventLoop,
                  EventLoop, TakeEvents, OnResult, OnActivityExited, OnAutoDestroy, OnExitLoop, Notify,
                  Finish, StartFinish, FinishExit, FinishDelete, FinishEnd, vars, mainvars
    <3>2. Harmless(Event("ZeroActivities")) /\ Harmless(Event("ThreadExit"))
      BY DEF Harmless, Event
    <3> QED BY <3>1, <3>2
  <2>2. ASSUME NEW a \in Activities,
               UnregisterActivity(a) \/ \E l \in Listeners : RegisterActivity(a, l)
        PROVE  \E t, e : Harmless(e) /\ Push(t, e)
    <3>1. \E t : Push(t, AEvent("Unregister", a)) \/ Push(t, AEvent("Register", a))
      BY <2>2 DEF UnregisterActivity, RegisterActivity
    <3>2. Harmless(AEvent("Unregister", a)) /\ Harmless(AEvent("Register", a))
      BY DEF Harmless, AEvent
    <3> QED BY <3>1, <3>2
  <2>3. ASSUME NEW a \in Activities, PostTo(a)
        PROVE  \E t, e : Harmless(e) /\ Push(t, e)
    <3>1. PICK e : PostEvent(a, e) /\ e.a = a
      <4>1. CASE \E ty \in Posts \ {"TimeoutChange"} : PostEvent(a, AEvent(ty, a))
        BY <4>1 DEF AEvent
      <4>2. CASE \E p \in Periods : PostEvent(a, [type |-> "TimeoutChange", a |-> a, to |-> p])
        BY <4>2
      <4> QED BY <2>3, <4>1, <4>2 DEF PostTo
    <3>2. Harmless(e) /\ \E t : Push(t, e)
      BY <3>1 DEF Harmless, PostEvent
    <3> QED BY <3>2
  <2> QED BY <2>1, <2>2, <2>3 DEF Client
<1>4. \A t \in Threads : Moves(t)
  BY <1>1, <1>3 DEF Moves, Push, TypeOK
<1>5. \A t \in Threads : \A a \in Activities : Steadily(t, a)
  BY <1>2 DEF Steadily, On
<1> QED BY <1>1, <1>2, <1>4, <1>5, AloneKept DEF PendingKept

LEMMA AloneExpire ==
  ASSUME LifeInv, LifeInv', TimersFit, TimersFit', AloneInv, Unshared, NEW x \in Timers, Expire(x)
  PROVE  AloneInv'
<1>1. TypeOK /\ TypeOK' /\ timer \in [Timers -> Timer] /\ tmr_amap \in Entries
  BY TimersTyped DEF LifeInv, EngineInv
<1>2. /\ \A tm \in Timers : tm # x => timer'[tm] = timer[tm]
      /\ timer[x].timeout # 0
      /\ UNCHANGED <<tmr_amap, todo, cur, again, activity_set, period, paused, pc>>
      /\ \A t \in Threads :
           eq'[t] = IF t \in timer[x].lis
                      THEN Append(eq[t], [type |-> "TimerExpired", tm |-> x]) ELSE eq[t]
  BY <1>1 DEF Expire, Expired, Live, runvars, actvars
<1>3. \A t \in Threads : Moves(t)
  BY <1>2 DEF Moves, Harmless
<1>4. ASSUME NEW t \in Threads, NEW a \in Activities,
             On(t), tmr_amap[t][a] # NoTimer, ~paused[a]
      PROVE  Awaited(t, a)'
  <2>1. tmr_amap[t][a] \in Timers /\ Awaited(t, a) /\ eq[t] \in Seq(ThreadEvent)
    BY <1>1, <1>4 DEF Entries, AloneInv, AllAwaited, TypeOK
  <2>2. CASE tmr_amap[t][a] = x
    <3>1. t \in timer[x].lis \/ adding[t] = x
      BY <1>4, <2>2 DEF TimersFit, Fit
    <3>2. PICK u \in Threads : u \in timer[x].lis
      BY <1>1, <1>2 DEF TimersFit, Fit, Timer
    <3>3. t \in timer[x].lis
      BY <3>1, <3>2 DEF Unshared
    <3>4. Told(eq'[t], x)
      BY <1>2, <2>1, <3>3, ToldAppend
    <3> QED BY <1>2, <2>2, <3>4 DEF Awaited
  <2>3. CASE tmr_amap[t][a] # x
    <3>1. Told(eq[t], tmr_amap[t][a]) => Told(eq'[t], tmr_amap[t][a])
      BY <1>1, <1>3, SoundKept DEF AloneInv
    <3> QED BY <1>2, <2>1, <2>3, <3>1 DEF Awaited
  <2> QED BY <2>2, <2>3
<1>5. AllAwaited'
  BY <1>2, <1>4 DEF AllAwaited, On
<1>6. Scheduled'
  BY <1>2 DEF AloneInv, Scheduled
<1>7. \A t \in Threads : Sound(eq'[t])
  BY <1>1, <1>3, SoundKept DEF AloneInv
<1> QED BY <1>5, <1>6, <1>7 DEF AloneInv

(***************************************************************************)
(* What the other threads await does not change with a step of t.          *)
(***************************************************************************)
OthersRest(t) ==
  \A u \in Threads \ {t} :
    /\ pc'[u] = pc[u] /\ cur'[u] = cur[u] /\ again'[u] = again[u] /\ todo'[u] = todo[u]
    /\ eq'[u] = eq[u] /\ tmr_amap'[u] = tmr_amap[u]

\* the steps of t in its loop: what is left to show is about t
LEMMA AloneOthers ==
  ASSUME TypeOK, TypeOK', TimersFit', AloneInv, NEW t \in Threads, PendingKept, OthersRest(t),
         \A u \in Threads \ {t} : \A a \in Activities :
           tmr_amap[u][a] # NoTimer => paused'[a] = paused[a],
         \A a \in Activities :
           On(t)' /\ tmr_amap'[t][a] # NoTimer /\ ~paused'[a] => Awaited(t, a)'
  PROVE  AllAwaited'
<1>1. ASSUME NEW u \in Threads \ {t}, NEW a \in Activities,
             On(u)', tmr_amap'[u][a] # NoTimer, ~paused'[a]
      PROVE  Awaited(u, a)'
  <2>1. Moves(u) /\ Steadily(u, a)
    BY <1>1 DEF OthersRest, Moves, Steadily, On
  <2> QED BY <1>1, <2>1, AwaitedKept
<1>2. ASSUME NEW u \in Threads, NEW a \in Activities,
             On(u)', tmr_amap'[u][a] # NoTimer, ~paused'[a]
      PROVE  Awaited(u, a)'
  <2>1. CASE u = t
    BY <1>2, <2>1
  <2>2. CASE u # t
    BY <1>1, <1>2, <2>2
  <2> QED BY <2>1, <2>2
<1> QED BY <1>2 DEF AllAwaited

LEMMA AloneHandle ==
  ASSUME LifeInv, LifeInv', TimersFit, TimersFit', AloneInv, NEW t \in Threads, HandleTimer(t)
  PROVE  AloneInv'
<1>1. TypeOK /\ TypeOK' /\ eq[t] \in Seq(ThreadEvent)
  BY DEF LifeInv, EngineInv, TypeOK
<1>2. /\ UNCHANGED <<timer, tmr_amap, activity_set, period, paused>>
      /\ pc[t] = "loop" /\ pc'[t] = "timer" /\ eq[t] # <<>> /\ eq'[t] = Tail(eq[t])
      /\ cur'[t] = Head(eq[t]).tm
      /\ todo'[t] = {a \in Activities : tmr_amap[t][a] = Head(eq[t]).tm}
      /\ OthersRest(t)
  BY <1>1 DEF HandleTimer, Dequeue, Idle, actvars, tsvars, OthersRest, TypeOK
<1>3. ASSUME NEW a \in Activities, tmr_amap[t][a] # NoTimer, ~paused[a]
      PROVE  Awaited(t, a)'
  <2>1. Awaited(t, a)
    BY <1>2, <1>3 DEF AloneInv, AllAwaited, On
  <2>2. CASE Head(eq[t]).type = "TimerExpired" /\ Head(eq[t]).tm = tmr_amap[t][a]
    BY <1>2, <2>2 DEF Awaited
  <2>3. CASE ~(Head(eq[t]).type = "TimerExpired" /\ Head(eq[t]).tm = tmr_amap[t][a])
    <3>1. Told(eq[t], tmr_amap[t][a]) => Told(eq'[t], tmr_amap[t][a])
      BY <1>1, <1>2, <2>3, ToldTail
    <3> QED BY <1>2, <2>1, <3>1 DEF Awaited
  <2> QED BY <2>2, <2>3
<1>4. AllAwaited'
  BY <1>1, <1>2, <1>3, AloneOthers DEF PendingKept
<1>5. Scheduled'
  BY <1>2 DEF AloneInv, Scheduled
<1>6. \A u \in Threads : Sound(eq'[u])
  <2>1. Sound(eq'[t])
    BY <1>1, <1>2, SoundMoves DEF AloneInv
  <2> QED BY <1>2, <2>1 DEF OthersRest, AloneInv
<1> QED BY <1>4, <1>5, <1>6 DEF AloneInv

LEMMA AloneEnd ==
  ASSUME LifeInv, LifeInv', TimersFit, TimersFit', AloneInv, NEW t \in Threads, EndTimer(t)
  PROVE  AloneInv'
<1>1. TypeOK /\ TypeOK' /\ timer \in [Timers -> Timer] /\ tmr_amap \in Entries
  BY TimersTyped DEF LifeInv, EngineInv
<1>2. /\ UNCHANGED <<tmr_amap, activity_set, period, paused, eq>>
      /\ pc[t] = "timer" /\ todo[t] = {}
      /\ timer' = IF again[t] THEN Restarted(timer, cur[t]) ELSE timer
      /\ OthersRest(t)
  BY <1>1 DEF EndTimer, Idle, actvars, OthersRest, TypeOK
<1>3. PendingKept /\ (again[t] /\ cur[t] \in Timers => timer'[cur[t]].pending)
  BY <1>1, <1>2 DEF PendingKept, Restarted, Timer
<1>4. ASSUME NEW a \in Activities, tmr_amap[t][a] # NoTimer, ~paused[a]
      PROVE  Awaited(t, a)'
  <2>1. Awaited(t, a) /\ tmr_amap[t][a] \in Timers
    BY <1>1, <1>2, <1>4 DEF AloneInv, AllAwaited, On, Entries
  <2>2. timer'[tmr_amap[t][a]].timeout # 0
    BY <1>2, <1>4 DEF TimersFit, Fit
  <2> QED BY <1>2, <1>3, <2>1, <2>2 DEF Awaited, PendingKept
<1>5. AllAwaited'
  BY <1>1, <1>2, <1>3, <1>4, AloneOthers
<1> QED BY <1>2, <1>5 DEF AloneInv, Scheduled

LEMMA AloneQuiet ==
  ASSUME LifeInv, LifeInv', TimersFit, TimersFit', AloneInv, NEW t \in Threads,
         JoinTimer(t) \/ Start(t) \/ LeaveLoop(t) \/ Drain(t) \/ EndRun(t)
  PROVE  AloneInv'
<1>1. TypeOK /\ TypeOK' /\ timer \in [Timers -> Timer] /\ eq[t] \in Seq(ThreadEvent)
  BY TimersTyped DEF LifeInv, EngineInv, TypeOK
<1>2. /\ UNCHANGED <<tmr_amap, activity_set, period, paused>>
      /\ OthersRest(t)
  BY <1>1, SMTT(30) DEF JoinTimer, Start, LeaveLoop, Drain, EndRun, Dequeue, Idle, actvars, tsvars, runvars,
              OthersRest, TypeOK
<1>3. PendingKept
  <2>1. CASE JoinTimer(t)
    <3>1. timer' = [timer EXCEPT ![adding[t]].lis = @ \union {t}]
      BY <2>1 DEF JoinTimer, AddListener
    <3> QED BY <1>1, <3>1 DEF PendingKept, Timer
  <2>2. CASE Start(t) \/ LeaveLoop(t) \/ Drain(t) \/ EndRun(t)
    BY <2>2 DEF Start, LeaveLoop, Drain, EndRun, tsvars, PendingKept
  <2> QED BY <2>1, <2>2
<1>4. /\ eq'[t] = eq[t] \/ (eq[t] # <<>> /\ eq'[t] = Tail(eq[t]))
      /\ On(t)' => On(t) /\ eq'[t] = eq[t] /\ cur'[t] = cur[t] /\ again'[t] = again[t]
                   /\ todo'[t] = todo[t] /\ (pc[t] = "timer" => pc'[t] = "timer")
  BY <1>1 DEF JoinTimer, Start, LeaveLoop, Drain, EndRun, Dequeue, runvars, On, TypeOK
<1>5. ASSUME NEW a \in Activities, On(t)', tmr_amap[t][a] # NoTimer, ~paused[a]
      PROVE  Awaited(t, a)'
  <2>1. Moves(t) /\ Steadily(t, a)
    BY <1>2, <1>4, <1>5 DEF Moves, Steadily
  <2> QED BY <1>1, <1>2, <1>3, <1>5, <2>1, AwaitedKept
<1>6. AllAwaited'
  BY <1>1, <1>2, <1>3, <1>5, AloneOthers
<1>7. \A u \in Threads : Sound(eq'[u])
  <2>1. Sound(eq'[t])
    BY <1>1, <1>4, SoundMoves DEF AloneInv
  <2> QED BY <1>2, <2>1 DEF OthersRest, AloneInv
<1> QED BY <1>2, <1>6, <1>7 DEF AloneInv, Scheduled

(***************************************************************************)
(* An activity joins a timer: it is pending, and the others are kept.      *)
(***************************************************************************)
LEMMA AloneJoined ==
  ASSUME TypeOK, TypeOK', TimersFit', AloneInv, NEW f, NEW t \in Threads, NEW a \in Activities,
         NEW p, NEW tm \in Timers, JoinedFor(f, t, a, p, tm), OthersRest(t),
         \A u \in Threads \ {t} : \A b \in Activities :
           tmr_amap[u][b] # NoTimer => paused'[b] = paused[b],
         Moves(t), pc'[t] = pc[t], cur'[t] = cur[t], again'[t] = again[t],
         \A b \in Activities \ {a} : /\ paused'[b] = paused[b]
                                     /\ b \in todo[t] => b \in todo'[t]
  PROVE  AllAwaited'
<1>1. PendingKept
  BY DEF JoinedFor, PendingKept
<1>2. ASSUME NEW b \in Activities, On(t)', tmr_amap'[t][b] # NoTimer, ~paused'[b]
      PROVE  Awaited(t, b)'
  <2>1. CASE b = a
    BY <2>1 DEF JoinedFor, Awaited
  <2>2. CASE b # a
    <3>1. Steadily(t, b)
      BY <2>2 DEF JoinedFor, Steadily, On
    <3> QED BY <1>1, <1>2, <3>1, AwaitedKept
  <2> QED BY <2>1, <2>2
<1> QED BY <1>1, <1>2, AloneOthers

LEMMA OnlyUser ==
  ASSUME LifeInv, NEW t \in Threads, NEW u \in Threads, NEW a \in Activities,
         a \in activity_set[t], a \in activity_set[u]
  PROVE  t = u
<1>1. Uses(t, a) /\ Uses(u, a)
  BY DEF Uses, Entered
<1> QED BY <1>1 DEF LifeInv, LinkInv, LinkRel, OneUser

\* a period that changes stays a period
LEMMA PeriodChanged ==
  ASSUME TypeOK, Scheduled, NEW a \in Activities, NEW p, period' = [period EXCEPT ![a] = p],
         p = 0 <=> period[a] = 0
  PROVE  /\ \A b \in Activities : period'[b] = 0 <=> period[b] = 0
         /\ \A b \in Activities : period'[b] = 0 <=> PeriodOf[b] = 0
<1>1. \A b \in Activities : period'[b] = IF b = a THEN p ELSE period[b]
  BY DEF TypeOK
<1> QED BY <1>1 DEF Scheduled

LEMMA ScheduledKept ==
  ASSUME TypeOK', Scheduled,
         \A a \in Activities : period'[a] = 0 <=> period[a] = 0,
         \A t \in Threads : \A a \in Activities :
           /\ tmr_amap'[t][a] # NoTimer /\ tmr_amap[t][a] = NoTimer => period[a] # 0
           /\ a \in activity_set'[t] /\ period[a] # 0 /\ ~paused'[a] => tmr_amap'[t][a] # NoTimer
  PROVE  Scheduled'
<1>1. \A t \in Threads : activity_set'[t] \subseteq Activities
  BY DEF TypeOK
<1>2. \A t \in Threads : \A a \in Activities : tmr_amap'[t][a] # NoTimer => period'[a] # 0
  BY DEF Scheduled
<1>3. \A t \in Threads : \A a \in activity_set'[t] :
        period'[a] # 0 /\ ~paused'[a] => tmr_amap'[t][a] # NoTimer
  BY <1>1
<1>4. \A a \in Activities : period'[a] = 0 <=> PeriodOf[a] = 0
  BY DEF Scheduled
<1> QED BY <1>2, <1>3, <1>4 DEF Scheduled

\* execute() and setInterval
LEMMA PeriodAfter ==
  ASSUME TypeOK, NEW a \in Activities, NEW p \in PeriodsAfter(a)
  PROVE  /\ p \in Periods \union {0} /\ p \in Nat
         /\ p = 0 <=> period[a] = 0
<1>1. p \in Periods \union {0} /\ (p = 0 <=> period[a] = 0)
  BY PeriodsAssumption, ActivityAssumption DEF PeriodsAfter, TypeOK
<1>2. p \in Nat
  BY <1>1, PeriodsAssumption
<1> QED BY <1>1, <1>2

LEMMA AloneExecute ==
  ASSUME LifeInv, LifeInv', TimersFit, TimersFit', AloneInv, NEW t \in Threads,
         NEW a \in Activities, ExecuteOnTimer(t, a)
  PROVE  AloneInv'
<1>1. /\ EngineInv /\ EngineInv' /\ TypeOK /\ TypeOK' /\ timer \in [Timers -> Timer]
      /\ tmr_amap \in Entries /\ tmr_amap' \in Entries
  BY TimersTyped DEF LifeInv, EngineInv, TypeOK, Entries
<1>2. /\ pc[t] = "timer" /\ a \in todo[t] /\ todo' = [todo EXCEPT ![t] = @ \ {a}]
      /\ UNCHANGED <<pc, activity_set, cur, paused, eq>>
  BY DEF ExecuteOnTimer, Idle
<1>3. cur[t] \in Timers /\ tmr_amap[t][a] = cur[t] /\ tmr_amap[t][a] # NoTimer /\ period[a] # 0
  BY <1>2, NoTimerAssumption DEF TimersFit, ThreadFit, AloneInv, Scheduled
<1>4. /\ todo'[t] = todo[t] \ {a} /\ \A u \in Threads : u # t => todo'[u] = todo[u]
      /\ Moves(t) /\ \A u \in Threads : Sound(eq'[u])
  BY <1>1, <1>2 DEF TypeOK, Moves, AloneInv
<1>5. CASE RepeatOf(a, period[a]) > 0
  <2>1. PICK p \in PeriodsAfter(a) :
          /\ period' = [period EXCEPT ![a] = p]
          /\ IF p # timer[cur[t]].timeout
               THEN NewTimeout(t, a, p) /\ UNCHANGED again
               ELSE again' = [again EXCEPT ![t] = TRUE] /\ UNCHANGED <<tsvars, tmr_amap>>
    BY <1>5 DEF ExecuteOnTimer
  <2>2. /\ p \in Periods
        /\ \A b \in Activities : period'[b] = 0 <=> period[b] = 0
        /\ \A b \in Activities : period'[b] = 0 <=> PeriodOf[b] = 0
    BY <1>1, <1>3, <2>1, PeriodAfter, PeriodChanged DEF AloneInv
  <2>3. CASE p # timer[cur[t]].timeout
    <3>1. NewTimeout(t, a, p) /\ again' = again
      BY <2>1, <2>3
    <3>2. PICK tm \in Timers : JoinedFor(TimersWithout(t, a), t, a, p, tm)
      BY <1>1, <1>2, <1>3, <2>2, <3>1, TimersNewTimeout
    <3>3. OthersRest(t)
      BY <1>1, <1>2, <1>4, <3>1, <3>2, JoinedOthers DEF OthersRest
    <3>4. AllAwaited'
      BY <1>1, <1>2, <1>4, <3>1, <3>2, <3>3, AloneJoined
    <3>5. Scheduled'
      <4>1. \A u \in Threads : \A b \in Activities :
              tmr_amap'[u][b] = NoTimer <=> tmr_amap[u][b] = NoTimer
        BY <1>3, <3>2, NoTimerAssumption DEF JoinedFor
      <4>2. \A u \in Threads : \A b \in Activities :
              b \in activity_set'[u] /\ period[b] # 0 /\ ~paused'[b] => tmr_amap'[u][b] # NoTimer
        BY <1>2, <4>1 DEF AloneInv, Scheduled
      <4> QED BY <1>1, <2>2, <4>1, <4>2, ScheduledKept DEF AloneInv
    <3> QED BY <1>4, <3>4, <3>5 DEF AloneInv
  <2>4. CASE p = timer[cur[t]].timeout
    <3>1. again' = [again EXCEPT ![t] = TRUE] /\ UNCHANGED <<timer, tmr_amap>>
      BY <2>1, <2>4 DEF tsvars
    <3>2. again'[t] = TRUE /\ \A u \in Threads : u # t => again'[u] = again[u]
      BY <1>1, <3>1 DEF TypeOK
    <3>3. OthersRest(t) /\ PendingKept
      BY <1>2, <1>4, <3>1, <3>2 DEF OthersRest, PendingKept
    <3>4. ASSUME NEW b \in Activities, On(t)', tmr_amap'[t][b] # NoTimer, ~paused'[b]
          PROVE  Awaited(t, b)'
      <4>1. CASE b = a
        BY <1>2, <1>3, <3>1, <3>2, <4>1 DEF Awaited
      <4>2. CASE b # a
        <5>1. Steadily(t, b)
          BY <1>2, <1>4, <3>1, <3>2, <4>2 DEF Steadily, On
        <5> QED BY <1>1, <1>4, <3>3, <3>4, <5>1, AwaitedKept
      <4> QED BY <4>1, <4>2
    <3>5. AllAwaited'
      BY <1>1, <1>2, <3>3, <3>4, AloneOthers
    <3>6. Scheduled'
      <4>1. \A u \in Threads : \A b \in Activities :
              b \in activity_set'[u] /\ period[b] # 0 /\ ~paused'[b] => tmr_amap'[u][b] # NoTimer
        BY <1>2, <3>1 DEF AloneInv, Scheduled
      <4> QED BY <1>1, <2>2, <3>1, <4>1, ScheduledKept DEF AloneInv
    <3> QED BY <1>4, <3>5, <3>6 DEF AloneInv
  <2> QED BY <2>3, <2>4
<1>6. CASE ~(RepeatOf(a, period[a]) > 0)
  <2>1. UNCHANGED <<period, timer, tmr_amap, again>>
    BY <1>6 DEF ExecuteOnTimer, tsvars
  <2>2. paused[a]
    <3>1. period[a] \in Nat
      <4>1. period[a] \in Periods
        BY <1>1, <1>3 DEF TypeOK
      <4> QED BY <4>1, PeriodsAssumption
    <3> QED BY <1>3, <1>6, <3>1 DEF RepeatOf
  <2>3. OthersRest(t) /\ PendingKept
    BY <1>2, <1>4, <2>1 DEF OthersRest, PendingKept
  <2>4. ASSUME NEW b \in Activities, On(t)', tmr_amap'[t][b] # NoTimer, ~paused'[b]
        PROVE  Awaited(t, b)'
    <3>1. Steadily(t, b)
      BY <1>2, <1>4, <2>1, <2>2, <2>4 DEF Steadily, On
    <3> QED BY <1>1, <1>4, <2>3, <2>4, <3>1, AwaitedKept
  <2>5. AllAwaited'
    BY <1>1, <1>2, <2>3, <2>4, AloneOthers
  <2> QED BY <1>2, <1>4, <2>1, <2>5 DEF AloneInv, Scheduled
<1> QED BY <1>5, <1>6

LEMMA AloneRegister ==
  ASSUME LifeInv, LifeInv', TimersFit, TimersFit', AloneInv, NEW t \in Threads, HandleRegister(t)
  PROVE  AloneInv'
<1>1. /\ TypeOK /\ TypeOK' /\ eq[t] \in Seq(ThreadEvent)
      /\ tmr_amap \in Entries /\ tmr_amap' \in Entries
  BY TimersTyped DEF LifeInv, EngineInv, TypeOK, Entries
<1>2. PICK a \in Activities : a = Head(eq[t]).a
  <2>1. Dequeue(t, {"Register"}) /\ eq \in [Threads -> Seq(ThreadEvent)]
    BY <1>1 DEF HandleRegister, TypeOK
  <2>2. Head(eq[t]) \in ThreadEvent /\ Head(eq[t]).type = "Register"
    BY <2>1, DequeueType
  <2> QED BY <2>2, ThreadEventFields
<1>3. /\ eq[t] # <<>> /\ eq'[t] = Tail(eq[t]) /\ Head(eq[t]).type = "Register"
      /\ UNCHANGED <<pc, todo, cur, again, paused>>
      /\ \A u \in Threads : u # t => eq'[u] = eq[u] /\ activity_set'[u] = activity_set[u]
      /\ activity_set'[t] = activity_set[t] \union {a}
  BY <1>1, <1>2 DEF HandleRegister, Dequeue, Idle, TypeOK
<1>4. PICK p \in PeriodsAfter(a) :
        /\ period' = [period EXCEPT ![a] = p]
        /\ IF RepeatOf(a, p) > 0
             THEN RegisterListener(timer, t, a, p, tmr_amap[t])
             ELSE UNCHANGED <<tsvars, tmr_amap>>
  BY <1>2 DEF HandleRegister
<1>5. /\ p \in Periods \union {0} /\ p \in Nat
      /\ \A b \in Activities : period'[b] = 0 <=> period[b] = 0
      /\ \A b \in Activities : period'[b] = 0 <=> PeriodOf[b] = 0
      /\ period'[a] = p
  BY <1>1, <1>4, PeriodAfter, PeriodChanged DEF AloneInv, TypeOK
<1>6. Moves(t)
  BY <1>3 DEF Moves
<1>7. \A u \in Threads : Sound(eq'[u])
  BY <1>1, <1>3, <1>6, SoundKept DEF AloneInv
<1>8. CASE RepeatOf(a, p) > 0
  <2>1. p \in Periods
    BY <1>5, <1>8 DEF RepeatOf
  <2>2. PICK tm \in Timers : JoinedFor(timer, t, a, p, tm)
    BY <1>1, <1>4, <1>8, <2>1, JoinsTimer DEF TimersFit
  <2>3. OthersRest(t)
    BY <1>1, <1>3, <2>2, JoinedOthers DEF OthersRest
  <2>4. AllAwaited'
    BY <1>1, <1>3, <1>6, <2>2, <2>3, AloneJoined
  <2>5. Scheduled'
    <3>1. tmr_amap'[t][a] # NoTimer /\ period[a] # 0
      BY <1>5, <2>1, <2>2, PeriodsAssumption, NoTimerAssumption DEF JoinedFor
    <3>2. \A u \in Threads : \A b \in Activities : u # t \/ b # a =>
            /\ tmr_amap'[u][b] = tmr_amap[u][b]
            /\ b \in activity_set'[u] <=> b \in activity_set[u]
      BY <1>3, <2>2 DEF JoinedFor
    <3>3. \A u \in Threads : \A b \in Activities :
            /\ tmr_amap'[u][b] # NoTimer /\ tmr_amap[u][b] = NoTimer => period[b] # 0
            /\ b \in activity_set'[u] /\ period[b] # 0 /\ ~paused'[b] => tmr_amap'[u][b] # NoTimer
      BY <1>3, <3>1, <3>2 DEF AloneInv, Scheduled
    <3> QED BY <1>1, <1>5, <3>3, ScheduledKept DEF AloneInv
  <2> QED BY <1>7, <2>4, <2>5 DEF AloneInv
<1>9. CASE ~(RepeatOf(a, p) > 0)
  <2>1. UNCHANGED <<timer, tmr_amap>>
    BY <1>4, <1>9 DEF tsvars
  <2>2. OthersRest(t) /\ PendingKept
    BY <1>3, <2>1 DEF OthersRest, PendingKept
  <2>3. ASSUME NEW b \in Activities, On(t)', tmr_amap'[t][b] # NoTimer, ~paused'[b]
        PROVE  Awaited(t, b)'
    <3>1. Steadily(t, b)
      BY <1>3, <2>1 DEF Steadily, On
    <3> QED BY <1>1, <1>6, <2>2, <2>3, <3>1, AwaitedKept
  <2>4. AllAwaited'
    BY <1>1, <1>3, <2>2, <2>3, AloneOthers
  <2>5. paused[a] \/ period'[a] = 0
    BY <1>5, <1>9 DEF RepeatOf
  <2>6. Scheduled'
    <3>1. \A u \in Threads : \A b \in Activities :
            b \in activity_set'[u] /\ period[b] # 0 /\ ~paused'[b] => tmr_amap'[u][b] # NoTimer
      BY <1>3, <1>5, <2>1, <2>5 DEF AloneInv, Scheduled
    <3> QED BY <1>1, <1>5, <2>1, <3>1, ScheduledKept DEF AloneInv
  <2> QED BY <1>7, <2>4, <2>6 DEF AloneInv
<1> QED BY <1>8, <1>9

LEMMA AloneExit ==
  ASSUME LifeInv, LifeInv', TimersFit, TimersFit', AloneInv, NEW t \in Threads,
         HandleUnregister(t) \/ \E a \in Activities : QuitActivity(t, a)
  PROVE  AloneInv'
<1>1. /\ EngineInv /\ EngineInv' /\ TypeOK /\ TypeOK' /\ eq[t] \in Seq(ThreadEvent)
      /\ tmr_amap \in Entries
  BY TimersTyped DEF LifeInv, EngineInv, TypeOK
<1>2. PICK a \in Activities : (HandleUnregister(t) /\ a = Head(eq[t]).a) \/ QuitActivity(t, a)
  <2>1. CASE HandleUnregister(t)
    <3>1. Dequeue(t, {"Unregister"}) /\ eq \in [Threads -> Seq(ThreadEvent)]
      BY <1>1, <2>1 DEF HandleUnregister, TypeOK
    <3>2. Head(eq[t]) \in ThreadEvent /\ Head(eq[t]).type = "Unregister"
      BY <3>1, DequeueType
    <3>3. Head(eq[t]).a \in Activities
      BY <3>2, ThreadEventFields
    <3> QED BY <2>1, <3>3
  <2> QED BY <2>1
<1>3. /\ UNCHANGED <<pc, todo, cur, again, period, paused>> /\ pc[t] # "timer"
      /\ \/ eq'[t] = eq[t]
         \/ eq[t] # <<>> /\ Head(eq[t]).type = "Unregister" /\ eq'[t] = Tail(eq[t])
      /\ \A u \in Threads \ {t} : eq'[u] = eq[u]
      /\ ExitActivity(t, a) \/ UNCHANGED <<timer, tmr_amap, activity_set>>
  BY <1>1, <1>2, ZenonT(60) DEF HandleUnregister, QuitActivity, Dequeue, Idle, actvars, tsvars, TypeOK
<1>4. Moves(t)
  BY <1>3 DEF Moves
<1>5. \A u \in Threads : Sound(eq'[u])
  BY <1>1, <1>3, <1>4, SoundKept DEF AloneInv
<1>6. CASE ExitActivity(t, a)
  <2>1. LeftBy(t, a) /\ TimersFit'
    BY <1>1, <1>3, <1>6, TimersExit
  <2>2. OthersRest(t) /\ \A u \in Threads \ {t} : activity_set'[u] = activity_set[u]
    <3>1. tmr_amap' = tmr_amap \/ tmr_amap' = [tmr_amap EXCEPT ![t][a] = NoTimer]
      BY <1>6 DEF ExitActivity
    <3> QED BY <1>1, <1>3, <1>6, <3>1, SMTT(30) DEF ExitActivity, OthersRest, TypeOK
  <2>3. PendingKept /\ activity_set'[t] = activity_set[t] \ {a}
    BY <1>1, <1>6, <2>1 DEF PendingKept, LeftBy, ExitActivity, TypeOK
  <2>4. ASSUME NEW b \in Activities, On(t)', tmr_amap'[t][b] # NoTimer, ~paused'[b]
        PROVE  Awaited(t, b)'
    <3>1. Steadily(t, b)
      BY <1>3, <2>1, <2>4 DEF Steadily, LeftBy, On
    <3> QED BY <1>1, <1>4, <2>1, <2>3, <2>4, <3>1, AwaitedKept
  <2>5. AllAwaited'
    BY <1>1, <1>3, <2>1, <2>2, <2>3, <2>4, AloneOthers
  <2>6. Scheduled'
    <3>1. \A u \in Threads : \A b \in Activities : u # t \/ b # a =>
            /\ tmr_amap'[u][b] = tmr_amap[u][b]
            /\ b \in activity_set'[u] <=> b \in activity_set[u]
      BY <2>1, <2>2, <2>3 DEF LeftBy, OthersRest
    <3>2. tmr_amap'[t][a] = NoTimer /\ a \notin activity_set'[t]
      BY <2>1, <2>3 DEF LeftBy
    <3>3. \A u \in Threads : \A b \in Activities :
            /\ tmr_amap'[u][b] # NoTimer /\ tmr_amap[u][b] = NoTimer => period[b] # 0
            /\ b \in activity_set'[u] /\ period[b] # 0 /\ ~paused'[b] => tmr_amap'[u][b] # NoTimer
      BY <1>3, <3>1, <3>2 DEF AloneInv, Scheduled
    <3> QED BY <1>1, <1>3, <3>3, ScheduledKept DEF AloneInv
  <2> QED BY <1>5, <2>5, <2>6 DEF AloneInv
<1>7. CASE UNCHANGED <<timer, tmr_amap, activity_set>>
  <2>1. \A u \in Threads : Moves(u) /\ \A b \in Activities : Steadily(u, b)
    BY <1>3, <1>4, <1>7 DEF Moves, Steadily, On
  <2> QED BY <1>1, <1>3, <1>7, <2>1, AloneKept DEF PendingKept
<1> QED BY <1>3, <1>6, <1>7

LEMMA AlonePost ==
  ASSUME LifeInv, LifeInv', TimersFit, TimersFit', AloneInv, Unresumed, NEW t \in Threads,
         HandlePost(t)
  PROVE  AloneInv'
<1>1. /\ EngineInv /\ EngineInv' /\ TypeOK /\ TypeOK' /\ eq[t] \in Seq(ThreadEvent)
      /\ tmr_amap \in Entries /\ tmr_amap' \in Entries
  BY TimersTyped DEF LifeInv, EngineInv, TypeOK, Entries
<1>2. /\ Dequeue(t, {"Pause", "Resume", "Execute", "TimeoutChange"})
      /\ eq \in [Threads -> Seq(ThreadEvent)]
  BY <1>1 DEF HandlePost, TypeOK
<1>3. /\ Head(eq[t]) \in ThreadEvent
      /\ Head(eq[t]).type \in {"Pause", "Resume", "Execute", "TimeoutChange"}
      /\ eq[t] # <<>> /\ eq'[t] = Tail(eq[t]) /\ \A u \in Threads : u # t => eq'[u] = eq[u]
      /\ pc[t] = "loop"
  BY <1>2, DequeueType DEF Dequeue, Idle
<1>4. PICK a \in Activities : a = Head(eq[t]).a
  BY <1>3, ThreadEventFields
<1>5. PICK p : p = Head(eq[t]).to
  OBVIOUS
<1>6. Head(eq[t]).type # "Resume"
  <2>1. Head(eq[t]) = eq[t][1] /\ 1 \in DOMAIN eq[t]
    BY <1>1, <1>3
  <2> QED BY <2>1 DEF Unresumed, Contains
<1>7. Head(eq[t]).type = "TimeoutChange" => /\ p \in Periods /\ p # 0
                                            /\ PeriodOf[a] # 0 /\ period[a] # 0
  <2>1. Head(eq[t]).type = "TimeoutChange" => p \in Periods
    BY <1>3, <1>5, ThreadEventFields
  <2>2. Harmless(Head(eq[t]))
    BY <1>1, <1>3, SoundMoves DEF AloneInv
  <2> QED BY <1>4, <2>1, <2>2, PeriodsAssumption DEF Harmless, AloneInv, Scheduled
<1>8. /\ UNCHANGED <<pc, activity_set, todo, cur, again>>
      /\ IF Head(eq[t]).type = "TimeoutChange" /\ tmr_amap[t][a] # NoTimer
           THEN NewTimeout(t, a, p) ELSE UNCHANGED <<tsvars, tmr_amap>>
      /\ period' = IF a \in activity_set[t] /\ Head(eq[t]).type = "TimeoutChange"
                     THEN [period EXCEPT ![a] = p] ELSE period
      /\ paused' = IF a \in activity_set[t] /\ Head(eq[t]).type \in {"Pause", "Resume"}
                     THEN [paused EXCEPT ![a] = Head(eq[t]).type = "Pause"] ELSE paused
  BY <1>4, <1>5 DEF HandlePost
<1>9. \A b \in Activities : period'[b] = 0 <=> period[b] = 0
  <2>1. CASE period' = period
    BY <2>1
  <2>2. CASE Head(eq[t]).type = "TimeoutChange" /\ period' = [period EXCEPT ![a] = p]
    BY <1>1, <1>7, <2>2, PeriodChanged DEF AloneInv
  <2> QED BY <1>8, <2>1, <2>2
<1>10. /\ \A b \in Activities : paused'[b] = paused[b] \/ (b = a /\ a \in activity_set[t] /\ paused'[b])
       /\ Head(eq[t]).type = "TimeoutChange" => paused' = paused
  BY <1>1, <1>6, <1>8, ZenonT(60) DEF TypeOK
<1>11. \A u \in Threads \ {t} : \A b \in Activities :
         tmr_amap[u][b] # NoTimer => paused'[b] = paused[b]
  <2> SUFFICES ASSUME NEW u \in Threads \ {t}, NEW b \in Activities, tmr_amap[u][b] # NoTimer
               PROVE  paused'[b] = paused[b]
    OBVIOUS
  <2>1. b \in activity_set[u]
    BY DEF TimersFit, ThreadFit
  <2>2. ~(b = a /\ a \in activity_set[t])
    BY <2>1, OnlyUser
  <2> QED BY <1>10, <2>2
<1>12. Moves(t) /\ \A u \in Threads : Sound(eq'[u])
  <2>1. Moves(t)
    BY <1>3 DEF Moves
  <2> QED BY <1>1, <1>3, <2>1, SoundKept DEF AloneInv
<1>13. CASE Head(eq[t]).type = "TimeoutChange" /\ tmr_amap[t][a] # NoTimer
  <2>1. NewTimeout(t, a, p) /\ p \in Periods /\ paused' = paused
    BY <1>7, <1>8, <1>10, <1>13
  <2>2. PICK tm \in Timers : JoinedFor(TimersWithout(t, a), t, a, p, tm)
    BY <1>1, <1>3, <1>8, <1>13, <2>1, TimersNewTimeout
  <2>3. OthersRest(t)
    BY <1>1, <1>3, <1>8, <2>2, JoinedOthers DEF OthersRest
  <2>4. AllAwaited'
    BY <1>1, <1>8, <1>12, <2>1, <2>2, <2>3, AloneJoined
  <2>5. Scheduled'
    <3>1. \A u \in Threads : \A b \in Activities :
            tmr_amap'[u][b] = NoTimer <=> tmr_amap[u][b] = NoTimer
      BY <1>13, <2>2, NoTimerAssumption DEF JoinedFor
    <3>2. \A u \in Threads : \A b \in Activities :
            b \in activity_set'[u] /\ period[b] # 0 /\ ~paused'[b] => tmr_amap'[u][b] # NoTimer
      BY <1>8, <2>1, <3>1 DEF AloneInv, Scheduled
    <3> QED BY <1>1, <1>9, <3>1, <3>2, ScheduledKept DEF AloneInv
  <2> QED BY <1>12, <2>4, <2>5 DEF AloneInv
<1>14. CASE ~(Head(eq[t]).type = "TimeoutChange" /\ tmr_amap[t][a] # NoTimer)
  <2>1. UNCHANGED <<timer, tmr_amap>>
    BY <1>8, <1>14 DEF tsvars
  <2>2. OthersRest(t) /\ PendingKept
    BY <1>3, <1>8, <2>1 DEF OthersRest, PendingKept
  <2>3. ASSUME NEW b \in Activities, On(t)', tmr_amap'[t][b] # NoTimer, ~paused'[b]
        PROVE  Awaited(t, b)'
    <3>1. Steadily(t, b)
      BY <1>8, <1>10, <2>1, <2>3 DEF Steadily, On
    <3> QED BY <1>1, <1>12, <2>2, <2>3, <3>1, AwaitedKept
  <2>4. AllAwaited'
    BY <1>1, <1>11, <2>2, <2>3, AloneOthers
  <2>5. Scheduled'
    <3>1. \A u \in Threads : \A b \in Activities :
            b \in activity_set'[u] /\ period[b] # 0 /\ ~paused'[b] => tmr_amap'[u][b] # NoTimer
      BY <1>8, <1>10, <2>1 DEF AloneInv, Scheduled
    <3> QED BY <1>1, <1>9, <2>1, <3>1, ScheduledKept DEF AloneInv
  <2> QED BY <1>12, <2>4, <2>5 DEF AloneInv
<1> QED BY <1>13, <1>14

LEMMA AloneNext ==
  LifeInv /\ TimerInv /\ AloneInv /\ Unshared /\ Unresumed /\ [Next]_vars => AloneInv'
<1> SUFFICES ASSUME LifeInv, TimerInv, AloneInv, Unshared, Unresumed, [Next]_vars
             PROVE  AloneInv'
  OBVIOUS
<1>1. LifeInv' /\ TimersFit /\ TimersFit'
  BY LifeNext, TimersNext DEF TimerInv
<1>2. CASE Client \/ EventLoop \/ Finish \/ UNCHANGED vars
  BY <1>1, <1>2, AloneMain
<1>3. ASSUME NEW tm \in Timers, Expire(tm) PROVE AloneInv'
  BY <1>1, <1>3, AloneExpire
<1>4. ASSUME NEW t \in Threads, Run(t) PROVE AloneInv'
  BY <1>1, <1>4, AloneRegister, AloneExit, AloneHandle, AloneEnd, AlonePost, AloneQuiet,
     AloneExecute DEF Run
<1> QED BY <1>2, <1>3, <1>4 DEF Next, Ended

LEMMA AlonePeriodic == LifeInv /\ TimerInv /\ AloneInv => PeriodicServed
<1> SUFFICES ASSUME LifeInv, TimerInv, AloneInv, NEW t \in Threads, NEW a \in Activities,
                    pc[t] = "loop", eq[t] = <<>>, adding[t] = NoTimer,
                    a \in activity_set[t], period[a] > 0, ~paused[a]
             PROVE  LET tm == tmr_amap[t][a]
                    IN  tm # NoTimer /\ (timer[tm].pending \/ WillRestart(tm))
  BY DEF PeriodicServed
<1>1. period[a] # 0
  OBVIOUS
<1>2. tmr_amap[t][a] # NoTimer
  BY <1>1 DEF AloneInv, Scheduled
<1>3. Awaited(t, a)
  BY <1>2 DEF AloneInv, AllAwaited, On
<1>4. ~Told(eq[t], tmr_amap[t][a])
  BY DEF Told
<1> QED BY <1>2, <1>3, <1>4 DEF Awaited

(***************************************************************************)
(* Whatever clients post, but for a resume, and whatever periods the       *)
(* activities give themselves: a thread that shares no timer is always     *)
(* woken for each of its periodic activities that is not paused            *)
(* (CuThread::TimerExpired, PostToActivity).                               *)
(***************************************************************************)
THEOREM OwnTimersGoOn == Spec => ([](Unshared /\ Unresumed) => []PeriodicServed)
<1>1. Init => AloneInv
  <2> SUFFICES ASSUME Init PROVE AloneInv
    OBVIOUS
  <2>1. /\ \A t \in Threads : \A a \in Activities : tmr_amap[t][a] = NoTimer
        /\ \A t \in Threads : activity_set[t] = {} /\ eq[t] = <<>>
        /\ period = PeriodOf
    BY DEF Init
  <2> QED BY <2>1 DEF AloneInv, AllAwaited, Scheduled, Sound
<1>2. LifeInv /\ TimerInv /\ AloneInv /\ (Unshared /\ Unresumed) /\ [Next]_vars => AloneInv'
  BY AloneNext
<1> QED BY <1>1, <1>2, AlonePeriodic, TimersInvariant, PTL DEF Spec
===============================================================================
