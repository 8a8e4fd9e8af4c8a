---------------------------- MODULE CuTimerProofs ----------------------------
(***************************************************************************)
(* What TLAPS proves of CuTimer, for any number of threads: its types, its *)
(* safety properties, and that it implements SharedTimer.                  *)
(***************************************************************************)
EXTENDS CuTimer, TLAPS

LEMMA TimerTypeInit == Init => TypeOK
<1> SUFFICES ASSUME Init PROVE TypeOK
  OBVIOUS
<1>1. pending \in Nat /\ inbox \in [Threads -> Nat]
  BY DEF Init
<1>2. exists \in BOOLEAN /\ skip \in BOOLEAN /\ quit \in BOOLEAN /\ notified \in BOOLEAN
  BY ZenonT(20) DEF Init
<1> QED BY <1>1, <1>2 DEF Init, TypeOK, RunStates, UserStates

LEMMA TimerTypeNext == TypeOK /\ [Next]_vars => TypeOK'
<1> SUFFICES ASSUME TypeOK, [Next]_vars PROVE TypeOK'
  OBVIOUS
<1> USE DEF TypeOK, RunStates, UserStates, Goto, Notify
<1>1. CASE Enter
  BY <1>1 DEF Enter, Loop
<1>2. CASE WaitForReturns
  BY <1>2 DEF WaitForReturns, Loop
<1>3. CASE Fire
  BY <1>3 DEF Fire
<1>4. CASE WaitReturns
  BY <1>4 DEF WaitReturns, Loop
<1>5. ASSUME NEW t \in Threads, RegisterListener(t)
      PROVE  TypeOK'
  BY <1>5 DEF RegisterListener
<1>6. ASSUME NEW t \in Threads, UnregisterListener(t)
      PROVE  TypeOK'
  BY <1>6 DEF UnregisterListener
<1>7. ASSUME NEW t \in Threads, Restart(t)
      PROVE  TypeOK'
  <2>1. inbox' \in [Threads -> Nat] /\ pending' \in Nat /\ run' \in RunStates
    BY <1>7 DEF Restart
  <2>2. quit' \in BOOLEAN /\ skip' \in BOOLEAN /\ notified' \in BOOLEAN
    <3>1. (run \in {"waitfor", "idle"}) \in BOOLEAN
      OBVIOUS
    <3> QED BY <1>7, <3>1, Zenon DEF Restart
  <2> QED BY <1>7, <2>1, <2>2 DEF Restart
<1>8. ASSUME NEW t \in Threads, Ignore(t)
      PROVE  TypeOK'
  BY <1>8 DEF Ignore
<1>9. ASSUME NEW t \in Threads, StartLocked(t)
      PROVE  TypeOK'
  <2>1. run' \in RunStates /\ user' \in [Threads -> UserStates]
    BY <1>9 DEF StartLocked
  <2>2. quit' \in BOOLEAN /\ skip' \in BOOLEAN /\ notified' \in BOOLEAN
    <3>1. (run \in {"waitfor", "idle"}) \in BOOLEAN
      OBVIOUS
    <3> QED BY <1>9, <3>1, Zenon DEF StartLocked
  <2> QED BY <1>9, <2>1, <2>2 DEF StartLocked
<1>10. ASSUME NEW t \in Threads, AddListener(t)
       PROVE  TypeOK'
  BY <1>10 DEF AddListener
<1>11. ASSUME NEW t \in Threads, Stop(t)
       PROVE  TypeOK'
  BY <1>11 DEF Stop
<1>12. ASSUME NEW t \in Threads, JoinAndDelete(t)
       PROVE  TypeOK'
  <2>1. inbox' \in [Threads -> Nat]
    <3>1. [u \in Threads |-> 0] \in [Threads -> Nat]
      OBVIOUS
    <3> QED BY <1>12, <3>1 DEF JoinAndDelete
  <2>2. exists' \in BOOLEAN /\ quit' \in BOOLEAN /\ skip' \in BOOLEAN /\ notified' \in BOOLEAN
    BY <1>12, Zenon DEF JoinAndDelete
  <2> QED BY <1>12, <2>1, <2>2 DEF JoinAndDelete
<1>13. CASE UNCHANGED vars
  BY <1>13 DEF vars
<1> QED BY <1>1, <1>2, <1>3, <1>4, <1>5, <1>6, <1>7, <1>8, <1>9, <1>10, <1>11, <1>12, <1>13
        DEF Next, Run, Serving

(***************************************************************************)
(* The variables of a timer keep their types.                              *)
(***************************************************************************)
THEOREM TimerTypeCorrect == Spec => []TypeOK
BY TimerTypeInit, TimerTypeNext, PTL DEF Spec

-------------------------------------------------------------------------------
(***************************************************************************)
(* The inductive invariant.                                                *)
(***************************************************************************)
\* a thread inside registerListener or unregisterListener holds shmu
Inside == {"start", "add", "stop", "join"}

LockHeld == \A t \in Threads : user[t] \in Inside <=> shmu = t

\* the listeners are the threads that came and did not leave
ListenersIn == lis = {t \in Threads : user[t] = "in"}

\* only the last listener to leave stops the timer
LastLeaves == \A t \in Threads : user[t] \in {"stop", "join"} => lis = {}

Exists == \A t \in Threads : user[t] \in Inside \union {"in"} => exists

\* m_quit is set only between stop() and the deletion, and ends run() only then
QuitJoined ==
  /\ quit \/ run = "ended" => quit /\ \E t \in Threads : user[t] = "join"
  /\ \A t \in Threads : user[t] = "join" => quit

\* run() was not notified while it tells the listeners
FiringUnnotified == run = "firing" => ~notified

\* a timer whose counter says it is pending is armed, or about to be
PendingArmed ==
  pending > 0 => \/ run \in {"enter", "waitfor", "firing", "ended"}
                 \/ run = "idle" /\ notified
                 \/ \E t \in Threads : user[t] = "start"

TimerInv == /\ TypeOK /\ LockHeld /\ ListenersIn /\ LastLeaves /\ Exists
            /\ QuitJoined /\ FiringUnnotified /\ PendingArmed

LEMMA TimerInvInit == Init => TimerInv
BY TimerTypeInit, TimerAssumption
   DEF Init, TimerInv, LockHeld, ListenersIn, LastLeaves, Exists, QuitJoined,
       FiringUnnotified, PendingArmed, Inside

LEMMA TimerInvNext == TimerInv /\ [Next]_vars => TimerInv'
<1> SUFFICES ASSUME TimerInv, [Next]_vars PROVE TimerInv'
  OBVIOUS
<1>0. TypeOK'
  BY TimerTypeNext DEF TimerInv
<1> USE TimerAssumption
    DEF TimerInv, TypeOK, LockHeld, ListenersIn, LastLeaves, Exists, QuitJoined,
        FiringUnnotified, PendingArmed, Inside, Goto, Notify, Unlocked,
        ServiceUnlocked
<1>1. CASE Enter
  BY <1>0, <1>1 DEF Enter, Loop
<1>2. CASE WaitForReturns
  BY <1>0, <1>2 DEF WaitForReturns, Loop
<1>3. CASE Fire
  BY <1>0, <1>3 DEF Fire
<1>4. CASE WaitReturns
  BY <1>0, <1>4 DEF WaitReturns, Loop
<1>5. ASSUME NEW t \in Threads, RegisterListener(t)
      PROVE  TimerInv'
  BY <1>0, <1>5 DEF RegisterListener
<1>6. ASSUME NEW t \in Threads, UnregisterListener(t)
      PROVE  TimerInv'
  BY <1>0, <1>6 DEF UnregisterListener
<1>7. ASSUME NEW t \in Threads, Restart(t)
      PROVE  TimerInv'
  <2>1. t \in lis /\ \A u \in Threads : user[u] # "join"
    BY <1>7 DEF Restart
  <2>2. UNCHANGED <<exists, shmu, lis, user>> /\ ~quit' /\ run # "ended"
    BY <1>7, <2>1, Zenon DEF Restart
  <2>3. run' = (IF run = "none" THEN "enter" ELSE run) /\ run # "firing"
    BY <1>7 DEF Restart
  <2>4. QuitJoined'
    BY <2>1, <2>2, <2>3
  <2>5. FiringUnnotified'
    BY <2>3
  <2>6. PendingArmed'
    <3>1. run = "idle" => notified'
      BY <1>7, Zenon DEF Restart
    <3> QED BY <2>2, <2>3, <3>1 DEF RunStates
  <2> QED BY <1>0, <2>2, <2>4, <2>5, <2>6
<1>8. ASSUME NEW t \in Threads, Ignore(t)
      PROVE  TimerInv'
  BY <1>0, <1>8 DEF Ignore
<1>9. ASSUME NEW t \in Threads, StartLocked(t)
      PROVE  TimerInv'
  <2>1. /\ UNCHANGED <<exists, shmu, pending, lis>>
        /\ user[t] = "start" /\ shmu = t /\ user' = [user EXCEPT ![t] = "add"]
        /\ run' = (IF run = "none" THEN "enter" ELSE run) /\ run # "firing"
    BY <1>9 DEF StartLocked
  <2>2. \A u \in Threads \ {t} : user[u] \notin Inside /\ user'[u] = user[u]
    BY <2>1
  <2>3. ~quit' /\ run # "ended"
    BY <1>9, <2>1, <2>2, Zenon DEF StartLocked
  <2>4. QuitJoined'
    BY <2>1, <2>2, <2>3
  <2>5. FiringUnnotified'
    BY <2>1
  <2>6. PendingArmed'
    <3>1. run = "idle" => notified'
      BY <1>9, Zenon DEF StartLocked
    <3> QED BY <2>1, <2>3, <3>1 DEF RunStates
  <2>7. LockHeld' /\ ListenersIn' /\ LastLeaves' /\ Exists'
    BY <2>1, <2>2
  <2> QED BY <1>0, <2>4, <2>5, <2>6, <2>7
<1>10. ASSUME NEW t \in Threads, AddListener(t)
       PROVE  TimerInv'
  BY <1>0, <1>10 DEF AddListener
<1>11. ASSUME NEW t \in Threads, Stop(t)
       PROVE  TimerInv'
  BY <1>0, <1>11 DEF Stop
<1>12. ASSUME NEW t \in Threads, JoinAndDelete(t)
       PROVE  TimerInv'
  BY <1>0, <1>12 DEF JoinAndDelete
<1>13. CASE UNCHANGED vars
  BY <1>0, <1>13 DEF vars
<1> QED BY <1>1, <1>2, <1>3, <1>4, <1>5, <1>6, <1>7, <1>8, <1>9, <1>10, <1>11, <1>12, <1>13
        DEF Next, Run, Serving

LEMMA TimerInvariant == Spec => []TimerInv
BY TimerInvInit, TimerInvNext, PTL DEF Spec

(***************************************************************************)
(* No start() is lost: a timer that sleeps while its counter says it is    *)
(* pending is about to be woken, whether or not condition variables may    *)
(* wake by themselves.                                                     *)
(***************************************************************************)
THEOREM NoStartEverLost == Spec => []NoStartLost
<1>1. TimerInv => NoStartLost
  BY DEF TimerInv, PendingArmed, NoStartLost
<1> QED BY <1>1, TimerInvariant, PTL

(***************************************************************************)
(* Nobody uses a deleted timer, and no restart revives one being stopped.  *)
(***************************************************************************)
THEOREM AlwaysStoppedForGood == Spec => []StoppedForGood
<1>1. TimerInv => StoppedForGood
  BY DEF TimerInv, LastLeaves, Exists, QuitJoined, Inside, StoppedForGood
<1> QED BY <1>1, TimerInvariant, PTL

-------------------------------------------------------------------------------
(***************************************************************************)
(* CuTimer implements SharedTimer.                                         *)
(***************************************************************************)
LEMMA SharedInitially == Init => Shared!SharedInit
BY DEF Init, Shared!SharedInit, PhaseOf, Armed

\* shared state that a step leaves alone
LEMMA SamePhases ==
  ASSUME user' = user
  PROVE  [t \in Threads |-> PhaseOf(t)]' = [t \in Threads |-> PhaseOf(t)]
BY DEF PhaseOf

\* a thread that moves takes its phase with it
LEMMA PhaseMoves ==
  ASSUME TypeOK, NEW t \in Threads, NEW u \in UserStates, Goto(t, u)
  PROVE  [x \in Threads |-> PhaseOf(x)]' =
           [[x \in Threads |-> PhaseOf(x)] EXCEPT
              ![t] = CASE u = "add" -> "joining" [] u = "in" -> "in" [] OTHER -> "out"]
BY DEF TypeOK, Goto, PhaseOf

LEMMA SharedRun ==
  ASSUME TimerInv, ~SpuriousWakeup, Run
  PROVE  [Shared!SharedNext]_Shared!shvars
<1> DEFINE phases == [t \in Threads |-> PhaseOf(t)]
<1>1. phases' = phases
  BY SamePhases DEF Run, Enter, WaitForReturns, Fire, WaitReturns
<1>2. CASE Enter
  BY <1>1, <1>2, Zenon DEF Enter, Loop, Armed, Shared!shvars
<1>3. CASE WaitForReturns
  BY <1>1, <1>3, Zenon DEF WaitForReturns, Loop, Armed, Shared!shvars
<1>4. CASE WaitReturns
  BY <1>1, <1>4, Zenon DEF WaitReturns, Loop, Armed, Shared!shvars
<1>5. CASE Fire
  <2>1. CASE quit
    <3>1. inbox' = inbox
      BY <1>5, <2>1 DEF Fire, TimerInv, TypeOK
    <3>2. Armed' = Armed
      BY <1>5, <2>1, Zenon DEF Fire, Armed
    <3> QED BY <1>1, <3>1, <3>2 DEF Shared!shvars
  <2>2. CASE ~quit
    <3>1. Armed /\ ~Armed'
      BY <1>5, <2>2 DEF Fire, Armed, TimerInv, FiringUnnotified
    <3>2. inbox' = [t \in Threads |-> IF phases[t] = "in" THEN inbox[t] + 1 ELSE inbox[t]]
      BY <1>5, <2>2 DEF Fire, PhaseOf, TimerInv, ListenersIn
    <3> QED BY <1>1, <3>1, <3>2 DEF Shared!SharedNext, Shared!Expire
  <2> QED BY <2>1, <2>2
<1> QED BY <1>2, <1>3, <1>4, <1>5 DEF Run

LEMMA SharedUser ==
  ASSUME TimerInv, TypeOK', NEW t \in Threads,
         \/ RegisterListener(t) \/ UnregisterListener(t) \/ Restart(t) \/ Ignore(t)
         \/ Serving(t)
  PROVE  [Shared!SharedNext]_Shared!shvars
<1> DEFINE phases == [x \in Threads |-> PhaseOf(x)]
<1>0. /\ TypeOK /\ LockHeld /\ ListenersIn /\ LastLeaves /\ QuitJoined /\ PendingArmed
      /\ "start" \in UserStates /\ "add" \in UserStates /\ "in" \in UserStates
      /\ "stop" \in UserStates /\ "join" \in UserStates /\ "out" \in UserStates
  BY DEF TimerInv, UserStates
<1>1. CASE RegisterListener(t)
  <2>1. UNCHANGED <<Armed, inbox>> /\ phases[t] = "out"
    BY <1>1, Zenon DEF RegisterListener, Armed, PhaseOf
  <2>2. CASE pending = 0
    <3>1. phases' = phases
      BY <1>0, <1>1, <2>1, <2>2, PhaseMoves, ZenonT(60) DEF RegisterListener
    <3> QED BY <2>1, <3>1 DEF Shared!shvars
  <2>3. CASE pending # 0
    <3>1. phases' = [phases EXCEPT ![t] = "joining"]
      BY <1>0, <1>1, <2>3, PhaseMoves DEF RegisterListener
    <3>2. \A u \in Threads : user[u] \notin Inside
      BY <1>0, <1>1, TimerAssumption DEF RegisterListener, ServiceUnlocked, LockHeld
    <3>3. ~quit /\ run # "ended"
      BY <1>0, <3>2 DEF QuitJoined, Inside
    <3>4. Armed
      BY <1>0, <2>3, <3>2, <3>3 DEF PendingArmed, Armed, TypeOK, Inside
    <3> QED BY <2>1, <3>1, <3>4 DEF Shared!SharedNext, Shared!Come
  <2> QED BY <2>2, <2>3
<1>2. CASE UnregisterListener(t)
  <2>1. UNCHANGED <<Armed, inbox>> /\ phases[t] = "in"
    BY <1>2, Zenon DEF UnregisterListener, Armed, PhaseOf
  <2>2. phases' = [phases EXCEPT ![t] = "out"]
    BY <1>0, <1>2, PhaseMoves DEF UnregisterListener
  <2> QED BY <2>1, <2>2 DEF Shared!SharedNext, Shared!Leave
<1>3. CASE Restart(t)
  <2>1. phases' = phases /\ phases[t] = "in"
    BY <1>3, SamePhases DEF Restart, PhaseOf
  <2>2. t \in lis /\ \A u \in Threads : user[u] # "join"
    BY <1>0, <1>3 DEF Restart, ListenersIn, LastLeaves
  <2>3. run # "ended" /\ run # "firing" /\ run \in RunStates
    BY <1>0, <1>3, <2>2 DEF QuitJoined, Restart, Unlocked, TypeOK
  <2>4. Armed'
    <3>1. ~quit' /\ run' = (IF run = "none" THEN "enter" ELSE run)
      BY <1>3 DEF Restart
    <3>2. run = "idle" => notified'
      BY <1>3, Zenon DEF Restart, Notify
    <3> QED BY <2>3, <3>1, <3>2 DEF Armed, RunStates
  <2>5. inbox[t] > 0 /\ inbox' = [inbox EXCEPT ![t] = @ - 1]
    BY <1>3 DEF Restart
  <2>6. Shared!Handled(t)
    BY <2>5 DEF Shared!Handled
  <2> QED BY <2>1, <2>4, <2>6, Zenon DEF Shared!SharedNext, Shared!Restart
<1>4. CASE Ignore(t)
  <2>1. phases' = phases
    BY <1>4, SamePhases DEF Ignore
  <2>2. Armed' = Armed
    BY <1>4, Zenon DEF Ignore, Armed
  <2>3. Shared!Handled(t)
    BY <1>4 DEF Ignore, Shared!Handled
  <2> QED BY <2>1, <2>2, <2>3 DEF Shared!SharedNext, Shared!Ignore
<1>5. CASE StartLocked(t)
  <2>1. phases' = [phases EXCEPT ![t] = "joining"] /\ phases[t] = "out"
    BY <1>0, <1>5, PhaseMoves DEF StartLocked, PhaseOf
  <2>2. run # "ended" /\ run # "firing" /\ run \in RunStates
    <3>1. shmu = t
      BY <1>0, <1>5 DEF StartLocked, LockHeld, Inside
    <3>2. \A u \in Threads : user[u] # "join"
      BY <1>0, <1>5, <3>1 DEF StartLocked, LockHeld, Inside
    <3> QED BY <1>0, <1>5, <3>2 DEF QuitJoined, StartLocked, Unlocked, TypeOK
  <2>3. Armed'
    <3>1. ~quit' /\ run' = (IF run = "none" THEN "enter" ELSE run)
      BY <1>5 DEF StartLocked
    <3>2. run = "idle" => notified'
      BY <1>5, Zenon DEF StartLocked, Notify
    <3> QED BY <2>2, <3>1, <3>2 DEF Armed, RunStates
  <2>4. inbox' = inbox
    BY <1>5 DEF StartLocked
  <2> QED BY <2>1, <2>3, <2>4, Zenon DEF Shared!SharedNext, Shared!Come
<1>6. CASE AddListener(t)
  <2>1. phases' = [phases EXCEPT ![t] = "in"] /\ phases[t] = "joining"
    BY <1>0, <1>6, PhaseMoves DEF AddListener, PhaseOf
  <2>2. UNCHANGED <<Armed, inbox>>
    BY <1>6, Zenon DEF AddListener, Armed
  <2> QED BY <2>1, <2>2 DEF Shared!SharedNext, Shared!Join
<1>7. CASE Stop(t) \/ JoinAndDelete(t)
  <2>1. user[t] \in {"stop", "join"} /\ lis = {}
    BY <1>0, <1>7 DEF Stop, JoinAndDelete, LastLeaves
  <2>2. \A u \in Threads : phases[u] = "out"
    <3>1. \A u \in Threads : user[u] # "in"
      BY <1>0, <2>1 DEF ListenersIn
    <3>2. \A u \in Threads : user[u] = "add" => u = t
      BY <1>0, <2>1 DEF LockHeld, Inside
    <3> QED BY <2>1, <3>1, <3>2 DEF PhaseOf
  <2>3. phases' = phases
    <3>1. phases[t] = "out"
      BY <2>2
    <3>2. phases' = [phases EXCEPT ![t] = "out"]
      BY <1>0, <1>7, PhaseMoves DEF Stop, JoinAndDelete
    <3> QED BY <3>1, <3>2
  <2>4. ~Armed'
    BY <1>7 DEF Stop, JoinAndDelete, Armed
  <2>5. inbox' \in {inbox, [u \in Threads |-> 0]}
    BY <1>7 DEF Stop, JoinAndDelete
  <2> QED BY <2>2, <2>3, <2>4, <2>5 DEF Shared!SharedNext, Shared!Dispose
<1> QED BY <1>1, <1>2, <1>3, <1>4, <1>5, <1>6, <1>7 DEF Serving

(***************************************************************************)
(* The timer is the single-shot timer its users rely on, as long as the    *)
(* condition variable m_wait does not wake by itself: each expiry is told  *)
(* once to every listener, and whoever comes or restarts finds it armed.   *)
(***************************************************************************)
THEOREM TimerImplementsShared ==
  ASSUME ~SpuriousWakeup
  PROVE  Spec => SharedTimerKept
<1>1. Init => Shared!SharedInit
  BY SharedInitially
<1>2. TimerInv /\ TypeOK' /\ [Next]_vars => [Shared!SharedNext]_Shared!shvars
  <2> SUFFICES ASSUME TimerInv, TypeOK', [Next]_vars
               PROVE  [Shared!SharedNext]_Shared!shvars
    OBVIOUS
  <2>1. CASE UNCHANGED vars
    BY <2>1, SamePhases DEF vars, Armed, Shared!shvars
  <2> QED BY <2>1, SharedRun, SharedUser DEF Next
<1> QED BY <1>1, <1>2, TimerInvariant, TimerTypeCorrect, PTL
        DEF Spec, SharedTimerKept, Shared!SharedSpec
===============================================================================
