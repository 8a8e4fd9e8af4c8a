-------------------------- MODULE CuThreadLifecycle --------------------------
(***************************************************************************)
(* CuThread implements ActivityLifecycle.  An activity is running while a  *)
(* thread has it in its activity_set; it is idle while the event that      *)
(* starts it is queued; it has exited when it is neither.                  *)
(***************************************************************************)
EXTENDS CuThread

Running(a) == \E t \in Threads : a \in activity_set[t]

Waiting(a) ==
  \/ life[a] = "new"
  \/ \E t \in Threads : \E i \in DOMAIN eq[t] :
       eq[t][i].type = "Register" /\ eq[t][i].a = a

WorkerOf(a) == IF Running(a) THEN "running" ELSE IF Waiting(a) THEN "idle" ELSE "exited"

Lifecycle == INSTANCE ActivityLifecycle WITH
  client <- life,
  worker <- [a \in Activities |-> WorkerOf(a)],
  deleted <- [a \in Activities |-> freed[a] > 0],
  closing <- mpc \in {"finish", "ended"}

(***************************************************************************)
(* Every step of the engine is a step of the promised life cycle or leaves *)
(* it alone.                                                               *)
(***************************************************************************)
LifecycleKept == Lifecycle!LifecycleSpec
===============================================================================
