-------------------------- MODULE ActivityLifecycle --------------------------
(***************************************************************************)
(* What the engine promises about an activity, with no thread, queue or    *)
(* event in it: once registered it is initialised in the background; it is *)
(* told to exit only after its client unregistered it or the application   *)
(* is closing; and it is deleted only after it has exited.                 *)
(***************************************************************************)
CONSTANT Activities

VARIABLES
  client,   \* "new", "registered", "unregistered"
  worker,   \* "idle", "running" (between init and onExit), "exited"
  deleted,  \* the activity object is gone
  closing   \* the application has left its event loop

lifevars == <<client, worker, deleted, closing>>

LifecycleInit ==
  /\ client = [a \in Activities |-> "new"]
  /\ worker = [a \in Activities |-> "idle"]
  /\ deleted = [a \in Activities |-> FALSE]
  /\ closing = FALSE

Register(a) ==
  /\ client[a] = "new" /\ ~closing
  /\ client' = [client EXCEPT ![a] = "registered"]
  /\ UNCHANGED <<worker, deleted, closing>>

Unregister(a) ==
  /\ client[a] = "registered" /\ ~closing
  /\ client' = [client EXCEPT ![a] = "unregistered"]
  /\ UNCHANGED <<worker, deleted, closing>>

Begin(a) ==
  /\ client[a] # "new" /\ worker[a] = "idle" /\ ~deleted[a]
  /\ worker' = [worker EXCEPT ![a] = "running"]
  /\ UNCHANGED <<client, deleted, closing>>

End(a) ==
  /\ worker[a] = "running" /\ ~deleted[a]
  /\ client[a] = "unregistered" \/ closing
  /\ worker' = [worker EXCEPT ![a] = "exited"]
  /\ UNCHANGED <<client, deleted, closing>>

Close == closing' = TRUE /\ UNCHANGED <<client, worker, deleted>>

\* finish deletes at once all the activities of a thread
Delete(S) ==
  /\ \A a \in S : worker[a] = "exited" /\ ~deleted[a]
  /\ deleted' = [a \in Activities |-> a \in S \/ deleted[a]]
  /\ UNCHANGED <<client, worker, closing>>

LifecycleNext ==
  \/ \E a \in Activities : Register(a) \/ Unregister(a) \/ Begin(a) \/ End(a)
  \/ Close
  \/ \E S \in SUBSET Activities : Delete(S)

LifecycleSpec == LifecycleInit /\ [][LifecycleNext]_lifevars
===============================================================================
