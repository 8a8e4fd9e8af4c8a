------------------------------ MODULE SharedTimer ------------------------------
(***************************************************************************)
(* What the threads that share a single-shot timer rely on: each expiry is *)
(* told once to every listener; the timer expires only if a newcomer or a  *)
(* listener armed it since the last expiry; whoever comes finds it armed   *)
(* or arms it, and whoever restarts it has it armed.  A newcomer joins the *)
(* listeners only later, possibly after the timeout has expired.           *)
(***************************************************************************)
EXTENDS Naturals

CONSTANT Threads

VARIABLES
  phase,  \* per thread: "out", "joining", "in"
  armed,  \* a timeout will expire
  told    \* per thread: expiries not yet handled

shvars == <<phase, armed, told>>

SharedInit ==
  /\ phase = [t \in Threads |-> "out"] /\ armed = FALSE
  /\ told = [t \in Threads |-> 0]

Come(t) ==
  /\ phase[t] = "out"
  /\ phase' = [phase EXCEPT ![t] = "joining"]
  /\ armed' = TRUE
  /\ UNCHANGED told

Join(t) ==
  /\ phase[t] = "joining"
  /\ phase' = [phase EXCEPT ![t] = "in"]
  /\ UNCHANGED <<armed, told>>

Leave(t) ==
  /\ phase[t] = "in"
  /\ phase' = [phase EXCEPT ![t] = "out"]
  /\ UNCHANGED <<armed, told>>

\* nobody uses the timer: it is disposed of, with or without its last expiries
Dispose ==
  /\ \A t \in Threads : phase[t] = "out"
  /\ armed' = FALSE
  /\ told' \in {told, [t \in Threads |-> 0]}
  /\ UNCHANGED phase

Expire ==
  /\ armed /\ armed' = FALSE
  /\ told' = [t \in Threads |-> IF phase[t] = "in" THEN told[t] + 1 ELSE told[t]]
  /\ UNCHANGED phase

Handled(t) == told[t] > 0 /\ told' = [told EXCEPT ![t] = @ - 1]

\* the listener wants the next expiry
Restart(t) == Handled(t) /\ phase[t] = "in" /\ armed' = TRUE /\ UNCHANGED phase

\* nothing in the thread waits for the timer any more
Ignore(t) == Handled(t) /\ UNCHANGED <<phase, armed>>

SharedNext ==
  \/ \E t \in Threads : Come(t) \/ Join(t) \/ Leave(t) \/ Restart(t) \/ Ignore(t)
  \/ Dispose \/ Expire

SharedSpec == SharedInit /\ [][SharedNext]_shvars
===============================================================================
