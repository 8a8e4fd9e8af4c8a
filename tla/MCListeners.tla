------------------------------ MODULE MCListeners ------------------------------
(***************************************************************************)
(* Who asks for data is told: the readers and the one-shot actions of the  *)
(* Tango engine, the random and EPICS engines, the HTTP engine, one at a   *)
(* time.  A behaviour is of the engine in focus, and the others stay where *)
(* they start: they share nothing that their properties are about, so that *)
(* to interleave them would add states and no behaviour.                   *)
(***************************************************************************)
EXTENDS CuTReader, CuHttp, CuMonitor, CuTOneShot

CONSTANTS s1, d1, l1, l2

VARIABLE focus     \* never changes

OneDevice == [s \in Sources |-> d1]
\* Changes of mode after which a reader does not remember an event activity it
\* has left, and is not added twice to a poller: see README, divergences.
SafeSwitches == {<<"Polled", "Change", {NoPeriod}>>, <<"Polled", "Manual", {NoPeriod}>>,
                 <<"Manual", "Polled", {1}>>}

Init ==
  /\ focus \in {"reader", "http", "monitor", "oneshot"}
  /\ InitReader /\ (focus # "reader" => defined = {})
  /\ InitHttp
  /\ InitMonitor /\ (focus # "monitor" => engine = "random")
  /\ InitOneShot

Next ==
  \/ /\ focus = "reader" /\ NextReader
     /\ UNCHANGED <<focus, httpVars, monitorVars, oneShotVars>>
  \/ /\ focus = "http" /\ NextHttp
     /\ UNCHANGED <<focus, readerVars, monitorVars, oneShotVars>>
  \/ /\ focus = "monitor" /\ NextMonitor
     /\ UNCHANGED <<focus, readerVars, httpVars, oneShotVars>>
  \/ /\ focus = "oneshot" /\ NextOneShot
     /\ UNCHANGED <<focus, readerVars, httpVars, monitorVars>>

\* Nothing that must happen is enabled where an engine starts: the fairness of
\* the engines that are not in focus asks nothing.
Spec ==
  /\ Init
  /\ [][Next]_<<focus, readerVars, httpVars, monitorVars, oneShotVars>>
  /\ FairReader /\ FairHttp /\ FairMonitor /\ FairOneShot
=============================================================================
