------------------------------- MODULE MCEngines -------------------------------
(***************************************************************************)
(* The safety of the engines: the Tango engine's readers, one-shot         *)
(* actions, devices and polling activities, the random, EPICS, HTTP        *)
(* and WebSocket engines, the formula reader, the trend plot and the       *)
(* sharing of data, one at a time.  A behaviour is of the component in     *)
(* focus, and the others stay where they start: they share nothing that    *)
(* their properties are about, so that to interleave them would add states *)
(* and no behaviour.                                                       *)
(***************************************************************************)
EXTENDS CuTReader, CuTOneShot, CuTDevices, CuPollingActivity, CuMonitor, CuHttp,
        CuFormulaReader, CuData, CuWebSocket, CuPlot, TLC

CONSTANTS s1, s2, d1, c1, c2, x1, x2, x3, x4, h1, h2, h3

VARIABLE focus     \* never changes

OneDevice == [s \in Sources |-> d1]
\* Changes of mode after which a reader does not remember an event activity it
\* has left, and is not added twice to a poller: see README, divergences.
SafeSwitches == {<<"Polled", "Change", {NoPeriod}>>, <<"Polled", "Manual", {NoPeriod}>>,
                 <<"Manual", "Polled", {1}>>}
AllKinds == x1 :> "poll" @@ x2 :> "event" @@ x3 :> "config" @@ x4 :> "write"
TwoSourceFormulas == {<<>>, <<c1>>, <<c2>>, <<c1, c2>>, <<c2, c1>>}

\* The sources of CuTReader: nothing else refers to them.
Symmetric == Permutations(Sources)

Init ==
  /\ focus \in {"reader", "oneshot", "devices", "polling", "monitor", "http", "formula", "data",
            "websocket", "plot"}
  /\ InitReader /\ (focus # "reader" => defined = {})
  /\ InitDevices /\ (focus # "devices" => database = {})
  /\ InitPolling
  /\ focus # "polling" => devDefined /\ data_updpo = [policy |-> "always", skip |-> FALSE]
  \* "always" is asked for without skip only
  /\ data_updpo # [policy |-> "always", skip |-> TRUE]
  /\ InitMonitor /\ (focus # "monitor" => engine = "random")
  /\ InitOneShot /\ InitHttp /\ InitFormula /\ InitData /\ InitWs /\ InitPlot

Next ==
  \/ /\ focus = "reader" /\ NextReader
     /\ UNCHANGED <<focus, oneShotVars, devicesVars, pollingVars,
                    monitorVars, httpVars, formulaVars, dataVars,
                    wsVars, plotVars>>
  \/ /\ focus = "oneshot" /\ NextOneShot
     /\ UNCHANGED <<focus, readerVars, devicesVars, pollingVars,
                    monitorVars, httpVars, formulaVars, dataVars,
                    wsVars, plotVars>>
  \/ /\ focus = "devices" /\ NextDevices
     /\ UNCHANGED <<focus, readerVars, oneShotVars, pollingVars,
                    monitorVars, httpVars, formulaVars, dataVars,
                    wsVars, plotVars>>
  \/ /\ focus = "polling" /\ NextPolling
     /\ UNCHANGED <<focus, readerVars, oneShotVars, devicesVars,
                    monitorVars, httpVars, formulaVars, dataVars,
                    wsVars, plotVars>>
  \/ /\ focus = "monitor" /\ NextMonitor
     /\ UNCHANGED <<focus, readerVars, oneShotVars, devicesVars,
                    pollingVars, httpVars, formulaVars, dataVars,
                    wsVars, plotVars>>
  \/ /\ focus = "http" /\ NextHttp
     /\ UNCHANGED <<focus, readerVars, oneShotVars, devicesVars,
                    pollingVars, monitorVars, formulaVars, dataVars,
                    wsVars, plotVars>>
  \/ /\ focus = "formula" /\ NextFormula
     /\ UNCHANGED <<focus, readerVars, oneShotVars, devicesVars,
                    pollingVars, monitorVars, httpVars, dataVars,
                    wsVars, plotVars>>
  \/ /\ focus = "data" /\ NextData
     /\ UNCHANGED <<focus, readerVars, oneShotVars, devicesVars,
                    pollingVars, monitorVars, httpVars, formulaVars,
                    wsVars, plotVars>>
  \/ /\ focus = "websocket" /\ NextWs
     /\ UNCHANGED <<focus, readerVars, oneShotVars, devicesVars,
                    pollingVars, monitorVars, httpVars, formulaVars,
                    dataVars, plotVars>>
  \/ /\ focus = "plot" /\ NextPlot
     /\ UNCHANGED <<focus, readerVars, oneShotVars, devicesVars,
                    pollingVars, monitorVars, httpVars, formulaVars,
                    dataVars, wsVars>>

Spec ==
  Init /\ [][Next]_<<focus, readerVars, oneShotVars, devicesVars,
                     pollingVars, monitorVars, httpVars, formulaVars,
                     dataVars, wsVars, plotVars>>

-----------------------------------------------------------------------------
\* CopyOnWrite, asked of the steps of CuData: of the others it says nothing.
CopiesIndependent ==
  Copies!Init /\ [][focus = "data" => [Copies!Next]_Held]_<<focus, dataVars>>
=============================================================================
