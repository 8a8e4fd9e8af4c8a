------------------------------ MODULE CuMonitor ------------------------------
(***************************************************************************)
(* The readers of two engines built alike: CuRNDActionReader of the random *)
(* engine and CuMonitor of EPICS.  A reader serves the listeners of one    *)
(* source with an activity of its own.  Without listeners it stops: its    *)
(* activity is unregistered, and it waits for a last result, with the key  *)
(* "exit", to delete itself and leave the list of the factory service.     *)
(* That result does not come: EPICS does not publish it, and the random    *)
(* activity does when it is no more registered, so that the core drops it. *)
(* A stopped reader therefore stays in the list for ever, in the model as  *)
(* in the code.                                                            *)
(*                                                                         *)
(* All the activities of an engine share one thread: the monitors have one *)
(* token, and the random readers an empty one, unless an option names it.  *)
(* Of the core (module CuThread) this uses that events and results keep    *)
(* their order and that results of unregistered activities are dropped.    *)
(***************************************************************************)
EXTENDS Naturals, Sequences, FiniteSets, SequencesExt

CONSTANTS
  Engines,            \* subset of {"random", "epics"}
  MonitorSources, MonitorListeners,
  MaxMonitors,        \* readers made in a run
  NoMonitor

ASSUME MonitorAssumption ==
  /\ Engines \subseteq {"random", "epics"}
  /\ MaxMonitors \in Nat
  /\ NoMonitor \notin MonitorSources \union MonitorListeners

VARIABLES
  engine,      \* never changes
  monitors,    \* the list of the factory service
  listensTo,   \* the source of each listener
  orders,      \* events on their way to the thread
  running,     \* the readers whose activity runs in the thread
  channel,     \* EPICS: the readers with a channel in the context of the thread
  answers,     \* results on their way to the main thread
  answering,   \* the result being delivered: who is still to be told
  answered,    \* the listener being told
  corrupted    \* an undefined operation on a list was executed
monitorVars == <<engine, monitors, listensTo, orders, running, channel, answers,
                 answering, answered, corrupted>>

Made == 1..Len(monitors)
ActiveOf(s) == {m \in Made : monitors[m].src = s /\ ~monitors[m].exit}

\* From the event loop, or a listener from its own onUpdate.
MonitorTurn(l) == (answering = {} /\ answered = NoMonitor) \/ answered = l

-----------------------------------------------------------------------------
(* The engine: addAction, unlinkListener                                   *)

\* Any reader of the source is taken, even if it is stopped.
BugFindActive(s) == {m \in Made : monitors[m].src = s}
FindActive(s) == ActiveOf(s)

\* CumbiaRandom::addAction, CumbiaEpics::addAction, and the reader's start
AddMonitor(s, l) ==
  /\ MonitorTurn(l) /\ listensTo[l] = NoMonitor
  /\ listensTo' = [listensTo EXCEPT ![l] = s]
  /\ \/ \E m \in FindActive(s) :
          /\ monitors' = [monitors EXCEPT ![m].lis = @ \union {l}]
          /\ UNCHANGED orders
     \/ /\ FindActive(s) = {} /\ Len(monitors) < MaxMonitors
        /\ monitors' = Append(monitors, [src |-> s, exit |-> FALSE, lis |-> {l}])
        /\ orders' = Append(orders, [ev |-> "register", m |-> Len(monitors) + 1])
  /\ UNCHANGED <<engine, running, channel, answers, answering, answered, corrupted>>

\* The reader stops with the first listener that leaves.
BugWithout(m, l) ==
  LET lis == monitors[m].lis \ {l} IN [monitors[m] EXCEPT !.lis = lis, !.exit = TRUE]

\* stop: once, when the last listener leaves
Without(m, l) ==
  LET lis == monitors[m].lis \ {l}
  IN  [monitors[m] EXCEPT !.lis = lis, !.exit = @ \/ lis = {}]

\* unlinkListener asks every reader of the source, also those that are
\* stopped.  A CuMonitor that does not have the listener erases the end of
\* its list.
RemoveMonitor(l) ==
  /\ MonitorTurn(l) /\ listensTo[l] # NoMonitor
  /\ LET of == {m \in Made : monitors[m].src = listensTo[l]}
         stopped == {m \in of : ~monitors[m].exit /\ monitors[m].lis \subseteq {l}}
     IN /\ monitors' = [m \in Made |-> IF m \in of THEN Without(m, l) ELSE monitors[m]]
        /\ orders' = orders \o SetToSeq({[ev |-> "unregister", m |-> m] : m \in stopped})
        /\ corrupted' = (engine = "epics" /\ \E m \in of : l \notin monitors[m].lis)
  /\ listensTo' = [listensTo EXCEPT ![l] = NoMonitor]
  /\ UNCHANGED <<engine, running, channel, answers, answering, answered>>

-----------------------------------------------------------------------------
(* The activities                                                          *)

\* init publishes a first result.
BeginTask(m) ==
  /\ running' = running \union {m}
  /\ channel' = IF engine = "epics" THEN channel \union {m} ELSE channel
  /\ answers' = Append(answers, m)

\* onExit.  The EPICS context is the thread's: all the monitors lose their
\* channels.
EndTask(m) ==
  /\ running' = running \ {m}
  /\ channel' = {}
  /\ answers' = IF engine = "random" THEN Append(answers, m) ELSE answers

HandleOrder ==
  /\ orders # <<>> /\ orders' = Tail(orders)
  /\ LET o == Head(orders)
     IN IF o.ev = "register" THEN BeginTask(o.m) ELSE EndTask(o.m)
  /\ UNCHANGED <<engine, monitors, listensTo, answering, answered, corrupted>>

\* execute of the random activity, or an event of the monitor; it waits while
\* an earlier result is queued, which is a bound of the model.
PublishTask(m) ==
  /\ m \in running /\ ~Contains(answers, m)
  /\ engine = "epics" => m \in channel
  /\ answers' = Append(answers, m)
  /\ UNCHANGED <<engine, monitors, listensTo, orders, running, channel, answering,
                 answered, corrupted>>

-----------------------------------------------------------------------------
(* Results, in the main thread                                             *)

\* onResult, for a copy of the listeners; none if the activity is unregistered
OnMonitorResult ==
  /\ answers # <<>> /\ answering = {} /\ answered = NoMonitor
  /\ answers' = Tail(answers)
  /\ LET m == monitors[Head(answers)]
     IN answering' = IF m.exit THEN {} ELSE m.lis
  /\ UNCHANGED <<engine, monitors, listensTo, orders, running, channel, answered, corrupted>>

TellMonitorListener ==
  /\ \E l \in answering : answered' = l /\ answering' = answering \ {l}
  /\ UNCHANGED <<engine, monitors, listensTo, orders, running, channel, answers, corrupted>>

EndMonitorResult ==
  /\ answering = {} /\ answered # NoMonitor
  /\ answered' = NoMonitor
  /\ UNCHANGED <<engine, monitors, listensTo, orders, running, channel, answers, answering, corrupted>>

MonitorLoop == OnMonitorResult \/ TellMonitorListener \/ EndMonitorResult

-----------------------------------------------------------------------------
InitMonitor ==
  /\ engine \in Engines
  /\ monitors = <<>> /\ orders = <<>> /\ running = {} /\ channel = {} /\ answers = <<>>
  /\ listensTo = [l \in MonitorListeners |-> NoMonitor]
  /\ answering = {} /\ answered = NoMonitor /\ corrupted = FALSE

NextMonitor ==
  /\ ~corrupted
  /\ \/ MonitorLoop
     \/ \E l \in MonitorListeners :
          RemoveMonitor(l) \/ \E s \in MonitorSources : AddMonitor(s, l)
     \/ HandleOrder \/ \E m \in Made : PublishTask(m)

SpecMonitor == InitMonitor /\ [][NextMonitor]_monitorVars
FairMonitor ==
  /\ WF_monitorVars(MonitorLoop) /\ WF_monitorVars(HandleOrder)
  /\ \A m \in 1..MaxMonitors : WF_monitorVars(PublishTask(m))

-----------------------------------------------------------------------------
(* Properties                                                              *)

\* A listener is served by one reader of its source, which is not stopping
\* and whose activity is registered; a stopped reader, in the list for ever,
\* serves nobody and is never started again (cumbiarandom.cpp:46-51).
MonitorServes ==
  /\ \A l \in MonitorListeners : listensTo[l] # NoMonitor =>
       /\ Cardinality(ActiveOf(listensTo[l])) = 1
       /\ {m \in Made : l \in monitors[m].lis} = ActiveOf(listensTo[l])
  /\ \A m \in Made :
       LET Ordered(ev) == Contains(orders, [ev |-> ev, m |-> m])
       IN  /\ monitors[m].exit = (monitors[m].lis = {})
           /\ monitors[m].exit = (Ordered("unregister") \/ (m \notin running /\ ~Ordered("register")))

\* A listener of the random engine is told again and again until it leaves,
\* though the reader it finds may be stopping and stopped readers of the
\* same source stay in the list.
RandomListenersTold ==
  \A l \in MonitorListeners :
    engine = "random" /\ listensTo[l] # NoMonitor ~> answered = l \/ listensTo[l] = NoMonitor
=============================================================================
