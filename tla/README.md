# Formal models of cumbia

TLA+ modules that model the core of cumbia (`src/cumbia/src/lib`) and the
libraries built on it (Tango, EPICS, random, HTTP, WebSocket, formulas, the trend
plot), TLC configurations
that check them on small instances, and theorems proved with TLAPS for every
instance.

Contents: [the system](#the-system), [the modules](#the-modules),
[the runs](#the-runs), [fairness](#fairness), [the proofs](#the-proofs),
[divergences](#divergences), [bounds and abstractions](#bounds-and-abstractions),
[not modelled](#what-is-not-modelled), [the plan](#the-plan).

## The system

cumbia runs *activities* (reading a value, polling a device, writing) in
background threads and delivers their results in the main thread. The libraries
above it (Tango, EPICS, HTTP, WebSocket, random, formulas, Qt widgets) are made
of such activities and of the objects that register them.

### Components of the core

| component | state | operations | what makes it correct |
|---|---|---|---|
| `Cumbia` | the list of threads, the services | `registerActivity`, `unregisterActivity`, `postEvent` and its wrappers (pause, resume, period), `finish` | an activity is started, stopped and deleted once, in this order; `finish` ends every thread |
| `CuActivityManager` | the links (activity, listener, thread) | add, disconnect, find | one thread per activity; agrees with what each thread keeps |
| `CuThreadService` | the threads that take new activities | `getThread`, `removeThread` | one thread per token; never hands out a thread that is ending |
| `CuThread`, main thread side | `alimmap`: the activities served and their listeners | `registerActivity`, `unregisterActivity`, `exit`, `wait`, `onEventPosted` | listeners are told of results; the thread is destroyed after its last activity |
| `CuThread::run` | queue of thread events, `activity_set`, `tmr_amap` | one handler per event | every periodic activity is served by a timer; the timers are left before the thread ends |
| `CuPeriodicActivity` | period, paused | `repeat`, `setInterval`, `event` | a pause ends with a resume |
| `CuEventLoopService`, `CuThreadsEventBridge` | queue of events, set of listeners | `postEvent`, `run`, `exit` | no exit event is dropped while the loop runs |
| `CuTimerService` | timers by timeout, listeners of each | `registerListener`, `unregisterListener`, `restart` | one timer per timeout, deleted by its last listener |
| `CuTimer` | `m_pending`, `m_skip`, `m_quit`, listeners | `start`, `restart`, `stop`, `run` | no start and no restart is lost; each expiry is told once; `stop` returns |
| `CuData`, `CuVariant` | a pointer to shared data with a counter | constructors, assignments, `clone`, `detach` | a copy is a value of its own; shared data are deleted by the last that refers to them |

### Components above the core

| component | state | operations | what makes it correct |
|---|---|---|---|
| Tango reader (`CuTReader`) | mode, period, event activity, listeners | start, stop, `setRefreshMode`, `sendData`, fall back to polling | one source of data at a time; listeners are told |
| `CuPollingService`, `CuPoller` | pollers by period; readers by source, one activity per device | register, unregister, tell the readers | calls only readers in use; the activity reads what was asked |
| `CuPollingActivity` | the lists of attributes and commands, those for later, cached values, error count, period | `event`, `execute` | nothing added is forgotten; a new value is sent; the period follows the errors |
| Tango devices | `TDevice`s by thread and device, counted | `getDevice`, `removeRef` | none is deleted in use, or kept |
| `CuTWriter`, `CuTConfiguration`, `CuTaDb` | listeners, one activity; registries of the factory services | add, stop, one result | whoever asks is told, once |
| EPICS monitor, random reader | list of readers, exit flag, activity | add, remove, start, stop | a listener is served by one reader |
| HTTP engine | queue of requests, wait maps, client id, login, channel | set and unset source, write, answers | whoever asks is told; nobody who left is |
| WebSocket engine | list of actions, queues of the client | add and unlink listeners, messages | a source has one active reader; the server is subscribed to what has listeners |
| Trend plot (`QuTrendPlot`) | readers of its `CuContext`, curves, their points, the buffer | sources, live values, history, notes, vectors | a curve shows the latest of what was received for its source, live values in the order they came |
| Formula reader | values of the sources, watchers, threads of constant formulas | set source, data, results | what is shown is computed from the last good values, read since the formula was set |

### How they interact

- The **main thread** calls `Cumbia`, which writes the links, the threads of the
  service and each `alimmap` (no lock: one thread), and pushes events to the
  queue of a `CuThread` (under its mutex).
- A **background thread** takes these events one by one, calls the hooks of the
  activity (`init`, `execute`, `onExit`) and posts results and exit events to the
  event loop through its bridge.
- The **event loop**, in the main thread, takes all the queued events at once and
  calls `CuThread::onEventPosted`, which calls the listeners; these may call
  `Cumbia` again, in the middle of the batch.
- **Timers** are threads of their own, shared by all the `CuThread`s that use the
  same timeout. They are single shot: an expiry pushes `TimerExpired` to every
  listener, and the listeners restart the timer. The service's mutex (`shmu`) and
  the timer's (`m_mutex`) protect registration and the protocol inside one timer;
  `restart` does not take `shmu`.

The libraries use the core through `Cumbia`: a reader registers an activity with
itself as listener, posts events to it and unregisters it. A Tango reader does
so with its own event activity, or asks `CuPollingService` for the poller of its
period, whose activities it shares with the other readers of that period. A
poller tells its readers, and they their listeners, from within
`onResult`; a listener may add or remove sources, or send data to a reader, from
there. The factory services keep the readers and actions by source. Tango activities
take a `TDevice` for their thread and device. The HTTP engine has no
activities: it lives in Qt's event loop, with a timer and network replies; so does the
WebSocket engine, with a socket and a timer. A plot has one reader for each source, of any
engine, in its `CuContext`, and gives what they tell it to the curve of the source. The
results of all are `CuData`, which pass from thread to thread by sharing.

The end of a thread is a round trip: the main thread unregisters the last
activity and takes the thread out of the service; the thread exits the activity
and posts an exit event; the main thread finds `alimmap` empty and pushes
`ZeroActivities`; the thread leaves its loop, drains its queue, exits what is
left, posts `AutoDestroy`; the main thread joins and deletes it.

### What is hard

The interleavings of these four kinds of threads, and in particular: a
registration that races the round trip above; the copies of the same
links; an event that names an activity, thread or timer deleted meanwhile; a
shared timer that expires between `start()` and `addListener()`; pause, period
change and exit of activities sharing a timer; leaving the event loop, and
`finish`, at any moment. Above the core: callbacks that change the very structure that
is calling them; results of activities that were replaced; modes changed while a
subscription fails; actions joined when their only result is already on its way; answers that
come in any order and are matched by name; the three steps of a copy on
write. `PROJECT.json` lists each at its line ("hazards") with
the properties aimed at it.

## The modules

| module | models | lines of |
|---|---|---|
| `CuThread` | the engine: `Cumbia`, `CuActivityManager`, `CuThreadService`, `CuThread`, the event loop, `CuPeriodicActivity` | cumbia.cpp, cuactivitymanager.cpp, cuthreadservice.cpp, cuthread.cpp, cueventloop.cpp, cuperiodicactivity.cpp |
| `CuTimerService` | the timers as the engine sees them (extended by `CuThread`) | cutimerservice.cpp, cutimer.cpp |
| `ActivityLifecycle` | abstract: what an activity is promised | |
| `CuThreadLifecycle` | `CuThread` implements `ActivityLifecycle` (refinement mapping) | |
| `CuTimer` | the protocol inside one timer: locks, condition variable, counters | cutimer.cpp, cutimerservice.cpp |
| `SharedTimer` | abstract: what the users of a shared timer rely on; `CuTimer` implements it | |
| `CuData` | implicit sharing of data between threads | cudata.cpp |
| `DataCopies` | abstract: every `CuData` is a value of its own; `CuData` implements it | |
| `CuTReader` | Tango readers, pollers, the polling service, event activities, `CumbiaTango` | cutreader.cpp, cupoller.cpp, cupollingservice.cpp, cueventactivity.cpp, cupollingactivity.cpp, cumbiatango.cpp |
| `CuPollingActivity` | what one polling activity keeps and sends, its period | cupollingactivity.cpp, cutango-world.cpp |
| `CuTDevices` | the devices activities share | cutthreaddevices.cpp, cudevicefactoryservice.cpp, tdevice.cpp, cuwriteactivity.cpp |
| `CuTOneShot` | writer, configuration, database action and their registries | cutwriter.cpp, cutconfiguration.cpp, cutadb.cpp, cuactionfactoryservice_impls.cpp, cutconfigactivity.cpp |
| `CuMonitor` | random reader and EPICS monitor | curndactionreader.cpp, curandomgenactivity.cpp, cumonitor.cpp, cumonitoractivity.cpp, cumbiarandom.cpp, cumbiaepics.cpp |
| `CuHttp` | HTTP readers and writers, requests, answers, channel | cuhttpsrcman.cpp, cumbiahttp.cpp, cuhttpcliidman.cpp, cuhttpchannelreceiver.cpp, cuhttpcontrolsreader.cpp, cuhttpcontrolswriter.cpp |
| `CuWebSocket` | WebSocket actions, their registry, the client of the socket, readers and writers | cumbiawebsocket.cpp, cuwsclient.cpp, cuwsaction*.cpp, cuwscontrols*.cpp |
| `CuPlot` | sources, curves and points of a trend plot | qutrendplot.cpp, quplotcommon.cpp, cucontext.cpp, quplot_base.cpp, quplotcurve.cpp, ecurvedata.cpp |
| `CuFormulaReader` | a reader of a formula | cuformulareader.cpp, simpleformulaeval.cpp |
| `MCCuThread`, `MCCuTimer`, `MCCuTReader` | instances for TLC | |
| `MCEngines`, `MCListeners` | the components above the core put together for TLC | |
| `CuThreadProofs`, `CuThreadLifecycleProofs`, `CuThreadTimersProofs` | theorems about `CuThread`, each module on the invariant of the one before | |
| `Selection` | the elements of a sequence at some of its places, in their order: what the code's loops that erase and filter compute | |
| `CuTimerProofs`, `CuDataProofs`, `CuTReaderProofs` | theorems about the module of that name | |
| `CuEnginesProofs` | theorems about `CuFormulaReader`, `CuPollingActivity` (its period), `CuMonitor`, `CuTOneShot`, `CuTDevices` | |
| `CuQueuesProofs` | theorems about `Selection` and the components whose state is sequences: `CuPollingActivity`, `CuHttp`, `CuWebSocket`, `CuPlot` | |

State and actions keep the names of the code where they can. In `CuThread`:

- *main thread*: `mpc` is where it is (`exec`: the loop of
  `CuEventLoopService::run`; `leaving`: `CuExitLoopEv` was seen, the rest of the
  batch is still dispatched; `finish`; `ended`). `conn` are the links,
  `qcopy` the batch taken from `loopq`, `calls` the listeners still to be called
  for the event being dispatched. `Client` actions (`RegisterActivity`,
  `UnregisterActivity`, `PostTo`, `ExitEventLoop`) may happen between two events
  and between two callbacks of the same event. `OnResult`, `OnActivityExited`,
  `OnAutoDestroy`, `OnExitLoop` are the branches of `onEventPosted` and of the
  loop; `FinishExit`, `FinishDelete` are the body of the loop of `finish`,
  separated by the join.
- *background thread*: `pc` is where `run()` is. `HandleRegister`,
  `HandleUnregister`, `HandlePost`, `HandleTimer`/`ExecuteOnTimer`/`EndTimer`
  (one activity at a time, as other threads may use the timer in between),
  `LeaveLoop`, `Drain`, `QuitActivity`, `EndRun`. A call of `registerListener`
  that finds its timer pending is two steps (`RegisterListener`, `JoinTimer`):
  the timer may expire in between, and `adding` holds the service's mutex.
- *timers*: `Expire`.

In `CuTimer`, a block under `m_mutex` is a step. `user[t]` is where a thread is
inside the service, `run` where the timer's thread is.

Above the core, `CuTReader` represents the core by what its models show: `inbox` is
the queue of a device's thread, `results` the results on their way to the main
thread, those of unregistered activities being dropped. `disp` is the dispatch of
one result: the poller's loop (`PollerLoop`), the listeners still to be told and the one
that is being told, who may call the library again (`InCallback`).
`MoveTo`, `ToPolling`, `ToEvents` are the branches of `setRefreshMode`.
`work[x]` is what an activity knows in its own thread. `LoopOverDeleted` is the read
after deletion of cupoller.cpp:142; no behaviour continues after it.

`CuPollingActivity` is one of those activities looked at from inside: its lists and
caches, with what a device may answer at each execution. `CuTDevices` has the
activities of every kind by what they do with their reference. In
`CuTOneShot`, `published` are results queued, `told` is `onResult` being
executed. In `CuMonitor` both engines share the actions, `engine` says which one it is. In
`CuHttp` each handler of the Qt loop is an action, and `telling` the
listeners still to be called in it. In `CuWebSocket`, `ws.list` is the list of the factory
service, `ws.made` all the actions that were made, `wsTelling` the message being decoded;
`Serve` and `PublishWs` are the server. `ws.bad` is set when the code reads a deleted reader, or
erases from a set the element it iterates at: no behaviour continues. In `CuPlot` the operators on
`points` are the functions of `CurveData`, an update is one action, and `received` is history: it
says what the curve should show. `CuData` has a step for every atomic operation of `detach`.

Definitions whose names begin with `Bug` are plausible mistakes, each placed
before the definition it would replace. No specification uses them: with any of
them in place of the definition, the property named in `PROJECT.json` ("mutants")
is violated, which shows that the property depends on that piece of code.

### The abstract specifications

`ActivityLifecycle` promises that an activity is begun only after it was
registered, ended only after it was unregistered or the application closes, and
deleted only after it ended. The mapping of `CuThreadLifecycle`: an activity runs
while some thread has it in its `activity_set`, is idle while its `Register`
event is queued, and otherwise has exited.

`SharedTimer` promises that each expiry is told once to every listener; that a
timer expires only if it was armed since the last expiry; that whoever comes
finds it armed or arms it; and that whoever restarts it has it armed afterwards.
It also shows what is *not* promised: a newcomer that finds the timer armed
joins the listeners later, possibly after the expiry.

`DataCopies` has a value for each `CuData` and no sharing: to write into one changes
no other. The mapping gives a `CuData` the content of what its `d_p` points at.

## The runs

Passing runs (TLC explores the instance completely):

| run | question | instance |
|---|---|---|
| `lifecycle` | do the copies of the links agree, do registrations ever reach a dying thread, are exit events delivered, is an activity used after its deletion? | 3 activities, 2 tokens, 3 threads, 2 listeners, one-shot activities, results |
| `shutdown` | leaving the event loop and `finish` at any time: deletions, timers, is the promised life cycle kept, and does everything that was unregistered end? | 2 activities (one periodic) in 2 threads, 1 listener |
| `timers` | two threads and three timers, pause, forced execution and changes of period inside `execute()`: do threads and timers agree on who listens to which, and does a timer serve all its listeners? | 2 periodic activities, 2 threads, 2 periods, 3 addresses |
| `served` | one thread: is a periodic activity always served, whatever the period changes? | 2 periodic activities in 1 thread, posted `TimeoutChange` |
| `protocol` | inside one timer: lost starts, use after deletion, refinement of `SharedTimer`, does `stop()` return? | 3 threads |
| `engines` | the safety of each component above the core, and of the sharing of data | see below |
| `listeners` | is whoever asks for data told, by readers, one-shot actions, the random and the HTTP engine? | see below |

Runs that show a disagreement (see [divergences](#divergences)): `resume`,
`latejoin`, `earlyfinish`, `twolisteners`, `modeswitch`.

`engines` and `listeners` put several components in one instance. The variable `focus`
chooses one when a behaviour begins, and only that one moves: the components share
nothing their properties are about, so the run explores the union of their state
spaces and not the product. What each part asks:

| focus | properties of `engines` | of `listeners` | instance (engines) |
|---|---|---|---|
| reader | `PollersCallLiveReaders`, `OneSourceOfData`, `PolledAsAsked`, `TypeOKReader` | `ListenersTold` | 2 sources of a device, a listener, 2 readers, 2 pollers (a period, manual readings), changes of mode |
| polling | `PolledOrScheduled`, `GoodValueSent`, `SlowdownFollowsErrors` | | 2 attributes, a command, 2 values, any errors, 2 policies |
| devices | `DevicesHeld` | | 4 activities, one of each kind, a device that may be undefined |
| oneshot | `OneShotTellsWhoAsked` | `OneShotAnswered` | 2 listeners, writer, configuration and database actions, 2 objects |
| monitor | `MonitorServes` | `RandomListenersTold` | 2 sources, 2 listeners, 3 readers, both engines |
| http | `HttpNoneToldAfterLeaving` | `HttpAnswered` | a reader and a writer (engines), 2 readers (listeners), 2 requests under way |
| formula | `FormulaUpToDate` | | 2 sources, formulas of 0, 1 and 2 of them, up to 3 found by the parser |
| websocket | `WsServes` | | 2 readers and a writer of one source, 4 actions, 3 messages under way |
| plot | `PlotShowsLatest` | | a source of scalars and history, a source of vectors, a buffer of 2, 2 live values of any of 3 instants, 2 instants of history |
| data | `SharedDataAlive`, `CopiesIndependent` | | 2 threads, 3 `CuData`, 3 blocks of data, 2 values, a clone |

`CopiesIndependent` is the refinement of `DataCopies` asked of the steps of the focus
`data`, for TLC to check it with the rest; `CopyOnWrite`, which is proved, is the plain one.

Deadlock is checked in `protocol`. It is not in `engines`, `listeners` and
`modeswitch`, where a behaviour ends with nothing left to ask, at a bound, or
at `LoopOverDeleted`. It is not in the runs of `MCCuThread`, because
the system does stop there: when every activity has been unregistered and its
thread has ended, a client that has nothing more to register does nothing.

### Why the bounds are enough

- *Three activities, two tokens*: two activities share a thread while a third has
  its own; the last activity of a thread is unregistered while another is
  registered with the same token, and that thread can then lose its last activity in
  turn. A thread that ends is never reused, so three `CuThread` objects let a
  token be served by two of them one after the other.
- *Two listeners* let an activity have two links.
- *One or two periods, three timer addresses*: two activities with a common timer
  of which one moves to the other period, while the address of a deleted timer
  may or may not be given to the next one.
- `MaxEq` bounds only posted events and expiries: registrations, exits and
  destructions are never held back. With `MaxEq = 1` an expiry waits for the
  queue to be empty, which is the order of a thread that keeps up; with 2 or 3
  they pile up. `MaxLoop` bounds results only.
- `MaxTold`, `MaxPending` bound the expiries left unhandled and `m_pending`.
- *Symmetry* (run `lifecycle`): no definition distinguishes two threads or two
  listeners, no `CHOOSE` is used, and the configuration has invariants only.

Above the core:

- *Two readers, two pollers*, of one period and of manual readings (one under way, `MaxReads`): a
  reader moves between pollers while the other keeps one alive, and a poller loses its last reader in its own callback.
  `SafeSwitches` are the changes of mode clients ask for; the others make the reader keep
  a deleted event activity or be registered twice (`modeswitch`, divergences).
- `MaxInbox`, `MaxResults`: clients and timers wait while as many events or results are
  queued. With 1, a result of a replaced activity is still dispatched after the
  change, and an event is still queued when the mode changes again.
- `InCallback`: `unset` is the call that can delete the object that is calling. Runs
  with `add` and `send` too show no other behaviour than those of the
  divergences.
- The policy that sends always is not combined with `SkipFirstReadUpdate` in `engines`; the theorems of the
  polling are for any policy.
- `MaxItems = 2`: two requests under way, in one bundle or two, are what it takes
  for an answer to find a newer request of the same source. `WriteAgain`, `ReaddInCallback`
  switch on behaviours that are divergences.
- `MaxMonitors = 3`: a stopped reader stays for ever, a second serves, a third is made
  when that one stops.
- `MaxAdded`, `MaxRefs`, `MaxOneShots`, `MaxEvals`: a source added once and polled
  again later, five references (more than activities), two actions of the three kinds (one
  that ends and one made while its result is under way; the proof is for any number),
  one thread of a formula without sources (two of them may end in the wrong order:
  divergences).
- `MaxWsActions = 4`, `MaxWsMessages = 3`: a configuration and a reader, a second of each for a
  source that is left and set again before its answers have come, with a request for it still
  queued; or a configuration, two writes and a fourth action. With five actions and four messages
  TLC finds no error either. `LeaveAgain`, `RepeatedInstants`, `VectorErrors` and `RepeatedSources` switch on
  behaviours that are divergences.
- `MaxFormulaSources = 3`: a second formula, that fits the sources found so far or does not, and a third that
  finds values missing.
- `PlotBuffer = 2`, `MaxInstant = 2`, `MaxLive = 2`: two live values of any of three instants, repeated or going back,
  and two instants merged before, between and after them, which is more than the buffer holds: points are
  dropped by an append and by a merge. `PlotValues = {1}`: an error that comes first gives 0, so that a curve of
  live values has two values; the vectors have one. The theorem is for any values.
- *Three `CuData`, two threads, three blocks, one loss* (`MaxLost`; `EmptyData` is the content of what a clone
  loses): a detach finds a block for its copy while two others are in use, but not after a loss, when only the
  behaviours with two blocks go on. The proofs are for any number of each.
- `ModifiesPublished = FALSE`: no thread writes into a `CuData` whose other copies are
  all in other threads (divergences).
- *Symmetry* (run `engines`): permutations of the sources of the readers, which
  nothing else refers to; the only temporal formula is a safety property.

## Fairness

`FairSpec` assumes weak fairness of the event loop, of `finish`, of each
background thread and of each timer: each is a thread the operating system
schedules, with no step it may refuse once enabled. A `CuThread` that waits for
the service's mutex gets it because its holder goes on. Nothing is assumed of the
clients: they may never unregister, post or leave the loop. In `CuTimer` the
timer thread is fair, and so is each thread that is inside the service or has an
expiry to handle. `wait_for` returning is part of the timer thread's fairness:
its timeout is finite.

Above the core (`FairReader`, `FairMonitor`, `FairOneShot`, `FairHttp`): the event
loop dispatches what is queued, the thread of a device handles its queue, the timer
of a polling activity expires, unless it is the ten-day one of manual mode, a
registered activity executes. All are threads of the system or of the core, whose
runs show that a registered activity is served. In `CuHttp` the timer of the queue,
the answer to the oldest request and the client id have strong fairness: other
requests may stop and restart the timer, or take the loop's turn, any number of times,
but Qt and the network do not choose the same one for ever. Nothing is assumed
of listeners, nor of the success of subscriptions and readings.

Liveness checked above the core: `ListenersTold`, `HttpAnswered`,
`RandomListenersTold`, `OneShotAnswered` (run `listeners`).

Liveness checked in the core: `UnregisteredIsDeleted`, `RemovedThreadEnds`,
`FinishTerminatesOnceStarted` (run `shutdown`), `StopReturns` (run `protocol`).
The first two say "or the client left the event loop", since events still queued
at that moment are not delivered.

## The proofs

`CuThreadProofs` proves, for any finite sets of activities, listeners and threads
and any periods, tokens and posted events:

| theorem | property |
|---|---|
| `TypeCorrect` | `TypeOK` |
| `CopiesAlwaysAgree` | `CopiesAgree`: `CuActivityManager`, each `alimmap` and `CuThreadService` describe the same links, with one thread per activity and one per token |
| `ServiceThreadsAlwaysUsable` | `ServiceThreadsUsable`: `getThread` never returns a thread that is ending or has been told to |
| `NoRegisterEverDiscarded` | `NoRegisterDiscarded`: the error branch of `run()` that reports a discarded registration is unreachable |

Assumptions: those named in `CuThread` and `CuTimerService` (the types of the
constants; `None` and `NoTimer` are not objects; finitely many objects, needed
only for the cardinality in `FinishDelete`). The bounds `MaxEq` and `MaxLoop` are
constants of the proof like any other: it holds for every value of them.

The argument. None of the last four is inductive. A thread of the service is usable
because the only event that ends it while clients may still call, `ZeroActivities`,
is sent when its `alimmap` is empty; that it is then not in the
service needs `alimmap` to agree with the links *and* the service to know
exactly the threads with links. That `alimmap` and the links still agree after an
unregistration needs all links of an activity to be to one thread, which follows
from "a linked thread is in the service and has the token of the activity" and
"tokens of the service's threads are distinct". The registration of an activity may
construct a thread: it is fresh (`Unborn`). And no registration is behind
`ZeroActivities` in a queue (`ZeroIsLast`), because the thread left the service
before. So `EngineInv` is the conjunction of `TypeOK`, `LinksInService`,
`LinksCopied`, `Unborn`, `Usable`, `ZeroIsLast` and `NoRegisterDiscarded`; three of them hold
only while clients may call (`ClientTurn`), as `finish` takes the structures
apart. The steps are grouped: `QuietStep` (steps that touch neither links nor
threads), `RunStep` (what any step of `run()` does to queues), then one lemma per
remaining action.

`CuThreadLifecycleProofs` goes on with what happens to an activity and its thread at their end:

| theorem | property |
|---|---|
| `ExitEventsAlwaysDelivered` | `ExitEventsDelivered`: the event loop drops no exit event |
| `NeverUsedAfterDelete` | `NoUseAfterDelete` |
| `NeverDeletedTwice` | `DeletedOnce`, while clients may call, and in `finish` too if there is one listener (`twolisteners` shows why) |
| `EngineImplementsLifecycle` | `LifecycleKept`: the engine implements `ActivityLifecycle` |

`LifeInv` is `EngineInv` with two more parts. `LinkInv` follows an activity before it
is deleted: a link whose `Register` is still queued, in its `activity_set`, or with its `Unregister`
queued, is in one thread only, and the life of the activity says which.
`GoneInv` follows it afterwards: once its exit event is on its way no thread has it
(`ExitFinal`), and once it is freed neither has any queue (`FreedFinal`); of the events not yet
delivered, those of a thread end with its `AutoDestroy` (`ExitsInOrder`), which is sent only
by a thread that has ended (`EndedThreads`), and the thread of an exit event is listening
(`ExitsHeard`). The refinement is one lemma per kind of step, over the mapping of
`CuThreadLifecycle`.

`CuThreadTimersProofs` proves the properties of timers on `LifeInv`:

| theorem | property |
|---|---|
| `TimersOfActivitiesExist` | `TimerLinks` |
| `TimersCallTheLiving` | `TimerListenersAlive`, if there is one listener or `execute()` changes no period |
| `SharedTimersGoOn` | `PeriodicServedTogether`, in a behaviour in which no activity is ever unregistered, paused or changes its period and the event loop runs |
| `OwnTimersGoOn` | `PeriodicServed`, in a behaviour in which no two threads share a timer and no `Resume` is posted |

The condition of `TimersCallTheLiving` is needed (divergences, *Timers left behind*).
Those of the last two exclude exactly the runs `latejoin` and `resume`: a newcomer to a
pending timer, and a resume. They are conditions on the behaviour (`[](...) => []...`), since what was
lost once stays lost when the condition holds again. `TimerInv` says which timer each
activity of a thread has, that a thread has left the timers of activities that are gone, and
where a thread is inside the service. For the last two theorems it is joined by "every timer with a listener is pending, or
has expired and one of its listeners has the expiry queued or will restart it" (`TimersServed`), for
shared timers, and by the same of each thread (`AloneInv`) for own ones.

`CuTimerProofs` proves, for any set of threads:

| theorem | property |
|---|---|
| `TimerTypeCorrect` | `TypeOK` |
| `NoStartEverLost` | `NoStartLost`: no start is lost, even with spurious wakeups |
| `AlwaysStoppedForGood` | `StoppedForGood` |
| `TimerImplementsShared` | `SharedTimerKept`: `CuTimer` implements `SharedTimer`, if `m_wait` does not wake by itself |

The invariant `TimerInv` says that `shmu` is held exactly by the thread inside
the service (`LockHeld`), that the listeners are the threads that came and did not
leave, that only the last to leave stops the timer, that `m_quit` is set only
while a thread joins (`QuitJoined`), and that a timer counted as pending is armed
or about to be (`PendingArmed`). The last two make `Come` and `Restart` of
`SharedTimer` true of the code.

`CuDataProofs` proves, for any threads, values and finitely many `CuData`, if
`~ModifiesPublished`:

| theorem | property |
|---|---|
| `DataTypesAlways` | `TypeOKData`, which is proved and in no run |
| `SharedDataAlways` | `SharedDataAlive`: shared data live exactly as long as a `CuData` refers to them |
| `DataImplementsCopies` | `CopyOnWrite`: `CuData` implements `DataCopies` |

`SharedDataAlive` is not inductive: between the decrement of `detach` and the copy,
the counter is one less than the `CuData` that point at the block. `DataInv` says that the
counter is the number of holders, those that have not given up their reference
(`Counted`); that a thread between `load()` and the copy has another `CuData` on the
same block (`Anchored`), which is what `~ModifiesPublished` provides and what keeps
the block alive; and that a block about to be written in place has one
`CuData` only (`Exclusive`), as a counter of one leaves no room for another, not even one
that is taken (`OnlyHolder`). `StepOf` says what a step of a thread may touch, and `OthersKept`
that this preserves what the invariant promises to the others. Each action has its lemma; the
refinement has one per kind of step.

`CuTReaderProofs` proves, for any sources, devices, listeners, modes, periods and bounds, if no
client takes a reader from events to polling (`NoneLeavesEvents`; `modeswitch` shows
what happens when one does):

| theorem | property |
|---|---|
| `ReadersCalledAreLive` | `PollersCallLiveReaders` |
| `ReadersFedOnce` | `OneSourceOfData` |
| `PolledAlwaysAsAsked` | `PolledAsAsked`, if `ModesAsked` |
| `ReadersTyped` | `TypeOKReader`, if `ModesAsked` |

`ModesAsked` adds to `NoneLeavesEvents` that readers start with a mode that `start` tells apart
(cutreader.cpp:202-211), and go from manual mode only to polling with a period. `engines` has such
`Modes` and `SafeSwitches`; what it excludes are the divergences *Tango reader*.

The code calls from `CuTReader` into `CuPoller`, from there into the polling service and the engine,
and each changes part of the same objects. The model writes such a call as a function of the whole
`World`, and so does the proof: each call has a lemma that says of any world what it needs
and what the world it returns has gained. `Sound` is what holds of a world even
in the middle of a call: pollers and the map of their periods agree, `actions_map` and `pa_amap` of a poller
pair its readers with its activities (`PairsKept`), an activity belongs to a live
reader or poller, and has the device and period of its owner (`ActivitiesOwned`), a reader that is
polled is in the poller of its period. It leaves open one reader, the one that the call has `Detached` from its source and not
yet fed again; `AllFed` says that between calls there is none: each is `EventFed` or `PollFed`. Neither is enough: a
reader whose subscription fails falls back on polling, which needs a poller and an activity, and
the numbers of objects are bounded. `RoomLeft` says there are as many free as readers that may
still need one. The code has no such bound; that the model's clients wait
for room (`RoomFor`) is shown by the same proof to be enough to keep the bound out of the properties.
`WorkTyped` has the types of what is on its way.

`PolledAsAsked` compares two ends of a queue: `actions_map` in the main thread, and the vector that
the thread of the device reads once it has handled what is queued. `Handled` is a
recursive function over the queue; it has no induction theorem, so its lemmas argue with the first
place where two such functions differ (`ReadsOnce`), or where they leave the type (`ReadsTyped`): what one more
event adds (`HandledAppend`), what handling the first changes (`HandledHead`: nothing). `AsAsked` is
inductive together with `InOrder`, that the events of an activity are in the queue of its own device,
after its registration, and that none of them is its removal while it is registered. A poller that takes a reader it has
already would post the source twice, which is why a reader that is registered has to be `Detached` first;
the activity of a poller goes on if another reader needs it, and is unregistered if none does (`Released`). `AsAsked` is part of `Sound`, as a call of a poller changes both ends. `InMode` ties the
period to the mode; `Rewrites` and `ModedAfter` say which reader a call changes, and how.

`CuEnginesProofs` takes the components that have one safety property each:

| theorem | property |
|---|---|
| `FormulaAlwaysUpToDate` | `FormulaUpToDate`, for any formulas, if `RepeatedSources = FALSE` |
| `SlowdownAlwaysFollowsErrors` | `SlowdownFollowsErrors` |
| `MonitorsAlwaysServe` | `MonitorServes`, for both engines, any sources, listeners and readers |
| `OneShotsTellWhoAsked` | `OneShotTellsWhoAsked`, if `ReaddInCallback = FALSE` |
| `DevicesAlwaysHeld` | `DevicesHeld`, for any activities, threads and devices |

`FormulaInv` adds that as long as there is a value for each source (`Indexed`) the values are the last good reading of
each, at the place where the parser has it, and that only its sources have a watcher. The parser adds the sources of a
formula to those it found before, so that all of a reader's formulas are in the sequence, which is without repetition if
`RepeatedSources = FALSE`. `SlowdownInv` relates the period to the count that the code keeps (`consecutiveErrCnt`) and this
one to the failures in a row, a history variable: never fewer, and equal if `calm`, that is if two successes
in a row came before them.
`MonitorInv` says that a reader in use is in the list of the factory service under its own
source and has its activity, and that a stopped one has no listener left.
`ShotInv` says that a registered action is the one the service has for its source and
type, that its listeners asked for it, and that those being told (`TellingWanted`) asked for
it too or left after the copy, from a callback of another listener (`told.left`); the action that tells them is alive
whatever these callbacks do. `ReaddInCallback` is excluded since an action
that finishes empties the service's entry by source and type, even if another has taken its
place; `engines` excludes it as well. `DevicesInv` adds the types and, for every place, that a valid
`TDevice` has exactly the references of the activities that use it, and an invalid one
no fewer: the activity that takes or gives back a reference changes the set of
users by itself alone.

`CuQueuesProofs` takes the components whose state is sequences that are filtered, cut and joined:

| theorem | property |
|---|---|
| `AlwaysPolledOrScheduled` | `PolledOrScheduled`, for any attributes, commands and policies |
| `GoodValuesAlwaysSent` | `GoodValueSent`, for any values and failures |
| `HttpTellsNoneWhoLeft` | `HttpNoneToldAfterLeaving`, for any readers, writers, sources and requests under way, if `"unset" \notin HttpInCallback` and `~WriteAgain` |
| `WsAlwaysServes` | `WsServes`, for any listeners, sources, actions and messages, if `~LeaveAgain` |
| `PlotAlwaysShowsLatest` | `PlotShowsLatest`, for any sources, values, instants and size of the buffer, if `~RepeatedInstants` and `~VectorErrors` |

The conditions are those of the run `engines`; each excludes one of the divergences below (*HTTP*, *WebSocket*, *Plot*),
which violates the property when it is let in.

`Selection` gives the elements at the places `ps` of a sequence: the k-th is at the place of `ps` whose rank is k.
`Ranks` and `KeptPlaces` say that the ranks are a bijection that preserves the order, by induction on
the places; from there on a filter is what it keeps (`KeptElements`, `ElementsKept`), whichever the
condition, and appending, cutting, reversing have a lemma each about the elements.

`PollingInv`: the vectors of attributes are coupled place by place, also with what joins them from the
schedule (`DueJoins`), and a value that is kept with an attribute is, if the policy may hold it back, the last
one that was sent (`ValuesKept`). An execution sends a value or finds it equal to the one that is kept,
which is how `GoodValueSent` follows, though attributes are removed at the first place that matches.

`HttpInv`: an item in the queue, waiting for its answer, or still to be told, is the request that its listener makes
(`IsRequest`), unless it says that the listener has left. A listener leaves by cancelling its item, which `cancelSrc` looks
for among those that wait only if the queue had nothing (cuhttpsrcman.cpp:79-81): the invariant adds that an item is never in both
places, and once in the queue (`OnceIn`). A target is told by any answer, so the writers still waiting, in the queue or in
the map, are part of it too. `WriteAgain` would put a second item of the same write in the queue, of which one is cancelled.

`WsInv`: the actions made are told apart by type and source, of which one at most has not stopped
and is in the list (`EngineOK`); the only reader at work for a source has exactly the listeners linked to it
(`ReadersServe`); who is with an action that has stopped is being told by it (`ToldOrWorking`); a request is with every
one-shot action at work (`RequestsOut`). What the server will be subscribed to when it has
all that was sent depends on the last subscription on its way (`Will`): `ServerWill` says that it is what is read.
The operators that the steps share (`Added`, `Unlinked`) have their lemmas about any engine `e`, and each action
puts them together. The theorem is about behaviours until `bad`: `ServesOrBad` is what is inductive.

`PlotInv` says of every source, with a curve or not, what `PlotShowsLatest` says of the curves (`Shown`). The instants of
live values are any, so that the points of a curve are not in the order of their instants, and a value cannot be told from
another by its instant: `PlotPoint` has the place of a live value among those received (`arrivals`), and `InOrder` says of any two points what
comes first. A live value then comes after all the points (`AppendShowsLatest`). The instants of an answer are placed
one by one, before the first point that is not earlier; `Merged` is a recursive function over
them, and `AllPlaced` looks for the first place where the points would not be in order with one point more for each instant
(`WithInstants`). Dropping the oldest points afterwards leaves no gap among the live values (`LatestNoGap`) and, though some
of what was received is no longer in the curve, as many points as the buffer holds (`CutShowsLatest`).
A vector without a time scale repeats its instants, the indexes, and the argument is another:
the curve has the last indexes of the longest vector it was given (`VectorOf`), a vector puts the indexes that were
dropped before the others and gives new values to those that are there (`VectorStage`), and the cut removes again what it put
there. The value that replaces another is looked up at an index of the curve and not at one of the vector
(ecurvedata.cpp:54): for these vectors the two are equal (`OneMoreIndex`).

### What is only model-checked

- *Liveness* (`UnregisteredIsDeleted`, `RemovedThreadEnds`, `FinishTerminatesOnceStarted`, `StopReturns`,
  `ListenersTold`, `HttpAnswered`, `RandomListenersTold`, `OneShotAnswered`): fairness and
  `ENABLED` are out of the prover's reach.
- `CopiesIndependent` is `CopyOnWrite` restricted to the focus of the run; the latter is proved.

## Divergences

Kept as runs, each with the line it contradicts in `PROJECT.json` ("findings"):

- `resume`: an activity that is paused when its timer expires is skipped and, if
  it was alone, the timer is not restarted (cuthread.cpp:486-498). Resume only
  clears the flag: it is never executed again.
- `latejoin`: a thread that finds its timer pending may join after the expiry
  (cutimerservice.cpp:78-79); if the listener that was told leaves before it
  restarts the timer, the newcomer is never served.
- `earlyfinish`: `exit()` tells nothing to a thread that has not yet built
  `thpp` (cuthread.cpp:233); `finish` joins it for ever.
- `twolisteners`: `finish` deletes an activity once per link
  (cumbia.cpp:85): twice, if it was registered with two listeners.

- `modeswitch`: a reader that goes from events to polling unregisters its event activity and
  keeps the pointer (cutreader.cpp:432). Going back to events it takes it for a
  running one and stays in the poller too; `stop` leaves it there.

Met while modelling the core, in the modules, and not kept as runs:

- *Queued timeouts.* The comment at cuthread.cpp:477-480 says that no timeout is
  queued while `execute()` lasts, as the timer is restarted afterwards. With
  two threads sharing the timer, either restarts it for both
  (cuthread.cpp:496), and timeouts of the slower thread pile up.
- *Timers left behind.* An activity registered with a second listener runs `activity_run`
  again (cuthread.cpp:55-63). If its period changed inside `execute()`, it joins the timer of the new period and
  overwrites `tmr_amap` (cuthread.cpp:104-107) without leaving the old one: the thread
  stays a listener of that timer, which may call it after its deletion. With two listeners and `SelfPeriods`
  not empty TLC violates `TimerListenersAlive`; with either restriction it is proved.
- *Drain without the lock.* `run()` empties its queue without the mutex
  (cuthread.cpp:524) while the main thread may push a second `ZeroActivities`
  into it (cuthread.cpp:559), when two exit events find `alimmap` empty. In the
  model the queue is a sequence and both orders are harmless; in the code it is a
  data race.
- *Callbacks from a copy.* `onEventPosted` calls the listeners of a copy of
  `alimmap` (cuthread.cpp:310), so a listener may be told of a result after its
  activity was unregistered in an earlier callback, although cumbia.cpp:192 says
  the listeners are unsubscribed immediately.
- *Empty tokens.* cuthreadservice.cpp:48 documents that an empty token gives a
  new thread; lines 76-79 compare it like any other, so two activities with
  empty tokens share one.
- *Events left behind.* After `CuExitLoopEv` the rest of the batch is dispatched
  and the events queued later are not (cueventloop.cpp:157). Their exit events
  are lost with them: an activity unregistered just before leaves nobody to
  delete it, as it has no link for `finish` to find (cumbia.cpp:79-88, cuthread.cpp:271).
- *Spurious wakeups.* `CuTimer::run` calls `wait()` with no condition
  (cutimer.cpp:194). A condition variable that wakes by itself makes the timer run for
  one timeout nobody asked for, against "single shot" (cutimer.h:50).
  `SharedTimerKept` then fails; the other properties hold.
- *Early start.* `CuTimerService::restart` (cutimerservice.cpp:149) and `start`
  (cutimer.cpp:85-94) may shorten or extend the current wait: who joins a timer
  half-way is executed before its full period. Times have no length in the models.

Met above the core:

- *Data that is written after it was published.* `CuData::detach` (cudata.cpp:415-420,
  and `CuVariant::m_detach`, cuvariant.cpp:278-283) gives up its reference, without looking at what
  `unref()` returns, before it copies. If the other copies belong to other threads, one of
  them may delete the data meanwhile (the copy reads deleted memory), or both detach and nobody
  deletes them. With `ModifiesPublished = TRUE` TLC finds the first in seven states. cudata.h:42-44
  says "Atomic reference counting is used to ensure the integrity of the shared data". The library's own
  activities publish last, or keep another copy; the example
  `cumbia-qtcontrols/examples/simple_activity/activity.cpp:33-44` does not.
- *Tango reader.* A change from manual mode to polling without a period, or from a period of 999
  to manual, registers the reader twice or leaves it with a ten-day period; so does a
  failed subscription after manual mode. A reader that starts with another mode of events than
  on change is polled (cutreader.cpp:202-211), and keeps the mode. A listener that joins a reader of events is not
  told until the next event. The branch at cutreader.cpp:383 is unreachable. The
  loop of a poller goes on after a callback removed the last action, which deletes the
  poller (cupoller.cpp:142, cupollingservice.cpp:48). The listeners of an undefined
  device are never told, as its results have no "src".
- *Polling.* `m_attd_future` is not erased when `m_attn_future` is
  (cupollingactivity.cpp:529), harmless as long as `updcnt` does not come back. The slow-down
  is 1:3, 2:5, 4:10 where lines 323-325 say otherwise, and the failure of
  `get_command_info` is not counted (378-381). `read_atts` returns the status of the last
  attribute. The header says "Upon each successful execution, the counter is reset to 0"
  (cupollingactivity.cpp:251-252, and "consecutive errors" at 188-193); a success after errors restores the period and keeps
  `consecutiveErrCnt` (395-398), which only the next success resets, so that error, success, error slows the
  period as two errors in a row do. `SlowdownFollowsErrors` therefore asks for the slow down of the failures in
  a row only after two successes in a row, and for no less than that otherwise.
  With the policies on unchanged data an error of one attribute is never
  delivered, nor the recovery from a device that is down if the value is the same
  (cutango-world.cpp:825, 849-862), against "an error condition changes"
  (cudataupdatepolicy_enum.h:24). The policy is compared with `==`: combined with
  `SkipFirstReadUpdate` it is not recognised (809, 836).
- *Devices.* A write to an undefined device keeps its reference (cuwriteactivity.cpp:103): the
  invalid `TDevice` stays, and later activities are told that the device is undefined though it
  no longer is. `CuTThreadDevices` does not delete its `TDevice`s.
- *One-shot actions.* A second write while one is pending, or from `onUpdate`, is never executed.
  Who joins an action that is telling its listeners is lost.
  A listener that another's callback unlinks is still called, from the copy of the set (cutwriter.cpp:118-121,
  cutconfiguration.cpp:80-82, cutadb.cpp:56-60), and may have been deleted by then: `OneShotTellsWhoAsked` says that nobody
  else who left is called. In the list of `CuTaDb` a listener that asks twice is called twice; in the model it is once. A configuration stopped in a callback is stopped again
  afterwards (cutconfiguration.cpp:83), which removes a new one of the same source. A
  `CuTaDb` left by its only listener stays registered without an activity (cutadb.cpp:125-128): later
  listeners are never told.
- *Random and EPICS.* A stopped reader waits for a result that says exit to leave the list and
  delete itself. EPICS does not publish it, and the random activity does once it is
  unregistered, so that the core drops it (curndactionreader.cpp:103, cumonitor.cpp:76): readers
  stay for ever. `CuMonitor::removeDataListener` erases what it did not find (cumonitor.cpp:180):
  undefined, where the model stops. `ca_context_destroy` in `onExit` destroys the context that
  all the monitors of the thread share (cumonitoractivity.cpp:109).
- *HTTP.* `cancelSrc` looks in the wait map only if the queue had nothing (cuhttpsrcman.cpp:79-81). An
  error is told to the latest request of a source, be it an unsubscription, and hides others. It
  takes the listeners of every bundle under way, and never tells the targets, which are looked
  up in the wrong map (cumbiahttp.cpp:194; the comment at 168-176 says they are). Any answer
  takes all the targets (333): a write waiting for a login is lost. A listener that unset its
  source in its callback is still added to the channel (344). Unset and set of one source
  before the answer: they are handled last first, and the subscription is lost; a late answer to the first
  removes the listener from all its sources (347). Two requests for the id: the
  failure of the second clears the first. Requests that were cancelled while they waited for the id are sent.
- *Formula.* The parser adds the sources of a formula to those it found before (cuformulaparser.cpp:69-70) and
  compares the parameters with all of them (74). A second formula with parameters for its own sources
  is thus refused, and so is a constant one: the values are cleared, the watchers go on, and the next data
  reads beyond the values (cuformulareader.cpp:424-430), where the model stops (`outOfRange`). A formula with as many parameters as
  sources found so far is computed from all of them. `CuContext` makes a new reader for each source
  (cucontext.cpp:131-158), so that only who uses the reader itself meets this. A source that fails keeps its old value (the branch that invalidates it,
  cuformulareader.cpp:355, is unreachable), so the results of the others are computed from it and
  shown without error. Two constant formulas may be computed in the wrong order and the older be shown. Events
  of old formulas are shown as errors of the new one. A source named twice is never complete, as data goes to the first of the two (`RepeatedSources = TRUE`, `FormulaUpToDate` fails). A formula without
  sources, or with errors, does not dispose of the old watchers.
- *WebSocket.* A reader deletes itself when its last listener leaves and stays in
  `CuWSActionFactoryService` (cumbiawebsocket.cpp:198 removes only what is `exiting()` after a
  message, and a reader that exits is not found): the next walk that gets to it reads a
  deleted object. A listener that leaves the source a stopped reader had, before that reader is
  deleted, stops it again (cumbiawebsocket.cpp:113), which unsubscribes from the server a source that
  others read: with `LeaveAgain = TRUE`, `WsServes` fails. A reader does not leave the configuration it asked for (cuwscontrolsreader.cpp:101), and is told of it after
  `unsetSource`; `clearTarget` leaves `ReaderConfig` where `setTarget` joined `WriterConfig`
  (cuwscontrolswriter.cpp:145, against "unlinks the attribute configuration listener", line 139).
  A listener that leaves in its own callback is erased from the set that is iterated. A write while
  another of the same target waits is not sent. Every connection makes a new timer
  (cuwsclient.cpp:91), and subscriptions are not renewed.
- *Clone.* `CuData::clone` makes a `CuData`, which allocates its `CuDataPrivate`, and overwrites the pointer
  (cudata.cpp:159-160): that block keeps a reference and no `CuData` has it. `SharedDataAlive` excepts
  what is lost so.
- *Plot.* The instants of live values are those of the device, of the client's clock for errors (or one more than the
  last), and are appended as they come (qutrendplot.cpp:177-207, quplot_base.cpp:598-609): polled data repeats the instant
  of the device (cutango-world.cpp:276-283) and the one after an error may be earlier. The curve is then not ordered by x,
  as quplot_base.cpp:516-518 says, and an instant that is merged goes before the first point that is not earlier.
  Data of a source that is not linked makes a curve (qutrendplot.cpp:168-171), which `unsetSources` does not
  remove. An error, or a scalar, of a source of vectors appends a point at the client's clock (qutrendplot.cpp:177-188,203-207), among indexes;
  vectors that come later are then earlier than that point and may be dropped: `VectorErrors = TRUE`, which the run and the
  theorem exclude. `CurveData::insert` replaces the value of an instant the curve has already with the one
  at the index of the curve, not of the new data (ecurvedata.cpp:54), against "the
  union of existing and new data" (quplot_base.cpp:517-518): with `RepeatedInstants = TRUE`, `PlotShowsLatest` fails.
  A vector without a time scale that is shorter than the one before leaves the end of that one. `m_get_yval` reads one
  element beyond the end for notes after the last point (ecurvedata.cpp:110: `<` for `<=`).
  The points of a note have thus no value of their own, and `PlotShowsLatest` asks none of them. The vector of x of a source without a
  time scale is never deleted (qutrendplot.cpp:197).

## Bounds and abstractions

- A client registers an activity object once, possibly with several listeners,
  and makes a new object afterwards. `CuThread` objects have names that are never
  reused; timer addresses may be.
- What activities compute, results and their data, names and messages: a result
  is the activity it comes from, and a hook leaves at most one in the queue.
- Timeouts have no length. A timer armed inside `registerListener` does not
  expire before `addListener` (that takes microseconds, the timeout
  milliseconds); one already pending may. Zero or negative timeouts are not
  registered by the model's clients.
- `ti_cache` (cutimerservice.cpp) only speeds up the search: a stale entry is
  checked before use. It is left out.
- Unregistering an activity with no link does nothing and is not an action;
  posting to it dereferences a null thread in the code and is excluded.
- `finish` joins threads in any order, which includes the order of its vector.
- `CuTimer::notify` through an event loop service, `changeTimeout`,
  `removeConnections` and `CuActivityManager::disconnect(listener)` are not called
  by the engine; the `CuA_UnregisterEv` branch of `onEventPosted` is never
  posted. They are left out.
- `QThreadsEventBridge` (Qt) delivers the same events in the same order as
  `CuThreadsEventBridge`; the models are of the latter.

## What is not modelled

`PROJECT.json` lists every component with its status.

- `CuVariant`: its sharing is that of `CuData`; its conversions (numbers, strings, formats) keep
  no state. `CumbiaPool` and the service provider are maps filled at startup; logging formats text.
- The conversion of Tango, EPICS and HTTP data, the Tango database calls, `CuTDbPropertyReader`,
  `CuPut`: they call an external library once and publish the result.
- The parser and the script engine of formulas.
- WebSocket: the HTTP server that may stand beside the socket (writes and configurations over it are
  "not implemented yet", cuwsactionwriter.cpp:101), disconnections, and what is in the messages.
- `CuTThreadTokenGen`: a map that is filled before it is used.
- The Qt bridge: the same events through another queue. The rest of `CuContext`: options and
  the writers. In `CuPlot`, scales, zoom, marker, texts and drawing. The other widgets, QML,
  applications, plugins, scripts: user interface, glue, build.

## The plan

Done: the core and its timers, with their abstract specifications and proofs; the
readers, pollers, devices and actions of the Tango engine; the random, EPICS, HTTP
and WebSocket engines; the formula reader; the trend plot; the sharing of data, with its abstract specification and proofs.

Proved of these: every safety invariant of the runs and, of the core, its three refinements.

Next, in order of importance:

1. `ReaddInCallback` in `OneShotsTellWhoAsked`: which listeners an action that lost its place still
   has.
2. `CuTReader`: what a reader's listener may rely on as an abstract specification of its own.
