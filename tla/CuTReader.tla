------------------------------ MODULE CuTReader ------------------------------
(***************************************************************************)
(* The Tango readers of cumbia.  A CuTReader reads one source for its      *)
(* listeners, either through a CuEventActivity of its own, subscribed to   *)
(* the Tango events of the source, or through the CuPoller of its period,  *)
(* which it shares with other readers; a poller has one CuPollingActivity  *)
(* per device, which reads all the sources of that device at once.         *)
(*                                                                         *)
(*  - Main thread: CumbiaTango adds and removes readers on behalf of       *)
(*    clients, a client may also send data to a reader (change of mode or  *)
(*    period, read now).  It dispatches the results: listeners are called, *)
(*    and may call CumbiaTango again from there.                           *)
(*  - One thread per device (the token of the activities is the device)    *)
(*    handles the events posted to its activities and publishes results.   *)
(*                                                                         *)
(* Of the engine (module CuThread) this uses: events to one thread are     *)
(* handled in order, results are dispatched in order, a result of an       *)
(* activity that was unregistered is dropped.  Objects are numbers, used   *)
(* again when nothing refers to them any more; 0 is the null pointer.      *)
(*                                                                         *)
(* Definitions whose names begin with Bug are plausible mistakes; nothing  *)
(* uses them.                                                              *)
(***************************************************************************)
EXTENDS Naturals, Sequences, FiniteSets, SequencesExt

CONSTANTS
  Sources, DeviceOf,   \* Tango attributes and the device each belongs to
  DataListeners,       \* CuDataListener objects
  Modes,               \* the refresh modes readers are created with
  Switches,            \* the changes of mode clients ask for: <<from, to, periods>>
  PollPeriods,         \* the periods clients ask for
  MaxReads,            \* clients ask for a reading while this many are under way
  MaxResults,          \* timers and events wait while as many results are queued
  InCallback,          \* what clients call from onUpdate: "add", "unset", "send"
  MaxReaders, MaxPollers, MaxReadActivities,  \* bounds on the objects in use
  MaxInbox,            \* clients wait while a queue holds more events than this
  NoListener

Devices == {DeviceOf[s] : s \in Sources}
EventModes == {"Change", "Archive", "Periodic"}
ManualPeriod == 999       \* ten days
NoSource == "none"        \* the key "src" of a result is missing

Readers == 1..MaxReaders
Pollers == 1..MaxPollers
ReadActivities == 1..MaxReadActivities

ASSUME ReaderAssumption ==
  /\ Modes \subseteq EventModes \union {"Polled", "Manual"}
  /\ PollPeriods \subseteq 1..(ManualPeriod - 1) /\ PollPeriods # {}
  /\ {MaxReaders, MaxPollers, MaxReadActivities, MaxInbox, MaxResults} \subseteq Nat
  /\ \A sw \in Switches : /\ sw[1] # sw[2] /\ sw[3] \subseteq PollPeriods \union {0}
                         /\ {sw[1], sw[2]} \subseteq EventModes \union {"Polled", "Manual"}
  /\ NoListener \notin DataListeners /\ NoSource \notin Sources
  /\ MaxReads \in Nat /\ InCallback \subseteq {"add", "unset", "send"}

VARIABLES
  reader,     \* CuTReader objects
  actions,    \* CuActionFactoryService: the reader of each source
  poller,     \* CuPoller objects
  pollerOf,   \* CuPollingService: pollers_map
  activity,   \* activities, as the main thread knows them
  work,       \* activities, as their thread knows them
  inbox,      \* per device: the queue of its thread
  loopq,      \* results on their way to the main thread
  disp,       \* the result being dispatched
  defined     \* the devices the Tango database knows, which never changes
readerVars == <<reader, actions, poller, pollerOf, activity, work, inbox,
                loopq, disp, defined>>
mainVars == <<reader, actions, poller, pollerOf, activity, defined>>

AllPeriods == PollPeriods \union {ManualPeriod}
NoPeriod == 0             \* a request without period
NoReader == [live |-> FALSE, src |-> NoSource, listeners |-> {},
             mode |-> "Polled", period |-> 0, event |-> 0]
NoPoller == [live |-> FALSE, period |-> 0, actions_map |-> [s \in Sources |-> 0],
             pa_amap |-> {}]
NoActivity == [kind |-> "none", owner |-> 0, dev |-> NoSource, period |-> 0]
NoWork == [kind |-> "none", dev |-> NoSource, subscribed |-> FALSE, manual |-> FALSE,
           atts |-> <<>>]
Idle == [poller |-> 0, rest |-> <<>>, lis |-> {}, at |-> NoListener]

-----------------------------------------------------------------------------
(* The main thread's view as one value: the code below changes several     *)
(* parts of it in the middle of one call.                                  *)
World == [reader |-> reader, actions |-> actions, poller |-> poller,
          pollerOf |-> pollerOf, activity |-> activity, inbox |-> inbox]
Becomes(w) ==
  /\ reader' = w.reader /\ actions' = w.actions /\ poller' = w.poller
  /\ pollerOf' = w.pollerOf /\ activity' = w.activity /\ inbox' = w.inbox
  /\ UNCHANGED defined

\* The activity is registered: the engine has a link for it.
Linked(w, x) == w.activity[x] # NoActivity

\* Numbers that no object has and nothing refers to.
FreeActivities(w) ==
  {x \in ReadActivities : /\ ~Linked(w, x) /\ work[x] = NoWork
                          /\ \A r \in Readers : w.reader[r].event # x
                          /\ \A dev \in Devices : \A i \in DOMAIN w.inbox[dev] : w.inbox[dev][i].a # x
                          /\ \A i \in DOMAIN loopq : loopq[i].a # x}
FreePollers(w) ==
  {k \in Pollers : /\ ~w.poller[k].live /\ (disp.poller # k \/ disp.rest = <<>>)
                   /\ \A x \in ReadActivities : w.activity[x].kind = "poll" => w.activity[x].owner # k}
FreeReaders(w) ==
  {r \in Readers : /\ ~w.reader[r].live
                   /\ \A k \in Pollers : \A s \in Sources : w.poller[k].actions_map[s] # r
                   /\ \A x \in ReadActivities : w.activity[x].kind = "event" => w.activity[x].owner # r}
First(S) == CHOOSE x \in S : \A y \in S : x <= y

\* A client does what needs no more objects than there are, now and later:
\* each subscription may need a poller and an activity when it fails.
RoomFor(s) == /\ FreePollers(World) # {} /\ FreeActivities(World) # {}
              /\ Len(inbox[DeviceOf[s]]) <= MaxInbox
BecomesWithRoom(w) ==
  LET subscribed == {r \in Readers : w.reader[r].event # 0 /\ Linked(w, w.reader[r].event)}
  IN  /\ Cardinality(FreePollers(w)) >= Cardinality(subscribed)
      /\ Cardinality(FreeActivities(w)) >= Cardinality(subscribed)
      /\ Becomes(w)

PostTo(w, dev, ev, x, s) ==
  [w EXCEPT !.inbox[dev] = Append(@, [ev |-> ev, a |-> x, src |-> s])]

\* Cumbia::registerActivity, for a new activity x.
RegisterAct(w, x, a) ==
  [w EXCEPT !.activity[x] = a,
            !.inbox[a.dev] = Append(@, [ev |-> "Register", a |-> x, src |-> NoSource,
                                        kind |-> a.kind, manual |-> a.period = ManualPeriod])]

\* Cumbia::unregisterActivity: nothing happens if the activity has no link.
UnregisterAct(w, x) ==
  IF x = 0 \/ ~Linked(w, x) THEN w
  ELSE PostTo([w EXCEPT !.activity[x] = NoActivity], w.activity[x].dev,
              "Unregister", x, NoSource)

\* CuActivityManager::find for a polling activity of a device and a period.
Polling(w, dev, p) ==
  {x \in ReadActivities : LET a == w.activity[x]
                  IN a.kind = "poll" /\ a.dev = dev /\ a.period = p}

-----------------------------------------------------------------------------
(* CuPollingService and CuPoller                                           *)

GetPoller(w, p) ==
  IF w.pollerOf[p] # 0 THEN w
  ELSE LET k == First(FreePollers(w))
       IN  [w EXCEPT !.pollerOf[p] = k,
                     !.poller[k] = [NoPoller EXCEPT !.live = TRUE, !.period = p]]

\* A poller that starts an activity does not tell it what to read.
BugPollerRegister(w, k, r) ==
  LET s == w.reader[r].src
      dev == DeviceOf[s]
      p == w.poller[k].period
      found == Polling(w, dev, p)
      x == First(IF found = {} THEN FreeActivities(w) ELSE found)
      w1 == [w EXCEPT !.poller[k].actions_map[s] = r,
                      !.poller[k].pa_amap = @ \union {<<x, r>>}]
  IN  IF found # {} THEN PostTo(w1, dev, "Add", x, s)
      ELSE RegisterAct(w1, x, [kind |-> "poll", owner |-> k, dev |-> dev, period |-> p])

\* CuPoller::registerAction
PollerRegister(w, k, r) ==
  LET s == w.reader[r].src
      dev == DeviceOf[s]
      p == w.poller[k].period
      found == Polling(w, dev, p)
      x == First(IF found = {} THEN FreeActivities(w) ELSE found)
      w1 == [w EXCEPT !.poller[k].actions_map[s] = r,
                      !.poller[k].pa_amap = @ \union {<<x, r>>}]
      w2 == IF found # {} THEN w1
            ELSE RegisterAct(w1, x, [kind |-> "poll", owner |-> k, dev |-> dev, period |-> p])
  IN  PostTo(w2, dev, "Add", x, s)

\* CuPoller::unregisterAction
PollerUnregister(w, k, r) ==
  LET s == w.reader[r].src
      dev == DeviceOf[s]
      w1 == [w EXCEPT !.poller[k].actions_map[s] = 0]
      found == Polling(w, dev, w.poller[k].period)
      x == CHOOSE y \in found : TRUE
      pairs == w.poller[k].pa_amap \ {<<x, r>>}
      w2 == PostTo([w1 EXCEPT !.poller[k].pa_amap = pairs], dev, "Remove", x, s)
  IN  CASE w.poller[k].actions_map[s] = 0 -> w
        [] OTHER -> IF found = {} THEN w1
                    ELSE IF \E q \in pairs : q[1] = x THEN w2
                         ELSE UnregisterAct(w2, x)

\* CuPollingService::registerAction, unregisterAction, actionRegistered, as
\* CuTReader calls them: with the current period of the reader.
RegisterToPoller(w, r) ==
  LET p == w.reader[r].period
      w1 == GetPoller(w, p)
  IN  PollerRegister(w1, w1.pollerOf[p], r)

UnregisterFromPoller(w, r) ==
  LET p == w.reader[r].period
      k == w.pollerOf[p]
      w1 == PollerUnregister(w, k, r)
  IN  IF k = 0 THEN w
      ELSE IF \A s \in Sources : w1.poller[k].actions_map[s] = 0
           THEN [w1 EXCEPT !.pollerOf[p] = 0, !.poller[k] = NoPoller]
           ELSE w1

ActionRegistered(w, r) ==
  LET k == w.pollerOf[w.reader[r].period]
  IN  k # 0 /\ w.poller[k].actions_map[w.reader[r].src] # 0

-----------------------------------------------------------------------------
(* CuTReader                                                               *)

StartEventActivity(w, r) ==
  LET x == First(FreeActivities(w))
  IN  RegisterAct([w EXCEPT !.reader[r].event = x, !.reader[r].mode = "Change"], x,
        [kind |-> "event", owner |-> r, dev |-> DeviceOf[w.reader[r].src],
         period |-> NoPeriod])

UnregisterEventActivity(w, r) == UnregisterAct(w, w.reader[r].event)

StartReader(w, r) ==
  IF w.reader[r].mode = "Change" THEN StartEventActivity(w, r)
  ELSE RegisterToPoller(w, r)

\* stop, and m_destroy_self
StopReader(w, r) ==
  LET w1 == IF w.reader[r].event # 0 THEN UnregisterEventActivity(w, r)
            ELSE UnregisterFromPoller(w, r)
  IN  [w1 EXCEPT !.actions[w.reader[r].src] = 0, !.reader[r] = NoReader]

\* The event activity is left registered: both go on.
BugPollingFallback(w, r) ==
  LET w1 == [w EXCEPT !.reader[r].event = 0]
  IN  IF ActionRegistered(w1, r) THEN w1
      ELSE RegisterToPoller([w1 EXCEPT !.reader[r].mode = "Polled"], r)

PollingFallback(w, r) ==
  LET w1 == [UnregisterEventActivity(w, r) EXCEPT !.reader[r].event = 0]
  IN  IF ActionRegistered(w1, r) THEN w1
      ELSE RegisterToPoller([w1 EXCEPT !.reader[r].mode = "Polled"], r)

\* The new period is stored first: the old poller is not found.
BugMoveTo(w, r, p) ==
  LET w1 == [w EXCEPT !.reader[r].period = p] IN UnregisterFromPoller(w1, r)

\* m_unregisterFromPoller with the old period, then the new one is stored
MoveTo(w, r, p) == [UnregisterFromPoller(w, r) EXCEPT !.reader[r].period = p]

\* setRefreshMode, the branch of PolledRefresh and Manual
ToPolling(w, r, rm, p) ==
  LET w1 == UnregisterEventActivity(w, r)
      new == IF rm = "Manual" THEN ManualPeriod ELSE p
      w2 == IF new = NoPeriod \/ new = w.reader[r].period THEN w1 ELSE MoveTo(w1, r, new)
  IN  IF w.reader[r].mode = rm THEN w2 ELSE RegisterToPoller(w2, r)

ToEvents(w, r, rm) ==
  LET ev == w.reader[r].event
      w1 == IF ev = 0 THEN UnregisterFromPoller(w, r) ELSE UnregisterEventActivity(w, r)
  IN  IF ev # 0 /\ w.reader[r].mode = rm THEN w
      ELSE StartEventActivity(w1, r)

ActiveReader(w, r) == w.reader[r].event # 0 \/ ActionRegistered(w, r)

\* The new mode is not stored.
BugSetRefreshMode(w, r, rm, p) ==
  CASE ~ActiveReader(w, r) -> w
    [] ActiveReader(w, r) /\ rm \in EventModes -> ToEvents(w, r, rm)
    [] OTHER -> ToPolling(w, r, rm, p)

SetRefreshMode(w, r, rm, p) ==
  LET active == ActiveReader(w, r)
      w1 == CASE ~active /\ rm = "Manual" -> [w EXCEPT !.reader[r].period = ManualPeriod]
              [] ~active /\ rm # "Manual" -> w
              [] active /\ rm \in EventModes -> ToEvents(w, r, rm)
              [] OTHER -> ToPolling(w, r, rm, p)
  IN  [w1 EXCEPT !.reader[r].mode = rm]

ChangePeriod(w, r, p) ==
  IF p = w.reader[r].period THEN w ELSE RegisterToPoller(MoveTo(w, r, p), r)

\* A read request reaches the polling activity of the reader's device and
\* period, if there is one.
PostRead(w, r) ==
  LET dev == DeviceOf[w.reader[r].src]
      found == Polling(w, dev, w.reader[r].period)
  IN  IF found = {} THEN w
      ELSE PostTo(w, dev, "Execute", CHOOSE x \in found : TRUE, NoSource)

-----------------------------------------------------------------------------
(* Clients: CumbiaTango, from the event loop or from onUpdate              *)

ClientTurn(call) == disp = Idle \/ (disp.at # NoListener /\ call \in InCallback)

\* CumbiaTango::addAction with a CuTangoReaderFactory
AddAction(s, l) ==
  /\ ClientTurn("add") /\ RoomFor(s)
  /\ LET r == actions[s]
         new == First(FreeReaders(World))
     IN \/ /\ r # 0 /\ l \notin reader[r].listeners
           /\ Becomes([World EXCEPT !.reader[r].listeners = @ \union {l}])
        \/ /\ r = 0 /\ FreeReaders(World) # {}
           /\ \E rm \in Modes, p \in PollPeriods :
                BecomesWithRoom(StartReader([World EXCEPT !.actions[s] = new,
                  !.reader[new] = [live |-> TRUE, src |-> s, listeners |-> {l}, mode |-> rm,
                                   period |-> IF rm = "Manual" THEN ManualPeriod ELSE p,
                                   event |-> 0]], new))
  /\ UNCHANGED <<work, loopq, disp>>

\* CumbiaTango::unlinkListener; the last listener stops the reader
UnlinkListener(s, l) ==
  /\ ClientTurn("unset") /\ actions[s] # 0 /\ l \in reader[actions[s]].listeners
  /\ LET r == actions[s]
         w == [World EXCEPT !.reader[r].listeners = @ \ {l}]
     IN Becomes(IF w.reader[r].listeners = {} THEN StopReader(w, r) ELSE w)
  /\ UNCHANGED <<work, loopq, disp>>

\* CuTReader::sendData
SendData(s) ==
  /\ ClientTurn("send") /\ actions[s] # 0 /\ RoomFor(s)
  /\ LET r == actions[s]
         mode == reader[r].mode
     IN \/ \E sw \in Switches : \E p \in sw[3] :
             sw[1] = mode /\ BecomesWithRoom(SetRefreshMode(World, r, sw[2], p))
        \/ \E p \in PollPeriods :
             mode = "Polled" /\ BecomesWithRoom(ChangePeriod(GetPoller(World, reader[r].period), r, p))
        \/ Len(inbox[DeviceOf[s]]) + Len(loopq) < MaxReads /\ Becomes(PostRead(World, r))
  /\ UNCHANGED <<work, loopq, disp>>

ClientStep == \E s \in Sources :
  SendData(s) \/ \E l \in DataListeners : AddAction(s, l) \/ UnlinkListener(s, l)

-----------------------------------------------------------------------------
(* Main thread: dispatching results                                        *)

\* CuThread::onEventPosted and CuTReader::onResult: a failed subscription,
\* or an error from the event system, starts the poller; the listeners hear
\* of it unless it was the subscription.
DispatchEventResult ==
  /\ disp = Idle /\ loopq # <<>>
  /\ LET e == Head(loopq)
         r == activity[e.a].owner
     IN /\ activity[e.a].kind = "event"
        /\ Becomes(IF e.what = "ok" THEN World ELSE PollingFallback(World, r))
        /\ disp' = [Idle EXCEPT !.lis = IF e.what = "subscribe" THEN {}
                                        ELSE reader[r].listeners]
  /\ loopq' = Tail(loopq)
  /\ UNCHANGED work

\* CuPoller::onResult begins.
DispatchPollResult ==
  /\ disp = Idle /\ loopq # <<>>
  /\ LET e == Head(loopq)
     IN /\ activity[e.a].kind = "poll"
        /\ disp' = [Idle EXCEPT !.poller = activity[e.a].owner, !.rest = e.srcs]
  /\ loopq' = Tail(loopq)
  /\ UNCHANGED <<mainVars, work, inbox>>

\* The activity was unregistered: CuThread has no listeners for it.
DropResult ==
  /\ disp = Idle /\ loopq # <<>> /\ ~Linked(World, Head(loopq).a)
  /\ loopq' = Tail(loopq)
  /\ UNCHANGED <<mainVars, work, inbox, disp>>

\* One turn of the loop of CuPoller::onResult, and CuTReader::onResult
PollerLoop ==
  /\ disp.lis = {} /\ disp.rest # <<>> /\ poller[disp.poller].live
  /\ LET s == Head(disp.rest)
         r == IF s = NoSource THEN 0 ELSE poller[disp.poller].actions_map[s]
     IN disp' = [disp EXCEPT !.rest = Tail(@), !.at = NoListener,
                             !.lis = IF r = 0 THEN {} ELSE reader[r].listeners]
  /\ UNCHANGED <<mainVars, work, inbox, loopq>>

\* The poller was deleted by a callback: what the loop does next is
\* undefined.  It ends here in the model.
LoopOverDeleted ==
  /\ disp.lis = {} /\ disp.rest # <<>> /\ ~poller[disp.poller].live
  /\ disp' = Idle
  /\ UNCHANGED <<mainVars, work, inbox, loopq>>

CallListener ==
  /\ \E l \in disp.lis : disp' = [disp EXCEPT !.lis = @ \ {l}, !.at = l]
  /\ UNCHANGED <<mainVars, work, inbox, loopq>>

EndDispatch ==
  /\ disp # Idle /\ disp.lis = {} /\ disp.rest = <<>>
  /\ disp' = Idle
  /\ UNCHANGED <<mainVars, work, inbox, loopq>>

LoopStep == \/ DispatchEventResult \/ DispatchPollResult \/ DropResult \/ PollerLoop
            \/ LoopOverDeleted \/ CallListener \/ EndDispatch

-----------------------------------------------------------------------------
(* The thread of a device                                                  *)

Publish(q, x, what, srcs) == Append(q, [a |-> x, what |-> what, srcs |-> srcs])

\* CuPollingActivity::execute: a result for each source, and one without
\* source if the reading failed.
Execute(x) ==
  \E failed \in BOOLEAN :
    loopq' = Publish(loopq, x, "poll", IF failed THEN Append(work[x].atts, NoSource)
                                       ELSE work[x].atts)

\* CuEventActivity::init and execute.  A subscription that succeeds pushes a
\* first event at once.  With no device in the database, nothing is told.
InitEvent(x, dev) ==
  \E subscribed \in IF dev \in defined THEN BOOLEAN ELSE {FALSE} :
    /\ work' = [work EXCEPT ![x] = [NoWork EXCEPT !.kind = "event", !.dev = dev,
                                                  !.subscribed = subscribed]]
    /\ loopq' = IF dev \notin defined THEN loopq
                ELSE Publish(loopq, x, IF subscribed THEN "ok" ELSE "subscribe", <<>>)

\* CuPollingActivity::init and the first execute, before any source is added
InitPoll(x, dev, manual) ==
  /\ work' = [work EXCEPT ![x] = [NoWork EXCEPT !.kind = "poll", !.dev = dev, !.manual = manual]]
  /\ loopq' = IF dev \in defined THEN loopq ELSE Publish(loopq, x, "poll", <<NoSource>>)

\* The first entry is removed, whatever its source.
BugRemoveAtt(atts, s) == IF Len(atts) < 2 THEN <<>> ELSE Tail(atts)

\* m_unregisterAction: the first entry of the source
RemoveAtt(atts, s) ==
  LET at == {i \in 1..Len(atts) : atts[i] = s}
      i == CHOOSE j \in at : \A k \in at : j <= k
  IN  IF at = {} THEN atts
      ELSE SubSeq(atts, 1, i - 1) \o SubSeq(atts, i + 1, Len(atts))

Handle(dev) ==
  /\ inbox[dev] # <<>>
  /\ LET e == Head(inbox[dev])
         x == e.a
     IN \/ e.ev = "Register" /\ e.kind = "event" /\ InitEvent(x, dev)
        \/ e.ev = "Register" /\ e.kind = "poll" /\ InitPoll(x, dev, e.manual)
        \/ /\ e.ev = "Unregister"
           /\ work' = [work EXCEPT ![x] = NoWork] /\ UNCHANGED loopq
        \/ /\ e.ev = "Add"
           /\ work' = [work EXCEPT ![x].atts = Append(@, e.src)] /\ UNCHANGED loopq
        \/ /\ e.ev = "Remove"
           /\ work' = [work EXCEPT ![x].atts = RemoveAtt(@, e.src)] /\ UNCHANGED loopq
        \/ e.ev = "Execute" /\ dev \in defined /\ Execute(x) /\ UNCHANGED work
        \/ /\ e.ev = "Execute" /\ dev \notin defined
           /\ loopq' = Publish(loopq, x, "poll", <<NoSource>>) /\ UNCHANGED work
  /\ inbox' = [inbox EXCEPT ![dev] = Tail(@)]
  /\ UNCHANGED <<mainVars, disp>>

\* The timer of a polling activity; a device that is not defined has none.
Timer(x) ==
  /\ work[x].kind = "poll" /\ work[x].dev \in defined
  /\ work[x].atts # <<>> /\ Len(loopq) < MaxResults
  /\ Execute(x)
  /\ UNCHANGED <<mainVars, work, inbox, disp>>

\* CuEventActivity::push_event, from Tango's own thread
PushEvent(x) ==
  /\ work[x].subscribed /\ Len(loopq) < MaxResults
  /\ \E what \in {"ok", "error"} : loopq' = Publish(loopq, x, what, <<>>)
  /\ UNCHANGED <<mainVars, work, inbox, disp>>

ThreadStep == \/ \E dev \in Devices : Handle(dev)
              \/ \E x \in ReadActivities : Timer(x) \/ PushEvent(x)

-----------------------------------------------------------------------------
InitReader ==
  /\ reader = [r \in Readers |-> NoReader]
  /\ actions = [s \in Sources |-> 0]
  /\ poller = [k \in Pollers |-> NoPoller]
  /\ pollerOf = [p \in AllPeriods \union {NoPeriod} |-> 0]
  /\ activity = [x \in ReadActivities |-> NoActivity]
  /\ work = [x \in ReadActivities |-> NoWork]
  /\ inbox = [dev \in Devices |-> <<>>]
  /\ loopq = <<>> /\ disp = Idle
  /\ defined \in SUBSET Devices

NextReader == ClientStep \/ LoopStep \/ ThreadStep

SpecReader == InitReader /\ [][NextReader]_readerVars
FairReader ==
  /\ WF_readerVars(LoopStep)
  /\ \A dev \in Devices : WF_readerVars(Handle(dev))
  /\ \A x \in ReadActivities :
       WF_readerVars(~work[x].manual /\ Timer(x))

-----------------------------------------------------------------------------
(* Properties                                                              *)

\* Types; a reader in use has the period of its mode, and an event activity of
\* its own exactly when its mode is one of events.
TypeOKReader ==
  /\ reader \in [Readers -> [live : BOOLEAN, src : Sources \union {NoSource},
       listeners : SUBSET DataListeners, mode : EventModes \union {"Polled", "Manual"},
       period : AllPeriods \union {NoPeriod}, event : ReadActivities \union {0}]]
  /\ \A r \in Readers : reader[r].live =>
       /\ reader[r].period # NoPeriod
       /\ reader[r].mode = "Manual" <=> reader[r].period = ManualPeriod
       /\ reader[r].mode \in EventModes <=> reader[r].event # 0
  /\ actions \in [Sources -> Readers \union {0}]
  /\ pollerOf \in [AllPeriods \union {NoPeriod} -> Pollers \union {0}]
  /\ \A k \in Pollers : poller[k].actions_map \in [Sources -> Readers \union {0}]
  /\ \A x \in ReadActivities : work[x].atts \in Seq(Sources)
  /\ defined \subseteq Devices
  /\ disp.lis \subseteq DataListeners /\ disp.at \in DataListeners \union {NoListener}

\* The engine hands results only to objects that exist: a registered activity
\* belongs to a live reader or poller (cupollingservice.cpp:46-49), and the
\* readers that a poller calls are those that clients still use, each of which
\* asked for this very period (cupoller.cpp:142-146).
PollersCallLiveReaders ==
  /\ \A k \in Pollers : poller[k].live =>
       /\ pollerOf[poller[k].period] = k
       /\ \A s \in Sources : LET r == poller[k].actions_map[s]
            IN r # 0 => reader[r].live /\ actions[s] = r /\ reader[r].period = poller[k].period
  /\ \A x \in ReadActivities :
       /\ activity[x].kind = "event" => reader[activity[x].owner].live
       /\ activity[x].kind = "poll" => poller[activity[x].owner].live

\* A reader in use is fed by exactly one activity, whatever the changes of
\* mode and the failures of the event system (cutreader.cpp:163, 397).
OneSourceOfData ==
  \A r \in Readers : reader[r].live =>
    LET own == {x \in ReadActivities : activity[x].kind = "event" /\ activity[x].owner = r}
        shared == {x \in ReadActivities : Linked(World, x) /\ \E k \in Pollers :
                     poller[k].live /\ <<x, r>> \in poller[k].pa_amap}
    IN Cardinality(own) + Cardinality(shared) = 1

\* What the thread of a device reads, once it has handled what is in its
\* queue, is what the poller was asked for: each source once.
HandledBy(e, x, ts) == CASE e.a = x /\ e.ev = "Add" -> Append(ts, e.src)
                         [] e.a = x /\ e.ev = "Remove" -> RemoveAtt(ts, e.src)
                         [] OTHER -> ts
Handled(q, x, atts) ==
  LET read[n \in 0..Len(q)] == IF n = 0 THEN atts ELSE HandledBy(q[n], x, read[n - 1])
  IN  read[Len(q)]
PolledAsAsked ==
  \A x \in ReadActivities : activity[x].kind = "poll" =>
    LET k == activity[x].owner
        atts == Handled(inbox[activity[x].dev], x, work[x].atts)
        asked == {s \in Sources : poller[k].actions_map[s] # 0 /\ DeviceOf[s] = activity[x].dev}
    IN {atts[i] : i \in 1..Len(atts)} = asked /\ Len(atts) = Cardinality(asked)

\* Who listens to a source is told by the activity that reads it, or that
\* activity is replaced, or the listener leaves: whatever the failures of the
\* event system and the changes of mode and period, and though results of
\* replaced activities are dropped.  An event activity tells when it has
\* subscribed; a polling activity every period (cutreader.cpp:163, 397).
Serves(x, l) ==
  \E r \in Readers :
    /\ l \in reader[r].listeners /\ DeviceOf[reader[r].src] \in defined
    /\ \/ activity[x].kind = "event" /\ activity[x].owner = r
       \/ /\ activity[x].kind = "poll" /\ activity[x].period # ManualPeriod
          /\ <<x, r>> \in poller[activity[x].owner].pa_amap
Pending(x) == activity[x].kind = "event" => work[x].kind = "none"
ListenersTold ==
  \A x \in ReadActivities, l \in DataListeners :
    Serves(x, l) /\ Pending(x) ~> (disp.at = l \/ ~Serves(x, l))
=============================================================================
