---------------------------- MODULE CuTReaderProofs ----------------------------
(***************************************************************************)
(* What TLAPS proves of the readers and pollers of the Tango engine.       *)
(*                                                                         *)
(* The calls of the main thread are functions from World to World, often   *)
(* three or four deep. Each has a lemma that says, of any world w that is  *)
(* Sound, that the world v it returns is sound, which reader it feeds or   *)
(* detaches, and that the other readers are fed as before. World is then   *)
(* one more value: of the variables, a lemma of a call mentions work only, *)
(* which no call changes, as the threads read it when they handle what is  *)
(* queued. The invariant adds what the results on their way need, the mode *)
(* that each reader has, and that there is room for the                    *)
(* poller and the activity of a reader whose subscription may still fail,  *)
(* which is what the bounds MaxPollers and MaxReadActivities must not      *)
(* forbid.                                                                 *)
(***************************************************************************)
EXTENDS CuTReader, FiniteSetTheorems, SequenceTheorems, WellFoundedInduction, TLAPS

\* No reader goes from events to polling: it would remember an event activity
\* it has left (see README, divergences).
NoneLeavesEvents == \A sw \in Switches : sw[1] \in EventModes => sw[2] \in EventModes

-----------------------------------------------------------------------------
(* The types of the main thread's objects                                  *)

ReaderRec == [live : BOOLEAN, src : Sources \union {NoSource},
              listeners : SUBSET DataListeners, mode : EventModes \union {"Polled", "Manual"},
              period : AllPeriods \union {NoPeriod}, event : ReadActivities \union {0}]
PollerRec == [live : BOOLEAN, period : AllPeriods \union {NoPeriod},
              actions_map : [Sources -> Readers \union {0}],
              pa_amap : SUBSET (ReadActivities \X Readers)]
ActivityRec == [kind : {"none", "event", "poll"}, owner : Nat,
                dev : Devices \union {NoSource}, period : AllPeriods \union {NoPeriod}]
Message == [ev : {"Add", "Remove"}, a : ReadActivities, src : Sources]
           \union [ev : {"Unregister", "Execute"}, a : ReadActivities, src : {NoSource}]
           \union [ev : {"Register"}, a : ReadActivities, src : {NoSource},
                   kind : {"event", "poll"}, manual : BOOLEAN]
Worlds == [reader : [Readers -> ReaderRec], actions : [Sources -> Readers \union {0}],
           poller : [Pollers -> PollerRec],
           pollerOf : [AllPeriods \union {NoPeriod} -> Pollers \union {0}],
           activity : [ReadActivities -> ActivityRec], inbox : [Devices -> Seq(Message)]]

-----------------------------------------------------------------------------
(* What the thread of a device reads, once it has handled what is queued    *)

\* Readers start with a mode that start tells apart, none goes from events to
\* polling, and one that is polled manually is asked for events by nobody, and
\* to be polled again with a period only (see README, divergences).
ModesAsked ==
  /\ Modes \subseteq {"Change", "Polled", "Manual"}
  /\ \A sw \in Switches : /\ sw[1] \in EventModes => sw[2] \in EventModes
                          /\ sw[1] = "Manual" => sw[2] = "Polled" /\ NoPeriod \notin sw[3]

\* What activity x will read, and what its poller was asked for.
ReadBy(w, x) == Handled(w.inbox[w.activity[x].dev], x, work[x].atts)
Asked(w, x) == {s \in Sources : /\ w.poller[w.activity[x].owner].actions_map[s] # 0
                                /\ DeviceOf[s] = w.activity[x].dev}

\* ts has each member of S once and nothing else.
Each(ts, S) ==
  /\ \A i \in 1..Len(ts) : ts[i] \in S
  /\ \A s \in S : \E i \in 1..Len(ts) : ts[i] = s
  /\ \A i, j \in 1..Len(ts) : ts[i] = ts[j] => i = j

\* The events of x are in the queue of its device; it is registered before it
\* is told what to read.
InOrder(w, x) ==
  \A d \in Devices : \A i \in DOMAIN w.inbox[d] : w.inbox[d][i].a = x =>
    /\ d = w.activity[x].dev /\ w.inbox[d][i].ev # "Unregister"
    /\ w.inbox[d][i].ev = "Register" =>
         work[x].atts = <<>> /\ \A j \in 1..(i - 1) : w.inbox[d][j].a # x

\* Activity x will read each source that was asked for once.
AskedOf(w, x) ==
  /\ w.activity[x].dev \in Devices /\ work[x].atts \in Seq(Sources)
  /\ InOrder(w, x) /\ Each(ReadBy(w, x), Asked(w, x))
AsAsked(w) == \A x \in ReadActivities : w.activity[x].kind = "poll" => AskedOf(w, x)

-----------------------------------------------------------------------------
(* What is true of the main thread's objects in the middle of a call too   *)

\* The service of readers finds each by its source.
ReadersFound(w) ==
  /\ \A r \in Readers : w.reader[r].live =>
       /\ w.reader[r].src \in Sources /\ w.reader[r].period \in AllPeriods
       /\ w.actions[w.reader[r].src] = r
  /\ \A s \in Sources : w.actions[s] # 0 =>
       w.reader[w.actions[s]].live /\ w.reader[w.actions[s]].src = s

\* The polling service finds each poller by its period.
PollersFound(w) ==
  /\ \A k \in Pollers : w.poller[k].live =>
       w.poller[k].period \in AllPeriods /\ w.pollerOf[w.poller[k].period] = k
  /\ \A p \in AllPeriods \union {NoPeriod} : w.pollerOf[p] # 0 =>
       w.poller[w.pollerOf[p]].live /\ w.poller[w.pollerOf[p]].period = p

\* The readers of a poller are in use, have its period and no event activity;
\* each has a pair in pa_amap.
PolledReaders(w) ==
  \A k \in Pollers, s \in Sources :
    LET r == w.poller[k].actions_map[s] IN
    w.poller[k].live /\ r # 0 =>
      /\ w.reader[r].live /\ w.reader[r].src = s
      /\ w.reader[r].period = w.poller[k].period /\ w.reader[r].event = 0
      /\ \E x \in ReadActivities : <<x, r>> \in w.poller[k].pa_amap

\* A pair is of an activity of the poller, for the device of the reader.
PairsKept(w) ==
  \A k \in Pollers, x \in ReadActivities, r \in Readers :
    w.poller[k].live /\ <<x, r>> \in w.poller[k].pa_amap =>
      /\ w.activity[x].kind = "poll" /\ w.activity[x].owner = k
      /\ w.reader[r].live /\ w.activity[x].dev = DeviceOf[w.reader[r].src]
      /\ w.poller[k].actions_map[w.reader[r].src] = r

\* A registered activity belongs to a reader or a poller in use.
ActivitiesOwned(w) ==
  /\ \A x \in ReadActivities :
       /\ w.activity[x].kind = "none" => w.activity[x] = NoActivity
       /\ w.activity[x].kind = "event" =>
            LET r == w.activity[x].owner IN
            r \in Readers /\ w.reader[r].live /\ w.reader[r].event = x
       /\ w.activity[x].kind = "poll" =>
            LET k == w.activity[x].owner IN
            /\ k \in Pollers /\ w.poller[k].live /\ w.activity[x].period = w.poller[k].period
            /\ \E r \in Readers : <<x, r>> \in w.poller[k].pa_amap
  /\ \A x, y \in ReadActivities :
       /\ w.activity[x].kind = "poll" /\ w.activity[y].kind = "poll"
       /\ w.activity[x].dev = w.activity[y].dev /\ w.activity[x].period = w.activity[y].period
       => x = y

Sound(w) == /\ w \in Worlds /\ ReadersFound(w) /\ PollersFound(w) /\ PolledReaders(w)
            /\ PairsKept(w) /\ ActivitiesOwned(w) /\ (ModesAsked => AsAsked(w))

-----------------------------------------------------------------------------
(* How a reader in use gets its data; in the middle of a call it may not.  *)

EventFed(w, r) ==
  LET x == w.reader[r].event IN
  /\ x # 0 /\ w.reader[r].mode \in EventModes
  /\ w.activity[x].kind = "event" /\ w.activity[x].owner = r
PollFed(w, r) ==
  LET k == w.pollerOf[w.reader[r].period] IN
  /\ w.reader[r].event = 0 /\ k # 0
  /\ w.poller[k].actions_map[w.reader[r].src] = r
Fed(w, r) == w.reader[r].live => EventFed(w, r) \/ PollFed(w, r)
AllFed(w) == \A r \in Readers : Fed(w, r)
OthersFed(w, r) == \A q \in Readers : q # r => Fed(w, q)

Detached(w, r) ==
  /\ w.reader[r].live
  /\ \A k \in Pollers, s \in Sources : w.poller[k].live => w.poller[k].actions_map[s] # r
  /\ \A x \in ReadActivities : w.activity[x].kind = "event" => w.activity[x].owner # r

\* A reader has the period of its mode, and a mode of polling if it has no event
\* activity.
InMode(q) == /\ q.mode = "Manual" <=> q.period = ManualPeriod
             /\ q.event = 0 => q.mode \notin EventModes
Moded(w) == \A r \in Readers : w.reader[r].live => InMode(w.reader[r])

\* A call that changes one reader, with the mode and the period it has then.
Rewrites(w, v, r, mode, period) ==
  /\ \A u \in Readers \ {r} : v.reader[u] = w.reader[u]
  /\ v.reader[r].mode = mode /\ v.reader[r].period = period

-----------------------------------------------------------------------------
(* The two properties follow.                                              *)

\* The parts of the world of the main thread.
LEMMA WorldFields ==
  /\ World.reader = reader /\ World.actions = actions /\ World.poller = poller
  /\ World.pollerOf = pollerOf /\ World.activity = activity /\ World.inbox = inbox
BY DEF World

\* In a sound world a poller calls readers that are alive: executePoll finds none deleted.
LEMMA SoundCallsLive == Sound(World) => PollersCallLiveReaders
<1> SUFFICES ASSUME Sound(World) PROVE PollersCallLiveReaders
  OBVIOUS
<1>1. \A k \in Pollers, s \in Sources : poller[k].actions_map[s] \in Readers \union {0}
  BY WorldFields DEF Sound, Worlds, PollerRec
<1>2. ASSUME NEW k \in Pollers, poller[k].live
      PROVE  /\ pollerOf[poller[k].period] = k
             /\ \A s \in Sources : LET r == poller[k].actions_map[s]
                  IN r # 0 => reader[r].live /\ actions[s] = r /\ reader[r].period = poller[k].period
  BY <1>1, <1>2, WorldFields DEF Sound, PollersFound, PolledReaders, ReadersFound
<1>3. ASSUME NEW x \in ReadActivities
      PROVE  /\ activity[x].kind = "event" => reader[activity[x].owner].live
             /\ activity[x].kind = "poll" => poller[activity[x].owner].live
  BY WorldFields DEF Sound, ActivitiesOwned
<1> QED BY <1>2, <1>3 DEF PollersCallLiveReaders

\* Sound objects that feed every reader feed it from one source.
LEMMA FedOnce == Sound(World) /\ AllFed(World) => OneSourceOfData
<1> SUFFICES ASSUME Sound(World), AllFed(World), NEW r \in Readers, reader[r].live
             PROVE  LET own == {x \in ReadActivities : activity[x].kind = "event" /\ activity[x].owner = r}
                        shared == {x \in ReadActivities : Linked(World, x) /\ \E k \in Pollers :
                                     poller[k].live /\ <<x, r>> \in poller[k].pa_amap}
                    IN Cardinality(own) + Cardinality(shared) = 1
  BY DEF OneSourceOfData
<1> DEFINE own == {x \in ReadActivities : activity[x].kind = "event" /\ activity[x].owner = r}
           shared == {x \in ReadActivities : Linked(World, x) /\ \E k \in Pollers :
                        poller[k].live /\ <<x, r>> \in poller[k].pa_amap}
<1>1. /\ reader[r].src \in Sources /\ reader[r].period \in AllPeriods
      /\ reader[r].event \in ReadActivities \union {0}
  BY WorldFields DEF Sound, ReadersFound, Worlds, ReaderRec
<1>2. \A x \in own : reader[r].event = x /\ x # 0
  BY WorldFields DEF Sound, ActivitiesOwned, ReadActivities
<1>3. ASSUME NEW k \in Pollers, NEW x \in ReadActivities, poller[k].live,
             <<x, r>> \in poller[k].pa_amap
      PROVE  /\ reader[r].event = 0 /\ activity[x].kind = "poll" /\ activity[x].owner = k
             /\ activity[x].dev = DeviceOf[reader[r].src]
             /\ reader[r].period = poller[k].period /\ k = pollerOf[reader[r].period]
             /\ activity[x].period = poller[k].period
  <2>1. /\ activity[x].kind = "poll" /\ activity[x].owner = k
        /\ activity[x].dev = DeviceOf[reader[r].src]
        /\ poller[k].actions_map[reader[r].src] = r
    BY <1>3, WorldFields DEF Sound, PairsKept
  <2>2. r # 0
    BY DEF Readers
  <2>3. reader[r].period = poller[k].period /\ reader[r].event = 0
    BY <2>1, <2>2, <1>1, <1>3, WorldFields DEF Sound, PolledReaders
  <2>4. k = pollerOf[poller[k].period]
    BY <1>3, WorldFields DEF Sound, PollersFound
  <2>5. activity[x].period = poller[k].period
    BY <2>1, WorldFields DEF Sound, ActivitiesOwned
  <2> QED BY <2>1, <2>3, <2>4, <2>5
<1>4. \A x \in shared : reader[r].event = 0
  BY <1>3
<1>5. \A x, y \in shared : x = y
  <2> SUFFICES ASSUME NEW x \in shared, NEW y \in shared PROVE x = y
    OBVIOUS
  <2>1. /\ activity[x].kind = "poll" /\ activity[y].kind = "poll"
        /\ activity[x].dev = activity[y].dev /\ activity[x].period = activity[y].period
    BY <1>3
  <2> QED BY <2>1, WorldFields DEF Sound, ActivitiesOwned
<1>6. CASE EventFed(World, r)
  <2>1. own = {reader[r].event}
    BY <1>1, <1>2, <1>6, WorldFields DEF EventFed
  <2>2. shared = {}
    BY <1>4, <1>6, WorldFields DEF EventFed
  <2>3. Cardinality(own) = 1 /\ Cardinality(shared) = 0
    BY <2>1, <2>2, FS_Singleton, FS_EmptySet
  <2> QED BY <2>3
<1>7. CASE PollFed(World, r)
  <2>1. own = {}
    BY <1>2, <1>7, WorldFields DEF PollFed
  <2> DEFINE k == pollerOf[reader[r].period]
  <2>2. k \in Pollers /\ poller[k].live /\ poller[k].actions_map[reader[r].src] = r /\ r # 0
    <3>1. k \in Pollers \union {0}
      BY <1>1, WorldFields DEF Sound, Worlds
    <3> QED BY <3>1, <1>1, <1>7, WorldFields DEF PollFed, Sound, PollersFound, Readers
  <2>3. PICK x \in ReadActivities : <<x, r>> \in poller[k].pa_amap
    <3>1. PolledReaders(World)
      BY DEF Sound
    <3> HIDE DEF k
    <3> QED BY <2>2, <1>1, <3>1, WorldFields DEF PolledReaders
  <2>4. x \in shared
    <3>1. activity[x].kind = "poll"
      BY <2>2, <2>3, <1>3
    <3>2. Linked(World, x)
      BY <3>1, WorldFields DEF Linked, NoActivity
    <3> QED BY <3>2, <2>2, <2>3
  <2>5. shared = {x}
    BY <2>4, <1>5
  <2>6. Cardinality(own) = 0 /\ Cardinality(shared) = 1
    BY <2>1, <2>5, FS_Singleton, FS_EmptySet
  <2> QED BY <2>6
<1> QED BY <1>6, <1>7, WorldFields DEF AllFed, Fed

-----------------------------------------------------------------------------
(* The changes of the main thread's objects, one object at a time          *)

\* On S, g is f but for i, which has y.
Puts(S, f, g, i, y) == g[i] = y /\ \A j \in S \ {i} : g[j] = f[j]

\* PolledReaders and PairsKept, of one reader.
PolledBy(w, k, s, r) ==
  /\ w.reader[r].live /\ w.reader[r].src = s
  /\ w.reader[r].period = w.poller[k].period /\ w.reader[r].event = 0
  /\ \E x \in ReadActivities : <<x, r>> \in w.poller[k].pa_amap
PairedBy(w, k, x, r) ==
  /\ w.activity[x].kind = "poll" /\ w.activity[x].owner = k
  /\ w.reader[r].live /\ w.activity[x].dev = DeviceOf[w.reader[r].src]
  /\ w.poller[k].actions_map[w.reader[r].src] = r

\* A reader that is in the map of a poller is polled by it.
LEMMA PolledReader ==
  ASSUME NEW w, Sound(w), NEW k \in Pollers, NEW s \in Sources, w.poller[k].live,
         NEW r, r # 0, w.poller[k].actions_map[s] = r
  PROVE  PolledBy(w, k, s, r)
BY DEF Sound, PolledReaders, PolledBy

\* A pair of a poller is of its activity and of a reader in its map.
LEMMA PairKept ==
  ASSUME NEW w, Sound(w), NEW k \in Pollers, NEW x \in ReadActivities, NEW r \in Readers,
         w.poller[k].live, <<x, r>> \in w.poller[k].pa_amap
  PROVE  PairedBy(w, k, x, r)
BY DEF Sound, PairsKept, PairedBy

\* An operation that changes only queues.
LEMMA OnlyInbox ==
  ASSUME NEW w, Sound(w), NEW v \in Worlds,
         v.reader = w.reader, v.actions = w.actions, v.poller = w.poller,
         v.pollerOf = w.pollerOf, v.activity = w.activity
  PROVE  /\ (ModesAsked => AsAsked(v)) => Sound(v)
         /\ ReadersFound(v) /\ PollersFound(v) /\ PolledReaders(v) /\ PairsKept(v) /\ ActivitiesOwned(v)
         /\ \A r \in Readers :
              (Fed(w, r) <=> Fed(v, r)) /\ (Detached(w, r) <=> Detached(v, r))
<1>1. ReadersFound(v)
  BY DEF Sound, ReadersFound
<1>2. PollersFound(v)
  BY SMTT(30) DEF Sound, PollersFound
<1>3. PolledReaders(v)
  <2>1. PolledReaders(w)
    BY DEF Sound
  <2> QED BY <2>1 DEF PolledReaders
<1>4. PairsKept(v)
  <2>1. PairsKept(w)
    BY DEF Sound
  <2> QED BY <2>1, SMTT(30) DEF PairsKept
<1>5. ActivitiesOwned(v)
  BY DEF Sound, ActivitiesOwned
<1>6. (ModesAsked => AsAsked(v)) => Sound(v)
  BY <1>1, <1>2, <1>3, <1>4, <1>5 DEF Sound
<1>7. ASSUME NEW r \in Readers
      PROVE  (Fed(w, r) <=> Fed(v, r)) /\ (Detached(w, r) <=> Detached(v, r))
  BY DEF Fed, EventFed, PollFed, Detached
<1> QED BY <1>1, <1>2, <1>3, <1>4, <1>5, <1>6, <1>7

\* A field of a reader that nothing refers to, or one of a reader that nothing
\* refers to.
LEMMA ReaderTouched ==
  ASSUME NEW w, Sound(w), NEW v \in Worlds, NEW r \in Readers, NEW q \in ReaderRec,
         Puts(Readers, w.reader, v.reader, r, q), v.actions = w.actions, v.poller = w.poller,
         v.pollerOf = w.pollerOf, v.activity = w.activity,
         q.live = w.reader[r].live, q.src = w.reader[r].src, q.period \in AllPeriods,
         \/ Detached(w, r)
         \/ q.period = w.reader[r].period /\ q.event = w.reader[r].event,
         ModesAsked => AsAsked(v)
  PROVE  /\ Sound(v)
         /\ \A u \in Readers \ {r} : Fed(w, u) => Fed(v, u)
         /\ Detached(w, r) => Detached(v, r)
         /\ /\ Fed(w, r) /\ ~Detached(w, r)
            /\ q.event # 0 => q.mode \in EventModes
            => Fed(v, r)
<1>1. w \in Worlds
  BY DEF Sound
<1>2. v.reader[r] = q /\ \A u \in Readers \ {r} : v.reader[u] = w.reader[u]
  BY DEF Puts
<1>3. ReadersFound(v)
  <2>1. ASSUME NEW u \in Readers, v.reader[u].live
        PROVE  /\ v.reader[u].src \in Sources /\ v.reader[u].period \in AllPeriods
               /\ v.actions[v.reader[u].src] = u
    BY <1>2, <2>1 DEF Sound, ReadersFound
  <2>2. ASSUME NEW s \in Sources, v.actions[s] # 0
        PROVE  v.reader[v.actions[s]].live /\ v.reader[v.actions[s]].src = s
    <3>1. v.actions[s] \in Readers
      BY <2>2 DEF Worlds
    <3> QED BY <1>2, <2>2, <3>1 DEF Sound, ReadersFound
  <2> QED BY <2>1, <2>2 DEF ReadersFound
<1>4. PollersFound(v)
  BY DEF Sound, PollersFound
<1>5. PolledReaders(v)
  <2> SUFFICES ASSUME NEW k \in Pollers, NEW s \in Sources,
                      v.poller[k].live, v.poller[k].actions_map[s] # 0
               PROVE  LET u == v.poller[k].actions_map[s] IN
                      /\ v.reader[u].live /\ v.reader[u].src = s
                      /\ v.reader[u].period = v.poller[k].period /\ v.reader[u].event = 0
                      /\ \E x \in ReadActivities : <<x, u>> \in v.poller[k].pa_amap
    BY Zenon DEF PolledReaders
  <2> DEFINE u == v.poller[k].actions_map[s]
  <2>1. u \in Readers
    BY SMTT(30) DEF Worlds, PollerRec
  <2>2. /\ w.reader[u].live /\ w.reader[u].src = s
        /\ w.reader[u].period = w.poller[k].period /\ w.reader[u].event = 0
        /\ \E x \in ReadActivities : <<x, u>> \in w.poller[k].pa_amap
    <3>1. w.poller[k].live /\ u # 0 /\ w.poller[k].actions_map[s] = u
      OBVIOUS
    <3> HIDE DEF u
    <3>2. PolledBy(w, k, s, u)
      BY <3>1, PolledReader
    <3> QED BY <3>2 DEF PolledBy
  <2>3. u = r => q.period = w.reader[r].period /\ q.event = w.reader[r].event
    <3>1. u = r => ~Detached(w, r)
      BY DEF Detached
    <3> QED BY <3>1
  <2> HIDE DEF u
  <2>4. /\ v.reader[u].live = w.reader[u].live /\ v.reader[u].src = w.reader[u].src
        /\ v.reader[u].period = w.reader[u].period /\ v.reader[u].event = w.reader[u].event
    BY <1>2, <2>1, <2>3
  <2> QED BY <2>2, <2>4, ZenonT(60) DEF u
<1>6. PairsKept(v)
  <2> SUFFICES ASSUME NEW k \in Pollers, NEW x \in ReadActivities, NEW u \in Readers,
                      v.poller[k].live, <<x, u>> \in v.poller[k].pa_amap
               PROVE  /\ v.activity[x].kind = "poll" /\ v.activity[x].owner = k
                      /\ v.reader[u].live /\ v.activity[x].dev = DeviceOf[v.reader[u].src]
                      /\ v.poller[k].actions_map[v.reader[u].src] = u
    BY DEF PairsKept
  <2>1. /\ w.activity[x].kind = "poll" /\ w.activity[x].owner = k
        /\ w.reader[u].live /\ w.activity[x].dev = DeviceOf[w.reader[u].src]
        /\ w.poller[k].actions_map[w.reader[u].src] = u
    BY DEF Sound, PairsKept
  <2>2. v.reader[u].live = w.reader[u].live /\ v.reader[u].src = w.reader[u].src
    BY <1>2
  <2> QED BY <2>1, <2>2
<1>7. ActivitiesOwned(v)
  <2>1. ASSUME NEW x \in ReadActivities, v.activity[x].kind = "event"
        PROVE  LET u == v.activity[x].owner IN
               u \in Readers /\ v.reader[u].live /\ v.reader[u].event = x
    <3>1. /\ w.activity[x].owner \in Readers /\ w.reader[w.activity[x].owner].live
          /\ w.reader[w.activity[x].owner].event = x
      BY <2>1 DEF Sound, ActivitiesOwned
    <3>2. w.activity[x].owner = r => ~Detached(w, r)
      BY <2>1, SMTT(30) DEF Detached
    <3> QED BY <1>2, <3>1, <3>2, SMTT(30)
  <2>2. ASSUME NEW x \in ReadActivities
        PROVE  /\ v.activity[x].kind = "none" => v.activity[x] = NoActivity
               /\ v.activity[x].kind = "poll" =>
                    LET k == v.activity[x].owner IN
                    /\ k \in Pollers /\ v.poller[k].live /\ v.activity[x].period = v.poller[k].period
                    /\ \E u \in Readers : <<x, u>> \in v.poller[k].pa_amap
    <3>1. /\ w.activity[x].kind = "none" => w.activity[x] = NoActivity
          /\ w.activity[x].kind = "poll" =>
               LET k == w.activity[x].owner IN
               /\ k \in Pollers /\ w.poller[k].live /\ w.activity[x].period = w.poller[k].period
               /\ \E u \in Readers : <<x, u>> \in w.poller[k].pa_amap
      BY DEF Sound, ActivitiesOwned
    <3> QED BY <3>1, SMTT(30)
  <2>3. \A x, y \in ReadActivities :
          /\ v.activity[x].kind = "poll" /\ v.activity[y].kind = "poll"
          /\ v.activity[x].dev = v.activity[y].dev /\ v.activity[x].period = v.activity[y].period
          => x = y
    BY DEF Sound, ActivitiesOwned
  <2> QED BY <2>1, <2>2, <2>3, Zenon DEF ActivitiesOwned
<1>8. Sound(v)
  BY <1>3, <1>4, <1>5, <1>6, <1>7, SMTT(30) DEF Sound
<1>9. \A u \in Readers \ {r} : Fed(w, u) => Fed(v, u)
  BY <1>2, Zenon DEF Fed, EventFed, PollFed
<1>10. ASSUME Detached(w, r)
       PROVE  Detached(v, r)
  <2>1. v.reader[r].live
    BY <1>2, <1>10 DEF Detached
  <2>2. /\ \A k \in Pollers, s \in Sources : v.poller[k].live => v.poller[k].actions_map[s] # r
        /\ \A x \in ReadActivities : v.activity[x].kind = "event" => v.activity[x].owner # r
    BY <1>10 DEF Detached
  <2> QED BY <2>1, <2>2 DEF Detached
<1>11. ASSUME Fed(w, r), ~Detached(w, r), q.event # 0 => q.mode \in EventModes
       PROVE  Fed(v, r)
  <2>1. /\ v.reader[r].live = w.reader[r].live /\ v.reader[r].src = w.reader[r].src
        /\ v.reader[r].period = w.reader[r].period /\ v.reader[r].event = w.reader[r].event
        /\ v.reader[r].event # 0 => v.reader[r].mode \in EventModes
    BY <1>2, <1>11
  <2> QED BY <1>11, <2>1, ZenonT(60) DEF Fed, EventFed, PollFed
<1> QED BY <1>8, <1>9, <1>10, <1>11

\* A reader that nothing refers to is deleted.
LEMMA ReaderDeleted ==
  ASSUME NEW w, Sound(w), NEW v \in Worlds, NEW r \in Readers, Detached(w, r),
         Puts(Readers, w.reader, v.reader, r, NoReader),
         Puts(Sources, w.actions, v.actions, w.reader[r].src, 0),
         v.poller = w.poller, v.pollerOf = w.pollerOf, v.activity = w.activity,
         \A u \in Readers \ {r} : Fed(w, u),
         ModesAsked => AsAsked(v)
  PROVE  Sound(v) /\ AllFed(v)
<1>1. w \in Worlds /\ w.reader[r].live
  BY DEF Sound, Detached
<1>2. v.reader[r] = NoReader /\ \A u \in Readers \ {r} : v.reader[u] = w.reader[u]
  BY DEF Puts
<1>3. ~v.reader[r].live
  BY <1>2 DEF NoReader
<1>4. ReadersFound(v)
  <2> USE DEF Puts
  <2>1. w.actions[w.reader[r].src] = r /\ w.reader[r].src \in Sources
    BY <1>1 DEF Sound, ReadersFound
  <2>2. ASSUME NEW u \in Readers, v.reader[u].live
        PROVE  /\ v.reader[u].src \in Sources /\ v.reader[u].period \in AllPeriods
               /\ v.actions[v.reader[u].src] = u
    <3>1. u # r
      BY <1>3, <2>2
    <3>2. /\ w.reader[u].src \in Sources /\ w.reader[u].period \in AllPeriods
          /\ w.actions[w.reader[u].src] = u
      BY <1>2, <2>2, <3>1 DEF Sound, ReadersFound
    <3>3. w.reader[u].src # w.reader[r].src
      BY <2>1, <3>1, <3>2
    <3> QED BY <1>1, <1>2, <3>1, <3>2, <3>3 DEF Worlds
  <2>3. ASSUME NEW s \in Sources, v.actions[s] # 0
        PROVE  v.reader[v.actions[s]].live /\ v.reader[v.actions[s]].src = s
    <3>1. s # w.reader[r].src /\ v.actions[s] = w.actions[s]
      BY <1>1, <2>1, <2>3 DEF Worlds
    <3>2. w.actions[s] \in Readers /\ w.reader[w.actions[s]].live
          /\ w.reader[w.actions[s]].src = s
      BY <1>1, <2>3, <3>1 DEF Worlds, Sound, ReadersFound
    <3>3. w.actions[s] # r
      BY <3>1, <3>2
    <3> QED BY <1>2, <3>1, <3>2, <3>3
  <2> QED BY <2>2, <2>3 DEF ReadersFound
<1>5. PollersFound(v)
  BY SMTT(30) DEF Sound, PollersFound
<1>6. PolledReaders(v)
  <2> SUFFICES ASSUME NEW k \in Pollers, NEW s \in Sources,
                      v.poller[k].live, v.poller[k].actions_map[s] # 0
               PROVE  LET u == v.poller[k].actions_map[s] IN
                      /\ v.reader[u].live /\ v.reader[u].src = s
                      /\ v.reader[u].period = v.poller[k].period /\ v.reader[u].event = 0
                      /\ \E x \in ReadActivities : <<x, u>> \in v.poller[k].pa_amap
    BY ZenonT(60) DEF PolledReaders
  <2> DEFINE u == v.poller[k].actions_map[s]
  <2>1. u \in Readers
    BY DEF Worlds, PollerRec
  <2>2. /\ w.reader[u].live /\ w.reader[u].src = s
        /\ w.reader[u].period = w.poller[k].period /\ w.reader[u].event = 0
        /\ \E x \in ReadActivities : <<x, u>> \in w.poller[k].pa_amap
    <3>1. w.poller[k].live /\ u # 0 /\ w.poller[k].actions_map[s] = u
      OBVIOUS
    <3> HIDE DEF u
    <3>2. PolledBy(w, k, s, u)
      BY <3>1, PolledReader
    <3> QED BY <3>2 DEF PolledBy
  <2>3. u # r
    BY DEF Detached
  <2> HIDE DEF u
  <2>4. v.reader[u] = w.reader[u]
    BY <1>2, <2>1, <2>3
  <2> QED BY <2>2, <2>4, ZenonT(60) DEF u
<1>7. PairsKept(v)
  <2> SUFFICES ASSUME NEW k \in Pollers, NEW x \in ReadActivities, NEW u \in Readers,
                      v.poller[k].live, <<x, u>> \in v.poller[k].pa_amap
               PROVE  /\ v.activity[x].kind = "poll" /\ v.activity[x].owner = k
                      /\ v.reader[u].live /\ v.activity[x].dev = DeviceOf[v.reader[u].src]
                      /\ v.poller[k].actions_map[v.reader[u].src] = u
    BY DEF PairsKept
  <2>1. /\ w.activity[x].kind = "poll" /\ w.activity[x].owner = k
        /\ w.reader[u].live /\ w.activity[x].dev = DeviceOf[w.reader[u].src]
        /\ w.poller[k].actions_map[w.reader[u].src] = u
    BY DEF Sound, PairsKept
  <2>2. u # r
    <3>1. u = r => w.reader[u].src \in Sources
      BY <2>1, SMTT(30) DEF Sound, ReadersFound
    <3> QED BY <2>1, <3>1 DEF Detached
  <2> QED BY <1>2, <2>1, <2>2
<1>8. ActivitiesOwned(v)
  <2>1. ASSUME NEW x \in ReadActivities, v.activity[x].kind = "event"
        PROVE  LET u == v.activity[x].owner IN
               u \in Readers /\ v.reader[u].live /\ v.reader[u].event = x
    <3>1. /\ w.activity[x].owner \in Readers /\ w.reader[w.activity[x].owner].live
          /\ w.reader[w.activity[x].owner].event = x
      BY <2>1 DEF Sound, ActivitiesOwned
    <3>2. w.activity[x].owner # r
      BY <2>1, SMTT(30) DEF Detached
    <3> QED BY <1>2, <3>1, <3>2, SMTT(30)
  <2>2. ASSUME NEW x \in ReadActivities
        PROVE  /\ v.activity[x].kind = "none" => v.activity[x] = NoActivity
               /\ v.activity[x].kind = "poll" =>
                    LET k == v.activity[x].owner IN
                    /\ k \in Pollers /\ v.poller[k].live /\ v.activity[x].period = v.poller[k].period
                    /\ \E u \in Readers : <<x, u>> \in v.poller[k].pa_amap
    <3>1. /\ w.activity[x].kind = "none" => w.activity[x] = NoActivity
          /\ w.activity[x].kind = "poll" =>
               LET k == w.activity[x].owner IN
               /\ k \in Pollers /\ w.poller[k].live /\ w.activity[x].period = w.poller[k].period
               /\ \E u \in Readers : <<x, u>> \in w.poller[k].pa_amap
      BY SMTT(30) DEF Sound, ActivitiesOwned
    <3> QED BY <3>1, SMTT(30)
  <2>3. \A x, y \in ReadActivities :
          /\ v.activity[x].kind = "poll" /\ v.activity[y].kind = "poll"
          /\ v.activity[x].dev = v.activity[y].dev /\ v.activity[x].period = v.activity[y].period
          => x = y
    BY DEF Sound, ActivitiesOwned
  <2> QED BY <2>1, <2>2, <2>3 DEF ActivitiesOwned
<1>9. Sound(v)
  BY <1>4, <1>5, <1>6, <1>7, <1>8 DEF Sound
<1>10. ASSUME NEW u \in Readers
       PROVE  Fed(v, u)
  <2>1. CASE u = r
    BY <1>3, <2>1, SMTT(30) DEF Fed
  <2>2. CASE u # r
    <3>1. Fed(w, u) /\ v.reader[u] = w.reader[u]
      BY <1>2, <2>2
    <3> QED BY <3>1, Zenon DEF Fed, EventFed, PollFed
  <2> QED BY <2>1, <2>2
<1> QED BY <1>9, <1>10 DEF AllFed

\* A reader is created for a source that has none.
LEMMA ReaderCreated ==
  ASSUME NEW w, Sound(w), NEW v \in Worlds, NEW r \in FreeReaders(w), NEW s \in Sources,
         w.actions[s] = 0, NEW q \in ReaderRec, q.live, q.src = s, q.period \in AllPeriods,
         q.event = 0,
         Puts(Readers, w.reader, v.reader, r, q), Puts(Sources, w.actions, v.actions, s, r),
         v.poller = w.poller, v.pollerOf = w.pollerOf, v.activity = w.activity,
         ModesAsked => AsAsked(v)
  PROVE  /\ Sound(v) /\ Detached(v, r)
         /\ \A u \in Readers \ {r} : Fed(w, u) => Fed(v, u)
<1>1. w \in Worlds /\ r \in Readers /\ ~w.reader[r].live
  BY DEF Sound, FreeReaders
<1>2. v.reader[r] = q /\ \A u \in Readers \ {r} : v.reader[u] = w.reader[u]
  BY DEF Puts
<1>3. v.actions[s] = r /\ \A t \in Sources \ {s} : v.actions[t] = w.actions[t]
  BY DEF Puts
<1>4. ReadersFound(v)
  <2>1. ASSUME NEW u \in Readers, v.reader[u].live
        PROVE  /\ v.reader[u].src \in Sources /\ v.reader[u].period \in AllPeriods
               /\ v.actions[v.reader[u].src] = u
    <3>1. CASE u = r
      BY <1>2, <1>3, <3>1
    <3>2. CASE u # r
      <4>1. /\ w.reader[u].src \in Sources /\ w.reader[u].period \in AllPeriods
            /\ w.actions[w.reader[u].src] = u
        BY <1>2, <2>1, <3>2 DEF Sound, ReadersFound
      <4>2. w.reader[u].src # s
        BY <4>1 DEF Readers
      <4> QED BY <1>2, <1>3, <3>2, <4>1, <4>2
    <3> QED BY <3>1, <3>2
  <2>2. ASSUME NEW t \in Sources, v.actions[t] # 0
        PROVE  v.reader[v.actions[t]].live /\ v.reader[v.actions[t]].src = t
    <3>1. CASE t = s
      BY <1>2, <1>3, <3>1
    <3>2. CASE t # s
      <4>1. w.actions[t] \in Readers /\ w.reader[w.actions[t]].live
            /\ w.reader[w.actions[t]].src = t
        BY <1>1, <1>3, <2>2, <3>2 DEF Worlds, Sound, ReadersFound
      <4> QED BY <1>1, <1>2, <1>3, <3>2, <4>1
    <3> QED BY <3>1, <3>2
  <2> QED BY <2>1, <2>2 DEF ReadersFound
<1>5. PollersFound(v)
  BY SMTT(30) DEF Sound, PollersFound
<1>6. PolledReaders(v)
  <2> SUFFICES ASSUME NEW k \in Pollers, NEW t \in Sources,
                      v.poller[k].live, v.poller[k].actions_map[t] # 0
               PROVE  LET u == v.poller[k].actions_map[t] IN
                      /\ v.reader[u].live /\ v.reader[u].src = t
                      /\ v.reader[u].period = v.poller[k].period /\ v.reader[u].event = 0
                      /\ \E x \in ReadActivities : <<x, u>> \in v.poller[k].pa_amap
    BY ZenonT(60) DEF PolledReaders
  <2> DEFINE u == v.poller[k].actions_map[t]
  <2>1. u \in Readers
    BY SMTT(30) DEF Worlds, PollerRec
  <2>2. /\ w.reader[u].live /\ w.reader[u].src = t
        /\ w.reader[u].period = w.poller[k].period /\ w.reader[u].event = 0
        /\ \E x \in ReadActivities : <<x, u>> \in w.poller[k].pa_amap
    BY DEF Sound, PolledReaders
  <2> HIDE DEF u
  <2>3. v.reader[u] = w.reader[u]
    BY <1>1, <1>2, <2>1, <2>2
  <2> QED BY <2>2, <2>3, ZenonT(60) DEF u
<1>7. PairsKept(v)
  <2> SUFFICES ASSUME NEW k \in Pollers, NEW x \in ReadActivities, NEW u \in Readers,
                      v.poller[k].live, <<x, u>> \in v.poller[k].pa_amap
               PROVE  /\ v.activity[x].kind = "poll" /\ v.activity[x].owner = k
                      /\ v.reader[u].live /\ v.activity[x].dev = DeviceOf[v.reader[u].src]
                      /\ v.poller[k].actions_map[v.reader[u].src] = u
    BY DEF PairsKept
  <2>1. /\ w.activity[x].kind = "poll" /\ w.activity[x].owner = k
        /\ w.reader[u].live /\ w.activity[x].dev = DeviceOf[w.reader[u].src]
        /\ w.poller[k].actions_map[w.reader[u].src] = u
    BY SMTT(30) DEF Sound, PairsKept
  <2> QED BY <1>1, <1>2, <2>1
<1>8. ActivitiesOwned(v)
  <2>1. ASSUME NEW x \in ReadActivities, v.activity[x].kind = "event"
        PROVE  LET u == v.activity[x].owner IN
               u \in Readers /\ v.reader[u].live /\ v.reader[u].event = x
    <3>1. /\ w.activity[x].owner \in Readers /\ w.reader[w.activity[x].owner].live
          /\ w.reader[w.activity[x].owner].event = x
      BY <2>1 DEF Sound, ActivitiesOwned
    <3> QED BY <1>1, <1>2, <3>1, SMTT(30)
  <2>2. ASSUME NEW x \in ReadActivities
        PROVE  /\ v.activity[x].kind = "none" => v.activity[x] = NoActivity
               /\ v.activity[x].kind = "poll" =>
                    LET k == v.activity[x].owner IN
                    /\ k \in Pollers /\ v.poller[k].live /\ v.activity[x].period = v.poller[k].period
                    /\ \E u \in Readers : <<x, u>> \in v.poller[k].pa_amap
    <3>1. /\ w.activity[x].kind = "none" => w.activity[x] = NoActivity
          /\ w.activity[x].kind = "poll" =>
               LET k == w.activity[x].owner IN
               /\ k \in Pollers /\ w.poller[k].live /\ w.activity[x].period = w.poller[k].period
               /\ \E u \in Readers : <<x, u>> \in w.poller[k].pa_amap
      BY DEF Sound, ActivitiesOwned
    <3> QED BY <3>1
  <2>3. \A x, y \in ReadActivities :
          /\ v.activity[x].kind = "poll" /\ v.activity[y].kind = "poll"
          /\ v.activity[x].dev = v.activity[y].dev /\ v.activity[x].period = v.activity[y].period
          => x = y
    BY DEF Sound, ActivitiesOwned
  <2> QED BY <2>1, <2>2, <2>3 DEF ActivitiesOwned
<1>9. Sound(v)
  BY <1>4, <1>5, <1>6, <1>7, <1>8 DEF Sound
<1>10. Detached(v, r)
  <2>1. v.reader[r].live
    BY <1>2
  <2>2. /\ \A k \in Pollers, t \in Sources : v.poller[k].live => v.poller[k].actions_map[t] # r
        /\ \A x \in ReadActivities : v.activity[x].kind = "event" => v.activity[x].owner # r
    BY SMTT(30) DEF FreeReaders
  <2> QED BY <2>1, <2>2 DEF Detached
<1>11. \A u \in Readers \ {r} : Fed(w, u) => Fed(v, u)
  BY <1>2, Zenon DEF Fed, EventFed, PollFed
<1> QED BY <1>9, <1>10, <1>11

\* The event activity of a reader is unregistered.
LEMMA EventLeft ==
  ASSUME NEW w, Sound(w), NEW v \in Worlds, NEW r \in Readers, w.reader[r].live, EventFed(w, r),
         v.reader = w.reader, v.actions = w.actions,
         v.poller = w.poller, v.pollerOf = w.pollerOf,
         Puts(ReadActivities, w.activity, v.activity, w.reader[r].event, NoActivity),
         ModesAsked => AsAsked(v)
  PROVE  /\ Sound(v) /\ Detached(v, r)
         /\ \A u \in Readers \ {r} : Fed(w, u) => Fed(v, u)
<1> DEFINE e == w.reader[r].event
<1>1. /\ w \in Worlds /\ e \in ReadActivities /\ e # 0
      /\ w.activity[e].kind = "event" /\ w.activity[e].owner = r
  BY DEF Sound, Worlds, ReaderRec, EventFed
<1> HIDE DEF e
<1>2. v.activity[e] = NoActivity /\ \A x \in ReadActivities \ {e} : v.activity[x] = w.activity[x]
  BY DEF e, Puts
<1>3. v.activity[e].kind = "none"
  BY <1>2 DEF NoActivity
<1>4. ReadersFound(v)
  BY DEF Sound, ReadersFound
<1>5. PollersFound(v)
  BY SMTT(30) DEF Sound, PollersFound
<1>6. PolledReaders(v)
  BY DEF Sound, PolledReaders
<1>7. PairsKept(v)
  <2> SUFFICES ASSUME NEW k \in Pollers, NEW x \in ReadActivities, NEW u \in Readers,
                      v.poller[k].live, <<x, u>> \in v.poller[k].pa_amap
               PROVE  /\ v.activity[x].kind = "poll" /\ v.activity[x].owner = k
                      /\ v.reader[u].live /\ v.activity[x].dev = DeviceOf[v.reader[u].src]
                      /\ v.poller[k].actions_map[v.reader[u].src] = u
    BY DEF PairsKept
  <2>1. /\ w.activity[x].kind = "poll" /\ w.activity[x].owner = k
        /\ w.reader[u].live /\ w.activity[x].dev = DeviceOf[w.reader[u].src]
        /\ w.poller[k].actions_map[w.reader[u].src] = u
    BY SMTT(30) DEF Sound, PairsKept
  <2> QED BY <1>1, <1>2, <2>1
<1>8. ActivitiesOwned(v)
  <2>1. ASSUME NEW x \in ReadActivities
        PROVE  /\ v.activity[x].kind = "none" => v.activity[x] = NoActivity
               /\ v.activity[x].kind = "event" =>
                    LET u == v.activity[x].owner IN
                    u \in Readers /\ v.reader[u].live /\ v.reader[u].event = x
               /\ v.activity[x].kind = "poll" =>
                    LET k == v.activity[x].owner IN
                    /\ k \in Pollers /\ v.poller[k].live /\ v.activity[x].period = v.poller[k].period
                    /\ \E u \in Readers : <<x, u>> \in v.poller[k].pa_amap
    <3>1. CASE x = e
      BY <1>2, <1>3, <3>1, SMTT(30)
    <3>2. CASE x # e
      <4>1. v.activity[x] = w.activity[x]
        BY <1>2, <3>2
      <4>2. /\ w.activity[x].kind = "none" => w.activity[x] = NoActivity
            /\ w.activity[x].kind = "event" =>
                 LET u == w.activity[x].owner IN
                 u \in Readers /\ w.reader[u].live /\ w.reader[u].event = x
            /\ w.activity[x].kind = "poll" =>
                 LET k == w.activity[x].owner IN
                 /\ k \in Pollers /\ w.poller[k].live /\ w.activity[x].period = w.poller[k].period
                 /\ \E u \in Readers : <<x, u>> \in w.poller[k].pa_amap
        BY SMTT(30) DEF Sound, ActivitiesOwned
      <4> QED BY <4>1, <4>2, SMTT(30)
    <3> QED BY <3>1, <3>2
  <2>2. ASSUME NEW x \in ReadActivities, NEW y \in ReadActivities,
               v.activity[x].kind = "poll", v.activity[y].kind = "poll",
               v.activity[x].dev = v.activity[y].dev, v.activity[x].period = v.activity[y].period
        PROVE  x = y
    <3>1. x # e /\ y # e
      BY <1>3, <2>2
    <3> QED BY <1>2, <2>2, <3>1 DEF Sound, ActivitiesOwned
  <2> QED BY <2>1, <2>2, SMTT(30) DEF ActivitiesOwned
<1>9. Sound(v)
  BY <1>4, <1>5, <1>6, <1>7, <1>8 DEF Sound
<1>10. Detached(v, r)
  <2>1. ASSUME NEW k \in Pollers, NEW s \in Sources, v.poller[k].live, v.poller[k].actions_map[s] = r
        PROVE  FALSE
    <3>1. r # 0
      BY SMTT(30) DEF Readers
    <3>2. w.reader[r].event = 0
      BY <2>1, <3>1 DEF Sound, PolledReaders
    <3> QED BY <1>1, <3>2 DEF e
  <2>2. ASSUME NEW x \in ReadActivities, v.activity[x].kind = "event", v.activity[x].owner = r
        PROVE  FALSE
    <3>1. x # e
      BY <1>3, <2>2
    <3>2. w.reader[r].event = x
      BY <1>2, <2>2, <3>1 DEF Sound, ActivitiesOwned
    <3> QED BY <3>1, <3>2 DEF e
  <2> QED BY <2>1, <2>2 DEF Detached
<1>11. ASSUME NEW u \in Readers \ {r}, Fed(w, u)
       PROVE  Fed(v, u)
  <2>1. CASE EventFed(w, u)
    <3>1. w.reader[u].event # e /\ w.reader[u].event \in ReadActivities
      BY <1>1, <2>1, SMTT(30) DEF EventFed, Worlds, ReaderRec
    <3> QED BY <1>2, <2>1, <3>1 DEF Fed, EventFed
  <2>2. CASE PollFed(w, u)
    BY <2>2 DEF Fed, PollFed
  <2> QED BY <1>11, <2>1, <2>2 DEF Fed
<1> QED BY <1>9, <1>10, <1>11

\* A reader that has no source of data registers an event activity.
LEMMA EventJoined ==
  ASSUME NEW w, Sound(w), NEW v \in Worlds, NEW r \in Readers, Detached(w, r),
         NEW e \in ReadActivities, w.activity[e] = NoActivity,
         NEW q \in ReaderRec, q.live, q.src = w.reader[r].src, q.period = w.reader[r].period,
         q.event = e, q.mode \in EventModes,
         Puts(Readers, w.reader, v.reader, r, q), v.actions = w.actions,
         v.poller = w.poller, v.pollerOf = w.pollerOf,
         NEW a \in ActivityRec, a.kind = "event", a.owner = r,
         Puts(ReadActivities, w.activity, v.activity, e, a),
         ModesAsked => AsAsked(v)
  PROVE  /\ Sound(v) /\ EventFed(v, r)
         /\ \A u \in Readers \ {r} : Fed(w, u) => Fed(v, u)
<1>1. w \in Worlds /\ w.reader[r].live
  BY DEF Sound, Detached
<1>2. v.reader[r] = q /\ \A u \in Readers \ {r} : v.reader[u] = w.reader[u]
  BY DEF Puts
<1>3. v.activity[e] = a /\ \A x \in ReadActivities \ {e} : v.activity[x] = w.activity[x]
  BY DEF Puts
<1>4. w.activity[e].kind = "none" /\ e # 0
  BY DEF NoActivity, ReadActivities
<1>5. ReadersFound(v)
  <2>1. ASSUME NEW u \in Readers, v.reader[u].live
        PROVE  /\ v.reader[u].src \in Sources /\ v.reader[u].period \in AllPeriods
               /\ v.actions[v.reader[u].src] = u
    BY <1>1, <1>2, <2>1 DEF Sound, ReadersFound
  <2>2. ASSUME NEW s \in Sources, v.actions[s] # 0
        PROVE  v.reader[v.actions[s]].live /\ v.reader[v.actions[s]].src = s
    <3>1. v.actions[s] \in Readers
      BY <2>2 DEF Worlds
    <3> QED BY <1>2, <2>2, <3>1 DEF Sound, ReadersFound
  <2> QED BY <2>1, <2>2 DEF ReadersFound
<1>6. PollersFound(v)
  BY SMTT(30) DEF Sound, PollersFound
<1>7. PolledReaders(v)
  <2> SUFFICES ASSUME NEW k \in Pollers, NEW s \in Sources,
                      v.poller[k].live, v.poller[k].actions_map[s] # 0
               PROVE  LET u == v.poller[k].actions_map[s] IN
                      /\ v.reader[u].live /\ v.reader[u].src = s
                      /\ v.reader[u].period = v.poller[k].period /\ v.reader[u].event = 0
                      /\ \E x \in ReadActivities : <<x, u>> \in v.poller[k].pa_amap
    BY DEF PolledReaders
  <2> DEFINE u == v.poller[k].actions_map[s]
  <2>1. u \in Readers
    BY SMTT(30) DEF Worlds, PollerRec
  <2>2. /\ w.reader[u].live /\ w.reader[u].src = s
        /\ w.reader[u].period = w.poller[k].period /\ w.reader[u].event = 0
        /\ \E x \in ReadActivities : <<x, u>> \in w.poller[k].pa_amap
    <3>1. w.poller[k].live /\ u # 0 /\ w.poller[k].actions_map[s] = u
      OBVIOUS
    <3> HIDE DEF u
    <3>2. PolledBy(w, k, s, u)
      BY <3>1, PolledReader
    <3> QED BY <3>2 DEF PolledBy
  <2>3. u # r
    BY DEF Detached
  <2> HIDE DEF u
  <2>4. v.reader[u] = w.reader[u]
    BY <1>2, <2>1, <2>3
  <2> QED BY <2>2, <2>4, SMTT(30) DEF u
<1>8. PairsKept(v)
  <2> SUFFICES ASSUME NEW k \in Pollers, NEW x \in ReadActivities, NEW u \in Readers,
                      v.poller[k].live, <<x, u>> \in v.poller[k].pa_amap
               PROVE  /\ v.activity[x].kind = "poll" /\ v.activity[x].owner = k
                      /\ v.reader[u].live /\ v.activity[x].dev = DeviceOf[v.reader[u].src]
                      /\ v.poller[k].actions_map[v.reader[u].src] = u
    BY DEF PairsKept
  <2>1. /\ w.activity[x].kind = "poll" /\ w.activity[x].owner = k
        /\ w.reader[u].live /\ w.activity[x].dev = DeviceOf[w.reader[u].src]
        /\ w.poller[k].actions_map[w.reader[u].src] = u
    BY DEF Sound, PairsKept
  <2>2. v.activity[x] = w.activity[x]
    BY <1>3, <1>4, <2>1
  <2>3. v.reader[u].live /\ v.reader[u].src = w.reader[u].src
    BY <1>2, <2>1, SMTT(30)
  <2> QED BY <2>1, <2>2, <2>3
<1>9. ActivitiesOwned(v)
  <2>1. ASSUME NEW x \in ReadActivities
        PROVE  /\ v.activity[x].kind = "none" => v.activity[x] = NoActivity
               /\ v.activity[x].kind = "event" =>
                    LET u == v.activity[x].owner IN
                    u \in Readers /\ v.reader[u].live /\ v.reader[u].event = x
               /\ v.activity[x].kind = "poll" =>
                    LET k == v.activity[x].owner IN
                    /\ k \in Pollers /\ v.poller[k].live /\ v.activity[x].period = v.poller[k].period
                    /\ \E u \in Readers : <<x, u>> \in v.poller[k].pa_amap
    <3>1. CASE x = e
      BY <1>2, <1>3, <3>1, SMTT(30)
    <3>2. CASE x # e
      <4>1. v.activity[x] = w.activity[x]
        BY <1>3, <3>2
      <4>2. ASSUME w.activity[x].kind = "event"
            PROVE  LET u == w.activity[x].owner IN
                   u \in Readers /\ v.reader[u].live /\ v.reader[u].event = x
        <5>1. w.activity[x].owner # r
          BY <4>2, SMTT(30) DEF Detached
        <5>2. LET u == w.activity[x].owner IN
                u \in Readers /\ w.reader[u].live /\ w.reader[u].event = x
          BY <4>2, SMTT(30) DEF Sound, ActivitiesOwned
        <5> QED BY <1>2, <5>1, <5>2
      <4>3. /\ w.activity[x].kind = "none" => w.activity[x] = NoActivity
            /\ w.activity[x].kind = "poll" =>
                 LET k == w.activity[x].owner IN
                 /\ k \in Pollers /\ w.poller[k].live /\ w.activity[x].period = w.poller[k].period
                 /\ \E u \in Readers : <<x, u>> \in w.poller[k].pa_amap
        BY SMTT(30) DEF Sound, ActivitiesOwned
      <4> QED BY <4>1, <4>2, <4>3
    <3> QED BY <3>1, <3>2
  <2>2. ASSUME NEW x \in ReadActivities, NEW y \in ReadActivities,
               v.activity[x].kind = "poll", v.activity[y].kind = "poll",
               v.activity[x].dev = v.activity[y].dev, v.activity[x].period = v.activity[y].period
        PROVE  x = y
    <3>1. x # e /\ y # e
      BY <1>3, <2>2
    <3> QED BY <1>3, <2>2, <3>1 DEF Sound, ActivitiesOwned
  <2>3. \A x, y \in ReadActivities :
          /\ v.activity[x].kind = "poll" /\ v.activity[y].kind = "poll"
          /\ v.activity[x].dev = v.activity[y].dev /\ v.activity[x].period = v.activity[y].period
          => x = y
    BY <2>2
  <2> QED BY <2>1, <2>3, Zenon DEF ActivitiesOwned
<1>10. Sound(v)
  BY <1>5, <1>6, <1>7, <1>8, <1>9 DEF Sound
<1>11. EventFed(v, r)
  BY <1>2, <1>3, <1>4 DEF EventFed
<1>12. ASSUME NEW u \in Readers \ {r}, Fed(w, u)
       PROVE  Fed(v, u)
  <2>1. v.reader[u] = w.reader[u]
    BY <1>2
  <2>2. CASE EventFed(w, u)
    <3>1. w.reader[u].event # e /\ w.reader[u].event \in ReadActivities
      BY <1>1, <1>4, <2>2, SMTT(30) DEF EventFed, Worlds, ReaderRec
    <3> QED BY <1>3, <2>1, <2>2, <3>1 DEF Fed, EventFed
  <2>3. CASE PollFed(w, u)
    BY <2>1, <2>3 DEF Fed, PollFed
  <2>4. CASE ~w.reader[u].live
    BY <2>1, <2>4, SMTT(30) DEF Fed
  <2> QED BY <1>12, <2>2, <2>3, <2>4 DEF Fed
<1> QED BY <1>10, <1>11, <1>12

\* A reader stays with a poller that keeps it.
LEMMA StaysPolled ==
  ASSUME NEW w, NEW v, NEW r, PollFed(w, r), v.reader[r] = w.reader[r],
         v.pollerOf[w.reader[r].period] = w.pollerOf[w.reader[r].period],
         LET k == w.pollerOf[w.reader[r].period]
         IN  v.poller[k].actions_map[w.reader[r].src] = w.poller[k].actions_map[w.reader[r].src]
  PROVE  PollFed(v, r)
BY Zenon DEF PollFed

\* A reader stays with an event activity that goes on.
LEMMA StaysEventFed ==
  ASSUME NEW w, NEW v, NEW r, EventFed(w, r), v.reader[r] = w.reader[r],
         v.activity[w.reader[r].event] = w.activity[w.reader[r].event]
  PROVE  EventFed(v, r)
BY DEF EventFed

\* A poller is created for a period that has none.
LEMMA PollerCreated ==
  ASSUME NEW w, Sound(w), NEW v \in Worlds, NEW k \in FreePollers(w), NEW p \in AllPeriods,
         w.pollerOf[p] = 0, NEW q \in PollerRec, q.live, q.period = p,
         q.actions_map = [s \in Sources |-> 0], q.pa_amap = {},
         v.reader = w.reader, v.actions = w.actions, v.activity = w.activity,
         Puts(Pollers, w.poller, v.poller, k, q), Puts(AllPeriods \union {NoPeriod}, w.pollerOf, v.pollerOf, p, k),
         ModesAsked => AsAsked(v)
  PROVE  /\ Sound(v)
         /\ \A r \in Readers : (Detached(w, r) => Detached(v, r)) /\ (Fed(w, r) => Fed(v, r))
<1>1. w \in Worlds /\ k \in Pollers /\ ~w.poller[k].live
  BY DEF Sound, FreePollers
<1>2. v.poller[k] = q /\ \A j \in Pollers \ {k} : v.poller[j] = w.poller[j]
  BY DEF Puts
<1>3. v.pollerOf[p] = k /\ \A t \in (AllPeriods \union {NoPeriod}) \ {p} : v.pollerOf[t] = w.pollerOf[t]
  BY DEF Puts
<1>4. ReadersFound(v)
  BY DEF Sound, ReadersFound
<1>5. PollersFound(v)
  <2>1. ASSUME NEW j \in Pollers, v.poller[j].live
        PROVE  v.poller[j].period \in AllPeriods /\ v.pollerOf[v.poller[j].period] = j
    <3>1. CASE j = k
      BY <1>2, <1>3, <3>1
    <3>2. CASE j # k
      <4>1. w.poller[j].period \in AllPeriods /\ w.pollerOf[w.poller[j].period] = j
        BY <1>2, <2>1, <3>2 DEF Sound, PollersFound
      <4>2. w.poller[j].period # p
        BY <4>1 DEF Pollers
      <4> QED BY <1>2, <1>3, <3>2, <4>1, <4>2
    <3> QED BY <3>1, <3>2
  <2>2. ASSUME NEW t \in AllPeriods \union {NoPeriod}, v.pollerOf[t] # 0
        PROVE  v.poller[v.pollerOf[t]].live /\ v.poller[v.pollerOf[t]].period = t
    <3>1. CASE t = p
      BY <1>2, <1>3, <3>1
    <3>2. CASE t # p
      <4>1. /\ w.pollerOf[t] \in Pollers /\ w.poller[w.pollerOf[t]].live
            /\ w.poller[w.pollerOf[t]].period = t
        BY <1>1, <1>3, <2>2, <3>2, SMTT(30) DEF Worlds, Sound, PollersFound
      <4> QED BY <1>1, <1>2, <1>3, <3>2, <4>1
    <3> QED BY <3>1, <3>2
  <2> QED BY <2>1, <2>2 DEF PollersFound
<1>6. PolledReaders(v)
  <2> SUFFICES ASSUME NEW j \in Pollers, NEW s \in Sources,
                      v.poller[j].live, v.poller[j].actions_map[s] # 0
               PROVE  LET r == v.poller[j].actions_map[s] IN
                      /\ v.reader[r].live /\ v.reader[r].src = s
                      /\ v.reader[r].period = v.poller[j].period /\ v.reader[r].event = 0
                      /\ \E x \in ReadActivities : <<x, r>> \in v.poller[j].pa_amap
    BY SMTT(30) DEF PolledReaders
  <2>1. v.poller[j] = w.poller[j]
    BY <1>2, SMTT(30)
  <2> DEFINE r == w.poller[j].actions_map[s]
  <2>2. /\ w.reader[r].live /\ w.reader[r].src = s
        /\ w.reader[r].period = w.poller[j].period /\ w.reader[r].event = 0
        /\ \E x \in ReadActivities : <<x, r>> \in w.poller[j].pa_amap
    BY <2>1 DEF Sound, PolledReaders
  <2> QED BY <2>1, <2>2, SMTT(30)
<1>7. PairsKept(v)
  <2> SUFFICES ASSUME NEW j \in Pollers, NEW x \in ReadActivities, NEW r \in Readers,
                      v.poller[j].live, <<x, r>> \in v.poller[j].pa_amap
               PROVE  /\ v.activity[x].kind = "poll" /\ v.activity[x].owner = j
                      /\ v.reader[r].live /\ v.activity[x].dev = DeviceOf[v.reader[r].src]
                      /\ v.poller[j].actions_map[v.reader[r].src] = r
    BY DEF PairsKept
  <2>1. v.poller[j] = w.poller[j]
    BY <1>2, SMTT(30)
  <2> QED BY <2>1 DEF Sound, PairsKept
<1>8. ActivitiesOwned(v)
  <2>1. ASSUME NEW x \in ReadActivities, v.activity[x].kind = "poll"
        PROVE  LET j == v.activity[x].owner IN
               /\ j \in Pollers /\ v.poller[j].live /\ v.activity[x].period = v.poller[j].period
               /\ \E r \in Readers : <<x, r>> \in v.poller[j].pa_amap
    <3>1. LET j == w.activity[x].owner IN
            /\ j \in Pollers /\ w.poller[j].live /\ w.activity[x].period = w.poller[j].period
            /\ \E r \in Readers : <<x, r>> \in w.poller[j].pa_amap
      BY <2>1 DEF Sound, ActivitiesOwned
    <3>2. w.activity[x].owner # k
      BY <1>1, <3>1, SMTT(30)
    <3> QED BY <1>2, <3>1, <3>2, SMTT(30)
  <2>2. \A x \in ReadActivities :
          /\ v.activity[x].kind = "none" => v.activity[x] = NoActivity
          /\ v.activity[x].kind = "event" =>
               LET r == v.activity[x].owner IN
               r \in Readers /\ v.reader[r].live /\ v.reader[r].event = x
    BY SMTT(30) DEF Sound, ActivitiesOwned
  <2>3. \A x, y \in ReadActivities :
          /\ v.activity[x].kind = "poll" /\ v.activity[y].kind = "poll"
          /\ v.activity[x].dev = v.activity[y].dev /\ v.activity[x].period = v.activity[y].period
          => x = y
    BY DEF Sound, ActivitiesOwned
  <2> QED BY <2>1, <2>2, <2>3 DEF ActivitiesOwned
<1>9. Sound(v)
  BY <1>4, <1>5, <1>6, <1>7, <1>8 DEF Sound
<1>10. ASSUME NEW r \in Readers, Detached(w, r)
       PROVE  Detached(v, r)
  <2>1. ASSUME NEW j \in Pollers, NEW s \in Sources, v.poller[j].live
        PROVE  v.poller[j].actions_map[s] # r
    <3>1. CASE j = k
      BY <1>2, <3>1 DEF Readers
    <3>2. CASE j # k
      BY <1>2, <1>10, <2>1, <3>2 DEF Detached
    <3> QED BY <3>1, <3>2
  <2> QED BY <1>10, <2>1 DEF Detached
<1>11. ASSUME NEW r \in Readers, Fed(w, r)
       PROVE  Fed(v, r)
  <2>1. CASE EventFed(w, r)
    BY <2>1 DEF Fed, EventFed
  <2>2. CASE PollFed(w, r) /\ w.reader[r].live
    <3>1. /\ w.reader[r].period \in AllPeriods
          /\ w.pollerOf[w.reader[r].period] \in Pollers
          /\ w.poller[w.pollerOf[w.reader[r].period]].live
      <4> DEFINE t == w.reader[r].period
      <4>1. t \in AllPeriods /\ w.pollerOf[t] # 0
        BY <2>2 DEF Sound, ReadersFound, PollFed
      <4>2. PollersFound(w) /\ w.pollerOf \in [AllPeriods \union {NoPeriod} -> Pollers \union {0}]
        BY <1>1 DEF Sound, Worlds
      <4> HIDE DEF t
      <4>3. w.pollerOf[t] \in Pollers
        BY <4>1, <4>2
      <4>4. w.poller[w.pollerOf[t]].live
        BY <4>1, <4>2, Zenon DEF PollersFound
      <4> QED BY <4>1, <4>3, <4>4, SMTT(30) DEF t
    <3>2. w.reader[r].period # p /\ w.pollerOf[w.reader[r].period] # k
      BY <1>1, <2>2, <3>1, Zenon DEF PollFed
    <3>3. v.pollerOf[w.reader[r].period] = w.pollerOf[w.reader[r].period]
      BY <1>3, <3>1, <3>2, SMTT(30)
    <3>4. v.poller[w.pollerOf[w.reader[r].period]] = w.poller[w.pollerOf[w.reader[r].period]]
      BY <1>2, <3>1, <3>2
    <3>5. PollFed(v, r)
      BY <2>2, <3>3, <3>4, StaysPolled, Zenon
    <3> QED BY <3>5, SMTT(30) DEF Fed
  <2>3. CASE ~w.reader[r].live
    BY <2>3 DEF Fed
  <2> QED BY <1>11, <2>1, <2>2, <2>3 DEF Fed
<1> QED BY <1>9, <1>10, <1>11

\* A poller without readers is deleted.
LEMMA PollerDeleted ==
  ASSUME NEW w, Sound(w), NEW v \in Worlds, NEW k \in Pollers, w.poller[k].live,
         \A s \in Sources : w.poller[k].actions_map[s] = 0,
         v.reader = w.reader, v.actions = w.actions, v.activity = w.activity,
         Puts(Pollers, w.poller, v.poller, k, NoPoller),
         Puts(AllPeriods \union {NoPeriod}, w.pollerOf, v.pollerOf, w.poller[k].period, 0),
         ModesAsked => AsAsked(v)
  PROVE  /\ Sound(v)
         /\ \A r \in Readers : (Detached(w, r) => Detached(v, r)) /\ (Fed(w, r) => Fed(v, r))
<1> DEFINE p == w.poller[k].period
<1>1. w \in Worlds /\ p \in AllPeriods /\ w.pollerOf[p] = k
  BY DEF Sound, PollersFound
<1>2. v.poller[k] = NoPoller /\ \A j \in Pollers \ {k} : v.poller[j] = w.poller[j]
  BY DEF Puts
<1>3. v.pollerOf[p] = 0 /\ \A t \in (AllPeriods \union {NoPeriod}) \ {p} : v.pollerOf[t] = w.pollerOf[t]
  BY DEF Puts
<1>4. ~v.poller[k].live
  BY <1>2 DEF NoPoller
<1>5. \A x \in ReadActivities, r \in Readers : <<x, r>> \notin w.poller[k].pa_amap
  <2> SUFFICES ASSUME NEW x \in ReadActivities, NEW r \in Readers, <<x, r>> \in w.poller[k].pa_amap
               PROVE  FALSE
    OBVIOUS
  <2>1. w.reader[r].live /\ w.poller[k].actions_map[w.reader[r].src] = r
    BY DEF Sound, PairsKept
  <2>2. w.reader[r].src \in Sources
    BY <2>1 DEF Sound, ReadersFound
  <2> QED BY <2>1, <2>2 DEF Readers
<1> HIDE DEF p
<1>6. ReadersFound(v)
  BY DEF Sound, ReadersFound
<1>7. PollersFound(v)
  <2>1. ASSUME NEW j \in Pollers, v.poller[j].live
        PROVE  v.poller[j].period \in AllPeriods /\ v.pollerOf[v.poller[j].period] = j
    <3>1. j # k
      BY <1>4, <2>1
    <3>2. w.poller[j].period \in AllPeriods /\ w.pollerOf[w.poller[j].period] = j
      BY <1>2, <2>1, <3>1 DEF Sound, PollersFound
    <3>3. w.poller[j].period # p
      BY <1>1, <3>1, <3>2
    <3> QED BY <1>2, <1>3, <3>1, <3>2, <3>3
  <2>2. ASSUME NEW t \in AllPeriods \union {NoPeriod}, v.pollerOf[t] # 0
        PROVE  v.poller[v.pollerOf[t]].live /\ v.poller[v.pollerOf[t]].period = t
    <3>1. t # p /\ v.pollerOf[t] = w.pollerOf[t]
      BY <1>3, <2>2
    <3>2. /\ w.pollerOf[t] \in Pollers /\ w.poller[w.pollerOf[t]].live
          /\ w.poller[w.pollerOf[t]].period = t
      BY <1>1, <2>2, <3>1 DEF Worlds, Sound, PollersFound
    <3>3. w.pollerOf[t] # k
      BY <3>1, <3>2, SMTT(30) DEF p
    <3> QED BY <1>2, <3>1, <3>2, <3>3
  <2> QED BY <2>1, <2>2 DEF PollersFound
<1>8. PolledReaders(v)
  <2> SUFFICES ASSUME NEW j \in Pollers, NEW s \in Sources,
                      v.poller[j].live, v.poller[j].actions_map[s] # 0
               PROVE  LET r == v.poller[j].actions_map[s] IN
                      /\ v.reader[r].live /\ v.reader[r].src = s
                      /\ v.reader[r].period = v.poller[j].period /\ v.reader[r].event = 0
                      /\ \E x \in ReadActivities : <<x, r>> \in v.poller[j].pa_amap
    BY ZenonT(60) DEF PolledReaders
  <2>1. v.poller[j] = w.poller[j]
    BY <1>2, <1>4
  <2> DEFINE r == w.poller[j].actions_map[s]
  <2>2. /\ w.reader[r].live /\ w.reader[r].src = s
        /\ w.reader[r].period = w.poller[j].period /\ w.reader[r].event = 0
        /\ \E x \in ReadActivities : <<x, r>> \in w.poller[j].pa_amap
    <3>1. w.poller[j].live /\ r # 0 /\ w.poller[j].actions_map[s] = r
      BY <2>1
    <3> HIDE DEF r
    <3>2. PolledBy(w, j, s, r)
      BY <3>1, PolledReader
    <3> QED BY <3>2 DEF PolledBy
  <2> QED BY <2>1, <2>2, SMTT(30)
<1>9. PairsKept(v)
  <2> SUFFICES ASSUME NEW j \in Pollers, NEW x \in ReadActivities, NEW r \in Readers,
                      v.poller[j].live, <<x, r>> \in v.poller[j].pa_amap
               PROVE  /\ v.activity[x].kind = "poll" /\ v.activity[x].owner = j
                      /\ v.reader[r].live /\ v.activity[x].dev = DeviceOf[v.reader[r].src]
                      /\ v.poller[j].actions_map[v.reader[r].src] = r
    BY DEF PairsKept
  <2>1. v.poller[j] = w.poller[j]
    BY <1>2, <1>4, SMTT(30)
  <2> QED BY <2>1 DEF Sound, PairsKept
<1>10. ActivitiesOwned(v)
  <2>1. ASSUME NEW x \in ReadActivities, v.activity[x].kind = "poll"
        PROVE  LET j == v.activity[x].owner IN
               /\ j \in Pollers /\ v.poller[j].live /\ v.activity[x].period = v.poller[j].period
               /\ \E r \in Readers : <<x, r>> \in v.poller[j].pa_amap
    <3>1. LET j == w.activity[x].owner IN
            /\ j \in Pollers /\ w.poller[j].live /\ w.activity[x].period = w.poller[j].period
            /\ \E r \in Readers : <<x, r>> \in w.poller[j].pa_amap
      BY <2>1 DEF Sound, ActivitiesOwned
    <3>2. w.activity[x].owner # k
      BY <1>5, <3>1, SMTT(30)
    <3> QED BY <1>2, <3>1, <3>2, SMTT(30)
  <2>2. \A x \in ReadActivities :
          /\ v.activity[x].kind = "none" => v.activity[x] = NoActivity
          /\ v.activity[x].kind = "event" =>
               LET r == v.activity[x].owner IN
               r \in Readers /\ v.reader[r].live /\ v.reader[r].event = x
    BY SMTT(30) DEF Sound, ActivitiesOwned
  <2>3. \A x, y \in ReadActivities :
          /\ v.activity[x].kind = "poll" /\ v.activity[y].kind = "poll"
          /\ v.activity[x].dev = v.activity[y].dev /\ v.activity[x].period = v.activity[y].period
          => x = y
    BY DEF Sound, ActivitiesOwned
  <2> QED BY <2>1, <2>2, <2>3, SMTT(30) DEF ActivitiesOwned
<1>11. Sound(v)
  BY <1>6, <1>7, <1>8, <1>9, <1>10 DEF Sound
<1>12. ASSUME NEW r \in Readers, Detached(w, r)
       PROVE  Detached(v, r)
  <2>1. ASSUME NEW j \in Pollers, NEW s \in Sources, v.poller[j].live
        PROVE  v.poller[j].actions_map[s] # r
    <3>1. v.poller[j] = w.poller[j]
      BY <1>2, <1>4, <2>1
    <3> QED BY <1>12, <2>1, <3>1 DEF Detached
  <2> QED BY <1>12, <2>1 DEF Detached
<1>13. ASSUME NEW r \in Readers, Fed(w, r)
       PROVE  Fed(v, r)
  <2>1. CASE EventFed(w, r)
    BY <2>1 DEF Fed, EventFed
  <2>2. CASE PollFed(w, r) /\ w.reader[r].live
    <3>1. /\ w.reader[r].period \in AllPeriods /\ w.reader[r].src \in Sources
          /\ w.pollerOf[w.reader[r].period] \in Pollers
          /\ w.poller[w.pollerOf[w.reader[r].period]].actions_map[w.reader[r].src] = r
      BY <1>1, <2>2, SMTT(30) DEF Sound, ReadersFound, PollFed, Worlds
    <3>2. w.pollerOf[w.reader[r].period] # k
      BY <3>1, SMTT(30) DEF Readers
    <3>3. w.reader[r].period # p
      BY <1>1, <3>2
    <3>4. v.pollerOf[w.reader[r].period] = w.pollerOf[w.reader[r].period]
      BY <1>3, <3>1, <3>3, SMTT(30)
    <3>5. v.poller[w.pollerOf[w.reader[r].period]] = w.poller[w.pollerOf[w.reader[r].period]]
      BY <1>2, <3>1, <3>2, ZenonT(60)
    <3>6. PollFed(v, r)
      BY <2>2, <3>4, <3>5, StaysPolled, Zenon
    <3> QED BY <3>6, SMTT(30) DEF Fed
  <2>3. CASE ~w.reader[r].live
    BY <2>3 DEF Fed
  <2> QED BY <1>13, <2>1, <2>2, <2>3 DEF Fed
<1> QED BY <1>11, <1>12, <1>13

\* A reader that has no source of data joins the poller of its period: the
\* activity that polls its device, old or new, is e.
LEMMA PollerJoined ==
  ASSUME NEW w, Sound(w), NEW v \in Worlds, NEW r \in Readers, Detached(w, r),
         w.reader[r].event = 0, NEW k \in Pollers, w.poller[k].live,
         w.poller[k].period = w.reader[r].period,
         NEW e \in ReadActivities, NEW a \in ActivityRec, a.kind = "poll", a.owner = k,
         a.dev = DeviceOf[w.reader[r].src], a.period = w.poller[k].period,
         w.activity[e] \in {NoActivity, a},
         \A x \in Polling(w, DeviceOf[w.reader[r].src], w.poller[k].period) : x = e,
         NEW q \in PollerRec, q.live, q.period = w.poller[k].period,
         Puts(Sources, w.poller[k].actions_map, q.actions_map, w.reader[r].src, r),
         q.pa_amap = w.poller[k].pa_amap \union {<<e, r>>},
         v.reader = w.reader, v.actions = w.actions, v.pollerOf = w.pollerOf,
         Puts(Pollers, w.poller, v.poller, k, q), Puts(ReadActivities, w.activity, v.activity, e, a),
         ModesAsked => AsAsked(v)
  PROVE  /\ Sound(v) /\ PollFed(v, r)
         /\ \A u \in Readers \ {r} : Fed(w, u) => Fed(v, u)
<1> DEFINE s == w.reader[r].src
           p == w.reader[r].period
<1>1. /\ w \in Worlds /\ w.reader[r].live /\ s \in Sources /\ p \in AllPeriods
      /\ w.actions[s] = r /\ w.pollerOf[p] = k /\ w.poller[k].period = p
      /\ q.actions_map[s] = r
      /\ \A t \in Sources \ {s} : q.actions_map[t] = w.poller[k].actions_map[t]
  <2>1. w \in Worlds /\ w.reader[r].live /\ s \in Sources /\ p \in AllPeriods /\ w.actions[s] = r
    BY DEF Sound, Detached, ReadersFound
  <2>2. w.pollerOf[p] = k /\ w.poller[k].period = p
    BY DEF Sound, PollersFound
  <2> QED BY <2>1, <2>2 DEF Puts
<1> HIDE DEF s, p
<1>2. v.poller[k] = q /\ \A j \in Pollers \ {k} : v.poller[j] = w.poller[j]
  BY DEF Puts
<1>3. v.activity[e] = a /\ \A x \in ReadActivities \ {e} : v.activity[x] = w.activity[x]
  BY DEF Puts
<1>4. ASSUME NEW x \in ReadActivities, w.activity[x].kind \in {"poll", "event"}
      PROVE  v.activity[x] = w.activity[x]
  BY <1>3, <1>4, SMTT(30) DEF NoActivity
<1>5. ReadersFound(v)
  BY SMTT(30) DEF Sound, ReadersFound
<1>6. PollersFound(v)
  <2>1. ASSUME NEW j \in Pollers, v.poller[j].live
        PROVE  v.poller[j].period \in AllPeriods /\ v.pollerOf[v.poller[j].period] = j
    <3>1. w.poller[j].live /\ v.poller[j].period = w.poller[j].period
      BY <1>2, <2>1
    <3> QED BY <3>1 DEF Sound, PollersFound
  <2>2. ASSUME NEW t \in AllPeriods \union {NoPeriod}, v.pollerOf[t] # 0
        PROVE  v.poller[v.pollerOf[t]].live /\ v.poller[v.pollerOf[t]].period = t
    <3>1. /\ w.pollerOf[t] \in Pollers /\ w.poller[w.pollerOf[t]].live
          /\ w.poller[w.pollerOf[t]].period = t
      BY <1>1, <2>2 DEF Worlds, Sound, PollersFound
    <3> QED BY <1>2, <3>1
  <2> QED BY <2>1, <2>2 DEF PollersFound
<1>7. ASSUME NEW j \in Pollers, NEW x \in ReadActivities, NEW u \in Readers,
             w.poller[j].live, <<x, u>> \in w.poller[j].pa_amap
      PROVE  <<x, u>> \in v.poller[j].pa_amap /\ u # r
  <2>1. <<x, u>> \in v.poller[j].pa_amap
    BY <1>2, <1>7, SMTT(30)
  <2>2. w.poller[j].actions_map[w.reader[u].src] = u /\ w.reader[u].live
    BY <1>7 DEF Sound, PairsKept
  <2>3. w.reader[u].src \in Sources
    BY <2>2 DEF Sound, ReadersFound
  <2> QED BY <1>7, <2>1, <2>2, <2>3 DEF Detached
<1>8. <<e, r>> \in v.poller[k].pa_amap
  BY <1>2, SMTT(30)
<1>9. PolledReaders(v)
  <2> SUFFICES ASSUME NEW j \in Pollers, NEW t \in Sources,
                      v.poller[j].live, v.poller[j].actions_map[t] # 0
               PROVE  LET u == v.poller[j].actions_map[t] IN
                      /\ v.reader[u].live /\ v.reader[u].src = t
                      /\ v.reader[u].period = v.poller[j].period /\ v.reader[u].event = 0
                      /\ \E x \in ReadActivities : <<x, u>> \in v.poller[j].pa_amap
    BY ZenonT(60) DEF PolledReaders
  <2>1. CASE j = k /\ t = s
    <3>1. v.poller[j].actions_map[t] = r /\ v.poller[j].period = p
      BY <1>1, <1>2, <2>1
    <3> QED BY <1>1, <1>8, <2>1, <3>1 DEF s, p
  <2>2. CASE j # k \/ t # s
    <3> DEFINE u == w.poller[j].actions_map[t]
    <3>1. v.poller[j].actions_map[t] = u /\ v.poller[j].period = w.poller[j].period /\ w.poller[j].live
      BY <1>1, <1>2, <2>2
    <3>2. u \in Readers
      BY <1>1, <3>1, SMTT(30) DEF Worlds, PollerRec
    <3>3. /\ w.reader[u].live /\ w.reader[u].src = t
          /\ w.reader[u].period = w.poller[j].period /\ w.reader[u].event = 0
          /\ \E x \in ReadActivities : <<x, u>> \in w.poller[j].pa_amap
      BY <3>1, ZenonT(60) DEF Sound, PolledReaders
    <3>4. \E x \in ReadActivities : <<x, u>> \in v.poller[j].pa_amap
      BY <1>7, <3>1, <3>2, <3>3, SMTT(30)
    <3> HIDE DEF u
    <3> QED BY <3>1, <3>3, <3>4
  <2> QED BY <2>1, <2>2, ZenonT(60)
<1>10. PairsKept(v)
  <2> SUFFICES ASSUME NEW j \in Pollers, NEW x \in ReadActivities, NEW u \in Readers,
                      v.poller[j].live, <<x, u>> \in v.poller[j].pa_amap
               PROVE  /\ v.activity[x].kind = "poll" /\ v.activity[x].owner = j
                      /\ v.reader[u].live /\ v.activity[x].dev = DeviceOf[v.reader[u].src]
                      /\ v.poller[j].actions_map[v.reader[u].src] = u
    BY DEF PairsKept
  <2>1. CASE <<x, u>> \in w.poller[j].pa_amap /\ w.poller[j].live
    <3>1. /\ w.activity[x].kind = "poll" /\ w.activity[x].owner = j
          /\ w.reader[u].live /\ w.activity[x].dev = DeviceOf[w.reader[u].src]
          /\ w.poller[j].actions_map[w.reader[u].src] = u
      BY <2>1 DEF Sound, PairsKept
    <3>2. v.activity[x] = w.activity[x]
      BY <1>4, <3>1
    <3>3. u # r
      BY <1>7, <2>1
    <3>4. w.reader[u].src \in Sources /\ w.reader[u].src # s
      BY <1>1, <3>1, <3>3 DEF Sound, ReadersFound
    <3>5. v.poller[j].actions_map[w.reader[u].src] = w.poller[j].actions_map[w.reader[u].src]
      BY <1>1, <1>2, <3>4, SMTT(30)
    <3> QED BY <3>1, <3>2, <3>5, SMTT(30)
  <2>2. CASE ~(<<x, u>> \in w.poller[j].pa_amap /\ w.poller[j].live)
    <3>1. j = k /\ x = e /\ u = r
      BY <1>2, <2>2, SMTT(30)
    <3> QED BY <1>1, <1>2, <1>3, <3>1 DEF s
  <2> QED BY <2>1, <2>2, SMTT(30)
<1>11. ActivitiesOwned(v)
  <2>1. ASSUME NEW x \in ReadActivities
        PROVE  /\ v.activity[x].kind = "none" => v.activity[x] = NoActivity
               /\ v.activity[x].kind = "event" =>
                    LET u == v.activity[x].owner IN
                    u \in Readers /\ v.reader[u].live /\ v.reader[u].event = x
               /\ v.activity[x].kind = "poll" =>
                    LET j == v.activity[x].owner IN
                    /\ j \in Pollers /\ v.poller[j].live /\ v.activity[x].period = v.poller[j].period
                    /\ \E u \in Readers : <<x, u>> \in v.poller[j].pa_amap
    <3>1. CASE x = e
      BY <1>2, <1>3, <1>8, <3>1, SMTT(30)
    <3>2. CASE x # e
      <4>1. v.activity[x] = w.activity[x]
        BY <1>3, <3>2
      <4>2. /\ w.activity[x].kind = "none" => w.activity[x] = NoActivity
            /\ w.activity[x].kind = "event" =>
                 LET u == w.activity[x].owner IN
                 u \in Readers /\ w.reader[u].live /\ w.reader[u].event = x
        BY SMTT(30) DEF Sound, ActivitiesOwned
      <4>3. ASSUME w.activity[x].kind = "poll"
            PROVE  LET j == w.activity[x].owner IN
                   /\ j \in Pollers /\ v.poller[j].live /\ w.activity[x].period = v.poller[j].period
                   /\ \E u \in Readers : <<x, u>> \in v.poller[j].pa_amap
        <5> DEFINE j == w.activity[x].owner
        <5>1. /\ j \in Pollers /\ w.poller[j].live /\ w.activity[x].period = w.poller[j].period
              /\ \E u \in Readers : <<x, u>> \in w.poller[j].pa_amap
          BY <4>3, SMTT(30) DEF Sound, ActivitiesOwned
        <5>2. \E u \in Readers : <<x, u>> \in v.poller[j].pa_amap
          BY <1>7, <5>1
        <5> HIDE DEF j
        <5>3. v.poller[j].live /\ v.poller[j].period = w.poller[j].period
          BY <1>2, <5>1
        <5> QED BY <5>1, <5>2, <5>3, ZenonT(60) DEF j
      <4> QED BY <4>1, <4>2, <4>3
    <3> QED BY <3>1, <3>2, ZenonT(60)
  <2>2. ASSUME NEW x \in ReadActivities, NEW y \in ReadActivities,
               v.activity[x].kind = "poll", v.activity[y].kind = "poll",
               v.activity[x].dev = v.activity[y].dev, v.activity[x].period = v.activity[y].period
        PROVE  x = y
    <3>1. \A z \in ReadActivities : v.activity[z].kind = "poll" /\ v.activity[z].dev = a.dev
                                     /\ v.activity[z].period = a.period => z = e
      <4> SUFFICES ASSUME NEW z \in ReadActivities, v.activity[z].kind = "poll",
                          v.activity[z].dev = a.dev, v.activity[z].period = a.period, z # e
                   PROVE  FALSE
        OBVIOUS
      <4>1. v.activity[z] = w.activity[z]
        BY <1>3
      <4>2. z \in Polling(w, DeviceOf[w.reader[r].src], w.poller[k].period)
        BY <4>1 DEF Polling
      <4> QED BY <4>2
    <3>2. CASE x = e \/ y = e
      BY <1>3, <2>2, <3>1, <3>2, SMTT(30)
    <3>3. CASE x # e /\ y # e
      <4>1. v.activity[x] = w.activity[x] /\ v.activity[y] = w.activity[y]
        BY <1>3, <3>3
      <4> QED BY <2>2, <4>1 DEF Sound, ActivitiesOwned
    <3> QED BY <3>2, <3>3
  <2> QED BY <2>1, <2>2, ZenonT(60) DEF ActivitiesOwned
<1>12. Sound(v)
  BY <1>5, <1>6, <1>9, <1>10, <1>11 DEF Sound
<1>13. PollFed(v, r)
  <2>1. v.poller[k].actions_map[s] = r /\ v.pollerOf[p] = k /\ v.reader[r] = w.reader[r] /\ k # 0
    BY <1>1, <1>2 DEF Pollers
  <2> QED BY <2>1 DEF PollFed, s, p
<1>14. ASSUME NEW u \in Readers \ {r}, Fed(w, u)
       PROVE  Fed(v, u)
  <2>1. CASE EventFed(w, u)
    <3>1. w.reader[u].event \in ReadActivities /\ w.activity[w.reader[u].event].kind = "event"
      BY <1>1, <2>1 DEF EventFed, Worlds, ReaderRec
    <3>2. v.activity[w.reader[u].event] = w.activity[w.reader[u].event]
      BY <1>4, <3>1
    <3>3. v.reader[u] = w.reader[u]
      OBVIOUS
    <3> QED BY <2>1, <3>2, <3>3, StaysEventFed DEF Fed
  <2>2. CASE PollFed(w, u) /\ w.reader[u].live
    <3> DEFINE j == w.pollerOf[w.reader[u].period]
    <3>1. /\ w.reader[u].period \in AllPeriods /\ w.reader[u].src \in Sources
          /\ w.actions[w.reader[u].src] = u /\ j \in Pollers
      BY <1>1, <2>2 DEF Sound, ReadersFound, PollFed, Worlds
    <3>2. w.reader[u].src # s
      BY <1>1, <3>1
    <3> HIDE DEF j
    <3>3. v.poller[j].actions_map[w.reader[u].src] = w.poller[j].actions_map[w.reader[u].src]
      BY <1>1, <1>2, <3>1, <3>2, SMTT(30)
    <3>4. PollFed(v, u)
      BY <2>2, <3>3, StaysPolled, Zenon DEF j
    <3> QED BY <3>4, SMTT(30) DEF Fed
  <2>3. CASE ~w.reader[u].live
    BY <2>3, SMTT(30) DEF Fed
  <2> QED BY <1>14, <2>1, <2>2, <2>3 DEF Fed
<1> QED BY <1>12, <1>13, <1>14

\* Activity e goes on if the poller has another reader for it.
Released(w, v, e, q) ==
  /\ \A x \in ReadActivities \ {e} : v.activity[x] = w.activity[x]
  /\ \/ v.activity[e] = w.activity[e] /\ \E u \in Readers : <<e, u>> \in q.pa_amap
     \/ v.activity[e] = NoActivity /\ \A u \in Readers : <<e, u>> \notin q.pa_amap
\* A reader leaves the poller of its period: the activity that polls its
\* device, e, is unregistered with its last reader.
LEMMA PollerLeft ==
  ASSUME NEW w, Sound(w), NEW v \in Worlds, NEW r \in Readers, w.reader[r].live,
         NEW k \in Pollers, w.poller[k].live, w.poller[k].actions_map[w.reader[r].src] = r,
         NEW e \in ReadActivities, <<e, r>> \in w.poller[k].pa_amap,
         NEW q \in PollerRec, q.live, q.period = w.poller[k].period,
         Puts(Sources, w.poller[k].actions_map, q.actions_map, w.reader[r].src, 0),
         q.pa_amap = w.poller[k].pa_amap \ {<<e, r>>},
         v.reader = w.reader, v.actions = w.actions, v.pollerOf = w.pollerOf,
         Puts(Pollers, w.poller, v.poller, k, q),
         Released(w, v, e, q),
         ModesAsked => AsAsked(v)
  PROVE  /\ Sound(v) /\ Detached(v, r) /\ w.reader[r].event = 0
         /\ \A u \in Readers \ {r} : Fed(w, u) => Fed(v, u)
<1> USE DEF Puts, Released
<1> DEFINE s == w.reader[r].src
           p == w.reader[r].period
<1>1. /\ w \in Worlds /\ s \in Sources /\ p \in AllPeriods
      /\ w.actions[s] = r /\ w.pollerOf[p] = k /\ w.poller[k].period = p /\ w.reader[r].event = 0
      /\ w.activity[e].kind = "poll" /\ w.activity[e].owner = k /\ w.activity[e].dev = DeviceOf[s]
  <2>1. w \in Worlds /\ s \in Sources /\ p \in AllPeriods /\ w.actions[s] = r
    BY SMTT(30) DEF Sound, ReadersFound
  <2>2. w.reader[r].period = w.poller[k].period /\ w.reader[r].event = 0
    BY <2>1 DEF Sound, PolledReaders, Readers
  <2>3. w.pollerOf[p] = k
    BY <2>2 DEF Sound, PollersFound
  <2>4. /\ w.activity[e].kind = "poll" /\ w.activity[e].owner = k
        /\ w.activity[e].dev = DeviceOf[s]
    BY DEF Sound, PairsKept
  <2> QED BY <2>1, <2>2, <2>3, <2>4
<1> HIDE DEF s, p
<1>2. v.poller[k].actions_map[s] = 0
  BY DEF s
<1>3. \A t \in Sources \ {s} : v.poller[k].actions_map[t] = w.poller[k].actions_map[t]
  BY DEF s
<1>4. ReadersFound(v)
  BY DEF Sound, ReadersFound
<1>5. ASSUME NEW j \in Pollers
      PROVE  (v.poller[j].live <=> w.poller[j].live) /\ v.poller[j].period = w.poller[j].period
  <2>1. CASE j = k
    BY <2>1
  <2>2. CASE j # k
    BY <2>2, SMTT(30)
  <2> QED BY <2>1, <2>2
<1>6. PollersFound(v)
  <2>1. ASSUME NEW j \in Pollers, v.poller[j].live
        PROVE  v.poller[j].period \in AllPeriods /\ v.pollerOf[v.poller[j].period] = j
    BY <1>5, <2>1 DEF Sound, PollersFound
  <2>2. ASSUME NEW t \in AllPeriods \union {NoPeriod}, v.pollerOf[t] # 0
        PROVE  v.poller[v.pollerOf[t]].live /\ v.poller[v.pollerOf[t]].period = t
    <3>1. /\ w.pollerOf[t] \in Pollers /\ w.poller[w.pollerOf[t]].live
          /\ w.poller[w.pollerOf[t]].period = t
      BY <1>1, <2>2 DEF Worlds, Sound, PollersFound
    <3> QED BY <1>5, <3>1
  <2> QED BY <2>1, <2>2 DEF PollersFound
<1>7. ASSUME NEW j \in Pollers, NEW x \in ReadActivities, w.poller[j].live,
             <<x, r>> \in w.poller[j].pa_amap
      PROVE  j = k /\ x = e
  <2>1. /\ w.activity[x].kind = "poll" /\ w.activity[x].owner = j
        /\ w.activity[x].dev = DeviceOf[s] /\ w.poller[j].actions_map[s] = r
    BY <1>7, SMTT(30) DEF Sound, PairsKept, s
  <2>2. w.poller[j].period = p
    <3>1. r # 0
      BY DEF Readers
    <3> HIDE DEF s
    <3>2. PolledBy(w, j, s, r)
      BY <1>1, <1>7, <2>1, <3>1, PolledReader
    <3> QED BY <3>2 DEF PolledBy, p
  <2>3. j = k
    BY <1>1, <1>7, <2>2, SMTT(30) DEF Sound, PollersFound
  <2>4. w.activity[x].period = p /\ w.activity[e].period = p
    BY <1>1, <2>1, <2>2, <2>3, SMTT(30) DEF Sound, ActivitiesOwned
  <2>5. x = e
    BY <1>1, <2>1, <2>4 DEF Sound, ActivitiesOwned
  <2> QED BY <2>3, <2>5
<1>8. ASSUME NEW j \in Pollers, NEW x \in ReadActivities, NEW u \in Readers, w.poller[j].live, u # r,
             <<x, u>> \in w.poller[j].pa_amap
      PROVE  <<x, u>> \in v.poller[j].pa_amap /\ v.activity[x] = w.activity[x]
  <2>1. CASE j = k
    <3>1. <<x, u>> \in q.pa_amap
      BY <1>8, <2>1
    <3>2. v.activity[x] = w.activity[x]
      BY <3>1
    <3> QED BY <2>1, <3>1, <3>2
  <2>2. CASE j # k
    <3>1. w.activity[x].owner = j
      BY <1>8 DEF Sound, PairsKept
    <3>2. x # e
      BY <1>1, <2>2, <3>1
    <3> QED BY <1>8, <2>2, <3>2
  <2> QED BY <2>1, <2>2
<1>9. PolledReaders(v)
  <2> SUFFICES ASSUME NEW j \in Pollers, NEW t \in Sources,
                      v.poller[j].live, v.poller[j].actions_map[t] # 0
               PROVE  LET u == v.poller[j].actions_map[t] IN
                      /\ v.reader[u].live /\ v.reader[u].src = t
                      /\ v.reader[u].period = v.poller[j].period /\ v.reader[u].event = 0
                      /\ \E x \in ReadActivities : <<x, u>> \in v.poller[j].pa_amap
    BY Zenon DEF PolledReaders
  <2> DEFINE u == w.poller[j].actions_map[t]
  <2>1. v.poller[j].actions_map[t] = u
    <3>1. CASE j = k
      BY <1>2, <1>3, <3>1
    <3> QED BY <3>1
  <2>2. u \in Readers
    BY <1>1, <2>1, SMTT(30) DEF Worlds, PollerRec
  <2>3. /\ w.reader[u].live /\ w.reader[u].src = t
        /\ w.reader[u].period = w.poller[j].period /\ w.reader[u].event = 0
        /\ \E x \in ReadActivities : <<x, u>> \in w.poller[j].pa_amap
    BY <1>5, <2>1, ZenonT(60) DEF Sound, PolledReaders
  <2>4. u # r
    <3>1. ASSUME u = r PROVE FALSE
      <4>1. t = s
        BY <2>3, <3>1 DEF s
      <4>2. PICK x \in ReadActivities : <<x, r>> \in w.poller[j].pa_amap
        BY <2>3, <3>1
      <4>3. j = k
        BY <1>5, <1>7, <4>2
      <4> QED BY <1>2, <4>1, <4>3
    <3> QED BY <3>1
  <2> HIDE DEF u
  <2>5. \E x \in ReadActivities : <<x, u>> \in v.poller[j].pa_amap
    BY <1>5, <1>8, <2>2, <2>3, <2>4
  <2> QED BY <1>5, <2>1, <2>3, <2>5, SMTT(30)
<1>10. PairsKept(v)
  <2> SUFFICES ASSUME NEW j \in Pollers, NEW x \in ReadActivities, NEW u \in Readers,
                      v.poller[j].live, <<x, u>> \in v.poller[j].pa_amap
               PROVE  /\ v.activity[x].kind = "poll" /\ v.activity[x].owner = j
                      /\ v.reader[u].live /\ v.activity[x].dev = DeviceOf[v.reader[u].src]
                      /\ v.poller[j].actions_map[v.reader[u].src] = u
    BY DEF PairsKept
  <2>1. <<x, u>> \in w.poller[j].pa_amap /\ w.poller[j].live
    <3>1. CASE j = k
      BY <3>1
    <3> QED BY <1>5, <3>1
  <2>2. u # r
    <3>1. ASSUME u = r PROVE FALSE
      <4>1. j = k /\ x = e
        BY <1>7, <2>1, <3>1
      <4> QED BY <3>1, <4>1
    <3> QED BY <3>1
  <2>3. /\ w.activity[x].kind = "poll" /\ w.activity[x].owner = j
        /\ w.reader[u].live /\ w.activity[x].dev = DeviceOf[w.reader[u].src]
        /\ w.poller[j].actions_map[w.reader[u].src] = u
    BY <2>1 DEF Sound, PairsKept
  <2>4. v.activity[x] = w.activity[x]
    BY <1>8, <2>1, <2>2
  <2>5. w.reader[u].src \in Sources /\ w.reader[u].src # s
    BY <1>1, <2>2, <2>3 DEF Sound, ReadersFound
  <2>6. v.poller[j].actions_map[w.reader[u].src] = w.poller[j].actions_map[w.reader[u].src]
    <3>1. CASE j = k
      BY <1>3, <2>5, <3>1, SMTT(30)
    <3> QED BY <3>1
  <2> QED BY <2>3, <2>4, <2>6, SMTT(30)
<1>11. ActivitiesOwned(v)
  <2>1. ASSUME NEW x \in ReadActivities
        PROVE  /\ v.activity[x].kind = "none" => v.activity[x] = NoActivity
               /\ v.activity[x].kind = "event" =>
                    LET u == v.activity[x].owner IN
                    u \in Readers /\ v.reader[u].live /\ v.reader[u].event = x
               /\ v.activity[x].kind = "poll" =>
                    LET j == v.activity[x].owner IN
                    /\ j \in Pollers /\ v.poller[j].live /\ v.activity[x].period = v.poller[j].period
                    /\ \E u \in Readers : <<x, u>> \in v.poller[j].pa_amap
    <3>1. CASE v.activity[x] = NoActivity
      BY <3>1, SMTT(30) DEF NoActivity
    <3>2. CASE v.activity[x] = w.activity[x]
      <4>1. /\ w.activity[x].kind = "none" => w.activity[x] = NoActivity
            /\ w.activity[x].kind = "event" =>
                 LET u == w.activity[x].owner IN
                 u \in Readers /\ w.reader[u].live /\ w.reader[u].event = x
        BY SMTT(30) DEF Sound, ActivitiesOwned
      <4>2. ASSUME w.activity[x].kind = "poll"
            PROVE  LET j == w.activity[x].owner IN
                   /\ j \in Pollers /\ v.poller[j].live /\ w.activity[x].period = v.poller[j].period
                   /\ \E u \in Readers : <<x, u>> \in v.poller[j].pa_amap
        <5> DEFINE j == w.activity[x].owner
        <5>1. /\ j \in Pollers /\ w.poller[j].live /\ w.activity[x].period = w.poller[j].period
              /\ \E u \in Readers : <<x, u>> \in w.poller[j].pa_amap
          BY <4>2 DEF Sound, ActivitiesOwned
        <5> HIDE DEF j
        <5>2. \E u \in Readers : <<x, u>> \in v.poller[j].pa_amap
          <6>1. PICK u \in Readers : <<x, u>> \in w.poller[j].pa_amap
            BY <5>1
          <6>2. CASE u # r
            BY <1>8, <5>1, <6>1, <6>2
          <6>3. CASE u = r
            <7>1. j = k /\ x = e
              BY <1>7, <5>1, <6>1, <6>3
            <7>2. v.activity[e] # NoActivity
              BY <1>1, <3>2, <7>1 DEF NoActivity
            <7> QED BY <7>1, <7>2
          <6> QED BY <6>2, <6>3
        <5>3. v.poller[j].live /\ v.poller[j].period = w.poller[j].period
          BY <1>5, <5>1, SMTT(30)
        <5> QED BY <5>1, <5>2, <5>3, ZenonT(60) DEF j
      <4> QED BY <3>2, <4>1, <4>2, SMTT(30)
    <3> QED BY <3>1, <3>2
  <2>2. ASSUME NEW x \in ReadActivities, NEW y \in ReadActivities,
               v.activity[x].kind = "poll", v.activity[y].kind = "poll",
               v.activity[x].dev = v.activity[y].dev, v.activity[x].period = v.activity[y].period
        PROVE  x = y
    <3>1. v.activity[x] = w.activity[x] /\ v.activity[y] = w.activity[y]
      BY <2>2 DEF NoActivity
    <3> QED BY <2>2, <3>1 DEF Sound, ActivitiesOwned
  <2> QED BY <2>1, <2>2, ZenonT(60) DEF ActivitiesOwned
<1>12. Sound(v)
  BY <1>4, <1>6, <1>9, <1>10, <1>11 DEF Sound
<1>13. Detached(v, r)
  <2>1. ASSUME NEW j \in Pollers, NEW t \in Sources, v.poller[j].live, v.poller[j].actions_map[t] = r
        PROVE  FALSE
    <3>1. r # 0
      BY DEF Readers
    <3>2. w.poller[j].live
      BY <1>5, <2>1
    <3>3. w.poller[j].actions_map[t] = r
      <4>1. CASE j = k
        BY <1>2, <1>3, <2>1, <3>1, <4>1
      <4> QED BY <2>1, <4>1
    <3>4. w.reader[r].src = t /\ \E x \in ReadActivities : <<x, r>> \in w.poller[j].pa_amap
      <4>1. PolledBy(w, j, t, r)
        BY <3>1, <3>2, <3>3, PolledReader
      <4> QED BY <4>1 DEF PolledBy
    <3>5. j = k
      BY <1>7, <3>2, <3>4
    <3> QED BY <1>2, <2>1, <3>1, <3>4, <3>5 DEF s
  <2>2. ASSUME NEW x \in ReadActivities, v.activity[x].kind = "event", v.activity[x].owner = r
        PROVE  FALSE
    <3>1. v.reader[r].event = x
      BY <1>11, <2>2 DEF ActivitiesOwned
    <3> QED BY <1>1, <3>1, SMTT(30) DEF ReadActivities
  <2> QED BY <2>1, <2>2 DEF Detached
<1>14. ASSUME NEW u \in Readers \ {r}, Fed(w, u)
       PROVE  Fed(v, u)
  <2>1. CASE EventFed(w, u)
    <3>1. w.reader[u].event \in ReadActivities /\ w.activity[w.reader[u].event].kind = "event"
      BY <1>1, <2>1 DEF EventFed, Worlds, ReaderRec
    <3>2. v.activity[w.reader[u].event] = w.activity[w.reader[u].event]
      BY <1>1, <3>1
    <3>3. v.reader[u] = w.reader[u]
      OBVIOUS
    <3> QED BY <2>1, <3>2, <3>3, StaysEventFed DEF Fed
  <2>2. CASE PollFed(w, u) /\ w.reader[u].live
    <3> DEFINE j == w.pollerOf[w.reader[u].period]
    <3>1. /\ w.reader[u].period \in AllPeriods /\ w.reader[u].src \in Sources
          /\ w.actions[w.reader[u].src] = u /\ j \in Pollers
      BY <1>1, <2>2 DEF Sound, ReadersFound, PollFed, Worlds
    <3>2. w.reader[u].src # s
      BY <1>1, <3>1
    <3> HIDE DEF j
    <3>3. v.poller[j].actions_map[w.reader[u].src] = w.poller[j].actions_map[w.reader[u].src]
      <4>1. CASE j = k
        BY <1>3, <3>1, <3>2, <4>1, SMTT(30)
      <4> QED BY <3>1, <4>1
    <3>4. PollFed(v, u)
      BY <2>2, <3>3, StaysPolled, ZenonT(60) DEF j
    <3> QED BY <3>4, SMTT(30) DEF Fed
  <2>3. CASE ~w.reader[u].live
    BY <2>3 DEF Fed
  <2> QED BY <1>14, <2>1, <2>2, <2>3 DEF Fed
<1> QED BY <1>1, <1>12, <1>13, <1>14

-----------------------------------------------------------------------------
(* Objects that are not in use                                             *)

\* A set of numbers has a least one.
LEMMA LeastExists ==
  ASSUME NEW S \in SUBSET Nat, S # {}
  PROVE  First(S) \in S /\ \A n \in S : First(S) <= n
<1> DEFINE UpTo(n) == 0..n
           T == {UpTo(n) : n \in S}
<1>1. T \subseteq FiniteSubsetsOf(Nat)
  <2>1. ASSUME NEW n \in S
        PROVE  UpTo(n) \in FiniteSubsetsOf(Nat)
    <3>1. IsFiniteSet(0..n)
      BY FS_Interval
    <3> QED BY <3>1 DEF FiniteSubsetsOf
  <2> QED BY <2>1
<1>2. T # {}
  OBVIOUS
<1>3. IsWellFoundedOn(StrictSubsetOrdering(Nat), FiniteSubsetsOf(Nat))
  BY FS_StrictSubsetOrderingWellFounded
<1>4. PICK U \in T : \A V \in T : <<V, U>> \notin StrictSubsetOrdering(Nat)
  BY <1>1, <1>2, <1>3, WFMin
<1>5. PICK m \in S : U = UpTo(m)
  OBVIOUS
<1>6. ASSUME NEW n \in S, ~(m <= n)
      PROVE  FALSE
  <2>1. UpTo(n) \subseteq UpTo(m) /\ m \in UpTo(m) /\ m \notin UpTo(n)
    BY <1>6
  <2>2. UpTo(n) \in SUBSET Nat /\ UpTo(m) \in SUBSET Nat
    OBVIOUS
  <2>3. <<UpTo(n), UpTo(m)>> \in StrictSubsetOrdering(Nat)
    <3> DEFINE A == UpTo(n)
               B == UpTo(m)
    <3>1. A \in SUBSET Nat /\ B \in SUBSET Nat /\ A \subseteq B /\ A # B
      BY <2>1, <2>2
    <3> HIDE DEF A, B
    <3>2. <<A, B>> \in (SUBSET Nat) \X (SUBSET Nat)
      BY <3>1
    <3>3. <<A, B>>[1] = A /\ <<A, B>>[2] = B
      OBVIOUS
    <3>4. <<A, B>> \in StrictSubsetOrdering(Nat)
      BY <3>1, <3>2, <3>3, Zenon DEF StrictSubsetOrdering
    <3> QED BY <3>4 DEF A, B
  <2>4. UpTo(n) \in T
    BY <1>6
  <2> QED BY <1>4, <1>5, <2>3, <2>4
<1>7. \A n \in S : m <= n
  BY <1>6
<1> QED BY <1>7 DEF First

-----------------------------------------------------------------------------
(* What a thread makes of its queue                                        *)

\* Removing an attribute leaves a list of attributes.
LEMMA RemoveAttTyped ==
  ASSUME NEW atts \in Seq(Sources), NEW s
  PROVE  RemoveAtt(atts, s) \in Seq(Sources)
<1> DEFINE at == {i \in 1..Len(atts) : atts[i] = s}
           j == First(at)
<1>1. at = {} => RemoveAtt(atts, s) = atts
  BY DEF RemoveAtt
<1>2. ASSUME at # {} PROVE RemoveAtt(atts, s) \in Seq(Sources)
  <2>1. RemoveAtt(atts, s) = SubSeq(atts, 1, j - 1) \o SubSeq(atts, j + 1, Len(atts))
    BY <1>2 DEF RemoveAtt, First
  <2>2. j \in 1..Len(atts)
    <3>1. at \in SUBSET Nat
      OBVIOUS
    <3>2. j \in at
      BY <1>2, <3>1, LeastExists
    <3> QED BY <3>2
  <2> HIDE DEF j
  <2>3. \A i \in 1..Len(atts) : atts[i] \in Sources
    OBVIOUS
  <2>4. SubSeq(atts, 1, j - 1) \in Seq(Sources)
    <3>1. \A i \in 1..(j - 1) : atts[i] \in Sources
      BY <2>2, <2>3
    <3> QED BY <2>2, <3>1, SubSeqProperties
  <2>5. SubSeq(atts, j + 1, Len(atts)) \in Seq(Sources)
    <3>1. \A i \in (j + 1)..Len(atts) : atts[i] \in Sources
      BY <2>2, <2>3
    <3>2. j + 1 \in Int /\ Len(atts) \in Int
      BY <2>2
    <3> QED BY <3>1, <3>2, SubSeqProperties
  <2> QED BY <2>1, <2>4, <2>5, ConcatProperties
<1> QED BY <1>1, <1>2

\* The attributes that activity x reads, after each event of a queue.
ReadsAlong(f, q, x, atts) ==
  f = [n \in 0..Len(q) |-> IF n = 0 THEN atts ELSE HandledBy(q[n], x, f[n - 1])]

\* An event leaves a list of attributes.
LEMMA HandledByTyped ==
  ASSUME NEW e \in Message, NEW x, NEW ts \in Seq(Sources)
  PROVE  HandledBy(e, x, ts) \in Seq(Sources)
<1>1. CASE e.a = x /\ e.ev = "Add"
  <2>1. e.src \in Sources
    BY <1>1 DEF Message
  <2>2. HandledBy(e, x, ts) = Append(ts, e.src)
    BY <1>1 DEF HandledBy
  <2> QED BY <2>1, <2>2, AppendProperties
<1>2. CASE e.a = x /\ e.ev = "Remove"
  <2>1. HandledBy(e, x, ts) = RemoveAtt(ts, e.src)
    BY <1>2 DEF HandledBy
  <2> QED BY <2>1, RemoveAttTyped
<1>3. CASE ~(e.a = x /\ e.ev = "Add") /\ ~(e.a = x /\ e.ev = "Remove")
  BY <1>3 DEF HandledBy
<1> QED BY <1>1, <1>2, <1>3

\* The events of a queue leave lists of attributes.
LEMMA ReadsTyped ==
  ASSUME NEW q \in Seq(Message), NEW x, NEW atts \in Seq(Sources), NEW f, ReadsAlong(f, q, x, atts),
         NEW n \in 0..Len(q)
  PROVE  f[n] \in Seq(Sources)
<1> DEFINE bad == {i \in 0..Len(q) : f[i] \notin Seq(Sources)}
           m == First(bad)
<1>1. Len(q) \in Nat
  OBVIOUS
<1>2. ASSUME bad # {} PROVE FALSE
  <2>1. bad \in SUBSET Nat
    BY <1>1
  <2>2. m \in bad /\ \A i \in bad : m <= i
    <3> HIDE DEF bad
    <3> QED BY <1>2, <2>1, LeastExists
  <2> HIDE DEF m
  <2>3. m \in 0..Len(q) /\ f[m] \notin Seq(Sources)
    BY <2>2
  <2>4. f[m] = IF m = 0 THEN atts ELSE HandledBy(q[m], x, f[m - 1])
    BY <2>3, Zenon DEF ReadsAlong
  <2>5. m # 0
    BY <2>3, <2>4
  <2>6. m - 1 \in 0..Len(q) /\ m - 1 \notin bad /\ q[m] \in Message
    BY <1>1, <2>2, <2>3, <2>5
  <2>7. f[m - 1] \in Seq(Sources)
    BY <2>6
  <2> QED BY <2>3, <2>4, <2>5, <2>6, <2>7, HandledByTyped
<1> QED BY <1>2

\* There is one way to handle the events of a queue.
LEMMA ReadsOnce ==
  ASSUME NEW q \in Seq(Message), NEW x, NEW atts, NEW f, NEW g,
         ReadsAlong(f, q, x, atts), ReadsAlong(g, q, x, atts), NEW n \in 0..Len(q)
  PROVE  f[n] = g[n]
<1> DEFINE bad == {i \in 0..Len(q) : f[i] # g[i]}
           m == First(bad)
<1>1. Len(q) \in Nat
  OBVIOUS
<1>2. ASSUME bad # {} PROVE FALSE
  <2>1. bad \in SUBSET Nat
    BY <1>1
  <2>2. m \in bad /\ \A i \in bad : m <= i
    <3> HIDE DEF bad
    <3> QED BY <1>2, <2>1, LeastExists
  <2> HIDE DEF m
  <2>3. m \in 0..Len(q) /\ f[m] # g[m]
    BY <2>2
  <2>4. /\ f[m] = IF m = 0 THEN atts ELSE HandledBy(q[m], x, f[m - 1])
        /\ g[m] = IF m = 0 THEN atts ELSE HandledBy(q[m], x, g[m - 1])
    BY <2>3, Zenon DEF ReadsAlong
  <2>5. m # 0
    BY <2>3, <2>4
  <2>6. m - 1 \in 0..Len(q) /\ m - 1 \notin bad
    BY <1>1, <2>2, <2>3, <2>5
  <2>7. f[m - 1] = g[m - 1]
    BY <2>6
  <2> QED BY <2>3, <2>4, <2>5, <2>7
<1> QED BY <1>2

\* A queue can be handled event by event.
LEMMA ReadsExist ==
  ASSUME NEW q \in Seq(Message), NEW x, NEW atts
  PROVE  \E f : ReadsAlong(f, q, x, atts)
<1> DEFINE Upto(n, f) == f = [i \in 0..n |-> IF i = 0 THEN atts ELSE HandledBy(q[i], x, f[i - 1])]
           bad == {n \in 0..Len(q) : ~\E f : Upto(n, f)}
           m == First(bad)
<1>1. Len(q) \in Nat
  OBVIOUS
<1>2. ASSUME bad # {} PROVE FALSE
  <2>1. bad \in SUBSET Nat
    BY <1>1
  <2>2. m \in bad /\ \A i \in bad : m <= i
    <3> HIDE DEF bad
    <3> QED BY <1>2, <2>1, LeastExists
  <2> HIDE DEF m
  <2>3. m \in 0..Len(q) /\ ~\E f : Upto(m, f)
    BY <2>2
  <2>4. m # 0
    <3> DEFINE f0 == [i \in 0..0 |-> atts]
    <3>1. Upto(0, f0)
      OBVIOUS
    <3> QED BY <2>3, <3>1
  <2>5. m - 1 \in 0..Len(q) /\ m - 1 \notin bad
    <3> HIDE DEF bad
    <3>1. m \in 0..Len(q) /\ m # 0 /\ \A i \in bad : m <= i
      BY <2>2, <2>3, <2>4
    <3> QED BY <1>1, <3>1
  <2>6. PICK f : Upto(m - 1, f)
    BY <2>5
  <2> DEFINE g == [i \in 0..m |-> IF i = m THEN HandledBy(q[m], x, f[m - 1]) ELSE f[i]]
  <2>7. ASSUME NEW i \in 0..m
        PROVE  g[i] = IF i = 0 THEN atts ELSE HandledBy(q[i], x, g[i - 1])
    <3>1. CASE i = m
      <4>1. g[i - 1] = f[m - 1]
        BY <1>1, <2>3, <2>4, <3>1
      <4> QED BY <2>4, <3>1, <4>1
    <3>2. CASE i # m
      <4>1. i \in 0..(m - 1) /\ g[i] = f[i] /\ (i # 0 => g[i - 1] = f[i - 1])
        BY <1>1, <2>3, <3>2
      <4>2. f[i] = IF i = 0 THEN atts ELSE HandledBy(q[i], x, f[i - 1])
        BY <2>6, <4>1, Zenon
      <4> QED BY <4>1, <4>2
    <3> QED BY <3>1, <3>2
  <2>8. Upto(m, g)
    <3>1. g = [i \in 0..m |-> g[i]]
      OBVIOUS
    <3> HIDE DEF g
    <3> QED BY <2>7, <3>1
  <2> QED BY <2>3, <2>8
<1>3. Len(q) \notin bad
  BY <1>2
<1>4. \E f : Upto(Len(q), f)
  BY <1>1, <1>3
<1> QED BY <1>4 DEF ReadsAlong

\* Handled is what the last event of the queue leaves.
LEMMA HandledReads ==
  ASSUME NEW q \in Seq(Message), NEW x, NEW atts, NEW f, ReadsAlong(f, q, x, atts)
  PROVE  Handled(q, x, atts) = f[Len(q)]
<1> DEFINE F(g) == g = [n \in 0..Len(q) |-> IF n = 0 THEN atts ELSE HandledBy(q[n], x, g[n - 1])]
           h == CHOOSE g : F(g)
<1>1. F(f)
  BY DEF ReadsAlong
<1>2. F(h)
  BY <1>1, Zenon
<1>3. Handled(q, x, atts) = h[Len(q)]
  BY Zenon DEF Handled
<1> HIDE DEF h
<1>4. ReadsAlong(h, q, x, atts)
  BY <1>2 DEF ReadsAlong
<1>5. Len(q) \in 0..Len(q)
  OBVIOUS
<1>6. h[Len(q)] = f[Len(q)]
  BY <1>4, <1>5, ReadsOnce
<1> QED BY <1>3, <1>6

\* One more event at the end of a queue.
LEMMA HandledAppend ==
  ASSUME NEW q \in Seq(Message), NEW e \in Message, NEW x, NEW atts \in Seq(Sources)
  PROVE  /\ Handled(Append(q, e), x, atts) = HandledBy(e, x, Handled(q, x, atts))
         /\ Handled(q, x, atts) \in Seq(Sources)
<1> DEFINE p == Append(q, e)
<1>1. /\ p \in Seq(Message) /\ Len(p) = Len(q) + 1 /\ Len(q) \in Nat
      /\ \A i \in 1..Len(q) : p[i] = q[i]
      /\ p[Len(q) + 1] = e
  BY AppendProperties
<1> HIDE DEF p
<1>2. PICK f : ReadsAlong(f, q, x, atts)
  BY ReadsExist
<1>3. PICK g : ReadsAlong(g, p, x, atts)
  BY <1>1, ReadsExist
<1> DEFINE h == [n \in 0..Len(q) |-> g[n]]
<1>4. ReadsAlong(h, q, x, atts)
  <2>1. ASSUME NEW n \in 0..Len(q)
        PROVE  g[n] = IF n = 0 THEN atts ELSE HandledBy(q[n], x, h[n - 1])
    <3>1. n \in 0..Len(p)
      BY <1>1
    <3>2. g[n] = IF n = 0 THEN atts ELSE HandledBy(p[n], x, g[n - 1])
      BY <1>3, <3>1, Zenon DEF ReadsAlong
    <3>3. n # 0 => p[n] = q[n] /\ h[n - 1] = g[n - 1]
      BY <1>1
    <3> QED BY <3>2, <3>3
  <2> QED BY <2>1, Zenon DEF ReadsAlong
<1>5. Handled(q, x, atts) = f[Len(q)] /\ Handled(p, x, atts) = g[Len(p)] /\ f[Len(q)] \in Seq(Sources)
  BY <1>1, <1>2, <1>3, HandledReads, ReadsTyped
<1>6. h[Len(q)] = f[Len(q)] /\ h[Len(q)] = g[Len(q)]
  <2>1. Len(q) \in 0..Len(q)
    BY <1>1
  <2>2. h[Len(q)] = g[Len(q)]
    BY <2>1
  <2> HIDE DEF h
  <2> QED BY <1>2, <1>4, <2>1, <2>2, ReadsOnce
<1>7. g[Len(p)] = HandledBy(e, x, g[Len(q)])
  <2>1. Len(p) \in 0..Len(p) /\ Len(p) # 0 /\ Len(p) - 1 = Len(q)
    BY <1>1
  <2>2. g[Len(p)] = IF Len(p) = 0 THEN atts ELSE HandledBy(p[Len(p)], x, g[Len(p) - 1])
    BY <1>3, <2>1, Zenon DEF ReadsAlong
  <2> QED BY <1>1, <2>1, <2>2
<1> QED BY <1>5, <1>6, <1>7 DEF p

\* A queue leaves a list of attributes.
LEMMA HandledTyped ==
  ASSUME NEW q \in Seq(Message), NEW x, NEW atts \in Seq(Sources)
  PROVE  Handled(q, x, atts) \in Seq(Sources)
<1>1. PICK f : ReadsAlong(f, q, x, atts)
  BY ReadsExist
<1>2. Len(q) \in 0..Len(q)
  OBVIOUS
<1>3. f[Len(q)] \in Seq(Sources)
  BY <1>1, <1>2, ReadsTyped
<1> QED BY <1>1, <1>3, HandledReads

\* The first event of a queue.
LEMMA HandledHead ==
  ASSUME NEW q \in Seq(Message), q # <<>>, NEW x, NEW atts \in Seq(Sources)
  PROVE  Handled(q, x, atts) = Handled(Tail(q), x, HandledBy(Head(q), x, atts))
<1> DEFINE p == Tail(q)
           first == HandledBy(Head(q), x, atts)
<1>1. /\ p \in Seq(Message) /\ Len(p) = Len(q) - 1 /\ Len(p) \in Nat /\ Len(q) \in Nat
      /\ \A i \in 1..Len(p) : p[i] = q[i + 1]
      /\ Head(q) = q[1]
  BY HeadTailProperties
<1> HIDE DEF p
<1>2. PICK f : ReadsAlong(f, q, x, atts)
  BY ReadsExist
<1> DEFINE g == [n \in 0..Len(p) |-> f[n + 1]]
<1>3. \A n \in 0..Len(q) : f[n] = IF n = 0 THEN atts ELSE HandledBy(q[n], x, f[n - 1])
  BY <1>2, Zenon DEF ReadsAlong
<1>4. f[0] = atts /\ f[1] = first
  <2>1. f[0] = atts
    BY <1>1, <1>3
  <2>2. f[1] = HandledBy(q[1], x, f[1 - 1])
    BY <1>1, <1>3
  <2> QED BY <1>1, <2>1, <2>2
<1> HIDE DEF first
<1>5. ReadsAlong(g, p, x, first)
  <2>1. ASSUME NEW n \in 0..Len(p)
        PROVE  f[n + 1] = IF n = 0 THEN first ELSE HandledBy(p[n], x, g[n - 1])
    <3>1. CASE n = 0
      BY <1>4, <3>1
    <3>2. CASE n # 0
      <4>1. f[n + 1] = HandledBy(q[n + 1], x, f[(n + 1) - 1])
        BY <1>1, <1>3, <3>2
      <4>2. g[n - 1] = f[n] /\ (n + 1) - 1 = n /\ p[n] = q[n + 1]
        BY <1>1, <3>2
      <4> QED BY <3>2, <4>1, <4>2
    <3> QED BY <3>1, <3>2
  <2> QED BY <2>1, Zenon DEF ReadsAlong
<1>6. g[Len(p)] = f[Len(q)]
  BY <1>1
<1> HIDE DEF g
<1>7. Handled(p, x, first) = g[Len(p)] /\ Handled(q, x, atts) = f[Len(q)]
  BY <1>1, <1>2, <1>5, HandledReads
<1> QED BY <1>6, <1>7 DEF p, first

\* Events of other activities.
LEMMA HandledNone ==
  ASSUME NEW q \in Seq(Message), NEW x, \A i \in DOMAIN q : q[i].a # x, NEW atts \in Seq(Sources)
  PROVE  Handled(q, x, atts) = atts
<1>1. PICK f : ReadsAlong(f, q, x, atts)
  BY ReadsExist
<1> DEFINE bad == {i \in 0..Len(q) : f[i] # atts}
           m == First(bad)
<1>2. Len(q) \in Nat
  OBVIOUS
<1>3. ASSUME bad # {} PROVE FALSE
  <2>1. bad \in SUBSET Nat
    BY <1>2
  <2>2. m \in bad /\ \A i \in bad : m <= i
    <3> HIDE DEF bad
    <3> QED BY <1>3, <2>1, LeastExists
  <2> HIDE DEF m
  <2>3. m \in 0..Len(q) /\ f[m] # atts
    BY <2>2
  <2>4. f[m] = IF m = 0 THEN atts ELSE HandledBy(q[m], x, f[m - 1])
    BY <1>1, <2>3, Zenon DEF ReadsAlong
  <2>5. m # 0
    BY <2>3, <2>4
  <2>6. m - 1 \in 0..Len(q) /\ m - 1 \notin bad /\ m \in DOMAIN q
    BY <1>2, <2>2, <2>3, <2>5
  <2>7. f[m - 1] = atts /\ q[m].a # x
    BY <2>6
  <2>8. HandledBy(q[m], x, f[m - 1]) = f[m - 1]
    BY <2>7 DEF HandledBy
  <2> QED BY <2>3, <2>4, <2>5, <2>7, <2>8
<1>4. f[Len(q)] = atts
  BY <1>2, <1>3
<1> QED BY <1>1, <1>4, HandledReads

\* A source that was not in the list is appended.
LEMMA EachAdded ==
  ASSUME NEW ts \in Seq(Sources), NEW S, NEW s \in Sources, Each(ts, S), s \notin S
  PROVE  Each(Append(ts, s), S \union {s})
<1> DEFINE p == Append(ts, s)
<1>1. /\ Len(p) = Len(ts) + 1 /\ Len(ts) \in Nat
      /\ \A i \in 1..Len(ts) : p[i] = ts[i]
      /\ p[Len(ts) + 1] = s
  BY AppendProperties
<1> HIDE DEF p
<1>2. /\ \A i \in 1..Len(ts) : ts[i] \in S
      /\ \A t \in S : \E i \in 1..Len(ts) : ts[i] = t
      /\ \A i, j \in 1..Len(ts) : ts[i] = ts[j] => i = j
  BY DEF Each
<1>3. \A i \in 1..Len(p) : p[i] \in S \union {s}
  BY <1>1, <1>2
<1>4. ASSUME NEW t \in S \union {s} PROVE \E i \in 1..Len(p) : p[i] = t
  <2>1. CASE t = s
    <3>1. Len(ts) + 1 \in 1..Len(p)
      BY <1>1
    <3> QED BY <1>1, <2>1, <3>1
  <2>2. CASE t # s
    <3>1. PICK i \in 1..Len(ts) : ts[i] = t
      BY <1>2, <2>2
    <3>2. i \in 1..Len(p) /\ p[i] = t
      BY <1>1, <3>1
    <3> QED BY <3>2
  <2> QED BY <2>1, <2>2
<1>5. ASSUME NEW i \in 1..Len(p), NEW j \in 1..Len(p), p[i] = p[j] PROVE i = j
  <2>1. CASE i \in 1..Len(ts) /\ j \in 1..Len(ts)
    BY <1>1, <1>2, <1>5, <2>1
  <2>2. CASE i = Len(ts) + 1 /\ j \in 1..Len(ts)
    BY <1>1, <1>2, <1>5, <2>2
  <2>3. CASE j = Len(ts) + 1 /\ i \in 1..Len(ts)
    BY <1>1, <1>2, <1>5, <2>3
  <2> QED BY <1>1, <2>1, <2>2, <2>3
<1> QED BY <1>3, <1>4, <1>5 DEF Each, p

\* A source of the list is removed.
LEMMA EachRemoved ==
  ASSUME NEW ts \in Seq(Sources), NEW S, NEW s \in S, Each(ts, S)
  PROVE  Each(RemoveAtt(ts, s), S \ {s})
<1> DEFINE at == {i \in 1..Len(ts) : ts[i] = s}
           k == First(at)
           n == Len(ts)
           p == SubSeq(ts, 1, k - 1) \o SubSeq(ts, k + 1, n)
<1>1. /\ \A i \in 1..n : ts[i] \in S
      /\ \A t \in S : \E i \in 1..n : ts[i] = t
      /\ \A i, j \in 1..n : ts[i] = ts[j] => i = j
      /\ n \in Nat
  BY DEF Each
<1>2. at # {} /\ at \in SUBSET Nat
  BY <1>1
<1>3. RemoveAtt(ts, s) = p
  BY <1>2 DEF RemoveAtt, First
<1>4. k \in 1..n /\ ts[k] = s
  <2>1. k \in at
    <3> HIDE DEF at
    <3> QED BY <1>2, LeastExists
  <2> HIDE DEF k
  <2> QED BY <2>1
<1> HIDE DEF k, at
<1>5. /\ Len(p) = n - 1
      /\ \A i \in 1..(k - 1) : p[i] = ts[i]
      /\ \A i \in k..(n - 1) : p[i] = ts[i + 1]
  <2> DEFINE a == SubSeq(ts, 1, k - 1)
             b == SubSeq(ts, k + 1, n)
  <2>1. a \in Seq(Sources) /\ Len(a) = k - 1 /\ \A i \in 1..(k - 1) : a[i] = ts[i]
    <3>1. \A i \in 1..(k - 1) : ts[i] \in Sources
      BY <1>4
    <3> QED BY <1>4, <3>1, SubSeqProperties
  <2>2. b \in Seq(Sources) /\ Len(b) = n - k /\ \A i \in 1..(n - k) : b[i] = ts[i + k]
    <3>1. \A i \in (k + 1)..n : ts[i] \in Sources
      BY <1>4
    <3>2. k + 1 \in Int /\ n \in Int
      BY <1>1, <1>4
    <3>3. b \in Seq(Sources)
      BY <3>1, <3>2, SubSeqProperties
    <3>4. Len(b) = IF k + 1 <= n THEN n - (k + 1) + 1 ELSE 0
      BY <3>1, <3>2, SubSeqProperties
    <3>5. \A i \in 1..(n - (k + 1) + 1) : b[i] = ts[k + 1 + i - 1]
      BY <3>1, <3>2, SubSeqProperties
    <3>6. Len(b) = n - k
      BY <1>1, <1>4, <3>4
    <3> HIDE DEF b, n
    <3>7. ASSUME NEW i \in 1..(n - k) PROVE b[i] = ts[i + k]
      <4>1. n - (k + 1) + 1 = n - k /\ k + 1 + i - 1 = i + k
        BY <1>1, <1>4
      <4>2. b[i] = ts[k + 1 + i - 1]
        BY <3>5, <4>1
      <4> QED BY <4>1, <4>2
    <3> QED BY <3>3, <3>6, <3>7
  <2> HIDE DEF a, b
  <2>3. p = a \o b
    BY DEF a, b
  <2>4. /\ Len(p) = Len(a) + Len(b)
        /\ \A i \in 1..Len(p) : p[i] = IF i <= Len(a) THEN a[i] ELSE b[i - Len(a)]
    <3>1. /\ Len(a \o b) = Len(a) + Len(b)
          /\ \A i \in 1..(Len(a) + Len(b)) : (a \o b)[i] = IF i <= Len(a) THEN a[i] ELSE b[i - Len(a)]
      <4> HIDE DEF p, n
      <4> QED BY <2>1, <2>2, ConcatProperties
    <3> HIDE DEF p
    <3> QED BY <2>3, <3>1
  <2> HIDE DEF p
  <2>5. Len(p) = n - 1
    BY <1>1, <1>4, <2>1, <2>2, <2>4
  <2>6. ASSUME NEW i \in 1..(k - 1) PROVE p[i] = ts[i]
    BY <1>1, <1>4, <2>1, <2>4, <2>5
  <2>7. ASSUME NEW i \in k..(n - 1) PROVE p[i] = ts[i + 1]
    <3>1. i \in 1..Len(p) /\ ~(i <= Len(a)) /\ i - Len(a) \in 1..(n - k) /\ (i - Len(a)) + k = i + 1
      BY <1>1, <1>4, <2>1, <2>5
    <3>2. p[i] = b[i - Len(a)]
      BY <2>4, <3>1
    <3>3. b[i - Len(a)] = ts[(i - Len(a)) + k]
      BY <2>2, <3>1
    <3> QED BY <3>1, <3>2, <3>3
  <2> QED BY <2>5, <2>6, <2>7
<1> HIDE DEF p, n
<1> DEFINE from(i) == IF i < k THEN i ELSE i + 1
<1>6. ASSUME NEW i \in 1..(n - 1)
      PROVE  from(i) \in 1..n /\ from(i) # k /\ p[i] = ts[from(i)]
  BY <1>1, <1>4, <1>5
<1>7. \A i \in 1..Len(p) : p[i] \in S \ {s}
  <2> SUFFICES ASSUME NEW i \in 1..Len(p) PROVE p[i] \in S \ {s}
    OBVIOUS
  <2>1. from(i) \in 1..n /\ from(i) # k /\ p[i] = ts[from(i)]
    BY <1>5, <1>6
  <2> HIDE DEF from
  <2> QED BY <1>1, <1>4, <2>1
<1>8. ASSUME NEW t \in S \ {s} PROVE \E i \in 1..Len(p) : p[i] = t
  <2>1. PICK j \in 1..n : ts[j] = t
    BY <1>1
  <2>2. j # k
    BY <1>4, <2>1
  <2>3. CASE j < k
    <3>1. j \in 1..(k - 1) /\ j \in 1..Len(p)
      BY <1>1, <1>4, <1>5, <2>3
    <3> QED BY <1>5, <2>1, <3>1
  <2>4. CASE j > k
    <3>1. j - 1 \in k..(n - 1) /\ j - 1 \in 1..Len(p) /\ (j - 1) + 1 = j
      BY <1>1, <1>4, <1>5, <2>4
    <3>2. p[j - 1] = ts[(j - 1) + 1]
      BY <1>5, <3>1
    <3> QED BY <2>1, <3>1, <3>2
  <2> QED BY <1>1, <1>4, <2>2, <2>3, <2>4
<1>9. ASSUME NEW i \in 1..Len(p), NEW j \in 1..Len(p), p[i] = p[j] PROVE i = j
  <2>1. /\ from(i) \in 1..n /\ p[i] = ts[from(i)]
        /\ from(j) \in 1..n /\ p[j] = ts[from(j)]
    BY <1>5, <1>6
  <2>2. from(i) = from(j)
    <3> HIDE DEF from
    <3> QED BY <1>1, <1>9, <2>1
  <2> QED BY <1>1, <1>4, <1>5, <2>2
<1> QED BY <1>3, <1>7, <1>8, <1>9 DEF Each

\* A list that has each member of a set once is as long as the set is large.
LEMMA EachCounted ==
  ASSUME NEW ts \in Seq(Sources), NEW S, Each(ts, S)
  PROVE  {ts[i] : i \in 1..Len(ts)} = S /\ Len(ts) = Cardinality(S)
<1>1. /\ \A i \in 1..Len(ts) : ts[i] \in S
      /\ \A t \in S : \E i \in 1..Len(ts) : ts[i] = t
      /\ \A i, j \in 1..Len(ts) : ts[i] = ts[j] => i = j
      /\ Len(ts) \in Nat
  BY DEF Each
<1> DEFINE f == [i \in 1..Len(ts) |-> ts[i]]
<1>2. f \in Bijection(1..Len(ts), S)
  <2>1. f \in [1..Len(ts) -> S] /\ DOMAIN f = 1..Len(ts) /\ \A i \in 1..Len(ts) : f[i] = ts[i]
    BY <1>1
  <2> HIDE DEF f
  <2>2. f \in Injection(1..Len(ts), S)
    BY <1>1, <2>1 DEF Injection, IsInjective
  <2>3. f \in Surjection(1..Len(ts), S)
    BY <1>1, <2>1 DEF Surjection
  <2> QED BY <2>2, <2>3 DEF Bijection
<1>3. IsFiniteSet(1..Len(ts)) /\ Cardinality(1..Len(ts)) = Len(ts)
  <2>1. 1 \in Int /\ Len(ts) \in Int
    BY <1>1
  <2>2. /\ IsFiniteSet(1..Len(ts))
        /\ Cardinality(1..Len(ts)) = IF 1 > Len(ts) THEN 0 ELSE Len(ts) - 1 + 1
    BY <2>1, FS_Interval
  <2> QED BY <1>1, <2>2
<1>4. Cardinality(S) = Len(ts)
  <2>1. ExistsBijection(1..Len(ts), S)
    <3> HIDE DEF f
    <3> QED BY <1>2 DEF ExistsBijection
  <2> QED BY <1>3, <2>1, FS_Bijection
<1> QED BY <1>1, <1>4

-----------------------------------------------------------------------------
(* What a call leaves as it was                                            *)

\* The queues of v are those of w, but for events of the activity x.
News(w, v, x) ==
  \A dev \in Devices :
    /\ \A i \in DOMAIN v.inbox[dev] :
         v.inbox[dev][i].a # x => i \in DOMAIN w.inbox[dev] /\ v.inbox[dev][i] = w.inbox[dev][i]
    /\ \A y \in ReadActivities \ {x} : work[y].atts \in Seq(Sources) =>
         Handled(v.inbox[dev], y, work[y].atts) = Handled(w.inbox[dev], y, work[y].atts)

\* What a call does to activity x leaves the other free activities free.
LEMMA FreeActivityKept ==
  ASSUME NEW w, NEW v, NEW x, News(w, v, x),
         \A y \in ReadActivities \ {x} : v.activity[y] = w.activity[y],
         \A u \in Readers : v.reader[u].event \in {w.reader[u].event, 0, x}
  PROVE  FreeActivities(w) \ {x} \subseteq FreeActivities(v)
<1> SUFFICES ASSUME NEW y \in FreeActivities(w), y # x
             PROVE  y \in FreeActivities(v)
  OBVIOUS
<1>1. /\ y \in ReadActivities /\ ~Linked(w, y) /\ work[y] = NoWork
      /\ \A u \in Readers : w.reader[u].event # y
      /\ \A dev \in Devices : \A i \in DOMAIN w.inbox[dev] : w.inbox[dev][i].a # y
      /\ \A i \in DOMAIN loopq : loopq[i].a # y
  BY DEF FreeActivities
<1>2. ~Linked(v, y)
  BY <1>1 DEF Linked
<1>3. \A u \in Readers : v.reader[u].event # y
  BY <1>1 DEF ReadActivities
<1>4. \A dev \in Devices : \A i \in DOMAIN v.inbox[dev] : v.inbox[dev][i].a # y
  BY <1>1 DEF News
<1> QED BY <1>1, <1>2, <1>3, <1>4 DEF FreeActivities

\* What a call does to the pollers of K leaves the other free pollers free.
LEMMA FreePollerKept ==
  ASSUME NEW w, NEW v, NEW K,
         \A k \in FreePollers(w) \ K : ~v.poller[k].live,
         \A y \in ReadActivities :
           v.activity[y].kind = "poll" => v.activity[y] = w.activity[y]
                                          \/ v.activity[y].owner \notin FreePollers(w) \ K
  PROVE  FreePollers(w) \ K \subseteq FreePollers(v)
<1> SUFFICES ASSUME NEW k \in FreePollers(w) \ K
             PROVE  k \in FreePollers(v)
  OBVIOUS
<1>1. /\ k \in Pollers /\ (disp.poller # k \/ disp.rest = <<>>)
      /\ \A x \in ReadActivities : w.activity[x].kind = "poll" => w.activity[x].owner # k
  BY DEF FreePollers
<1>2. ASSUME NEW x \in ReadActivities, v.activity[x].kind = "poll"
      PROVE  v.activity[x].owner # k
  <2>1. CASE v.activity[x] = w.activity[x]
    BY <1>1, <1>2, <2>1
  <2>2. CASE v.activity[x].owner \notin FreePollers(w) \ K
    BY <2>2
  <2> QED BY <1>2, <2>1, <2>2
<1> QED BY <1>1, <1>2 DEF FreePollers

\* A call that touches no queue leaves what is read as asked, if what is asked
\* is the same.
LEMMA AskedSame ==
  ASSUME NEW w, NEW v, AsAsked(w), v.inbox = w.inbox,
         \A x \in ReadActivities : v.activity[x].kind = "poll" =>
           v.activity[x] = w.activity[x] /\ Asked(v, x) = Asked(w, x)
  PROVE  AsAsked(v)
BY DEF AsAsked, AskedOf, InOrder, ReadBy

\* Events of one activity leave what the others read as asked.
LEMMA AskedKept ==
  ASSUME NEW w, NEW v \in Worlds, AsAsked(w), NEW e \in ReadActivities, News(w, v, e),
         \A x \in ReadActivities \ {e} : v.activity[x].kind = "poll" =>
           v.activity[x] = w.activity[x] /\ Asked(v, x) = Asked(w, x),
         v.activity[e].kind = "poll" => AskedOf(v, e)
  PROVE  AsAsked(v)
<1> SUFFICES ASSUME NEW x \in ReadActivities, v.activity[x].kind = "poll" PROVE AskedOf(v, x)
  BY DEF AsAsked
<1>1. CASE x = e
  BY <1>1
<1>2. CASE x # e
  <2>1. AskedOf(w, x) /\ v.activity[x] = w.activity[x] /\ Asked(v, x) = Asked(w, x)
    BY <1>2 DEF AsAsked
  <2>2. v.activity[x].dev \in Devices /\ work[x].atts \in Seq(Sources) /\ InOrder(w, x)
    BY <2>1 DEF AskedOf
  <2>3. ReadBy(v, x) = ReadBy(w, x)
    BY <1>2, <2>1, <2>2 DEF ReadBy, News
  <2>4. InOrder(v, x)
    <3> SUFFICES ASSUME NEW d \in Devices, NEW i \in DOMAIN v.inbox[d], v.inbox[d][i].a = x
                 PROVE  /\ d = v.activity[x].dev /\ v.inbox[d][i].ev # "Unregister"
                        /\ v.inbox[d][i].ev = "Register" =>
                             work[x].atts = <<>> /\ \A j \in 1..(i - 1) : v.inbox[d][j].a # x
      BY DEF InOrder
    <3>1. i \in DOMAIN w.inbox[d] /\ v.inbox[d][i] = w.inbox[d][i]
      BY <1>2 DEF News
    <3>2. /\ d = w.activity[x].dev /\ w.inbox[d][i].ev # "Unregister"
          /\ w.inbox[d][i].ev = "Register" =>
               work[x].atts = <<>> /\ \A j \in 1..(i - 1) : w.inbox[d][j].a # x
      BY <2>2, <3>1 DEF InOrder
    <3>3. \A j \in 1..(i - 1) : j \in DOMAIN v.inbox[d]
      <4>1. v.inbox[d] \in Seq(Message)
        BY DEF Worlds
      <4> QED BY <4>1
    <3>4. \A j \in 1..(i - 1) : v.inbox[d][j].a = x => w.inbox[d][j].a = x
      BY <1>2, <3>3 DEF News
    <3>5. d = v.activity[x].dev /\ v.inbox[d][i].ev # "Unregister"
      BY <2>1, <3>1, <3>2
    <3>6. v.inbox[d][i].ev = "Register" =>
            work[x].atts = <<>> /\ \A j \in 1..(i - 1) : w.inbox[d][j].a # x
      BY <3>1, <3>2
    <3>7. v.inbox[d][i].ev = "Register" =>
            work[x].atts = <<>> /\ \A j \in 1..(i - 1) : v.inbox[d][j].a # x
      BY <3>4, <3>6, Zenon
    <3> QED BY <3>5, <3>7
  <2> QED BY <2>1, <2>2, <2>3, <2>4 DEF AskedOf
<1> QED BY <1>1, <1>2

\* A call that changes readers only.
LEMMA SoundAskedSame ==
  ASSUME NEW w, Sound(w), NEW v, v.inbox = w.inbox, v.activity = w.activity, v.poller = w.poller
  PROVE  ModesAsked => AsAsked(v)
<1>1. ModesAsked => AsAsked(w)
  BY DEF Sound
<1>2. \A x \in ReadActivities : v.activity[x].kind = "poll" =>
        v.activity[x] = w.activity[x] /\ Asked(v, x) = Asked(w, x)
  BY DEF Asked
<1> QED BY <1>1, <1>2, AskedSame

\* A call that starts or stops an event activity.
LEMMA SoundAskedKept ==
  ASSUME NEW w, Sound(w), NEW v \in Worlds, NEW e \in ReadActivities, News(w, v, e),
         v.poller = w.poller, v.activity[e].kind # "poll",
         \A x \in ReadActivities \ {e} : v.activity[x] = w.activity[x]
  PROVE  ModesAsked => AsAsked(v)
<1>1. ModesAsked => AsAsked(w)
  BY DEF Sound
<1>2. \A x \in ReadActivities \ {e} : v.activity[x].kind = "poll" =>
        v.activity[x] = w.activity[x] /\ Asked(v, x) = Asked(w, x)
  BY DEF Asked
<1> QED BY <1>1, <1>2, AskedKept

-----------------------------------------------------------------------------
(* The functions the handlers are composed of                              *)

\* One more event for the thread of a device.
Sent(w, dev, e) == [w EXCEPT !.inbox = [w.inbox EXCEPT ![dev] = Append(@, e)]]

\* An event queued for a thread changes its queue and nothing else.
LEMMA SentWorld ==
  ASSUME NEW w \in Worlds, NEW dev, NEW e \in Message, NEW v, v = Sent(w, dev, e)
  PROVE  /\ v \in Worlds /\ v.reader = w.reader /\ v.actions = w.actions /\ v.poller = w.poller
         /\ v.pollerOf = w.pollerOf /\ v.activity = w.activity
         /\ News(w, v, e.a)
<1>1. w.inbox \in [Devices -> Seq(Message)]
  BY DEF Worlds
<1>2. /\ v.inbox = [w.inbox EXCEPT ![dev] = Append(w.inbox[dev], e)]
      /\ v.reader = w.reader /\ v.actions = w.actions /\ v.poller = w.poller
      /\ v.pollerOf = w.pollerOf /\ v.activity = w.activity
  BY DEF Worlds, Sent
<1>3. CASE dev \notin Devices
  <2>1. v.inbox = w.inbox
    BY <1>1, <1>2, <1>3
  <2>2. v = w
    BY <2>1, <1>2 DEF Worlds, Sent
  <2> QED BY <2>2 DEF News
<1>4. CASE dev \in Devices
  <2> DEFINE q == w.inbox[dev]
  <2>1. q \in Seq(Message)
    BY <1>1, <1>4
  <2> HIDE DEF q
  <2>2. /\ Append(q, e) \in Seq(Message) /\ DOMAIN Append(q, e) = 1..(Len(q) + 1)
        /\ DOMAIN q = 1..Len(q) /\ Len(q) \in Nat
        /\ Append(q, e)[Len(q) + 1] = e
        /\ \A i \in 1..Len(q) : Append(q, e)[i] = q[i]
    BY <2>1, AppendProperties, LenProperties
  <2>3. v.inbox[dev] = Append(q, e) /\ \A d \in Devices \ {dev} : v.inbox[d] = w.inbox[d]
    BY <1>1, <1>2, <1>4 DEF q
  <2>4. v.inbox \in [Devices -> Seq(Message)]
    BY <1>1, <1>2, <1>4, <2>2 DEF q
  <2>5. ASSUME NEW d \in Devices, NEW i \in DOMAIN v.inbox[d], v.inbox[d][i].a # e.a
        PROVE  i \in DOMAIN w.inbox[d] /\ v.inbox[d][i] = w.inbox[d][i]
    <3>1. CASE d = dev
      <4>1. i \in 1..(Len(q) + 1) /\ v.inbox[d][i] = Append(q, e)[i]
        BY <2>2, <2>3, <2>5, <3>1
      <4>2. i # Len(q) + 1
        BY <2>2, <2>5, <4>1
      <4>3. i \in 1..Len(q)
        BY <2>2, <4>1, <4>2
      <4> QED BY <2>2, <3>1, <4>1, <4>3 DEF q
    <3>2. CASE d # dev
      BY <2>3, <2>5, <3>2
    <3> QED BY <3>1, <3>2
  <2>6. v \in Worlds
    BY <1>2, <2>4 DEF Worlds, Sent
  <2>7. ASSUME NEW d \in Devices, NEW y \in ReadActivities, y # e.a, work[y].atts \in Seq(Sources)
        PROVE  Handled(v.inbox[d], y, work[y].atts) = Handled(w.inbox[d], y, work[y].atts)
    <3>1. CASE d = dev
      <4>1. Handled(Append(q, e), y, work[y].atts) = HandledBy(e, y, Handled(q, y, work[y].atts))
        BY <2>1, <2>7, HandledAppend
      <4>2. HandledBy(e, y, Handled(q, y, work[y].atts)) = Handled(q, y, work[y].atts)
        BY <2>7 DEF HandledBy
      <4> QED BY <2>3, <3>1, <4>1, <4>2 DEF q
    <3>2. CASE d # dev
      BY <2>3, <2>7, <3>2
    <3> QED BY <3>1, <3>2
  <2> QED BY <1>2, <2>5, <2>6, <2>7 DEF News
<1> QED BY <1>3, <1>4

\* postEvent reaches the thread of an activity that is still registered.
LEMMA PostToWorld ==
  ASSUME NEW w \in Worlds, NEW dev, NEW ev, NEW x \in ReadActivities, NEW s,
         \/ ev \in {"Add", "Remove"} /\ s \in Sources
         \/ ev \in {"Unregister", "Execute"} /\ s = NoSource,
         NEW v, v = PostTo(w, dev, ev, x, s)
  PROVE  /\ v \in Worlds /\ v.reader = w.reader /\ v.actions = w.actions /\ v.poller = w.poller
         /\ v.pollerOf = w.pollerOf /\ v.activity = w.activity
         /\ News(w, v, x)
<1> DEFINE e == [ev |-> ev, a |-> x, src |-> s]
<1>1. e \in Message /\ e.a = x
  BY DEF Message
<1>2. v = Sent(w, dev, e)
  BY DEF PostTo, Worlds, Sent
<1> HIDE DEF e
<1> QED BY <1>1, <1>2, SentWorld

\* unregisterActivity frees the activity's number.
LEMMA UnregisterActWorld ==
  ASSUME NEW w \in Worlds, NEW x \in ReadActivities, Linked(w, x),
         NEW v, v = UnregisterAct(w, x)
  PROVE  /\ v \in Worlds /\ v.reader = w.reader /\ v.actions = w.actions /\ v.poller = w.poller
         /\ v.pollerOf = w.pollerOf /\ Puts(ReadActivities, w.activity, v.activity, x, NoActivity)
         /\ News(w, v, x)
<1> DEFINE u == [w EXCEPT !.activity = [w.activity EXCEPT ![x] = NoActivity]]
<1>1. x # 0
  BY DEF ReadActivities
<1>2. v = PostTo(u, w.activity[x].dev, "Unregister", x, NoSource)
  BY <1>1 DEF UnregisterAct, Worlds
<1>3. /\ u.inbox = w.inbox /\ u.reader = w.reader /\ u.actions = w.actions /\ u.poller = w.poller
      /\ u.pollerOf = w.pollerOf /\ Puts(ReadActivities, w.activity, u.activity, x, NoActivity)
  BY DEF Worlds, Puts
<1>4. NoActivity \in ActivityRec
  BY DEF NoActivity, ActivityRec, NoPeriod
<1>5. u \in Worlds
  BY <1>4 DEF Worlds
<1> HIDE DEF u
<1>6. /\ v \in Worlds /\ v.reader = u.reader /\ v.actions = u.actions /\ v.poller = u.poller
      /\ v.pollerOf = u.pollerOf /\ v.activity = u.activity
      /\ News(u, v, x)
  BY <1>2, <1>5, PostToWorld
<1>7. News(w, v, x)
  BY <1>3, <1>6 DEF News
<1> QED BY <1>3, <1>6, <1>7

\* registerActivity takes a free number.
LEMMA RegisterActWorld ==
  ASSUME NEW w \in Worlds, NEW x \in ReadActivities, NEW a \in ActivityRec, a.kind \in {"event", "poll"},
         NEW v, v = RegisterAct(w, x, a)
  PROVE  /\ v \in Worlds /\ v.reader = w.reader /\ v.actions = w.actions /\ v.poller = w.poller
         /\ v.pollerOf = w.pollerOf /\ Puts(ReadActivities, w.activity, v.activity, x, a)
         /\ News(w, v, x)
<1> DEFINE e == [ev |-> "Register", a |-> x, src |-> NoSource,
                 kind |-> a.kind, manual |-> a.period = ManualPeriod]
           u == [w EXCEPT !.activity = [w.activity EXCEPT ![x] = a]]
<1>1. e \in Message /\ e.a = x
  BY DEF Message
<1>2. v = Sent(u, a.dev, e)
  BY DEF RegisterAct, Worlds, Sent
<1>3. /\ u.inbox = w.inbox /\ u.reader = w.reader /\ u.actions = w.actions /\ u.poller = w.poller
      /\ u.pollerOf = w.pollerOf /\ Puts(ReadActivities, w.activity, u.activity, x, a)
  BY DEF Worlds, Puts
<1>4. u \in Worlds
  BY DEF Worlds
<1> HIDE DEF u, e
<1>5. /\ v \in Worlds /\ v.reader = u.reader /\ v.actions = u.actions /\ v.poller = u.poller
      /\ v.pollerOf = u.pollerOf /\ v.activity = u.activity
      /\ News(u, v, x)
  BY <1>1, <1>2, <1>4, SentWorld
<1>6. News(w, v, x)
  BY <1>3, <1>5 DEF News
<1> QED BY <1>3, <1>5, <1>6

\* What the two functions queue.
LEMMA PostToQueue ==
  ASSUME NEW w \in Worlds, NEW dev, NEW ev, NEW x, NEW s
  PROVE  PostTo(w, dev, ev, x, s).inbox
           = [w.inbox EXCEPT ![dev] = Append(@, [ev |-> ev, a |-> x, src |-> s])]
BY DEF PostTo, Worlds

\* A new activity is registered at the end of the queue of its device.
LEMMA RegisterActQueue ==
  ASSUME NEW w \in Worlds, NEW x, NEW a
  PROVE  RegisterAct(w, x, a).inbox
           = [w.inbox EXCEPT ![a.dev] = Append(@,
                [ev |-> "Register", a |-> x, src |-> NoSource,
                 kind |-> a.kind, manual |-> a.period = ManualPeriod])]
BY DEF RegisterAct, Worlds

\* An event at the end of a queue: what is read then, and where the events are.
Queued(w, v, dev, e) ==
  /\ \A x, ts : ts \in Seq(Sources) =>
       /\ Handled(v.inbox[dev], x, ts) = HandledBy(e, x, Handled(w.inbox[dev], x, ts))
       /\ Handled(w.inbox[dev], x, ts) \in Seq(Sources)
  /\ \A d \in Devices : \A i \in DOMAIN v.inbox[d] :
       \/ i \in DOMAIN w.inbox[d] /\ v.inbox[d][i] = w.inbox[d][i]
       \/ d = dev /\ i = Len(w.inbox[dev]) + 1 /\ v.inbox[d][i] = e
  /\ \A i \in DOMAIN w.inbox[dev] : v.inbox[dev][i] = w.inbox[dev][i]

\* An event that is posted comes after those that were queued.
LEMMA QueuedReads ==
  ASSUME NEW w \in Worlds, NEW dev \in Devices, NEW e \in Message,
         NEW v, v.inbox = [w.inbox EXCEPT ![dev] = Append(@, e)]
  PROVE  Queued(w, v, dev, e)
<1> DEFINE q == w.inbox[dev]
           p == Append(q, e)
<1>1. w.inbox \in [Devices -> Seq(Message)]
  BY DEF Worlds
<1>2. q \in Seq(Message) /\ v.inbox[dev] = p /\ \A d \in Devices \ {dev} : v.inbox[d] = w.inbox[d]
  BY <1>1
<1> HIDE DEF q
<1>3. \A x, ts : ts \in Seq(Sources) =>
        /\ Handled(p, x, ts) = HandledBy(e, x, Handled(q, x, ts))
        /\ Handled(q, x, ts) \in Seq(Sources)
  BY <1>2, HandledAppend
<1>4. /\ DOMAIN p = 1..(Len(q) + 1) /\ DOMAIN q = 1..Len(q) /\ Len(q) \in Nat
      /\ p[Len(q) + 1] = e /\ \A i \in 1..Len(q) : p[i] = q[i]
  BY <1>2, AppendProperties, LenProperties
<1> HIDE DEF p
<1>5. ASSUME NEW d \in Devices, NEW i \in DOMAIN v.inbox[d]
      PROVE  \/ i \in DOMAIN w.inbox[d] /\ v.inbox[d][i] = w.inbox[d][i]
             \/ d = dev /\ i = Len(w.inbox[dev]) + 1 /\ v.inbox[d][i] = e
  <2>1. CASE d = dev
    BY <1>2, <1>4, <1>5, <2>1 DEF q
  <2>2. CASE d # dev
    BY <1>2, <1>5, <2>2
  <2> QED BY <2>1, <2>2
<1>6. \A i \in DOMAIN w.inbox[dev] : v.inbox[dev][i] = w.inbox[dev][i]
  BY <1>2, <1>4 DEF q
<1> QED BY <1>2, <1>3, <1>5, <1>6 DEF q, Queued

\* An event for a poller's activity, which reads as asked afterwards.
LEMMA AskedPosted ==
  ASSUME NEW w \in Worlds, NEW x \in ReadActivities, NEW dev \in Devices,
         w.activity[x].dev = dev, work[x].atts \in Seq(Sources), InOrder(w, x),
         NEW e \in Message, e.ev \in {"Add", "Remove", "Execute"},
         NEW v, v.activity[x] = w.activity[x],
         v.inbox = [w.inbox EXCEPT ![dev] = Append(@, e)],
         Each(HandledBy(e, x, ReadBy(w, x)), Asked(v, x))
  PROVE  AskedOf(v, x)
<1>1. /\ Handled(v.inbox[dev], x, work[x].atts)
           = HandledBy(e, x, Handled(w.inbox[dev], x, work[x].atts))
      /\ \A d \in Devices : \A i \in DOMAIN v.inbox[d] :
           \/ i \in DOMAIN w.inbox[d] /\ v.inbox[d][i] = w.inbox[d][i]
           \/ d = dev /\ i = Len(w.inbox[dev]) + 1 /\ v.inbox[d][i] = e
      /\ \A i \in DOMAIN w.inbox[dev] : v.inbox[dev][i] = w.inbox[dev][i]
  <2>1. Queued(w, v, dev, e)
    BY QueuedReads
  <2> QED BY <2>1 DEF Queued
<1>2. ReadBy(v, x) = HandledBy(e, x, ReadBy(w, x))
  BY <1>1 DEF ReadBy
<1>3. InOrder(v, x)
  <2> SUFFICES ASSUME NEW d \in Devices, NEW i \in DOMAIN v.inbox[d], v.inbox[d][i].a = x
               PROVE  /\ d = dev /\ v.inbox[d][i].ev # "Unregister"
                      /\ v.inbox[d][i].ev = "Register" =>
                           work[x].atts = <<>> /\ \A j \in 1..(i - 1) : v.inbox[d][j].a # x
    BY DEF InOrder
  <2>1. CASE i \in DOMAIN w.inbox[d] /\ v.inbox[d][i] = w.inbox[d][i]
    <3>1. /\ d = dev /\ w.inbox[d][i].ev # "Unregister"
          /\ w.inbox[d][i].ev = "Register" =>
               work[x].atts = <<>> /\ \A j \in 1..(i - 1) : w.inbox[d][j].a # x
      BY <2>1 DEF InOrder
    <3>2. \A j \in 1..(i - 1) : j \in DOMAIN w.inbox[d]
      <4>1. w.inbox[d] \in Seq(Message)
        BY DEF Worlds
      <4> QED BY <2>1, <4>1
    <3> QED BY <1>1, <2>1, <3>1, <3>2
  <2>2. CASE d = dev /\ v.inbox[d][i] = e
    BY <2>2
  <2> QED BY <1>1, <2>1, <2>2
<1> QED BY <1>2, <1>3 DEF AskedOf

\* The readers that a failure of the event system may move to a poller.
Subscribed(w) == {r \in Readers : w.reader[r].event # 0 /\ Linked(w, w.reader[r].event)}

\* From w to v nothing is taken into use; or a poller and an activity at most.
Gains(w, v) ==
  /\ FreePollers(w) \subseteq FreePollers(v) /\ FreeActivities(w) \subseteq FreeActivities(v)
  /\ Subscribed(v) \subseteq Subscribed(w)
Takes(w, v) ==
  /\ \E k \in Pollers : FreePollers(w) \ {k} \subseteq FreePollers(v)
  /\ \E x \in ReadActivities : FreeActivities(w) \ {x} \subseteq FreeActivities(v)
  /\ Subscribed(v) \subseteq Subscribed(w)

\* CuActionFactoryService's getPoller returns a live poller of the period, old or new.
LEMMA GetPollerFound ==
  ASSUME NEW w, Sound(w), NEW p \in AllPeriods, w.pollerOf[p] # 0 \/ FreePollers(w) # {},
         NEW v, v = GetPoller(w, p)
  PROVE  /\ Sound(v) /\ v.reader = w.reader /\ v.actions = w.actions /\ v.activity = w.activity
         /\ v.inbox = w.inbox
         /\ v.pollerOf[p] \in Pollers /\ v.poller[v.pollerOf[p]].live
         /\ v.poller[v.pollerOf[p]].period = p
         /\ FreePollers(w) \ {v.pollerOf[p]} \subseteq FreePollers(v)
         /\ \A r \in Readers : (Detached(w, r) => Detached(v, r)) /\ (Fed(w, r) => Fed(v, r))
<1>1. w \in Worlds /\ w.pollerOf[p] \in Pollers \union {0}
  BY DEF Sound, Worlds
<1>2. CASE w.pollerOf[p] # 0
  <2>1. v = w
    BY <1>2 DEF GetPoller
  <2>2. w.pollerOf[p] \in Pollers /\ w.poller[w.pollerOf[p]].live /\ w.poller[w.pollerOf[p]].period = p
    BY <1>1, <1>2 DEF Sound, PollersFound
  <2> QED BY <2>1, <2>2
<1>3. CASE w.pollerOf[p] = 0
  <2> DEFINE k == First(FreePollers(w))
             q == [NoPoller EXCEPT !.live = TRUE, !.period = p]
  <2>1. k \in FreePollers(w)
    <3>1. FreePollers(w) \in SUBSET Nat
      BY SMTT(30) DEF FreePollers, Pollers
    <3> QED BY <1>3, <3>1, LeastExists
  <2>2. k \in Pollers
    BY <2>1 DEF FreePollers
  <2>3. v = [w EXCEPT !.pollerOf = [w.pollerOf EXCEPT ![p] = k],
                      !.poller = [w.poller EXCEPT ![k] = q]]
    <3> HIDE DEF k
    <3> QED BY <1>1, <1>3 DEF GetPoller, Worlds, k
  <2>4. NoPoller \in PollerRec
    BY DEF NoPoller, PollerRec, NoPeriod
  <2>5. /\ q \in PollerRec /\ q.live /\ q.period = p /\ q.actions_map = [s \in Sources |-> 0]
        /\ q.pa_amap = {}
    <3>1. NoPoller.actions_map = [s \in Sources |-> 0] /\ NoPoller.pa_amap = {}
      BY DEF NoPoller
    <3> QED BY <2>4, <3>1 DEF PollerRec
  <2> HIDE DEF k, q
  <2>6. /\ v.reader = w.reader /\ v.actions = w.actions /\ v.activity = w.activity
        /\ v.inbox = w.inbox
        /\ v.pollerOf = [w.pollerOf EXCEPT ![p] = k] /\ v.poller = [w.poller EXCEPT ![k] = q]
    BY <1>1, <2>3 DEF Worlds
  <2>7. v \in Worlds
    <3>1. v.poller \in [Pollers -> PollerRec]
      <4>1. w.poller \in [Pollers -> PollerRec]
        BY <1>1 DEF Worlds
      <4>2. v.poller = [w.poller EXCEPT ![k] = q] /\ q \in PollerRec
        BY <2>5, <2>6
      <4> QED BY <4>1, <4>2
    <3>2. v.pollerOf \in [AllPeriods \union {NoPeriod} -> Pollers \union {0}]
      BY <1>1, <2>2, <2>6 DEF Worlds
    <3> QED BY <1>1, <2>3, <2>6, <3>1, <3>2 DEF Worlds
  <2>8. /\ Puts(Pollers, w.poller, v.poller, k, q)
        /\ Puts(AllPeriods \union {NoPeriod}, w.pollerOf, v.pollerOf, p, k)
    BY <1>1, <2>2, <2>6 DEF Worlds, Puts
  <2>9. /\ Sound(v)
        /\ \A r \in Readers : (Detached(w, r) => Detached(v, r)) /\ (Fed(w, r) => Fed(v, r))
    <3>1. ASSUME ModesAsked PROVE AsAsked(v)
      <4>1. ASSUME NEW x \in ReadActivities, v.activity[x].kind = "poll"
            PROVE  v.activity[x] = w.activity[x] /\ Asked(v, x) = Asked(w, x)
        <5>1. v.activity[x] = w.activity[x] /\ w.activity[x].kind = "poll" /\ w.activity[x].owner # k
          BY <2>1, <2>6, <4>1 DEF FreePollers
        <5>2. w.activity[x].owner \in Pollers
          BY <5>1 DEF Sound, ActivitiesOwned
        <5>3. v.poller[w.activity[x].owner] = w.poller[w.activity[x].owner]
          BY <2>8, <5>1, <5>2 DEF Puts
        <5> QED BY <5>1, <5>3 DEF Asked
      <4>2. AsAsked(w)
        BY <3>1 DEF Sound
      <4> QED BY <2>6, <4>1, <4>2, AskedSame
    <3> QED BY <1>3, <2>1, <2>5, <2>6, <2>7, <2>8, <3>1, PollerCreated
  <2>10. v.pollerOf[p] = k /\ v.poller[k] = q
    BY <2>8 DEF Puts
  <2>11. FreePollers(w) \ {k} \subseteq FreePollers(v)
    <3>1. \A j \in FreePollers(w) \ {k} : ~v.poller[j].live
      BY <2>8 DEF Puts, FreePollers
    <3> QED BY <2>6, <3>1, FreePollerKept
  <2> QED BY <2>2, <2>5, <2>6, <2>9, <2>10, <2>11
<1> QED BY <1>2, <1>3

\* The part of PollerRegister and PollerUnregister that is the poller's own.
WithPoller(w, k, s, y, P) == [w EXCEPT !.poller[k].actions_map[s] = y, !.poller[k].pa_amap = P]

\* What a poller changes of itself when a reader joins or leaves it.
LEMMA PollerWorld ==
  ASSUME NEW w \in Worlds, NEW k \in Pollers, NEW s \in Sources, NEW y \in Readers \union {0},
         NEW P \in SUBSET (ReadActivities \X Readers),
         NEW v, v = WithPoller(w, k, s, y, P)
  PROVE  /\ v \in Worlds /\ v.reader = w.reader /\ v.actions = w.actions
         /\ v.pollerOf = w.pollerOf /\ v.activity = w.activity /\ v.inbox = w.inbox
         /\ \E q \in PollerRec :
              /\ Puts(Pollers, w.poller, v.poller, k, q)
              /\ q.live = w.poller[k].live /\ q.period = w.poller[k].period /\ q.pa_amap = P
              /\ Puts(Sources, w.poller[k].actions_map, q.actions_map, s, y)
<1> DEFINE m == [w.poller[k].actions_map EXCEPT ![s] = y]
           q == [w.poller[k] EXCEPT !.actions_map = m, !.pa_amap = P]
<1>1. w.poller[k] \in PollerRec
  BY DEF Worlds
<1>2. /\ m \in [Sources -> Readers \union {0}]
      /\ Puts(Sources, w.poller[k].actions_map, m, s, y)
  BY <1>1 DEF PollerRec, Puts
<1>3. v = [w EXCEPT !.poller = [w.poller EXCEPT ![k] = q]]
  BY <1>1 DEF Worlds, PollerRec, WithPoller
<1> HIDE DEF m
<1>4. /\ q \in PollerRec /\ q.live = w.poller[k].live /\ q.period = w.poller[k].period
      /\ q.pa_amap = P /\ q.actions_map = m
  BY <1>1, <1>2 DEF PollerRec
<1> HIDE DEF q
<1>5. /\ v.reader = w.reader /\ v.actions = w.actions /\ v.pollerOf = w.pollerOf
      /\ v.activity = w.activity /\ v.inbox = w.inbox /\ v.poller = [w.poller EXCEPT ![k] = q]
  BY <1>3 DEF Worlds
<1>6. v \in Worlds
  <2>1. v.poller \in [Pollers -> PollerRec]
    BY <1>4, <1>5 DEF Worlds
  <2> QED BY <1>3, <1>5, <2>1 DEF Worlds
<1>7. Puts(Pollers, w.poller, v.poller, k, q)
  BY <1>5 DEF Worlds, Puts
<1> QED BY <1>2, <1>4, <1>5, <1>6, <1>7

\* A poller in use, of a period.
LivePoller(w, k, p) == w.poller[k].live /\ w.poller[k].period = p

\* The activity that PollerRegister uses.
LEMMA PollingActivity ==
  ASSUME NEW w, Sound(w), NEW k \in Pollers, NEW p, LivePoller(w, k, p),
         NEW dev \in Devices, NEW found, found = Polling(w, dev, p),
         found # {} \/ FreeActivities(w) # {},
         NEW x, x = First(IF found = {} THEN FreeActivities(w) ELSE found),
         NEW a, a = [kind |-> "poll", owner |-> k, dev |-> dev, period |-> p]
  PROVE  /\ x \in ReadActivities /\ a \in ActivityRec
         /\ found # {} => x \in found /\ w.activity[x] = a
         /\ found = {} => x \in FreeActivities(w) /\ w.activity[x] = NoActivity
         /\ \A y \in found : y = x
<1>1. w \in Worlds /\ p \in AllPeriods /\ w.pollerOf[p] = k
  BY DEF Sound, PollersFound, LivePoller
<1>2. a \in ActivityRec /\ a.kind = "poll" /\ a.owner = k /\ a.dev = dev /\ a.period = p
  BY <1>1 DEF ActivityRec, Pollers
<1>3. CASE found # {}
  <2>1. x \in found
    <3>1. found \in SUBSET Nat
      BY SMTT(30) DEF Polling, ReadActivities
    <3> QED BY <1>3, <3>1, LeastExists
  <2>2. /\ x \in ReadActivities /\ w.activity[x].kind = "poll" /\ w.activity[x].dev = dev
        /\ w.activity[x].period = p
    BY <2>1, Zenon DEF Polling
  <2>3. w.activity[x].owner = k
    <3> DEFINE j == w.activity[x].owner
    <3>1. j \in Pollers /\ w.poller[j].live /\ w.poller[j].period = p
      BY <2>2, SMTT(30) DEF Sound, ActivitiesOwned
    <3>2. w.pollerOf[p] = j
      BY <3>1 DEF Sound, PollersFound
    <3> QED BY <1>1, <3>2, SMTT(30)
  <2>4. w.activity[x] = a
    <3>1. w.activity[x] \in ActivityRec
      BY <1>1, <2>2, SMTT(30) DEF Worlds
    <3> QED BY <1>2, <2>2, <2>3, <3>1 DEF ActivityRec
  <2>5. \A y \in found : y = x
    <3>1. \A y \in found : /\ y \in ReadActivities /\ w.activity[y].kind = "poll"
                           /\ w.activity[y].dev = dev /\ w.activity[y].period = p
      BY DEF Polling
    <3> QED BY <2>2, <3>1, SMTT(30) DEF Sound, ActivitiesOwned
  <2> QED BY <1>2, <1>3, <2>1, <2>2, <2>4, <2>5
<1>4. CASE found = {}
  <2>1. FreeActivities(w) \in SUBSET Nat /\ FreeActivities(w) # {}
    BY <1>4 DEF FreeActivities, ReadActivities
  <2>2. x \in FreeActivities(w)
    BY <1>4, <2>1, LeastExists, SMTT(30)
  <2>3. x \in ReadActivities /\ w.activity[x] = NoActivity
    BY <2>2, Zenon DEF FreeActivities, Linked
  <2> QED BY <1>2, <1>4, <2>2, <2>3
<1> QED BY <1>3, <1>4


\* A poller that is asked for a source has an activity for its device.
LEMMA AskedIsPolled ==
  ASSUME NEW w, Sound(w), NEW k \in Pollers, w.poller[k].live, NEW t \in Sources,
         w.poller[k].actions_map[t] # 0
  PROVE  Polling(w, DeviceOf[t], w.poller[k].period) # {}
<1> DEFINE u == w.poller[k].actions_map[t]
<1>1. w \in Worlds /\ w.poller[k] \in PollerRec
  BY DEF Sound, Worlds
<1>2. u \in Readers /\ u # 0
  BY <1>1 DEF PollerRec
<1>3. PolledBy(w, k, t, u)
  BY <1>2, PolledReader
<1> HIDE DEF u
<1>4. PICK x \in ReadActivities : <<x, u>> \in w.poller[k].pa_amap
  BY <1>3 DEF PolledBy
<1>5. PairedBy(w, k, x, u)
  BY <1>2, <1>4, PairKept
<1>6. w.activity[x].kind = "poll" /\ w.activity[x].owner = k /\ w.activity[x].dev = DeviceOf[t]
  BY <1>3, <1>5 DEF PolledBy, PairedBy
<1>7. w.activity[x].period = w.poller[k].period
  BY <1>6 DEF Sound, ActivitiesOwned
<1> QED BY <1>6, <1>7 DEF Polling

\* A reader that nothing feeds is in no poller.
LEMMA NotAsked ==
  ASSUME NEW w, Sound(w), NEW r \in Readers, Detached(w, r), NEW k \in Pollers, w.poller[k].live
  PROVE  w.poller[k].actions_map[w.reader[r].src] = 0
<1> DEFINE s == w.reader[r].src
           u == w.poller[k].actions_map[s]
<1>1. /\ w \in Worlds /\ w.poller[k] \in PollerRec /\ s \in Sources /\ w.actions[s] = r
  BY DEF Sound, Worlds, ReadersFound, Detached
<1>2. u \in Readers \union {0} /\ u # r
  BY <1>1 DEF PollerRec, Detached
<1> HIDE DEF s
<1>3. ASSUME u # 0 PROVE FALSE
  <2>1. PolledBy(w, k, s, u)
    BY <1>1, <1>3, PolledReader
  <2> HIDE DEF u
  <2>2. w.reader[u].live /\ w.reader[u].src = s /\ u \in Readers
    BY <1>2, <1>3, <2>1 DEF PolledBy
  <2>3. w.actions[s] = u
    BY <2>2 DEF Sound, ReadersFound
  <2> QED BY <1>1, <1>2, <2>3
<1> QED BY <1>3 DEF s

\* What is asked of a poller's activities when the reader of source s joins or
\* leaves it: those of other pollers and devices read what they did.
LEMMA AskedOfOthers ==
  ASSUME NEW w, Sound(w), NEW v, NEW k \in Pollers, NEW s \in Sources, NEW q, NEW y,
         NEW x \in ReadActivities, w.activity[x].kind = "poll", v.activity[x] = w.activity[x],
         Puts(Pollers, w.poller, v.poller, k, q),
         Puts(Sources, w.poller[k].actions_map, q.actions_map, s, y),
         w.activity[x].owner # k \/ w.activity[x].dev # DeviceOf[s]
  PROVE  Asked(v, x) = Asked(w, x)
<1>1. w.activity[x].owner \in Pollers
  BY DEF Sound, ActivitiesOwned
<1>2. CASE w.activity[x].owner # k
  <2>1. v.poller[w.activity[x].owner] = w.poller[w.activity[x].owner]
    BY <1>1, <1>2 DEF Puts
  <2> QED BY <2>1 DEF Asked
<1>3. CASE w.activity[x].owner = k /\ w.activity[x].dev # DeviceOf[s]
  <2>1. v.poller[k] = q /\ \A t \in Sources \ {s} : q.actions_map[t] = w.poller[k].actions_map[t]
    BY DEF Puts
  <2>2. \A t \in Sources : DeviceOf[t] = w.activity[x].dev => t \in Sources \ {s}
    BY <1>3
  <2> QED BY <1>3, <2>1, <2>2 DEF Asked
<1> QED BY <1>2, <1>3

\* registerAction: a reader that nothing feeds is fed by the poller it joins.
LEMMA PollerRegisterJoins ==
  ASSUME NEW w, Sound(w), NEW r \in Readers, Detached(w, r), w.reader[r].event = 0,
         NEW k \in Pollers, LivePoller(w, k, w.reader[r].period), FreeActivities(w) # {},
         NEW v, v = PollerRegister(w, k, r)
  PROVE  /\ Sound(v) /\ PollFed(v, r) /\ v.reader = w.reader
         /\ \A u \in Readers \ {r} : Fed(w, u) => Fed(v, u)
         /\ FreePollers(w) \subseteq FreePollers(v)
         /\ \E x \in ReadActivities : FreeActivities(w) \ {x} \subseteq FreeActivities(v)
         /\ Subscribed(v) \subseteq Subscribed(w)
<1> DEFINE s == w.reader[r].src
           dev == DeviceOf[s]
           p == w.reader[r].period
           found == Polling(w, dev, p)
           x == First(IF found = {} THEN FreeActivities(w) ELSE found)
           P == w.poller[k].pa_amap \union {<<x, r>>}
           a == [kind |-> "poll", owner |-> k, dev |-> dev, period |-> p]
           w1 == WithPoller(w, k, s, r, P)
           w2 == IF found # {} THEN w1 ELSE RegisterAct(w1, x, a)
<1>1. /\ w \in Worlds /\ s \in Sources /\ dev \in Devices
      /\ w.poller[k].pa_amap \in SUBSET (ReadActivities \X Readers)
  <2>1. w \in Worlds /\ s \in Sources
    BY DEF Sound, Detached, ReadersFound
  <2>2. w.poller[k] \in PollerRec
    BY <2>1 DEF Worlds
  <2> QED BY <2>1, <2>2 DEF Devices, PollerRec
<1>2. v = PostTo(w2, dev, "Add", x, s)
  <2> DEFINE wr == [w EXCEPT !.poller[k].actions_map[s] = r,
                             !.poller[k].pa_amap = @ \union {<<x, r>>}]
  <2>1. v = PostTo(IF found # {} THEN wr ELSE RegisterAct(wr, x, a), dev, "Add", x, s)
    BY DEF PollerRegister, LivePoller
  <2>2. w1 = wr
    <3>1. w.poller[k].pa_amap = w.poller[k].pa_amap
      OBVIOUS
    <3> HIDE DEF x, s, found, p, dev
    <3> QED BY <1>1 DEF Worlds, PollerRec, WithPoller
  <2> HIDE DEF w1, wr, x, s, found, p, dev, a
  <2> QED BY <2>1, <2>2, SMTT(30)
<1> HIDE DEF found, x, a
<1>3. /\ x \in ReadActivities /\ a \in ActivityRec
      /\ found # {} => x \in found /\ w.activity[x] = a
      /\ found = {} => x \in FreeActivities(w) /\ w.activity[x] = NoActivity
      /\ \A y \in found : y = x
  <2> HIDE DEF dev, s
  <2>1. found = Polling(w, dev, p)
    BY DEF found
  <2>2. x = First(IF found = {} THEN FreeActivities(w) ELSE found)
    BY DEF x
  <2>3. a = [kind |-> "poll", owner |-> k, dev |-> dev, period |-> p]
    BY DEF a
  <2> HIDE DEF w1, w2, P
  <2> QED BY <1>1, <2>1, <2>2, <2>3, PollingActivity
<1>4. a.kind = "poll" /\ a.owner = k /\ a.dev = dev /\ a.period = p
  BY DEF a
<1>5. P \in SUBSET (ReadActivities \X Readers)
  BY <1>1, <1>3
<1> HIDE DEF w1, w2, P, s, dev
<1>6. /\ w1 \in Worlds /\ w1.reader = w.reader /\ w1.actions = w.actions
      /\ w1.pollerOf = w.pollerOf /\ w1.activity = w.activity /\ w1.inbox = w.inbox
  BY <1>1, <1>5, PollerWorld DEF w1
<1>7. PICK q \in PollerRec :
        /\ Puts(Pollers, w.poller, w1.poller, k, q)
        /\ q.live = w.poller[k].live /\ q.period = w.poller[k].period /\ q.pa_amap = P
        /\ Puts(Sources, w.poller[k].actions_map, q.actions_map, s, r)
  <2>1. w1 = WithPoller(w, k, s, r, P) /\ r \in Readers \union {0}
    BY DEF w1
  <2> QED BY <1>1, <1>5, <2>1, PollerWorld
<1>8. /\ w2 \in Worlds /\ w2.reader = w.reader /\ w2.actions = w.actions
      /\ w2.pollerOf = w.pollerOf /\ w2.poller = w1.poller
      /\ Puts(ReadActivities, w.activity, w2.activity, x, a) /\ News(w, w2, x)
  <2>1. CASE found # {}
    <3>1. w2 = w1
      BY <2>1 DEF w2
    <3> QED BY <1>3, <1>6, <2>1, <3>1 DEF Puts, News
  <2>2. CASE found = {}
    <3>1. w2 = RegisterAct(w1, x, a)
      BY <2>2 DEF w2
    <3>2. /\ w2 \in Worlds /\ w2.reader = w1.reader /\ w2.actions = w1.actions
          /\ w2.poller = w1.poller /\ w2.pollerOf = w1.pollerOf
          /\ Puts(ReadActivities, w1.activity, w2.activity, x, a) /\ News(w1, w2, x)
      BY <1>3, <1>4, <1>6, <3>1, RegisterActWorld
    <3>3. News(w, w2, x)
      BY <1>6, <3>2 DEF News
    <3> QED BY <1>6, <3>2, <3>3
  <2> QED BY <2>1, <2>2
<1>9. /\ v \in Worlds /\ v.reader = w2.reader /\ v.actions = w2.actions /\ v.poller = w2.poller
      /\ v.pollerOf = w2.pollerOf /\ v.activity = w2.activity /\ News(w2, v, x)
  BY <1>1, <1>2, <1>3, <1>8, PostToWorld
<1>10. /\ v.reader = w.reader /\ v.actions = w.actions /\ v.pollerOf = w.pollerOf
       /\ Puts(Pollers, w.poller, v.poller, k, q)
       /\ Puts(ReadActivities, w.activity, v.activity, x, a)
  BY <1>7, <1>8, <1>9
<1>11. News(w, v, x)
  BY <1>8, <1>9 DEF News
<1>asked. ASSUME ModesAsked PROVE AsAsked(v)
  <2> DEFINE e == [ev |-> "Add", a |-> x, src |-> s]
  <2>1. AsAsked(w)
    BY <1>asked DEF Sound
  <2>2. /\ v.activity[x] = a /\ \A y \in ReadActivities \ {x} : v.activity[y] = w.activity[y]
        /\ v.poller[k] = q /\ q.actions_map[s] = r /\ r # 0
        /\ \A t \in Sources \ {s} : q.actions_map[t] = w.poller[k].actions_map[t]
    BY <1>7, <1>10 DEF Puts, Readers
  <2>3. w.poller[k].actions_map[s] = 0
    BY NotAsked DEF s, LivePoller
  <2>4. ASSUME NEW y \in ReadActivities \ {x}, v.activity[y].kind = "poll"
        PROVE  v.activity[y] = w.activity[y] /\ Asked(v, y) = Asked(w, y)
    <3>1. v.activity[y] = w.activity[y] /\ w.activity[y].kind = "poll"
      BY <2>2, <2>4
    <3>2. w.activity[y].owner = k => w.activity[y].dev # dev
      <4> SUFFICES ASSUME w.activity[y].owner = k, w.activity[y].dev = dev PROVE FALSE
        OBVIOUS
      <4>1. w.activity[y].period = p
        BY <3>1 DEF Sound, ActivitiesOwned, LivePoller
      <4>2. y \in found
        BY <3>1, <4>1 DEF Polling, found
      <4> QED BY <1>3, <4>2
    <3>3. w.activity[y].owner # k \/ w.activity[y].dev # DeviceOf[s]
      BY <3>2 DEF dev
    <3> QED BY <1>1, <1>7, <1>10, <3>1, <3>3, AskedOfOthers
  <2>5. Asked(v, x) = {t \in Sources : q.actions_map[t] # 0 /\ DeviceOf[t] = dev}
    BY <1>4, <2>2 DEF Asked
  <2>6. e \in Message /\ e.a = x /\ e.ev = "Add" /\ e.src = s
    BY <1>1, <1>3 DEF Message
  <2>7. v.inbox = [w2.inbox EXCEPT ![dev] = Append(@, e)]
    BY <1>2, <1>8, PostToQueue
  <2> HIDE DEF e
  <2>8. CASE found # {}
    <3>1. w.activity[x] = a /\ AskedOf(w, x)
      BY <1>3, <1>4, <2>1, <2>8 DEF AsAsked
    <3>2. v.inbox = [w.inbox EXCEPT ![dev] = Append(@, e)]
      BY <1>6, <2>7, <2>8 DEF w2
    <3>3. /\ work[x].atts \in Seq(Sources) /\ InOrder(w, x) /\ Each(ReadBy(w, x), Asked(w, x))
      BY <3>1 DEF AskedOf
    <3>4. ReadBy(w, x) \in Seq(Sources)
      <4>1. Queued(w, v, dev, e)
        BY <1>1, <2>6, <3>2, QueuedReads
      <4> QED BY <1>4, <3>1, <3>3, <4>1 DEF ReadBy, Queued
    <3>5. HandledBy(e, x, ReadBy(w, x)) = Append(ReadBy(w, x), s)
      BY <2>6 DEF HandledBy
    <3>6. Asked(w, x) = {t \in Sources : w.poller[k].actions_map[t] # 0 /\ DeviceOf[t] = dev}
      BY <1>4, <3>1 DEF Asked
    <3>7. s \notin Asked(w, x) /\ Asked(v, x) = Asked(w, x) \union {s}
      BY <1>1, <2>2, <2>3, <2>5, <3>6 DEF dev
    <3>8. Each(HandledBy(e, x, ReadBy(w, x)), Asked(v, x))
      BY <1>1, <3>3, <3>4, <3>5, <3>7, EachAdded
    <3>9. v.activity[x] = w.activity[x] /\ w.activity[x].dev = dev
      BY <1>4, <2>2, <3>1
    <3>10. AskedOf(v, x)
      BY <1>1, <1>3, <2>6, <3>2, <3>3, <3>8, <3>9, AskedPosted
    <3> QED BY <1>3, <1>9, <1>11, <2>1, <2>4, <3>10, AskedKept
  <2>9. CASE found = {}
    <3> DEFINE e0 == [ev |-> "Register", a |-> x, src |-> NoSource,
                      kind |-> a.kind, manual |-> a.period = ManualPeriod]
    <3>1. /\ work[x].atts = <<>> /\ <<>> \in Seq(Sources)
          /\ \A d \in Devices : \A i \in DOMAIN w.inbox[d] : w.inbox[d][i].a # x
      BY <1>3, <2>9 DEF FreeActivities, NoWork
    <3>2. e0 \in Message /\ e0.a = x /\ e0.ev = "Register"
      BY <1>3, <1>4 DEF Message
    <3>3. w2.inbox = [w.inbox EXCEPT ![dev] = Append(@, e0)]
      <4>1. w2 = RegisterAct(w1, x, a)
        BY <2>9 DEF w2
      <4>2. w1 \in Worlds /\ w1.inbox = w.inbox /\ a.dev = dev
        BY <1>4, <1>6
      <4> HIDE DEF w1, w2, a, dev
      <4>3. w2.inbox = [w1.inbox EXCEPT ![a.dev] = Append(@, e0)]
        BY <4>1, <4>2, RegisterActQueue
      <4> QED BY <4>2, <4>3
    <3> HIDE DEF e0
    <3>4. Queued(w, w2, dev, e0)
      BY <1>1, <3>2, <3>3, QueuedReads
    <3>5. w2.activity[x] = a
      BY <1>8 DEF Puts
    <3>6. InOrder(w2, x)
      <4> SUFFICES ASSUME NEW d \in Devices, NEW i \in DOMAIN w2.inbox[d], w2.inbox[d][i].a = x
                   PROVE  /\ d = dev /\ w2.inbox[d][i].ev # "Unregister"
                          /\ \A j \in 1..(i - 1) : w2.inbox[d][j].a # x
        BY <1>4, <3>1, <3>5 DEF InOrder
      <4>1. d = dev /\ i = Len(w.inbox[dev]) + 1 /\ w2.inbox[d][i] = e0
        BY <3>1, <3>4 DEF Queued
      <4>2. Len(w.inbox[dev]) \in Nat /\ DOMAIN w.inbox[dev] = 1..Len(w.inbox[dev])
        <5>1. w.inbox[dev] \in Seq(Message)
          BY <1>1 DEF Worlds
        <5> QED BY <5>1
      <4>3. \A j \in 1..(i - 1) : j \in DOMAIN w.inbox[dev]
        BY <4>1, <4>2
      <4>4. \A j \in 1..(i - 1) : w2.inbox[dev][j] = w.inbox[dev][j]
        BY <3>4, <4>3 DEF Queued
      <4>5. \A j \in 1..(i - 1) : w2.inbox[d][j].a # x
        BY <1>1, <3>1, <4>1, <4>3, <4>4
      <4> QED BY <3>2, <4>1, <4>5
    <3>7. ReadBy(w2, x) = <<>>
      <4>1. Handled(w.inbox[dev], x, <<>>) = <<>>
        <5>1. w.inbox[dev] \in Seq(Message)
          BY <1>1 DEF Worlds
        <5> QED BY <1>1, <3>1, <5>1, HandledNone
      <4>q. Handled(w2.inbox[dev], x, <<>>) = HandledBy(e0, x, Handled(w.inbox[dev], x, <<>>))
        BY <3>1, <3>4, Zenon DEF Queued
      <4>2. Handled(w2.inbox[dev], x, <<>>) = HandledBy(e0, x, <<>>)
        BY <4>1, <4>q, Zenon
      <4>3. HandledBy(e0, x, <<>>) = <<>>
        BY <3>2 DEF HandledBy
      <4> QED BY <1>4, <3>1, <3>5, <4>2, <4>3 DEF ReadBy
    <3>8. HandledBy(e, x, ReadBy(w2, x)) = Append(<<>>, s)
      BY <2>6, <3>7 DEF HandledBy
    <3>9. Asked(v, x) = {} \union {s}
      <4>1. ASSUME NEW t \in Sources, t # s, q.actions_map[t] # 0, DeviceOf[t] = dev PROVE FALSE
        <5>1. w.poller[k].actions_map[t] # 0 /\ w.poller[k].live /\ w.poller[k].period = p
          BY <2>2, <4>1 DEF LivePoller
        <5>2. Polling(w, DeviceOf[t], w.poller[k].period) # {}
          BY <5>1, AskedIsPolled
        <5> QED BY <2>9, <4>1, <5>1, <5>2 DEF found
      <4> QED BY <1>1, <2>2, <2>5, <4>1 DEF dev
    <3>10. Each(<<>>, {})
      BY DEF Each
    <3>11. Each(HandledBy(e, x, ReadBy(w2, x)), Asked(v, x))
      <4>1. s \in Sources /\ s \notin {}
        BY <1>1
      <4>2. Each(Append(<<>>, s), {} \union {s})
        BY <3>1, <3>10, <4>1, EachAdded
      <4> QED BY <3>8, <3>9, <4>2, Zenon
    <3>12. v.activity[x] = w2.activity[x] /\ w2.activity[x].dev = dev
      BY <1>4, <2>2, <3>5
    <3>13. AskedOf(v, x)
      <4>1. w2 \in Worlds /\ x \in ReadActivities /\ dev \in Devices
        BY <1>1, <1>3, <1>8
      <4>2. w2.activity[x].dev = dev /\ work[x].atts \in Seq(Sources)
        BY <3>1, <3>12
      <4>3. e \in Message /\ e.ev \in {"Add", "Remove", "Execute"} /\ v.activity[x] = w2.activity[x]
        BY <2>6, <3>12
      <4> HIDE DEF w2, x, dev
      <4> QED BY <2>7, <3>6, <3>11, <4>1, <4>2, <4>3, AskedPosted
    <3> QED BY <1>3, <1>9, <1>11, <2>1, <2>4, <3>13, AskedKept
  <2> QED BY <2>8, <2>9
<1>12. /\ Sound(v) /\ PollFed(v, r)
       /\ \A u \in Readers \ {r} : Fed(w, u) => Fed(v, u)
  <2>1. w.activity[x] \in {NoActivity, a}
    BY <1>3
  <2>2. \A y \in Polling(w, DeviceOf[w.reader[r].src], w.poller[k].period) : y = x
    BY <1>3 DEF LivePoller, found, dev, s
  <2>3. q.live /\ q.period = w.poller[k].period /\ q.pa_amap = w.poller[k].pa_amap \union {<<x, r>>}
    BY <1>7 DEF P, LivePoller
  <2>4. Puts(Sources, w.poller[k].actions_map, q.actions_map, w.reader[r].src, r)
    BY <1>7 DEF s
  <2>5. a.dev = DeviceOf[w.reader[r].src]
    BY <1>4 DEF dev, s
  <2> QED BY <1>3, <1>4, <1>9, <1>10, <1>asked, <2>1, <2>2, <2>3, <2>4, <2>5, PollerJoined DEF LivePoller
<1>13. FreeActivities(w) \ {x} \subseteq FreeActivities(v)
  <2>1. \A y \in ReadActivities \ {x} : v.activity[y] = w.activity[y]
    BY <1>10 DEF Puts
  <2>2. \A u \in Readers : v.reader[u].event \in {w.reader[u].event, 0, x}
    BY <1>10
  <2> QED BY <1>11, <2>1, <2>2, FreeActivityKept
<1>14. FreePollers(w) \subseteq FreePollers(v)
  <2>1. k \notin FreePollers(w)
    BY DEF FreePollers, LivePoller
  <2>2. \A j \in FreePollers(w) \ {} : ~v.poller[j].live
    BY <1>10, <2>1 DEF Puts, FreePollers
  <2>3. \A y \in ReadActivities :
          v.activity[y].kind = "poll" => v.activity[y] = w.activity[y]
                                         \/ v.activity[y].owner \notin FreePollers(w) \ {}
    BY <1>4, <1>10, <2>1 DEF Puts
  <2>4. FreePollers(w) \ {} \subseteq FreePollers(v)
    BY <2>2, <2>3, FreePollerKept
  <2> QED BY <2>4
<1>15. Subscribed(v) \subseteq Subscribed(w)
  <2> SUFFICES ASSUME NEW u \in Subscribed(v)
               PROVE  u \in Subscribed(w)
    OBVIOUS
  <2>1. u \in Readers /\ w.reader[u].event # 0 /\ v.activity[w.reader[u].event] # NoActivity
    BY <1>10 DEF Subscribed, Linked
  <2>2. w.reader[u].event \in ReadActivities
    BY <1>1, <2>1 DEF Worlds, ReaderRec
  <2>3. CASE w.reader[u].event = x
    <3>1. found # {}
      BY <1>3, <2>1, <2>3 DEF FreeActivities
    <3>2. w.activity[x] # NoActivity
      BY <1>3, <1>4, <3>1 DEF NoActivity
    <3> QED BY <2>1, <2>3, <3>2 DEF Subscribed, Linked
  <2>4. CASE w.reader[u].event # x
    <3>1. v.activity[w.reader[u].event] = w.activity[w.reader[u].event]
      BY <1>10, <2>2, <2>4 DEF Puts
    <3> QED BY <2>1, <3>1 DEF Subscribed, Linked
  <2> QED BY <2>3, <2>4
<1> QED BY <1>3, <1>10, <1>12, <1>13, <1>14, <1>15
\* A reader that its poller already calls registers again: only a message.
LEMMA PollerRegisterAgain ==
  ASSUME NEW w, Sound(w), NEW r \in Readers, w.reader[r].live,
         NEW k \in Pollers, LivePoller(w, k, w.reader[r].period),
         w.poller[k].actions_map[w.reader[r].src] = r,
         NEW v, v = PollerRegister(w, k, r)
  PROVE  /\ v \in Worlds /\ v.reader = w.reader /\ v.actions = w.actions /\ v.poller = w.poller
         /\ v.pollerOf = w.pollerOf /\ v.activity = w.activity
         /\ \E x \in ReadActivities : News(w, v, x)
<1> DEFINE s == w.reader[r].src
           dev == DeviceOf[s]
           p == w.reader[r].period
           found == Polling(w, dev, p)
           x == First(IF found = {} THEN FreeActivities(w) ELSE found)
           P == w.poller[k].pa_amap \union {<<x, r>>}
           a == [kind |-> "poll", owner |-> k, dev |-> dev, period |-> p]
           w1 == WithPoller(w, k, s, r, P)
           wr == [w EXCEPT !.poller[k].actions_map[s] = r,
                           !.poller[k].pa_amap = @ \union {<<x, r>>}]
<1>1. /\ w \in Worlds /\ s \in Sources /\ dev \in Devices
      /\ w.poller[k] \in PollerRec /\ w.poller[k].pa_amap \in SUBSET (ReadActivities \X Readers)
  <2>1. w \in Worlds /\ s \in Sources
    BY DEF Sound, ReadersFound
  <2>2. w.poller[k] \in PollerRec
    BY <2>1, SMTT(30) DEF Worlds
  <2> QED BY <2>1, <2>2 DEF Devices, PollerRec
<1>2. v = PostTo(IF found # {} THEN wr ELSE RegisterAct(wr, x, a), dev, "Add", x, s)
  <2>1. w.poller[k].period = w.reader[r].period
    BY DEF LivePoller
  <2> QED BY <2>1 DEF PollerRegister
<1>3. wr = w1
  <2> HIDE DEF x, s, found, p, dev
  <2> QED BY <1>1 DEF Worlds, PollerRec, WithPoller
<1> HIDE DEF wr
<1>4. PICK x0 \in ReadActivities : <<x0, r>> \in w.poller[k].pa_amap
  <2>1. r # 0 /\ w.poller[k].live /\ w.poller[k].actions_map[s] = r
    BY <1>1 DEF Readers, LivePoller
  <2> HIDE DEF s
  <2>2. PolledBy(w, k, s, r)
    BY <1>1, <2>1, PolledReader
  <2> QED BY <2>2 DEF PolledBy
<1>5. x0 \in found
  <2>1. w.activity[x0].kind = "poll" /\ w.activity[x0].owner = k /\ w.activity[x0].dev = dev
    BY <1>4, SMTT(30) DEF Sound, PairsKept, LivePoller
  <2>2. w.activity[x0].period = p
    BY <2>1 DEF Sound, ActivitiesOwned, LivePoller
  <2> QED BY <2>1, <2>2 DEF Polling
<1> HIDE DEF found, x, a
<1>6. x = x0
  <2> HIDE DEF dev, s, w1, P
  <2>1. found = Polling(w, dev, p) /\ found # {}
    BY <1>5 DEF found
  <2>2. x = First(IF found = {} THEN FreeActivities(w) ELSE found)
    BY DEF x
  <2>3. a = [kind |-> "poll", owner |-> k, dev |-> dev, period |-> p]
    BY DEF a
  <2>4. \A y \in found : y = x
    BY <1>1, <2>1, <2>2, <2>3, PollingActivity
  <2> QED BY <1>5, <2>4
<1>7. P = w.poller[k].pa_amap
  BY <1>4, <1>6
<1> HIDE DEF w1, P, s, dev
<1>8. /\ w1 \in Worlds /\ w1.reader = w.reader /\ w1.actions = w.actions
      /\ w1.pollerOf = w.pollerOf /\ w1.activity = w.activity /\ w1.inbox = w.inbox
  BY <1>1, <1>7, PollerWorld DEF w1
<1>9. w1.poller = w.poller
  <2>1. w1 = WithPoller(w, k, s, r, P) /\ r \in Readers \union {0}
    BY DEF w1
  <2>2. PICK q \in PollerRec :
        /\ Puts(Pollers, w.poller, w1.poller, k, q)
        /\ q.live = w.poller[k].live /\ q.period = w.poller[k].period /\ q.pa_amap = P
        /\ Puts(Sources, w.poller[k].actions_map, q.actions_map, s, r)
    BY <1>1, <1>7, <2>1, PollerWorld
  <2>3. q.actions_map = w.poller[k].actions_map
    <3>1. \A t \in Sources : q.actions_map[t] = w.poller[k].actions_map[t]
      BY <2>2 DEF Puts, s
    <3> QED BY <1>1, <3>1 DEF PollerRec
  <2>4. q = w.poller[k]
    BY <1>1, <1>7, <2>2, <2>3 DEF PollerRec
  <2>5. \A j \in Pollers : w1.poller[j] = w.poller[j]
    BY <2>2, <2>4 DEF Puts
  <2> QED BY <1>1, <1>8, <2>5 DEF Worlds
<1>10. v = PostTo(w1, dev, "Add", x, s)
  BY <1>2, <1>3, <1>5
<1>11. /\ v \in Worlds /\ v.reader = w1.reader /\ v.actions = w1.actions /\ v.poller = w1.poller
       /\ v.pollerOf = w1.pollerOf /\ v.activity = w1.activity /\ News(w1, v, x)
  BY <1>1, <1>6, <1>8, <1>10, PostToWorld
<1>12. News(w, v, x)
  BY <1>8, <1>11 DEF News
<1> QED BY <1>6, <1>8, <1>9, <1>11, <1>12

\* unregisterAction: a reader that leaves its poller is fed by nothing, and the
\* others as before.
LEMMA PollerUnregisterLeaves ==
  ASSUME NEW w, Sound(w), NEW r \in Readers, w.reader[r].live,
         NEW k \in Pollers, LivePoller(w, k, w.reader[r].period),
         w.poller[k].actions_map[w.reader[r].src] = r,
         NEW v, v = PollerUnregister(w, k, r)
  PROVE  /\ Sound(v) /\ Detached(v, r) /\ w.reader[r].event = 0
         /\ v.reader = w.reader /\ v.actions = w.actions /\ v.pollerOf = w.pollerOf
         /\ LivePoller(v, k, w.reader[r].period)
         /\ \A u \in Readers \ {r} : Fed(w, u) => Fed(v, u)
         /\ Gains(w, v)
<1> DEFINE s == w.reader[r].src
           dev == DeviceOf[s]
           p == w.reader[r].period
           found == Polling(w, dev, p)
           x == CHOOSE y \in found : TRUE
           P == w.poller[k].pa_amap \ {<<x, r>>}
           w1 == WithPoller(w, k, s, 0, P)
           w2 == PostTo(w1, dev, "Remove", x, s)
           wr == [[w EXCEPT !.poller[k].actions_map[s] = 0] EXCEPT !.poller[k].pa_amap = P]
<1>1. /\ w \in Worlds /\ s \in Sources /\ dev \in Devices
      /\ w.poller[k] \in PollerRec /\ w.poller[k].pa_amap \in SUBSET (ReadActivities \X Readers)
      /\ r # 0
  <2>1. w \in Worlds /\ s \in Sources
    BY DEF Sound, ReadersFound
  <2>2. w.poller[k] \in PollerRec
    BY <2>1, SMTT(30) DEF Worlds
  <2> QED BY <2>1, <2>2 DEF Devices, PollerRec, Readers
<1>2. found # {} => v = IF \E q \in P : q[1] = x THEN PostTo(wr, dev, "Remove", x, s)
                        ELSE UnregisterAct(PostTo(wr, dev, "Remove", x, s), x)
  BY <1>1 DEF PollerUnregister, LivePoller
<1>3. wr = w1
  <2> HIDE DEF x, s, found, p, dev
  <2> QED BY <1>1 DEF Worlds, PollerRec, WithPoller
<1> HIDE DEF wr
<1>4. /\ w.reader[r].event = 0
      /\ \E y \in ReadActivities : <<y, r>> \in w.poller[k].pa_amap
  <2> HIDE DEF found, x, P, w1, w2
  <2>1. /\ s \in Sources /\ r # 0
        /\ w.poller[k].live /\ w.poller[k].actions_map[s] = r
    BY <1>1 DEF Sound, LivePoller
  <2> HIDE DEF s
  <2>2. PolledBy(w, k, s, r)
    BY <2>1, PolledReader
  <2> QED BY <2>2 DEF PolledBy
<1>5. PICK e \in ReadActivities : <<e, r>> \in w.poller[k].pa_amap
  BY <1>4
<1>6. /\ w.activity[e].kind = "poll" /\ w.activity[e].owner = k /\ w.activity[e].dev = dev
      /\ w.activity[e].period = p
  <2>1. w.activity[e].kind = "poll" /\ w.activity[e].owner = k /\ w.activity[e].dev = dev
    BY <1>5, SMTT(30) DEF Sound, PairsKept, LivePoller
  <2>2. w.activity[e].period = p
    BY <2>1 DEF Sound, ActivitiesOwned, LivePoller
  <2> QED BY <2>1, <2>2
<1>7. e \in found
  BY <1>6, SMTT(30) DEF Polling
<1>8. x = e
  <2>1. x \in found
    BY <1>7, SMTT(30)
  <2>2. /\ x \in ReadActivities /\ w.activity[x].kind = "poll" /\ w.activity[x].dev = dev
        /\ w.activity[x].period = p
    BY <2>1, Zenon DEF Polling
  <2> HIDE DEF x
  <2> QED BY <1>6, <2>2 DEF Sound, ActivitiesOwned
<1> HIDE DEF found, x
<1>9. v = IF \E q \in P : q[1] = e THEN w2 ELSE UnregisterAct(w2, e)
  BY <1>2, <1>3, <1>7, <1>8
<1>10. P = w.poller[k].pa_amap \ {<<e, r>>} /\ P \in SUBSET (ReadActivities \X Readers)
  BY <1>1, <1>8
<1> HIDE DEF w1, w2, P, s, dev
<1>11. /\ w1 \in Worlds /\ w1.reader = w.reader /\ w1.actions = w.actions
       /\ w1.pollerOf = w.pollerOf /\ w1.activity = w.activity /\ w1.inbox = w.inbox
  BY <1>1, <1>10, PollerWorld DEF w1
<1>12. PICK q \in PollerRec :
        /\ Puts(Pollers, w.poller, w1.poller, k, q)
        /\ q.live = w.poller[k].live /\ q.period = w.poller[k].period /\ q.pa_amap = P
        /\ Puts(Sources, w.poller[k].actions_map, q.actions_map, s, 0)
  <2>1. w1 = WithPoller(w, k, s, 0, P) /\ 0 \in Readers \union {0}
    BY DEF w1
  <2> QED BY <1>1, <1>10, <2>1, PollerWorld
<1>13. /\ w2 \in Worlds /\ w2.reader = w1.reader /\ w2.actions = w1.actions /\ w2.poller = w1.poller
       /\ w2.pollerOf = w1.pollerOf /\ w2.activity = w1.activity /\ News(w1, w2, e)
  <2>1. w2 = PostTo(w1, dev, "Remove", e, s)
    BY <1>8 DEF w2
  <2> QED BY <1>1, <1>11, <2>1, PostToWorld
<1>14. /\ v \in Worlds /\ v.reader = w.reader /\ v.actions = w.actions
       /\ v.pollerOf = w.pollerOf /\ v.poller = w1.poller
       /\ \A y \in ReadActivities \ {e} : v.activity[y] = w.activity[y]
       /\ \/ v.activity[e] = w.activity[e] /\ \E u \in Readers : <<e, u>> \in P
          \/ v.activity[e] = NoActivity /\ \A u \in Readers : <<e, u>> \notin P
       /\ News(w2, v, e)
  <2>1. CASE \E q0 \in P : q0[1] = e
    <3>1. v = w2
      BY <1>9, <2>1
    <3>2. PICK q0 \in P : q0[1] = e
      BY <2>1
    <3>3. q0 = <<e, q0[2]>> /\ q0[2] \in Readers
      BY <1>10, <3>2
    <3>4. News(w2, v, e)
      BY <3>1 DEF News
    <3> QED BY <1>11, <1>13, <3>1, <3>2, <3>3, <3>4
  <2>2. CASE ~\E q0 \in P : q0[1] = e
    <3>1. v = UnregisterAct(w2, e)
      BY <1>9, <2>2
    <3>2. Linked(w2, e)
      BY <1>6, <1>11, <1>13 DEF Linked, NoActivity
    <3>3. /\ v \in Worlds /\ v.reader = w2.reader /\ v.actions = w2.actions /\ v.poller = w2.poller
          /\ v.pollerOf = w2.pollerOf /\ Puts(ReadActivities, w2.activity, v.activity, e, NoActivity)
          /\ News(w2, v, e)
      BY <1>13, <3>1, <3>2, UnregisterActWorld
    <3>4. \A u \in Readers : <<e, u>> \notin P
      BY <2>2
    <3>5. v.activity[e] = NoActivity /\ \A y \in ReadActivities \ {e} : v.activity[y] = w2.activity[y]
      BY <3>3 DEF Puts
    <3> QED BY <1>11, <1>13, <3>3, <3>4, <3>5
  <2> QED BY <2>1, <2>2
<1>15. News(w, v, e)
  <2>1. News(w, w2, e)
    BY <1>11, <1>13 DEF News
  <2> QED BY <1>14, <2>1 DEF News
<1>16. Puts(Pollers, w.poller, v.poller, k, q)
  BY <1>12, <1>14
<1>17. LivePoller(v, k, p)
  BY <1>12, <1>16 DEF LivePoller, Puts
<1>asked. ASSUME ModesAsked PROVE AsAsked(v)
  <2> DEFINE msg == [ev |-> "Remove", a |-> e, src |-> s]
  <2>1. AsAsked(w)
    BY <1>asked DEF Sound
  <2>2. /\ v.poller[k] = q /\ q.actions_map[s] = 0
        /\ \A t \in Sources \ {s} : q.actions_map[t] = w.poller[k].actions_map[t]
    BY <1>12, <1>16 DEF Puts
  <2>3. ASSUME NEW y \in ReadActivities \ {e}, v.activity[y].kind = "poll"
        PROVE  v.activity[y] = w.activity[y] /\ Asked(v, y) = Asked(w, y)
    <3>1. v.activity[y] = w.activity[y] /\ w.activity[y].kind = "poll"
      BY <1>14, <2>3
    <3>2. w.activity[y].owner = k => w.activity[y].dev # dev
      <4> SUFFICES ASSUME w.activity[y].owner = k, w.activity[y].dev = dev PROVE FALSE
        OBVIOUS
      <4>1. w.activity[y].period = p
        BY <3>1 DEF Sound, ActivitiesOwned, LivePoller
      <4> QED BY <1>6, <3>1, <4>1 DEF Sound, ActivitiesOwned
    <3>3. w.activity[y].owner # k \/ w.activity[y].dev # DeviceOf[s]
      BY <3>2 DEF dev
    <3> QED BY <1>1, <1>12, <1>16, <3>1, <3>3, AskedOfOthers
  <2>4. ASSUME v.activity[e].kind = "poll" PROVE AskedOf(v, e)
    <3>1. \E q0 \in P : q0[1] = e
      <4>1. v.activity[e] # NoActivity
        BY <2>4 DEF NoActivity
      <4>2. PICK u \in Readers : <<e, u>> \in P
        BY <1>14, <4>1
      <4> QED BY <4>2
    <3>2. v = w2
      BY <1>9, <3>1
    <3>3. msg \in Message /\ msg.a = e /\ msg.ev = "Remove" /\ msg.src = s
      BY <1>1 DEF Message
    <3>4. v.inbox = [w.inbox EXCEPT ![dev] = Append(@, msg)]
      <4>1. w2 = PostTo(w1, dev, "Remove", e, s)
        BY <1>8 DEF w2
      <4> QED BY <1>11, <3>2, <4>1, PostToQueue
    <3> HIDE DEF msg
    <3>5. v.activity[e] = w.activity[e]
      BY <1>11, <1>13, <3>2
    <3>6. /\ work[e].atts \in Seq(Sources) /\ InOrder(w, e) /\ Each(ReadBy(w, e), Asked(w, e))
      BY <1>6, <2>1 DEF AsAsked, AskedOf
    <3>7. ReadBy(w, e) \in Seq(Sources)
      <4>1. Queued(w, v, dev, msg)
        BY <1>1, <3>3, <3>4, QueuedReads
      <4> QED BY <1>6, <3>6, <4>1 DEF ReadBy, Queued
    <3>8. HandledBy(msg, e, ReadBy(w, e)) = RemoveAtt(ReadBy(w, e), s)
      BY <3>3 DEF HandledBy
    <3>9. /\ Asked(w, e) = {t \in Sources : w.poller[k].actions_map[t] # 0 /\ DeviceOf[t] = dev}
          /\ Asked(v, e) = {t \in Sources : q.actions_map[t] # 0 /\ DeviceOf[t] = dev}
      BY <1>6, <2>2, <3>5 DEF Asked
    <3>10. s \in Asked(w, e) /\ Asked(v, e) = Asked(w, e) \ {s}
      <4>1. w.poller[k].actions_map[s] # 0
        BY <1>1 DEF s
      <4> QED BY <1>1, <2>2, <3>9, <4>1 DEF dev
    <3>11. Each(HandledBy(msg, e, ReadBy(w, e)), Asked(v, e))
      BY <3>6, <3>7, <3>8, <3>10, EachRemoved
    <3> QED BY <1>1, <1>6, <3>3, <3>4, <3>5, <3>6, <3>11, AskedPosted
  <2> QED BY <1>14, <1>15, <2>1, <2>3, <2>4, AskedKept
<1>18. /\ Sound(v) /\ Detached(v, r)
       /\ \A u \in Readers \ {r} : Fed(w, u) => Fed(v, u)
  <2>1. q.live /\ q.period = w.poller[k].period /\ q.pa_amap = w.poller[k].pa_amap \ {<<e, r>>}
    BY <1>10, <1>12 DEF LivePoller
  <2>2. Puts(Sources, w.poller[k].actions_map, q.actions_map, w.reader[r].src, 0)
    BY <1>12 DEF s
  <2>3. \/ v.activity[e] = w.activity[e] /\ \E u \in Readers : <<e, u>> \in q.pa_amap
        \/ v.activity[e] = NoActivity /\ \A u \in Readers : <<e, u>> \notin q.pa_amap
    BY <1>12, <1>14
  <2> HIDE DEF p
  <2>4. (ModesAsked => AsAsked(v)) /\ w.poller[k].live
    BY <1>asked DEF LivePoller
  <2> HIDE DEF s, dev, found, x, P, w1, w2, wr
  <2>5. /\ v \in Worlds /\ v.reader = w.reader /\ v.actions = w.actions /\ v.pollerOf = w.pollerOf
        /\ \A y \in ReadActivities \ {e} : v.activity[y] = w.activity[y]
    BY <1>14
  <2>6. Released(w, v, e, q)
    BY <2>3, <2>5 DEF Released
  <2> QED BY <1>5, <1>16, <2>1, <2>2, <2>3, <2>4, <2>5, <2>6, PollerLeft

<1>19. FreeActivities(w) \subseteq FreeActivities(v)
  <2>1. e \notin FreeActivities(w)
    BY <1>6 DEF FreeActivities, Linked, NoActivity
  <2>2. \A u \in Readers : v.reader[u].event \in {w.reader[u].event, 0, e}
    BY <1>14
  <2>3. FreeActivities(w) \ {e} \subseteq FreeActivities(v)
    BY <1>14, <1>15, <2>2, FreeActivityKept
  <2> QED BY <2>1, <2>3
<1>20. FreePollers(w) \subseteq FreePollers(v)
  <2>1. k \notin FreePollers(w)
    BY DEF FreePollers, LivePoller
  <2>2. \A j \in FreePollers(w) \ {} : ~v.poller[j].live
    BY <1>16, <2>1 DEF Puts, FreePollers
  <2>3. \A y \in ReadActivities :
          v.activity[y].kind = "poll" => v.activity[y] = w.activity[y]
                                         \/ v.activity[y].owner \notin FreePollers(w) \ {}
    BY <1>14 DEF NoActivity
  <2>4. FreePollers(w) \ {} \subseteq FreePollers(v)
    BY <2>2, <2>3, FreePollerKept
  <2> QED BY <2>4
<1>21. Subscribed(v) \subseteq Subscribed(w)
  <2> SUFFICES ASSUME NEW u \in Subscribed(v)
               PROVE  u \in Subscribed(w)
    OBVIOUS
  <2>1. u \in Readers /\ w.reader[u].event # 0 /\ v.activity[w.reader[u].event] # NoActivity
    BY <1>14 DEF Subscribed, Linked
  <2>2. w.reader[u].event \in ReadActivities
    BY <1>1, <2>1 DEF Worlds, ReaderRec
  <2>3. w.activity[w.reader[u].event] # NoActivity
    BY <1>14, <2>1, <2>2
  <2> QED BY <2>1, <2>3 DEF Subscribed, Linked
<1> QED BY <1>4, <1>14, <1>17, <1>18, <1>19, <1>20, <1>21 DEF Gains
-----------------------------------------------------------------------------
(* CuPollingService                                                        *)

\* Both parts of the polling service's state that GetPoller and
\* UnregisterFromPoller change at once.
WithPollerOf(w, p, i, k, q) == [w EXCEPT !.pollerOf[p] = i, !.poller[k] = q]

\* What the map of pollers and a poller become when the last reader leaves.
LEMMA PollerOfWorld ==
  ASSUME NEW w \in Worlds, NEW p \in AllPeriods, NEW i \in Pollers \union {0},
         NEW k \in Pollers, NEW q \in PollerRec, NEW v, v = WithPollerOf(w, p, i, k, q)
  PROVE  /\ v \in Worlds /\ v.reader = w.reader /\ v.actions = w.actions
         /\ v.activity = w.activity /\ v.inbox = w.inbox
         /\ Puts(Pollers, w.poller, v.poller, k, q)
         /\ Puts(AllPeriods \union {NoPeriod}, w.pollerOf, v.pollerOf, p, i)
<1>1. /\ v.reader = w.reader /\ v.actions = w.actions /\ v.activity = w.activity
      /\ v.inbox = w.inbox /\ v.poller = [w.poller EXCEPT ![k] = q]
      /\ v.pollerOf = [w.pollerOf EXCEPT ![p] = i]
  BY DEF Worlds, WithPollerOf
<1>2. v.poller \in [Pollers -> PollerRec] /\ Puts(Pollers, w.poller, v.poller, k, q)
  BY <1>1 DEF Worlds, Puts
<1>3. /\ v.pollerOf \in [AllPeriods \union {NoPeriod} -> Pollers \union {0}]
      /\ Puts(AllPeriods \union {NoPeriod}, w.pollerOf, v.pollerOf, p, i)
  BY <1>1 DEF Worlds, Puts
<1>4. v = [reader |-> w.reader, actions |-> w.actions, poller |-> v.poller,
           pollerOf |-> v.pollerOf, activity |-> w.activity, inbox |-> w.inbox]
  BY <1>1 DEF Worlds, WithPollerOf
<1>5. v \in Worlds
  BY <1>2, <1>3, <1>4 DEF Worlds
<1> QED BY <1>1, <1>2, <1>3, <1>5

\* Calls that give objects back may come before any other.
LEMMA GainsTrans ==
  ASSUME NEW w, NEW u, NEW v, Gains(w, u)
  PROVE  /\ Gains(u, v) => Gains(w, v)
         /\ Takes(u, v) => Takes(w, v)
BY DEF Gains, Takes

\* m_unregisterFromPoller: the same with the poller deleted when it is empty.
LEMMA UnregisterFromPollerLeaves ==
  ASSUME NEW w, Sound(w), NEW r \in Readers, w.reader[r].live, PollFed(w, r),
         NEW v, v = UnregisterFromPoller(w, r)
  PROVE  /\ Sound(v) /\ Detached(v, r) /\ w.reader[r].event = 0
         /\ v.reader = w.reader /\ v.actions = w.actions
         /\ \A u \in Readers \ {r} : Fed(w, u) => Fed(v, u)
         /\ Gains(w, v)
<1> DEFINE p == w.reader[r].period
           k == w.pollerOf[p]
           w1 == PollerUnregister(w, k, r)
<1>1. p \in AllPeriods /\ w \in Worlds
  BY SMTT(30) DEF Sound, ReadersFound
<1>2. k \in Pollers /\ k # 0 /\ LivePoller(w, k, p) /\ w.poller[k].actions_map[w.reader[r].src] = r
  <2>1. k \in Pollers \union {0} /\ k # 0 /\ w.poller[k].actions_map[w.reader[r].src] = r
    BY <1>1, SMTT(30) DEF Worlds, PollFed
  <2>2. w.poller[k].live /\ w.poller[k].period = p
    BY <1>1, <2>1, ZenonT(60) DEF Sound, PollersFound
  <2> QED BY <2>1, <2>2, ZenonT(60) DEF LivePoller
<1>3. v = IF \A s \in Sources : w1.poller[k].actions_map[s] = 0
          THEN WithPollerOf(w1, p, 0, k, NoPoller) ELSE w1
  BY <1>2, Zenon DEF UnregisterFromPoller, WithPollerOf
<1> HIDE DEF w1
<1>4. /\ Sound(w1) /\ Detached(w1, r) /\ w.reader[r].event = 0
      /\ w1.reader = w.reader /\ w1.actions = w.actions /\ w1.pollerOf = w.pollerOf
      /\ LivePoller(w1, k, p)
      /\ \A u \in Readers \ {r} : Fed(w, u) => Fed(w1, u)
      /\ Gains(w, w1)
  <2>1. w1 = PollerUnregister(w, k, r)
    BY DEF w1
  <2> HIDE DEF k
  <2> QED BY <1>2, <2>1, PollerUnregisterLeaves
<1> HIDE DEF k, p
<1>5. CASE \A s \in Sources : w1.poller[k].actions_map[s] = 0
  <2>1. v = WithPollerOf(w1, p, 0, k, NoPoller)
    BY <1>3, <1>5
  <2>2. NoPoller \in PollerRec
    BY DEF NoPoller, PollerRec, NoPeriod
  <2>3. w1 \in Worlds
    BY <1>4 DEF Sound
  <2>4. /\ v \in Worlds /\ v.reader = w1.reader /\ v.actions = w1.actions
        /\ v.activity = w1.activity /\ v.inbox = w1.inbox
        /\ Puts(Pollers, w1.poller, v.poller, k, NoPoller)
        /\ Puts(AllPeriods \union {NoPeriod}, w1.pollerOf, v.pollerOf, p, 0)
    BY <1>1, <1>2, <2>1, <2>2, <2>3, PollerOfWorld, ZenonT(60)
  <2>5. /\ Sound(v)
        /\ \A u \in Readers : (Detached(w1, u) => Detached(v, u)) /\ (Fed(w1, u) => Fed(v, u))
    <3>1. w1.poller[k].live /\ w1.poller[k].period = p
      BY <1>4 DEF LivePoller
    <3>2. ASSUME NEW x \in ReadActivities, v.activity[x].kind = "poll"
          PROVE  v.activity[x] = w1.activity[x] /\ Asked(v, x) = Asked(w1, x)
      <4>1. v.activity[x] = w1.activity[x] /\ w1.activity[x].owner \in Pollers
        BY <1>4, <2>4, <3>2 DEF Sound, ActivitiesOwned
      <4>2. CASE w1.activity[x].owner = k
        <5>1. v.poller[k] = NoPoller /\ \A t \in Sources : NoPoller.actions_map[t] = 0
          BY <2>4 DEF Puts, NoPoller
        <5> QED BY <1>5, <4>1, <4>2, <5>1 DEF Asked
      <4>3. CASE w1.activity[x].owner # k
        <5>1. v.poller[w1.activity[x].owner] = w1.poller[w1.activity[x].owner]
          BY <2>4, <4>1, <4>3 DEF Puts
        <5> QED BY <4>1, <5>1 DEF Asked
      <4> QED BY <4>1, <4>2, <4>3
    <3>3. ModesAsked => AsAsked(v)
      BY <1>4, <2>4, <3>2, AskedSame DEF Sound
    <3> QED BY <1>2, <1>4, <1>5, <2>4, <3>1, <3>3, PollerDeleted, ZenonT(60)
  <2>6. Gains(w1, v)
    <3>1. FreePollers(w1) \ {} \subseteq FreePollers(v)
      <4>1. \A j \in FreePollers(w1) \ {} : ~v.poller[j].live
        BY <2>4 DEF Puts, FreePollers, NoPoller
      <4>2. \A y \in ReadActivities :
              v.activity[y].kind = "poll" => v.activity[y] = w1.activity[y]
                                             \/ v.activity[y].owner \notin FreePollers(w1) \ {}
        BY <2>4
      <4> QED BY <4>1, <4>2, FreePollerKept
    <3>2. FreeActivities(w1) \subseteq FreeActivities(v)
      BY <2>4 DEF FreeActivities, Linked
    <3>3. Subscribed(v) \subseteq Subscribed(w1)
      BY <2>4 DEF Subscribed, Linked
    <3> QED BY <3>1, <3>2, <3>3 DEF Gains
  <2> QED BY <1>4, <2>4, <2>5, <2>6, GainsTrans
<1>6. CASE ~\A s \in Sources : w1.poller[k].actions_map[s] = 0
  <2>1. v = w1
    BY <1>3, <1>6
  <2> QED BY <1>4, <2>1
<1> QED BY <1>5, <1>6

\* There is a poller for the reader, and an activity, or one of each is free.
LEMMA RegisterToPollerJoins ==
  ASSUME NEW w, Sound(w), NEW r \in Readers, Detached(w, r), w.reader[r].event = 0,
         FreePollers(w) # {}, FreeActivities(w) # {},
         NEW v, v = RegisterToPoller(w, r)
  PROVE  /\ Sound(v) /\ PollFed(v, r) /\ v.reader = w.reader
         /\ \A u \in Readers \ {r} : Fed(w, u) => Fed(v, u)
         /\ Takes(w, v)
<1> DEFINE p == w.reader[r].period
           w1 == GetPoller(w, p)
           k == w1.pollerOf[p]
<1>1. p \in AllPeriods
  BY DEF Sound, ReadersFound, Detached
<1>2. v = PollerRegister(w1, k, r)
  BY DEF RegisterToPoller
<1> HIDE DEF w1
<1>3. /\ Sound(w1) /\ w1.reader = w.reader /\ w1.actions = w.actions /\ w1.activity = w.activity
      /\ w1.inbox = w.inbox
      /\ k \in Pollers /\ w1.poller[k].live /\ w1.poller[k].period = p
      /\ FreePollers(w) \ {k} \subseteq FreePollers(w1)
      /\ \A u \in Readers : (Detached(w, u) => Detached(w1, u)) /\ (Fed(w, u) => Fed(w1, u))
  <2>1. w1 = GetPoller(w, p)
    BY DEF w1
  <2> HIDE DEF p
  <2> QED BY <1>1, <2>1, GetPollerFound
<1>4. LivePoller(w1, k, w1.reader[r].period)
  BY <1>3 DEF LivePoller
<1>5. FreeActivities(w1) = FreeActivities(w) /\ Subscribed(w1) = Subscribed(w)
  BY <1>3, SMTT(30) DEF FreeActivities, Subscribed, Linked
<1>6. Detached(w1, r) /\ w1.reader[r].event = 0 /\ FreeActivities(w1) # {}
  BY <1>3, <1>5
<1> HIDE DEF k, p
<1>7. /\ Sound(v) /\ PollFed(v, r) /\ v.reader = w1.reader
      /\ \A u \in Readers \ {r} : Fed(w1, u) => Fed(v, u)
      /\ FreePollers(w1) \subseteq FreePollers(v)
      /\ \E x \in ReadActivities : FreeActivities(w1) \ {x} \subseteq FreeActivities(v)
      /\ Subscribed(v) \subseteq Subscribed(w1)
  BY <1>2, <1>3, <1>4, <1>6, PollerRegisterJoins
<1>8. Takes(w, v)
  BY <1>3, <1>5, <1>7 DEF Takes
<1> QED BY <1>3, <1>7, <1>8

\* m_registerToPoller of a reader that is polled leaves it polled.
LEMMA RegisterToPollerAgain ==
  ASSUME NEW w, Sound(w), NEW r \in Readers, w.reader[r].live, PollFed(w, r), ~ModesAsked,
         NEW v, v = RegisterToPoller(w, r)
  PROVE  /\ Sound(v) /\ PollFed(v, r) /\ v.reader = w.reader
         /\ \A u \in Readers \ {r} : Fed(w, u) => Fed(v, u)
         /\ Takes(w, v)
<1> DEFINE p == w.reader[r].period
           k == w.pollerOf[p]
<1>1. p \in AllPeriods /\ w \in Worlds
  BY SMTT(30) DEF Sound, ReadersFound
<1>2. k \in Pollers /\ k # 0 /\ LivePoller(w, k, p) /\ w.poller[k].actions_map[w.reader[r].src] = r
  <2>1. k \in Pollers \union {0} /\ k # 0 /\ w.poller[k].actions_map[w.reader[r].src] = r
    BY <1>1, SMTT(30) DEF Worlds, PollFed
  <2>2. w.poller[k].live /\ w.poller[k].period = p
    BY <1>1, <2>1, ZenonT(60) DEF Sound, PollersFound
  <2> QED BY <2>1, <2>2, ZenonT(60) DEF LivePoller
<1>3. v = PollerRegister(w, k, r)
  BY <1>2, Zenon DEF RegisterToPoller, GetPoller
<1> HIDE DEF k
<1>4. /\ v \in Worlds /\ v.reader = w.reader /\ v.actions = w.actions /\ v.poller = w.poller
      /\ v.pollerOf = w.pollerOf /\ v.activity = w.activity
      /\ \E x \in ReadActivities : News(w, v, x)
  BY <1>2, <1>3, PollerRegisterAgain
<1>5. /\ Sound(v)
      /\ \A u \in Readers : (Fed(w, u) <=> Fed(v, u)) /\ (Detached(w, u) <=> Detached(v, u))
  BY <1>4, OnlyInbox, SMTT(30)
<1>6. PollFed(v, r)
  BY <1>4, Zenon DEF PollFed
<1>7. PICK x \in ReadActivities : News(w, v, x)
  BY <1>4
<1>8. FreeActivities(w) \ {x} \subseteq FreeActivities(v)
  <2>1. \A y \in ReadActivities \ {x} : v.activity[y] = w.activity[y]
    BY <1>4
  <2>2. \A u \in Readers : v.reader[u].event \in {w.reader[u].event, 0, x}
    BY <1>4
  <2> QED BY <1>7, <2>1, <2>2, FreeActivityKept
<1>9. FreePollers(w) \subseteq FreePollers(v) /\ Subscribed(v) \subseteq Subscribed(w)
  BY <1>4 DEF FreePollers, Subscribed, Linked
<1>10. Takes(w, v)
  BY <1>2, <1>8, <1>9 DEF Takes
<1> QED BY <1>4, <1>5, <1>6, <1>10
-----------------------------------------------------------------------------
(* CuTReader                                                               *)

WithReader(w, r, q) == [w EXCEPT !.reader[r] = q]

\* What a reader changes of itself.
LEMMA WithReaderWorld ==
  ASSUME NEW w \in Worlds, NEW r \in Readers, NEW q \in ReaderRec, NEW v, v = WithReader(w, r, q)
  PROVE  /\ v \in Worlds /\ v.actions = w.actions /\ v.poller = w.poller
         /\ v.pollerOf = w.pollerOf /\ v.activity = w.activity /\ v.inbox = w.inbox
         /\ Puts(Readers, w.reader, v.reader, r, q)
<1>1. /\ v.actions = w.actions /\ v.poller = w.poller /\ v.pollerOf = w.pollerOf
      /\ v.activity = w.activity /\ v.inbox = w.inbox /\ v.reader = [w.reader EXCEPT ![r] = q]
  BY DEF Worlds, WithReader
<1>2. v.reader \in [Readers -> ReaderRec] /\ Puts(Readers, w.reader, v.reader, r, q)
  BY <1>1 DEF Worlds, Puts
<1>3. v = [reader |-> v.reader, actions |-> w.actions, poller |-> w.poller,
           pollerOf |-> w.pollerOf, activity |-> w.activity, inbox |-> w.inbox]
  BY <1>1 DEF Worlds, WithReader
<1>4. v \in Worlds
  BY <1>2, <1>3 DEF Worlds
<1> QED BY <1>1, <1>2, <1>4

\* An activity and a poller serve a reader in use, or both do not.
LEMMA FedWays ==
  ASSUME NEW w, Sound(w), NEW r \in Readers, w.reader[r].live
  PROVE  /\ EventFed(w, r) => ~Detached(w, r) /\ w.reader[r].event \in ReadActivities
         /\ PollFed(w, r) => ~Detached(w, r) /\ ActionRegistered(w, r)
         /\ Fed(w, r) => (w.reader[r].event # 0 => EventFed(w, r))
         /\ Fed(w, r) => (w.reader[r].event = 0 => PollFed(w, r))
         /\ Detached(w, r) => ~ActionRegistered(w, r)
<1>1. /\ w \in Worlds /\ w.reader[r] \in ReaderRec
      /\ w.reader[r].src \in Sources /\ w.reader[r].period \in AllPeriods
      /\ w.actions[w.reader[r].src] = r
  BY DEF Sound, Worlds, ReadersFound
<1>2. EventFed(w, r) => w.reader[r].event \in ReadActivities
  BY <1>1 DEF EventFed, ReaderRec
<1>3. EventFed(w, r) => ~Detached(w, r)
  BY <1>2 DEF EventFed, Detached
<1> DEFINE k == w.pollerOf[w.reader[r].period]
<1>4. k \in Pollers \union {0} /\ (k # 0 => w.poller[k].live)
  BY <1>1, SMTT(30) DEF Worlds, Sound, PollersFound
<1>5. PollFed(w, r) => ~Detached(w, r) /\ ActionRegistered(w, r)
  <2> SUFFICES ASSUME PollFed(w, r) PROVE ~Detached(w, r) /\ ActionRegistered(w, r)
    BY Zenon
  <2>1. k # 0 /\ w.poller[k].actions_map[w.reader[r].src] = r
    BY Zenon DEF PollFed
  <2>2. r # 0
    BY SMTT(30) DEF Readers
  <2>3. ActionRegistered(w, r)
    BY <2>1, <2>2 DEF ActionRegistered
  <2> HIDE DEF k
  <2>4. k \in Pollers /\ w.poller[k].live
    BY <1>4, <2>1, Zenon
  <2>5. ~Detached(w, r)
    BY <1>1, <2>1, <2>4, Zenon DEF Detached
  <2> QED BY <2>3, <2>5
<1>6. Detached(w, r) => ~ActionRegistered(w, r)
  <2> SUFFICES ASSUME Detached(w, r), ActionRegistered(w, r) PROVE FALSE
    OBVIOUS
  <2> DEFINE u == w.poller[k].actions_map[w.reader[r].src]
  <2>1. k \in Pollers /\ w.poller[k].live /\ u # 0 /\ u # r
    BY <1>1, <1>4, ZenonT(60) DEF ActionRegistered, Detached
  <2>2. w.poller[k] \in PollerRec
    BY <1>1, <2>1, ZenonT(60) DEF Worlds
  <2>3. u \in Readers
    BY <1>1, <2>1, <2>2, Zenon DEF PollerRec
  <2>4. w.reader[u].live /\ w.reader[u].src = w.reader[r].src
    <3>1. w.poller[k].actions_map[w.reader[r].src] = u
      OBVIOUS
    <3> HIDE DEF k, u
    <3>2. w.reader[r].src \in Sources /\ k \in Pollers /\ w.poller[k].live /\ u # 0
      BY <1>1, <2>1
    <3>3. PolledBy(w, k, w.reader[r].src, u)
      BY <3>1, <3>2, PolledReader
    <3> QED BY <3>3 DEF PolledBy
  <2>5. w.actions[w.reader[u].src] = u
    <3> HIDE DEF u
    <3> QED BY <2>3, <2>4, SMTT(30) DEF Sound, ReadersFound
  <2> QED BY <1>1, <2>1, <2>4, <2>5, Zenon
<1>7. Fed(w, r) => /\ w.reader[r].event # 0 => EventFed(w, r)
                   /\ w.reader[r].event = 0 => PollFed(w, r)
  BY Zenon DEF Fed, EventFed, PollFed
<1> QED BY <1>2, <1>3, <1>5, <1>6, <1>7

\* The other readers are in their modes if the changed one is.
LEMMA ModedAfter ==
  ASSUME NEW w, Moded(w), NEW v, NEW r, \A u \in Readers \ {r} : v.reader[u] = w.reader[u],
         InMode(v.reader[r])
  PROVE  Moded(v)
BY DEF Moded

\* CuTReader::startEventActivity
LEMMA EventStarted ==
  ASSUME NEW w, Sound(w), NEW r \in Readers, Detached(w, r), FreeActivities(w) # {},
         NEW v, v = StartEventActivity(w, r)
  PROVE  /\ Sound(v) /\ EventFed(v, r) /\ v.reader[r].live
         /\ \A u \in Readers \ {r} : Fed(w, u) => Fed(v, u)
         /\ Rewrites(w, v, r, "Change", w.reader[r].period)
<1> DEFINE e == First(FreeActivities(w))
           q == [w.reader[r] EXCEPT !.event = e, !.mode = "Change"]
           a == [kind |-> "event", owner |-> r, dev |-> DeviceOf[w.reader[r].src],
                 period |-> NoPeriod]
           w1 == WithReader(w, r, q)
<1>1. /\ w \in Worlds /\ w.reader[r] \in ReaderRec /\ w.reader[r].live
      /\ w.reader[r].src \in Sources /\ w.reader[r].period \in AllPeriods
  BY SMTT(30) DEF Sound, Worlds, ReadersFound, Detached
<1>2. e \in ReadActivities /\ w.activity[e] = NoActivity
  <2>1. FreeActivities(w) \in SUBSET Nat
    BY DEF FreeActivities, ReadActivities
  <2>2. e \in FreeActivities(w)
    BY <2>1, LeastExists
  <2> QED BY <2>2 DEF FreeActivities, Linked
<1>3. v = RegisterAct(w1, e, a)
  <2> DEFINE wr == [w EXCEPT !.reader[r].event = e, !.reader[r].mode = "Change"]
  <2>1. v = RegisterAct(wr, e, a)
    BY DEF StartEventActivity
  <2>2. wr = w1
    <3> HIDE DEF e
    <3> QED BY <1>1, ZenonT(60) DEF Worlds, ReaderRec, WithReader
  <2> HIDE DEF wr, w1, a
  <2> QED BY <2>1, <2>2
<1> HIDE DEF e
<1>4. /\ q \in ReaderRec /\ q.live /\ q.src = w.reader[r].src /\ q.period = w.reader[r].period
      /\ q.event = e /\ q.mode \in EventModes /\ q.mode = "Change"
  BY <1>1, <1>2 DEF ReaderRec, EventModes
<1>5. a \in ActivityRec /\ a.kind = "event" /\ a.owner = r
  BY <1>1 DEF ActivityRec, Devices, Readers
<1> HIDE DEF q, a
<1>6. /\ w1 \in Worlds /\ w1.actions = w.actions /\ w1.poller = w.poller
      /\ w1.pollerOf = w.pollerOf /\ w1.activity = w.activity /\ w1.inbox = w.inbox
      /\ Puts(Readers, w.reader, w1.reader, r, q)
  BY <1>1, <1>4, WithReaderWorld
<1> HIDE DEF w1
<1>7. /\ v \in Worlds /\ v.reader = w1.reader /\ v.actions = w1.actions /\ v.poller = w1.poller
      /\ v.pollerOf = w1.pollerOf /\ Puts(ReadActivities, w1.activity, v.activity, e, a)
      /\ News(w1, v, e)
  BY <1>2, <1>3, <1>5, <1>6, RegisterActWorld
<1>8. /\ Sound(v) /\ EventFed(v, r)
      /\ \A u \in Readers \ {r} : Fed(w, u) => Fed(v, u)
  <2>1. News(w, v, e)
    BY <1>6, <1>7 DEF News
  <2>2. /\ v.poller = w.poller /\ v.activity[e].kind # "poll"
        /\ \A x \in ReadActivities \ {e} : v.activity[x] = w.activity[x]
    BY <1>5, <1>6, <1>7 DEF Puts
  <2>3. ModesAsked => AsAsked(v)
    BY <1>2, <1>7, <2>1, <2>2, SoundAskedKept
  <2> QED BY <1>2, <1>4, <1>5, <1>6, <1>7, <2>3, EventJoined
<1>9. v.reader[r].live
  BY <1>4, <1>6, <1>7 DEF Puts
<1>10. Rewrites(w, v, r, "Change", w.reader[r].period)
  BY <1>4, <1>6, <1>7 DEF Puts, Rewrites
<1> QED BY <1>8, <1>9, <1>10

\* CuTReader::m_unregisterEventActivity
LEMMA EventStopped ==
  ASSUME NEW w, Sound(w), NEW r \in Readers, w.reader[r].live, EventFed(w, r),
         NEW v, v = UnregisterEventActivity(w, r)
  PROVE  /\ Sound(v) /\ Detached(v, r)
         /\ v.reader = w.reader /\ v.actions = w.actions
         /\ \A u \in Readers \ {r} : Fed(w, u) => Fed(v, u)
         /\ Gains(w, v) /\ r \in Subscribed(w) \ Subscribed(v)
<1> DEFINE e == w.reader[r].event
<1>1. w \in Worlds /\ e \in ReadActivities /\ Linked(w, e)
  BY FedWays DEF Sound, EventFed, Linked, NoActivity
<1>2. v = UnregisterAct(w, e)
  BY DEF UnregisterEventActivity
<1>3. /\ v \in Worlds /\ v.reader = w.reader /\ v.actions = w.actions /\ v.poller = w.poller
      /\ v.pollerOf = w.pollerOf /\ Puts(ReadActivities, w.activity, v.activity, e, NoActivity)
      /\ News(w, v, e)
  <2> HIDE DEF e
  <2> QED BY <1>1, <1>2, UnregisterActWorld
<1>4. /\ Sound(v) /\ Detached(v, r)
      /\ \A u \in Readers \ {r} : Fed(w, u) => Fed(v, u)
  <2>1. /\ v.activity[e].kind # "poll"
        /\ \A x \in ReadActivities \ {e} : v.activity[x] = w.activity[x]
    BY <1>3 DEF Puts, NoActivity
  <2>2. ModesAsked => AsAsked(v)
    <3> HIDE DEF e
    <3> QED BY <1>1, <1>3, <2>1, SoundAskedKept
  <2> QED BY <1>3, <2>2, EventLeft
<1>5. FreeActivities(w) \subseteq FreeActivities(v)
  <2>1. e \notin FreeActivities(w)
    BY <1>1 DEF FreeActivities
  <2>2. \A u \in Readers : v.reader[u].event \in {w.reader[u].event, 0, e}
    BY <1>3
  <2>3. \A y \in ReadActivities \ {e} : v.activity[y] = w.activity[y]
    BY <1>3 DEF Puts
  <2>4. FreeActivities(w) \ {e} \subseteq FreeActivities(v)
    <3> HIDE DEF e
    <3> QED BY <1>3, <2>2, <2>3, FreeActivityKept
  <2> QED BY <2>1, <2>4
<1>6. FreePollers(w) \subseteq FreePollers(v)
  <2>1. \A j \in FreePollers(w) \ {} : ~v.poller[j].live
    BY <1>3 DEF FreePollers
  <2>2. \A y \in ReadActivities :
          v.activity[y].kind = "poll" => v.activity[y] = w.activity[y]
                                         \/ v.activity[y].owner \notin FreePollers(w) \ {}
    BY <1>3 DEF NoActivity, Puts
  <2>3. FreePollers(w) \ {} \subseteq FreePollers(v)
    BY <2>1, <2>2, FreePollerKept
  <2> QED BY <2>3
<1>7. /\ \A u \in Subscribed(v) : u \in Subscribed(w)
      /\ r \in Subscribed(w) /\ r \notin Subscribed(v)
  <2>1. \A y \in ReadActivities : v.activity[y] # NoActivity => w.activity[y] # NoActivity
    BY <1>3 DEF Puts
  <2>2. \A u \in Readers : w.reader[u].event \in ReadActivities \union {0}
    BY <1>1 DEF Worlds, ReaderRec
  <2>3. ASSUME NEW u \in Subscribed(v) PROVE u \in Subscribed(w)
    BY <1>3, <2>1, <2>2 DEF Subscribed, Linked
  <2>4. e # 0
    BY DEF EventFed
  <2>5. r \in Subscribed(w)
    BY <1>1, <2>4 DEF Subscribed
  <2>6. r \notin Subscribed(v)
    BY <1>3 DEF Subscribed, Linked, Puts
  <2> QED BY <2>3, <2>5, <2>6
<1> QED BY <1>3, <1>4, <1>5, <1>6, <1>7 DEF Gains
\* What the code writes to a reader in the middle of a call.
LEMMA ReaderRewritten ==
  ASSUME NEW w, Sound(w), NEW r \in Readers, NEW q \in ReaderRec,
         q.live = w.reader[r].live, q.src = w.reader[r].src, q.period \in AllPeriods,
         q.event \in {w.reader[r].event, 0},
         \/ Detached(w, r)
         \/ q.period = w.reader[r].period /\ q.event = w.reader[r].event,
         NEW v, v = WithReader(w, r, q)
  PROVE  /\ Sound(v) /\ v.reader[r] = q /\ v.actions = w.actions
         /\ \A u \in Readers \ {r} : Fed(w, u) => Fed(v, u)
         /\ Detached(w, r) => Detached(v, r)
         /\ /\ Fed(w, r) /\ ~Detached(w, r)
            /\ q.event # 0 => q.mode \in EventModes
            => Fed(v, r)
         /\ Gains(w, v)
<1>1. w \in Worlds
  BY DEF Sound
<1>2. /\ v \in Worlds /\ v.actions = w.actions /\ v.poller = w.poller
      /\ v.pollerOf = w.pollerOf /\ v.activity = w.activity /\ v.inbox = w.inbox
      /\ Puts(Readers, w.reader, v.reader, r, q)
  BY <1>1, WithReaderWorld
<1>3. /\ Sound(v)
      /\ \A u \in Readers \ {r} : Fed(w, u) => Fed(v, u)
      /\ Detached(w, r) => Detached(v, r)
      /\ /\ Fed(w, r) /\ ~Detached(w, r)
         /\ q.event # 0 => q.mode \in EventModes
         => Fed(v, r)
  <2>1. ModesAsked => AsAsked(v)
    BY <1>2, SoundAskedSame
  <2> QED BY <1>2, <2>1, ReaderTouched
<1>4. v.reader[r] = q /\ \A u \in Readers \ {r} : v.reader[u] = w.reader[u]
  BY <1>2 DEF Puts
<1>5. \A u \in Readers : v.reader[u].event \in {w.reader[u].event, 0}
  BY <1>4
<1>6. FreePollers(w) \subseteq FreePollers(v)
  BY <1>2 DEF FreePollers
<1>7. FreeActivities(w) \subseteq FreeActivities(v)
  BY <1>2, <1>5 DEF FreeActivities, Linked, ReadActivities
<1>8. Subscribed(v) \subseteq Subscribed(w)
  BY <1>2, <1>5 DEF Subscribed, Linked
<1> QED BY <1>2, <1>3, <1>4, <1>6, <1>7, <1>8 DEF Gains

\* A reader whose events fail falls back on polling, and takes no more than the
\* poller and the activity kept for it.
LEMMA FallbackPolls ==
  ASSUME NEW w, Sound(w), NEW r \in Readers, w.reader[r].live, EventFed(w, r),
         FreePollers(w) # {}, FreeActivities(w) # {},
         NEW v, v = PollingFallback(w, r)
  PROVE  /\ Sound(v) /\ Fed(v, r)
         /\ \A u \in Readers \ {r} : Fed(w, u) => Fed(v, u)
         /\ Takes(w, v) /\ r \in Subscribed(w) \ Subscribed(v)
         /\ Moded(w) => Moded(v)
<1> DEFINE w0 == UnregisterEventActivity(w, r)
           q1 == [w0.reader[r] EXCEPT !.event = 0]
           w1 == WithReader(w0, r, q1)
           q2 == [q1 EXCEPT !.mode = "Polled"]
           w2 == WithReader(w1, r, q2)
<1>1. /\ Sound(w0) /\ Detached(w0, r)
      /\ w0.reader = w.reader /\ w0.actions = w.actions
      /\ \A u \in Readers \ {r} : Fed(w, u) => Fed(w0, u)
      /\ Gains(w, w0) /\ r \in Subscribed(w) \ Subscribed(w0)
  BY EventStopped
<1>2. v = IF ActionRegistered([w0 EXCEPT !.reader[r].event = 0], r)
          THEN [w0 EXCEPT !.reader[r].event = 0]
          ELSE RegisterToPoller([[w0 EXCEPT !.reader[r].event = 0]
                                 EXCEPT !.reader[r].mode = "Polled"], r)
  BY DEF PollingFallback
<1> HIDE DEF w0
<1>3. /\ w0 \in Worlds /\ w0.reader[r] \in ReaderRec
      /\ w0.reader[r].period \in AllPeriods
  <2>1. w0 \in Worlds /\ w0.reader[r].live
    BY <1>1 DEF Sound, Detached
  <2> QED BY <1>1, <2>1 DEF Sound, ReadersFound, Worlds
<1>4. [w0 EXCEPT !.reader[r].event = 0] = w1
  BY <1>3 DEF Worlds, ReaderRec, WithReader
<1>5. /\ q1 \in ReaderRec /\ q1.live = w0.reader[r].live /\ q1.src = w0.reader[r].src
      /\ q1.period = w0.reader[r].period /\ q1.event = 0 /\ q1.mode = w0.reader[r].mode
  BY <1>3 DEF ReaderRec
<1> HIDE DEF q1
<1>6. /\ Sound(w1) /\ w1.reader[r] = q1
      /\ \A u \in Readers \ {r} : Fed(w0, u) => Fed(w1, u)
      /\ Detached(w0, r) => Detached(w1, r)
      /\ Gains(w0, w1)
  BY <1>1, <1>3, <1>5, ReaderRewritten
<1> HIDE DEF w1
<1>7. w1 \in Worlds
  BY <1>6 DEF Sound
<1>8. [w1 EXCEPT !.reader[r].mode = "Polled"] = w2
  BY <1>5, <1>6, <1>7 DEF Worlds, WithReader
<1>9. /\ q2 \in ReaderRec /\ q2.live = q1.live /\ q2.src = q1.src
      /\ q2.period = q1.period /\ q2.event = 0 /\ q2.mode = "Polled"
  BY <1>5 DEF ReaderRec
<1> HIDE DEF q2
<1>10. /\ Sound(w2) /\ w2.reader[r] = q2
       /\ \A u \in Readers \ {r} : Fed(w1, u) => Fed(w2, u)
       /\ Detached(w1, r) => Detached(w2, r)
       /\ Gains(w1, w2)
  <2>1. /\ q2.live = w1.reader[r].live /\ q2.src = w1.reader[r].src
        /\ q2.period = w1.reader[r].period /\ q2.period \in AllPeriods
        /\ q2.event \in {w1.reader[r].event, 0}
    BY <1>3, <1>5, <1>6, <1>9
  <2>2. Detached(w1, r)
    BY <1>1, <1>6
  <2> QED BY <1>6, <1>9, <2>1, <2>2, ReaderRewritten
<1> HIDE DEF w2
<1>11. v = RegisterToPoller(w2, r)
  <2>1. ~ActionRegistered(w1, r)
    BY <1>1, <1>6, FedWays DEF Detached
  <2> QED BY <1>2, <1>4, <1>8, <2>1
<1>12. Gains(w, w2)
  BY <1>1, <1>6, <1>10, GainsTrans
<1>13. /\ Sound(v) /\ PollFed(v, r) /\ v.reader = w2.reader
       /\ \A u \in Readers \ {r} : Fed(w2, u) => Fed(v, u)
       /\ Takes(w2, v)
  <2>1. Detached(w2, r) /\ w2.reader[r].event = 0
    BY <1>1, <1>6, <1>9, <1>10
  <2>2. FreePollers(w2) # {} /\ FreeActivities(w2) # {}
    BY <1>12, SMTT(30) DEF Gains
  <2> QED BY <1>10, <1>11, <2>1, <2>2, RegisterToPollerJoins
<1>14. r \notin Subscribed(v)
  BY <1>13 DEF PollFed, Subscribed
<1>15. ASSUME Moded(w) PROVE Moded(v)
  <2>1. Puts(Readers, w0.reader, w1.reader, r, q1)
    BY <1>3, <1>5, WithReaderWorld DEF w1
  <2>2. Puts(Readers, w1.reader, w2.reader, r, q2)
    BY <1>6, <1>7, <1>9, WithReaderWorld DEF w2
  <2>3. \A u \in Readers \ {r} : v.reader[u] = w.reader[u]
    BY <1>1, <1>13, <2>1, <2>2 DEF Puts
  <2>4. w.reader[r].mode \in EventModes /\ InMode(w.reader[r])
    BY <1>15 DEF Moded, EventFed
  <2>5. InMode(v.reader[r])
    BY <1>1, <1>5, <1>9, <1>10, <1>13, <2>4 DEF InMode, EventModes
  <2> QED BY <1>15, <2>3, <2>5, ModedAfter
<1> QED BY <1>1, <1>6, <1>10, <1>12, <1>13, <1>14, <1>15, GainsTrans DEF Fed

\* CuTReader::stop and m_destroy_self
LEMMA StoppedReader ==
  ASSUME NEW w, Sound(w), AllFed(w), NEW r \in Readers, w.reader[r].live,
         NEW v, v = StopReader(w, r)
  PROVE  Sound(v) /\ AllFed(v) /\ Gains(w, v) /\ (Moded(w) => Moded(v))
<1> DEFINE w1 == IF w.reader[r].event # 0 THEN UnregisterEventActivity(w, r)
                 ELSE UnregisterFromPoller(w, r)
           s == w.reader[r].src
<1>1. Fed(w, r) /\ \A u \in Readers : Fed(w, u)
  BY DEF AllFed
<1>2. /\ Sound(w1) /\ Detached(w1, r)
      /\ w1.reader = w.reader /\ w1.actions = w.actions
      /\ \A u \in Readers \ {r} : Fed(w1, u)
      /\ Gains(w, w1)
  <2>1. CASE w.reader[r].event # 0
    <3>1. EventFed(w, r)
      BY <1>1, <2>1, FedWays
    <3>2. w1 = UnregisterEventActivity(w, r)
      BY <2>1
    <3> HIDE DEF w1
    <3> QED BY <1>1, <3>1, <3>2, EventStopped
  <2>2. CASE w.reader[r].event = 0
    <3>1. PollFed(w, r)
      BY <1>1, <2>2, FedWays
    <3>2. w1 = UnregisterFromPoller(w, r)
      BY <2>2
    <3> HIDE DEF w1
    <3> QED BY <1>1, <3>1, <3>2, UnregisterFromPollerLeaves
  <2> QED BY <2>1, <2>2
<1>3. v = [w1 EXCEPT !.actions[s] = 0, !.reader[r] = NoReader]
  BY DEF StopReader
<1> HIDE DEF w1
<1>4. w1 \in Worlds /\ s \in Sources /\ w1.reader[r].src = s
  BY <1>2 DEF Sound, ReadersFound
<1> HIDE DEF s
<1>5. /\ v.actions = [w1.actions EXCEPT ![s] = 0] /\ v.reader = [w1.reader EXCEPT ![r] = NoReader]
      /\ v.poller = w1.poller /\ v.pollerOf = w1.pollerOf /\ v.activity = w1.activity
      /\ v.inbox = w1.inbox
      /\ v = [reader |-> v.reader, actions |-> v.actions, poller |-> w1.poller,
              pollerOf |-> w1.pollerOf, activity |-> w1.activity, inbox |-> w1.inbox]
  BY <1>3, <1>4 DEF Worlds
<1>6. NoReader \in ReaderRec /\ NoReader.event = 0
  BY DEF NoReader, ReaderRec, NoPeriod, EventModes
<1>7. v.reader \in [Readers -> ReaderRec] /\ Puts(Readers, w1.reader, v.reader, r, NoReader)
  BY <1>4, <1>5, <1>6 DEF Worlds, Puts
<1>8. v.actions \in [Sources -> Readers \union {0}] /\ Puts(Sources, w1.actions, v.actions, s, 0)
  BY <1>4, <1>5 DEF Worlds, Puts
<1>9. v \in Worlds
  BY <1>4, <1>5, <1>7, <1>8 DEF Worlds
<1>10. Sound(v) /\ AllFed(v)
  <2>1. ModesAsked => AsAsked(v)
    BY <1>2, <1>5, SoundAskedSame
  <2> QED BY <1>2, <1>4, <1>5, <1>7, <1>8, <1>9, <2>1, ReaderDeleted
<1>11. \A u \in Readers : v.reader[u].event \in {w1.reader[u].event, 0}
  BY <1>6, <1>7 DEF Puts
<1>12. Gains(w1, v)
  <2>1. FreePollers(w1) \subseteq FreePollers(v)
    BY <1>5 DEF FreePollers
  <2>2. FreeActivities(w1) \subseteq FreeActivities(v)
    BY <1>5, <1>11 DEF FreeActivities, Linked, ReadActivities
  <2>3. Subscribed(v) \subseteq Subscribed(w1)
    BY <1>5, <1>11 DEF Subscribed, Linked
  <2> QED BY <2>1, <2>2, <2>3 DEF Gains
<1>13. Moded(w) => Moded(v)
  <2>1. \A u \in Readers \ {r} : v.reader[u] = w.reader[u]
    BY <1>2, <1>7 DEF Puts
  <2>2. ~v.reader[r].live
    BY <1>7 DEF Puts, NoReader
  <2> QED BY <2>1, <2>2 DEF Moded
<1> QED BY <1>2, <1>10, <1>12, <1>13, GainsTrans
\* From an old period to a new one.
LEMMA MovedPolls ==
  ASSUME NEW w, Sound(w), NEW r \in Readers, w.reader[r].live, PollFed(w, r),
         NEW p \in AllPeriods, FreePollers(w) # {}, FreeActivities(w) # {},
         NEW v, v = RegisterToPoller(MoveTo(w, r, p), r)
  PROVE  /\ Sound(v) /\ PollFed(v, r) /\ v.reader[r].live
         /\ \A u \in Readers \ {r} : Fed(w, u) => Fed(v, u)
         /\ Rewrites(w, v, r, w.reader[r].mode, p)
<1> DEFINE w0 == UnregisterFromPoller(w, r)
           q == [w0.reader[r] EXCEPT !.period = p]
           w1 == WithReader(w0, r, q)
<1>1. /\ Sound(w0) /\ Detached(w0, r) /\ w.reader[r].event = 0
      /\ w0.reader = w.reader
      /\ \A u \in Readers \ {r} : Fed(w, u) => Fed(w0, u)
      /\ Gains(w, w0)
  BY UnregisterFromPollerLeaves
<1>2. v = RegisterToPoller([w0 EXCEPT !.reader[r].period = p], r)
  BY DEF MoveTo
<1> HIDE DEF w0
<1>3. w0 \in Worlds /\ w0.reader[r] \in ReaderRec /\ w0.reader[r].live
  <2>1. w0 \in Worlds /\ w0.reader[r].live
    BY <1>1 DEF Sound, Detached
  <2> QED BY <2>1 DEF Worlds
<1>4. [w0 EXCEPT !.reader[r].period = p] = w1
  BY <1>3 DEF Worlds, ReaderRec, WithReader
<1>5. /\ q \in ReaderRec /\ q.live = w0.reader[r].live /\ q.src = w0.reader[r].src
      /\ q.period = p /\ q.event = 0 /\ w0.reader[r].event = 0 /\ q.live
      /\ q.mode = w0.reader[r].mode
  BY <1>1, <1>3 DEF ReaderRec
<1> HIDE DEF q
<1>6. /\ Sound(w1) /\ w1.reader[r] = q
      /\ \A u \in Readers \ {r} : Fed(w0, u) => Fed(w1, u)
      /\ Detached(w0, r) => Detached(w1, r)
      /\ Gains(w0, w1)
  BY <1>1, <1>3, <1>5, ReaderRewritten
<1> HIDE DEF w1
<1>7. v = RegisterToPoller(w1, r)
  BY <1>2, <1>4
<1>8. /\ Sound(v) /\ PollFed(v, r) /\ v.reader = w1.reader
      /\ \A u \in Readers \ {r} : Fed(w1, u) => Fed(v, u)
  <2>1. Detached(w1, r) /\ w1.reader[r].event = 0
    BY <1>1, <1>5, <1>6
  <2>2. FreePollers(w1) # {} /\ FreeActivities(w1) # {}
    BY <1>1, <1>6 DEF Gains
  <2> QED BY <1>6, <1>7, <2>1, <2>2, RegisterToPollerJoins
<1>9. Rewrites(w, v, r, w.reader[r].mode, p)
  <2>1. Puts(Readers, w0.reader, w1.reader, r, q)
    BY <1>3, <1>5, WithReaderWorld DEF w1
  <2> QED BY <1>1, <1>5, <1>8, <2>1 DEF Puts, Rewrites
<1> QED BY <1>1, <1>5, <1>6, <1>8, <1>9

\* The branch of setRefreshMode that subscribes, from polling or events.
LEMMA ToEventsFeeds ==
  ASSUME NEW w, Sound(w), AllFed(w), NEW r \in Readers, w.reader[r].live,
         FreeActivities(w) # {}, NEW rm, rm # w.reader[r].mode,
         NEW v, v = ToEvents(w, r, rm)
  PROVE  /\ Sound(v) /\ EventFed(v, r) /\ v.reader[r].live
         /\ \A u \in Readers \ {r} : Fed(v, u)
         /\ Rewrites(w, v, r, "Change", w.reader[r].period)
<1> DEFINE w1 == IF w.reader[r].event = 0 THEN UnregisterFromPoller(w, r)
                 ELSE UnregisterEventActivity(w, r)
<1>1. v = StartEventActivity(w1, r)
  BY DEF ToEvents
<1>2. \A u \in Readers : Fed(w, u)
  BY DEF AllFed
<1>3. w1.reader = w.reader /\ Sound(w1) /\ Detached(w1, r) /\ Gains(w, w1) /\ \A u \in Readers \ {r} : Fed(w1, u)
  <2>1. CASE w.reader[r].event # 0
    <3>1. EventFed(w, r)
      BY <1>2, <2>1, FedWays
    <3>2. w1 = UnregisterEventActivity(w, r)
      BY <2>1
    <3> HIDE DEF w1
    <3> QED BY <1>2, <3>1, <3>2, EventStopped
  <2>2. CASE w.reader[r].event = 0
    <3>1. PollFed(w, r)
      BY <1>2, <2>2, FedWays
    <3>2. w1 = UnregisterFromPoller(w, r)
      BY <2>2
    <3> HIDE DEF w1
    <3> QED BY <1>2, <3>1, <3>2, UnregisterFromPollerLeaves
  <2> QED BY <2>1, <2>2
<1> HIDE DEF w1
<1>4. FreeActivities(w1) # {}
  BY <1>3 DEF Gains
<1>5. /\ Sound(v) /\ EventFed(v, r) /\ v.reader[r].live
      /\ \A u \in Readers \ {r} : Fed(w1, u) => Fed(v, u)
      /\ Rewrites(w1, v, r, "Change", w1.reader[r].period)
  BY <1>1, <1>3, <1>4, EventStarted
<1>6. Rewrites(w, v, r, "Change", w.reader[r].period)
  BY <1>3, <1>5 DEF Rewrites
<1> QED BY <1>3, <1>5, <1>6

\* The branch that polls, for a reader that is polled already.
LEMMA ToPollingFeeds ==
  ASSUME NEW w, Sound(w), AllFed(w), NEW r \in Readers, w.reader[r].live, w.reader[r].event = 0,
         FreePollers(w) # {}, FreeActivities(w) # {}, NEW rm, rm # w.reader[r].mode,
         NEW p \in PollPeriods \union {NoPeriod},
         ModesAsked => LET new == IF rm = "Manual" THEN ManualPeriod ELSE p
                       IN  new # NoPeriod /\ new # w.reader[r].period,
         NEW v, v = ToPolling(w, r, rm, p)
  PROVE  /\ Sound(v) /\ PollFed(v, r) /\ v.reader[r].live
         /\ \A u \in Readers \ {r} : Fed(v, u)
         /\ ModesAsked => Rewrites(w, v, r, w.reader[r].mode,
                                   IF rm = "Manual" THEN ManualPeriod ELSE p)
<1> DEFINE new == IF rm = "Manual" THEN ManualPeriod ELSE p
<1>1. PollFed(w, r) /\ \A u \in Readers : Fed(w, u)
  BY FedWays DEF AllFed
<1>2. v = RegisterToPoller(IF new = NoPeriod \/ new = w.reader[r].period THEN w
                           ELSE MoveTo(w, r, new), r)
  BY DEF ToPolling, UnregisterEventActivity, UnregisterAct
<1>3. new \in AllPeriods \union {NoPeriod}
  BY DEF AllPeriods
<1>new. ModesAsked => new # NoPeriod /\ new # w.reader[r].period
  OBVIOUS
<1> HIDE DEF new
<1> SUFFICES /\ Sound(v) /\ PollFed(v, r) /\ v.reader[r].live
             /\ \A u \in Readers \ {r} : Fed(v, u)
             /\ ModesAsked => Rewrites(w, v, r, w.reader[r].mode, new)
  BY DEF new
<1>4. CASE new = NoPeriod \/ new = w.reader[r].period
  <2>1. v = RegisterToPoller(w, r)
    BY <1>2, <1>4
  <2>2. /\ Sound(v) /\ PollFed(v, r) /\ v.reader = w.reader
        /\ \A u \in Readers \ {r} : Fed(w, u) => Fed(v, u)
    BY <1>1, <1>new, <1>4, <2>1, RegisterToPollerAgain
  <2> QED BY <1>1, <1>new, <1>4, <2>2
<1>5. CASE ~(new = NoPeriod \/ new = w.reader[r].period)
  <2>1. v = RegisterToPoller(MoveTo(w, r, new), r) /\ new \in AllPeriods
    BY <1>2, <1>3, <1>5
  <2> QED BY <1>1, <2>1, MovedPolls
<1> QED BY <1>4, <1>5

\* setRefreshMode, unless it leaves events, keeps every reader fed from one source.
LEMMA ModeChanged ==
  ASSUME NoneLeavesEvents, NEW w, Sound(w), AllFed(w), NEW r \in Readers, w.reader[r].live,
         FreePollers(w) # {}, FreeActivities(w) # {},
         NEW sw \in Switches, sw[1] = w.reader[r].mode, NEW p \in sw[3],
         ModesAsked => Moded(w),
         NEW v, v = SetRefreshMode(w, r, sw[2], p)
  PROVE  Sound(v) /\ AllFed(v) /\ (ModesAsked => Moded(v))
<1> DEFINE rm == sw[2]
           w1 == IF rm \in EventModes THEN ToEvents(w, r, rm) ELSE ToPolling(w, r, rm, p)
           q == [w1.reader[r] EXCEPT !.mode = rm]
           w2 == WithReader(w1, r, q)
<1>1. /\ rm # w.reader[r].mode /\ rm \in EventModes \union {"Polled", "Manual"}
      /\ p \in PollPeriods \union {NoPeriod}
  BY ReaderAssumption DEF NoPeriod
<1>2. w.reader[r].event # 0 => w.reader[r].mode \in EventModes
  BY FedWays DEF AllFed, EventFed
<1>3. ActiveReader(w, r)
  BY FedWays DEF AllFed, ActiveReader
<1>4. v = [w1 EXCEPT !.reader[r].mode = rm]
  BY <1>3 DEF SetRefreshMode
<1> HIDE DEF rm
<1>5. /\ Sound(w1) /\ w1.reader[r].live /\ \A u \in Readers \ {r} : Fed(w1, u)
      /\ \/ EventFed(w1, r) /\ rm \in EventModes
         \/ PollFed(w1, r)
      /\ ModesAsked => /\ Rewrites(w, w1, r, w1.reader[r].mode, w1.reader[r].period)
                       /\ rm = "Manual" <=> w1.reader[r].period = ManualPeriod
                       /\ rm \in EventModes <=> EventFed(w1, r)
  <2>0. ASSUME ModesAsked
        PROVE  /\ w.reader[r].mode = "Manual" <=> w.reader[r].period = ManualPeriod
               /\ w.reader[r].mode \in EventModes => rm \in EventModes
               /\ w.reader[r].mode = "Manual" => rm = "Polled" /\ p # NoPeriod
    <3>1. InMode(w.reader[r])
      BY <2>0 DEF Moded
    <3>2. /\ sw[1] \in EventModes => sw[2] \in EventModes
          /\ sw[1] = "Manual" => sw[2] = "Polled" /\ NoPeriod \notin sw[3]
      BY <2>0, Zenon DEF ModesAsked
    <3>3. w.reader[r].mode = "Manual" <=> w.reader[r].period = ManualPeriod
      BY <3>1 DEF InMode
    <3> QED BY <3>2, <3>3 DEF rm
  <2>1. CASE rm \in EventModes
    <3>1. w1 = ToEvents(w, r, rm)
      BY <2>1
    <3> HIDE DEF w1
    <3>2. /\ Sound(w1) /\ EventFed(w1, r) /\ w1.reader[r].live
          /\ \A u \in Readers \ {r} : Fed(w1, u)
          /\ Rewrites(w, w1, r, "Change", w.reader[r].period)
      BY <1>1, <2>1, <3>1, ToEventsFeeds
    <3>3. w1.reader[r].mode = "Change" /\ w1.reader[r].period = w.reader[r].period
      BY <3>2 DEF Rewrites
    <3>4. rm # "Manual" /\ rm # "Polled"
      BY <2>1 DEF EventModes
    <3>5. ModesAsked => w1.reader[r].period # ManualPeriod
      BY <2>0, <3>3, <3>4
    <3> QED BY <2>1, <3>2, <3>3, <3>4, <3>5
  <2>2. CASE rm \notin EventModes
    <3>1. w.reader[r].event = 0
      BY <1>2, <2>2 DEF NoneLeavesEvents, rm
    <3>2. w1 = ToPolling(w, r, rm, p)
      BY <2>2
    <3> HIDE DEF w1
    <3> DEFINE new == IF rm = "Manual" THEN ManualPeriod ELSE p
    <3>3. rm \in {"Polled", "Manual"}
      BY <1>1, <2>2
    <3>4. ManualPeriod # NoPeriod /\ ManualPeriod \notin PollPeriods \union {NoPeriod}
      BY ReaderAssumption DEF ManualPeriod, NoPeriod
    <3>5. ASSUME ModesAsked PROVE new # NoPeriod /\ new # w.reader[r].period
      <4>1. CASE rm = "Manual"
        BY <1>1, <2>0, <3>4, <3>5, <4>1
      <4>2. CASE rm = "Polled"
        <5>1. w.reader[r].mode = "Manual"
          <6>1. w.reader[r].mode \notin EventModes
            BY <2>0, <2>2, <3>5
          <6>2. w.reader[r].mode \in EventModes \union {"Polled", "Manual"}
            BY DEF Sound, Worlds, ReaderRec
          <6> QED BY <1>1, <4>2, <6>1, <6>2
        <5> QED BY <1>1, <2>0, <3>4, <3>5, <4>2, <5>1
      <4> QED BY <3>3, <4>1, <4>2
    <3>6. new = ManualPeriod <=> rm = "Manual"
      BY <1>1, <3>4
    <3> HIDE DEF w1
    <3>7. /\ Sound(w1) /\ PollFed(w1, r) /\ w1.reader[r].live
          /\ \A u \in Readers \ {r} : Fed(w1, u)
          /\ ModesAsked => Rewrites(w, w1, r, w.reader[r].mode, new)
      BY <1>1, <3>1, <3>2, <3>5, ToPollingFeeds
    <3> HIDE DEF new
    <3>8. ModesAsked => /\ Rewrites(w, w1, r, w1.reader[r].mode, w1.reader[r].period)
                        /\ w1.reader[r].period = new
      BY <3>7 DEF Rewrites
    <3>9. ~EventFed(w1, r)
      BY <3>7, Zenon DEF PollFed, EventFed
    <3> QED BY <2>2, <3>6, <3>7, <3>8, <3>9
  <2> QED BY <2>1, <2>2
<1> HIDE DEF w1
<1>6. /\ w1 \in Worlds /\ w1.reader[r] \in ReaderRec /\ w1.reader[r].period \in AllPeriods
  BY <1>5 DEF Sound, Worlds, ReadersFound
<1>7. v = w2
  BY <1>4, <1>6 DEF Worlds, ReaderRec, WithReader
<1>8. /\ q \in ReaderRec /\ q.live = w1.reader[r].live /\ q.src = w1.reader[r].src
      /\ q.period = w1.reader[r].period /\ q.event = w1.reader[r].event /\ q.mode = rm
  BY <1>1, <1>6 DEF ReaderRec
<1> HIDE DEF q
<1>9. /\ Sound(w2)
      /\ \A u \in Readers \ {r} : Fed(w1, u) => Fed(w2, u)
      /\ Fed(w1, r) /\ ~Detached(w1, r) /\ (q.event # 0 => q.mode \in EventModes) => Fed(w2, r)
  <2>1. q.period \in AllPeriods /\ q.event \in {w1.reader[r].event, 0}
    BY <1>6, <1>8
  <2>2. \/ Detached(w1, r)
        \/ q.period = w1.reader[r].period /\ q.event = w1.reader[r].event
    BY <1>8
  <2>3. Sound(w1) /\ w2 = WithReader(w1, r, q)
    BY <1>5
  <2> HIDE DEF w2
  <2> QED BY <1>8, <2>1, <2>2, <2>3, ReaderRewritten
<1>10. Fed(w1, r) /\ ~Detached(w1, r) /\ (q.event # 0 => q.mode \in EventModes)
  <2>1. Fed(w1, r) /\ (q.event # 0 => q.mode \in EventModes)
    BY <1>5, <1>8, Zenon DEF Fed, PollFed
  <2>2. ~Detached(w1, r)
    BY <1>5, FedWays
  <2> QED BY <2>1, <2>2, SMTT(30)
<1>11. ASSUME ModesAsked PROVE Moded(v)
  <2>1. Puts(Readers, w1.reader, w2.reader, r, q)
    BY <1>6, <1>8, WithReaderWorld DEF w2
  <2>2. \A u \in Readers \ {r} : w2.reader[u] = w.reader[u]
    BY <1>5, <1>11, <2>1 DEF Puts, Rewrites
  <2>3. q.event = 0 => rm \notin EventModes
    BY <1>5, <1>8, <1>11 DEF EventFed
  <2>4. InMode(w2.reader[r])
    BY <1>5, <1>8, <1>11, <2>1, <2>3 DEF Puts, InMode
  <2> QED BY <1>7, <1>11, <2>2, <2>4, ModedAfter
<1> QED BY <1>5, <1>7, <1>9, <1>10, <1>11 DEF AllFed

\* m_setPeriod moves a polled reader to the poller of the other period.
LEMMA PeriodChanged ==
  ASSUME NEW w, Sound(w), AllFed(w), NEW r \in Readers, w.reader[r].live, w.reader[r].mode = "Polled",
         FreePollers(w) # {}, FreeActivities(w) # {}, NEW p \in PollPeriods,
         NEW v, v = ChangePeriod(GetPoller(w, w.reader[r].period), r, p)
  PROVE  Sound(v) /\ AllFed(v) /\ (Moded(w) => Moded(v))
<1>1. PollFed(w, r)
  BY FedWays, SMTT(30) DEF AllFed, EventFed, EventModes
<1>2. v = ChangePeriod(w, r, p)
  BY <1>1 DEF PollFed, GetPoller
<1>3. CASE p = w.reader[r].period
  BY <1>2, <1>3 DEF ChangePeriod
<1>4. CASE p # w.reader[r].period
  <2>1. v = RegisterToPoller(MoveTo(w, r, p), r) /\ p \in AllPeriods
    BY <1>2, <1>4 DEF ChangePeriod, AllPeriods
  <2>2. /\ Sound(v) /\ PollFed(v, r) /\ v.reader[r].live
        /\ \A u \in Readers \ {r} : Fed(w, u) => Fed(v, u)
        /\ Rewrites(w, v, r, w.reader[r].mode, p)
    BY <1>1, <2>1, MovedPolls
  <2>3. Sound(v) /\ AllFed(v)
    BY <2>2 DEF AllFed, Fed
  <2>4. ManualPeriod # p
    BY ReaderAssumption DEF ManualPeriod
  <2>5. InMode(v.reader[r]) /\ \A u \in Readers \ {r} : v.reader[u] = w.reader[u]
    BY <2>2, <2>4 DEF InMode, Rewrites, EventModes
  <2> QED BY <2>3, <2>5, ModedAfter
<1> QED BY <1>3, <1>4

\* A manual read posts an event to the reader's activity.
LEMMA ReadPosted ==
  ASSUME NEW w, Sound(w), AllFed(w), NEW r \in Readers, NEW v, v = PostRead(w, r)
  PROVE  Sound(v) /\ AllFed(v) /\ Gains(w, v) /\ v.reader = w.reader
<1> DEFINE dev == DeviceOf[w.reader[r].src]
           found == Polling(w, dev, w.reader[r].period)
           x == CHOOSE y \in found : TRUE
<1>1. CASE found = {}
  BY <1>1 DEF PostRead, Gains
<1>2. CASE found # {}
  <2>0. w.activity[x].dev = dev
    <3>1. x \in found
      BY <1>2
    <3> HIDE DEF x
    <3> QED BY <3>1 DEF Polling
  <2>1. x \in ReadActivities /\ Linked(w, x) /\ w \in Worlds
    <3>1. x \in found
      BY <1>2
    <3> HIDE DEF x
    <3> QED BY <3>1 DEF Polling, Linked, NoActivity, Sound
  <2>2. v = PostTo(w, dev, "Execute", x, NoSource)
    BY <1>2 DEF PostRead
  <2> HIDE DEF x, dev, found
  <2>3. /\ v \in Worlds /\ v.reader = w.reader /\ v.actions = w.actions /\ v.poller = w.poller
        /\ v.pollerOf = w.pollerOf /\ v.activity = w.activity /\ News(w, v, x)
    BY <2>1, <2>2, PostToWorld
  <2>4. Sound(v) /\ AllFed(v)
    <3>1. ASSUME ModesAsked PROVE AsAsked(v)
      <4> DEFINE e == [ev |-> "Execute", a |-> x, src |-> NoSource]
      <4>1. AsAsked(w)
        BY <3>1 DEF Sound
      <4>2. \A y \in ReadActivities : v.activity[y] = w.activity[y] /\ Asked(v, y) = Asked(w, y)
        BY <2>3 DEF Asked
      <4>3. ASSUME v.activity[x].kind = "poll" PROVE AskedOf(v, x)
        <5>1. AskedOf(w, x)
          BY <2>1, <2>3, <4>1, <4>3 DEF AsAsked
        <5>2. e \in Message /\ e.ev = "Execute"
          BY <2>1 DEF Message
        <5>3. v.inbox = [w.inbox EXCEPT ![dev] = Append(@, e)]
          BY <2>1, <2>2, PostToQueue
        <5> HIDE DEF e
        <5>4. HandledBy(e, x, ReadBy(w, x)) = ReadBy(w, x)
          BY <5>2 DEF HandledBy
        <5>5. Each(HandledBy(e, x, ReadBy(w, x)), Asked(v, x))
          BY <2>1, <4>2, <5>1, <5>4 DEF AskedOf
        <5>6. /\ w.activity[x].dev = dev /\ dev \in Devices
              /\ work[x].atts \in Seq(Sources) /\ InOrder(w, x)
          BY <2>0, <5>1 DEF AskedOf
        <5> QED BY <2>1, <4>2, <5>2, <5>3, <5>5, <5>6, AskedPosted
      <4> QED BY <2>1, <2>3, <4>1, <4>2, <4>3, AskedKept
    <3> QED BY <2>3, <3>1, OnlyInbox DEF AllFed
  <2>5. FreeActivities(w) \subseteq FreeActivities(v)
    <3>1. \A y \in ReadActivities \ {x} : v.activity[y] = w.activity[y]
      BY <2>3
    <3>2. \A u \in Readers : v.reader[u].event \in {w.reader[u].event, 0, x}
      BY <2>3
    <3>3. FreeActivities(w) \ {x} \subseteq FreeActivities(v)
      BY <2>3, <3>1, <3>2, FreeActivityKept
    <3> QED BY <2>1, <3>3 DEF FreeActivities
  <2>6. FreePollers(w) \subseteq FreePollers(v) /\ Subscribed(v) \subseteq Subscribed(w)
    BY <2>3 DEF FreePollers, Subscribed, Linked
  <2> QED BY <2>3, <2>4, <2>5, <2>6 DEF Gains
<1> QED BY <1>1, <1>2

\* A listener joins or leaves a reader that goes on.
InUse(w, r) == w.reader[r].live

\* addDataListener and removeDataListener change who is told and not what feeds it.
LEMMA ListenersChanged ==
  ASSUME NEW w, Sound(w), AllFed(w), NEW r \in Readers, InUse(w, r), NEW q \in ReaderRec,
         q.live = w.reader[r].live, q.src = w.reader[r].src, q.mode = w.reader[r].mode,
         q.period = w.reader[r].period, q.event = w.reader[r].event,
         NEW v, v = WithReader(w, r, q)
  PROVE  Sound(v) /\ AllFed(v) /\ Gains(w, v) /\ v.reader[r] = q /\ v.actions = w.actions
         /\ (Moded(w) => Moded(v))
<1>1. w.reader[r].period \in AllPeriods
  BY DEF Sound, ReadersFound, InUse
<1>2. Fed(w, r) /\ ~Detached(w, r) /\ (q.event # 0 => q.mode \in EventModes)
  <2>1. Fed(w, r) /\ ~Detached(w, r)
    BY FedWays DEF AllFed, InUse
  <2>2. w.reader[r].event # 0 => w.reader[r].mode \in EventModes
    BY FedWays, <2>1 DEF EventFed, InUse
  <2> QED BY <2>1, <2>2
<1>3. /\ Sound(v) /\ v.reader[r] = q /\ v.actions = w.actions
      /\ \A u \in Readers \ {r} : Fed(w, u) => Fed(v, u)
      /\ Fed(w, r) /\ ~Detached(w, r) /\ (q.event # 0 => q.mode \in EventModes) => Fed(v, r)
      /\ Gains(w, v)
  <2>1. q.period \in AllPeriods /\ q.event \in {w.reader[r].event, 0}
    BY <1>1
  <2> QED BY <2>1, ReaderRewritten
<1>4. ASSUME Moded(w) PROVE Moded(v)
  <2>1. Puts(Readers, w.reader, v.reader, r, q)
    BY WithReaderWorld DEF Sound
  <2>2. InMode(w.reader[r])
    BY <1>4 DEF Moded, InUse
  <2>3. InMode(v.reader[r]) /\ \A u \in Readers \ {r} : v.reader[u] = w.reader[u]
    BY <2>1, <2>2 DEF InMode, Puts
  <2> QED BY <1>4, <2>3, ModedAfter
<1> QED BY <1>2, <1>3, <1>4 DEF AllFed

\* CuTReaderFactory::create and CuTReader::start
WithNewReader(w, s, r, q) == [w EXCEPT !.actions[s] = r, !.reader[r] = q]

\* What addReader writes before it starts the reader.
LEMMA WithNewReaderWorld ==
  ASSUME NEW w \in Worlds, NEW s \in Sources, NEW r \in Readers, NEW q \in ReaderRec,
         NEW v, v = WithNewReader(w, s, r, q)
  PROVE  /\ v \in Worlds /\ v.poller = w.poller /\ v.pollerOf = w.pollerOf
         /\ v.activity = w.activity /\ v.inbox = w.inbox
         /\ Puts(Readers, w.reader, v.reader, r, q) /\ Puts(Sources, w.actions, v.actions, s, r)
<1>1. /\ v.actions = [w.actions EXCEPT ![s] = r] /\ v.reader = [w.reader EXCEPT ![r] = q]
      /\ v.poller = w.poller /\ v.pollerOf = w.pollerOf /\ v.activity = w.activity
      /\ v.inbox = w.inbox
      /\ v = [reader |-> v.reader, actions |-> v.actions, poller |-> w.poller,
               pollerOf |-> w.pollerOf, activity |-> w.activity, inbox |-> w.inbox]
  BY DEF Worlds, WithNewReader
<1>2. v.reader \in [Readers -> ReaderRec] /\ Puts(Readers, w.reader, v.reader, r, q)
  BY <1>1 DEF Worlds, Puts
<1>3. v.actions \in [Sources -> Readers \union {0}] /\ Puts(Sources, w.actions, v.actions, s, r)
  BY <1>1 DEF Worlds, Puts
<1>4. v \in Worlds
  BY <1>1, <1>2, <1>3 DEF Worlds
<1> QED BY <1>1, <1>2, <1>3, <1>4

\* start() of a reader feeds it.
LEMMA NewReader ==
  ASSUME NEW w, Sound(w), AllFed(w), NEW s \in Sources, w.actions[s] = 0, NEW r \in FreeReaders(w),
         FreePollers(w) # {}, FreeActivities(w) # {},
         NEW q \in ReaderRec, q.live, q.src = s, q.period \in AllPeriods, q.event = 0,
         ModesAsked => Moded(w) /\ q.mode \in {"Change", "Polled", "Manual"}
                       /\ (q.mode = "Manual" <=> q.period = ManualPeriod),
         NEW v, v = StartReader(WithNewReader(w, s, r, q), r)
  PROVE  Sound(v) /\ AllFed(v) /\ (ModesAsked => Moded(v))
<1> DEFINE w1 == WithNewReader(w, s, r, q)
<1>1. w \in Worlds /\ r \in Readers
  BY DEF Sound, FreeReaders
<1>2. /\ w1 \in Worlds /\ w1.poller = w.poller /\ w1.pollerOf = w.pollerOf
      /\ w1.activity = w.activity /\ w1.inbox = w.inbox
  BY <1>1, WithNewReaderWorld
<1>3. Puts(Readers, w.reader, w1.reader, r, q)
  BY <1>1, WithNewReaderWorld
<1>4. Puts(Sources, w.actions, w1.actions, s, r)
  BY <1>1, WithNewReaderWorld
<1> HIDE DEF w1
<1>6. /\ Sound(w1) /\ Detached(w1, r)
      /\ \A u \in Readers \ {r} : Fed(w, u) => Fed(w1, u)
  <2>1. ModesAsked => AsAsked(w1)
    BY <1>2, SoundAskedSame
  <2> QED BY <1>2, <1>3, <1>4, <2>1, ReaderCreated
<1>7. w1.reader[r].event = 0
  BY <1>3 DEF Puts
<1>8. FreePollers(w1) # {} /\ FreeActivities(w1) # {}
  <2>1. \A u \in Readers : w1.reader[u].event \in {w.reader[u].event, 0}
    BY <1>3 DEF Puts
  <2>2. FreePollers(w) \subseteq FreePollers(w1)
    BY <1>2 DEF FreePollers
  <2>3. FreeActivities(w) \subseteq FreeActivities(w1)
    BY <1>2, <2>1 DEF FreeActivities, Linked, ReadActivities
  <2> QED BY <2>2, <2>3
<1>9. /\ Sound(v) /\ Fed(v, r) /\ \A u \in Readers \ {r} : Fed(w1, u) => Fed(v, u)
      /\ \/ EventFed(v, r) /\ Rewrites(w1, v, r, "Change", q.period) /\ q.mode = "Change"
         \/ v.reader = w1.reader /\ q.mode # "Change"
  <2>0. w1.reader[r] = q
    BY <1>3 DEF Puts
  <2>1. CASE w1.reader[r].mode = "Change"
    <3>1. v = StartEventActivity(w1, r)
      BY <2>1 DEF StartReader, w1
    <3>2. /\ Sound(v) /\ EventFed(v, r) /\ \A u \in Readers \ {r} : Fed(w1, u) => Fed(v, u)
          /\ Rewrites(w1, v, r, "Change", w1.reader[r].period)
      BY <1>1, <1>6, <1>8, <3>1, EventStarted
    <3> QED BY <2>0, <2>1, <3>2 DEF Fed
  <2>2. CASE w1.reader[r].mode # "Change"
    <3>1. v = RegisterToPoller(w1, r)
      BY <2>2 DEF StartReader, w1
    <3>2. /\ Sound(v) /\ PollFed(v, r) /\ \A u \in Readers \ {r} : Fed(w1, u) => Fed(v, u)
          /\ v.reader = w1.reader
      BY <1>1, <1>6, <1>7, <1>8, <3>1, RegisterToPollerJoins
    <3> QED BY <2>0, <2>2, <3>2 DEF Fed
  <2> QED BY <2>1, <2>2
<1>10. ASSUME ModesAsked PROVE Moded(v)
  <2>1. w1.reader[r] = q /\ \A u \in Readers \ {r} : w1.reader[u] = w.reader[u]
    BY <1>3 DEF Puts
  <2>2. \A u \in Readers \ {r} : v.reader[u] = w.reader[u]
    BY <1>9, <2>1 DEF Rewrites
  <2>3. InMode(v.reader[r])
    <3>1. CASE EventFed(v, r) /\ Rewrites(w1, v, r, "Change", q.period) /\ q.mode = "Change"
      BY <1>10, <3>1 DEF EventFed, Rewrites, InMode
    <3>2. CASE v.reader = w1.reader /\ q.mode # "Change"
      BY <1>10, <2>1, <3>2 DEF InMode, EventModes
    <3> QED BY <1>9, <3>1, <3>2
  <2>4. Moded(w)
    BY <1>10
  <2> QED BY <2>2, <2>3, <2>4, ModedAfter
<1> QED BY <1>1, <1>6, <1>9, <1>10 DEF AllFed
-----------------------------------------------------------------------------
(* Room for the subscriptions that fail                                    *)

Room(w) == /\ Cardinality(FreePollers(w)) >= Cardinality(Subscribed(w))
           /\ Cardinality(FreeActivities(w)) >= Cardinality(Subscribed(w))

\* Sets of numbers, and their sizes.
LEMMA Counted ==
  ASSUME NEW N \in Nat, NEW A \in SUBSET (1..N), NEW B \in SUBSET (1..N)
  PROVE  /\ Cardinality(A) \in Nat /\ Cardinality(B) \in Nat
         /\ A \subseteq B => Cardinality(A) <= Cardinality(B)
         /\ \A x : A \ {x} \subseteq B => Cardinality(A) <= Cardinality(B) + 1
         /\ \A x : A \subseteq B /\ x \in B \ A => Cardinality(A) + 1 <= Cardinality(B)
<1>1. IsFiniteSet(A) /\ IsFiniteSet(B)
  <2>1. IsFiniteSet(1..N)
    BY FS_Interval
  <2> QED BY <2>1, FS_Subset
<1>2. Cardinality(A) \in Nat /\ Cardinality(B) \in Nat
  BY <1>1, FS_CardinalityType
<1>3. A \subseteq B => Cardinality(A) <= Cardinality(B)
  BY <1>1, FS_Subset
<1>4. ASSUME NEW x, A \ {x} \subseteq B PROVE Cardinality(A) <= Cardinality(B) + 1
  <2>1. Cardinality(A \ {x}) <= Cardinality(B)
    BY <1>1, <1>4, FS_Subset
  <2>2. Cardinality(A \ {x}) = IF x \in A THEN Cardinality(A) - 1 ELSE Cardinality(A)
    BY <1>1, FS_RemoveElement
  <2> QED BY <1>2, <2>1, <2>2
<1>5. ASSUME NEW x, A \subseteq B, x \in B \ A PROVE Cardinality(A) + 1 <= Cardinality(B)
  <2>1. Cardinality(B \ {x}) = Cardinality(B) - 1
    BY <1>1, <1>5, FS_RemoveElement
  <2>2. IsFiniteSet(B \ {x}) /\ A \in SUBSET (B \ {x})
    BY <1>1, <1>5, FS_RemoveElement
  <2>3. Cardinality(A) <= Cardinality(B \ {x})
    BY <2>2, FS_Subset
  <2> QED BY <1>2, <2>1, <2>3
<1> QED BY <1>2, <1>3, <1>4, <1>5

\* The objects counted are finitely many.
LEMMA CountedObjects ==
  ASSUME NEW w
  PROVE  /\ FreePollers(w) \in SUBSET (1..MaxPollers) /\ MaxPollers \in Nat
         /\ FreeActivities(w) \in SUBSET (1..MaxReadActivities) /\ MaxReadActivities \in Nat
         /\ Subscribed(w) \in SUBSET (1..MaxReaders) /\ MaxReaders \in Nat
         /\ Cardinality(FreePollers(w)) \in Nat /\ Cardinality(FreeActivities(w)) \in Nat
         /\ Cardinality(Subscribed(w)) \in Nat
<1>1. /\ FreePollers(w) \in SUBSET (1..MaxPollers) /\ MaxPollers \in Nat
      /\ FreeActivities(w) \in SUBSET (1..MaxReadActivities) /\ MaxReadActivities \in Nat
      /\ Subscribed(w) \in SUBSET (1..MaxReaders) /\ MaxReaders \in Nat
  BY ReaderAssumption DEF FreePollers, FreeActivities, Subscribed, Pollers, ReadActivities, Readers
<1> QED BY <1>1, Counted

\* A call that takes no object leaves the room there was.
LEMMA RoomAfterGains ==
  ASSUME NEW w, NEW v, Gains(w, v), Room(w)
  PROVE  Room(v)
<1>1. Cardinality(FreePollers(w)) <= Cardinality(FreePollers(v))
  BY CountedObjects, Counted DEF Gains
<1>2. Cardinality(FreeActivities(w)) <= Cardinality(FreeActivities(v))
  BY CountedObjects, Counted DEF Gains
<1>3. Cardinality(Subscribed(v)) <= Cardinality(Subscribed(w))
  BY CountedObjects, Counted DEF Gains
<1> HIDE DEF Gains
<1> QED BY <1>1, <1>2, <1>3, CountedObjects DEF Room

\* A subscription that fails takes what was kept for it.
LEMMA RoomAfterTakes ==
  ASSUME NEW w, NEW v, Takes(w, v), NEW r, r \in Subscribed(w) \ Subscribed(v), Room(w)
  PROVE  Room(v)
<1>1. Cardinality(FreePollers(w)) <= Cardinality(FreePollers(v)) + 1
  BY CountedObjects, Counted DEF Takes
<1>2. Cardinality(FreeActivities(w)) <= Cardinality(FreeActivities(v)) + 1
  BY CountedObjects, Counted DEF Takes
<1>3. Cardinality(Subscribed(v)) + 1 <= Cardinality(Subscribed(w))
  BY CountedObjects, Counted DEF Takes
<1>4. /\ Cardinality(FreePollers(w)) \in Nat /\ Cardinality(FreeActivities(w)) \in Nat
      /\ Cardinality(FreePollers(v)) \in Nat /\ Cardinality(FreeActivities(v)) \in Nat
      /\ Cardinality(Subscribed(w)) \in Nat /\ Cardinality(Subscribed(v)) \in Nat
  BY CountedObjects
<1> QED BY <1>1, <1>2, <1>3, <1>4 DEF Room

\* A reader that subscribes has a poller and an activity to fall back on.
LEMMA RoomToFallBack ==
  ASSUME NEW w, Room(w), Subscribed(w) # {}
  PROVE  FreePollers(w) # {} /\ FreeActivities(w) # {}
<1>1. PICK r : r \in Subscribed(w)
  OBVIOUS
<1>2. Cardinality(Subscribed(w)) >= 1
  <2>1. {} \in SUBSET (1..MaxReaders) /\ r \in Subscribed(w) \ {} /\ {} \subseteq Subscribed(w)
    BY <1>1
  <2>2. Cardinality({}) + 1 <= Cardinality(Subscribed(w))
    BY <2>1, CountedObjects, Counted
  <2> QED BY <2>2, CountedObjects, FS_EmptySet
<1> QED BY <1>2, CountedObjects, FS_EmptySet DEF Room

-----------------------------------------------------------------------------
(* The threads of the devices, and what they tell                          *)

WorkRec == [kind : {"none", "event", "poll"}, dev : Devices \union {NoSource},
            subscribed : BOOLEAN, manual : BOOLEAN, atts : Seq(Sources)]
Result == [a : ReadActivities, what : {"ok", "error", "subscribe", "poll"},
           srcs : Seq(Sources \union {NoSource})]
DispRec == [poller : Pollers \union {0}, rest : Seq(Sources \union {NoSource}),
            lis : SUBSET DataListeners, at : DataListeners \union {NoListener}]
DispTyped == disp \in DispRec /\ (disp.rest # <<>> => disp.poller \in Pollers)
WorkTyped == work \in [ReadActivities -> WorkRec] /\ loopq \in Seq(Result) /\ DispTyped

RoomLeft == Room(World)
InModes == ModesAsked => Moded(World)
ReaderInv == Sound(World) /\ AllFed(World) /\ RoomLeft /\ WorkTyped /\ InModes

\* At first there is no reader.
LEMMA InitReaderInv == InitReader => ReaderInv
<1> SUFFICES ASSUME InitReader PROVE ReaderInv
  OBVIOUS
<1>1. World \in Worlds
  <2>1. NoReader \in ReaderRec
    BY DEF NoReader, ReaderRec, NoPeriod
  <2>2. NoPoller \in PollerRec
    BY DEF NoPoller, PollerRec, NoPeriod
  <2>3. NoActivity \in ActivityRec
    BY DEF NoActivity, ActivityRec, NoPeriod
  <2> QED BY <2>1, <2>2, <2>3 DEF InitReader, World, Worlds
<1>2. /\ \A r \in Readers : ~World.reader[r].live /\ World.reader[r].event = 0
      /\ \A s \in Sources : World.actions[s] = 0
      /\ \A k \in Pollers : ~World.poller[k].live
      /\ \A p \in AllPeriods \union {NoPeriod} : World.pollerOf[p] = 0
      /\ \A x \in ReadActivities : World.activity[x] = NoActivity /\ World.activity[x].kind = "none"
  BY WorldFields DEF InitReader, NoReader, NoPoller, NoActivity
<1>3. Sound(World)
  <2>1. ReadersFound(World)
    BY <1>2 DEF ReadersFound
  <2>2. PollersFound(World)
    BY <1>2, SMTT(30) DEF PollersFound
  <2>3. PolledReaders(World)
    BY <1>2 DEF PolledReaders
  <2>4. PairsKept(World)
    BY <1>2 DEF PairsKept
  <2>5. ActivitiesOwned(World)
    BY <1>2 DEF ActivitiesOwned
  <2>6. AsAsked(World)
    BY <1>2 DEF AsAsked
  <2> QED BY <1>1, <2>1, <2>2, <2>3, <2>4, <2>5, <2>6 DEF Sound
<1>4. AllFed(World)
  BY <1>2 DEF AllFed, Fed
<1>5. RoomLeft
  <2>1. Subscribed(World) = {}
    BY <1>2 DEF Subscribed
  <2> QED BY <2>1, CountedObjects, FS_EmptySet DEF RoomLeft, Room
<1>6. WorkTyped
  <2>1. NoWork \in WorkRec
    BY DEF NoWork, WorkRec
  <2>2. Idle \in DispRec /\ Idle.rest = <<>>
    BY DEF Idle, DispRec
  <2> QED BY <2>1, <2>2 DEF InitReader, WorkTyped, DispTyped
<1>7. InModes
  BY <1>2 DEF InModes, Moded
<1> QED BY <1>3, <1>4, <1>5, <1>6, <1>7 DEF ReaderInv
\* The threads read what they did.
LEMMA AskedUnchanged ==
  ASSUME NEW v, World' = v, UNCHANGED work
  PROVE  AsAsked(v) => AsAsked(World)'
<1>1. ASSUME NEW x \in ReadActivities, AskedOf(v, x) PROVE AskedOf(World, x)'
  <2>1. ReadBy(World, x)' = ReadBy(v, x)
    BY Zenon DEF ReadBy
  <2>2. Asked(World, x)' = Asked(v, x)
    BY Zenon DEF Asked
  <2>3. InOrder(World, x)'
    BY <1>1, Zenon DEF AskedOf, InOrder
  <2> QED BY <1>1, <2>1, <2>2, <2>3, Zenon DEF AskedOf
<1> QED BY <1>1, Zenon DEF AsAsked

-----------------------------------------------------------------------------
(* Every step                                                              *)

\* A step after which the main thread's objects are v.
LEMMA StepTo ==
  ASSUME NEW v, World' = v, Sound(v), AllFed(v), Room(v), ModesAsked => Moded(v), WorkTyped',
         UNCHANGED work,
         \A k \in FreePollers(v) : disp'.poller # k \/ disp'.rest = <<>>,
         \A x \in FreeActivities(v) : /\ work'[x] = NoWork
                                      /\ \A i \in DOMAIN loopq' : loopq'[i].a # x
  PROVE  ReaderInv'
<1>1. FreePollers(v) \subseteq FreePollers(World)'
  BY DEF FreePollers
<1>2. FreeActivities(v) \subseteq FreeActivities(World)'
  BY DEF FreeActivities, Linked
<1>3. Subscribed(World)' = Subscribed(v)
  BY DEF Subscribed, Linked
<1>4. /\ FreePollers(World)' \in SUBSET (1..MaxPollers)
      /\ FreeActivities(World)' \in SUBSET (1..MaxReadActivities)
  BY DEF FreePollers, FreeActivities, Pollers, ReadActivities
<1>5. /\ Cardinality(FreePollers(v)) <= Cardinality(FreePollers(World)')
      /\ Cardinality(FreeActivities(v)) <= Cardinality(FreeActivities(World)')
      /\ Cardinality(FreePollers(World)') \in Nat /\ Cardinality(FreeActivities(World)') \in Nat
  BY <1>1, <1>2, <1>4, CountedObjects, Counted
<1>6. RoomLeft'
  BY <1>3, <1>5, CountedObjects DEF RoomLeft, Room
<1>7. AllFed(World)' /\ (ModesAsked => Moded(World))'
  OBVIOUS
<1>8. Sound(World)'
  <2>1. AsAsked(v) => AsAsked(World)'
    BY AskedUnchanged
  <2> QED BY <2>1 DEF Sound
<1> QED BY <1>6, <1>7, <1>8 DEF ReaderInv, InModes

\* The client's steps: v is what Becomes names.
LEMMA ClientStepTo ==
  ASSUME ReaderInv, NEW v, Becomes(v), UNCHANGED <<work, loopq, disp>>, v \in Worlds,
         Sound(v), AllFed(v), Room(v), ModesAsked => Moded(v)
  PROVE  ReaderInv'
<1>1. World' = v
  <2>1. v = [reader |-> v.reader, actions |-> v.actions, poller |-> v.poller,
             pollerOf |-> v.pollerOf, activity |-> v.activity, inbox |-> v.inbox]
    BY DEF Worlds
  <2> QED BY <2>1 DEF Becomes, World
<1>2. WorkTyped'
  BY DEF ReaderInv, WorkTyped, DispTyped
<1>3. \A k \in FreePollers(v) : disp'.poller # k \/ disp'.rest = <<>>
  BY DEF FreePollers
<1>4. \A x \in FreeActivities(v) : /\ work'[x] = NoWork
                                   /\ \A i \in DOMAIN loopq' : loopq'[i].a # x
  BY DEF FreeActivities
<1> QED BY <1>1, <1>2, <1>3, <1>4, StepTo

\* A step that checks for room keeps it.
LEMMA WithRoom ==
  ASSUME NEW v, BecomesWithRoom(v)
  PROVE  Becomes(v) /\ Room(v)
BY DEF BecomesWithRoom, Room, Subscribed

\* CumbiaTango::addAction
LEMMA AddActionKeeps ==
  ASSUME ReaderInv, NEW s \in Sources, NEW l \in DataListeners, AddAction(s, l)
  PROVE  ReaderInv'
<1> DEFINE r == actions[s]
           new == First(FreeReaders(World))
<1>1. /\ Sound(World) /\ AllFed(World) /\ Room(World) /\ World \in Worlds
      /\ FreePollers(World) # {} /\ FreeActivities(World) # {}
      /\ UNCHANGED <<work, loopq, disp>> /\ (ModesAsked => Moded(World))
  BY Zenon DEF ReaderInv, RoomLeft, AddAction, RoomFor, Sound, InModes
<1>2. CASE r # 0 /\ Becomes([World EXCEPT !.reader[r].listeners = @ \union {l}])
  <2> DEFINE q == [reader[r] EXCEPT !.listeners = @ \union {l}]
             v == WithReader(World, r, q)
  <2>1. r \in Readers /\ InUse(World, r) /\ reader[r] \in ReaderRec
    BY <1>1, <1>2, WorldFields DEF Worlds, Sound, ReadersFound, InUse
  <2>2. [World EXCEPT !.reader[r].listeners = @ \union {l}] = v
    BY <1>1, <2>1, WorldFields DEF Worlds, ReaderRec, WithReader
  <2>3. /\ q \in ReaderRec /\ q.live = World.reader[r].live /\ q.src = World.reader[r].src
        /\ q.mode = World.reader[r].mode /\ q.period = World.reader[r].period
        /\ q.event = World.reader[r].event
    BY <2>1, WorldFields DEF ReaderRec
  <2> HIDE DEF q, r
  <2>4. Sound(v) /\ AllFed(v) /\ Gains(World, v) /\ (ModesAsked => Moded(v))
    BY <1>1, <2>1, <2>3, ListenersChanged
  <2>5. v \in Worlds /\ Room(v)
    BY <1>1, <2>4, RoomAfterGains DEF Sound
  <2>6. Becomes(v)
    BY <1>2, <2>2
  <2> QED BY <1>1, <2>4, <2>5, <2>6, ClientStepTo
<1>3. ASSUME r = 0, FreeReaders(World) # {}, NEW rm \in Modes, NEW p \in PollPeriods,
             BecomesWithRoom(StartReader([World EXCEPT !.actions[s] = new,
                  !.reader[new] = [live |-> TRUE, src |-> s, listeners |-> {l}, mode |-> rm,
                                   period |-> IF rm = "Manual" THEN ManualPeriod ELSE p,
                                   event |-> 0]], new))
      PROVE  ReaderInv'
  <2> DEFINE q == [live |-> TRUE, src |-> s, listeners |-> {l}, mode |-> rm,
                   period |-> IF rm = "Manual" THEN ManualPeriod ELSE p, event |-> 0]
             v == StartReader(WithNewReader(World, s, new, q), new)
  <2>1. BecomesWithRoom(v)
    BY <1>3 DEF WithNewReader
  <2>2. new \in FreeReaders(World)
    <3>1. FreeReaders(World) \in SUBSET Nat
      BY DEF FreeReaders, Readers
    <3> QED BY <1>3, <3>1, LeastExists
  <2>3. /\ q \in ReaderRec /\ q.live /\ q.src = s /\ q.period \in AllPeriods /\ q.event = 0
        /\ q.mode = rm
    BY ReaderAssumption DEF ReaderRec, AllPeriods
  <2>m. ModesAsked => Moded(World) /\ q.mode \in {"Change", "Polled", "Manual"}
                      /\ (q.mode = "Manual" <=> q.period = ManualPeriod)
    BY <1>1, ReaderAssumption DEF ModesAsked, ManualPeriod
  <2>4. World.actions[s] = 0
    BY <1>3, WorldFields
  <2> HIDE DEF q, new
  <2>5. Sound(v) /\ AllFed(v) /\ (ModesAsked => Moded(v))
    BY <1>1, <2>2, <2>3, <2>m, <2>4, NewReader
  <2> HIDE DEF v
  <2>6. Becomes(v) /\ Room(v) /\ v \in Worlds
    BY <2>1, <2>5, WithRoom DEF Sound
  <2> QED BY <1>1, <2>5, <2>6, ClientStepTo
<1> QED BY <1>2, <1>3, Zenon DEF AddAction
\* CumbiaTango::unlinkListener
LEMMA UnlinkListenerKeeps ==
  ASSUME ReaderInv, NEW s \in Sources, NEW l \in DataListeners, UnlinkListener(s, l)
  PROVE  ReaderInv'
<1> DEFINE r == actions[s]
           q == [reader[r] EXCEPT !.listeners = @ \ {l}]
           w == WithReader(World, r, q)
           v == IF w.reader[r].listeners = {} THEN StopReader(w, r) ELSE w
<1>1. /\ Sound(World) /\ AllFed(World) /\ Room(World) /\ World \in Worlds
      /\ UNCHANGED <<work, loopq, disp>> /\ r # 0 /\ (ModesAsked => Moded(World))
  BY DEF ReaderInv, RoomLeft, UnlinkListener, Sound, InModes
<1>2. r \in Readers /\ InUse(World, r) /\ reader[r] \in ReaderRec
  BY <1>1, WorldFields, SMTT(30) DEF Worlds, Sound, ReadersFound, InUse
<1>3. Becomes(v)
  <2>1. [World EXCEPT !.reader[r].listeners = @ \ {l}] = w
    BY <1>1, <1>2, WorldFields DEF Worlds, ReaderRec, WithReader
  <2> QED BY <2>1 DEF UnlinkListener
<1>4. /\ q \in ReaderRec /\ q.live = World.reader[r].live /\ q.src = World.reader[r].src
      /\ q.mode = World.reader[r].mode /\ q.period = World.reader[r].period
      /\ q.event = World.reader[r].event
  BY <1>2, WorldFields DEF ReaderRec
<1> HIDE DEF q, r
<1>5. Sound(w) /\ AllFed(w) /\ Gains(World, w) /\ w.reader[r] = q /\ (ModesAsked => Moded(w))
  BY <1>1, <1>2, <1>4, ListenersChanged
<1> HIDE DEF w
<1>6. Sound(v) /\ AllFed(v) /\ Gains(World, v) /\ (ModesAsked => Moded(v))
  <2>1. CASE w.reader[r].listeners = {}
    <3>1. v = StopReader(w, r)
      BY <2>1
    <3>2. w.reader[r].live
      BY <1>2, <1>4, <1>5 DEF InUse
    <3> HIDE DEF v
    <3>3. Sound(v) /\ AllFed(v) /\ Gains(w, v) /\ (Moded(w) => Moded(v))
      BY <1>2, <1>5, <3>1, <3>2, StoppedReader
    <3> QED BY <1>5, <3>3, GainsTrans
  <2>2. CASE w.reader[r].listeners # {}
    BY <1>5, <2>2
  <2> QED BY <2>1, <2>2
<1> HIDE DEF v
<1>7. v \in Worlds /\ Room(v)
  BY <1>1, <1>6, RoomAfterGains DEF Sound
<1> QED BY <1>1, <1>3, <1>6, <1>7, ClientStepTo

\* CuTReader::sendData
LEMMA SendDataKeeps ==
  ASSUME NoneLeavesEvents, ReaderInv, NEW s \in Sources, SendData(s)
  PROVE  ReaderInv'
<1> DEFINE r == actions[s]
<1>1. /\ Sound(World) /\ AllFed(World) /\ Room(World) /\ World \in Worlds
      /\ FreePollers(World) # {} /\ FreeActivities(World) # {}
      /\ UNCHANGED <<work, loopq, disp>> /\ r # 0 /\ (ModesAsked => Moded(World))
  BY DEF ReaderInv, RoomLeft, SendData, RoomFor, Sound, InModes
<1>2. r \in Readers /\ World.reader[r].live
  BY <1>1, WorldFields DEF Worlds, Sound, ReadersFound
<1>3. ASSUME NEW v, Sound(v), AllFed(v), ModesAsked => Moded(v), BecomesWithRoom(v)
      PROVE  ReaderInv'
  <2>1. Becomes(v) /\ Room(v) /\ v \in Worlds
    BY <1>3, WithRoom DEF Sound
  <2> QED BY <1>1, <1>3, <2>1, ClientStepTo
<1>4. ASSUME NEW sw \in Switches, NEW p \in sw[3], sw[1] = reader[r].mode,
             BecomesWithRoom(SetRefreshMode(World, r, sw[2], p))
      PROVE  ReaderInv'
  <2> DEFINE v == SetRefreshMode(World, r, sw[2], p)
  <2>1. sw[1] = World.reader[r].mode
    BY <1>4, WorldFields
  <2> HIDE DEF r
  <2>2. Sound(v) /\ AllFed(v) /\ (ModesAsked => Moded(v))
    BY <1>1, <1>2, <2>1, ModeChanged
  <2> QED BY <1>3, <1>4, <2>2
<1>5. ASSUME NEW p \in PollPeriods, reader[r].mode = "Polled",
             BecomesWithRoom(ChangePeriod(GetPoller(World, reader[r].period), r, p))
      PROVE  ReaderInv'
  <2> DEFINE v == ChangePeriod(GetPoller(World, World.reader[r].period), r, p)
  <2>1. World.reader[r].mode = "Polled" /\ BecomesWithRoom(v)
    BY <1>5, WorldFields
  <2> HIDE DEF r
  <2>2. Sound(v) /\ AllFed(v) /\ (ModesAsked => Moded(v))
    BY <1>1, <1>2, <2>1, PeriodChanged
  <2> QED BY <1>3, <2>1, <2>2
<1>6. ASSUME Becomes(PostRead(World, r))
      PROVE  ReaderInv'
  <2> DEFINE v == PostRead(World, r)
  <2> HIDE DEF r
  <2>1. Sound(v) /\ AllFed(v) /\ Gains(World, v) /\ v.reader = World.reader
    BY <1>1, <1>2, ReadPosted
  <2>2. Room(v) /\ v \in Worlds
    BY <1>1, <2>1, RoomAfterGains DEF Sound
  <2>3. ModesAsked => Moded(v)
    BY <1>1, <2>1 DEF Moded
  <2> QED BY <1>1, <1>6, <2>1, <2>2, <2>3, ClientStepTo
<1> QED BY <1>4, <1>5, <1>6 DEF SendData

-----------------------------------------------------------------------------
(* The loop                                                                *)

\* The steps that leave the main thread's objects and the results alone, and
\* no poller becomes busy.
LEMMA Unmoved ==
  ASSUME ReaderInv, UNCHANGED <<mainVars, inbox, work>>, loopq' \in Seq(Result), DispTyped',
         \A i \in DOMAIN loopq' : \E j \in DOMAIN loopq : loopq'[i].a = loopq[j].a,
         \A k \in FreePollers(World) : disp'.poller # k \/ disp'.rest = <<>>
  PROVE  ReaderInv'
<1>1. World' = World
  BY DEF World, mainVars
<1>2. /\ Sound(World) /\ AllFed(World) /\ Room(World) /\ WorkTyped'
      /\ (ModesAsked => Moded(World))
  BY DEF ReaderInv, RoomLeft, WorkTyped, InModes
<1>3. \A x \in FreeActivities(World) : /\ work'[x] = NoWork
                                       /\ \A i \in DOMAIN loopq' : loopq'[i].a # x
  BY DEF FreeActivities
<1> QED BY <1>1, <1>2, <1>3, StepTo

\* The queue of results without its first.
LEMMA TailOfResults ==
  ASSUME ReaderInv, loopq # <<>>
  PROVE  /\ Tail(loopq) \in Seq(Result) /\ Head(loopq) \in Result
         /\ \A i \in DOMAIN Tail(loopq) : \E j \in DOMAIN loopq : Tail(loopq)[i].a = loopq[j].a
<1>1. loopq \in Seq(Result)
  BY DEF ReaderInv, WorkTyped
<1>2. /\ Head(loopq) \in Result /\ Tail(loopq) \in Seq(Result) /\ Len(Tail(loopq)) = Len(loopq) - 1
      /\ \A i \in 1..Len(Tail(loopq)) : Tail(loopq)[i] = loopq[i + 1]
  BY <1>1, HeadTailProperties
<1>3. DOMAIN Tail(loopq) = 1..Len(Tail(loopq)) /\ DOMAIN loopq = 1..Len(loopq) /\ Len(loopq) \in Nat
  BY <1>1, <1>2
<1>4. ASSUME NEW i \in DOMAIN Tail(loopq)
      PROVE  \E j \in DOMAIN loopq : Tail(loopq)[i].a = loopq[j].a
  <2>1. i + 1 \in DOMAIN loopq /\ Tail(loopq)[i] = loopq[i + 1]
    BY <1>2, <1>3
  <2> QED BY <2>1
<1> QED BY <1>2, <1>4
\* CuTReader::onResult: a failure makes its reader fall back on a poller.
LEMMA DispatchEventResultKeeps == ReaderInv /\ DispatchEventResult => ReaderInv'
<1> SUFFICES ASSUME ReaderInv, DispatchEventResult PROVE ReaderInv'
  OBVIOUS
<1> DEFINE x == Head(loopq).a
           r == activity[x].owner
           v == IF Head(loopq).what = "ok" THEN World ELSE PollingFallback(World, r)
<1>1. /\ Sound(World) /\ AllFed(World) /\ Room(World) /\ World \in Worlds /\ WorkTyped
      /\ (ModesAsked => Moded(World))
  BY DEF ReaderInv, RoomLeft, Sound, InModes
<1>2. /\ loopq # <<>> /\ activity[x].kind = "event" /\ Becomes(v)
      /\ disp' = [Idle EXCEPT !.lis = IF Head(loopq).what = "subscribe" THEN {} ELSE reader[r].listeners]
      /\ loopq' = Tail(loopq) /\ UNCHANGED work
  BY DEF DispatchEventResult
<1>3. /\ Tail(loopq) \in Seq(Result) /\ x \in ReadActivities
      /\ \A i \in DOMAIN Tail(loopq) : \E j \in DOMAIN loopq : Tail(loopq)[i].a = loopq[j].a
  BY <1>2, TailOfResults DEF Result
<1> HIDE DEF x
<1>4. r \in Readers /\ World.reader[r].live /\ World.reader[r].event = x /\ x # 0
  BY <1>1, <1>2, <1>3, WorldFields DEF Sound, ActivitiesOwned, ReadActivities
<1>5. EventFed(World, r)
  <2> HIDE DEF r
  <2> QED BY <1>1, <1>4, FedWays DEF AllFed
<1>6. r \in Subscribed(World)
  <2>1. activity[x] # NoActivity
    BY <1>2 DEF NoActivity
  <2> QED BY <1>4, <2>1, WorldFields DEF Subscribed, Linked
<1>7. Sound(v) /\ AllFed(v) /\ Room(v) /\ (ModesAsked => Moded(v))
  <2>1. CASE Head(loopq).what = "ok"
    BY <1>1, <2>1
  <2>2. CASE Head(loopq).what # "ok"
    <3>1. v = PollingFallback(World, r)
      BY <2>2
    <3>2. FreePollers(World) # {} /\ FreeActivities(World) # {}
      BY <1>1, <1>6, RoomToFallBack
    <3> HIDE DEF v, r
    <3>3. /\ Sound(v) /\ Fed(v, r)
          /\ \A u \in Readers \ {r} : Fed(World, u) => Fed(v, u)
          /\ Takes(World, v) /\ r \in Subscribed(World) \ Subscribed(v)
          /\ Moded(World) => Moded(v)
      BY <1>1, <1>4, <1>5, <3>1, <3>2, FallbackPolls
    <3>4. Room(v)
      BY <1>1, <3>3, RoomAfterTakes
    <3> QED BY <1>1, <3>3, <3>4 DEF AllFed
  <2> QED BY <2>1, <2>2
<1> HIDE DEF v
<1>8. World' = v
  <2>1. v \in Worlds
    BY <1>7 DEF Sound
  <2>2. v = [reader |-> v.reader, actions |-> v.actions, poller |-> v.poller,
             pollerOf |-> v.pollerOf, activity |-> v.activity, inbox |-> v.inbox]
    BY <2>1 DEF Worlds
  <2> QED BY <1>2, <2>2 DEF Becomes, World
<1>9. disp' \in DispRec /\ disp'.rest = <<>>
  <2>1. reader[r].listeners \in SUBSET DataListeners
    BY <1>1, <1>4, WorldFields DEF Worlds, ReaderRec
  <2> DEFINE L == IF Head(loopq).what = "subscribe" THEN {} ELSE reader[r].listeners
  <2>2. L \in SUBSET DataListeners /\ disp' = [Idle EXCEPT !.lis = L]
    BY <1>2, <2>1
  <2> HIDE DEF L
  <2>3. Idle \in DispRec /\ Idle.rest = <<>>
    BY DEF Idle, DispRec
  <2>4. disp' \in DispRec /\ disp'.rest = Idle.rest
    BY <2>2, <2>3 DEF DispRec
  <2> QED BY <2>3, <2>4
<1>10. WorkTyped'
  BY <1>1, <1>2, <1>3, <1>9 DEF WorkTyped, DispTyped
<1>11. \A y \in FreeActivities(v) : /\ work'[y] = NoWork
                                    /\ \A i \in DOMAIN loopq' : loopq'[i].a # y
  BY <1>2, <1>3 DEF FreeActivities
<1> QED BY <1>2, <1>7, <1>8, <1>9, <1>10, <1>11, StepTo

\* onProgress of the poller: it begins to tell the readers a copy of the results.
LEMMA DispatchPollResultKeeps == ReaderInv /\ DispatchPollResult => ReaderInv'
<1> SUFFICES ASSUME ReaderInv, DispatchPollResult PROVE ReaderInv'
  OBVIOUS
<1> DEFINE x == Head(loopq).a
           k == activity[x].owner
<1>1. /\ loopq # <<>> /\ activity[x].kind = "poll"
      /\ disp' = [Idle EXCEPT !.poller = k, !.rest = Head(loopq).srcs]
      /\ loopq' = Tail(loopq) /\ UNCHANGED <<mainVars, work, inbox>>
  BY DEF DispatchPollResult
<1>2. /\ Tail(loopq) \in Seq(Result) /\ x \in ReadActivities
      /\ Head(loopq).srcs \in Seq(Sources \union {NoSource})
      /\ \A i \in DOMAIN Tail(loopq) : \E j \in DOMAIN loopq : Tail(loopq)[i].a = loopq[j].a
  BY <1>1, TailOfResults DEF Result
<1>3. k \in Pollers /\ World.poller[k].live
  BY <1>1, <1>2, WorldFields DEF ReaderInv, Sound, ActivitiesOwned
<1> HIDE DEF x, k
<1>4. disp' \in DispRec /\ disp'.poller = k
  BY <1>1, <1>2, <1>3 DEF Idle, DispRec
<1>5. DispTyped'
  BY <1>3, <1>4 DEF DispTyped
<1>6. \A j \in FreePollers(World) : disp'.poller # j \/ disp'.rest = <<>>
  BY <1>3, <1>4 DEF FreePollers
<1> QED BY <1>1, <1>2, <1>5, <1>6, Unmoved

\* The loop over the results of a poller, whose callbacks may do what a client may.
LEMMA PollerLoopKeeps == ReaderInv /\ PollerLoop => ReaderInv'
<1> SUFFICES ASSUME ReaderInv, PollerLoop PROVE ReaderInv'
  OBVIOUS
<1> DEFINE s == Head(disp.rest)
           r == IF s = NoSource THEN 0 ELSE poller[disp.poller].actions_map[s]
<1>1. /\ disp.rest # <<>> /\ UNCHANGED <<mainVars, work, inbox, loopq>>
      /\ disp' = [disp EXCEPT !.rest = Tail(@), !.at = NoListener,
                              !.lis = IF r = 0 THEN {} ELSE reader[r].listeners]
  BY DEF PollerLoop
<1>2. /\ disp \in DispRec /\ disp.poller \in Pollers /\ disp.rest \in Seq(Sources \union {NoSource})
      /\ World \in Worlds /\ loopq \in Seq(Result)
  BY <1>1 DEF ReaderInv, WorkTyped, DispTyped, DispRec, Sound
<1>3. Tail(disp.rest) \in Seq(Sources \union {NoSource}) /\ s \in Sources \union {NoSource}
  BY <1>1, <1>2, HeadTailProperties
<1>4. r \in Readers \union {0}
  <2>1. poller[disp.poller] \in PollerRec
    BY <1>2, WorldFields DEF Worlds
  <2> HIDE DEF s
  <2> QED BY <1>3, <2>1 DEF PollerRec
<1> HIDE DEF r, s
<1>5. (IF r = 0 THEN {} ELSE reader[r].listeners) \in SUBSET DataListeners
  BY <1>2, <1>4, WorldFields DEF Worlds, ReaderRec
<1>6. disp' \in DispRec /\ disp'.poller = disp.poller
  BY <1>1, <1>2, <1>3, <1>5 DEF DispRec
<1>7. DispTyped'
  BY <1>2, <1>6 DEF DispTyped
<1>8. \A k \in FreePollers(World) : disp'.poller # k \/ disp'.rest = <<>>
  BY <1>1, <1>6 DEF FreePollers
<1> QED BY <1>1, <1>2, <1>7, <1>8, Unmoved

\* What the main thread receives: results, errors, subscriptions that failed.
LEMMA LoopStepKeeps == ReaderInv /\ LoopStep => ReaderInv'
<1> SUFFICES ASSUME ReaderInv, LoopStep PROVE ReaderInv'
  OBVIOUS
<1>1. DispTyped /\ loopq \in Seq(Result) /\ \A k \in FreePollers(World) : disp.poller # k \/ disp.rest = <<>>
  BY DEF ReaderInv, WorkTyped, FreePollers
<1>2. CASE DropResult
  <2>1. loopq # <<>> /\ loopq' = Tail(loopq) /\ UNCHANGED <<mainVars, work, inbox, disp>>
    BY <1>2 DEF DropResult
  <2>2. /\ loopq' \in Seq(Result)
        /\ \A i \in DOMAIN loopq' : \E j \in DOMAIN loopq : loopq'[i].a = loopq[j].a
    BY <2>1, TailOfResults
  <2>3. DispTyped'
    BY <1>1, <2>1 DEF DispTyped
  <2> QED BY <1>1, <2>1, <2>2, <2>3, Unmoved
<1>3. CASE LoopOverDeleted \/ EndDispatch
  <2>1. disp' = Idle /\ UNCHANGED <<mainVars, work, inbox, loopq>>
    BY <1>3 DEF LoopOverDeleted, EndDispatch
  <2>2. Idle \in DispRec /\ Idle.rest = <<>>
    BY DEF Idle, DispRec
  <2>3. DispTyped'
    BY <2>1, <2>2 DEF DispTyped
  <2> QED BY <1>1, <2>1, <2>2, <2>3, Unmoved
<1>4. CASE CallListener
  <2>1. PICK l \in disp.lis : disp' = [disp EXCEPT !.lis = @ \ {l}, !.at = l]
    BY <1>4, Zenon DEF CallListener
  <2>2. UNCHANGED <<mainVars, work, inbox, loopq>>
    BY <1>4 DEF CallListener
  <2>3. disp' \in DispRec /\ disp'.poller = disp.poller /\ disp'.rest = disp.rest
    BY <1>1, <2>1 DEF DispTyped, DispRec
  <2>4. DispTyped'
    BY <1>1, <2>3 DEF DispTyped
  <2> QED BY <1>1, <2>2, <2>3, <2>4, Unmoved
<1> QED BY <1>2, <1>3, <1>4, DispatchEventResultKeeps, DispatchPollResultKeeps, PollerLoopKeeps
        DEF LoopStep
-----------------------------------------------------------------------------
(* The threads                                                             *)

\* A step of a thread takes from its queue and tells of an activity in use.
LEMMA ThreadStepTo ==
  ASSUME ReaderInv, UNCHANGED <<mainVars, disp>>, World' \in Worlds,
         work' \in [ReadActivities -> WorkRec], loopq' \in Seq(Result),
         FreeActivities(World) \subseteq FreeActivities(World)',
         (ModesAsked => AsAsked(World))'
  PROVE  ReaderInv'
<1>1. /\ World'.reader = World.reader /\ World'.actions = World.actions
      /\ World'.poller = World.poller /\ World'.pollerOf = World.pollerOf
      /\ World'.activity = World.activity
  BY DEF World, mainVars
<1>2. /\ ReadersFound(World') /\ PollersFound(World') /\ PolledReaders(World')
      /\ PairsKept(World') /\ ActivitiesOwned(World')
      /\ \A r \in Readers : (Fed(World, r) <=> Fed(World', r))
                            /\ (Detached(World, r) <=> Detached(World', r))
  BY <1>1, OnlyInbox DEF ReaderInv
<1>3. AllFed(World')
  BY <1>2 DEF ReaderInv, AllFed
<1>4. FreePollers(World)' = FreePollers(World) /\ Subscribed(World)' = Subscribed(World)
  BY <1>1 DEF FreePollers, Subscribed, Linked
<1>5. FreeActivities(World)' \in SUBSET (1..MaxReadActivities)
  BY DEF FreeActivities, ReadActivities
<1>6. /\ Cardinality(FreeActivities(World)) <= Cardinality(FreeActivities(World)')
      /\ Cardinality(FreeActivities(World)') \in Nat
  BY <1>5, CountedObjects, Counted
<1>7. RoomLeft'
  <2>1. RoomLeft
    BY DEF ReaderInv
  <2> QED BY <1>4, <1>6, <2>1, CountedObjects DEF RoomLeft, Room
<1>8. WorkTyped'
  BY DEF ReaderInv, WorkTyped, DispTyped
<1>9. Sound(World)'
  BY <1>2 DEF Sound
<1>10. InModes'
  BY <1>1 DEF ReaderInv, InModes, Moded
<1> QED BY <1>3, <1>7, <1>8, <1>9, <1>10 DEF ReaderInv

\* The results that come with p after those of q are of x.
OnlyFrom(q, p, x) ==
  \A y : y # x /\ (\A i \in DOMAIN q : q[i].a # y) => \A i \in DOMAIN p : p[i].a # y

\* publishProgress adds a result of the activity that publishes it.
LEMMA Published ==
  ASSUME NEW q \in Seq(Result), NEW x \in ReadActivities,
         NEW what \in {"ok", "error", "subscribe", "poll"}, NEW srcs \in Seq(Sources \union {NoSource}),
         NEW p, p = Publish(q, x, what, srcs)
  PROVE  p \in Seq(Result) /\ OnlyFrom(q, p, x)
<1> DEFINE e == [a |-> x, what |-> what, srcs |-> srcs]
<1>1. e \in Result /\ e.a = x
  BY DEF Result
<1>2. p = Append(q, e)
  BY DEF Publish
<1> HIDE DEF e
<1>3. /\ p \in Seq(Result) /\ Len(p) = Len(q) + 1 /\ Len(q) \in Nat
      /\ \A i \in 1..Len(q) : p[i] = q[i]
      /\ p[Len(q) + 1] = e
  BY <1>1, <1>2, AppendProperties
<1>4. DOMAIN p = 1..(Len(q) + 1) /\ DOMAIN q = 1..Len(q)
  BY <1>3
<1>5. ASSUME NEW y, y # x, \A i \in DOMAIN q : q[i].a # y, NEW i \in DOMAIN p
      PROVE  p[i].a # y
  <2>1. CASE i \in 1..Len(q)
    BY <1>3, <1>4, <1>5, <2>1
  <2>2. CASE i = Len(q) + 1
    BY <1>1, <1>3, <1>5, <2>2
  <2> QED BY <1>3, <1>4, <2>1, <2>2
<1> QED BY <1>3, <1>5 DEF OnlyFrom

\* execute() publishes results of its own activity only.
LEMMA Executed ==
  ASSUME WorkTyped, NEW x \in ReadActivities, Execute(x)
  PROVE  loopq' \in Seq(Result) /\ OnlyFrom(loopq, loopq', x)
<1>1. PICK failed \in BOOLEAN :
        loopq' = Publish(loopq, x, "poll", IF failed THEN Append(work[x].atts, NoSource)
                                           ELSE work[x].atts)
  BY DEF Execute
<1>2. work[x].atts \in Seq(Sources \union {NoSource}) /\ loopq \in Seq(Result)
  <2>1. work[x].atts \in Seq(Sources)
    BY DEF WorkTyped, WorkRec
  <2> QED BY <2>1 DEF WorkTyped
<1> DEFINE srcs == IF failed THEN Append(work[x].atts, NoSource) ELSE work[x].atts
<1>3. srcs \in Seq(Sources \union {NoSource})
  BY <1>2, AppendProperties
<1>4. loopq' = Publish(loopq, x, "poll", srcs)
  BY <1>1
<1> HIDE DEF srcs
<1> QED BY <1>2, <1>3, <1>4, Published

\* A message is handled: what it changes is of its activity only.
LEMMA MessageHandled ==
  ASSUME WorkTyped, World \in Worlds, NEW dev \in Devices, Handle(dev),
         NEW x, x = Head(inbox[dev]).a
  PROVE  /\ x \in ReadActivities /\ work' \in [ReadActivities -> WorkRec]
         /\ \A y \in ReadActivities \ {x} : work'[y] = work[y]
         /\ loopq' \in Seq(Result) /\ OnlyFrom(loopq, loopq', x)
<1> DEFINE e == Head(inbox[dev])
<1>1. /\ e \in Message /\ e.a = x /\ x \in ReadActivities
  <2>1. inbox[dev] \in Seq(Message) /\ inbox[dev] # <<>>
    BY WorldFields DEF Worlds, Handle
  <2>2. e \in Message
    BY <2>1, HeadTailProperties
  <2> QED BY <2>2, SMTT(30) DEF Message
<1>2. /\ work \in [ReadActivities -> WorkRec] /\ loopq \in Seq(Result)
      /\ OnlyFrom(loopq, loopq, x)
  BY DEF WorkTyped, OnlyFrom
<1> DEFINE Typed(w2) == /\ w2 \in [ReadActivities -> WorkRec]
                        /\ \A y \in ReadActivities \ {x} : w2[y] = work[y]
<1>3. \A rec \in WorkRec : work' = [work EXCEPT ![x] = rec] => Typed(work')
  BY <1>1, <1>2
<1>4. NoWork \in WorkRec
  BY DEF NoWork, WorkRec
<1>5. work[x] \in WorkRec /\ work[x].atts \in Seq(Sources)
  BY <1>1, <1>2 DEF WorkRec
<1>6. work' = work => Typed(work')
  BY <1>2
<1>7. ASSUME e.ev = "Register", InitEvent(x, dev)
      PROVE  Typed(work') /\ loopq' \in Seq(Result) /\ OnlyFrom(loopq, loopq', x)
  <2>1. PICK subscribed \in BOOLEAN :
          /\ work' = [work EXCEPT ![x] = [NoWork EXCEPT !.kind = "event", !.dev = dev,
                                                        !.subscribed = subscribed]]
          /\ loopq' = IF dev \notin defined THEN loopq
                      ELSE Publish(loopq, x, IF subscribed THEN "ok" ELSE "subscribe", <<>>)
    BY <1>7, Zenon DEF InitEvent
  <2>2. [NoWork EXCEPT !.kind = "event", !.dev = dev, !.subscribed = subscribed] \in WorkRec
    BY <1>4 DEF WorkRec
  <2>3. Typed(work')
    <3> HIDE DEF Typed
    <3> QED BY <1>3, <2>1, <2>2
  <2>4. loopq' \in Seq(Result) /\ OnlyFrom(loopq, loopq', x)
    <3>1. CASE dev \notin defined
      BY <1>2, <2>1, <3>1
    <3>2. CASE dev \in defined
      <4> DEFINE what == IF subscribed THEN "ok" ELSE "subscribe"
      <4>1. loopq' = Publish(loopq, x, what, <<>>)
        BY <2>1, <3>2
      <4>2. what \in {"ok", "error", "subscribe", "poll"} /\ <<>> \in Seq(Sources \union {NoSource})
        OBVIOUS
      <4> HIDE DEF what
      <4> QED BY <1>1, <1>2, <4>1, <4>2, Published
    <3> QED BY <3>1, <3>2
  <2> QED BY <2>3, <2>4
<1>8. ASSUME e.ev = "Register", InitPoll(x, dev, e.manual)
      PROVE  Typed(work') /\ loopq' \in Seq(Result) /\ OnlyFrom(loopq, loopq', x)
  <2>1. e.manual \in BOOLEAN
    BY <1>1, <1>8 DEF Message
  <2>2. /\ work' = [work EXCEPT ![x] = [NoWork EXCEPT !.kind = "poll", !.dev = dev, !.manual = e.manual]]
        /\ loopq' = IF dev \in defined THEN loopq ELSE Publish(loopq, x, "poll", <<NoSource>>)
    BY <1>8 DEF InitPoll
  <2>3. [NoWork EXCEPT !.kind = "poll", !.dev = dev, !.manual = e.manual] \in WorkRec
    <3> HIDE DEF e
    <3> QED BY <1>4, <2>1 DEF WorkRec
  <2>4. Typed(work')
    <3> HIDE DEF Typed
    <3> QED BY <1>3, <2>2, <2>3
  <2>5. loopq' \in Seq(Result) /\ OnlyFrom(loopq, loopq', x)
    <3>1. CASE dev \in defined
      BY <1>2, <2>2, <3>1
    <3>2. CASE dev \notin defined
      <4>1. loopq' = Publish(loopq, x, "poll", <<NoSource>>)
        BY <2>2, <3>2
      <4>2. <<NoSource>> \in Seq(Sources \union {NoSource})
        OBVIOUS
      <4> QED BY <1>1, <1>2, <4>1, <4>2, Published
    <3> QED BY <3>1, <3>2
  <2> QED BY <2>4, <2>5
<1>9. ASSUME e.ev = "Unregister", work' = [work EXCEPT ![x] = NoWork], UNCHANGED loopq
      PROVE  Typed(work') /\ loopq' \in Seq(Result) /\ OnlyFrom(loopq, loopq', x)
  BY <1>2, <1>3, <1>4, <1>9, Zenon
<1>10. ASSUME e.ev = "Add", work' = [work EXCEPT ![x].atts = Append(@, e.src)], UNCHANGED loopq
       PROVE  Typed(work') /\ loopq' \in Seq(Result) /\ OnlyFrom(loopq, loopq', x)
  <2> DEFINE atts == Append(work[x].atts, e.src)
  <2>1. e.src \in Sources
    BY <1>1, <1>10 DEF Message
  <2>2. atts \in Seq(Sources)
    BY <1>5, <2>1, AppendProperties
  <2>3. work' = [work EXCEPT ![x] = [work[x] EXCEPT !.atts = atts]]
    BY <1>10
  <2> HIDE DEF atts
  <2>4. [work[x] EXCEPT !.atts = atts] \in WorkRec
    BY <1>5, <2>2, SMTT(30) DEF WorkRec
  <2> QED BY <1>2, <1>3, <1>10, <2>3, <2>4, Zenon
<1>11. ASSUME e.ev = "Remove", work' = [work EXCEPT ![x].atts = RemoveAtt(@, e.src)], UNCHANGED loopq
       PROVE  Typed(work') /\ loopq' \in Seq(Result) /\ OnlyFrom(loopq, loopq', x)
  <2> DEFINE atts == RemoveAtt(work[x].atts, e.src)
  <2>1. atts \in Seq(Sources)
    BY <1>5, RemoveAttTyped
  <2>2. work' = [work EXCEPT ![x] = [work[x] EXCEPT !.atts = atts]]
    BY <1>11
  <2> HIDE DEF atts
  <2>3. [work[x] EXCEPT !.atts = atts] \in WorkRec
    BY <1>5, <2>1 DEF WorkRec
  <2> QED BY <1>2, <1>3, <1>11, <2>2, <2>3, Zenon
<1>12. ASSUME e.ev = "Execute", Execute(x), UNCHANGED work
       PROVE  Typed(work') /\ loopq' \in Seq(Result) /\ OnlyFrom(loopq, loopq', x)
  BY <1>1, <1>6, <1>12, Executed
<1>13. ASSUME e.ev = "Execute", loopq' = Publish(loopq, x, "poll", <<NoSource>>), UNCHANGED work
       PROVE  Typed(work') /\ loopq' \in Seq(Result) /\ OnlyFrom(loopq, loopq', x)
  <2>1. <<NoSource>> \in Seq(Sources \union {NoSource})
    OBVIOUS
  <2>2. loopq' \in Seq(Result) /\ OnlyFrom(loopq, loopq', x)
    BY <1>1, <1>2, <1>13, <2>1, Published
  <2> QED BY <1>6, <1>13, <2>2
<1>14. Typed(work') /\ loopq' \in Seq(Result) /\ OnlyFrom(loopq, loopq', x)
  <2> HIDE DEF Typed
  <2>1. \/ e.ev = "Register" /\ InitEvent(x, dev)
        \/ e.ev = "Register" /\ InitPoll(x, dev, e.manual)
        \/ e.ev = "Unregister" /\ work' = [work EXCEPT ![x] = NoWork] /\ UNCHANGED loopq
        \/ e.ev = "Add" /\ work' = [work EXCEPT ![x].atts = Append(@, e.src)] /\ UNCHANGED loopq
        \/ e.ev = "Remove" /\ work' = [work EXCEPT ![x].atts = RemoveAtt(@, e.src)] /\ UNCHANGED loopq
        \/ e.ev = "Execute" /\ Execute(x) /\ UNCHANGED work
        \/ e.ev = "Execute" /\ loopq' = Publish(loopq, x, "poll", <<NoSource>>) /\ UNCHANGED work
    BY DEF Handle
  <2> HIDE DEF e
  <2> QED BY <2>1, <1>7, <1>8, <1>9, <1>10, <1>11, <1>12, <1>13
<1> QED BY <1>1, <1>14

\* Other attributes in the record of a thread's activity.
LEMMA WithAtts ==
  ASSUME NEW rec \in WorkRec, NEW ts
  PROVE  [rec EXCEPT !.atts = ts].atts = ts
BY DEF WorkRec

\* What the activity of a message reads when it is handled.
LEMMA ReadsWhenHandled ==
  ASSUME WorkTyped, World \in Worlds, NEW dev \in Devices, Handle(dev),
         NEW e, e = Head(inbox[dev]), NEW x, x = e.a, e.ev # "Unregister",
         e.ev = "Register" => work[x].atts = <<>>
  PROVE  work'[x].atts = HandledBy(e, x, work[x].atts)
<1>1. x \in ReadActivities
  <2>1. inbox[dev] \in Seq(Message) /\ inbox[dev] # <<>>
    BY WorldFields DEF Worlds, Handle
  <2>2. e \in Message
    BY <2>1, HeadTailProperties
  <2> QED BY <2>2, SMTT(30) DEF Message
<1>2. work \in [ReadActivities -> WorkRec] /\ work[x] \in WorkRec
  BY <1>1 DEF WorkTyped
<1>3. \/ e.ev = "Register" /\ InitEvent(x, dev)
      \/ e.ev = "Register" /\ InitPoll(x, dev, e.manual)
      \/ e.ev = "Add" /\ work' = [work EXCEPT ![x].atts = Append(@, e.src)]
      \/ e.ev = "Remove" /\ work' = [work EXCEPT ![x].atts = RemoveAtt(@, e.src)]
      \/ e.ev = "Execute" /\ work' = work
  BY DEF Handle
<1>4. CASE e.ev = "Register"
  <2>1. PICK rec : work' = [work EXCEPT ![x] = rec] /\ rec.atts = <<>>
    <3>1. CASE InitEvent(x, dev)
      <4>1. PICK subscribed :
              work' = [work EXCEPT ![x] = [NoWork EXCEPT !.kind = "event", !.dev = dev,
                                                         !.subscribed = subscribed]]
        BY <3>1, Zenon DEF InitEvent
      <4> DEFINE rec == [NoWork EXCEPT !.kind = "event", !.dev = dev, !.subscribed = subscribed]
      <4>2. rec.atts = <<>>
        BY DEF NoWork
      <4> QED BY <4>1, <4>2, Zenon
    <3>2. CASE InitPoll(x, dev, e.manual)
      <4>1. work' = [work EXCEPT ![x] = [NoWork EXCEPT !.kind = "poll", !.dev = dev,
                                                       !.manual = e.manual]]
        BY <3>2 DEF InitPoll
      <4> DEFINE rec == [NoWork EXCEPT !.kind = "poll", !.dev = dev, !.manual = e.manual]
      <4>2. rec.atts = <<>>
        BY DEF NoWork
      <4> QED BY <4>1, <4>2, Zenon
    <3> QED BY <1>3, <1>4, <3>1, <3>2
  <2>2. work'[x].atts = <<>>
    BY <1>1, <1>2, <2>1
  <2>3. HandledBy(e, x, work[x].atts) = work[x].atts
    BY <1>4 DEF HandledBy
  <2>4. work[x].atts = <<>>
    BY <1>4, Zenon
  <2> QED BY <2>2, <2>3, <2>4, Zenon
<1>5. CASE e.ev = "Add" /\ work' = [work EXCEPT ![x].atts = Append(@, e.src)]
  <2>1. HandledBy(e, x, work[x].atts) = Append(work[x].atts, e.src)
    BY <1>5 DEF HandledBy
  <2>2. work' = [work EXCEPT ![x] = [work[x] EXCEPT !.atts = Append(work[x].atts, e.src)]]
    BY <1>5
  <2> DEFINE ts == Append(work[x].atts, e.src)
  <2>3. work'[x] = [work[x] EXCEPT !.atts = ts]
    BY <1>1, <1>2, <2>2
  <2> HIDE DEF ts
  <2>4. work'[x].atts = ts
    BY <1>2, <2>3, WithAtts
  <2> QED BY <2>1, <2>4 DEF ts
<1>6. CASE e.ev = "Remove" /\ work' = [work EXCEPT ![x].atts = RemoveAtt(@, e.src)]
  <2>1. HandledBy(e, x, work[x].atts) = RemoveAtt(work[x].atts, e.src)
    BY <1>6 DEF HandledBy
  <2>2. work' = [work EXCEPT ![x] = [work[x] EXCEPT !.atts = RemoveAtt(work[x].atts, e.src)]]
    BY <1>6
  <2> DEFINE ts == RemoveAtt(work[x].atts, e.src)
  <2>3. work'[x] = [work[x] EXCEPT !.atts = ts]
    BY <1>1, <1>2, <2>2
  <2> HIDE DEF ts
  <2>4. work'[x].atts = ts
    BY <1>2, <2>3, WithAtts
  <2> QED BY <2>1, <2>4 DEF ts
<1>7. CASE e.ev = "Execute" /\ work' = work
  BY <1>7 DEF HandledBy
<1> QED BY <1>3, <1>4, <1>5, <1>6, <1>7

\* The activities read as asked before a message is handled and after it.
LEMMA AskedWhenHandled ==
  ASSUME AsAsked(World), World \in Worlds, NEW dev \in Devices, inbox[dev] # <<>>,
         NEW e, e = Head(inbox[dev]),
         UNCHANGED mainVars, inbox' = [inbox EXCEPT ![dev] = Tail(inbox[dev])],
         \A y \in ReadActivities \ {e.a} : work'[y] = work[y],
         e.a \in ReadActivities /\ activity[e.a].kind = "poll"
           => work'[e.a].atts = HandledBy(e, e.a, work[e.a].atts)
  PROVE  AsAsked(World)'
<1> DEFINE q == inbox[dev]
           p == Tail(q)
<1>1. inbox \in [Devices -> Seq(Message)] /\ q \in Seq(Message) /\ q # <<>>
  BY WorldFields DEF Worlds
<1>2. inbox'[dev] = p /\ \A d \in Devices \ {dev} : inbox'[d] = inbox[d]
  BY <1>1
<1> HIDE DEF q
<1>3. /\ p \in Seq(Message) /\ Len(p) = Len(q) - 1 /\ Len(q) \in Nat
      /\ \A i \in 1..Len(p) : p[i] = q[i + 1]
      /\ e \in Message /\ q[1] = e
  <2>1. e = Head(q)
    BY DEF q
  <2> QED BY <1>1, <2>1, HeadTailProperties
<1>4. DOMAIN p = 1..Len(p) /\ DOMAIN q = 1..Len(q) /\ 1 \in DOMAIN q
  BY <1>1, <1>3
<1>5. activity' = activity /\ poller' = poller
  BY DEF mainVars
<1> HIDE DEF p
<1> SUFFICES ASSUME NEW x \in ReadActivities, activity[x].kind = "poll"
             PROVE  AskedOf(World, x)'
  BY <1>5, WorldFields, Zenon DEF AsAsked, World
<1>6. /\ activity[x].dev \in Devices /\ work[x].atts \in Seq(Sources)
      /\ InOrder(World, x) /\ Each(ReadBy(World, x), Asked(World, x))
  BY WorldFields DEF AsAsked, AskedOf
<1>7. \A d \in Devices : \A i \in DOMAIN inbox[d] : inbox[d][i].a = x =>
        /\ d = activity[x].dev /\ inbox[d][i].ev # "Unregister"
        /\ inbox[d][i].ev = "Register" =>
             work[x].atts = <<>> /\ \A j \in 1..(i - 1) : inbox[d][j].a # x
  BY <1>6, WorldFields DEF InOrder
<1>8. e.a = x => dev = activity[x].dev
  BY <1>3, <1>4, <1>7 DEF q
<1>9. work'[x].atts = HandledBy(e, x, work[x].atts)
  <2>1. CASE e.a = x
    BY <2>1
  <2>2. CASE e.a # x
    BY <2>2 DEF HandledBy
  <2> QED BY <2>1, <2>2
<1>10. work'[x].atts \in Seq(Sources)
  BY <1>3, <1>6, <1>9, HandledByTyped
<1>11. Handled(inbox'[activity[x].dev], x, work'[x].atts)
         = Handled(inbox[activity[x].dev], x, work[x].atts)
  <2>1. CASE activity[x].dev = dev
    <3>1. Handled(q, x, work[x].atts) = Handled(Tail(q), x, HandledBy(Head(q), x, work[x].atts))
      BY <1>1, <1>6, HandledHead
    <3> QED BY <1>2, <1>9, <2>1, <3>1, Zenon DEF p, q
  <2>2. CASE activity[x].dev # dev
    <3>1. inbox'[activity[x].dev] = inbox[activity[x].dev] /\ work'[x] = work[x]
      BY <1>2, <1>6, <1>8, <2>2
    <3> QED BY <3>1, Zenon
  <2> QED BY <2>1, <2>2
<1>12. ReadBy(World, x)' = ReadBy(World, x)
  BY <1>5, <1>11, WorldFields, Zenon DEF ReadBy, World
<1>13. Asked(World, x)' = Asked(World, x)
  BY <1>5, WorldFields, Zenon DEF Asked, World
<1>14. ASSUME NEW d \in Devices, NEW i \in DOMAIN inbox'[d], inbox'[d][i].a = x
       PROVE  /\ d = activity[x].dev /\ inbox'[d][i].ev # "Unregister"
              /\ inbox'[d][i].ev = "Register" =>
                   work'[x].atts = <<>> /\ \A j \in 1..(i - 1) : inbox'[d][j].a # x
  <2>1. CASE d = dev
    <3>1. i \in 1..Len(p) /\ inbox'[d] = p /\ p[i] = q[i + 1] /\ i + 1 \in DOMAIN q
      BY <1>2, <1>3, <1>4, <1>14, <2>1
    <3>2. /\ d = activity[x].dev /\ p[i].ev # "Unregister"
          /\ p[i].ev = "Register" => work[x].atts = <<>> /\ \A j \in 1..i : q[j].a # x
      <4>1. /\ dev = activity[x].dev /\ q[i + 1].ev # "Unregister"
            /\ q[i + 1].ev = "Register" =>
                 work[x].atts = <<>> /\ \A j \in 1..((i + 1) - 1) : q[j].a # x
        BY <1>7, <1>14, <3>1 DEF q
      <4>2. (i + 1) - 1 = i
        BY <3>1, <1>3
      <4> QED BY <2>1, <3>1, <4>1, <4>2
    <3>3. ASSUME p[i].ev = "Register"
          PROVE  work'[x].atts = <<>> /\ \A j \in 1..(i - 1) : p[j].a # x
      <4>1. work[x].atts = <<>> /\ \A j \in 1..i : q[j].a # x
        BY <3>2, <3>3
      <4>2. e.a # x
        BY <1>3, <3>1, <4>1
      <4>3. work'[x].atts = <<>>
        BY <4>1, <4>2
      <4>4. ASSUME NEW j \in 1..(i - 1) PROVE p[j] = q[j + 1] /\ j + 1 \in 1..i
        <5>1. j \in 1..Len(p) /\ j + 1 \in 1..i
          <6>1. i \in 1..Len(p) /\ Len(p) \in Int /\ i \in Int
            BY <1>3, <3>1
          <6> QED BY <4>4, <6>1
        <5> QED BY <1>3, <5>1
      <4> QED BY <4>1, <4>3, <4>4
    <3> QED BY <3>1, <3>2, <3>3
  <2>2. CASE d # dev
    <3>1. inbox'[d] = inbox[d]
      BY <1>2, <2>2
    <3>2. /\ d = activity[x].dev /\ inbox[d][i].ev # "Unregister"
          /\ inbox[d][i].ev = "Register" =>
               work[x].atts = <<>> /\ \A j \in 1..(i - 1) : inbox[d][j].a # x
      BY <1>7, <1>14, <3>1
    <3>3. work'[x] = work[x]
      BY <1>8, <2>2, <3>2
    <3> QED BY <3>1, <3>2, <3>3
  <2> QED BY <2>1, <2>2
<1>15. InOrder(World, x)'
  BY <1>5, <1>14, WorldFields, Zenon DEF InOrder, World
<1>16. (World.activity[x].dev \in Devices)'
  BY <1>5, <1>6, Zenon DEF World
<1> QED BY <1>6, <1>10, <1>12, <1>13, <1>15, <1>16, Zenon DEF AskedOf

\* A thread handles the first event of its queue.
LEMMA HandleKeeps ==
  ASSUME ReaderInv, NEW dev \in Devices, Handle(dev)
  PROVE  ReaderInv'
<1> DEFINE x == Head(inbox[dev]).a
<1>1. /\ World \in Worlds /\ WorkTyped /\ inbox[dev] \in Seq(Message) /\ inbox[dev] # <<>>
      /\ inbox' = [inbox EXCEPT ![dev] = Tail(inbox[dev])] /\ UNCHANGED <<mainVars, disp>>
      /\ inbox \in [Devices -> Seq(Message)]
  BY WorldFields DEF ReaderInv, Sound, Worlds, Handle
<1>2. /\ x \in ReadActivities /\ work' \in [ReadActivities -> WorkRec]
      /\ \A y \in ReadActivities \ {x} : work'[y] = work[y]
      /\ loopq' \in Seq(Result) /\ OnlyFrom(loopq, loopq', x)
  BY <1>1, MessageHandled
<1>3. /\ Tail(inbox[dev]) \in Seq(Message) /\ Len(Tail(inbox[dev])) = Len(inbox[dev]) - 1
      /\ \A i \in 1..Len(Tail(inbox[dev])) : Tail(inbox[dev])[i] = inbox[dev][i + 1]
      /\ Len(inbox[dev]) \in Nat
  BY <1>1, HeadTailProperties
<1>4. World' \in Worlds
  <2>1. inbox' \in [Devices -> Seq(Message)]
    BY <1>1, <1>3
  <2> QED BY <1>1, <2>1 DEF World, Worlds, mainVars
<1>5. \A d \in Devices : \A i \in DOMAIN inbox'[d] :
        \E j \in DOMAIN inbox[d] : inbox'[d][i] = inbox[d][j]
  <2> SUFFICES ASSUME NEW d \in Devices, NEW i \in DOMAIN inbox'[d]
               PROVE  \E j \in DOMAIN inbox[d] : inbox'[d][i] = inbox[d][j]
    OBVIOUS
  <2>1. CASE d = dev
    <3>1. inbox'[d] = Tail(inbox[dev])
      BY <1>1, <2>1
    <3>2. i \in 1..Len(Tail(inbox[dev])) /\ DOMAIN inbox[dev] = 1..Len(inbox[dev])
      BY <1>1, <1>3, <3>1
    <3>3. i + 1 \in DOMAIN inbox[dev] /\ inbox'[d][i] = inbox[dev][i + 1]
      BY <1>3, <3>1, <3>2
    <3> QED BY <2>1, <3>3
  <2>2. CASE d # dev
    <3>1. inbox'[d] = inbox[d]
      BY <1>1, <2>2
    <3> QED BY <3>1
  <2> QED BY <2>1, <2>2
<1>6. \E i \in DOMAIN inbox[dev] : inbox[dev][i].a = x
  <2>1. 1 \in DOMAIN inbox[dev] /\ inbox[dev][1] = Head(inbox[dev])
    BY <1>1
  <2> QED BY <2>1
<1> HIDE DEF x
<1>7. FreeActivities(World) \subseteq FreeActivities(World)'
  <2> SUFFICES ASSUME NEW y \in FreeActivities(World)
               PROVE  y \in FreeActivities(World)'
    OBVIOUS
  <2>1. /\ y \in ReadActivities /\ activity[y] = NoActivity /\ work[y] = NoWork
        /\ \A r \in Readers : reader[r].event # y
        /\ \A d \in Devices : \A i \in DOMAIN inbox[d] : inbox[d][i].a # y
        /\ \A i \in DOMAIN loopq : loopq[i].a # y
    BY WorldFields DEF FreeActivities, Linked
  <2>2. y # x
    BY <1>6, <2>1
  <2>3. work'[y] = NoWork /\ \A i \in DOMAIN loopq' : loopq'[i].a # y
    BY <1>2, <2>1, <2>2 DEF OnlyFrom
  <2>4. \A d \in Devices : \A i \in DOMAIN inbox'[d] : inbox'[d][i].a # y
    BY <1>5, <2>1
  <2>5. activity' = activity /\ reader' = reader
    BY <1>1 DEF mainVars
  <2> QED BY <2>1, <2>3, <2>4, <2>5 DEF FreeActivities, Linked, World
<1>8. ASSUME ModesAsked PROVE AsAsked(World)'
  <2> DEFINE e == Head(inbox[dev])
  <2>1. AsAsked(World) /\ e.a = x /\ 1 \in DOMAIN inbox[dev] /\ inbox[dev][1] = e
    BY <1>1, <1>8 DEF ReaderInv, Sound, x
  <2> HIDE DEF e
  <2>2. ASSUME activity[x].kind = "poll" PROVE work'[x].atts = HandledBy(e, x, work[x].atts)
    <3>1. InOrder(World, x)
      BY <1>2, <2>1, <2>2, WorldFields DEF AsAsked, AskedOf
    <3>2. e.ev # "Unregister" /\ (e.ev = "Register" => work[x].atts = <<>>)
      BY <2>1, <3>1, WorldFields DEF InOrder
    <3> QED BY <1>1, <2>1, <3>2, ReadsWhenHandled DEF e
  <2> QED BY <1>1, <1>2, <2>1, <2>2, AskedWhenHandled DEF e
<1> QED BY <1>1, <1>2, <1>4, <1>7, <1>8, ThreadStepTo, SMTT(30)

\* A step of a thread of a device.
LEMMA ThreadStepKeeps == ReaderInv /\ ThreadStep => ReaderInv'
<1> SUFFICES ASSUME ReaderInv, ThreadStep PROVE ReaderInv'
  OBVIOUS
<1>1. WorkTyped /\ World \in Worlds
  BY DEF ReaderInv, Sound
<1>2. ASSUME NEW x \in ReadActivities, work[x] # NoWork, UNCHANGED <<mainVars, work, inbox, disp>>,
             loopq' \in Seq(Result), OnlyFrom(loopq, loopq', x)
      PROVE  ReaderInv'
  <2>1. World' = World
    BY <1>2 DEF World, mainVars
  <2>2. FreeActivities(World) \subseteq FreeActivities(World)'
    <3> SUFFICES ASSUME NEW y \in FreeActivities(World)
                 PROVE  y \in FreeActivities(World)'
      OBVIOUS
    <3>1. y # x /\ \A i \in DOMAIN loopq : loopq[i].a # y
      BY <1>2 DEF FreeActivities
    <3>2. \A i \in DOMAIN loopq' : loopq'[i].a # y
      BY <1>2, <3>1 DEF OnlyFrom
    <3> QED BY <1>2, <2>1, <3>2 DEF FreeActivities, Linked
  <2>3. World' \in Worlds /\ work' \in [ReadActivities -> WorkRec]
    BY <1>1, <1>2, <2>1 DEF WorkTyped
  <2>4. (ModesAsked => AsAsked(World))'
    <3>1. ModesAsked => AsAsked(World)
      BY DEF ReaderInv, Sound
    <3>2. AsAsked(World) => AsAsked(World)'
      BY <1>2, <2>1, AskedUnchanged
    <3> QED BY <3>1, <3>2
  <2> QED BY <1>2, <2>2, <2>3, <2>4, ThreadStepTo
<1>3. ASSUME NEW x \in ReadActivities, Timer(x) PROVE ReaderInv'
  <2>1. work[x] # NoWork /\ Execute(x) /\ UNCHANGED <<mainVars, work, inbox, disp>>
    BY <1>3 DEF Timer, NoWork
  <2> QED BY <1>1, <1>2, <2>1, Executed
<1>4. ASSUME NEW x \in ReadActivities, PushEvent(x) PROVE ReaderInv'
  <2>1. work[x] # NoWork /\ UNCHANGED <<mainVars, work, inbox, disp>>
    BY <1>4 DEF PushEvent, NoWork
  <2>2. PICK what \in {"ok", "error"} : loopq' = Publish(loopq, x, what, <<>>)
    BY <1>4 DEF PushEvent
  <2>3. loopq \in Seq(Result) /\ <<>> \in Seq(Sources \union {NoSource})
    BY <1>1 DEF WorkTyped
  <2>4. loopq' \in Seq(Result) /\ OnlyFrom(loopq, loopq', x)
    BY <2>2, <2>3, Published
  <2> QED BY <1>2, <2>1, <2>4
<1> QED BY <1>3, <1>4, HandleKeeps DEF ThreadStep

-----------------------------------------------------------------------------

\* The inductive invariant holds in every behaviour.
LEMMA ReaderInvAlways == ASSUME NoneLeavesEvents PROVE SpecReader => []ReaderInv
<1>1. ASSUME ReaderInv, [NextReader]_readerVars PROVE ReaderInv'
  <2>1. CASE UNCHANGED readerVars
    <3>1. World' = World /\ UNCHANGED <<work, loopq, disp>>
      BY <2>1 DEF World, readerVars
    <3>2. Sound(World) => Sound(World)'
      <4>1. AsAsked(World) => AsAsked(World)'
        BY <3>1, AskedUnchanged
      <4> QED BY <3>1, <4>1 DEF Sound
    <3> QED BY <1>1, <3>1, <3>2 DEF InModes, ReaderInv, RoomLeft, Room, FreePollers, FreeActivities, Subscribed,
                             Linked, WorkTyped, DispTyped
  <2>2. CASE ClientStep
    BY <1>1, <2>2, AddActionKeeps, UnlinkListenerKeeps, SendDataKeeps DEF ClientStep
  <2>3. CASE LoopStep
    BY <1>1, <2>3, LoopStepKeeps
  <2>4. CASE ThreadStep
    BY <1>1, <2>4, ThreadStepKeeps
  <2> QED BY <1>1, <2>1, <2>2, <2>3, <2>4 DEF NextReader
<1> QED BY <1>1, InitReaderInv, PTL DEF SpecReader

\* For any number of readers, sources, periods and pollers, also while a poller
\* tells its results and its listeners call CumbiaTango again (CuPoller::onProgress):
\* a registered activity belongs to a reader or a poller that was not deleted, and
\* the readers that a poller calls are those in use, each of the poller's period.
\* It is so as long as nobody takes a reader from events to polling.
THEOREM ReadersCalledAreLive == ASSUME NoneLeavesEvents PROVE SpecReader => []PollersCallLiveReaders
<1>1. ReaderInv => PollersCallLiveReaders
  BY SoundCallsLive DEF ReaderInv
<1> QED BY <1>1, ReaderInvAlways, PTL

\* For any number of readers, sources, periods and pollers: a reader in use has one
\* source of data, the event activity of its own or the polling activity of its
\* poller (CuTReader), however often its mode and its period change, its events fail
\* and it is stopped and asked for again, if nobody takes it from events to polling.
THEOREM ReadersFedOnce == ASSUME NoneLeavesEvents PROVE SpecReader => []OneSourceOfData
<1>1. ReaderInv => OneSourceOfData
  BY FedOnce DEF ReaderInv
<1> QED BY <1>1, ReaderInvAlways, PTL

\* ModesAsked excludes what NoneLeavesEvents excludes.
LEMMA ModesAskedLeaveNone == ModesAsked => NoneLeavesEvents
BY Zenon DEF ModesAsked, NoneLeavesEvents

\* The devices that the Tango database knows never change.
LEMMA DefinedAlways == SpecReader => [](defined \subseteq Devices)
<1>1. InitReader => defined \subseteq Devices
  BY DEF InitReader
<1>2. ASSUME NextReader PROVE UNCHANGED defined
  <2>1. CASE ClientStep
    <3>1. PICK w : Becomes(w)
      <4>1. PICK s \in Sources : SendData(s) \/ \E l \in DataListeners : AddAction(s, l) \/ UnlinkListener(s, l)
        BY <2>1 DEF ClientStep
      <4>2. SendData(s) => \E w : Becomes(w)
        BY DEF SendData, BecomesWithRoom
      <4>3. \A l \in DataListeners : AddAction(s, l) => \E w : Becomes(w)
        BY DEF AddAction, BecomesWithRoom
      <4>4. \A l \in DataListeners : UnlinkListener(s, l) => \E w : Becomes(w)
        BY Zenon DEF UnlinkListener
      <4> QED BY <4>1, <4>2, <4>3, <4>4
    <3> QED BY <3>1 DEF Becomes
  <2>2. CASE LoopStep
    BY <2>2 DEF LoopStep, DispatchEventResult, DispatchPollResult, DropResult, PollerLoop,
                LoopOverDeleted, CallListener, EndDispatch, Becomes, mainVars
  <2>3. CASE ThreadStep
    BY <2>3 DEF ThreadStep, Handle, Timer, PushEvent, mainVars
  <2> QED BY <1>2, <2>1, <2>2, <2>3 DEF NextReader
<1>3. defined \subseteq Devices /\ [NextReader]_readerVars => (defined \subseteq Devices)'
  BY <1>2 DEF readerVars
<1> QED BY <1>1, <1>3, PTL DEF SpecReader

\* For any number of readers, sources, periods and pollers: a reader in use has the
\* period of its mode (CuTReader::setRefreshMode, m_setPeriod), and an event activity
\* of its own exactly when its mode is one of events, whatever its changes of mode
\* and of period and the failures of its events, if the modes that are asked for are
\* those of ModesAsked.
THEOREM ReadersTyped == ASSUME ModesAsked PROVE SpecReader => []TypeOKReader
<1>1. ASSUME ReaderInv, defined \subseteq Devices PROVE TypeOKReader
  <2>1. /\ World \in Worlds /\ AllFed(World) /\ Moded(World) /\ ReadersFound(World)
        /\ work \in [ReadActivities -> WorkRec] /\ disp \in DispRec
    BY <1>1 DEF ReaderInv, Sound, InModes, WorkTyped, DispTyped
  <2>2. /\ reader \in [Readers -> ReaderRec] /\ actions \in [Sources -> Readers \union {0}]
        /\ poller \in [Pollers -> PollerRec]
        /\ pollerOf \in [AllPeriods \union {NoPeriod} -> Pollers \union {0}]
    BY <2>1, WorldFields DEF Worlds
  <2>3. ASSUME NEW r \in Readers, reader[r].live
        PROVE  /\ reader[r].period # NoPeriod
               /\ reader[r].mode = "Manual" <=> reader[r].period = ManualPeriod
               /\ reader[r].mode \in EventModes <=> reader[r].event # 0
    <3>1. reader[r].period \in AllPeriods
      BY <2>1, <2>3, WorldFields DEF ReadersFound
    <3>2. NoPeriod \notin AllPeriods
      BY ReaderAssumption DEF AllPeriods, NoPeriod, ManualPeriod
    <3>3. InMode(reader[r])
      BY <2>1, <2>3, WorldFields DEF Moded
    <3>4. reader[r].event # 0 => reader[r].mode \in EventModes
      BY <2>1, <2>3, WorldFields DEF AllFed, Fed, EventFed, PollFed
    <3> QED BY <3>1, <3>2, <3>3, <3>4 DEF InMode
  <2>4. \A k \in Pollers : poller[k].actions_map \in [Sources -> Readers \union {0}]
    BY <2>2 DEF PollerRec
  <2>5. \A x \in ReadActivities : work[x].atts \in Seq(Sources)
    BY <2>1 DEF WorkRec
  <2>6. disp.lis \subseteq DataListeners /\ disp.at \in DataListeners \union {NoListener}
    BY <2>1 DEF DispRec
  <2> QED BY <1>1, <2>2, <2>3, <2>4, <2>5, <2>6 DEF TypeOKReader, ReaderRec
<1> QED BY <1>1, ReaderInvAlways, DefinedAlways, ModesAskedLeaveNone, PTL

\* For any number of readers, sources, periods and pollers: whatever registrations
\* and removals are still in the queue of a device's thread, once it has handled
\* them its polling activity reads each source its poller was asked for exactly once
\* and no other (CuPoller::registerAction, unregisterAction;
\* CuPollingActivity::event), also while readers change mode and period and others of
\* the device come and go, if the modes that are asked for are those of ModesAsked:
\* no reader is registered twice to its poller.
THEOREM PolledAlwaysAsAsked == ASSUME ModesAsked PROVE SpecReader => []PolledAsAsked
<1>1. ASSUME ReaderInv PROVE PolledAsAsked
  <2> SUFFICES ASSUME NEW x \in ReadActivities, activity[x].kind = "poll"
               PROVE  LET k == activity[x].owner
                          atts == Handled(inbox[activity[x].dev], x, work[x].atts)
                          asked == {s \in Sources : poller[k].actions_map[s] # 0
                                                    /\ DeviceOf[s] = activity[x].dev}
                      IN {atts[i] : i \in 1..Len(atts)} = asked /\ Len(atts) = Cardinality(asked)
    BY DEF PolledAsAsked
  <2> DEFINE atts == Handled(inbox[activity[x].dev], x, work[x].atts)
             asked == {s \in Sources : poller[activity[x].owner].actions_map[s] # 0
                                       /\ DeviceOf[s] = activity[x].dev}
  <2>1. AskedOf(World, x) /\ World \in Worlds
    BY <1>1, WorldFields DEF ReaderInv, Sound, AsAsked
  <2>2. atts = ReadBy(World, x) /\ asked = Asked(World, x)
    BY WorldFields, Zenon DEF ReadBy, Asked
  <2>3. atts \in Seq(Sources)
    <3>1. inbox[activity[x].dev] \in Seq(Message) /\ work[x].atts \in Seq(Sources)
      BY <2>1, WorldFields DEF AskedOf, Worlds
    <3> QED BY <3>1, HandledTyped
  <2> HIDE DEF atts, asked
  <2>4. Each(atts, asked)
    BY <2>1, <2>2 DEF AskedOf
  <2>5. {atts[i] : i \in 1..Len(atts)} = asked /\ Len(atts) = Cardinality(asked)
    BY <2>3, <2>4, EachCounted
  <2> QED BY <2>5 DEF atts, asked
<1> QED BY <1>1, ReaderInvAlways, ModesAskedLeaveNone, PTL
=============================================================================
