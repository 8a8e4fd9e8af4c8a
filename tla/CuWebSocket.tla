------------------------------ MODULE CuWebSocket ------------------------------
(***************************************************************************)
(* cumbia-websocket, without an HTTP server beside it: CumbiaWebSocket,    *)
(* the actions (CuWSActionReader, CuWsActionConf, CuWsActionWriter) in the *)
(* list of CuWSActionFactoryService, the client of the socket (CuWSClient) *)
(* and the readers and writers that use them (CuWsControlsReader,          *)
(* CuWsControlsWriter).                                                    *)
(*                                                                         *)
(* Messages for the server wait until the socket is connected; those from  *)
(* the server wait in a queue that a timer empties, and are matched to an  *)
(* action by source and type.  A reader whose last listener leaves is      *)
(* deleted by the event loop and stays in the list of the factory service: *)
(* to look at it there afterwards is undefined, and so is to erase from a  *)
(* set of listeners the one being told.  Behaviours end at `bad'.          *)
(*                                                                         *)
(* Everything runs in one thread; a listener may call the library again    *)
(* from onUpdate.  The server is external: it serves requests in order.    *)
(* The socket is connected once: what a server keeps of a client that      *)
(* disconnects is not in the sources.                                      *)
(***************************************************************************)
EXTENDS Naturals, Sequences, FiniteSets, SequencesExt, Selection

CONSTANTS
  WsReaders, WsWriters,  \* the listeners of readers and of writers
  WsSources,
  MaxWsActions,          \* actions made in a run
  MaxWsMessages,         \* clients wait while as many messages are under way
  LeaveAgain,            \* a listener may leave a source of which a stopped reader is not deleted yet
  NoWs                   \* no source, no listener

WsListeners == WsReaders \union WsWriters

ASSUME WsAssumption ==
  /\ WsReaders \intersect WsWriters = {}
  /\ NoWs \notin WsListeners \union WsSources
  /\ MaxWsActions \in Nat /\ MaxWsMessages \in Nat /\ LeaveAgain \in BOOLEAN

VARIABLES
  ws,       \* the engine: see InitWs
  wsLink,   \* the source or target of each listener
  wsServer, \* the messages at the server, and the sources it is subscribed to
  wsIn,     \* m_in_msg_queue
  wsTelling \* the action that decodes a message, who was listening then, who has been
            \* told, who is being told; whether deliverMsgs has more messages
wsVars == <<ws, wsLink, wsServer, wsIn, wsTelling>>

Quiet == [action |-> 0, todo |-> {}, done |-> {}, told |-> NoWs, more |-> FALSE]
\* The event loop runs, or the callback of a listener.
WsTurn == wsTelling = Quiet \/ wsTelling.told # NoWs
UnderWayWs == Len(ws.out) + Len(wsServer.inbox) + Len(wsIn)
WsRoom == UnderWayWs < MaxWsMessages /\ Len(ws'.made) <= MaxWsActions

Msg(op, s) == [op |-> op, src |-> s]

-----------------------------------------------------------------------------
(* CuWSClient                                                              *)

SendMessages(e, ms) == [e EXCEPT !.out = @ \o ms]

\* sendTextMessage, at once if the socket is valid, or onConnected
OnConnected ==
  /\ ~ws.open /\ wsTelling = Quiet
  /\ ws' = [ws EXCEPT !.open = TRUE]
  /\ UNCHANGED <<wsLink, wsServer, wsIn, wsTelling>>

\* What was sent arrives, in order.
Transmit ==
  /\ ws.open /\ ws.out # <<>>
  /\ ws' = [ws EXCEPT !.out = Tail(@)]
  /\ wsServer' = [wsServer EXCEPT !.inbox = Append(@, Head(ws.out))]
  /\ UNCHANGED <<wsLink, wsIn, wsTelling>>

-----------------------------------------------------------------------------
(* CuWSActionFactoryService                                                *)

\* Positions of the list that are reached in a walk, up to the n-th, hold a
\* deleted action.
Dangling(e, n) == \E k \in 1..n : e.made[e.list[k]].deleted

Matches(e, t, s) ==
  {k \in 1..Len(e.list) :
     LET a == e.made[e.list[k]] IN ~a.deleted /\ a.type = t /\ a.src = s}

\* Any action of the source and type.
BugActive(e, t, s) == Matches(e, t, s)
\* findActive: the candidates
Active(e, t, s) == {k \in Matches(e, t, s) : ~e.made[e.list[k]].exit}

FirstOf(ks) == CHOOSE k \in ks : \A h \in ks : k <= h

-----------------------------------------------------------------------------
(* CumbiaWebSocket: addAction, unlinkListener                              *)

StartMessages(t, s) ==
  IF t = "reader" THEN <<Msg("subscribe", s), Msg("rconf", s)>> ELSE <<Msg(t, s)>>

Added(e, t, s, l) ==
  LET ks == Active(e, t, s)
      i == e.list[FirstOf(ks)]
  IN  IF ks # {}
      THEN [e EXCEPT !.made[i].lis = @ \union {l}, !.bad = @ \/ Dangling(e, FirstOf(ks))]
      ELSE SendMessages(
             [e EXCEPT !.made = Append(@, [type |-> t, src |-> s, lis |-> {l},
                                           exit |-> FALSE, deleted |-> FALSE]),
                       !.list = Append(@, Len(e.made) + 1),
                       !.bad = @ \/ Dangling(e, Len(e.list))],
             StartMessages(t, s))

\* removeDataListener of every action of the source and type, which stops the
\* one that has no more, be it stopped already.
Found(e, t, s) == {e.list[k] : k \in Matches(e, t, s)}
Stopped(e, t, s, l) == {i \in Found(e, t, s) : e.made[i].lis \subseteq {l}}
WithoutListener(a, l, stops) == [a EXCEPT !.lis = @ \ {l}, !.exit = @ \/ stops]

Unlinked(e, t, s, l) ==
  LET ids == Found(e, t, s)
      stopped == Stopped(e, t, s, l)
      told == wsTelling.action \in ids /\ wsTelling.told = l
      unsubscribe == [k \in 1..Cardinality(stopped) |-> Msg("unsubscribe", s)]
  IN  SendMessages(
        [e EXCEPT !.made = [i \in DOMAIN @ |->
                              IF i \in ids THEN WithoutListener(@[i], l, i \in stopped) ELSE @[i]],
                  !.bad = @ \/ Dangling(e, Len(e.list)) \/ told],
        IF t = "reader" THEN unsubscribe ELSE <<>>)

\* The event loop deletes the readers that have stopped.
OnceDeleted(a) == [a EXCEPT !.deleted = @ \/ (a.type = "reader" /\ a.exit)]

DeleteStopped ==
  /\ wsTelling = Quiet
  /\ \E i \in DOMAIN ws.made : ws.made[i].type = "reader" /\ ws.made[i].exit /\ ~ws.made[i].deleted
  /\ ws' = [ws EXCEPT !.made = [i \in DOMAIN @ |-> OnceDeleted(ws.made[i])]]
  /\ UNCHANGED <<wsLink, wsServer, wsIn, wsTelling>>

-----------------------------------------------------------------------------
(* CuWsControlsReader and CuWsControlsWriter                               *)

WsSetSource(l, s) ==
  /\ WsTurn /\ wsLink[l] = NoWs
  /\ ws' = Added(Added(ws, "rconf", s, l), "reader", s, l)
  /\ wsLink' = [wsLink EXCEPT ![l] = s]
  /\ WsRoom
  /\ UNCHANGED <<wsServer, wsIn, wsTelling>>

\* The configuration is not unlinked.
WsUnsetSource(l) ==
  /\ WsTurn /\ wsLink[l] # NoWs
  /\ LeaveAgain \/ \A k \in Matches(ws, "reader", wsLink[l]) : ~ws.made[ws.list[k]].exit
  /\ ws' = Unlinked(ws, "reader", wsLink[l], l)
  /\ wsLink' = [wsLink EXCEPT ![l] = NoWs]
  /\ UNCHANGED <<wsServer, wsIn, wsTelling>>

WsSetTarget(l, s) ==
  /\ WsTurn /\ wsLink[l] = NoWs
  /\ ws' = Added(ws, "wconf", s, l)
  /\ wsLink' = [wsLink EXCEPT ![l] = s]
  /\ WsRoom
  /\ UNCHANGED <<wsServer, wsIn, wsTelling>>

\* It is the configuration of readers that is unlinked.
WsClearTarget(l) ==
  /\ WsTurn /\ wsLink[l] # NoWs
  /\ ws' = Unlinked(Unlinked(ws, "rconf", wsLink[l], l), "write", wsLink[l], l)
  /\ wsLink' = [wsLink EXCEPT ![l] = NoWs]
  /\ UNCHANGED <<wsServer, wsIn, wsTelling>>

\* execute: while an earlier write waits for its result no other is sent.
WsExecuteTarget(l) ==
  /\ WsTurn /\ wsLink[l] # NoWs
  /\ ws' = Added(ws, "write", wsLink[l], l)
  /\ WsRoom
  /\ UNCHANGED <<wsLink, wsServer, wsIn, wsTelling>>

-----------------------------------------------------------------------------
(* The server                                                              *)

\* A write may be answered by an error that is not its result yet.  What the
\* server sends is queued when the event loop runs again (onMessageReceived).
Serve ==
  /\ wsServer.inbox # <<>> /\ ~wsTelling.more
  /\ LET m == Head(wsServer.inbox)
         rest == Tail(wsServer.inbox)
     IN \/ /\ m.op \in {"subscribe", "unsubscribe"}
           /\ wsServer' = [inbox |-> rest,
                           subscribed |-> IF m.op = "subscribe" THEN wsServer.subscribed \union {m.src}
                                          ELSE wsServer.subscribed \ {m.src}]
           /\ UNCHANGED wsIn
        \/ /\ m.op \notin {"subscribe", "unsubscribe"}
           /\ wsServer' = [wsServer EXCEPT !.inbox = rest]
           /\ \E early \in {<<>>} \union (IF m.op = "write" THEN {<<Msg("error", m.src)>>} ELSE {}) :
                wsIn' = wsIn \o early \o <<m>>
  /\ UNCHANGED <<ws, wsLink, wsTelling>>

\* An event; it waits while an earlier one is queued, which is a bound of the
\* model.
PublishWs(s) ==
  /\ s \in wsServer.subscribed /\ ~wsTelling.more
  /\ ~Contains(wsIn, Msg("reader", s))
  /\ UnderWayWs < MaxWsMessages
  /\ wsIn' = Append(wsIn, Msg("reader", s))
  /\ UNCHANGED <<ws, wsLink, wsServer, wsTelling>>

-----------------------------------------------------------------------------
(* CuWSClient::deliverMsgs, CumbiaWebSocket::onUpdate, decodeMessage       *)

TypeOf(m) == IF m.op = "error" THEN "write" ELSE m.op

\* deliverMsgs empties the queue before the event loop runs again.  One-shot
\* actions exit with their result.
DeliverMsg ==
  /\ wsIn # <<>> /\ wsTelling.action = 0
  /\ wsIn' = Tail(wsIn)
  /\ LET m == Head(wsIn)
         ks == Active(ws, TypeOf(m), m.src)
         i == ws.list[FirstOf(ks)]
         next == [Quiet EXCEPT !.more = Len(wsIn) > 1]
     IN IF ks = {}
        THEN /\ ws' = [ws EXCEPT !.bad = Dangling(ws, Len(ws.list))]
             /\ wsTelling' = next
        ELSE /\ ws' = [ws EXCEPT !.bad = Dangling(ws, FirstOf(ks)),
                                 !.made[i].exit = m.op \notin {"reader", "error"}]
             /\ wsTelling' = [next EXCEPT !.action = i, !.todo = ws.made[i].lis]
  /\ UNCHANGED <<wsLink, wsServer>>

\* The set of listeners is iterated while the callbacks change it: who has left
\* is not told, who has joined may be.
TellWsListener ==
  /\ wsTelling.action # 0
  /\ \E l \in ws.made[wsTelling.action].lis \ wsTelling.done :
       wsTelling' = [wsTelling EXCEPT !.done = @ \union {l}, !.told = l]
  /\ UNCHANGED <<ws, wsLink, wsServer, wsIn>>

\* unregisterAction erases all that exit; the one that was told is deleted.
EndWsMessage ==
  /\ wsTelling.action # 0
  /\ wsTelling.todo \intersect ws.made[wsTelling.action].lis \subseteq wsTelling.done
  /\ wsTelling' = [Quiet EXCEPT !.more = wsTelling.more]
  /\ LET a == ws.made[wsTelling.action]
         Leaves(i) == LET b == ws.made[i] IN b.type = a.type /\ b.src = a.src /\ b.exit
     IN ws' = IF ~a.exit THEN ws
              ELSE [ws EXCEPT !.list = Kept(@, {k \in 1..Len(@) : ~Leaves(@[k])}),
                              !.made[wsTelling.action] = [@ EXCEPT !.lis = {}, !.deleted = TRUE],
                              !.bad = @ \/ Dangling(ws, Len(ws.list))]
  /\ UNCHANGED <<wsLink, wsServer, wsIn>>

-----------------------------------------------------------------------------
InitWs ==
  /\ ws = [made |-> <<>>,    \* the actions, in the order they were made
           list |-> <<>>,    \* those in the list of the factory service
           out |-> <<>>,     \* m_out_msg_queue, and what the socket has not carried yet
           open |-> FALSE,
           bad |-> FALSE]
  /\ wsLink = [l \in WsListeners |-> NoWs]
  /\ wsServer = [inbox |-> <<>>, subscribed |-> {}]
  /\ wsIn = <<>> /\ wsTelling = Quiet

NextWs ==
  /\ ~ws.bad
  /\ \/ OnConnected \/ Transmit \/ Serve \/ DeleteStopped
     \/ DeliverMsg \/ TellWsListener \/ EndWsMessage
     \/ \E s \in WsSources : PublishWs(s)
     \/ \E l \in WsReaders : WsUnsetSource(l) \/ \E s \in WsSources : WsSetSource(l, s)
     \/ \E l \in WsWriters : \/ WsClearTarget(l) \/ WsExecuteTarget(l)
                             \/ \E s \in WsSources : WsSetTarget(l, s)

SpecWs == InitWs /\ [][NextWs]_wsVars

-----------------------------------------------------------------------------
(* Properties                                                              *)

InFlight(m) == Contains(ws.out, m) \/ Contains(wsServer.inbox, m) \/ Contains(wsIn, m)

\* The server will be subscribed to s when it has all that was sent.
WillBeSubscribed(s) ==
  LET ms == wsServer.inbox \o ws.out
      ks == {k \in 1..Len(ms) : ms[k].src = s /\ ms[k].op \in {"subscribe", "unsubscribe"}}
  IN  IF ks = {} THEN s \in wsServer.subscribed ELSE ms[Max(ks)].op = "subscribe"

\* Until it meets a deleted reader the engine serves who asks: a listener is
\* with the only active reader of its source, the server is or will be
\* subscribed to the sources that have one and to no other, and whoever waits
\* for a configuration or the result of a write waits with an action that can
\* be found and whose request is on its way, however a source is left and set
\* again, before and after the socket is connected
\* (cuwsactionfactoryservice.cpp:34-38).
WsServes ==
  ~ws.bad =>
    /\ \A s \in WsSources :
         LET readers == {ws.list[k] : k \in Active(ws, "reader", s)}
         IN  /\ Cardinality(readers) <= 1
             /\ WillBeSubscribed(s) <=> readers # {}
             /\ \A i \in readers : ws.made[i].lis = {l \in WsReaders : wsLink[l] = s}
             /\ readers = {} => \A l \in WsReaders : wsLink[l] # s
    /\ \A i \in DOMAIN ws.made :
         LET a == ws.made[i]
         IN  /\ a.type # "reader" /\ ~a.exit => InFlight(Msg(a.type, a.src))
             /\ a.lis # {} => ~a.exit \/ wsTelling.action = i
=============================================================================
