-------------------------------- MODULE CuHttp --------------------------------
(***************************************************************************)
(* cumbia-http.  Requests of readers and writers are queued (CuHttpSrcMan) *)
(* and sent in bundles; a bundle that subscribes or unsubscribes waits for *)
(* the client id (CuHttpCliIdMan).  The answers come in any order and are  *)
(* matched to listeners by the name of the source alone.  After the first  *)
(* answer a subscribed listener is told by the channel                     *)
(* (CuHttpChannelReceiver).                                                *)
(*                                                                         *)
(* Everything runs in one Qt thread; a listener may call the library again *)
(* from onUpdate.  The server is external: it answers each source of a     *)
(* bundle, or fails, or asks for a login before it writes.                 *)
(***************************************************************************)
EXTENDS Integers, Sequences, FiniteSets, SequencesExt, Selection

CONSTANTS
  HttpReaders, HttpWriters,  \* the listeners of readers and of writers
  HttpSources,
  ChunkSize,                 \* dequ_chunk_siz
  MaxItems,                  \* clients wait while as many requests are under way,
                             \* or two for the client id
  HttpInCallback,            \* what clients call from onUpdate: "set", "unset", "write"
  WriteAgain,                \* a writer may write while it waits for an answer
  NoHttp                     \* no source, no listener

HttpListeners == HttpReaders \union HttpWriters

ASSUME HttpAssumption ==
  /\ HttpReaders \intersect HttpWriters = {}
  /\ NoHttp \notin HttpListeners \union HttpSources
  /\ IsFiniteSet(HttpListeners \union HttpSources)
  /\ ChunkSize \in Nat \ {0} /\ MaxItems \in Nat
  /\ WriteAgain \in BOOLEAN /\ HttpInCallback \subseteq {"set", "unset", "write"}

VARIABLES
  client,     \* CuHttpControlsReader, CuHttpControlsWriter: source and method
  srcq,       \* CuHttpSrcMan: the queue
  timing,     \* its timer is active
  srcd, tgtd, \* who waits for an answer: of sources, of targets
  request_q,  \* bundles that wait for the client id
  client_id,  \* there is one
  idreqs,     \* requests for one under way
  net,        \* bundles at the server
  rmap,       \* CuHttpChannelReceiver
  login,      \* the dialog for credentials, and the login request
  telling     \* who is still to be told by the answer being handled
httpVars == <<client, srcq, timing, srcd, tgtd, request_q, client_id, idreqs, net,
              rmap, login, telling>>
serverVars == <<request_q, client_id, idreqs, net, login>>

Item(s, l, m) == [src |-> s, l |-> l, method |-> m]
Nobody == [rest |-> <<>>, todo |-> <<>>, called |-> FALSE]
NoClient == [src |-> NoHttp, method |-> "read"]

\* All that is under way, for the bound.
UnderWay == Len(srcq) + Len(request_q) + FoldLeft(LAMBDA n, b : n + Len(b.items), 0, net)

HttpTurn(call) == \/ telling = Nobody
                  \/ /\ telling.called /\ Head(telling.todo).method # "u"
                     /\ call \in HttpInCallback
Room == UnderWay < MaxItems /\ idreqs <= 1

-----------------------------------------------------------------------------
(* CuHttpSrcMan                                                            *)

\* The timer is not started again.
BugEnqueue(q, item) == srcq' = Append(q, item) /\ timing' = (srcq # <<>>)

\* enqueueSrc, after the queue q
Enqueue(q, item) == srcq' = Append(q, item) /\ timing' = TRUE

\* cancelSrc: what is left of the queue, and of those who wait for an answer,
\* who are searched only if the queue had nothing.
Cancelled(q, item) == Kept(q, {k \in 1..Len(q) : q[k] # item})
StillWaiting(item) == IF Cancelled(srcq, item) # srcq THEN srcd ELSE Cancelled(srcd, item)

\* CumbiaHttp::m_start_bundled_src_req
Bundle(kind, items, id) == IF items = <<>> THEN <<>> ELSE <<[kind |-> kind, items |-> items, id |-> id]>>
Bundled(q, id) ==
  Bundle("src", SelectSeq(q, LAMBDA i : i.method # "write"), id)
    \o Bundle("xec", SelectSeq(q, LAMBDA i : i.method = "write"), FALSE)

\* What a chunk adds to those who wait for an answer: its sources, and of each
\* target the last who writes to it.
SourcesIn(chunk) == Kept(chunk, {k \in 1..Len(chunk) : chunk[k].method # "write"})
WritesTo(s, chunk) == {k \in 1..Len(chunk) : chunk[k].method = "write" /\ chunk[k].src = s}
TargetsAfter(chunk) ==
  [s \in HttpSources |->
     IF WritesTo(s, chunk) = {} THEN tgtd[s] ELSE chunk[Max(WritesTo(s, chunk))].l]

NeedsId(q) == \E k \in 1..Len(q) : q[k].method \in {"s", "u"}

\* onDequeueTimeout, and CumbiaHttp::onSrcBundleReqReady
OnDequeueTimeout ==
  /\ timing /\ telling = Nobody
  /\ timing' = (srcq # <<>>)
  /\ LET chunk == SubSeq(srcq, 1, IF Len(srcq) < ChunkSize THEN Len(srcq) ELSE ChunkSize)
         waits == ~client_id /\ NeedsId(chunk)
     IN /\ srcq' = SubSeq(srcq, Len(chunk) + 1, Len(srcq))
        /\ srcd' = srcd \o SourcesIn(chunk)
        /\ tgtd' = TargetsAfter(chunk)
        /\ request_q' = IF waits THEN request_q \o chunk ELSE request_q
        /\ idreqs' = IF waits THEN idreqs + 1 ELSE idreqs
        /\ net' = IF waits THEN net ELSE net \o Bundled(chunk, client_id)
  /\ UNCHANGED <<client, client_id, rmap, login, telling>>

\* CuHttpCliIdMan, and CumbiaHttp::onIdReady: an id, or none.  What waited is
\* sent either way.
OnIdReady ==
  /\ idreqs > 0 /\ telling = Nobody
  /\ client_id' \in BOOLEAN
  /\ idreqs' = idreqs - 1
  /\ net' = net \o Bundled(request_q, client_id') /\ request_q' = <<>>
  /\ UNCHANGED <<client, srcq, timing, srcd, tgtd, rmap, login, telling>>

-----------------------------------------------------------------------------
(* Readers and writers                                                     *)

\* Only the queue is searched.
BugUnlinkHttp(item) == srcd' = srcd /\ rmap' = {p \in rmap : p[2] # item.l}

\* CumbiaHttp::unlinkListener, but for the queue
UnlinkHttp(item) == srcd' = StillWaiting(item) /\ rmap' = {p \in rmap : p[2] # item.l}

Request(l) == Item(client[l].src, l, client[l].method)

SetSource(l, s, method) ==
  /\ HttpTurn("set") /\ Room /\ client[l].src = NoHttp
  /\ client' = [client EXCEPT ![l] = [src |-> s, method |-> method]]
  /\ Enqueue(srcq, Item(s, l, method))
  /\ UNCHANGED <<srcd, tgtd, rmap, telling, serverVars>>

\* The reader of a subscribed source tells the server.
UnsetSource(l) ==
  /\ HttpTurn("unset") /\ Room /\ client[l].src # NoHttp
  /\ UnlinkHttp(Request(l))
  /\ LET q == Cancelled(srcq, Request(l))
     IN IF client[l].method = "s" THEN Enqueue(q, Item(client[l].src, l, "u"))
        ELSE srcq' = q /\ UNCHANGED timing
  /\ client' = [client EXCEPT ![l] = NoClient]
  /\ UNCHANGED <<tgtd, telling, serverVars>>

\* The destructor of a reader whose source is set
DeleteReader(l) ==
  /\ HttpTurn("unset") /\ client[l].src # NoHttp
  /\ UnlinkHttp(Request(l))
  /\ srcq' = Cancelled(srcq, Request(l))
  /\ client' = [client EXCEPT ![l] = NoClient]
  /\ UNCHANGED <<timing, tgtd, telling, serverVars>>

\* CuHttpControlsWriter: setTarget asks for the configuration.
SetTarget(l, s) == SetSource(l, s, "conf")

ExecuteWriter(l) ==
  /\ HttpTurn("write") /\ Room /\ client[l].src # NoHttp
  /\ WriteAgain \/ (tgtd[client[l].src] # l /\ ~Contains(srcq, Item(client[l].src, l, "write")))
  /\ Enqueue(srcq, Item(client[l].src, l, "write"))
  /\ UNCHANGED <<client, srcd, tgtd, rmap, telling, serverVars>>

ClearTarget(l) ==
  /\ HttpTurn("unset") /\ client[l].src # NoHttp
  /\ LET t == client[l].src
         q == Cancelled(srcq, Request(l))
     IN /\ UnlinkHttp(Request(l))
        /\ srcq' = Cancelled(q, Item(t, l, "write"))
        /\ tgtd' = IF srcq' = q /\ tgtd[t] = l THEN [tgtd EXCEPT ![t] = NoHttp] ELSE tgtd
  /\ client' = [client EXCEPT ![l] = NoClient]
  /\ UNCHANGED <<timing, telling, serverVars>>

HttpClientStep ==
  \/ \E l \in HttpReaders : \/ \E s \in HttpSources, m \in {"s", "read"} : SetSource(l, s, m)
                            \/ UnsetSource(l) \/ DeleteReader(l)
  \/ \E l \in HttpWriters : \/ \E s \in HttpSources : SetTarget(l, s)
                            \/ ExecuteWriter(l) \/ ClearTarget(l)

-----------------------------------------------------------------------------
(* Answers                                                                 *)

\* takeTgts: those who wait for a target, in the order of the names
TargetsWaiting ==
  LET waiting == SetToSeq({s \in HttpSources : tgtd[s] # NoHttp})
  IN  [k \in 1..Len(waiting) |-> Item(waiting[k], tgtd[waiting[k]], "write")]
NoTargets == [s \in HttpSources |-> NoHttp]

Names(items) == [k \in 1..Len(items) |-> items[k].src]

\* onSrcBundleReplyReady: each source of the bundle is answered.
OnReplyReady(i) ==
  /\ telling = Nobody
  /\ telling' = [Nobody EXCEPT !.rest = Names(net[i].items)]
  /\ net' = RemoveAt(net, i)
  /\ UNCHANGED <<client, srcq, timing, srcd, tgtd, rmap, request_q, client_id, idreqs, login>>

\* The answer to a write asks for a login: authPrompt.
OnAuthRequest(i) ==
  /\ telling = Nobody /\ net[i].kind = "xec"
  /\ login' = login \union {"prompt"}
  /\ net' = RemoveAt(net, i)
  /\ UNCHANGED <<client, srcq, timing, srcd, tgtd, rmap, request_q, client_id, idreqs, telling>>

\* m_lis_update: takeSrcs gives the latest first; the targets are all taken,
\* whatever source was answered.
LisUpdate ==
  /\ telling.todo = <<>> /\ telling.rest # <<>>
  /\ LET places == {k \in 1..Len(srcd) : srcd[k].src = Head(telling.rest)}
     IN /\ telling' = [telling EXCEPT !.rest = Tail(@),
                         !.todo = Reverse(Kept(srcd, places)) \o TargetsWaiting]
        /\ srcd' = Kept(srcd, (1..Len(srcd)) \ places)
  /\ tgtd' = NoTargets
  /\ UNCHANGED <<client, srcq, timing, rmap, serverVars>>

\* The listener is told, unless this is the end of its subscription.
CallHttpListener ==
  /\ telling.todo # <<>> /\ ~telling.called
  /\ telling' = [telling EXCEPT !.called = TRUE]
  /\ UNCHANGED <<client, srcq, timing, srcd, tgtd, rmap, serverVars>>

LisUpdated(i) == CASE i.method = "s" -> rmap \union {<<i.src, i.l>>}
                   [] i.method = "u" -> {p \in rmap : p[2] # i.l}
                   [] OTHER -> rmap

AfterCall ==
  /\ telling.called
  /\ rmap' = LisUpdated(Head(telling.todo))
  /\ telling' = [telling EXCEPT !.todo = Tail(@), !.called = FALSE]
  /\ UNCHANGED <<client, srcq, timing, srcd, tgtd, serverVars>>

\* onSrcBundleReplyError: all who wait are told, whatever bundle failed, but
\* only the latest of each source; those who wait for a target are not found.
OnReplyError(i) ==
  /\ telling = Nobody
  /\ LET keys == SetToSeq({srcd[k].src : k \in 1..Len(srcd)})
         Latest(s) == LET k == SelectLastInSeq(srcd, LAMBDA it : it.src = s)
                      IN Item(s, srcd[k].l, "error")
     IN telling' = [Nobody EXCEPT !.todo = [k \in 1..Len(keys) |-> Latest(keys[k])]]
  /\ srcd' = <<>> /\ tgtd' = NoTargets
  /\ net' = RemoveAt(net, i)
  /\ UNCHANGED <<client, srcq, timing, rmap, request_q, client_id, idreqs, login>>

-----------------------------------------------------------------------------
(* Login, and the channel                                                  *)

TellTargets ==
  /\ telling' = [Nobody EXCEPT !.todo = TargetsWaiting]
  /\ tgtd' = NoTargets

\* onCredsReady: without a name, the writers are told; tryAuthorize does
\* nothing while a login is under way.
OnCredsReady ==
  /\ telling = Nobody /\ "prompt" \in login
  /\ \/ login' = login \ {"prompt"} /\ TellTargets
     \/ login' = {"login"} /\ UNCHANGED <<telling, tgtd>>
  /\ UNCHANGED <<client, srcq, timing, srcd, rmap, request_q, client_id, idreqs, net>>

\* onAuthReply, onAuthError: writes that wait are sent again, or told.
OnAuthReply ==
  /\ telling = Nobody /\ "login" \in login
  /\ login' = login \ {"login"}
  /\ \/ net' = net \o Bundle("xec", TargetsWaiting, FALSE) /\ UNCHANGED <<telling, tgtd>>
     \/ TellTargets /\ UNCHANGED net
  /\ UNCHANGED <<client, srcq, timing, srcd, rmap, request_q, client_id, idreqs>>

\* CuHttpChannelReceiver::decodeMessage
DecodeMessage(s) ==
  /\ telling = Nobody
  /\ LET ls == SetToSeq({p[2] : p \in {q \in rmap : q[1] = s}})
     IN ls # <<>> /\ telling' = [Nobody EXCEPT
                        !.todo = [k \in 1..Len(ls) |-> Item(s, ls[k], "channel")]]
  /\ UNCHANGED <<client, srcq, timing, srcd, tgtd, rmap, serverVars>>

Answer(i) == i \in 1..Len(net) /\ (OnReplyReady(i) \/ OnReplyError(i) \/ OnAuthRequest(i))
Tell == LisUpdate \/ CallHttpListener \/ AfterCall
HttpLogin == OnCredsReady \/ OnAuthReply

-----------------------------------------------------------------------------
InitHttp ==
  /\ client = [l \in HttpListeners |-> NoClient]
  /\ srcq = <<>> /\ timing = FALSE /\ srcd = <<>> /\ tgtd = NoTargets
  /\ request_q = <<>> /\ client_id = FALSE /\ idreqs = 0 /\ net = <<>>
  /\ rmap = {} /\ login = {} /\ telling = Nobody

NextHttp ==
  \/ HttpClientStep \/ OnDequeueTimeout \/ OnIdReady \/ Tell \/ HttpLogin
  \/ \E i \in 1..Len(net) : OnReplyReady(i) \/ OnReplyError(i) \/ OnAuthRequest(i)
  \/ \E s \in HttpSources : DecodeMessage(s)

SpecHttp == InitHttp /\ [][NextHttp]_httpVars
FairHttp ==
  /\ SF_httpVars(OnDequeueTimeout) /\ WF_httpVars(Tell)
  /\ SF_httpVars(OnIdReady) /\ SF_httpVars(Answer(1))

-----------------------------------------------------------------------------
(* Properties                                                              *)

\* Who is told later, by an answer or by the channel, still has the source:
\* a reader that left is cancelled wherever it waits (cumbiahttp.cpp:222-228),
\* though the answer to its request is still to come.
HttpNoneToldAfterLeaving ==
  /\ \A p \in rmap : client[p[2]] = [src |-> p[1], method |-> "s"]
  /\ \A k \in 1..Len(srcd) : srcd[k].method # "u" => client[srcd[k].l].src = srcd[k].src
  /\ \A s \in HttpSources : tgtd[s] # NoHttp => client[tgtd[s]].src = s

\* Who asked for a source is told, by an answer or an error, or leaves,
\* whatever bundle it was in and however the client id is delayed
\* (cumbiahttp.cpp:136-142, cuhttpsrcman.cpp:152), unless another request for
\* the same source waits too: an error then goes to the latest alone.
Asked(l) == \E q \in {srcq, srcd} : Contains(q, Request(l))
ToldHttp(l) == telling.called /\ Head(telling.todo).l = l
Crossed(l) == \E k \in 1..Len(srcd) : srcd[k].src = client[l].src /\ srcd[k].l # l
HttpAnswered ==
  \A l \in HttpListeners :
    Asked(l) ~> (ToldHttp(l) \/ client[l].src = NoHttp \/ Crossed(l))
=============================================================================
