------------------------ MODULE CuThreadLifecycleProofs ------------------------
(***************************************************************************)
(* What TLAPS proves of the way of an activity through the engine: its     *)
(* events in the queue of its thread, its exit event in the queue of the   *)
(* event loop, its deletion; and that CuThread implements the life cycle   *)
(* of ActivityLifecycle.                                                   *)
(***************************************************************************)
EXTENDS CuThreadLifecycle, CuThreadProofs

StartStop == {"Register", "Unregister"}

\* the queue q of a thread has an event of the type for the activity
Has(q, ty, a) == \E i \in DOMAIN q : q[i].type = ty /\ q[i].a = a

\* nothing about an activity is behind its Unregister, and nothing is started
\* or stopped behind the event that ends the loop
InOrder(q) ==
  \A i, j \in DOMAIN q : i < j /\ q[j].type \in StartStop =>
    /\ q[i].type = "Unregister" => q[i].a # q[j].a
    /\ q[i].type \notin LeaveEvents

LEMMA EventsAppend ==
  ASSUME NEW q \in Seq(ThreadEvent), NEW e
  PROVE  /\ \A ty, a : Has(Append(q, e), ty, a) <=> Has(q, ty, a) \/ (e.type = ty /\ e.a = a)
         /\ InOrder(q) /\ (e.type \in StartStop => /\ ~Contains(q, LeaveEvents)
                                                   /\ ~Has(q, "Unregister", e.a))
              => InOrder(Append(q, e))
<1>1. /\ DOMAIN Append(q, e) = DOMAIN q \union {Len(q) + 1}
      /\ Len(q) \in Nat /\ DOMAIN q = 1..Len(q)
      /\ \A i \in DOMAIN q : Append(q, e)[i] = q[i]
      /\ Append(q, e)[Len(q) + 1] = e
  OBVIOUS
<1>2. \A ty, a : Has(Append(q, e), ty, a) <=> Has(q, ty, a) \/ (e.type = ty /\ e.a = a)
  BY <1>1 DEF Has
<1>3. ASSUME InOrder(q),
             e.type \in StartStop => ~Contains(q, LeaveEvents) /\ ~Has(q, "Unregister", e.a)
      PROVE  InOrder(Append(q, e))
  <2> SUFFICES ASSUME NEW i \in DOMAIN Append(q, e), NEW j \in DOMAIN Append(q, e),
                      i < j, Append(q, e)[j].type \in StartStop
               PROVE  /\ Append(q, e)[i].type = "Unregister" => Append(q, e)[i].a # Append(q, e)[j].a
                      /\ Append(q, e)[i].type \notin LeaveEvents
    BY DEF InOrder
  <2>1. i \in DOMAIN q
    BY <1>1
  <2>2. CASE j \in DOMAIN q
    BY <1>1, <1>3, <2>1, <2>2 DEF InOrder
  <2>3. CASE j = Len(q) + 1
    BY <1>1, <1>3, <2>1, <2>3 DEF Contains, Has
  <2> QED BY <1>1, <2>2, <2>3
<1> QED BY <1>2, <1>3

LEMMA EventsTail ==
  ASSUME NEW q \in Seq(ThreadEvent), q # <<>>
  PROVE  /\ \A ty, a : Has(q, ty, a) <=> Has(Tail(q), ty, a) \/ (Head(q).type = ty /\ Head(q).a = a)
         /\ InOrder(q) => InOrder(Tail(q))
         /\ InOrder(q) /\ Head(q).type = "Unregister"
              => \A ty \in StartStop : ~Has(Tail(q), ty, Head(q).a)
         /\ InOrder(q) /\ Head(q).type \in LeaveEvents => ~Contains(Tail(q), StartStop)
<1>1. /\ Len(q) \in Nat /\ 1 \in DOMAIN q /\ DOMAIN q = 1..Len(q) /\ q[1] = Head(q)
      /\ \A i \in DOMAIN Tail(q) : Tail(q)[i] = q[i + 1] /\ i + 1 \in DOMAIN q /\ 1 < i + 1
      /\ DOMAIN Tail(q) \subseteq Nat
      /\ \A i \in DOMAIN q : i = 1 \/ (i - 1 \in DOMAIN Tail(q) /\ Tail(q)[i - 1] = q[i])
  OBVIOUS
<1>2. \A ty, a : Has(q, ty, a) <=> Has(Tail(q), ty, a) \/ (Head(q).type = ty /\ Head(q).a = a)
  <2> SUFFICES ASSUME NEW ty, NEW a
               PROVE  Has(q, ty, a) <=> Has(Tail(q), ty, a) \/ (Head(q).type = ty /\ Head(q).a = a)
    OBVIOUS
  <2>1. ASSUME Has(q, ty, a), ~(Head(q).type = ty /\ Head(q).a = a)
        PROVE  Has(Tail(q), ty, a)
    BY <1>1, <2>1, ZenonT(60) DEF Has
  <2>2. ASSUME Has(Tail(q), ty, a) \/ (Head(q).type = ty /\ Head(q).a = a)
        PROVE  Has(q, ty, a)
    BY <1>1, <2>2 DEF Has
  <2> QED BY <2>1, <2>2
<1>3. InOrder(q) => InOrder(Tail(q))
  <2> SUFFICES ASSUME InOrder(q),
                      NEW i \in DOMAIN Tail(q), NEW j \in DOMAIN Tail(q),
                      i < j, Tail(q)[j].type \in StartStop
               PROVE  /\ Tail(q)[i].type = "Unregister" => Tail(q)[i].a # Tail(q)[j].a
                      /\ Tail(q)[i].type \notin LeaveEvents
    BY DEF InOrder
  <2>1. i + 1 < j + 1
    BY <1>1
  <2> QED BY <1>1, <2>1 DEF InOrder
<1>4. InOrder(q) /\ Head(q).type = "Unregister"
        => \A ty \in StartStop : ~Has(Tail(q), ty, Head(q).a)
  BY <1>1 DEF InOrder, Has
<1>5. InOrder(q) /\ Head(q).type \in LeaveEvents => ~Contains(Tail(q), StartStop)
  BY <1>1 DEF InOrder, Contains
<1> QED BY <1>2, <1>3, <1>4, <1>5

LEMMA HasStartStop ==
  ASSUME NEW q, NEW ty \in StartStop, NEW a, Has(q, ty, a)
  PROVE  Contains(q, StartStop)
BY DEF Has, Contains

-------------------------------------------------------------------------------
(***************************************************************************)
(* An activity on its way: linked, in a queue, in an activity_set.         *)
(***************************************************************************)
Linked(t, a) == \E l \in Listeners : <<a, l, t>> \in conn

Entered(t, a) == a \in activity_set[t] \/ Has(eq[t], "Register", a)

Leaving(t, a) == Has(eq[t], "Unregister", a)

Uses(t, a) == Entered(t, a) \/ Leaving(t, a)

\* an activity has one thread: the one it is linked to, while it is
OneUser == \A a \in Activities, t, u \in Threads : Uses(t, a) /\ Uses(u, a) => t = u

NewUnused == \A a \in Activities : life[a] = "new" => \A t \in Threads : ~Uses(t, a)

LinkedUser ==
  \A a \in Activities, t \in Threads : Linked(t, a) =>
    life[a] = "registered" /\ \A u \in Threads : Uses(u, a) => u = t

LeavingLife ==
  \A a \in Activities, t \in Threads : Leaving(t, a) => life[a] = "unregistered"

\* while clients may call, what is registered is in its thread, or about to
\* be, and what is in a thread is linked to it or about to leave
RegisteredEntered ==
  \A a \in Activities : life[a] = "registered" =>
    \E t \in Threads : Linked(t, a) /\ Entered(t, a)

EnteredLeaves ==
  \A a \in Activities, t \in Threads : Entered(t, a) => Linked(t, a) \/ Leaving(t, a)

LinkRel ==
  /\ OneUser /\ NewUnused /\ LinkedUser /\ LeavingLife
  /\ ClientTurn => RegisteredEntered /\ EnteredLeaves

\* a thread that runs is known, and listened to while clients may call; one
\* that leaves its loop starts and stops nothing more
Runs(t) == pc[t] \notin {"off", "done"}

ThreadsAlive ==
  \A t \in Threads :
    /\ Runs(t) => t \in threads /\ (ClientTurn => t \in listening)
    /\ pc[t] = "done" => activity_set[t] = {}
    /\ pc[t] \in {"drain", "exit", "done"} => ~Contains(eq[t], StartStop)

LinkInv == LinkRel /\ ThreadsAlive /\ \A t \in Threads : InOrder(eq[t])

(***************************************************************************)
(* Steps that only take an activity further on its way, or leave it where  *)
(* it is, keep LinkRel.                                                    *)
(***************************************************************************)
LEMMA RelationsKept ==
  ASSUME LinkRel, life' = life,
         \A t \in Threads, a \in Activities :
           /\ Linked(t, a)' => Linked(t, a)
           /\ Entered(t, a)' => Entered(t, a)
           /\ Leaving(t, a)' => Leaving(t, a),
         ClientTurn' =>
           /\ ClientTurn
           /\ \A t \in Threads, a \in Activities :
                /\ Linked(t, a) => Linked(t, a)'
                /\ Entered(t, a) /\ life[a] = "registered" => Entered(t, a)'
                /\ Leaving(t, a) /\ Entered(t, a)' => Leaving(t, a)'
  PROVE  LinkRel'
<1>1. \A t \in Threads, a \in Activities : Uses(t, a)' => Uses(t, a)
  BY DEF Uses
<1>2. OneUser' /\ NewUnused' /\ LinkedUser' /\ LeavingLife'
  BY <1>1 DEF LinkRel, OneUser, NewUnused, LinkedUser, LeavingLife
<1>3. ASSUME ClientTurn' PROVE RegisteredEntered' /\ EnteredLeaves'
  BY <1>3 DEF LinkRel, RegisteredEntered, EnteredLeaves
<1> QED BY <1>2, <1>3 DEF LinkRel

(***************************************************************************)
(* The queues, but for events that start or stop an activity.              *)
(***************************************************************************)
QueueQuiet(t) ==
  \/ eq'[t] = eq[t]
  \/ \E e \in ThreadEvent : e.type \notin StartStop /\ eq'[t] = Append(eq[t], e)
  \/ eq[t] # <<>> /\ Head(eq[t]).type \notin StartStop /\ eq'[t] = Tail(eq[t])

QueuesQuiet == \A t \in Threads : QueueQuiet(t)

LEMMA QueueKept ==
  ASSUME TypeOK, NEW t \in Threads, InOrder(eq[t]), QueueQuiet(t)
  PROVE  /\ \A a : \A ty \in StartStop : Has(eq'[t], ty, a) <=> Has(eq[t], ty, a)
         /\ InOrder(eq'[t])
         /\ Contains(eq'[t], StartStop) => Contains(eq[t], StartStop)
<1>1. eq[t] \in Seq(ThreadEvent)
  BY DEF TypeOK
<1>2. CASE eq'[t] = eq[t]
  BY <1>2
<1>3. ASSUME NEW e \in ThreadEvent, e.type \notin StartStop, eq'[t] = Append(eq[t], e)
      PROVE  /\ \A a : \A ty \in StartStop : Has(eq'[t], ty, a) <=> Has(eq[t], ty, a)
             /\ InOrder(eq'[t])
             /\ Contains(eq'[t], StartStop) => Contains(eq[t], StartStop)
  BY <1>1, <1>3, EventsAppend, QueueAppend
<1>4. CASE eq[t] # <<>> /\ Head(eq[t]).type \notin StartStop /\ eq'[t] = Tail(eq[t])
  BY <1>1, <1>4, EventsTail, QueueTail
<1> QED BY <1>2, <1>3, <1>4 DEF QueueQuiet

(***************************************************************************)
(* A step that moves no activity: none is started, stopped, or asked to.   *)
(***************************************************************************)
NobodyMoves ==
  \A t \in Threads, a \in Activities :
    /\ a \in activity_set'[t] <=> a \in activity_set[t]
    /\ Has(eq'[t], "Register", a) <=> Has(eq[t], "Register", a)
    /\ Has(eq'[t], "Unregister", a) <=> Has(eq[t], "Unregister", a)

(***************************************************************************)
(* Steps after which no thread has an activity it did not have before.     *)
(***************************************************************************)
NobodyEnters ==
  \A t \in Threads, a \in Activities :
    (Linked(t, a)' => Linked(t, a)) /\ (Uses(t, a)' => Uses(t, a))

\* no thread has another activity than a it did not have before
OthersStay(a) ==
  \A t \in Threads, b \in Activities \ {a} :
    (Linked(t, b)' => Linked(t, b)) /\ (Uses(t, b)' => Uses(t, b))

\* the threads about to start an activity stay the same, but for those of S
SameWaiting(S) ==
  \A t \in Threads, a \in Activities \ S :
    Has(eq'[t], "Register", a) <=> Has(eq[t], "Register", a)

LEMMA MovesNobody ==
  ASSUME NobodyMoves, conn' \subseteq conn
  PROVE  NobodyEnters
<1>1. \A t \in Threads, a \in Activities : Linked(t, a)' => Linked(t, a)
  BY DEF Linked
<1>2. \A t \in Threads, a \in Activities : Uses(t, a)' => Uses(t, a)
  BY DEF NobodyMoves, Uses, Entered, Leaving
<1> QED BY <1>1, <1>2 DEF NobodyEnters

LEMMA LinkQuiet ==
  ASSUME LinkInv, TypeOK, ClientTurn' => ClientTurn,
         UNCHANGED <<life, conn, activity_set>>,
         \A t \in Threads : QueueQuiet(t),
         ThreadsAlive'
  PROVE  LinkInv' /\ NobodyMoves /\ QueuesQuiet
<1>1. \A t \in Threads :
        /\ \A a : \A ty \in StartStop : Has(eq'[t], ty, a) <=> Has(eq[t], ty, a)
        /\ InOrder(eq'[t])
  BY QueueKept DEF LinkInv
<1>2. \A t \in Threads, a \in Activities :
        /\ Linked(t, a)' <=> Linked(t, a)
        /\ Entered(t, a)' <=> Entered(t, a)
        /\ Leaving(t, a)' <=> Leaving(t, a)
  BY <1>1 DEF Linked, Entered, Leaving, StartStop
<1>3. LinkRel'
  BY <1>2, RelationsKept DEF LinkInv
<1>4. NobodyMoves
  BY <1>1 DEF NobodyMoves, StartStop
<1> QED BY <1>1, <1>3, <1>4 DEF LinkInv, QueuesQuiet

(***************************************************************************)
(* A thread that has left its loop while clients may call exits nothing:   *)
(* what it had is unregistered before it is told to end.                   *)
(***************************************************************************)
LEMMA QuitsOnlyAtFinish ==
  ASSUME EngineInv, LinkInv, ClientTurn, NEW t \in Threads, pc[t] \in {"drain", "exit", "done"}
  PROVE  activity_set[t] = {} /\ \A a \in Activities : ~Uses(t, a)
<1>1. \A a \in Activities, ty \in StartStop : ~Has(eq[t], ty, a)
  BY HasStartStop DEF LinkInv, ThreadsAlive
<1>2. ASSUME NEW a \in Activities, Linked(t, a) PROVE FALSE
  BY <1>2 DEF Linked, EngineInv, LinksInService, Usable
<1>3. \A a \in Activities : ~Entered(t, a) /\ ~Leaving(t, a)
  BY <1>1, <1>2 DEF LinkInv, LinkRel, EnteredLeaves, Leaving, StartStop
<1>4. activity_set[t] \subseteq Activities
  BY DEF EngineInv, TypeOK
<1> QED BY <1>3, <1>4 DEF Entered, Uses

(***************************************************************************)
(* What the main thread does to them.                                      *)
(***************************************************************************)
LEMMA LinkMainStep ==
  ASSUME LinkInv, TypeOK, ClientTurn' => ClientTurn,
         UNCHANGED <<life, conn, threads, listening, pc, activity_set>>,
         \A t \in Threads : QueueQuiet(t)
  PROVE  LinkInv' /\ NobodyMoves /\ QueuesQuiet
<1>1. \A t \in Threads : Contains(eq'[t], StartStop) => Contains(eq[t], StartStop)
  BY QueueKept DEF LinkInv
<1>2. ThreadsAlive'
  BY <1>1 DEF LinkInv, ThreadsAlive, Runs
<1> QED BY <1>2, LinkQuiet

LEMMA LinkRegister ==
  ASSUME EngineInv, LinkInv, NEW a \in Activities, NEW l \in Listeners, RegisterActivity(a, l)
  PROVE  /\ LinkInv' /\ OthersStay(a) /\ SameWaiting({a})
         /\ \E t \in Threads : Has(eq'[t], "Register", a)
<1>1. TypeOK /\ LinksInService /\ Unborn /\ Usable /\ ClientTurn
  BY DEF EngineInv, RegisterActivity
<1>2. PICK t \in ThreadsFor(TokenOf[a]) :
        /\ svc' = svc \union {t}
        /\ listening' = IF token[t] = None THEN listening \union {t} ELSE listening
        /\ conn' = conn \union {<<a, l, t>>}
        /\ threads' = IF pc[t] = "off" THEN threads \union {t} ELSE threads
        /\ pc' = [pc EXCEPT ![t] = IF @ = "off" THEN "start" ELSE @]
        /\ Push(t, AEvent("Register", a))
  BY DEF RegisterActivity
<1>3. /\ t \in Threads
      /\ \/ token[t] = TokenOf[a] /\ t \in svc
         \/ token[t] = None /\ t \notin svc /\ \A u \in svc : token[u] # TokenOf[a]
  BY <1>1 DEF ThreadsFor, TypeOK, LinksInService
<1>4. /\ life' = [life EXCEPT ![a] = "registered"]
      /\ activity_set' = activity_set /\ mpc' = mpc
  BY DEF RegisterActivity
<1>5. life[a] # "unregistered" /\ \A u \in Threads : Uses(u, a) => u = t
  <2>1. CASE life[a] = "new"
    BY <2>1 DEF LinkInv, LinkRel, NewUnused
  <2>2. CASE life[a] = "registered"
    <3>1. PICK u \in Threads : Linked(u, a)
      BY <1>1, <2>2 DEF LinkInv, LinkRel, RegisteredEntered
    <3>2. u \in svc /\ token[u] = TokenOf[a]
      BY <1>1, <3>1 DEF Linked, LinksInService
    <3>3. u = t
      BY <1>1, <1>3, <3>2 DEF LinksInService
    <3> QED BY <2>2, <3>1, <3>3 DEF LinkInv, LinkRel, LinkedUser
  <2> QED BY <2>1, <2>2 DEF RegisterActivity
<1>6. /\ pc[t] \in {"off", "start", "loop", "timer"}
      /\ ~Contains(eq[t], LeaveEvents)
      /\ token[t] = None \/ (t \in threads /\ t \in listening)
      /\ pc[t] = "off" <=> token[t] = None
  <2>1. CASE t \in svc
    BY <1>1, <2>1 DEF Usable, LinksInService
  <2>2. CASE token[t] = None
    BY <1>1, <1>3, <2>2 DEF Unborn
  <2> QED BY <1>3, <2>1, <2>2
<1>7. \A u \in Threads : ~Leaving(u, a)
  BY <1>5 DEF LinkInv, LinkRel, LeavingLife
<1>8. /\ eq'[t] = Append(eq[t], AEvent("Register", a)) /\ eq[t] \in Seq(ThreadEvent)
      /\ \A u \in Threads \ {t} : eq'[u] = eq[u]
  BY <1>1, <1>2, <1>3 DEF Push, TypeOK
<1>9. AEvent("Register", a).type = "Register" /\ AEvent("Register", a).a = a
  BY DEF AEvent
<1>10. /\ \A ty, b : Has(eq'[t], ty, b) <=> Has(eq[t], ty, b) \/ (ty = "Register" /\ b = a)
       /\ InOrder(eq'[t])
  BY <1>3, <1>6, <1>7, <1>8, <1>9, EventsAppend DEF Leaving, LinkInv
<1>11. \A u \in Threads : InOrder(eq'[u])
  BY <1>8, <1>10 DEF LinkInv
<1>12. \A u \in Threads, b \in Activities :
         /\ Linked(u, b)' <=> Linked(u, b) \/ (u = t /\ b = a)
         /\ Entered(u, b)' <=> Entered(u, b) \/ (u = t /\ b = a)
         /\ Leaving(u, b)' <=> Leaving(u, b)
         /\ Uses(u, b)' <=> Uses(u, b) \/ (u = t /\ b = a)
  <2>1. \A u \in Threads, b \in Activities : Linked(u, b)' <=> Linked(u, b) \/ (u = t /\ b = a)
    BY <1>2 DEF Linked
  <2>2. \A u \in Threads, b \in Activities : 
         /\ Entered(u, b)' <=> Entered(u, b) \/ (u = t /\ b = a)
         /\ Leaving(u, b)' <=> Leaving(u, b)
    BY <1>3, <1>4, <1>8, <1>10 DEF Entered, Leaving
  <2> QED BY <2>1, <2>2 DEF Uses
<1>13. LinkRel'
  <2>1. \A b \in Activities : /\ b # a => life'[b] = life[b]
                              /\ b = a => life'[b] = "registered"
    BY <1>1, <1>4 DEF TypeOK
  <2>2. OneUser'
    BY <1>5, <1>12 DEF LinkInv, LinkRel, OneUser
  <2>3. NewUnused' /\ LeavingLife'
    BY <1>5, <1>7, <1>12, <2>1 DEF LinkInv, LinkRel, NewUnused, LeavingLife
  <2>4. LinkedUser'
    <3>1. \A u \in Threads : Linked(u, a) => u = t
      BY <1>1, <1>3 DEF Linked, LinksInService
    <3> QED BY <1>3, <1>5, <1>12, <2>1, <3>1 DEF LinkInv, LinkRel, LinkedUser
  <2>5. RegisteredEntered' /\ EnteredLeaves'
    BY <1>1, <1>3, <1>12, <2>1 DEF LinkInv, LinkRel, RegisteredEntered, EnteredLeaves
  <2> QED BY <2>2, <2>3, <2>4, <2>5 DEF LinkRel
<1>14. ThreadsAlive'
  <2>1. ASSUME NEW u \in Threads, u # t
        PROVE  /\ Runs(u)' => u \in threads' /\ (ClientTurn' => u \in listening')
               /\ pc'[u] = "done" => activity_set'[u] = {}
               /\ pc'[u] \in {"drain", "exit", "done"} => ~Contains(eq'[u], StartStop)
    BY <1>1, <1>2, <1>3, <1>4, <1>8, <2>1 DEF LinkInv, ThreadsAlive, Runs, TypeOK
  <2>2. /\ pc'[t] \in {"start", "loop", "timer"}
        /\ t \in threads' /\ t \in listening'
    BY <1>1, <1>2, <1>3, <1>6 DEF TypeOK
  <2> QED BY <2>1, <2>2 DEF ThreadsAlive
<1>15. OthersStay(a)
  BY <1>12 DEF OthersStay
<1>16. SameWaiting({a}) /\ Has(eq'[t], "Register", a)
  BY <1>8, <1>10 DEF SameWaiting
<1>17. LinkInv'
  BY <1>11, <1>13, <1>14 DEF LinkInv
<1> QED BY <1>3, <1>15, <1>16, <1>17

LEMMA LinkUnregister ==
  ASSUME EngineInv, LinkInv, NEW a \in Activities, UnregisterActivity(a)
  PROVE  LinkInv' /\ OthersStay(a) /\ SameWaiting({}) /\ life[a] = "registered"
<1>1. TypeOK /\ LinksInService /\ Usable /\ ClientTurn
  BY DEF EngineInv, UnregisterActivity
<1>2. PICK t \in Threads :
        /\ Linked(t, a)
        /\ Push(t, AEvent("Unregister", a))
        /\ conn' = conn \ LinksOf(a)
  BY DEF UnregisterActivity, ThreadsOf, Linked
<1>3. /\ life' = [life EXCEPT ![a] = "unregistered"]
      /\ UNCHANGED <<mpc, threads, listening, pc, activity_set>>
  BY DEF UnregisterActivity, runvars
<1>4. /\ life[a] = "registered" /\ \A u \in Threads : Uses(u, a) => u = t
      /\ \A u \in Threads : ~Leaving(u, a)
  BY <1>2 DEF LinkInv, LinkRel, LinkedUser, LeavingLife
<1>5. pc[t] \in {"start", "loop", "timer"} /\ ~Contains(eq[t], LeaveEvents)
  BY <1>1, <1>2 DEF Linked, LinksInService, Usable
<1>6. /\ eq'[t] = Append(eq[t], AEvent("Unregister", a)) /\ eq[t] \in Seq(ThreadEvent)
      /\ \A u \in Threads \ {t} : eq'[u] = eq[u]
  BY <1>1, <1>2 DEF Push, TypeOK
<1>7. AEvent("Unregister", a).type = "Unregister" /\ AEvent("Unregister", a).a = a
  BY DEF AEvent
<1>8. /\ \A ty, b : Has(eq'[t], ty, b) <=> Has(eq[t], ty, b) \/ (ty = "Unregister" /\ b = a)
      /\ InOrder(eq'[t])
  BY <1>4, <1>5, <1>6, <1>7, EventsAppend DEF Leaving, LinkInv
<1>9. \A u \in Threads : InOrder(eq'[u])
  BY <1>6, <1>8 DEF LinkInv
<1>10. \A u \in Threads, b \in Activities :
         /\ Linked(u, b)' <=> Linked(u, b) /\ b # a
         /\ Entered(u, b)' <=> Entered(u, b)
         /\ Leaving(u, b)' <=> Leaving(u, b) \/ (u = t /\ b = a)
         /\ Uses(u, b)' <=> Uses(u, b) \/ (u = t /\ b = a)
  <2>1. \A u \in Threads, b \in Activities : Linked(u, b)' <=> Linked(u, b) /\ b # a
    BY <1>2 DEF Linked, LinksOf
  <2>2. \A u \in Threads, b \in Activities :
         /\ Entered(u, b)' <=> Entered(u, b)
         /\ Leaving(u, b)' <=> Leaving(u, b) \/ (u = t /\ b = a)
    <3>1. \A b \in Activities : /\ Has(eq'[t], "Register", b) <=> Has(eq[t], "Register", b)
                                /\ Has(eq'[t], "Unregister", b)
                                     <=> Has(eq[t], "Unregister", b) \/ b = a
      BY <1>8
    <3> QED BY <1>3, <1>6, <3>1 DEF Entered, Leaving
  <2> QED BY <2>1, <2>2 DEF Uses
<1>11. LinkRel'
  <2>1. \A b \in Activities : /\ b # a => life'[b] = life[b]
                              /\ b = a => life'[b] = "unregistered"
    BY <1>1, <1>3 DEF TypeOK
  <2>2. OneUser'
    BY <1>4, <1>10 DEF LinkInv, LinkRel, OneUser
  <2>3. NewUnused' /\ LeavingLife'
    BY <1>4, <1>10, <2>1 DEF LinkInv, LinkRel, NewUnused, LeavingLife
  <2>4. LinkedUser'
    BY <1>4, <1>10, <2>1 DEF LinkInv, LinkRel, LinkedUser
  <2>5. RegisteredEntered' /\ EnteredLeaves'
    <3>1. RegisteredEntered'
      BY <1>1, <1>10, <2>1 DEF LinkInv, LinkRel, RegisteredEntered
    <3>2. \A u \in Threads : Entered(u, a) => u = t
      BY <1>4 DEF Uses
    <3>3. EnteredLeaves'
      BY <1>1, <1>10, <3>2 DEF LinkInv, LinkRel, EnteredLeaves
    <3> QED BY <3>1, <3>3
  <2> QED BY <2>2, <2>3, <2>4, <2>5 DEF LinkRel
<1>12. ThreadsAlive'
  <2>1. ASSUME NEW u \in Threads, u # t
        PROVE  pc'[u] \in {"drain", "exit", "done"} => ~Contains(eq'[u], StartStop)
    BY <1>3, <1>6, <2>1 DEF LinkInv, ThreadsAlive
  <2> QED BY <1>1, <1>3, <1>5, <2>1 DEF LinkInv, ThreadsAlive, Runs, ClientTurn
<1>13. OthersStay(a)
  BY <1>10 DEF OthersStay
<1>14. SameWaiting({})
  <2>1. \A b \in Activities : Has(eq'[t], "Register", b) <=> Has(eq[t], "Register", b)
    BY <1>8
  <2> QED BY <1>6, <2>1 DEF SameWaiting
<1>15. LinkInv'
  BY <1>9, <1>11, <1>12 DEF LinkInv
<1> QED BY <1>4, <1>13, <1>14, <1>15

LEMMA LinkAutoDestroy ==
  ASSUME LinkInv, TypeOK, OnAutoDestroy
  PROVE  LinkInv' /\ NobodyMoves
<1>1. /\ UNCHANGED <<life, conn, activity_set, eq, pc, mpc>>
      /\ \E gone \in SUBSET Threads : /\ threads' = threads \ gone
                                      /\ listening' = listening \ gone
                                      /\ \A t \in gone : pc[t] = "done"
  BY DEF OnAutoDestroy, runvars, TypeOK
<1>2. ThreadsAlive'
  BY <1>1 DEF LinkInv, ThreadsAlive, Runs, ClientTurn
<1>3. \A t \in Threads : QueueQuiet(t)
  BY <1>1 DEF QueueQuiet
<1> QED BY <1>1, <1>2, <1>3, LinkQuiet DEF ClientTurn

LEMMA LinkFinishDelete ==
  ASSUME LinkInv, TypeOK, FinishDelete
  PROVE  LinkInv' /\ NobodyMoves
<1>1. /\ UNCHANGED <<life, activity_set, eq, pc, mpc>>
      /\ ~ClientTurn' /\ conn' \subseteq conn
      /\ threads' = threads \ {joining} /\ pc[joining] = "done"
  BY DEF FinishDelete, runvars, ClientTurn, Joined
<1>2. \A t \in Threads, a \in Activities : 
        /\ Linked(t, a)' => Linked(t, a)
        /\ Entered(t, a)' => Entered(t, a)
        /\ Leaving(t, a)' => Leaving(t, a)
  BY <1>1 DEF Linked, Entered, Leaving
<1>3. LinkRel'
  BY <1>1, <1>2, RelationsKept DEF LinkInv
<1>4. ThreadsAlive'
  BY <1>1 DEF LinkInv, ThreadsAlive, Runs
<1>5. \A t \in Threads : InOrder(eq'[t])
  BY <1>1 DEF LinkInv
<1>6. NobodyMoves
  BY <1>1 DEF NobodyMoves
<1> QED BY <1>3, <1>4, <1>5, <1>6 DEF LinkInv

(***************************************************************************)
(* The steps that push other events, or none.                              *)
(***************************************************************************)
LEMMA OtherEventsQuiet ==
  ASSUME TypeOK, NEW t \in Threads, NEW e \in ThreadEvent, e.type \notin StartStop, Push(t, e)
  PROVE  \A u \in Threads : QueueQuiet(u)
BY DEF TypeOK, Push, QueueQuiet

LEMMA LinkMain ==
  ASSUME LinkInv, TypeOK,
         \/ \E a \in Activities : PostTo(a)
         \/ ExitEventLoop \/ TakeEvents \/ OnResult \/ OnActivityExited \/ OnExitLoop
         \/ \E p \in calls : Notify(p)
         \/ StartFinish \/ \E t \in Threads : FinishExit(t)
         \/ FinishEnd
         \/ \E tm \in Timers : Expire(tm)
         \/ UNCHANGED vars
  PROVE  LinkInv' /\ NobodyMoves /\ QueuesQuiet
<1> USE DEF vars, mainvars, runvars, ClientTurn
<1>1. ASSUME UNCHANGED eq PROVE \A t \in Threads : QueueQuiet(t)
  BY <1>1 DEF QueueQuiet
<1>2. ASSUME NEW a \in Activities, PostTo(a) PROVE LinkInv' /\ NobodyMoves /\ QueuesQuiet
  <2>1. PICK e \in ThreadEvent : PostEvent(a, e) /\ e.type \notin StartStop
    BY <1>2, ThreadEventsMade, ActivityAssumption, ZenonT(60) DEF PostTo, AEvent, StartStop
  <2>2. PICK t \in Threads : Push(t, e)
    BY <2>1 DEF PostEvent, ThreadsOf
  <2> QED BY <2>1, <2>2, OtherEventsQuiet, LinkMainStep DEF PostEvent
<1>3. CASE ExitEventLoop \/ TakeEvents \/ OnResult \/ OnExitLoop \/ (\E p \in calls : Notify(p))
  <2>1. UNCHANGED <<life, conn, threads, listening, pc, activity_set, eq>> /\ (ClientTurn' => ClientTurn)
    BY <1>3 DEF ExitEventLoop, TakeEvents, OnResult, OnExitLoop, Notify, NextEvent
  <2> QED BY <1>1, <2>1, LinkMainStep
<1>4. CASE OnActivityExited
  <2>1. UNCHANGED <<life, conn, threads, listening, pc, activity_set, mpc>>
    BY <1>4 DEF OnActivityExited
  <2>2. \A t \in Threads : QueueQuiet(t)
    <3>1. CASE UNCHANGED eq
      BY <1>1, <3>1
    <3>2. CASE Push(Head(qcopy).t, Event("ZeroActivities"))
      <4>1. Head(qcopy).t \in Threads
        BY <1>4, NextEventType, LoopEventFields DEF OnActivityExited, TypeOK
      <4> QED BY <3>2, <4>1, ThreadEventsMade, OtherEventsQuiet DEF Event, StartStop
    <3> QED BY <1>4, <3>1, <3>2 DEF OnActivityExited
  <2> QED BY <2>1, <2>2, LinkMainStep
<1>5. CASE StartFinish \/ FinishEnd \/ UNCHANGED vars
  <2>1. UNCHANGED <<life, conn, threads, listening, pc, activity_set, eq>> /\ (ClientTurn' => ClientTurn)
    BY <1>5 DEF StartFinish, FinishEnd
  <2> QED BY <1>1, <2>1, LinkMainStep
<1>6. ASSUME NEW t \in Threads, FinishExit(t) PROVE LinkInv' /\ NobodyMoves /\ QueuesQuiet
  <2>1. UNCHANGED <<life, conn, threads, listening, pc, activity_set, mpc>>
    BY <1>6 DEF FinishExit
  <2>2. \A u \in Threads : QueueQuiet(u)
    <3>1. CASE UNCHANGED eq
      BY <1>1, <3>1
    <3>2. CASE Push(t, Event("ThreadExit"))
      BY <3>2, ThreadEventsMade, OtherEventsQuiet DEF Event, StartStop
    <3> QED BY <1>6, <3>1, <3>2 DEF FinishExit
  <2> QED BY <2>1, <2>2, LinkMainStep
<1>7. ASSUME NEW tm \in Timers, Expire(tm) PROVE LinkInv' /\ NobodyMoves /\ QueuesQuiet
  <2>1. UNCHANGED <<life, conn, threads, listening, pc, activity_set, mpc>>
    BY <1>7 DEF Expire
  <2>2. \A u \in Threads : QueueQuiet(u)
    BY <1>7, ThreadEventsMade DEF Expire, QueueQuiet, StartStop
  <2> QED BY <2>1, <2>2, LinkMainStep
<1> QED BY <1>2, <1>3, <1>4, <1>5, <1>6, <1>7

(***************************************************************************)
(* What a background thread does to them.                                  *)
(***************************************************************************)
LEMMA LinkRunQuiet ==
  ASSUME LinkInv, TypeOK, NEW t \in Threads,
         UNCHANGED <<mainvars, activity_set>>,
         QueueQuiet(t), \A u \in Threads \ {t} : eq'[u] = eq[u] /\ pc'[u] = pc[u],
         Runs(t),
         pc'[t] = "done" => activity_set[t] = {},
         pc'[t] \in {"drain", "exit", "done"} => ~Contains(eq'[t], StartStop)
  PROVE  LinkInv' /\ NobodyMoves /\ QueuesQuiet
<1>1. \A u \in Threads : QueueQuiet(u)
  BY DEF QueueQuiet
<1>2. ThreadsAlive'
  BY DEF LinkInv, ThreadsAlive, Runs, mainvars, ClientTurn
<1> QED BY <1>1, <1>2, LinkQuiet DEF mainvars, ClientTurn

LEMMA LinkHandleRegister ==
  ASSUME LinkInv, TypeOK, NEW t \in Threads, HandleRegister(t)
  PROVE  /\ LinkInv' /\ NobodyEnters
         /\ \E a \in Activities :
              /\ Has(eq[t], "Register", a)
              /\ activity_set' = [activity_set EXCEPT ![t] = @ \union {a}]
              /\ SameWaiting({a})
<1>1. PICK a \in Activities : a = Head(eq[t]).a
  <2>1. Dequeue(t, {"Register"}) /\ eq \in [Threads -> Seq(ThreadEvent)]
    BY DEF HandleRegister, TypeOK
  <2>2. Head(eq[t]) \in ThreadEvent /\ Head(eq[t]).type = "Register"
    BY <2>1, DequeueType
  <2> QED BY <2>2, ThreadEventFields
<1>2. /\ UNCHANGED <<mainvars, pc>> /\ pc[t] = "loop"
      /\ activity_set' = [activity_set EXCEPT ![t] = @ \union {a}]
      /\ eq[t] # <<>> /\ Head(eq[t]).type = "Register" /\ eq[t] \in Seq(ThreadEvent)
      /\ eq'[t] = Tail(eq[t]) /\ \A u \in Threads \ {t} : eq'[u] = eq[u]
  BY <1>1 DEF HandleRegister, Dequeue, Idle, TypeOK
<1>3. /\ \A b : /\ Has(eq[t], "Register", b) <=> Has(eq'[t], "Register", b) \/ b = a
                /\ Has(eq[t], "Unregister", b) <=> Has(eq'[t], "Unregister", b)
      /\ InOrder(eq'[t])
  <2>1. InOrder(eq[t])
    BY DEF LinkInv
  <2> QED BY <1>1, <1>2, <2>1, EventsTail
<1>4. \A u \in Threads, b \in Activities :
        /\ Linked(u, b)' <=> Linked(u, b)
        /\ Entered(u, b)' <=> Entered(u, b)
        /\ Leaving(u, b)' <=> Leaving(u, b)
  <2>1. ASSUME NEW b \in Activities
        PROVE  (Entered(t, b)' <=> Entered(t, b)) /\ (Leaving(t, b)' <=> Leaving(t, b))
    BY <1>2, <1>3 DEF Entered, Leaving, TypeOK
  <2>2. ASSUME NEW u \in Threads, u # t, NEW b \in Activities
        PROVE  (Entered(u, b)' <=> Entered(u, b)) /\ (Leaving(u, b)' <=> Leaving(u, b))
    BY <1>2, <2>2 DEF Entered, Leaving, TypeOK
  <2>3. \A u \in Threads, b \in Activities : Linked(u, b)' <=> Linked(u, b)
    BY <1>2 DEF Linked, mainvars
  <2> QED BY <2>1, <2>2, <2>3
<1>5. LinkRel'
  BY <1>2, <1>4, RelationsKept DEF LinkInv, mainvars, ClientTurn
<1>6. ThreadsAlive'
  BY <1>2 DEF LinkInv, ThreadsAlive, Runs, mainvars, ClientTurn, TypeOK
<1>7. NobodyEnters
  BY <1>4 DEF NobodyEnters, Uses
<1>8. Has(eq[t], "Register", a) /\ SameWaiting({a})
  BY <1>2, <1>3 DEF SameWaiting
<1>9. LinkInv'
  BY <1>2, <1>3, <1>5, <1>6 DEF LinkInv
<1> QED BY <1>2, <1>7, <1>8, <1>9

LEMMA LinkHandleUnregister ==
  ASSUME LinkInv, TypeOK, NEW t \in Threads, HandleUnregister(t)
  PROVE  /\ LinkInv' /\ NobodyEnters
         /\ \E a \in Activities :
              /\ a = Head(eq[t]).a /\ Leaving(t, a) /\ ~Has(eq[t], "Register", a)
              /\ ~Uses(t, a)'
              /\ activity_set' = [activity_set EXCEPT ![t] = @ \ {a}]
              /\ SameWaiting({a})
<1>1. PICK a \in Activities : a = Head(eq[t]).a
  <2>1. Dequeue(t, {"Unregister"}) /\ eq \in [Threads -> Seq(ThreadEvent)]
    BY DEF HandleUnregister, TypeOK
  <2>2. Head(eq[t]) \in ThreadEvent /\ Head(eq[t]).type = "Unregister"
    BY <2>1, DequeueType
  <2> QED BY <2>2, ThreadEventFields
<1>2. /\ UNCHANGED <<mainvars, pc>> /\ pc[t] = "loop"
      /\ activity_set' = [activity_set EXCEPT ![t] = @ \ {a}]
      /\ eq[t] # <<>> /\ Head(eq[t]).type = "Unregister" /\ eq[t] \in Seq(ThreadEvent)
      /\ eq'[t] = Tail(eq[t]) /\ \A u \in Threads \ {t} : eq'[u] = eq[u]
  BY <1>1 DEF HandleUnregister, ExitActivity, Dequeue, Idle, TypeOK
<1>3. /\ \A b : /\ Has(eq[t], "Register", b) <=> Has(eq'[t], "Register", b)
                /\ Has(eq[t], "Unregister", b) <=> Has(eq'[t], "Unregister", b) \/ b = a
      /\ ~Has(eq'[t], "Register", a) /\ ~Has(eq'[t], "Unregister", a)
      /\ InOrder(eq'[t])
  <2>1. InOrder(eq[t])
    BY DEF LinkInv
  <2> QED BY <1>1, <1>2, <2>1, EventsTail DEF StartStop
<1>4. \A u \in Threads, b \in Activities :
        /\ Linked(u, b)' <=> Linked(u, b)
        /\ Entered(u, b)' <=> Entered(u, b) /\ ~(u = t /\ b = a)
        /\ Leaving(u, b)' <=> Leaving(u, b) /\ ~(u = t /\ b = a)
  <2>1. ASSUME NEW b \in Activities
        PROVE  /\ Entered(t, b)' <=> Entered(t, b) /\ b # a
               /\ Leaving(t, b)' <=> Leaving(t, b) /\ b # a
    BY <1>2, <1>3 DEF Entered, Leaving, TypeOK
  <2>2. ASSUME NEW u \in Threads, u # t, NEW b \in Activities
        PROVE  (Entered(u, b)' <=> Entered(u, b)) /\ (Leaving(u, b)' <=> Leaving(u, b))
    BY <1>2, <2>2 DEF Entered, Leaving, TypeOK
  <2>3. \A u \in Threads, b \in Activities : Linked(u, b)' <=> Linked(u, b)
    BY <1>2 DEF Linked, mainvars
  <2> QED BY <2>1, <2>2, <2>3
<1>8. Leaving(t, a)
  BY <1>3 DEF Leaving
<1>5. life[a] = "unregistered"
  BY <1>8 DEF LinkInv, LinkRel, LeavingLife
<1>6. LinkRel'
  BY <1>2, <1>4, <1>5, RelationsKept DEF LinkInv, mainvars, ClientTurn
<1>7. ThreadsAlive'
  BY <1>2 DEF LinkInv, ThreadsAlive, Runs, mainvars, ClientTurn, TypeOK
<1>9. NobodyEnters /\ ~Uses(t, a)'
  BY <1>4 DEF NobodyEnters, Uses
<1>10. ~Has(eq[t], "Register", a) /\ SameWaiting({a})
  BY <1>2, <1>3 DEF SameWaiting
<1>11. LinkInv'
  BY <1>2, <1>3, <1>6, <1>7 DEF LinkInv
<1> QED BY <1>1, <1>2, <1>8, <1>9, <1>10, <1>11

LEMMA LinkQuit ==
  ASSUME EngineInv, LinkInv, NEW t \in Threads, NEW a \in Activities, QuitActivity(t, a)
  PROVE  LinkInv' /\ NobodyEnters /\ ~ClientTurn
<1>1. TypeOK
  BY DEF EngineInv
<1>2. /\ UNCHANGED <<mainvars, pc, eq>> /\ pc[t] = "exit" /\ a \in activity_set[t]
      /\ activity_set' = [activity_set EXCEPT ![t] = @ \ {a}]
  BY DEF QuitActivity, ExitActivity
<1>3. ~ClientTurn
  BY <1>2, QuitsOnlyAtFinish
<1>4. \A u \in Threads, b \in Activities :
        /\ Linked(u, b)' => Linked(u, b)
        /\ Entered(u, b)' => Entered(u, b)
        /\ Leaving(u, b)' => Leaving(u, b)
  BY <1>1, <1>2 DEF Linked, Entered, Leaving, mainvars, TypeOK
<1>5. LinkRel'
  BY <1>2, <1>3, <1>4, RelationsKept DEF LinkInv, mainvars, ClientTurn
<1>6. ThreadsAlive'
  BY <1>1, <1>2 DEF LinkInv, ThreadsAlive, Runs, mainvars, ClientTurn, TypeOK
<1>7. NobodyEnters
  BY <1>4 DEF NobodyEnters, Uses
<1> QED BY <1>2, <1>3, <1>5, <1>6, <1>7 DEF LinkInv

LEMMA LinkRunOther ==
  ASSUME EngineInv, LinkInv, NEW t \in Threads,
         \/ Start(t) \/ JoinTimer(t) \/ HandleTimer(t) \/ HandlePost(t) \/ EndTimer(t)
         \/ LeaveLoop(t) \/ Drain(t) \/ EndRun(t)
         \/ \E a \in Activities : ExecuteOnTimer(t, a)
  PROVE  LinkInv' /\ NobodyMoves /\ QueuesQuiet
<1>1. TypeOK /\ eq[t] \in Seq(ThreadEvent)
  BY DEF EngineInv, TypeOK
<1>2. CASE Start(t)
  BY <1>1, <1>2, LinkRunQuiet DEF Start, QueueQuiet, Runs, TypeOK
<1>3. CASE JoinTimer(t)
  BY <1>1, <1>3, LinkMainStep, SMTT(30) DEF JoinTimer, QueueQuiet, mainvars, runvars, ClientTurn
<1>4. CASE HandleTimer(t) \/ HandlePost(t)
  BY <1>1, <1>4, LinkRunQuiet, ZenonT(60) DEF HandleTimer, HandlePost, Dequeue, Idle, QueueQuiet, Runs,
                                  StartStop, TypeOK
<1>5. CASE EndTimer(t) \/ \E a \in Activities : ExecuteOnTimer(t, a)
  BY <1>1, <1>5, LinkRunQuiet, ZenonT(60) DEF EndTimer, ExecuteOnTimer, Idle, QueueQuiet, Runs, TypeOK
<1>6. CASE LeaveLoop(t)
  <2>1. /\ UNCHANGED <<mainvars, activity_set>> /\ pc' = [pc EXCEPT ![t] = "drain"]
        /\ eq[t] # <<>> /\ Head(eq[t]).type \in LeaveEvents /\ eq'[t] = Tail(eq[t])
        /\ pc[t] = "loop" /\ \A u \in Threads \ {t} : eq'[u] = eq[u]
    BY <1>1, <1>6 DEF LeaveLoop, Dequeue, Idle, LeaveEvents, TypeOK
  <2>2. ~Contains(eq'[t], StartStop)
    BY <1>1, <2>1, EventsTail DEF LinkInv
  <2> QED BY <1>1, <2>1, <2>2, LinkRunQuiet DEF QueueQuiet, Runs, StartStop, LeaveEvents, TypeOK
<1>7. CASE Drain(t)
  <2>1. ~Contains(eq[t], StartStop)
    BY <1>7 DEF Drain, LinkInv, ThreadsAlive
  <2>2. CASE eq[t] # <<>>
    <3>1. eq'[t] = Tail(eq[t]) /\ ~Contains(eq'[t], StartStop)
      <4>1. eq'[t] = Tail(eq[t])
        BY <1>1, <1>7, <2>2 DEF Drain, TypeOK
      <4> QED BY <1>1, <2>1, <2>2, <4>1, QueueTail
    <3>2. Head(eq[t]).type \notin StartStop
      BY <1>1, <2>1, <2>2, QueueTail
    <3> QED BY <1>1, <1>7, <2>2, <3>1, <3>2, LinkRunQuiet DEF Drain, QueueQuiet, Runs, TypeOK
  <2>3. CASE eq[t] = <<>>
    BY <1>1, <1>7, <2>1, <2>3, LinkRunQuiet DEF Drain, QueueQuiet, Runs, TypeOK
  <2> QED BY <2>2, <2>3
<1>8. CASE EndRun(t)
  <2>1. ~Contains(eq[t], StartStop)
    BY <1>8 DEF EndRun, LinkInv, ThreadsAlive
  <2> QED BY <1>1, <1>8, <2>1, LinkRunQuiet DEF EndRun, QueueQuiet, Runs, TypeOK
<1> QED BY <1>1, <1>2, <1>3, <1>4, <1>5, <1>6, <1>7, <1>8

LEMMA LinkInit == Init => LinkInv
<1> SUFFICES ASSUME Init PROVE LinkInv
  OBVIOUS
<1>1. /\ \A t \in Threads, a \in Activities :
           ~Linked(t, a) /\ ~Uses(t, a) /\ ~Entered(t, a) /\ ~Leaving(t, a)
      /\ \A a \in Activities : life[a] = "new"
  BY DEF Init, Linked, Uses, Entered, Leaving, Has
<1>2. LinkRel
  BY <1>1 DEF LinkRel, OneUser, NewUnused, LinkedUser, LeavingLife, RegisteredEntered,
              EnteredLeaves
<1>3. ThreadsAlive
  BY DEF Init, ThreadsAlive, Runs
<1>4. \A t \in Threads : InOrder(eq[t])
  BY DEF Init, InOrder
<1> QED BY <1>2, <1>3, <1>4 DEF LinkInv

-------------------------------------------------------------------------------
(***************************************************************************)
(* The queue of the event loop, from the batch being dispatched on.        *)
(***************************************************************************)
ExitOf(q, a) == \E i \in DOMAIN q : q[i].type = "Exit" /\ q[i].a = a
ExitFrom(q, t) == \E i \in DOMAIN q : q[i].type = "Exit" /\ q[i].t = t
EndOf(q, t) == \E i \in DOMAIN q : q[i].type = "AutoDestroy" /\ q[i].t = t

\* an activity exits once, and nothing exits from a thread that has ended
ExitsInOrder(q) ==
  \A i, j \in DOMAIN q : i < j /\ q[j].type = "Exit" =>
    /\ q[i].type = "Exit" => q[i].a # q[j].a
    /\ q[i].type = "AutoDestroy" => q[i].t # q[j].t

LEMMA LoopAppend ==
  ASSUME NEW q \in Seq(LoopEvent), NEW e
  PROVE  /\ \A a : ExitOf(Append(q, e), a) <=> ExitOf(q, a) \/ (e.type = "Exit" /\ e.a = a)
         /\ \A t : ExitFrom(Append(q, e), t) <=> ExitFrom(q, t) \/ (e.type = "Exit" /\ e.t = t)
         /\ \A t : EndOf(Append(q, e), t) <=> EndOf(q, t) \/ (e.type = "AutoDestroy" /\ e.t = t)
         /\ ExitsInOrder(q) /\ (e.type = "Exit" => ~ExitOf(q, e.a) /\ ~EndOf(q, e.t))
              => ExitsInOrder(Append(q, e))
<1>1. /\ DOMAIN Append(q, e) = DOMAIN q \union {Len(q) + 1}
      /\ Len(q) \in Nat /\ DOMAIN q = 1..Len(q)
      /\ \A i \in DOMAIN q : Append(q, e)[i] = q[i]
      /\ Append(q, e)[Len(q) + 1] = e
  OBVIOUS
<1>2. \A a : ExitOf(Append(q, e), a) <=> ExitOf(q, a) \/ (e.type = "Exit" /\ e.a = a)
  BY <1>1 DEF ExitOf
<1>3. \A t : ExitFrom(Append(q, e), t) <=> ExitFrom(q, t) \/ (e.type = "Exit" /\ e.t = t)
  BY <1>1 DEF ExitFrom
<1>4. \A t : EndOf(Append(q, e), t) <=> EndOf(q, t) \/ (e.type = "AutoDestroy" /\ e.t = t)
  BY <1>1 DEF EndOf
<1>5. ASSUME ExitsInOrder(q), e.type = "Exit" => ~ExitOf(q, e.a) /\ ~EndOf(q, e.t)
      PROVE  ExitsInOrder(Append(q, e))
  BY <1>1, <1>5 DEF ExitsInOrder, ExitOf, EndOf
<1> QED BY <1>2, <1>3, <1>4, <1>5

LEMMA LoopTail ==
  ASSUME NEW q \in Seq(LoopEvent), q # <<>>
  PROVE  /\ \A a : ExitOf(q, a) <=> ExitOf(Tail(q), a) \/ (Head(q).type = "Exit" /\ Head(q).a = a)
         /\ \A t : ExitFrom(Tail(q), t) => ExitFrom(q, t)
         /\ \A t : EndOf(q, t) <=> EndOf(Tail(q), t) \/ (Head(q).type = "AutoDestroy" /\ Head(q).t = t)
         /\ Head(q).type = "Exit" => ExitFrom(q, Head(q).t)
         /\ ExitsInOrder(q) => ExitsInOrder(Tail(q))
         /\ ExitsInOrder(q) /\ Head(q).type = "Exit" => ~ExitOf(Tail(q), Head(q).a)
         /\ ExitsInOrder(q) /\ Head(q).type = "AutoDestroy" => ~ExitFrom(Tail(q), Head(q).t)
<1>1. /\ Len(q) \in Nat /\ 1 \in DOMAIN q /\ DOMAIN q = 1..Len(q) /\ q[1] = Head(q)
      /\ \A i \in DOMAIN Tail(q) : Tail(q)[i] = q[i + 1] /\ i + 1 \in DOMAIN q /\ 1 < i + 1
      /\ DOMAIN Tail(q) \subseteq Nat
      /\ \A i \in DOMAIN q : i = 1 \/ (i - 1 \in DOMAIN Tail(q) /\ Tail(q)[i - 1] = q[i])
  OBVIOUS
<1>2. \A a : ExitOf(q, a) <=> ExitOf(Tail(q), a) \/ (Head(q).type = "Exit" /\ Head(q).a = a)
  <2> SUFFICES ASSUME NEW a
               PROVE  ExitOf(q, a) <=> ExitOf(Tail(q), a) \/ (Head(q).type = "Exit" /\ Head(q).a = a)
    OBVIOUS
  <2>1. ASSUME ExitOf(q, a), ~(Head(q).type = "Exit" /\ Head(q).a = a) PROVE ExitOf(Tail(q), a)
    BY <1>1, <2>1, ZenonT(60) DEF ExitOf
  <2>2. ASSUME ExitOf(Tail(q), a) \/ (Head(q).type = "Exit" /\ Head(q).a = a) PROVE ExitOf(q, a)
    BY <1>1, <2>2 DEF ExitOf
  <2> QED BY <2>1, <2>2
<1>3. /\ \A t : ExitFrom(Tail(q), t) => ExitFrom(q, t)
      /\ Head(q).type = "Exit" => ExitFrom(q, Head(q).t)
  BY <1>1 DEF ExitFrom
<1>4. \A t : EndOf(q, t) <=> EndOf(Tail(q), t) \/ (Head(q).type = "AutoDestroy" /\ Head(q).t = t)
  <2> SUFFICES ASSUME NEW t
               PROVE  EndOf(q, t) <=> EndOf(Tail(q), t) \/ (Head(q).type = "AutoDestroy" /\ Head(q).t = t)
    OBVIOUS
  <2>1. ASSUME EndOf(q, t), ~(Head(q).type = "AutoDestroy" /\ Head(q).t = t) PROVE EndOf(Tail(q), t)
    BY <1>1, <2>1, ZenonT(60) DEF EndOf
  <2>2. ASSUME EndOf(Tail(q), t) \/ (Head(q).type = "AutoDestroy" /\ Head(q).t = t) PROVE EndOf(q, t)
    BY <1>1, <2>2 DEF EndOf
  <2> QED BY <2>1, <2>2
<1>5. ExitsInOrder(q) => ExitsInOrder(Tail(q))
  <2> SUFFICES ASSUME ExitsInOrder(q),
                      NEW i \in DOMAIN Tail(q), NEW j \in DOMAIN Tail(q),
                      i < j, Tail(q)[j].type = "Exit"
               PROVE  /\ Tail(q)[i].type = "Exit" => Tail(q)[i].a # Tail(q)[j].a
                      /\ Tail(q)[i].type = "AutoDestroy" => Tail(q)[i].t # Tail(q)[j].t
    BY DEF ExitsInOrder
  <2>1. i + 1 < j + 1
    BY <1>1
  <2> QED BY <1>1, <2>1 DEF ExitsInOrder
<1>6. ExitsInOrder(q) /\ Head(q).type = "Exit" => ~ExitOf(Tail(q), Head(q).a)
  BY <1>1 DEF ExitsInOrder, ExitOf
<1>7. ExitsInOrder(q) /\ Head(q).type = "AutoDestroy" => ~ExitFrom(Tail(q), Head(q).t)
  BY <1>1 DEF ExitsInOrder, ExitFrom
<1> QED BY <1>2, <1>3, <1>4, <1>5, <1>6, <1>7

(***************************************************************************)
(* How Undelivered, the batch and then the queue, changes with them.       *)
(***************************************************************************)
LEMMA UndeliveredMoves ==
  ASSUME TypeOK
  PROVE  /\ Undelivered \in Seq(LoopEvent)
         /\ UNCHANGED <<qcopy, loopq>> => Undelivered' = Undelivered
         /\ TakeEvents => Undelivered' = Undelivered
         /\ qcopy # <<>> /\ qcopy' = Tail(qcopy) /\ loopq' = loopq
              => /\ Undelivered # <<>> /\ Head(Undelivered) = Head(qcopy)
                 /\ Undelivered' = Tail(Undelivered)
         /\ \A e \in LoopEvent : qcopy' = qcopy /\ loopq' = Append(loopq, e)
              => Undelivered' = Append(Undelivered, e)
<1>1. qcopy \in Seq(LoopEvent) /\ loopq \in Seq(LoopEvent)
  BY DEF TypeOK
<1>2. Undelivered \in Seq(LoopEvent)
  BY <1>1, ConcatProperties DEF Undelivered
<1>3. UNCHANGED <<qcopy, loopq>> => Undelivered' = Undelivered
  BY DEF Undelivered
<1>4. TakeEvents => Undelivered' = Undelivered
  BY <1>1, ConcatEmptySeq DEF Undelivered, TakeEvents
<1>5. ASSUME qcopy # <<>>, qcopy' = Tail(qcopy), loopq' = loopq
      PROVE  /\ Undelivered # <<>> /\ Head(Undelivered) = Head(qcopy)
             /\ Undelivered' = Tail(Undelivered)
  BY <1>1, <1>5, ConcatSimplifications, ConcatProperties, HeadTailProperties, SMTT(30) DEF Undelivered
<1>6. ASSUME NEW e \in LoopEvent, qcopy' = qcopy, loopq' = Append(loopq, e)
      PROVE  Undelivered' = Append(Undelivered, e)
  BY <1>1, <1>6, AppendIsConcat, ConcatAssociative, ConcatProperties DEF Undelivered
<1> QED BY <1>2, <1>3, <1>4, <1>5, <1>6

-------------------------------------------------------------------------------
(***************************************************************************)
(* An activity at its end: its exit event, its deletion.                   *)
(***************************************************************************)
\* an activity whose exit is to be told is in no thread any more
ExitFinal ==
  \A a \in Activities : ExitOf(Undelivered, a) =>
    life[a] = "unregistered" /\ freed[a] = 0 /\ \A t \in Threads : ~Uses(t, a)

\* nor is one that was deleted, but for the threads finish has joined
FreedFinal ==
  \A a \in Activities : freed[a] > 0 =>
    /\ \A t \in Threads : ~Linked(t, a) /\ (t \in threads => ~Uses(t, a))
    /\ ClientTurn => life[a] = "unregistered" /\ \A t \in Threads : ~Uses(t, a)

\* the order of events is that of threads: they exit their activities, they end
EndedThreads ==
  \A t \in Threads : EndOf(Undelivered, t) => pc[t] = "done"

ExitsHeard ==
  ClientTurn => \A t \in Threads : ExitFrom(Undelivered, t) => t \in listening

OneListener == \A l, m \in Listeners : l = m

GoneInv ==
  /\ ExitFinal /\ FreedFinal
  /\ ExitsInOrder(Undelivered) /\ EndedThreads /\ ExitsHeard
  /\ ClientTurn \/ OneListener => DeletedOnce

LEMMA FinalKept ==
  ASSUME ExitFinal, FreedFinal, NobodyEnters, UNCHANGED <<life, freed>>,
         threads' \subseteq threads, ClientTurn' => ClientTurn,
         \A a \in Activities : ExitOf(Undelivered', a) => ExitOf(Undelivered, a)
  PROVE  ExitFinal' /\ FreedFinal'
<1>1. ExitFinal'
  BY DEF ExitFinal, NobodyEnters
<1>2. FreedFinal'
  BY DEF FreedFinal, NobodyEnters
<1> QED BY <1>1, <1>2

\* the queue of the event loop, but for new exits and ends
LoopQuiet ==
  \/ Undelivered' = Undelivered
  \/ \E e \in LoopEvent : e.type \notin {"Exit", "AutoDestroy"}
                          /\ Undelivered' = Append(Undelivered, e)
  \/ Undelivered # <<>> /\ Undelivered' = Tail(Undelivered)

LEMMA LoopKept ==
  ASSUME TypeOK, ExitsInOrder(Undelivered), LoopQuiet
  PROVE  /\ \A a : ExitOf(Undelivered', a) => ExitOf(Undelivered, a)
         /\ \A t : ExitFrom(Undelivered', t) => ExitFrom(Undelivered, t)
         /\ \A t : EndOf(Undelivered', t) => EndOf(Undelivered, t)
         /\ ExitsInOrder(Undelivered')
<1>1. Undelivered \in Seq(LoopEvent)
  BY UndeliveredMoves
<1>2. CASE Undelivered' = Undelivered
  BY <1>2
<1>3. ASSUME NEW e \in LoopEvent, e.type \notin {"Exit", "AutoDestroy"},
             Undelivered' = Append(Undelivered, e)
      PROVE  /\ \A a : ExitOf(Undelivered', a) => ExitOf(Undelivered, a)
             /\ \A t : ExitFrom(Undelivered', t) => ExitFrom(Undelivered, t)
             /\ \A t : EndOf(Undelivered', t) => EndOf(Undelivered, t)
             /\ ExitsInOrder(Undelivered')
  BY <1>1, <1>3, LoopAppend
<1>4. CASE Undelivered # <<>> /\ Undelivered' = Tail(Undelivered)
  BY <1>1, <1>4, LoopTail
<1> QED BY <1>2, <1>3, <1>4 DEF LoopQuiet

LEMMA GoneQuiet ==
  ASSUME GoneInv, TypeOK, LoopQuiet, NobodyEnters, UNCHANGED <<life, freed>>,
         threads' \subseteq threads,
         ClientTurn' => ClientTurn /\ listening' = listening,
         \A t \in Threads : pc[t] = "done" => pc'[t] = "done"
  PROVE  GoneInv'
<1>1. ExitFinal' /\ FreedFinal'
  BY LoopKept, FinalKept DEF GoneInv
<1>2. ExitsInOrder(Undelivered')
  BY LoopKept DEF GoneInv
<1>3. EndedThreads' /\ ExitsHeard'
  BY LoopKept DEF GoneInv, EndedThreads, ExitsHeard
<1>4. (ClientTurn \/ OneListener => DeletedOnce)'
  BY DEF GoneInv, DeletedOnce, OneListener
<1> QED BY <1>1, <1>2, <1>3, <1>4 DEF GoneInv

(***************************************************************************)
(* The steps that tell of no end.                                          *)
(***************************************************************************)
LEMMA PublishedQuiet ==
  ASSUME TypeOK, NEW t \in Threads, NEW a \in Activities,
         loopq' \in Published(t, a), qcopy' = qcopy
  PROVE  LoopQuiet
<1>1. CASE loopq' = loopq
  BY <1>1, UndeliveredMoves DEF LoopQuiet
<1>2. CASE loopq' = Append(loopq, FromThread("Result", t, a))
  <2>1. FromThread("Result", t, a) \in LoopEvent /\ FromThread("Result", t, a).type = "Result"
    BY LoopEventsMade DEF FromThread
  <2> QED BY <1>2, <2>1, UndeliveredMoves DEF LoopQuiet
<1> QED BY <1>1, <1>2 DEF Published

LEMMA GoneMain ==
  ASSUME GoneInv, LinkInv, TypeOK,
         \/ \E a \in Activities : PostTo(a)
         \/ ExitEventLoop \/ TakeEvents \/ OnResult \/ OnExitLoop
         \/ \E p \in calls : Notify(p)
         \/ StartFinish \/ \E t \in Threads : FinishExit(t)
         \/ FinishEnd
         \/ \E tm \in Timers : Expire(tm)
         \/ UNCHANGED vars
  PROVE  GoneInv'
<1> USE DEF vars, mainvars, runvars, ClientTurn
<1>1. NobodyMoves
  BY LinkMain
<1>2. /\ UNCHANGED <<life, freed, conn, threads, listening, pc>>
      /\ ClientTurn' => ClientTurn
  BY DEF PostTo, PostEvent, ExitEventLoop, TakeEvents, OnResult, OnExitLoop, Notify, NextEvent,
         StartFinish, FinishExit, FinishEnd, Expire
<1>3. LoopQuiet
  <2>1. CASE UNCHANGED <<qcopy, loopq>>
    BY <2>1, UndeliveredMoves DEF LoopQuiet
  <2>2. CASE ExitEventLoop
    BY <2>2, UndeliveredMoves, LoopEventsMade DEF ExitEventLoop, LoopQuiet, Event
  <2>3. CASE TakeEvents
    BY <2>3, UndeliveredMoves DEF LoopQuiet
  <2>4. CASE OnResult \/ OnExitLoop
    BY <2>4, UndeliveredMoves DEF OnResult, OnExitLoop, NextEvent, LoopQuiet
  <2>5. UNCHANGED <<qcopy, loopq>> \/ ExitEventLoop \/ TakeEvents \/ OnResult \/ OnExitLoop
    BY DEF PostTo, PostEvent, Notify, StartFinish, FinishExit, FinishEnd, Expire
  <2> QED BY <2>1, <2>2, <2>3, <2>4, <2>5
<1>4. NobodyEnters
  BY <1>1, <1>2, MovesNobody
<1> QED BY <1>2, <1>3, <1>4, GoneQuiet

LEMMA GoneRunQuiet ==
  ASSUME GoneInv, TypeOK, NEW t \in Threads, NobodyEnters, LoopQuiet,
         UNCHANGED mainvars, pc[t] # "done", \A u \in Threads \ {t} : pc'[u] = pc[u]
  PROVE  GoneInv'
BY GoneQuiet DEF mainvars, ClientTurn

LEMMA GoneRunOther ==
  ASSUME EngineInv, LinkInv, GoneInv, NEW t \in Threads,
         \/ Start(t) \/ JoinTimer(t) \/ HandleTimer(t) \/ HandlePost(t) \/ EndTimer(t)
         \/ LeaveLoop(t) \/ Drain(t)
         \/ \E a \in Activities : ExecuteOnTimer(t, a)
  PROVE  GoneInv'
<1>1. TypeOK
  BY DEF EngineInv
<1>2. NobodyEnters
  <2>1. conn' = conn
    BY DEF Start, JoinTimer, HandleTimer, HandlePost, EndTimer, LeaveLoop, Drain,
           ExecuteOnTimer, mainvars
  <2>2. NobodyMoves
    BY LinkRunOther
  <2> QED BY <2>1, <2>2, MovesNobody
<1>3. CASE Start(t) \/ HandleTimer(t) \/ EndTimer(t) \/ LeaveLoop(t) \/ Drain(t)
  <2>1. /\ UNCHANGED <<mainvars, loopq>> /\ pc[t] # "done"
        /\ \A u \in Threads \ {t} : pc'[u] = pc[u]
    BY <1>1, <1>3 DEF Start, HandleTimer, EndTimer, LeaveLoop, Drain, Dequeue, Idle, TypeOK
  <2>2. LoopQuiet
    BY <1>1, <2>1, UndeliveredMoves DEF LoopQuiet, mainvars
  <2> QED BY <1>1, <1>2, <2>1, <2>2, GoneRunQuiet
<1>4. CASE JoinTimer(t)
  <2>1. UNCHANGED <<mainvars, loopq, pc>>
    BY <1>4 DEF JoinTimer, runvars
  <2>2. LoopQuiet
    BY <1>1, <2>1, UndeliveredMoves DEF LoopQuiet, mainvars
  <2> QED BY <1>1, <1>2, <2>1, <2>2, GoneQuiet DEF mainvars, ClientTurn
<1>5. CASE HandlePost(t)
  <2>1. /\ UNCHANGED <<mainvars, pc>> /\ pc[t] # "done"
        /\ Dequeue(t, {"Pause", "Resume", "Execute", "TimeoutChange"})
        /\ loopq' = loopq \/ loopq' \in Published(t, Head(eq[t]).a)
    BY <1>5 DEF HandlePost, Dequeue, Idle
  <2>2. Head(eq[t]).a \in Activities
    <3>1. /\ Head(eq[t]) \in ThreadEvent
          /\ Head(eq[t]).type \in {"Pause", "Resume", "Execute", "TimeoutChange"}
      BY <1>1, <2>1, DequeueType DEF TypeOK
    <3> QED BY <3>1, ThreadEventFields
  <2>3. LoopQuiet
    BY <1>1, <2>1, <2>2, PublishedQuiet, UndeliveredMoves DEF LoopQuiet, mainvars
  <2> QED BY <1>1, <1>2, <2>1, <2>3, GoneRunQuiet
<1>6. ASSUME NEW a \in Activities, ExecuteOnTimer(t, a)
      PROVE  GoneInv'
  <2>1. /\ UNCHANGED <<mainvars, pc>> /\ pc[t] # "done"
        /\ loopq' = loopq \/ loopq' \in Published(t, a)
    BY <1>6 DEF ExecuteOnTimer, Idle
  <2>2. LoopQuiet
    BY <1>1, <2>1, PublishedQuiet, UndeliveredMoves DEF LoopQuiet, mainvars
  <2> QED BY <1>1, <1>2, <2>1, <2>2, GoneRunQuiet
<1> QED BY <1>3, <1>4, <1>5, <1>6

LEMMA GoneRegisterQuit ==
  ASSUME EngineInv, LinkInv, GoneInv, NEW t \in Threads,
         HandleRegister(t) \/ \E a \in Activities : QuitActivity(t, a)
  PROVE  GoneInv'
<1>1. TypeOK
  BY DEF EngineInv
<1>2. CASE HandleRegister(t)
  <2>1. /\ UNCHANGED <<mainvars, pc>> /\ pc[t] # "done" /\ Dequeue(t, {"Register"})
        /\ loopq' \in Published(t, Head(eq[t]).a)
    BY <1>2 DEF HandleRegister, Dequeue, Idle
  <2>2. Head(eq[t]) \in ThreadEvent /\ Head(eq[t]).type = "Register"
    BY <1>1, <2>1, DequeueType DEF TypeOK
  <2>3. Head(eq[t]).a \in Activities
    BY <2>2, ThreadEventFields
  <2>4. LoopQuiet
    BY <1>1, <2>1, <2>3, PublishedQuiet DEF mainvars
  <2> QED BY <1>1, <1>2, <2>1, <2>4, LinkHandleRegister, GoneRunQuiet
<1>3. ASSUME NEW a \in Activities, QuitActivity(t, a)
      PROVE  GoneInv'
  <2>1. /\ UNCHANGED <<mainvars, pc>> /\ pc[t] # "done"
        /\ loopq' \in Published(t, a)
    BY <1>3 DEF QuitActivity
  <2>2. LoopQuiet
    BY <1>1, <2>1, PublishedQuiet DEF mainvars
  <2> QED BY <1>1, <1>3, <2>1, <2>2, LinkQuit, GoneRunQuiet
<1> QED BY <1>2, <1>3

LEMMA GoneEndRun ==
  ASSUME EngineInv, LinkInv, GoneInv, NEW t \in Threads, EndRun(t)
  PROVE  GoneInv'
<1>1. TypeOK
  BY DEF EngineInv
<1>2. UNCHANGED mainvars /\ pc' = [pc EXCEPT ![t] = "done"] /\ pc[t] = "exit"
  BY DEF EndRun
<1>3. NobodyEnters
  <2>1. NobodyMoves
    BY LinkRunOther
  <2> QED BY <1>2, <2>1, MovesNobody DEF mainvars
<1>4. CASE ~destroy[t]
  <2>1. LoopQuiet
    BY <1>1, <1>2, <1>4, UndeliveredMoves DEF LoopQuiet, EndRun, mainvars
  <2> QED BY <1>1, <1>2, <1>3, <2>1, GoneRunQuiet DEF TypeOK
<1>5. CASE destroy[t]
  <2> DEFINE e == [type |-> "AutoDestroy", t |-> t]
  <2>1. Undelivered' = Append(Undelivered, e) /\ Undelivered \in Seq(LoopEvent)
    BY <1>1, <1>2, <1>5, UndeliveredMoves, LoopEventsMade DEF EndRun, mainvars
  <2>2. e.type = "AutoDestroy" /\ e.t = t
    OBVIOUS
  <2> HIDE DEF e
  <2>3. /\ \A a : ExitOf(Undelivered', a) => ExitOf(Undelivered, a)
        /\ \A u : ExitFrom(Undelivered', u) => ExitFrom(Undelivered, u)
        /\ \A u : EndOf(Undelivered', u) => EndOf(Undelivered, u) \/ u = t
        /\ ExitsInOrder(Undelivered')
    BY <2>1, <2>2, LoopAppend DEF GoneInv
  <2>4. ExitFinal' /\ FreedFinal'
    BY <1>2, <1>3, <2>3, FinalKept DEF GoneInv, mainvars, ClientTurn
  <2>5. EndedThreads'
    BY <1>1, <1>2, <2>3 DEF GoneInv, EndedThreads, TypeOK
  <2>6. ExitsHeard'
    BY <1>2, <2>3 DEF GoneInv, ExitsHeard, mainvars, ClientTurn
  <2>7. (ClientTurn \/ OneListener => DeletedOnce)'
    BY <1>2 DEF GoneInv, DeletedOnce, OneListener, mainvars, ClientTurn
  <2> QED BY <2>3, <2>4, <2>5, <2>6, <2>7 DEF GoneInv
<1> QED BY <1>1, <1>4, <1>5 DEF TypeOK

LEMMA ConcatAppend ==
  ASSUME NEW S, NEW q \in Seq(S), NEW r \in Seq(S), NEW e \in S
  PROVE  q \o Append(r, e) = Append(q \o r, e)
BY AppendIsConcat, ConcatAssociative, ConcatProperties

(***************************************************************************)
(* The exit event of an activity is published when it has left its thread, *)
(* the only one that had it.                                               *)
(***************************************************************************)
LEMMA ExitPublished ==
  ASSUME TypeOK, NEW t \in Threads, NEW a \in Activities, qcopy' = qcopy,
         \E q \in Published(t, a) : loopq' = Append(q, FromThread("Exit", t, a)),
         ExitsInOrder(Undelivered), ~ExitOf(Undelivered, a), ~EndOf(Undelivered, t)
  PROVE  /\ \A b : ExitOf(Undelivered', b) => ExitOf(Undelivered, b) \/ b = a
         /\ \A u : ExitFrom(Undelivered', u) => ExitFrom(Undelivered, u) \/ u = t
         /\ \A u : EndOf(Undelivered', u) => EndOf(Undelivered, u)
         /\ ExitsInOrder(Undelivered')
<1>1. PICK q \in Published(t, a) : loopq' = Append(q, FromThread("Exit", t, a))
  OBVIOUS
<1>2. qcopy \in Seq(LoopEvent) /\ loopq \in Seq(LoopEvent) /\ Undelivered \in Seq(LoopEvent)
  BY UndeliveredMoves DEF TypeOK
<1>3. q \in Seq(LoopEvent)
  BY <1>2, PublishedType
<1> DEFINE V == qcopy \o q
           r == FromThread("Result", t, a)
           e == FromThread("Exit", t, a)
<1>4. /\ r \in LoopEvent /\ e \in LoopEvent
      /\ r.type = "Result" /\ e.type = "Exit" /\ e.a = a /\ e.t = t
  BY LoopEventsMade DEF FromThread
<1>5. V \in Seq(LoopEvent) /\ Undelivered' = Append(V, e)
  <2>1. V \in Seq(LoopEvent)
    BY <1>2, <1>3, ConcatProperties
  <2>2. ASSUME NEW x \in LoopEvent
        PROVE  qcopy \o Append(q, x) = Append(V, x)
    BY <1>2, <1>3, ConcatAppend
  <2>3. Undelivered' = qcopy \o Append(q, e)
    BY <1>1 DEF Undelivered
  <2> QED BY <1>4, <2>1, <2>2, <2>3
<1>6. V = Undelivered \/ V = Append(Undelivered, r)
  <2>1. q = loopq \/ q = Append(loopq, r)
    BY DEF Published
  <2>2. ASSUME NEW x \in LoopEvent
        PROVE  qcopy \o Append(loopq, x) = Append(qcopy \o loopq, x)
    BY <1>2, ConcatAppend
  <2>3. CASE q = loopq
    BY <2>3 DEF Undelivered
  <2>4. CASE q = Append(loopq, r)
    BY <1>4, <2>2, <2>4 DEF Undelivered
  <2> QED BY <2>1, <2>3, <2>4
<1> HIDE DEF V, e, r
<1>7. /\ \A b : ExitOf(V, b) <=> ExitOf(Undelivered, b)
      /\ \A u : ExitFrom(V, u) <=> ExitFrom(Undelivered, u)
      /\ \A u : EndOf(V, u) <=> EndOf(Undelivered, u)
      /\ ExitsInOrder(V)
  <2>1. CASE V = Undelivered
    BY <2>1
  <2>2. CASE V = Append(Undelivered, r)
    BY <1>2, <1>4, <2>2, LoopAppend
  <2> QED BY <1>6, <2>1, <2>2
<1> QED BY <1>4, <1>5, <1>7, LoopAppend

LEMMA GoneHandleUnregister ==
  ASSUME EngineInv, LinkInv, GoneInv, NEW t \in Threads, HandleUnregister(t)
  PROVE  GoneInv'
<1>1. TypeOK /\ UNCHANGED <<mainvars, pc>> /\ pc[t] = "loop"
  BY DEF EngineInv, HandleUnregister, Dequeue, Idle
<1>2. NobodyEnters
  BY <1>1, LinkHandleUnregister
<1>3. PICK a \in Activities : a = Head(eq[t]).a /\ Leaving(t, a) /\ ~Uses(t, a)'
  BY <1>1, LinkHandleUnregister
<1>4. CASE loopq' = loopq
  <2>1. LoopQuiet
    BY <1>1, <1>4, UndeliveredMoves DEF LoopQuiet, mainvars
  <2> QED BY <1>1, <1>2, <2>1, GoneRunQuiet
<1>5. CASE \E q \in Published(t, a) : loopq' = Append(q, FromThread("Exit", t, a))
  <2>1. /\ t \in threads /\ (ClientTurn => t \in listening)
        /\ life[a] = "unregistered" /\ Uses(t, a)
        /\ \A u \in Threads : Uses(u, a) => u = t
    BY <1>1, <1>3 DEF LinkInv, ThreadsAlive, Runs, LinkRel, LeavingLife, OneUser, Uses
  <2>2. ~ExitOf(Undelivered, a) /\ ~(freed[a] > 0) /\ ~EndOf(Undelivered, t)
    BY <1>1, <2>1 DEF GoneInv, ExitFinal, FreedFinal, EndedThreads
  <2>3. /\ \A b : ExitOf(Undelivered', b) => ExitOf(Undelivered, b) \/ b = a
        /\ \A u : ExitFrom(Undelivered', u) => ExitFrom(Undelivered, u) \/ u = t
        /\ \A u : EndOf(Undelivered', u) => EndOf(Undelivered, u)
        /\ ExitsInOrder(Undelivered')
    BY <1>1, <1>5, <2>2, ExitPublished DEF GoneInv, mainvars
  <2>4. freed[a] = 0 /\ \A u \in Threads : ~Uses(u, a)'
    BY <1>1, <1>2, <1>3, <2>1, <2>2 DEF NobodyEnters, TypeOK
  <2>5. ExitFinal'
    BY <1>1, <1>2, <2>1, <2>3, <2>4 DEF GoneInv, ExitFinal, NobodyEnters, mainvars
  <2>6. FreedFinal'
    BY <1>1, <1>2 DEF GoneInv, FreedFinal, NobodyEnters, mainvars, ClientTurn
  <2>7. EndedThreads' /\ ExitsHeard'
    BY <1>1, <2>1, <2>3 DEF GoneInv, EndedThreads, ExitsHeard, mainvars, ClientTurn
  <2>8. (ClientTurn \/ OneListener => DeletedOnce)'
    BY <1>1 DEF GoneInv, DeletedOnce, OneListener, mainvars, ClientTurn
  <2> QED BY <2>3, <2>5, <2>6, <2>7, <2>8 DEF GoneInv
<1> QED BY <1>3, <1>4, <1>5 DEF HandleUnregister

(***************************************************************************)
(* The steps of the main thread that delete, register or unregister.       *)
(***************************************************************************)
LEMMA GoneActivityExited ==
  ASSUME EngineInv, LinkInv, GoneInv, OnActivityExited
  PROVE  GoneInv'
<1>1. /\ TypeOK /\ ClientTurn /\ ClientTurn'
      /\ UNCHANGED <<mpc, conn, threads, listening, life, loopq, pc>>
      /\ qcopy # <<>> /\ qcopy' = Tail(qcopy)
  BY DEF EngineInv, OnActivityExited, NextEvent, runvars, ClientTurn
<1>2. Head(qcopy) \in LoopEvent /\ Head(qcopy).type = "Exit"
  BY <1>1, NextEventType DEF OnActivityExited, TypeOK
<1>3. PICK a \in Activities : a = Head(qcopy).a
  BY <1>2, LoopEventFields
<1>4. /\ Undelivered \in Seq(LoopEvent) /\ Undelivered # <<>>
      /\ Head(Undelivered) = Head(qcopy) /\ Undelivered' = Tail(Undelivered)
  BY <1>1, UndeliveredMoves
<1>5. /\ \A b : ExitOf(Undelivered', b) => ExitOf(Undelivered, b) /\ b # a
      /\ \A t : ExitFrom(Undelivered', t) => ExitFrom(Undelivered, t)
      /\ \A t : EndOf(Undelivered', t) => EndOf(Undelivered, t)
      /\ ExitsInOrder(Undelivered') /\ ExitOf(Undelivered, a)
  BY <1>2, <1>3, <1>4, LoopTail DEF GoneInv
<1>6. /\ freed[a] = 0 /\ life[a] = "unregistered"
      /\ \A t \in Threads : ~Uses(t, a) /\ ~Linked(t, a)
  <2>1. freed[a] = 0 /\ life[a] = "unregistered" /\ \A t \in Threads : ~Uses(t, a)
    BY <1>5 DEF GoneInv, ExitFinal
  <2> QED BY <2>1 DEF LinkInv, LinkRel, LinkedUser
<1>7. /\ \A b \in Activities \ {a} : freed'[b] = freed[b]
      /\ freed'[a] \in {0, 1}
  BY <1>1, <1>3, <1>6 DEF OnActivityExited, TypeOK
<1>8. NobodyEnters
  <2>1. NobodyMoves
    BY <1>1, LinkMain
  <2> QED BY <1>1, <2>1, MovesNobody
<1>9. ExitFinal'
  BY <1>1, <1>5, <1>7, <1>8 DEF GoneInv, ExitFinal, NobodyEnters
<1>10. FreedFinal'
  BY <1>1, <1>6, <1>7, <1>8 DEF GoneInv, FreedFinal, NobodyEnters
<1>11. EndedThreads' /\ ExitsHeard'
  BY <1>1, <1>5 DEF GoneInv, EndedThreads, ExitsHeard
<1>12. DeletedOnce'
  BY <1>1, <1>7 DEF GoneInv, DeletedOnce
<1> QED BY <1>5, <1>9, <1>10, <1>11, <1>12 DEF GoneInv

LEMMA GoneAutoDestroy ==
  ASSUME EngineInv, LinkInv, GoneInv, OnAutoDestroy
  PROVE  GoneInv'
<1>1. /\ TypeOK /\ ClientTurn /\ ClientTurn'
      /\ UNCHANGED <<mpc, conn, life, freed, loopq, pc>>
      /\ qcopy # <<>> /\ qcopy' = Tail(qcopy) /\ Head(qcopy).type = "AutoDestroy"
      /\ threads' \subseteq threads /\ \A t \in listening : t # Head(qcopy).t => t \in listening'
  BY DEF EngineInv, OnAutoDestroy, NextEvent, runvars, ClientTurn
<1>2. /\ Undelivered \in Seq(LoopEvent) /\ Undelivered # <<>>
      /\ Head(Undelivered) = Head(qcopy) /\ Undelivered' = Tail(Undelivered)
  BY <1>1, UndeliveredMoves
<1>3. /\ \A b : ExitOf(Undelivered', b) => ExitOf(Undelivered, b)
      /\ \A t : ExitFrom(Undelivered', t) => ExitFrom(Undelivered, t) /\ t # Head(qcopy).t
      /\ \A t : EndOf(Undelivered', t) => EndOf(Undelivered, t)
      /\ ExitsInOrder(Undelivered')
  BY <1>1, <1>2, LoopTail DEF GoneInv
<1>4. NobodyEnters
  <2>1. NobodyMoves
    BY <1>1, LinkAutoDestroy
  <2> QED BY <1>1, <2>1, MovesNobody
<1>5. ExitFinal' /\ FreedFinal'
  BY <1>1, <1>3, <1>4, FinalKept DEF GoneInv
<1>6. EndedThreads' /\ ExitsHeard'
  BY <1>1, <1>3 DEF GoneInv, EndedThreads, ExitsHeard
<1>7. DeletedOnce'
  BY <1>1 DEF GoneInv, DeletedOnce
<1> QED BY <1>3, <1>5, <1>6, <1>7 DEF GoneInv

\* how many times finish deletes an activity that is linked to the thread
LEMMA LinksOfOne ==
  ASSUME TypeOK, NEW a \in Activities, NEW t \in Threads
  PROVE  LET n == Cardinality({k \in {c \in conn : c[3] = t} : k[1] = a})
         IN  /\ n \in Nat
             /\ n > 0 <=> Linked(t, a)
             /\ OneListener => n <= 1
<1> DEFINE S == {k \in {c \in conn : c[3] = t} : k[1] = a}
<1>1. conn \subseteq Activities \X Listeners \X Threads
  BY DEF TypeOK
<1>2. IsFiniteSet(S) /\ Cardinality(S) \in Nat
  <2>1. S \subseteq Activities \X Listeners \X Threads
    BY <1>1
  <2> QED BY <2>1, FinitelyManyObjects, FS_Subset, FS_CardinalityType
<1>3. Cardinality(S) = 0 <=> S = {}
  BY <1>2, FS_EmptySet
<1>4. S # {} <=> Linked(t, a)
  <2>1. ASSUME NEW k \in S PROVE Linked(t, a)
    <3>1. PICK l \in Listeners : k = <<a, l, t>>
      BY <1>1
    <3> QED BY <3>1 DEF Linked
  <2>2. ASSUME NEW l \in Listeners, <<a, l, t>> \in conn PROVE S # {}
    <3>1. <<a, l, t>> \in S
      BY <2>2
    <3> QED BY <3>1
  <2> QED BY <2>1, <2>2 DEF Linked
<1>5. ASSUME OneListener PROVE Cardinality(S) <= 1
  <2>1. \A k, m \in S : k = m
    BY <1>1, <1>5 DEF OneListener
  <2>2. CASE S = {}
    BY <1>3, <2>2
  <2>3. CASE S # {}
    <3>1. PICK k \in S : S = {k}
      BY <2>1, <2>3
    <3>2. Cardinality({k}) = 1
      BY FS_Singleton
    <3> QED BY <3>1, <3>2
  <2> QED BY <2>2, <2>3
<1> HIDE DEF S
<1>6. Cardinality(S) > 0 <=> S # {}
  BY <1>2, <1>3
<1> QED BY <1>2, <1>4, <1>5, <1>6 DEF S

LEMMA GoneFinishDelete ==
  ASSUME EngineInv, LinkInv, GoneInv, FinishDelete
  PROVE  /\ GoneInv'
         /\ \A a \in Activities : freed'[a] > 0 <=> freed[a] > 0 \/ Linked(joining, a)
<1>1. /\ TypeOK /\ UNCHANGED <<mpc, life, qcopy, loopq, pc>> /\ ~ClientTurn'
      /\ joining \in Threads /\ threads' = threads \ {joining}
      /\ conn' = {c \in conn : \A k \in {d \in conn : d[3] = joining} : c[1] # k[1]}
      /\ freed' = [a \in Activities |->
            freed[a] + Cardinality({k \in {c \in conn : c[3] = joining} : k[1] = a})]
  BY DEF EngineInv, TypeOK, FinishDelete, runvars, ClientTurn
<1>2. \A a \in Activities :
        /\ freed[a] \in Nat /\ freed'[a] \in Nat
        /\ Linked(joining, a) => freed[a] = 0 /\ life[a] = "registered"
                                 /\ \A t \in Threads : Uses(t, a) => t = joining
        /\ ~Linked(joining, a) => freed'[a] = freed[a]
        /\ Linked(joining, a) => freed'[a] > 0
        /\ OneListener /\ Linked(joining, a) => freed'[a] <= 1
  <2> TAKE a \in Activities
  <2> DEFINE n == Cardinality({k \in {c \in conn : c[3] = joining} : k[1] = a})
  <2>1. n \in Nat /\ (n > 0 <=> Linked(joining, a)) /\ (OneListener => n <= 1)
    BY <1>1, LinksOfOne
  <2>2. freed'[a] = freed[a] + n /\ freed[a] \in Nat
    BY <1>1 DEF TypeOK
  <2> HIDE DEF n
  <2>3. Linked(joining, a) => freed[a] = 0 /\ life[a] = "registered"
                              /\ \A t \in Threads : Uses(t, a) => t = joining
    <3>1. Linked(joining, a) => ~(freed[a] > 0)
      BY <1>1 DEF GoneInv, FreedFinal
    <3> QED BY <1>1, <2>2, <3>1 DEF LinkInv, LinkRel, LinkedUser
  <2> QED BY <2>1, <2>2, <2>3
<1>3. NobodyEnters
  <2>1. NobodyMoves
    BY <1>1, LinkFinishDelete
  <2> QED BY <1>1, <2>1, MovesNobody
<1>4. Undelivered' = Undelivered
  BY <1>1, UndeliveredMoves
<1>5. ExitFinal'
  <2>1. \A a \in Activities : ExitOf(Undelivered, a) => life[a] # "registered"
    BY DEF GoneInv, ExitFinal
  <2>2. \A a \in Activities : ExitOf(Undelivered, a) => freed'[a] = freed[a]
    BY <1>2, <2>1
  <2> QED BY <1>1, <1>3, <1>4, <2>2 DEF GoneInv, ExitFinal, NobodyEnters
<1>6. FreedFinal'
  <2>1. ASSUME NEW a \in Activities, Linked(joining, a), NEW t \in Threads
        PROVE  ~Linked(t, a)' /\ (t \in threads' => ~Uses(t, a)')
    <3>1. PICK l \in Listeners : <<a, l, joining>> \in conn
      BY <2>1 DEF Linked
    <3>2. ~Linked(t, a)'
      <4>1. ASSUME NEW m \in Listeners, <<a, m, t>> \in conn' PROVE FALSE
        <5>1. <<a, l, joining>> \in {d \in conn : d[3] = joining}
          BY <3>1
        <5>2. <<a, m, t>>[1] # <<a, l, joining>>[1]
          BY <1>1, <4>1, <5>1
        <5> QED BY <5>2
      <4> QED BY <4>1 DEF Linked
    <3>3. t \in threads' => ~Uses(t, a)'
      BY <1>1, <1>2, <1>3, <2>1 DEF NobodyEnters
    <3> QED BY <3>2, <3>3
  <2>2. ASSUME NEW a \in Activities, ~Linked(joining, a), freed'[a] > 0, NEW t \in Threads
        PROVE  ~Linked(t, a)' /\ (t \in threads' => ~Uses(t, a)')
    <3>1. freed[a] > 0
      BY <1>2, <2>2
    <3> QED BY <1>1, <1>3, <3>1 DEF GoneInv, FreedFinal, NobodyEnters
  <2> QED BY <1>1, <2>1, <2>2 DEF FreedFinal
<1>7. EndedThreads' /\ ExitsHeard' /\ ExitsInOrder(Undelivered')
  BY <1>1, <1>4 DEF GoneInv, EndedThreads, ExitsHeard
<1>8. OneListener => DeletedOnce'
  BY <1>2 DEF GoneInv, DeletedOnce
<1>9. \A a \in Activities : freed'[a] > 0 <=> freed[a] > 0 \/ Linked(joining, a)
  BY <1>2
<1> QED BY <1>1, <1>5, <1>6, <1>7, <1>8, <1>9 DEF GoneInv, OneListener

\* a client that calls has a live activity, and only this one moves
LEMMA GoneCall ==
  ASSUME EngineInv, GoneInv, ClientTurn, ClientTurn', NEW a \in Activities,
         life[a] # "unregistered",
         \A b \in Activities \ {a} : life'[b] = life[b],
         OthersStay(a), UNCHANGED <<qcopy, loopq, freed>>,
         listening \subseteq listening',
         \A t \in Threads : pc[t] = "done" => pc'[t] = "done"
  PROVE  GoneInv'
<1>1. Undelivered' = Undelivered
  BY UndeliveredMoves DEF EngineInv
<1>2. ~ExitOf(Undelivered, a) /\ ~(freed[a] > 0)
  BY DEF GoneInv, ExitFinal, FreedFinal
<1>3. ExitFinal' /\ FreedFinal'
  BY <1>1, <1>2 DEF GoneInv, ExitFinal, FreedFinal, OthersStay
<1>4. EndedThreads' /\ ExitsHeard' /\ DeletedOnce' /\ ExitsInOrder(Undelivered')
  BY <1>1 DEF GoneInv, EndedThreads, ExitsHeard, DeletedOnce
<1> QED BY <1>3, <1>4 DEF GoneInv

LEMMA GoneClient ==
  ASSUME EngineInv, LinkInv, GoneInv, NEW a \in Activities,
         UnregisterActivity(a) \/ \E l \in Listeners : RegisterActivity(a, l)
  PROVE  GoneInv'
<1>1. TypeOK
  BY DEF EngineInv
<1>2. ASSUME NEW l \in Listeners, RegisterActivity(a, l)
      PROVE  GoneInv'
  <2>1. /\ ClientTurn /\ ClientTurn' /\ life[a] # "unregistered"
        /\ life' = [life EXCEPT ![a] = "registered"]
        /\ UNCHANGED <<qcopy, loopq, freed>>
        /\ listening \subseteq listening'
        /\ \A t \in Threads : pc[t] = "done" => pc'[t] = "done"
    BY <1>1, <1>2 DEF RegisterActivity, ClientTurn, TypeOK
  <2>2. OthersStay(a)
    BY <1>2, LinkRegister
  <2> QED BY <1>1, <2>1, <2>2, GoneCall DEF TypeOK
<1>3. CASE UnregisterActivity(a)
  <2>1. /\ ClientTurn /\ ClientTurn'
        /\ life' = [life EXCEPT ![a] = "unregistered"]
        /\ UNCHANGED <<qcopy, loopq, freed, listening, pc>>
    BY <1>3 DEF UnregisterActivity, ClientTurn, runvars
  <2>2. OthersStay(a) /\ life[a] = "registered"
    BY <1>3, LinkUnregister
  <2> QED BY <1>1, <2>1, <2>2, GoneCall DEF TypeOK
<1> QED BY <1>2, <1>3

LEMMA GoneInit == Init => GoneInv
<1> SUFFICES ASSUME Init PROVE GoneInv
  OBVIOUS
<1>1. DOMAIN Undelivered = {}
  BY DEF Init, Undelivered
<1>2. ExitFinal /\ ExitsInOrder(Undelivered) /\ EndedThreads /\ ExitsHeard
  BY <1>1 DEF ExitFinal, ExitOf, ExitsInOrder, EndedThreads, EndOf, ExitsHeard, ExitFrom
<1>3. FreedFinal /\ DeletedOnce
  BY DEF Init, FreedFinal, DeletedOnce
<1> QED BY <1>2, <1>3 DEF GoneInv

-------------------------------------------------------------------------------
(***************************************************************************)
(* The whole invariant.                                                    *)
(***************************************************************************)
LifeInv == EngineInv /\ LinkInv /\ GoneInv

LEMMA LifeNext == LifeInv /\ [Next]_vars => LifeInv'
<1> SUFFICES ASSUME LifeInv, [Next]_vars PROVE LifeInv'
  OBVIOUS
<1>1. EngineInv /\ LinkInv /\ GoneInv /\ TypeOK /\ EngineInv'
  BY InvNext DEF LifeInv, EngineInv
<1>2. CASE Client
  BY <1>1, <1>2, LinkRegister, LinkUnregister, LinkMain, GoneClient, GoneMain
     DEF Client, LifeInv
<1>3. CASE EventLoop
  BY <1>1, <1>3, LinkMain, LinkAutoDestroy, GoneMain, GoneActivityExited, GoneAutoDestroy
     DEF EventLoop, LifeInv
<1>4. CASE Finish
  BY <1>1, <1>4, LinkMain, LinkFinishDelete, GoneMain, GoneFinishDelete DEF Finish, LifeInv
<1>5. ASSUME NEW t \in Threads, Run(t)
      PROVE  LifeInv'
  <2>1. CASE HandleRegister(t)
    BY <1>1, <2>1, LinkHandleRegister, GoneRegisterQuit DEF LifeInv
  <2>2. CASE HandleUnregister(t)
    BY <1>1, <2>2, LinkHandleUnregister, GoneHandleUnregister DEF LifeInv
  <2>3. CASE \E a \in Activities : QuitActivity(t, a)
    BY <1>1, <2>3, LinkQuit, GoneRegisterQuit DEF LifeInv
  <2>4. CASE EndRun(t)
    BY <1>1, <2>4, LinkRunOther, GoneEndRun DEF LifeInv
  <2>5. CASE \/ Start(t) \/ JoinTimer(t) \/ HandleTimer(t) \/ HandlePost(t) \/ EndTimer(t)
             \/ LeaveLoop(t) \/ Drain(t)
             \/ \E a \in Activities : ExecuteOnTimer(t, a)
    BY <1>1, <2>5, LinkRunOther, GoneRunOther DEF LifeInv
  <2> QED BY <1>5, <2>1, <2>2, <2>3, <2>4, <2>5 DEF Run
<1>6. CASE (\E tm \in Timers : Expire(tm)) \/ UNCHANGED vars
  BY <1>1, <1>6, LinkMain, GoneMain DEF LifeInv
<1> QED BY <1>2, <1>3, <1>4, <1>5, <1>6 DEF Next, Ended

LEMMA LifeInvariant == Spec => []LifeInv
<1>1. Init => LifeInv
  BY InvInit, LinkInit, GoneInit DEF LifeInv
<1> QED BY <1>1, LifeNext, PTL DEF Spec

(***************************************************************************)
(* The event loop never drops the end of an activity: the thread an exit   *)
(* event comes from is still listening, and its destruction is behind.     *)
(***************************************************************************)
THEOREM ExitEventsAlwaysDelivered == Spec => []ExitEventsDelivered
<1>1. LifeInv => ExitEventsDelivered
  <2> SUFFICES ASSUME LifeInv, ClientTurn,
                      NEW i \in DOMAIN Undelivered, Undelivered[i].type = "Exit"
               PROVE  /\ Undelivered[i].t \in listening
                      /\ \A j \in 1..i : Undelivered[j].type = "AutoDestroy"
                                           => Undelivered[j].t # Undelivered[i].t
    BY DEF ExitEventsDelivered
  <2>1. /\ Undelivered \in Seq(LoopEvent) /\ DOMAIN Undelivered = 1..Len(Undelivered)
        /\ Len(Undelivered) \in Nat /\ Undelivered[i] \in LoopEvent
    BY UndeliveredMoves DEF LifeInv, EngineInv
  <2>2. Undelivered[i].t \in Threads
    BY <2>1, LoopEventFields
  <2>3. ExitFrom(Undelivered, Undelivered[i].t)
    BY DEF ExitFrom
  <2>4. Undelivered[i].t \in listening
    BY <2>2, <2>3 DEF LifeInv, GoneInv, ExitsHeard
  <2>5. ASSUME NEW j \in 1..i, Undelivered[j].type = "AutoDestroy"
        PROVE  Undelivered[j].t # Undelivered[i].t
    <3>1. j \in DOMAIN Undelivered /\ j < i
      BY <2>1, <2>5
    <3> QED BY <2>5, <3>1 DEF LifeInv, GoneInv, ExitsInOrder
  <2> QED BY <2>4, <2>5
<1> QED BY <1>1, LifeInvariant, PTL

(***************************************************************************)
(* An activity that was deleted is in no thread, and in no queue of one    *)
(* that has not been deleted too.                                          *)
(***************************************************************************)
THEOREM NeverUsedAfterDelete == Spec => []NoUseAfterDelete
<1>1. LifeInv => NoUseAfterDelete
  <2> SUFFICES ASSUME LifeInv, NEW a \in Activities, freed[a] > 0, NEW t \in threads
               PROVE  /\ a \notin activity_set[t]
                      /\ \A i \in DOMAIN eq[t] :
                           eq[t][i].type \in {"Register", "Unregister"} => eq[t][i].a # a
    BY DEF NoUseAfterDelete
  <2>1. ~Uses(t, a)
    BY DEF LifeInv, EngineInv, TypeOK, GoneInv, FreedFinal
  <2> QED BY <2>1 DEF Uses, Entered, Leaving, Has
<1> QED BY <1>1, LifeInvariant, PTL

(***************************************************************************)
(* No activity is deleted twice while the event loop runs; nor by          *)
(* Cumbia::finish, that deletes an activity for each of its links, if it   *)
(* was registered with one listener.                                       *)
(***************************************************************************)
THEOREM NeverDeletedTwice == Spec => [](ClientTurn \/ OneListener => DeletedOnce)
<1>1. LifeInv => (ClientTurn \/ OneListener => DeletedOnce)
  BY DEF LifeInv, GoneInv
<1> QED BY <1>1, LifeInvariant, PTL

-------------------------------------------------------------------------------
(***************************************************************************)
(* CuThread implements ActivityLifecycle.                                  *)
(***************************************************************************)
LEMMA WorkerExited ==
  ASSUME NEW a \in Activities, life[a] # "new", \A t \in Threads : ~Uses(t, a)
  PROVE  WorkerOf(a) = "exited"
BY DEF WorkerOf, Running, Waiting, Uses, Entered, Has

LEMMA WorkerKept ==
  ASSUME NEW a \in Activities, life'[a] = "new" <=> life[a] = "new",
         \A t \in Threads : /\ a \in activity_set'[t] <=> a \in activity_set[t]
                            /\ Has(eq'[t], "Register", a) <=> Has(eq[t], "Register", a)
  PROVE  WorkerOf(a)' = WorkerOf(a)
<1>1. Running(a)' <=> Running(a)
  BY DEF Running
<1>2. Waiting(a) <=> life[a] = "new" \/ \E t \in Threads : Has(eq[t], "Register", a)
  BY DEF Waiting, Has
<1>3. Waiting(a)' <=> life'[a] = "new" \/ \E t \in Threads : Has(eq'[t], "Register", a)
  BY DEF Waiting, Has
<1> QED BY <1>1, <1>2, <1>3 DEF WorkerOf

LifecycleStep == [Lifecycle!LifecycleNext]_(Lifecycle!lifevars)

Closing == mpc \in {"finish", "ended"}

LEMMA ClosingTurn == TypeOK => (Closing <=> ~ClientTurn)
BY DEF TypeOK, Closing, ClientTurn

\* a step that moves no activity
LEMMA StepStutters ==
  ASSUME \A a \in Activities : WorkerOf(a)' = WorkerOf(a),
         UNCHANGED <<life, freed>>, Closing => Closing'
  PROVE  LifecycleStep
<1>1. [a \in Activities |-> WorkerOf(a)]' = [a \in Activities |-> WorkerOf(a)]
  OBVIOUS
<1>2. [a \in Activities |-> freed[a] > 0]' = [a \in Activities |-> freed[a] > 0]
  OBVIOUS
<1>3. CASE Closing' = Closing
  <2>1. UNCHANGED Lifecycle!lifevars
    BY <1>1, <1>2, <1>3 DEF Lifecycle!lifevars, Closing
  <2> QED BY <2>1 DEF LifecycleStep
<1>4. CASE Closing'
  <2>1. CASE Closing
    BY <1>3, <1>4, <2>1 DEF Closing
  <2>2. CASE ~Closing
    <3>1. Lifecycle!Close
      BY <1>1, <1>2, <1>4, <2>2 DEF Lifecycle!Close, Closing
    <3> QED BY <3>1 DEF LifecycleStep, Lifecycle!LifecycleNext
  <2> QED BY <2>1, <2>2
<1> QED BY <1>3, <1>4 DEF Closing

LEMMA NobodyMovesStutters ==
  ASSUME NobodyMoves, UNCHANGED <<life, freed>>, Closing => Closing'
  PROVE  LifecycleStep
<1>1. \A a \in Activities : WorkerOf(a)' = WorkerOf(a)
  BY WorkerKept DEF NobodyMoves
<1> QED BY <1>1, StepStutters

\* a worker that begins or ends, and no other
LEMMA StepOfWorker ==
  ASSUME NEW a \in Activities,
         \A b \in Activities \ {a} : WorkerOf(b)' = WorkerOf(b),
         UNCHANGED <<life, freed, mpc>>,
         life[a] # "new", ~(freed[a] > 0),
         \/ WorkerOf(a) = "idle" /\ WorkerOf(a)' = "running"
         \/ /\ WorkerOf(a) = "running" /\ WorkerOf(a)' = "exited"
            /\ life[a] = "unregistered" \/ Closing
         \/ WorkerOf(a)' = WorkerOf(a)
  PROVE  LifecycleStep
<1> DEFINE worker == [b \in Activities |-> WorkerOf(b)]
<1>1. worker' = [worker EXCEPT ![a] = WorkerOf(a)'] /\ worker[a] = WorkerOf(a)
  OBVIOUS
<1>2. CASE WorkerOf(a) = "idle" /\ WorkerOf(a)' = "running"
  <2>1. Lifecycle!Begin(a)
    BY <1>1, <1>2 DEF Lifecycle!Begin
  <2> QED BY <2>1 DEF LifecycleStep, Lifecycle!LifecycleNext
<1>3. CASE /\ WorkerOf(a) = "running" /\ WorkerOf(a)' = "exited"
           /\ life[a] = "unregistered" \/ Closing
  <2>1. Lifecycle!End(a)
    BY <1>1, <1>3 DEF Lifecycle!End, Closing
  <2> QED BY <2>1 DEF LifecycleStep, Lifecycle!LifecycleNext
<1>4. CASE WorkerOf(a)' = WorkerOf(a)
  <2>1. \A b \in Activities : WorkerOf(b)' = WorkerOf(b)
    BY <1>4
  <2> QED BY <2>1, StepStutters DEF Closing
<1> QED BY <1>2, <1>3, <1>4

LEMMA BeginStep ==
  ASSUME LifeInv, NEW t \in Threads, HandleRegister(t)
  PROVE  LifecycleStep
<1>1. LinkInv /\ TypeOK
  BY DEF LifeInv, EngineInv
<1>2. PICK a \in Activities :
        /\ Has(eq[t], "Register", a)
        /\ activity_set' = [activity_set EXCEPT ![t] = @ \union {a}]
        /\ SameWaiting({a})
  BY <1>1, LinkHandleRegister
<1>3. UNCHANGED mainvars /\ Runs(t)
  BY DEF HandleRegister, Dequeue, Idle, Runs
<1>4. Uses(t, a)
  BY <1>2 DEF Uses, Entered
<1>5. life[a] # "new" /\ ~(freed[a] > 0)
  BY <1>1, <1>3, <1>4 DEF LinkInv, LinkRel, NewUnused, ThreadsAlive, LifeInv, GoneInv, FreedFinal
<1>6. WorkerOf(a)' = "running"
  <2>1. a \in activity_set'[t]
    BY <1>1, <1>2 DEF TypeOK
  <2> QED BY <2>1 DEF WorkerOf, Running
<1>7. WorkerOf(a) \in {"idle", "running"}
  BY <1>2 DEF WorkerOf, Waiting, Has
<1>8. ASSUME NEW b \in Activities \ {a} PROVE WorkerOf(b)' = WorkerOf(b)
  <2>1. \A u \in Threads : b \in activity_set'[u] <=> b \in activity_set[u]
    BY <1>1, <1>2 DEF TypeOK
  <2> QED BY <1>2, <1>3, <2>1, WorkerKept DEF SameWaiting, mainvars
<1> QED BY <1>3, <1>5, <1>6, <1>7, <1>8, StepOfWorker DEF mainvars

LEMMA EndStep ==
  ASSUME LifeInv, NEW t \in Threads, HandleUnregister(t)
  PROVE  LifecycleStep
<1>1. LinkInv /\ TypeOK
  BY DEF LifeInv, EngineInv
<1>2. NobodyEnters
  BY <1>1, LinkHandleUnregister
<1>3. PICK a \in Activities :
        /\ Leaving(t, a) /\ ~Has(eq[t], "Register", a)
        /\ ~Uses(t, a)'
        /\ activity_set' = [activity_set EXCEPT ![t] = @ \ {a}]
        /\ SameWaiting({a})
  BY <1>1, LinkHandleUnregister
<1>4. UNCHANGED mainvars /\ Runs(t)
  BY DEF HandleUnregister, Dequeue, Idle, Runs
<1>5. /\ life[a] = "unregistered" /\ ~(freed[a] > 0)
      /\ \A u \in Threads : Uses(u, a) => u = t
  BY <1>1, <1>3, <1>4 DEF Uses, LinkInv, LinkRel, LeavingLife, OneUser, ThreadsAlive,
                          LifeInv, GoneInv, FreedFinal
<1>6. WorkerOf(a)' = "exited"
  <2>1. \A u \in Threads : ~Uses(u, a)'
    BY <1>2, <1>3, <1>5 DEF NobodyEnters
  <2>2. ~Running(a)' /\ ~Waiting(a)'
    BY <1>4, <1>5, <2>1 DEF mainvars, Running, Waiting, Uses, Entered, Has
  <2> QED BY <2>2 DEF WorkerOf
<1>7. WorkerOf(a) \in {"running", "exited"}
  <2>1. ~Waiting(a)
    BY <1>3, <1>5 DEF Waiting, Uses, Entered, Has
  <2> QED BY <2>1 DEF WorkerOf
<1>8. ASSUME NEW b \in Activities \ {a} PROVE WorkerOf(b)' = WorkerOf(b)
  <2>1. \A u \in Threads : b \in activity_set'[u] <=> b \in activity_set[u]
    BY <1>1, <1>3 DEF TypeOK
  <2> QED BY <1>3, <1>4, <2>1, WorkerKept DEF SameWaiting, mainvars
<1> QED BY <1>4, <1>5, <1>6, <1>7, <1>8, StepOfWorker DEF mainvars

LEMMA QuitStep ==
  ASSUME LifeInv, NEW t \in Threads, NEW a \in Activities, QuitActivity(t, a)
  PROVE  LifecycleStep
<1>1. EngineInv /\ LinkInv /\ TypeOK
  BY DEF LifeInv, EngineInv
<1>2. /\ UNCHANGED <<mainvars, eq>> /\ pc[t] = "exit" /\ a \in activity_set[t]
      /\ activity_set' = [activity_set EXCEPT ![t] = @ \ {a}]
  BY DEF QuitActivity, ExitActivity
<1>3. Closing
  BY <1>1, LinkQuit, ClosingTurn
<1>4. Uses(t, a) /\ ~Has(eq[t], "Register", a)
  BY <1>1, <1>2, HasStartStop DEF Uses, Entered, LinkInv, ThreadsAlive, StartStop
<1>5. /\ life[a] # "new" /\ ~(freed[a] > 0)
      /\ \A u \in Threads : Uses(u, a) => u = t
  BY <1>1, <1>2, <1>4 DEF LinkInv, LinkRel, NewUnused, OneUser, ThreadsAlive, Runs,
                          LifeInv, GoneInv, FreedFinal
<1>6. WorkerOf(a) = "running"
  BY <1>2 DEF WorkerOf, Running
<1>7. WorkerOf(a)' = "exited"
  <2>1. \A u \in Threads : a \notin activity_set'[u] /\ ~Has(eq'[u], "Register", a)
    BY <1>1, <1>2, <1>4, <1>5 DEF Uses, Entered, TypeOK
  <2>2. ~Running(a)' /\ ~Waiting(a)'
    BY <1>2, <1>5, <2>1 DEF mainvars, Running, Waiting, Has
  <2> QED BY <2>2 DEF WorkerOf
<1>8. ASSUME NEW b \in Activities \ {a} PROVE WorkerOf(b)' = WorkerOf(b)
  <2>1. \A u \in Threads : b \in activity_set'[u] <=> b \in activity_set[u]
    BY <1>1, <1>2 DEF TypeOK
  <2> QED BY <1>2, <2>1, WorkerKept DEF mainvars
<1> QED BY <1>2, <1>3, <1>5, <1>6, <1>7, <1>8, StepOfWorker DEF mainvars

LEMMA RegisterStep ==
  ASSUME LifeInv, NEW a \in Activities, NEW l \in Listeners, RegisterActivity(a, l)
  PROVE  LifecycleStep
<1>1. EngineInv /\ LinkInv /\ TypeOK
  BY DEF LifeInv, EngineInv
<1>2. /\ ClientTurn /\ UNCHANGED <<mpc, freed, activity_set>>
      /\ life' = [life EXCEPT ![a] = "registered"] /\ life[a] \in {"new", "registered"}
  BY DEF RegisterActivity
<1>3. SameWaiting({a})
  BY <1>1, LinkRegister
<1>4. PICK t \in Threads : Has(eq'[t], "Register", a)
  BY <1>1, LinkRegister
<1>5. \A b \in Activities \ {a} : WorkerOf(b)' = WorkerOf(b)
  BY <1>1, <1>2, <1>3, WorkerKept DEF SameWaiting, TypeOK
<1>6. WorkerOf(a)' = WorkerOf(a)
  <2>1. Running(a)' <=> Running(a)
    BY <1>2 DEF Running
  <2>2. Waiting(a)'
    BY <1>4 DEF Waiting, Has
  <2>3. Running(a) \/ Waiting(a)
    <3>1. CASE life[a] = "new"
      BY <3>1 DEF Waiting
    <3>2. CASE life[a] = "registered"
      BY <1>1, <1>2, <3>2 DEF LinkInv, LinkRel, RegisteredEntered, Entered, Running, Waiting, Has
    <3> QED BY <1>2, <3>1, <3>2
  <2> QED BY <2>1, <2>2, <2>3 DEF WorkerOf
<1>7. CASE life[a] = "registered"
  <2>1. life' = life
    BY <1>1, <1>2, <1>7 DEF TypeOK
  <2> QED BY <1>2, <1>5, <1>6, <2>1, StepStutters DEF Closing
<1>8. CASE life[a] = "new"
  <2>1. [b \in Activities |-> WorkerOf(b)]' = [b \in Activities |-> WorkerOf(b)]
    BY <1>5, <1>6
  <2>2. Lifecycle!Register(a)
    BY <1>2, <1>8, <2>1 DEF Lifecycle!Register, ClientTurn
  <2> QED BY <2>2 DEF LifecycleStep, Lifecycle!LifecycleNext
<1> QED BY <1>2, <1>7, <1>8

LEMMA UnregisterStep ==
  ASSUME LifeInv, NEW a \in Activities, UnregisterActivity(a)
  PROVE  LifecycleStep
<1>1. EngineInv /\ LinkInv /\ TypeOK
  BY DEF LifeInv, EngineInv
<1>2. /\ ClientTurn /\ UNCHANGED <<mpc, freed, activity_set>>
      /\ life' = [life EXCEPT ![a] = "unregistered"]
  BY DEF UnregisterActivity, runvars
<1>3. SameWaiting({}) /\ life[a] = "registered"
  BY <1>1, LinkUnregister
<1>4. \A b \in Activities : WorkerOf(b)' = WorkerOf(b)
  BY <1>1, <1>2, <1>3, WorkerKept DEF SameWaiting, TypeOK
<1>5. [b \in Activities |-> WorkerOf(b)]' = [b \in Activities |-> WorkerOf(b)]
  BY <1>4
<1>6. Lifecycle!Unregister(a)
  BY <1>2, <1>3, <1>5 DEF Lifecycle!Unregister, ClientTurn
<1> QED BY <1>6 DEF LifecycleStep, Lifecycle!LifecycleNext

\* the activities of S are deleted
LEMMA StepDeletes ==
  ASSUME NEW S \in SUBSET Activities, NobodyMoves, UNCHANGED <<life, mpc>>,
         \A a \in Activities : freed'[a] > 0 <=> a \in S \/ freed[a] > 0,
         \A a \in S : WorkerOf(a) = "exited" /\ ~(freed[a] > 0)
  PROVE  LifecycleStep
<1>1. [b \in Activities |-> WorkerOf(b)]' = [b \in Activities |-> WorkerOf(b)]
  BY WorkerKept DEF NobodyMoves
<1>2. [a \in Activities |-> freed[a] > 0]'
        = [a \in Activities |-> a \in S \/ [b \in Activities |-> freed[b] > 0][a]]
  <2>1. \A a \in Activities :
          (freed'[a] > 0) = (a \in S \/ [b \in Activities |-> freed[b] > 0][a])
    <3> TAKE a \in Activities
    <3>1. [b \in Activities |-> freed[b] > 0][a] = (freed[a] > 0)
      BY Zenon
    <3>2. (freed'[a] > 0) = (a \in S \/ freed[a] > 0)
      OBVIOUS
    <3> QED BY <3>1, <3>2, Zenon
  <2> QED BY <2>1, Zenon
<1>3. Lifecycle!Delete(S)
  BY <1>1, <1>2 DEF Lifecycle!Delete
<1> QED BY <1>3 DEF LifecycleStep, Lifecycle!LifecycleNext

LEMMA ExitedStep ==
  ASSUME LifeInv, OnActivityExited
  PROVE  LifecycleStep
<1>1. EngineInv /\ LinkInv /\ TypeOK /\ NobodyMoves
  BY LinkMain DEF LifeInv, EngineInv
<1>2. UNCHANGED <<mpc, life>> /\ qcopy # <<>>
  BY DEF OnActivityExited, NextEvent
<1>3. Head(qcopy) \in LoopEvent /\ Head(qcopy).type = "Exit"
  BY <1>1, NextEventType DEF OnActivityExited, TypeOK
<1>4. PICK a \in Activities : a = Head(qcopy).a
  BY <1>3, LoopEventFields
<1>5. freed[a] = 0 /\ WorkerOf(a) = "exited"
  <2>1. Undelivered \in Seq(LoopEvent) /\ Undelivered # <<>> /\ Head(Undelivered) = Head(qcopy)
    BY <1>1, <1>2, UndeliveredMoves DEF OnActivityExited, NextEvent
  <2>2. ExitOf(Undelivered, a)
    BY <1>3, <1>4, <2>1, LoopTail
  <2> QED BY <2>2, WorkerExited DEF LifeInv, GoneInv, ExitFinal
<1>6. CASE freed' = freed
  BY <1>1, <1>2, <1>6, NobodyMovesStutters DEF Closing
<1>7. CASE freed' = [freed EXCEPT ![a] = @ + 1]
  <2>1. \A b \in Activities : freed'[b] > 0 <=> b \in {a} \/ freed[b] > 0
    BY <1>1, <1>5, <1>7 DEF TypeOK
  <2>2. \A b \in {a} : WorkerOf(b) = "exited" /\ ~(freed[b] > 0)
    BY <1>5
  <2>3. {a} \in SUBSET Activities
    OBVIOUS
  <2> QED BY <1>1, <1>2, <2>1, <2>2, <2>3, StepDeletes
<1> QED BY <1>4, <1>6, <1>7 DEF OnActivityExited

LEMMA FinishDeleteStep ==
  ASSUME LifeInv, FinishDelete
  PROVE  LifecycleStep
<1>1. EngineInv /\ LinkInv /\ GoneInv /\ TypeOK /\ NobodyMoves
  BY LinkFinishDelete DEF LifeInv, EngineInv
<1>2. UNCHANGED <<mpc, life>> /\ joining \in Threads /\ pc[joining] = "done"
  BY <1>1 DEF FinishDelete, Joined, TypeOK
<1> DEFINE S == {a \in Activities : Linked(joining, a)}
<1>3. \A a \in Activities : freed'[a] > 0 <=> a \in S \/ freed[a] > 0
  BY <1>1, GoneFinishDelete
<1>4. ASSUME NEW a \in S PROVE WorkerOf(a) = "exited" /\ ~(freed[a] > 0)
  <2>1. a \in Activities /\ Linked(joining, a)
    OBVIOUS
  <2>2. ~Uses(joining, a)
    BY <1>1, <1>2, HasStartStop
       DEF LinkInv, ThreadsAlive, Uses, Entered, Leaving, StartStop
  <2>3. life[a] = "registered" /\ \A t \in Threads : ~Uses(t, a)
    BY <1>1, <1>2, <2>1, <2>2 DEF LinkInv, LinkRel, LinkedUser
  <2>4. ~(freed[a] > 0)
    BY <1>1, <1>2, <2>1 DEF GoneInv, FreedFinal
  <2> QED BY <2>1, <2>3, <2>4, WorkerExited
<1> QED BY <1>1, <1>2, <1>3, <1>4, StepDeletes

LEMMA OtherMainStep ==
  ASSUME LifeInv,
         \/ \E a \in Activities : PostTo(a)
         \/ ExitEventLoop \/ TakeEvents \/ OnResult \/ OnExitLoop \/ OnAutoDestroy
         \/ \E p \in calls : Notify(p)
         \/ StartFinish \/ \E t \in Threads : FinishExit(t)
         \/ FinishEnd
         \/ \E tm \in Timers : Expire(tm)
         \/ UNCHANGED vars
  PROVE  LifecycleStep
<1>1. LinkInv /\ TypeOK
  BY DEF LifeInv, EngineInv
<1>2. NobodyMoves
  BY <1>1, LinkMain, LinkAutoDestroy
<1>3. UNCHANGED <<life, freed>>
  BY DEF PostTo, PostEvent, ExitEventLoop, TakeEvents, OnResult, OnExitLoop, OnAutoDestroy,
         Notify, StartFinish, FinishExit, FinishEnd, Expire, vars, mainvars
<1>4. Closing => Closing'
  BY DEF PostTo, PostEvent, ExitEventLoop, TakeEvents, OnResult, OnExitLoop, OnAutoDestroy,
         Notify, StartFinish, FinishExit, FinishEnd, Expire, vars, mainvars, NextEvent,
         ClientTurn, Closing
<1> QED BY <1>2, <1>3, <1>4, NobodyMovesStutters

LEMMA OtherRunStep ==
  ASSUME LifeInv, NEW t \in Threads,
         \/ Start(t) \/ JoinTimer(t) \/ HandleTimer(t) \/ HandlePost(t) \/ EndTimer(t)
         \/ LeaveLoop(t) \/ Drain(t) \/ EndRun(t)
         \/ \E a \in Activities : ExecuteOnTimer(t, a)
  PROVE  LifecycleStep
<1>1. NobodyMoves
  BY LinkRunOther DEF LifeInv
<1>2. UNCHANGED mainvars
  BY DEF Start, JoinTimer, HandleTimer, HandlePost, EndTimer, LeaveLoop, Drain, EndRun,
         ExecuteOnTimer
<1> QED BY <1>1, <1>2, NobodyMovesStutters DEF mainvars, Closing

LEMMA EveryStep == LifeInv /\ [Next]_vars => LifecycleStep
<1> SUFFICES ASSUME LifeInv, [Next]_vars PROVE LifecycleStep
  OBVIOUS
<1>1. CASE Client
  BY <1>1, RegisterStep, UnregisterStep, OtherMainStep DEF Client
<1>2. CASE EventLoop
  BY <1>2, ExitedStep, OtherMainStep DEF EventLoop
<1>3. CASE Finish
  BY <1>3, FinishDeleteStep, OtherMainStep DEF Finish
<1>4. ASSUME NEW t \in Threads, Run(t) PROVE LifecycleStep
  BY <1>4, BeginStep, EndStep, QuitStep, OtherRunStep DEF Run
<1>5. CASE (\E tm \in Timers : Expire(tm)) \/ UNCHANGED vars
  BY <1>5, OtherMainStep
<1> QED BY <1>1, <1>2, <1>3, <1>4, <1>5 DEF Next, Ended

LEMMA LifecycleInitially == Init => Lifecycle!LifecycleInit
<1> SUFFICES ASSUME Init PROVE Lifecycle!LifecycleInit
  OBVIOUS
<1>1. \A a \in Activities : WorkerOf(a) = "idle"
  BY DEF Init, WorkerOf, Running, Waiting
<1>2. [a \in Activities |-> freed[a] > 0] = [a \in Activities |-> FALSE]
  <2>1. \A a \in Activities : (freed[a] > 0) = FALSE
    BY DEF Init
  <2> QED BY <2>1, Zenon
<1>3. (mpc \in {"finish", "ended"}) = FALSE
  BY DEF Init
<1>4. [a \in Activities |-> WorkerOf(a)] = [a \in Activities |-> "idle"]
  BY <1>1
<1>5. life = [a \in Activities |-> "new"]
  BY DEF Init
<1> QED BY <1>2, <1>3, <1>4, <1>5, Zenon DEF Lifecycle!LifecycleInit

(***************************************************************************)
(* The engine keeps the promised life cycle: it initialises an activity    *)
(* that was registered, makes it exit once its client unregistered it or   *)
(* the application closes, and deletes it only when it has exited.         *)
(***************************************************************************)
THEOREM EngineImplementsLifecycle == Spec => LifecycleKept
<1>1. LifeInv /\ [Next]_vars => [Lifecycle!LifecycleNext]_(Lifecycle!lifevars)
  BY EveryStep DEF LifecycleStep
<1> QED BY <1>1, LifecycleInitially, LifeInvariant, PTL
        DEF Spec, LifecycleKept, Lifecycle!LifecycleSpec
================================================================================
