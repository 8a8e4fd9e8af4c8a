------------------------------ MODULE CuTOneShot ------------------------------
(***************************************************************************)
(* The actions of the Tango engine that work once: CuTWriter (writer),     *)
(* CuTConfiguration (config) and CuTaDb (db).  An action starts with its   *)
(* first listener, its activity publishes one result, and the listeners of *)
(* that moment are told; then the action leaves the factory service and    *)
(* deletes itself.  The three differ in what they do when their last       *)
(* listener leaves: a writer goes on, a configuration deletes itself, and  *)
(* a CuTaDb unregisters its activity but stays in the service, where later *)
(* listeners join it in vain.                                              *)
(*                                                                         *)
(* Everything but the activity runs in the main thread.  Of the core       *)
(* (module CuThread) this uses that a registered activity executes, that   *)
(* results keep their order and that results of unregistered activities    *)
(* are dropped.                                                            *)
(***************************************************************************)
EXTENDS Integers, Sequences, FiniteSets

CONSTANTS
  OneShotSources, OneShotListeners,
  OneShotKinds,       \* subset of {"writer", "config", "db"}
  MaxOneShots,        \* bound on the actions and activities at a time
  ReaddInCallback,    \* a listener asks again for what it is being told
  NoOneShot

ASSUME OneShotAssumption ==
  /\ OneShotKinds \subseteq {"writer", "config", "db"}
  /\ MaxOneShots \in Nat /\ ReaddInCallback \in BOOLEAN
  /\ NoOneShot \notin OneShotListeners

VARIABLES
  shots,      \* actions; task is their activity: run, published, done
  registry,   \* the factory service: the action of a source and type, or 0
  published,  \* results on their way to the main thread
  told,       \* onResult being executed: who is still to be told, of the copy
              \* of the listeners, and the listener that is in its onUpdate;
              \* history: who was unlinked from the action after the copy
  wants       \* the listeners that asked, and were neither told nor unlinked
oneShotVars == <<shots, registry, published, told, wants>>

ShotIds == 1..MaxOneShots
NoShot == [live |-> FALSE, src |-> NoOneShot, kind |-> NoOneShot, listeners |-> {},
           linked |-> FALSE, task |-> "done"]
NotTold == [shot |-> 0, rest |-> {}, at |-> NoOneShot, left |-> {}]
FreeShots == {i \in ShotIds : ~shots[i].live /\ shots[i].task = "done"}

\* From the event loop, or from an onUpdate, which may act for any listener.
OneShotTurn == told.shot = 0 \/ told.at # NoOneShot

-----------------------------------------------------------------------------
(* addAction, unlinkListener                                               *)

\* CumbiaTango::addAction: the registered action gets the listener, or a new
\* one starts.
AddOneShot(l, s, k) ==
  LET i == registry[s][k]
      j == CHOOSE f \in FreeShots : TRUE
  IN /\ OneShotTurn
     /\ told.shot # 0 /\ ~ReaddInCallback =>
          <<s, k>> # <<shots[told.shot].src, shots[told.shot].kind>>
     /\ \/ /\ i # 0
           /\ shots' = [shots EXCEPT ![i].listeners = @ \union {l}]
           /\ UNCHANGED registry
        \/ /\ i = 0 /\ FreeShots # {}
           /\ shots' = [shots EXCEPT ![j] = [live |-> TRUE, src |-> s, kind |-> k,
                          listeners |-> {l}, linked |-> TRUE, task |-> "run"]]
           /\ registry' = [registry EXCEPT ![s][k] = j]
     /\ wants' = [wants EXCEPT ![s][k] = @ \union {l}]
     /\ UNCHANGED <<published, told>>

\* A configuration is deleted even inside its onResult.
BugStoppedConfig(i) == [shots[i] EXCEPT !.listeners = {}, !.linked = FALSE, !.live = FALSE]

\* A configuration inside onResult is not deleted here.
StoppedConfig(i) ==
  [shots[i] EXCEPT !.listeners = {}, !.linked = FALSE, !.live = (told.shot = i)]

\* stop, when the last listener has left
StopShot(i) ==
  LET a == [shots[i] EXCEPT !.listeners = {}]
  IN \/ /\ a.kind = "writer"
        /\ shots' = [shots EXCEPT ![i] = a] /\ UNCHANGED registry
     \/ /\ a.kind = "config"
        /\ shots' = [shots EXCEPT ![i] = StoppedConfig(i)]
        /\ registry' = [registry EXCEPT ![a.src]["config"] = 0]
     \/ /\ a.kind = "db"
        /\ shots' = [shots EXCEPT ![i] = [a EXCEPT !.linked = FALSE]] /\ UNCHANGED registry

\* CumbiaTango::unlinkListener; clearTarget of a writer is two of them.  Who is
\* in the copy stays there.
UnlinkOneShot(l, s, k) ==
  LET i == registry[s][k] IN
  /\ OneShotTurn /\ i # 0
  /\ IF shots[i].listeners \subseteq {l} THEN StopShot(i)
     ELSE shots' = [shots EXCEPT ![i].listeners = @ \ {l}] /\ UNCHANGED registry
  /\ wants' = [wants EXCEPT ![s][k] = @ \ {l}]
  /\ told' = IF told.shot = i THEN [told EXCEPT !.left = @ \union {l}] ELSE told
  /\ UNCHANGED published

-----------------------------------------------------------------------------
(* The activity: executes once, in its thread                              *)

ExecuteShot(i) ==
  /\ shots[i].task = "run"
  /\ shots' = [shots EXCEPT ![i].task = "published"]
  /\ published' = Append(published, i)
  /\ UNCHANGED <<registry, told, wants>>

-----------------------------------------------------------------------------
(* onResult                                                                *)

OnShotResult ==
  /\ published # <<>> /\ told.shot = 0
  /\ published' = Tail(published)
  /\ LET i == Head(published)
     IN /\ shots' = [shots EXCEPT ![i].task = "done"]
        /\ told' = IF shots[i].linked
                   THEN [NotTold EXCEPT !.shot = i, !.rest = shots[i].listeners] ELSE NotTold
  /\ UNCHANGED <<registry, wants>>

TellShot(l) ==
  LET a == shots[told.shot] IN
  /\ told.shot # 0 /\ told.at = NoOneShot /\ l \in told.rest
  /\ told' = [told EXCEPT !.at = l, !.rest = @ \ {l}]
  /\ wants' = [wants EXCEPT ![a.src][a.kind] = @ \ {l}]
  /\ UNCHANGED <<shots, registry, published>>

ShotTold ==
  /\ told.at # NoOneShot
  /\ told' = [told EXCEPT !.at = NoOneShot]
  /\ UNCHANGED <<shots, registry, published, wants>>

\* It stays in the service: to be found by the next listener.
BugRemoveShot(a) == UNCHANGED registry

RemoveShot(a) == registry' = [registry EXCEPT ![a.src][a.kind] = 0]

\* The last step of onResult: the action leaves the service, whose entry is
\* found by source and type, its activity is unregistered, it deletes itself.
FinishShot ==
  /\ told.shot # 0 /\ told.rest = {} /\ told.at = NoOneShot
  /\ RemoveShot(shots[told.shot])
  /\ shots' = [shots EXCEPT ![told.shot] = NoShot]
  /\ told' = NotTold
  /\ UNCHANGED <<published, wants>>

ShotLoop == OnShotResult \/ (\E l \in OneShotListeners : TellShot(l)) \/ ShotTold \/ FinishShot

-----------------------------------------------------------------------------
InitOneShot ==
  /\ shots = [i \in ShotIds |-> NoShot]
  /\ registry = [s \in OneShotSources |-> [k \in OneShotKinds |-> 0]]
  /\ published = <<>> /\ told = NotTold
  /\ wants = [s \in OneShotSources |-> [k \in OneShotKinds |-> {}]]

NextOneShot ==
  \/ \E l \in OneShotListeners, s \in OneShotSources, k \in OneShotKinds :
       AddOneShot(l, s, k) \/ UnlinkOneShot(l, s, k)
  \/ \E i \in ShotIds : ExecuteShot(i)
  \/ ShotLoop

SpecOneShot == InitOneShot /\ [][NextOneShot]_oneShotVars
FairOneShot ==
  /\ WF_oneShotVars(ShotLoop)
  /\ \A i \in ShotIds : WF_oneShotVars(ExecuteShot(i))

-----------------------------------------------------------------------------
(* Properties                                                              *)

\* A CuTaDb without an activity.
Orphan(s, k) ==
  LET i == registry[s][k] IN k = "db" /\ i # 0 /\ ~shots[i].linked

\* Who asks for a writing, a configuration or a database operation is told
\* its result, though it may join an action that another listener started,
\* left, or is about to be told by (cutwriter.cpp:115-126,
\* cutconfiguration.cpp:73-85); only a CuTaDb that was left by its only
\* listener never answers.
OneShotAnswered ==
  \A l \in OneShotListeners, s \in OneShotSources, k \in OneShotKinds :
    (l \in wants[s][k] /\ ~Orphan(s, k)) ~> l \notin wants[s][k]

\* Who is told asked for it, and had not left before the result came: the set
\* is copied before the callbacks, which unlink and add any listener.  Whatever
\* they do, the action is not deleted under the loop that calls them, neither by
\* the last that leaves nor by a new one that takes its place
\* (cutwriter.cpp:118-126, cutconfiguration.cpp:73-85, cutadb.cpp:53-64).
OneShotTellsWhoAsked ==
  told.shot # 0 =>
    LET a == shots[told.shot]
    IN  a.live /\ told.rest \subseteq wants[a.src][a.kind] \union told.left
=============================================================================
