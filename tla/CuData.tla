-------------------------------- MODULE CuData --------------------------------
(***************************************************************************)
(* The implicit sharing of CuData: copies share a CuDataPrivate, which     *)
(* counts them atomically, and who writes into a CuData detaches it first. *)
(* CuVariant, the type of the values in a CuData, does the same            *)
(* (cuvariant.cpp:278-293, 788-838).                                       *)
(*                                                                         *)
(* A CuData belongs to one thread at a time; threads pass them on through  *)
(* the queues of events.  What is atomic is a step: the load, the          *)
(* decrement and the copy of detach are three, and the copy is made after  *)
(* the reference to what it copies has been given up.                      *)
(***************************************************************************)
EXTENDS Naturals, FiniteSets

CONSTANTS
  DataThreads, DataHandles,
  DataBlocks,           \* addresses of CuDataPrivates, used again after delete
  DataValues,
  EmptyData,            \* the datamap of a new CuData
  MaxLost,              \* bound on the CuDataPrivates that clones lose
  ModifiesPublished,    \* whether a thread writes into a CuData that it shares
                        \* with other threads, and has no other copy of
  NoThread, NoBlock, NoData, Garbage

ASSUME DataAssumption ==
  /\ IsFiniteSet(DataHandles) /\ ModifiesPublished \in BOOLEAN
  /\ NoThread \notin DataThreads /\ NoBlock \notin DataBlocks
  /\ EmptyData \in DataValues /\ MaxLost \in Nat
  /\ NoData \notin DataValues /\ Garbage \notin DataValues /\ NoData # Garbage

VARIABLES
  owner,      \* the thread that each CuData belongs to
  dptr,       \* d_p
  refs,       \* _r of each CuDataPrivate, 0 once deleted
  content,    \* its datamap
  writing,    \* the write each thread is in: step, CuData, value
  lost        \* history: the CuDataPrivates that clones have lost
dataVars == <<owner, dptr, refs, content, writing, lost>>

NotWriting == [step |-> "idle"]
Busy(t) == writing[t].step # "idle"
Mine(t) == {h \in DataHandles : owner[h] = t}
Handles(b) == {h \in DataHandles : dptr[h] = b}

-----------------------------------------------------------------------------
(* Constructors, destructor, assignments: an atomic operation each         *)

\* An assignment takes a reference and forgets to give one up.
BugRefs(taken, left) ==
  refs' = [b \in DataBlocks |->
             IF b = taken THEN refs[b] + 1
             ELSE IF b = left /\ taken = NoBlock THEN refs[b] - 1 ELSE refs[b]]

\* ref() of what a CuData refers to from now on, unref() of what it did.
Refs(taken, left) ==
  refs' = [b \in DataBlocks |->
             IF b = taken THEN refs[b] + 1 ELSE IF b = left THEN refs[b] - 1 ELSE refs[b]]

\* The content of a deleted CuDataPrivate is anything.
Deleted(left) ==
  content' = [b \in DataBlocks |-> IF b = left /\ refs[b] = 1 THEN Garbage ELSE content[b]]

NewData(t, h, b, v) ==
  /\ ~Busy(t) /\ owner[h] = NoThread /\ refs[b] = 0
  /\ owner' = [owner EXCEPT ![h] = t]
  /\ dptr' = [dptr EXCEPT ![h] = b]
  /\ refs' = [refs EXCEPT ![b] = 1] /\ content' = [content EXCEPT ![b] = v]
  /\ UNCHANGED <<writing, lost>>

CopyData(t, h, g) ==
  /\ ~Busy(t) /\ owner[h] = NoThread /\ g \in Mine(t)
  /\ owner' = [owner EXCEPT ![h] = t]
  /\ dptr' = [dptr EXCEPT ![h] = dptr[g]]
  /\ Refs(dptr[g], NoBlock)
  /\ UNCHANGED <<content, writing, lost>>

\* The CuData that is moved from is not used again: its d_p is null, and any
\* method but the destructor and the move assignment would dereference it.
MoveData(t, h, g) ==
  /\ ~Busy(t) /\ owner[h] = NoThread /\ g \in Mine(t)
  /\ owner' = [owner EXCEPT ![h] = t, ![g] = NoThread]
  /\ dptr' = [dptr EXCEPT ![h] = dptr[g], ![g] = NoBlock]
  /\ UNCHANGED <<refs, content, writing, lost>>

AssignData(t, h, g) ==
  /\ ~Busy(t) /\ h \in Mine(t) /\ g \in Mine(t) \ {h}
  /\ dptr' = [dptr EXCEPT ![h] = dptr[g]]
  /\ IF dptr[h] = dptr[g]
     THEN UNCHANGED <<refs, content>>
     ELSE Refs(dptr[g], dptr[h]) /\ Deleted(dptr[h])
  /\ UNCHANGED <<owner, writing, lost>>

MoveAssignData(t, h, g) ==
  /\ ~Busy(t) /\ h \in Mine(t) /\ g \in Mine(t) \ {h}
  /\ owner' = [owner EXCEPT ![g] = NoThread]
  /\ dptr' = [dptr EXCEPT ![h] = dptr[g], ![g] = NoBlock]
  /\ Refs(NoBlock, dptr[h]) /\ Deleted(dptr[h])
  /\ UNCHANGED <<writing, lost>>

DestroyData(t, h) ==
  /\ ~Busy(t) /\ h \in Mine(t)
  /\ owner' = [owner EXCEPT ![h] = NoThread]
  /\ dptr' = [dptr EXCEPT ![h] = NoBlock]
  /\ Refs(NoBlock, dptr[h]) /\ Deleted(dptr[h])
  /\ UNCHANGED <<writing, lost>>

\* clone copies what others share and do not write: it takes no reference.
\* The CuDataPrivate of the CuData that it fills, e, is lost with its reference.
CloneData(t, h, g, b, e) ==
  /\ ~Busy(t) /\ owner[h] = NoThread /\ g \in Mine(t)
  /\ refs[b] = 0 /\ refs[e] = 0 /\ b # e /\ Cardinality(lost) < MaxLost
  /\ owner' = [owner EXCEPT ![h] = t]
  /\ dptr' = [dptr EXCEPT ![h] = b]
  /\ refs' = [refs EXCEPT ![b] = 1, ![e] = 1]
  /\ content' = [content EXCEPT ![b] = content[dptr[g]], ![e] = EmptyData]
  /\ lost' = lost \union {e}
  /\ UNCHANGED writing

\* An event with a copy of the data, queued by a thread and taken by another,
\* which destroys it.
HandOver(t, u, h) ==
  /\ ~Busy(t) /\ h \in Mine(t) /\ u # t
  /\ owner' = [owner EXCEPT ![h] = u]
  /\ UNCHANGED <<dptr, refs, content, writing, lost>>

-----------------------------------------------------------------------------
(* set, add, operator[], remove, merge, putTimestamp: detach, then write   *)

SharedAway(t, h) ==
  /\ \E g \in Handles(dptr[h]) : owner[g] # t
  /\ \A g \in Handles(dptr[h]) \ {h} : owner[g] # t

\* Written in place, shared or not.
BugDetachAt(h) == "write"

\* d_p->load() > 1
DetachAt(h) == IF refs[dptr[h]] > 1 THEN "unref" ELSE "write"

BeginWrite(t, h, v) ==
  /\ ~Busy(t) /\ h \in Mine(t)
  /\ SharedAway(t, h) => ModifiesPublished
  /\ writing' = [writing EXCEPT ![t] = [step |-> DetachAt(h), data |-> h, value |-> v]]
  /\ UNCHANGED <<owner, dptr, refs, content, lost>>

\* The result of unref() is not looked at: nobody deletes if it was the last.
DetachUnref(t) ==
  /\ writing[t].step = "unref"
  /\ Refs(NoBlock, dptr[writing[t].data])
  /\ writing' = [writing EXCEPT ![t].step = "copy"]
  /\ UNCHANGED <<owner, dptr, content, lost>>

DetachCopy(t, b) ==
  LET h == writing[t].data IN
  /\ writing[t].step = "copy" /\ refs[b] = 0
  /\ refs' = [refs EXCEPT ![b] = 1] /\ content' = [content EXCEPT ![b] = content[dptr[h]]]
  /\ dptr' = [dptr EXCEPT ![h] = b]
  /\ writing' = [writing EXCEPT ![t].step = "write"]
  /\ UNCHANGED <<owner, lost>>

WriteData(t) ==
  /\ writing[t].step = "write"
  /\ content' = [content EXCEPT ![dptr[writing[t].data]] = writing[t].value]
  /\ writing' = [writing EXCEPT ![t] = NotWriting]
  /\ UNCHANGED <<owner, dptr, refs, lost>>

-----------------------------------------------------------------------------
InitData ==
  /\ owner = [h \in DataHandles |-> NoThread] /\ dptr = [h \in DataHandles |-> NoBlock]
  /\ refs = [b \in DataBlocks |-> 0] /\ content = [b \in DataBlocks |-> Garbage]
  /\ writing = [t \in DataThreads |-> NotWriting] /\ lost = {}

NextData ==
  \E t \in DataThreads :
    \/ \E h, g \in DataHandles :
         \/ CopyData(t, h, g) \/ MoveData(t, h, g)
         \/ AssignData(t, h, g) \/ MoveAssignData(t, h, g)
         \/ \E b, e \in DataBlocks : CloneData(t, h, g, b, e)
    \/ \E h \in DataHandles :
         \/ DestroyData(t, h)
         \/ \E u \in DataThreads : HandOver(t, u, h)
         \/ \E v \in DataValues :
              BeginWrite(t, h, v) \/ \E b \in DataBlocks : NewData(t, h, b, v)
    \/ DetachUnref(t) \/ WriteData(t)
    \/ \E b \in DataBlocks : DetachCopy(t, b)

SpecData == InitData /\ [][NextData]_dataVars

-----------------------------------------------------------------------------
(* Properties                                                              *)

\* Types: no reference is given up that was not taken, and nothing is read that
\* was never written.
TypeOKData ==
  /\ owner \in [DataHandles -> DataThreads \union {NoThread}]
  /\ dptr \in [DataHandles -> DataBlocks \union {NoBlock}]
  /\ refs \in [DataBlocks -> Nat]
  /\ content \in [DataBlocks -> DataValues \union {Garbage}]
  /\ writing \in [DataThreads ->
       {NotWriting} \union [step : {"unref", "copy", "write"}, data : DataHandles, value : DataValues]]
  /\ lost \subseteq DataBlocks

\* A CuDataPrivate lives as long as some CuData refers to it, though threads
\* destroy, assign and detach their copies of it at the same time: it is not
\* deleted while a CuData, or a detach under way, still reads it, and none is
\* left behind (the result of unref() that detach ignores, cudata.cpp:414-420)
\* but those that clone loses (cudata.cpp:159-160), which nobody uses again.
SharedDataAlive ==
  \A b \in DataBlocks :
    /\ refs[b] > 0 <=> Handles(b) # {} \/ b \in lost
    /\ refs[b] > 0 => content[b] # Garbage
    /\ b \in lost => Handles(b) = {}

\* Copy on write: every CuData is a value of its own (DataCopies), whatever the
\* other threads do with the copies that share its data.
Held == [h \in DataHandles |-> IF dptr[h] = NoBlock THEN NoData ELSE content[dptr[h]]]
Copies == INSTANCE DataCopies WITH held <- Held
CopyOnWrite == Copies!Spec
=============================================================================
