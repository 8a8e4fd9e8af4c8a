----------------------------- MODULE CuDataProofs ------------------------------
(***************************************************************************)
(* What TLAPS proves of CuData, for any number of threads and CuDatas: if  *)
(* no thread writes into a CuData that it shares with other threads and    *)
(* has no other copy of, the shared data live as long as they are used,    *)
(* and copy on write is not to be told from copies.                        *)
(***************************************************************************)
EXTENDS CuData, FiniteSetTheorems, TLAPS

\* h has given up its reference, and is still to be copied from.
Taken(h) == \E t \in DataThreads : writing[t].step = "copy" /\ writing[t].data = h
Holders(b) == {h \in Handles(b) : ~Taken(h)}

Owned == \A h \in DataHandles : dptr[h] = NoBlock <=> owner[h] = NoThread
WritersOwn == \A t \in DataThreads : Busy(t) => owner[writing[t].data] = t
\* Who counts has been lost or refers to it.
Lost(b) == IF b \in lost THEN 1 ELSE 0
Counted == \A b \in DataBlocks : refs[b] = Cardinality(Holders(b)) + Lost(b)
LostAlone == \A b \in lost : Handles(b) = {}
Anchored ==
  \A t \in DataThreads : writing[t].step \in {"unref", "copy"} =>
    \E k \in DataHandles \ {writing[t].data} :
      owner[k] = t /\ dptr[k] = dptr[writing[t].data]
Exclusive ==
  \A t \in DataThreads : writing[t].step = "write" =>
    Handles(dptr[writing[t].data]) = {writing[t].data}
NotGarbage == \A b \in DataBlocks : refs[b] > 0 => content[b] # Garbage

DataInv ==
  /\ TypeOKData /\ Owned /\ WritersOwn /\ Counted
  /\ Anchored /\ Exclusive /\ NotGarbage /\ LostAlone

-----------------------------------------------------------------------------
(* What the invariant says of a state                                      *)

LEMMA HoldersFinite ==
  ASSUME NEW b
  PROVE  IsFiniteSet(Holders(b)) /\ Cardinality(Holders(b)) \in Nat
<1>1. Holders(b) \subseteq DataHandles
  BY DEF Holders, Handles
<1> QED BY <1>1, DataAssumption, FS_Subset, FS_CardinalityType

\* A thread that is not writing has all the references of its CuDatas; one
\* that detaches has those of the others.
LEMMA NotTaken ==
  ASSUME WritersOwn, TypeOKData, NEW k \in DataHandles, NEW t \in DataThreads,
         owner[k] = t, Busy(t) => writing[t].data # k
  PROVE  ~Taken(k)
<1> SUFFICES ASSUME NEW u \in DataThreads, writing[u].step = "copy", writing[u].data = k
             PROVE  FALSE
  BY DEF Taken
<1>1. owner[k] = u
  BY DEF WritersOwn, Busy
<1> QED BY <1>1 DEF Busy

\* Nor is one taken that nobody owns.
LEMMA FreeNotTaken ==
  ASSUME WritersOwn, NEW k \in DataHandles, owner[k] = NoThread
  PROVE  ~Taken(k)
BY DataAssumption DEF Taken, WritersOwn, Busy

\* A CuDataPrivate that some CuData points at has a reference.
LEMMA HeldIsCounted ==
  ASSUME DataInv, NEW h \in DataHandles, dptr[h] # NoBlock
  PROVE  dptr[h] \in DataBlocks /\ Holders(dptr[h]) # {} /\ refs[dptr[h]] > 0
<1> DEFINE b == dptr[h]
<1>1. b \in DataBlocks
  BY DEF DataInv, TypeOKData
<1>2. \E k \in DataHandles : k \in Holders(b)
  <2>1. CASE ~Taken(h)
    BY <2>1 DEF Holders, Handles
  <2>2. CASE Taken(h)
    <3>1. PICK t \in DataThreads : writing[t].step = "copy" /\ writing[t].data = h
      BY <2>2 DEF Taken
    <3>2. PICK k \in DataHandles \ {h} : owner[k] = t /\ dptr[k] = b
      BY <3>1 DEF DataInv, Anchored
    <3>3. ~Taken(k)
      BY <3>1, <3>2, NotTaken DEF DataInv
    <3> QED BY <3>2, <3>3 DEF Holders, Handles
  <2> QED BY <2>1, <2>2
<1>3. Cardinality(Holders(b)) # 0
  BY <1>2, HoldersFinite, FS_EmptySet
<1> QED BY <1>1, <1>2, <1>3, HoldersFinite DEF DataInv, Counted, Lost

LEMMA InvShared == DataInv => SharedDataAlive
<1> SUFFICES ASSUME DataInv, NEW b \in DataBlocks
             PROVE  /\ refs[b] > 0 <=> Handles(b) # {} \/ b \in lost
                    /\ refs[b] > 0 => content[b] # Garbage
                    /\ b \in lost => Handles(b) = {}
  BY DEF SharedDataAlive
<1>0. refs[b] = Cardinality(Holders(b)) + Lost(b) /\ Cardinality(Holders(b)) \in Nat
  BY HoldersFinite DEF DataInv, Counted
<1>1. ASSUME Handles(b) # {} PROVE refs[b] > 0
  BY <1>1, HeldIsCounted, DataAssumption DEF Handles
<1>2. ASSUME b \in lost PROVE refs[b] > 0
  BY <1>0, <1>2 DEF Lost
<1>3. ASSUME refs[b] > 0, b \notin lost PROVE Handles(b) # {}
  <2>1. Cardinality(Holders(b)) # 0
    BY <1>0, <1>3 DEF Lost
  <2>2. Holders(b) # {}
    BY <2>1, FS_EmptySet
  <2> QED BY <2>2 DEF Holders
<1> QED BY <1>1, <1>2, <1>3 DEF DataInv, NotGarbage, LostAlone

\* Nothing points at what is free to be allocated.
LEMMA FreeUnused ==
  ASSUME DataInv, NEW b \in DataBlocks, refs[b] = 0
  PROVE  Handles(b) = {} /\ Holders(b) = {}
BY InvShared DEF SharedDataAlive, Holders

\* An only reference is an only CuData: what is written in place is not shared.
LEMMA OnlyHolder ==
  ASSUME DataInv, NEW t \in DataThreads, NEW h \in Mine(t), ~Busy(t), ~(refs[dptr[h]] > 1)
  PROVE  Handles(dptr[h]) = {h}
<1> DEFINE b == dptr[h]
<1>0. h \in DataHandles /\ owner[h] = t /\ b # NoBlock
  BY DataAssumption DEF Mine, DataInv, Owned
<1>1. b \in DataBlocks /\ refs[b] \in Nat /\ refs[b] > 0
  BY <1>0, HeldIsCounted DEF DataInv, TypeOKData
<1>2. ~Taken(h)
  BY <1>0, NotTaken DEF DataInv
<1>3. h \in Holders(b)
  BY <1>0, <1>2 DEF Holders, Handles
<1>4. Cardinality(Holders(b)) = 1
  <2>1. b \notin lost
    BY <1>3 DEF DataInv, LostAlone, Holders
  <2> QED BY <1>1, <2>1, HoldersFinite DEF DataInv, Counted, Lost
<1>5. Holders(b) = {h}
  BY <1>3, <1>4, HoldersFinite, FS_Singleton
<1>6. ASSUME NEW g \in Handles(b), g # h PROVE FALSE
  <2>1. Taken(g)
    BY <1>5, <1>6 DEF Holders
  <2>2. PICK u \in DataThreads : writing[u].step = "copy" /\ writing[u].data = g
    BY <2>1 DEF Taken
  <2>3. PICK k \in DataHandles \ {g} : owner[k] = u /\ dptr[k] = b
    BY <2>2, <1>6 DEF DataInv, Anchored, Handles
  <2>4. ~Taken(k)
    BY <2>2, <2>3, NotTaken DEF DataInv
  <2>5. k = h
    BY <2>3, <2>4, <1>5 DEF Holders, Handles
  <2> QED BY <2>2, <2>3, <2>5, <1>0 DEF Busy
<1> QED BY <1>3, <1>6 DEF Holders

-----------------------------------------------------------------------------
(* What a step leaves alone                                                *)

\* A step of t touches its own CuDatas and free ones, and makes them point at
\* what its own point at, at nothing, or at a new CuDataPrivate.
StepOf(t) ==
  /\ \A k \in DataHandles : owner[k] \notin {t, NoThread} =>
       owner'[k] = owner[k] /\ dptr'[k] = dptr[k]
  /\ \A k \in DataHandles :
       \/ dptr'[k] \in {dptr[k], NoBlock}
       \/ refs[dptr'[k]] = 0 /\ dptr'[k] \in DataBlocks
       \/ \E g \in Mine(t) : dptr'[k] = dptr[g]
  /\ \A u \in DataThreads \ {t} : writing'[u] = writing[u]

\* The threads in the middle of a write keep what the invariant promises them.
LEMMA OthersKept ==
  ASSUME DataInv, NEW t \in DataThreads, StepOf(t),
         NEW u \in DataThreads \ {t}, Busy(u)
  PROVE  LET h == writing[u].data IN
         /\ writing'[u] = writing[u] /\ owner'[h] = u /\ dptr'[h] = dptr[h]
         /\ writing[u].step \in {"unref", "copy"} =>
              \E k \in DataHandles \ {h} : owner'[k] = u /\ dptr'[k] = dptr'[h]
         /\ writing[u].step = "write" => Handles(dptr[h])' = {h}
<1> DEFINE h == writing[u].data
<1>1. h \in DataHandles /\ owner[h] = u
  BY DEF DataInv, TypeOKData, WritersOwn, Busy, NotWriting
<1>2. u # NoThread
  BY DataAssumption
<1>3. writing'[u] = writing[u] /\ owner'[h] = u /\ dptr'[h] = dptr[h]
  BY <1>1, <1>2 DEF StepOf
<1>4. ASSUME writing[u].step \in {"unref", "copy"}
      PROVE  \E k \in DataHandles \ {h} : owner'[k] = u /\ dptr'[k] = dptr'[h]
  <2>1. PICK k \in DataHandles \ {h} : owner[k] = u /\ dptr[k] = dptr[h]
    BY <1>4 DEF DataInv, Anchored
  <2>2. owner'[k] = u /\ dptr'[k] = dptr[k]
    BY <2>1, <1>2 DEF StepOf
  <2> QED BY <2>1, <2>2, <1>3
<1>5. ASSUME writing[u].step = "write" PROVE Handles(dptr[h])' = {h}
  <2>1. Handles(dptr[h]) = {h}
    BY <1>5 DEF DataInv, Exclusive
  <2>2. dptr[h] # NoBlock
    BY <1>1, <1>2 DEF DataInv, Owned
  <2>3. refs[dptr[h]] > 0
    BY <1>1, <2>2, HeldIsCounted
  <2>4. ASSUME NEW k \in DataHandles, dptr'[k] = dptr[h] PROVE k = h
    <3>1. ~(refs[dptr'[k]] = 0)
      BY <2>3, <2>4
    <3>2. CASE dptr'[k] \in {dptr[k], NoBlock}
      BY <3>2, <2>1, <2>2, <2>4 DEF Handles
    <3>3. CASE \E g \in Mine(t) : dptr'[k] = dptr[g]
      <4>1. PICK g \in Mine(t) : dptr[g] = dptr[h]
        BY <3>3, <2>4
      <4>2. g = h
        BY <4>1, <2>1 DEF Handles, Mine
      <4> QED BY <4>2, <1>1 DEF Mine
    <3> QED BY <3>1, <3>2, <3>3 DEF StepOf
  <2> QED BY <2>4, <1>1, <1>3 DEF Handles
<1> QED BY <1>3, <1>4, <1>5

\* Nobody comes to refer to what is lost.
LEMMA LostKept ==
  ASSUME DataInv, NEW t \in DataThreads, StepOf(t), \A c \in lost' \ lost : Handles(c)' = {}
  PROVE  LostAlone'
<1> SUFFICES ASSUME NEW c \in lost, NEW k \in DataHandles, dptr'[k] = c PROVE FALSE
  BY DEF LostAlone, Handles
<1>1. c \in DataBlocks /\ c # NoBlock /\ \A g \in DataHandles : dptr[g] # c
  BY DataAssumption DEF DataInv, TypeOKData, LostAlone, Handles
<1>2. refs[c] # 0
  BY <1>1, InvShared DEF SharedDataAlive
<1> QED BY <1>1, <1>2 DEF StepOf, Mine

\* So a step of a thread that is not writing, before or after it.
LEMMA IdleKept ==
  ASSUME DataInv, NEW t \in DataThreads, StepOf(t), writing'[t] = NotWriting,
         \A c \in lost' \ lost : Handles(c)' = {}
  PROVE  WritersOwn' /\ Anchored' /\ Exclusive' /\ LostAlone'
<1>1. \A u \in DataThreads : u = t \/ ~Busy(u) => writing'[u].step = "idle"
  BY DEF StepOf, Busy, NotWriting
<1>2. WritersOwn'
  BY <1>1, OthersKept DEF WritersOwn, Busy
<1>3. Anchored'
  <2> SUFFICES ASSUME NEW u \in DataThreads, writing'[u].step \in {"unref", "copy"}
               PROVE  \E k \in DataHandles \ {writing'[u].data} :
                        owner'[k] = u /\ dptr'[k] = dptr'[writing'[u].data]
    BY DEF Anchored
  <2>1. u # t /\ Busy(u)
    BY <1>1
  <2>2. writing'[u] = writing[u]
    BY <2>1 DEF StepOf
  <2> QED BY <2>1, <2>2, OthersKept
<1>4. Exclusive'
  <2> SUFFICES ASSUME NEW u \in DataThreads, writing'[u].step = "write"
               PROVE  Handles(dptr[writing[u].data])' = {writing'[u].data}
    BY DEF Exclusive
  <2>1. u # t /\ Busy(u)
    BY <1>1
  <2>2. writing'[u] = writing[u] /\ dptr'[writing[u].data] = dptr[writing[u].data]
    BY <2>1, OthersKept
  <2>3. Handles(dptr[writing[u].data])' = {writing[u].data}
    BY <2>1, <2>2, OthersKept DEF Handles
  <2> QED BY <2>2, <2>3
<1> QED BY <1>2, <1>3, <1>4, LostKept

LEMMA TakenSame ==
  ASSUME UNCHANGED writing, NEW h
  PROVE  Taken(h)' <=> Taken(h)
BY DEF Taken

-----------------------------------------------------------------------------
(* Constructors, destructor, assignments                                   *)

\* h comes to point at a CuDataPrivate that is free.
LEMMA NewInv ==
  ASSUME DataInv, NEW t \in DataThreads, NEW h \in DataHandles, NEW b \in DataBlocks,
         NEW v \in DataValues, NewData(t, h, b, v)
  PROVE  DataInv'
<1> USE DEF NewData
<1>1. owner[h] = NoThread /\ dptr[h] = NoBlock /\ b # NoBlock /\ t # NoThread
  BY DataAssumption DEF DataInv, Owned
<1>2. Handles(b) = {} /\ Holders(b) = {}
  BY FreeUnused
<1>3. TypeOKData'
  BY DEF DataInv, TypeOKData
<1>4. dptr' = [dptr EXCEPT ![h] = b] /\ owner' = [owner EXCEPT ![h] = t]
  OBVIOUS
<1>5. Owned'
  BY <1>1, <1>4 DEF DataInv, TypeOKData, Owned
<1>6. StepOf(t) /\ writing'[t] = NotWriting
  BY <1>1, <1>4 DEF StepOf, DataInv, TypeOKData, Busy, NotWriting
<1>7. Counted'
  <2>1. Holders(b)' = {h}
    BY <1>1, <1>2, <1>4, TakenSame, FreeNotTaken DEF Holders, Handles, DataInv, TypeOKData
  <2>2. \A c \in DataBlocks \ {b} : Holders(c)' = Holders(c)
    BY <1>1, <1>4, TakenSame, DataAssumption DEF Holders, Handles, DataInv, TypeOKData
  <2>3. Cardinality(Holders(b)') = 1
    BY <2>1, FS_Singleton
  <2>4. b \notin lost
    BY InvShared DEF SharedDataAlive
  <2> QED BY <2>2, <2>3, <2>4 DEF DataInv, TypeOKData, Counted, Lost
<1>8. NotGarbage'
  BY DataAssumption DEF DataInv, TypeOKData, NotGarbage
<1> QED BY <1>3, <1>5, <1>6, <1>7, <1>8, IdleKept DEF DataInv

\* The counts follow the holders.
LEMMA RefsCounted ==
  ASSUME DataInv, NEW taken, NEW left, Refs(taken, left), lost' = lost,
         \A c \in DataBlocks :
           Cardinality(Holders(c)') = IF c = taken THEN Cardinality(Holders(c)) + 1
                                      ELSE IF c = left THEN Cardinality(Holders(c)) - 1
                                      ELSE Cardinality(Holders(c))
  PROVE  Counted' /\ refs' \in [DataBlocks -> Nat]
<1>1. \A c \in DataBlocks : refs[c] = Cardinality(Holders(c)) + Lost(c)
  BY DEF DataInv, Counted
<1>2. \A c \in DataBlocks : refs'[c] = Cardinality(Holders(c)') + Lost(c)
  <2>1. \A c \in DataBlocks : Cardinality(Holders(c)) \in Nat /\ Lost(c) \in Nat
    BY HoldersFinite DEF Lost
  <2> QED BY <1>1, <2>1 DEF Refs
<1>3. \A c \in DataBlocks : Cardinality(Holders(c)') \in Nat
  <2>1. \A c : Holders(c)' \subseteq DataHandles
    BY DEF Holders, Handles
  <2> QED BY <2>1, DataAssumption, FS_Subset, FS_CardinalityType
<1>4. refs' \in [DataBlocks -> Nat]
  BY <1>2, <1>3 DEF Refs, Lost
<1> QED BY <1>2, <1>4 DEF Counted, Lost

LEMMA OneMore ==
  ASSUME NEW c, NEW h, h \notin Holders(c), Holders(c)' = Holders(c) \union {h}
  PROVE  Cardinality(Holders(c)') = Cardinality(Holders(c)) + 1
BY HoldersFinite, FS_AddElement

LEMMA OneLess ==
  ASSUME NEW c, NEW h, h \in Holders(c), Holders(c)' = Holders(c) \ {h}
  PROVE  Cardinality(Holders(c)') = Cardinality(Holders(c)) - 1
BY HoldersFinite, FS_RemoveElement

LEMMA OneForAnother ==
  ASSUME NEW c, NEW g, NEW h, g \in Holders(c), h \notin Holders(c),
         Holders(c)' = (Holders(c) \ {g}) \union {h}
  PROVE  Cardinality(Holders(c)') = Cardinality(Holders(c))
<1>1. IsFiniteSet(Holders(c) \ {g}) /\ Cardinality(Holders(c) \ {g}) = Cardinality(Holders(c)) - 1
  BY HoldersFinite, FS_RemoveElement
<1>2. Cardinality((Holders(c) \ {g}) \union {h}) = Cardinality(Holders(c) \ {g}) + 1
  BY <1>1, FS_AddElement
<1> QED BY <1>1, <1>2, HoldersFinite

\* What a CuData of a thread that is not writing says of the state.
LEMMA MineHeld ==
  ASSUME DataInv, NEW t \in DataThreads, NEW g \in Mine(t), ~Busy(t)
  PROVE  /\ g \in DataHandles /\ owner[g] = t /\ t # NoThread
         /\ dptr[g] \in DataBlocks /\ dptr[g] # NoBlock /\ refs[dptr[g]] > 0
         /\ ~Taken(g)
<1>1. g \in DataHandles /\ owner[g] = t /\ t # NoThread
  BY DataAssumption DEF Mine
<1>2. dptr[g] # NoBlock
  BY <1>1 DEF DataInv, Owned
<1> QED BY <1>1, <1>2, HeldIsCounted, NotTaken DEF DataInv

\* A free CuData.
LEMMA FreeHeld ==
  ASSUME DataInv, NEW h \in DataHandles, owner[h] = NoThread
  PROVE  dptr[h] = NoBlock /\ ~Taken(h)
BY FreeNotTaken DEF DataInv, Owned

LEMMA CopyInv ==
  ASSUME DataInv, NEW t \in DataThreads, NEW h \in DataHandles, NEW g \in DataHandles,
         CopyData(t, h, g)
  PROVE  DataInv'
<1> USE DEF CopyData
<1>1. dptr[h] = NoBlock /\ ~Taken(h)
  BY FreeHeld
<1>2. /\ owner[g] = t /\ t # NoThread /\ ~Taken(g)
      /\ dptr[g] \in DataBlocks /\ dptr[g] # NoBlock /\ refs[dptr[g]] > 0
  BY MineHeld
<1>3. PICK x \in DataBlocks : x = dptr[g]
  BY <1>2
<1>4. dptr' = [dptr EXCEPT ![h] = x] /\ owner' = [owner EXCEPT ![h] = t] /\ Refs(x, NoBlock)
  BY <1>3
<1>5. Counted' /\ refs' \in [DataBlocks -> Nat]
  <2>1. Holders(x)' = Holders(x) \union {h} /\ h \notin Holders(x)
    BY <1>1, <1>2, <1>3, <1>4, TakenSame DEF Holders, Handles, DataInv, TypeOKData
  <2>2. \A c \in DataBlocks \ {x} : Holders(c)' = Holders(c)
    BY <1>1, <1>4, TakenSame, DataAssumption DEF Holders, Handles, DataInv, TypeOKData
  <2>3. Cardinality(Holders(x)') = Cardinality(Holders(x)) + 1
    BY <2>1, OneMore
  <2> QED BY <1>4, <2>2, <2>3, RefsCounted, DataAssumption
<1>6. TypeOKData'
  BY <1>4, <1>5 DEF DataInv, TypeOKData
<1>7. Owned'
  BY <1>1, <1>2, <1>3, <1>4 DEF DataInv, TypeOKData, Owned
<1>8. StepOf(t) /\ writing'[t] = NotWriting
  BY <1>2, <1>3, <1>4 DEF StepOf, DataInv, TypeOKData, Busy, NotWriting
<1>9. NotGarbage'
  BY <1>2, <1>3, <1>4, DataAssumption DEF DataInv, TypeOKData, NotGarbage, Refs
<1> QED BY <1>5, <1>6, <1>7, <1>8, <1>9, IdleKept DEF DataInv

LEMMA MoveInv ==
  ASSUME DataInv, NEW t \in DataThreads, NEW h \in DataHandles, NEW g \in DataHandles,
         MoveData(t, h, g)
  PROVE  DataInv'
<1> USE DEF MoveData
<1>1. dptr[h] = NoBlock /\ ~Taken(h)
  BY FreeHeld
<1>2. /\ owner[g] = t /\ t # NoThread /\ ~Taken(g) /\ g # h
      /\ dptr[g] \in DataBlocks /\ dptr[g] # NoBlock
  BY MineHeld
<1>3. PICK x \in DataBlocks : x = dptr[g]
  BY <1>2
<1>4. dptr' = [dptr EXCEPT ![h] = x, ![g] = NoBlock]
      /\ owner' = [owner EXCEPT ![h] = t, ![g] = NoThread]
  BY <1>3
<1>5. Counted'
  <2>1. Holders(x)' = (Holders(x) \ {g}) \union {h} /\ g \in Holders(x) /\ h \notin Holders(x)
    BY <1>1, <1>2, <1>3, <1>4, TakenSame DEF Holders, Handles, DataInv, TypeOKData
  <2>2. \A c \in DataBlocks \ {x} : Holders(c)' = Holders(c)
    BY <1>1, <1>2, <1>3, <1>4, TakenSame, DataAssumption DEF Holders, Handles, DataInv, TypeOKData
  <2>3. Cardinality(Holders(x)') = Cardinality(Holders(x))
    BY <2>1, OneForAnother
  <2> QED BY <2>2, <2>3 DEF DataInv, Counted, Lost
<1>6. TypeOKData'
  BY <1>4 DEF DataInv, TypeOKData
<1>7. Owned'
  BY <1>1, <1>2, <1>3, <1>4 DEF DataInv, TypeOKData, Owned
<1>8. StepOf(t) /\ writing'[t] = NotWriting
  BY <1>2, <1>3, <1>4 DEF StepOf, DataInv, TypeOKData, Busy, NotWriting
<1>9. NotGarbage'
  BY DEF DataInv, NotGarbage
<1> QED BY <1>5, <1>6, <1>7, <1>8, <1>9, IdleKept DEF DataInv

\* What is deleted has no reference left, and the rest keeps its content.
LEMMA DeletedInv ==
  ASSUME DataInv, NEW taken \in DataBlocks \union {NoBlock}, NEW left, taken # left,
         taken # NoBlock => refs[taken] > 0, Refs(taken, left), Deleted(left)
  PROVE  /\ NotGarbage'
         /\ content' \in [DataBlocks -> DataValues \union {Garbage}]
<1>1. content' \in [DataBlocks -> DataValues \union {Garbage}]
  BY DEF Deleted, DataInv, TypeOKData
<1>2. ASSUME NEW c \in DataBlocks, refs'[c] > 0 PROVE content'[c] # Garbage
  <2>1. refs[c] \in Nat
    BY DEF DataInv, TypeOKData
  <2>2. refs'[c] = IF c = taken THEN refs[c] + 1 ELSE IF c = left THEN refs[c] - 1 ELSE refs[c]
    BY DEF Refs
  <2>3. refs[c] > 0
    BY <1>2, <2>1, <2>2, DataAssumption
  <2>4. ~(c = left /\ refs[c] = 1)
    BY <1>2, <2>1, <2>2
  <2>5. content'[c] = content[c]
    BY <2>4 DEF Deleted
  <2> QED BY <2>3, <2>5 DEF DataInv, NotGarbage
<1> QED BY <1>1, <1>2 DEF NotGarbage

LEMMA AssignInv ==
  ASSUME DataInv, NEW t \in DataThreads, NEW h \in DataHandles, NEW g \in DataHandles,
         AssignData(t, h, g)
  PROVE  DataInv'
<1> USE DEF AssignData
<1>1. h \in Mine(t) /\ g \in Mine(t) /\ ~Busy(t) /\ g # h
  OBVIOUS
<1>2. /\ owner[h] = t /\ t # NoThread /\ ~Taken(h)
      /\ dptr[h] \in DataBlocks /\ dptr[h] # NoBlock /\ refs[dptr[h]] > 0
  BY <1>1, MineHeld
<1>3. /\ owner[g] = t /\ ~Taken(g)
      /\ dptr[g] \in DataBlocks /\ dptr[g] # NoBlock /\ refs[dptr[g]] > 0
  BY <1>1, MineHeld
<1>4. PICK x \in DataBlocks : x = dptr[h]
  BY <1>2
<1>5. PICK y \in DataBlocks : y = dptr[g]
  BY <1>3
<1>6. dptr' = [dptr EXCEPT ![h] = y] /\ owner' = owner /\ writing' = writing
  BY <1>5
<1>7. /\ Counted' /\ refs' \in [DataBlocks -> Nat]
      /\ NotGarbage' /\ content' \in [DataBlocks -> DataValues \union {Garbage}]
  <2>1. CASE x = y
    <3>1. dptr' = dptr /\ refs' = refs /\ content' = content
      BY <2>1, <1>4, <1>5, <1>6 DEF DataInv, TypeOKData
    <3>2. \A c : Holders(c)' = Holders(c)
      BY <3>1, <1>6, TakenSame DEF Holders, Handles
    <3> QED BY <3>1, <3>2 DEF DataInv, TypeOKData, Counted, Lost, NotGarbage
  <2>2. CASE x # y
    <3>1. Refs(y, x) /\ Deleted(x)
      BY <2>2, <1>4, <1>5
    <3>2. Holders(y)' = Holders(y) \union {h} /\ h \notin Holders(y)
      BY <2>2, <1>2, <1>4, <1>6, TakenSame DEF Holders, Handles, DataInv, TypeOKData
    <3>3. Holders(x)' = Holders(x) \ {h} /\ h \in Holders(x)
      BY <2>2, <1>2, <1>4, <1>6, TakenSame DEF Holders, Handles, DataInv, TypeOKData
    <3>4. \A c \in DataBlocks \ {x, y} : Holders(c)' = Holders(c)
      BY <1>4, <1>6, TakenSame DEF Holders, Handles, DataInv, TypeOKData
    <3>5. Cardinality(Holders(y)') = Cardinality(Holders(y)) + 1
      BY <3>2, OneMore
    <3>6. Cardinality(Holders(x)') = Cardinality(Holders(x)) - 1
      BY <3>3, OneLess
    <3>7. Counted' /\ refs' \in [DataBlocks -> Nat]
      BY <2>2, <3>1, <3>4, <3>5, <3>6, RefsCounted
    <3>8. refs[y] > 0
      BY <1>3, <1>5
    <3> QED BY <2>2, <3>1, <3>7, <3>8, DeletedInv
  <2> QED BY <2>1, <2>2
<1>8. TypeOKData'
  BY <1>6, <1>7 DEF DataInv, TypeOKData
<1>9. Owned'
  BY <1>2, <1>3, <1>5, <1>6 DEF DataInv, TypeOKData, Owned
<1>10. StepOf(t) /\ writing'[t] = NotWriting
  BY <1>1, <1>2, <1>5, <1>6 DEF StepOf, DataInv, TypeOKData, Busy, NotWriting
<1> QED BY <1>7, <1>8, <1>9, <1>10, IdleKept DEF DataInv

LEMMA MoveAssignInv ==
  ASSUME DataInv, NEW t \in DataThreads, NEW h \in DataHandles, NEW g \in DataHandles,
         MoveAssignData(t, h, g)
  PROVE  DataInv'
<1> USE DEF MoveAssignData
<1>1. h \in Mine(t) /\ g \in Mine(t) /\ ~Busy(t) /\ g # h
  OBVIOUS
<1>2. /\ owner[h] = t /\ t # NoThread /\ ~Taken(h)
      /\ dptr[h] \in DataBlocks /\ dptr[h] # NoBlock /\ refs[dptr[h]] > 0
  BY <1>1, MineHeld
<1>3. /\ owner[g] = t /\ ~Taken(g)
      /\ dptr[g] \in DataBlocks /\ dptr[g] # NoBlock /\ refs[dptr[g]] > 0
  BY <1>1, MineHeld
<1>4. PICK x \in DataBlocks : x = dptr[h]
  BY <1>2
<1>5. PICK y \in DataBlocks : y = dptr[g]
  BY <1>3
<1>6. /\ dptr' = [dptr EXCEPT ![h] = y, ![g] = NoBlock]
      /\ owner' = [owner EXCEPT ![g] = NoThread] /\ writing' = writing /\ lost' = lost
      /\ Refs(NoBlock, x) /\ Deleted(x)
  BY <1>4, <1>5
<1>7. Counted' /\ refs' \in [DataBlocks -> Nat]
  <2>1. Cardinality(Holders(x)') = Cardinality(Holders(x)) - 1
    <3>1. CASE x = y
      <4>1. Holders(x)' = Holders(x) \ {g} /\ g \in Holders(x)
        BY <3>1, <1>1, <1>2, <1>3, <1>4, <1>5, <1>6, TakenSame DEF Holders, Handles, DataInv, TypeOKData
      <4> QED BY <4>1, OneLess
    <3>2. CASE x # y
      <4>1. Holders(x)' = Holders(x) \ {h} /\ h \in Holders(x)
        BY <3>2, <1>1, <1>2, <1>3, <1>4, <1>5, <1>6, TakenSame DEF Holders, Handles, DataInv, TypeOKData
      <4> QED BY <4>1, OneLess
    <3> QED BY <3>1, <3>2
  <2>2. CASE x = y
    <3>1. ASSUME NEW c \in DataBlocks \ {x} PROVE Holders(c)' = Holders(c)
      <4>1. ASSUME NEW k \in DataHandles PROVE dptr'[k] = c <=> dptr[k] = c
        <5>1. dptr'[k] = IF k = g THEN NoBlock ELSE IF k = h THEN y ELSE dptr[k]
          BY <1>6 DEF DataInv, TypeOKData
        <5> QED BY <5>1, <2>2, <1>4, <1>5, DataAssumption
      <4> QED BY <4>1, <1>6, TakenSame DEF Holders, Handles
    <3> QED BY <1>6, <2>1, <3>1, RefsCounted, DataAssumption
  <2>3. CASE x # y
    <3>1. /\ Holders(y)' = (Holders(y) \ {g}) \union {h}
          /\ g \in Holders(y) /\ h \notin Holders(y)
      BY <2>3, <1>1, <1>2, <1>3, <1>4, <1>5, <1>6, TakenSame DEF Holders, Handles, DataInv, TypeOKData
    <3>2. \A c \in DataBlocks \ {x, y} : Holders(c)' = Holders(c)
      BY <1>1, <1>2, <1>3, <1>4, <1>5, <1>6, TakenSame, DataAssumption DEF Holders, Handles, DataInv, TypeOKData
    <3>3. Cardinality(Holders(y)') = Cardinality(Holders(y))
      BY <3>1, OneForAnother
    <3> QED BY <1>6, <2>1, <2>3, <3>2, <3>3, RefsCounted, DataAssumption
  <2> QED BY <2>2, <2>3
<1>8. NotGarbage' /\ content' \in [DataBlocks -> DataValues \union {Garbage}]
  BY <1>6, DeletedInv, DataAssumption
<1>9. TypeOKData'
  BY <1>6, <1>7, <1>8 DEF DataInv, TypeOKData
<1>10. Owned'
  BY <1>1, <1>2, <1>3, <1>5, <1>6 DEF DataInv, TypeOKData, Owned
<1>11. StepOf(t) /\ writing'[t] = NotWriting
  BY <1>1, <1>2, <1>3, <1>5, <1>6 DEF StepOf, DataInv, TypeOKData, Busy, NotWriting
<1> QED BY <1>7, <1>8, <1>9, <1>10, <1>11, IdleKept DEF DataInv

LEMMA DestroyInv ==
  ASSUME DataInv, NEW t \in DataThreads, NEW h \in DataHandles, DestroyData(t, h)
  PROVE  DataInv'
<1> USE DEF DestroyData
<1>1. h \in Mine(t) /\ ~Busy(t)
  OBVIOUS
<1>2. /\ owner[h] = t /\ t # NoThread /\ ~Taken(h)
      /\ dptr[h] \in DataBlocks /\ dptr[h] # NoBlock
  BY <1>1, MineHeld
<1>3. PICK x \in DataBlocks : x = dptr[h]
  BY <1>2
<1>4. /\ dptr' = [dptr EXCEPT ![h] = NoBlock] /\ owner' = [owner EXCEPT ![h] = NoThread]
      /\ writing' = writing /\ lost' = lost /\ Refs(NoBlock, x) /\ Deleted(x)
  BY <1>3
<1>5. Counted' /\ refs' \in [DataBlocks -> Nat]
  <2>1. Holders(x)' = Holders(x) \ {h} /\ h \in Holders(x)
    BY <1>2, <1>3, <1>4, TakenSame DEF Holders, Handles, DataInv, TypeOKData
  <2>2. \A c \in DataBlocks \ {x} : Holders(c)' = Holders(c)
    BY <1>2, <1>3, <1>4, TakenSame, DataAssumption DEF Holders, Handles, DataInv, TypeOKData
  <2>3. Cardinality(Holders(x)') = Cardinality(Holders(x)) - 1
    BY <2>1, OneLess
  <2> QED BY <1>4, <2>2, <2>3, RefsCounted, DataAssumption
<1>6. NotGarbage' /\ content' \in [DataBlocks -> DataValues \union {Garbage}]
  BY <1>4, DeletedInv, DataAssumption
<1>7. TypeOKData'
  BY <1>4, <1>5, <1>6 DEF DataInv, TypeOKData
<1>8. Owned'
  BY <1>4 DEF DataInv, TypeOKData, Owned
<1>9. StepOf(t) /\ writing'[t] = NotWriting
  BY <1>1, <1>2, <1>4 DEF StepOf, DataInv, TypeOKData, Busy, NotWriting
<1> QED BY <1>5, <1>6, <1>7, <1>8, <1>9, IdleKept DEF DataInv

\* h comes to point at a copy of its own, and e is lost.
LEMMA CloneInv ==
  ASSUME DataInv, NEW t \in DataThreads, NEW h \in DataHandles, NEW g \in DataHandles,
         NEW b \in DataBlocks, NEW e \in DataBlocks, CloneData(t, h, g, b, e)
  PROVE  DataInv'
<1> USE DEF CloneData
<1>1. owner[h] = NoThread /\ dptr[h] = NoBlock /\ b # NoBlock /\ e # NoBlock /\ t # NoThread
  BY DataAssumption DEF DataInv, Owned
<1>2. Handles(b) = {} /\ Holders(b) = {} /\ Handles(e) = {} /\ Holders(e) = {}
  BY FreeUnused
<1>3. PICK v \in DataValues : v = content[dptr[g]]
  <2>1. dptr[g] \in DataBlocks /\ refs[dptr[g]] > 0
    BY MineHeld
  <2> QED BY <2>1 DEF DataInv, NotGarbage, TypeOKData
<1>4. /\ dptr' = [dptr EXCEPT ![h] = b] /\ owner' = [owner EXCEPT ![h] = t]
      /\ content' = [content EXCEPT ![b] = v, ![e] = EmptyData]
      /\ refs' = [refs EXCEPT ![b] = 1, ![e] = 1] /\ lost' = lost \union {e} /\ b # e
  BY <1>3
<1>5. TypeOKData'
  BY <1>4, DataAssumption DEF DataInv, TypeOKData
<1>6. Owned'
  BY <1>1, <1>4 DEF DataInv, TypeOKData, Owned
<1>7. StepOf(t) /\ writing'[t] = NotWriting
  BY <1>1, <1>4 DEF StepOf, DataInv, TypeOKData, Busy, NotWriting
<1>8. Counted'
  <2>1. Holders(b)' = {h}
    BY <1>1, <1>2, <1>4, TakenSame, FreeNotTaken DEF Holders, Handles, DataInv, TypeOKData
  <2>2. \A c \in DataBlocks \ {b} : Holders(c)' = Holders(c)
    BY <1>1, <1>4, TakenSame, DataAssumption DEF Holders, Handles, DataInv, TypeOKData
  <2>3. Cardinality(Holders(b)') = 1
    BY <2>1, FS_Singleton
  <2>5. b \notin lost /\ e \notin lost
    BY InvShared DEF SharedDataAlive
  <2>6. /\ refs'[b] = 1 /\ Lost(b)' = 0
        /\ \A c \in DataBlocks \ {b, e} : refs'[c] = refs[c] /\ Lost(c)' = Lost(c)
    BY <1>4, <2>5 DEF DataInv, TypeOKData, Lost
  <2> SUFFICES ASSUME NEW c \in DataBlocks
               PROVE  refs'[c] = Cardinality(Holders(c)') + Lost(c)'
    BY DEF Counted
  <2>7. CASE c = b
    BY <2>3, <2>6, <2>7
  <2>8. CASE c = e
    <3>1. Holders(c)' = Holders(c) /\ refs[c] = 0
      BY <1>4, <2>2, <2>8
    <3>2. Holders(c) = {}
      BY <3>1, FreeUnused
    <3>3. Cardinality(Holders(c)') = 0
      BY <3>1, <3>2, FS_EmptySet
    <3>4. refs'[c] = 1 /\ Lost(c)' = 1
      BY <1>4, <2>8 DEF DataInv, TypeOKData, Lost
    <3> QED BY <3>3, <3>4
  <2>9. CASE c \notin {b, e}
    BY <2>2, <2>6, <2>9 DEF DataInv, Counted
  <2> QED BY <2>7, <2>8, <2>9
<1>9. NotGarbage'
  BY <1>4, DataAssumption DEF DataInv, TypeOKData, NotGarbage
<1>10. \A c \in lost' \ lost : Handles(c)' = {}
  BY <1>1, <1>2, <1>4 DEF Handles, DataInv, TypeOKData
<1> QED BY <1>5, <1>6, <1>7, <1>8, <1>9, <1>10, IdleKept DEF DataInv

LEMMA HandOverInv ==
  ASSUME DataInv, NEW t \in DataThreads, NEW u \in DataThreads, NEW h \in DataHandles,
         HandOver(t, u, h)
  PROVE  DataInv'
<1> USE DEF HandOver
<1>1. owner[h] = t /\ t # NoThread /\ u # NoThread /\ dptr[h] # NoBlock /\ ~Busy(t)
  BY MineHeld, DataAssumption
<1>2. TypeOKData'
  BY DEF DataInv, TypeOKData
<1>3. Owned'
  BY <1>1 DEF DataInv, TypeOKData, Owned
<1>4. StepOf(t) /\ writing'[t] = NotWriting
  BY <1>1 DEF StepOf, DataInv, TypeOKData, Busy, NotWriting
<1>5. \A c : Holders(c)' = Holders(c)
  BY TakenSame DEF Holders, Handles
<1>6. Counted' /\ NotGarbage'
  BY <1>5 DEF DataInv, Counted, Lost, NotGarbage
<1> QED BY <1>2, <1>3, <1>4, <1>6, IdleKept DEF DataInv

-----------------------------------------------------------------------------
(* A write                                                                 *)

\* The invariant of the writers after a step of t, which may be writing.
LEMMA WritersKept ==
  ASSUME DataInv, NEW t \in DataThreads, StepOf(t), NEW h \in DataHandles,
         writing'[t].data = h, owner'[h] = t,
         writing'[t].step \in {"unref", "copy"} =>
           \E k \in DataHandles \ {h} : owner'[k] = t /\ dptr'[k] = dptr'[h],
         writing'[t].step = "write" => Handles(dptr[h])' = {h}, lost' = lost
  PROVE  WritersOwn' /\ Anchored' /\ Exclusive' /\ LostAlone'
<1>1. \A u \in DataThreads \ {t} : ~Busy(u) => writing'[u].step = "idle"
  BY DEF StepOf, Busy
<1>2. WritersOwn'
  <2> SUFFICES ASSUME NEW u \in DataThreads \ {t}, writing'[u].step # "idle"
               PROVE  owner'[writing'[u].data] = u
    BY DEF WritersOwn, Busy
  <2> QED BY <1>1, OthersKept
<1>3. Anchored'
  <2> SUFFICES ASSUME NEW u \in DataThreads \ {t}, writing'[u].step \in {"unref", "copy"}
               PROVE  \E k \in DataHandles \ {writing'[u].data} :
                        owner'[k] = u /\ dptr'[k] = dptr'[writing'[u].data]
    BY DEF Anchored
  <2>1. Busy(u) /\ writing'[u] = writing[u]
    BY <1>1 DEF StepOf
  <2> QED BY <2>1, OthersKept
<1>4. Exclusive'
  <2>1. ASSUME NEW u \in DataThreads \ {t}, writing'[u].step = "write"
        PROVE  Handles(dptr[writing[u].data])' = {writing'[u].data}
    <3>1. Busy(u) /\ writing'[u] = writing[u]
      BY <1>1, <2>1 DEF StepOf
    <3>2. dptr'[writing[u].data] = dptr[writing[u].data]
      BY <3>1, OthersKept
    <3>3. Handles(dptr[writing[u].data])' = {writing[u].data}
      BY <2>1, <3>1, <3>2, OthersKept DEF Handles
    <3> QED BY <3>1, <3>3
  <2>2. ASSUME writing'[t].step = "write"
        PROVE  Handles(dptr[writing[t].data])' = {writing'[t].data}
    BY <2>2 DEF Handles
  <2> QED BY <2>1, <2>2 DEF Exclusive
<1>5. LostAlone'
  BY LostKept
<1> QED BY <1>2, <1>3, <1>4, <1>5

\* More than one reference: of another CuData of this thread's, or another
\* thread's, and then the thread has yet another.
LEMMA BeginWriteInv ==
  ASSUME DataInv, ~ModifiesPublished, NEW t \in DataThreads, NEW h \in DataHandles,
         NEW v \in DataValues, BeginWrite(t, h, v)
  PROVE  DataInv'
<1> USE DEF BeginWrite
<1>1. h \in Mine(t) /\ ~Busy(t) /\ ~SharedAway(t, h)
  OBVIOUS
<1>2. /\ owner[h] = t /\ t # NoThread /\ ~Taken(h)
      /\ dptr[h] \in DataBlocks /\ dptr[h] # NoBlock /\ refs[dptr[h]] > 0
  BY <1>1, MineHeld
<1>3. TypeOKData'
  BY DEF DataInv, TypeOKData, DetachAt
<1>4. writing'[t] = [step |-> DetachAt(h), data |-> h, value |-> v]
  BY DEF DataInv, TypeOKData
<1>5. StepOf(t)
  BY DEF StepOf, DataInv, TypeOKData
<1>6. ASSUME refs[dptr[h]] > 1
      PROVE  \E k \in DataHandles \ {h} : owner[k] = t /\ dptr[k] = dptr[h]
  <2> DEFINE b == dptr[h]
  <2>1. Holders(b) # {h}
    <3>0. b \notin lost
      BY <1>2 DEF DataInv, LostAlone, Handles
    <3>1. Cardinality(Holders(b)) > 1
      BY <1>2, <1>6, <3>0, HoldersFinite DEF DataInv, Counted, Lost
    <3>2. Cardinality({h}) = 1
      BY FS_Singleton
    <3> QED BY <3>1, <3>2
  <2>2. h \in Holders(b)
    BY <1>2 DEF Holders, Handles
  <2>3. PICK k \in Holders(b) : k # h
    BY <2>1, <2>2
  <2>4. k \in DataHandles /\ dptr[k] = b
    BY <2>3 DEF Holders, Handles
  <2>5. CASE owner[k] = t
    BY <2>3, <2>4, <2>5
  <2>6. CASE owner[k] # t
    BY <1>1, <2>4, <2>6 DEF SharedAway, Handles
  <2> QED BY <2>5, <2>6
<1>7. ~(refs[dptr[h]] > 1) => Handles(dptr[h]) = {h}
  BY <1>1, OnlyHolder
<1>8. WritersOwn' /\ Anchored' /\ Exclusive' /\ LostAlone'
  <2>1. owner' = owner /\ dptr' = dptr /\ Handles(dptr[h])' = Handles(dptr[h])
    BY DEF Handles
  <2>2. writing'[t].data = h /\ owner'[h] = t
    BY <1>2, <1>4
  <2>3. writing'[t].step \in {"unref", "copy"} =>
          \E k \in DataHandles \ {h} : owner'[k] = t /\ dptr'[k] = dptr'[h]
    BY <1>4, <1>6, <2>1 DEF DetachAt
  <2>4. writing'[t].step = "write" => Handles(dptr[h])' = {h}
    BY <1>4, <1>7, <2>1 DEF DetachAt
  <2> QED BY <1>5, <2>2, <2>3, <2>4, WritersKept
<1>9. \A k : Taken(k)' <=> Taken(k)
  <2>1. \A u \in DataThreads \ {t} : writing'[u] = writing[u]
    BY <1>5 DEF StepOf
  <2>2. writing'[t].step # "copy" /\ writing[t].step # "copy"
    BY <1>1, <1>4 DEF DetachAt, Busy
  <2> QED BY <2>1, <2>2 DEF Taken
<1>10. Owned' /\ Counted' /\ NotGarbage'
  BY <1>9 DEF DataInv, Owned, Counted, Lost, NotGarbage, Holders, Handles
<1> QED BY <1>3, <1>8, <1>10 DEF DataInv

\* What the invariant says of a thread in the middle of a write.
LEMMA WriterHeld ==
  ASSUME DataInv, NEW t \in DataThreads, Busy(t)
  PROVE  /\ writing[t] \in [step : {"unref", "copy", "write"}, data : DataHandles, value : DataValues]
         /\ owner[writing[t].data] = t /\ t # NoThread
         /\ dptr[writing[t].data] \in DataBlocks /\ dptr[writing[t].data] # NoBlock
         /\ refs[dptr[writing[t].data]] > 0
         /\ \A u \in DataThreads : Busy(u) /\ writing[u].data = writing[t].data => u = t
<1>1. writing[t] \in [step : {"unref", "copy", "write"}, data : DataHandles, value : DataValues]
  BY DEF DataInv, TypeOKData, Busy, NotWriting
<1>2. owner[writing[t].data] = t /\ t # NoThread
  BY DataAssumption DEF DataInv, WritersOwn
<1>3. \A u \in DataThreads : Busy(u) /\ writing[u].data = writing[t].data => u = t
  BY <1>2 DEF DataInv, WritersOwn
<1>4. dptr[writing[t].data] # NoBlock
  BY <1>1, <1>2 DEF DataInv, Owned
<1> QED BY <1>1, <1>2, <1>3, <1>4, HeldIsCounted

LEMMA DetachUnrefInv ==
  ASSUME DataInv, NEW t \in DataThreads, DetachUnref(t)
  PROVE  DataInv'
<1>0. Busy(t) /\ writing[t].step = "unref"
  BY DEF DetachUnref, Busy
<1>1. PICK h \in DataHandles : h = writing[t].data
  BY <1>0, WriterHeld
<1>2. PICK x \in DataBlocks : x = dptr[h]
  BY <1>0, <1>1, WriterHeld
<1>3. /\ owner[h] = t /\ t # NoThread /\ x # NoBlock
      /\ \A u \in DataThreads : Busy(u) /\ writing[u].data = h => u = t
      /\ writing[t] \in [step : {"unref", "copy", "write"}, data : DataHandles, value : DataValues]
  BY <1>0, <1>1, <1>2, WriterHeld
<1>4. /\ Refs(NoBlock, x) /\ UNCHANGED <<owner, dptr, content, lost>>
      /\ writing' = [writing EXCEPT ![t].step = "copy"]
  BY <1>1, <1>2 DEF DetachUnref
<1>5. /\ writing'[t] \in [step : {"copy"}, data : {h}, value : DataValues]
      /\ \A u \in DataThreads \ {t} : writing'[u] = writing[u]
  BY <1>1, <1>3, <1>4 DEF DataInv, TypeOKData
<1>6. StepOf(t)
  BY <1>4, <1>5 DEF StepOf
<1>7. PICK k \in DataHandles \ {h} : owner[k] = t /\ dptr[k] = dptr[h]
  BY <1>0, <1>1 DEF DataInv, Anchored
<1>8. WritersOwn' /\ Anchored' /\ Exclusive' /\ LostAlone'
  <2>1. writing'[t].data = h /\ writing'[t].step = "copy" /\ owner'[h] = t
    BY <1>3, <1>4, <1>5
  <2>2. owner'[k] = t /\ dptr'[k] = dptr'[h]
    BY <1>4, <1>7
  <2> QED BY <1>4, <1>6, <2>1, <2>2, WritersKept
<1>9. \A k1 : Taken(k1)' <=> Taken(k1) \/ k1 = h
  BY <1>0, <1>5 DEF Taken
<1>10. ~Taken(h)
  BY <1>0, <1>3 DEF Taken, Busy
<1>11. Counted' /\ refs' \in [DataBlocks -> Nat]
  <2>1. Holders(x)' = Holders(x) \ {h} /\ h \in Holders(x)
    BY <1>2, <1>4, <1>9, <1>10 DEF Holders, Handles
  <2>2. \A c \in DataBlocks \ {x} : Holders(c)' = Holders(c)
    BY <1>2, <1>4, <1>9 DEF Holders, Handles
  <2>3. Cardinality(Holders(x)') = Cardinality(Holders(x)) - 1
    BY <2>1, OneLess
  <2> QED BY <1>4, <2>2, <2>3, RefsCounted, DataAssumption
<1>12. TypeOKData'
  <2>1. writing' \in [DataThreads -> {NotWriting} \union
           [step : {"unref", "copy", "write"}, data : DataHandles, value : DataValues]]
    BY <1>4, <1>5 DEF DataInv, TypeOKData
  <2> QED BY <1>4, <1>11, <2>1 DEF DataInv, TypeOKData
<1>13. NotGarbage'
  BY <1>4, DataAssumption DEF DataInv, TypeOKData, NotGarbage, Refs
<1>14. Owned'
  BY <1>4 DEF DataInv, Owned
<1> QED BY <1>8, <1>11, <1>12, <1>13, <1>14 DEF DataInv

LEMMA DetachCopyInv ==
  ASSUME DataInv, NEW t \in DataThreads, NEW b \in DataBlocks, DetachCopy(t, b)
  PROVE  DataInv'
<1>0. Busy(t) /\ writing[t].step = "copy" /\ refs[b] = 0
  BY DEF DetachCopy, Busy
<1>1. PICK h \in DataHandles : h = writing[t].data
  BY <1>0, WriterHeld
<1>2. PICK x \in DataBlocks : x = dptr[h]
  BY <1>0, <1>1, WriterHeld
<1>3. /\ owner[h] = t /\ t # NoThread /\ x # NoBlock /\ b # NoBlock /\ refs[x] > 0 /\ x # b
      /\ \A u \in DataThreads : Busy(u) /\ writing[u].data = h => u = t
      /\ writing[t] \in [step : {"unref", "copy", "write"}, data : DataHandles, value : DataValues]
  BY <1>0, <1>1, <1>2, WriterHeld, DataAssumption
<1>4. PICK v \in DataValues : v = content[x]
  BY <1>3 DEF DataInv, NotGarbage, TypeOKData
<1>5. /\ refs' = [refs EXCEPT ![b] = 1] /\ content' = [content EXCEPT ![b] = v]
      /\ dptr' = [dptr EXCEPT ![h] = b] /\ owner' = owner /\ lost' = lost
      /\ writing' = [writing EXCEPT ![t].step = "write"]
  BY <1>1, <1>2, <1>4 DEF DetachCopy
<1>6. /\ writing'[t] \in [step : {"write"}, data : {h}, value : DataValues]
      /\ \A u \in DataThreads \ {t} : writing'[u] = writing[u]
  BY <1>1, <1>3, <1>5 DEF DataInv, TypeOKData
<1>7. StepOf(t)
  BY <1>0, <1>3, <1>5, <1>6 DEF StepOf, DataInv, TypeOKData
<1>8. Handles(b) = {} /\ Holders(b) = {}
  BY <1>0, FreeUnused
<1>9. Handles(b)' = {h}
  BY <1>5, <1>8 DEF Handles, DataInv, TypeOKData
<1>10. WritersOwn' /\ Anchored' /\ Exclusive' /\ LostAlone'
  <2>1. writing'[t].data = h /\ writing'[t].step = "write" /\ owner'[h] = t /\ dptr'[h] = b
    BY <1>3, <1>5, <1>6 DEF DataInv, TypeOKData
  <2>2. Handles(dptr[h])' = {h}
    BY <1>9, <2>1 DEF Handles
  <2> QED BY <1>5, <1>7, <2>1, <2>2, WritersKept
<1>11. \A k : Taken(k)' <=> Taken(k) /\ k # h
  BY <1>0, <1>1, <1>3, <1>6 DEF Taken, Busy
<1>12. Taken(h)
  BY <1>0, <1>1 DEF Taken
<1>13. Counted'
  <2>1. Holders(b)' = {h}
    BY <1>8, <1>9, <1>11 DEF Holders
  <2>2. ASSUME NEW c \in DataBlocks \ {b} PROVE Holders(c)' = Holders(c)
    <3>1. \A k \in DataHandles \ {h} : dptr'[k] = dptr[k]
      BY <1>5 DEF DataInv, TypeOKData
    <3>2. dptr'[h] = b
      BY <1>5 DEF DataInv, TypeOKData
    <3> QED BY <1>11, <1>12, <3>1, <3>2 DEF Holders, Handles
  <2>3. Cardinality(Holders(b)') = 1
    BY <2>1, FS_Singleton
  <2>4. b \notin lost
    BY <1>0, InvShared DEF SharedDataAlive
  <2> QED BY <1>5, <2>2, <2>3, <2>4 DEF DataInv, TypeOKData, Counted, Lost
<1>14. TypeOKData'
  <2>1. writing' \in [DataThreads -> {NotWriting} \union
           [step : {"unref", "copy", "write"}, data : DataHandles, value : DataValues]]
    BY <1>5, <1>6 DEF DataInv, TypeOKData
  <2> QED BY <1>5, <2>1 DEF DataInv, TypeOKData
<1>15. NotGarbage'
  BY <1>5, DataAssumption DEF DataInv, TypeOKData, NotGarbage
<1>16. Owned'
  BY <1>3, <1>5 DEF DataInv, TypeOKData, Owned
<1> QED BY <1>10, <1>13, <1>14, <1>15, <1>16 DEF DataInv

LEMMA WriteInv ==
  ASSUME DataInv, NEW t \in DataThreads, WriteData(t)
  PROVE  DataInv'
<1>0. Busy(t) /\ writing[t].step = "write"
  BY DEF WriteData, Busy
<1>1. /\ dptr[writing[t].data] \in DataBlocks /\ writing[t].value \in DataValues
  BY <1>0, WriterHeld
<1>2. PICK x \in DataBlocks, v \in DataValues : x = dptr[writing[t].data] /\ v = writing[t].value
  BY <1>1
<1>3. /\ content' = [content EXCEPT ![x] = v] /\ writing' = [writing EXCEPT ![t] = NotWriting]
      /\ UNCHANGED <<owner, dptr, refs, lost>>
  BY <1>2 DEF WriteData
<1>4. TypeOKData'
  BY <1>3 DEF DataInv, TypeOKData
<1>5. StepOf(t) /\ writing'[t] = NotWriting
  BY <1>3 DEF StepOf, DataInv, TypeOKData
<1>6. \A k : Taken(k)' <=> Taken(k)
  <2>1. \A u \in DataThreads \ {t} : writing'[u] = writing[u]
    BY <1>3 DEF DataInv, TypeOKData
  <2> QED BY <1>0, <1>5, <2>1 DEF Taken, NotWriting
<1>7. Counted'
  BY <1>3, <1>6 DEF DataInv, Counted, Lost, Holders, Handles
<1>8. NotGarbage' /\ Owned'
  BY <1>3, DataAssumption DEF DataInv, TypeOKData, NotGarbage, Owned
<1> QED BY <1>3, <1>4, <1>5, <1>7, <1>8, IdleKept DEF DataInv

-----------------------------------------------------------------------------
(* Every step                                                              *)

LEMMA DataInvInit == InitData => DataInv
<1> SUFFICES ASSUME InitData PROVE DataInv
  OBVIOUS
<1>1. \A t \in DataThreads : writing[t].step = "idle"
  BY DEF InitData, NotWriting
<1>2. TypeOKData /\ Owned /\ NotGarbage
  BY DEF InitData, TypeOKData, Owned, NotGarbage
<1>3. WritersOwn /\ Anchored /\ Exclusive
  BY <1>1 DEF WritersOwn, Busy, Anchored, Exclusive
<1>4. Counted
  <2>1. \A b \in DataBlocks : Holders(b) = {}
    BY DataAssumption DEF InitData, Holders, Handles
  <2> QED BY <2>1, FS_EmptySet DEF InitData, Counted, Lost
<1>5. LostAlone
  BY DEF InitData, LostAlone
<1> QED BY <1>2, <1>3, <1>4, <1>5 DEF DataInv

LEMMA DataInvNext ==
  ASSUME DataInv, ~ModifiesPublished, [NextData]_dataVars
  PROVE  DataInv'
<1>1. CASE UNCHANGED dataVars
  <2>1. \A b : Holders(b)' = Holders(b)
    BY <1>1 DEF dataVars, Holders, Handles, Taken
  <2>2. TypeOKData' /\ Owned' /\ WritersOwn' /\ Anchored' /\ NotGarbage'
    BY <1>1 DEF dataVars, DataInv, TypeOKData, Owned, WritersOwn, Busy, Anchored, NotGarbage
  <2>3. Counted' /\ Exclusive' /\ LostAlone'
    BY <1>1, <2>1 DEF dataVars, DataInv, Counted, Lost, Exclusive, LostAlone, Handles
  <2> QED BY <2>2, <2>3 DEF DataInv
<1>2. ASSUME NEW t \in DataThreads, NEW h \in DataHandles, NEW g \in DataHandles,
             \/ CopyData(t, h, g) \/ MoveData(t, h, g)
             \/ AssignData(t, h, g) \/ MoveAssignData(t, h, g)
             \/ \E b, e \in DataBlocks : CloneData(t, h, g, b, e)
      PROVE  DataInv'
  BY <1>2, CopyInv, MoveInv, AssignInv, MoveAssignInv, CloneInv
<1>3. ASSUME NEW t \in DataThreads, NEW h \in DataHandles,
             \/ DestroyData(t, h)
             \/ \E u \in DataThreads : HandOver(t, u, h)
             \/ \E v \in DataValues :
                  BeginWrite(t, h, v) \/ \E b \in DataBlocks : NewData(t, h, b, v)
      PROVE  DataInv'
  BY <1>3, DestroyInv, HandOverInv, BeginWriteInv, NewInv
<1>4. ASSUME NEW t \in DataThreads,
             DetachUnref(t) \/ WriteData(t) \/ \E b \in DataBlocks : DetachCopy(t, b)
      PROVE  DataInv'
  BY <1>4, DetachUnrefInv, WriteInv, DetachCopyInv
<1> QED BY <1>1, <1>2, <1>3, <1>4 DEF NextData

LEMMA DataInvAlways ==
  ASSUME ~ModifiesPublished
  PROVE  SpecData => []DataInv
<1>1. DataInv /\ [NextData]_dataVars => DataInv'
  BY DataInvNext
<1> QED BY <1>1, DataInvInit, PTL DEF SpecData

\* The types of the variables of CuData (cudata.h, cudata_p.h).
THEOREM DataTypesAlways ==
  ASSUME ~ModifiesPublished
  PROVE  SpecData => []TypeOKData
<1>1. DataInv => TypeOKData
  BY DEF DataInv
<1> QED BY <1>1, DataInvAlways, PTL

\* Shared data live as long as they are used and no longer, but those that
\* CuData::clone loses, whatever any number of threads does with its copies,
\* unless one writes into a CuData it shares with other threads and has no other
\* copy of (CuData::detach, clone, cudata.cpp:158-162,415-420).
THEOREM SharedDataAlways ==
  ASSUME ~ModifiesPublished
  PROVE  SpecData => []SharedDataAlive
BY DataInvAlways, InvShared, PTL

-----------------------------------------------------------------------------
(* Copy on write implements copies                                         *)

HeldBy(h) == IF dptr[h] = NoBlock THEN NoData ELSE content[dptr[h]]

LEMMA HeldSame ==
  ASSUME \A k \in DataHandles : HeldBy(k)' = HeldBy(k)
  PROVE  Held' = Held
BY DEF Held, HeldBy

LEMMA HeldChanged ==
  ASSUME NEW h \in DataHandles, NEW v,
         \A k \in DataHandles : HeldBy(k)' = IF k = h THEN v ELSE HeldBy(k)
  PROVE  Held' = [Held EXCEPT ![h] = v]
BY DEF Held, HeldBy

LEMMA HeldMoved ==
  ASSUME NEW h \in DataHandles, NEW g \in DataHandles, NEW v,
         \A k \in DataHandles :
           HeldBy(k)' = IF k = g THEN NoData ELSE IF k = h THEN v ELSE HeldBy(k)
  PROVE  Held' = [Held EXCEPT ![h] = v, ![g] = NoData]
BY DEF Held, HeldBy

LEMMA HeldAt ==
  ASSUME DataInv, NEW h \in DataHandles
  PROVE  /\ Held[h] = HeldBy(h)
         /\ HeldBy(h) = NoData <=> dptr[h] = NoBlock
         /\ dptr[h] # NoBlock => HeldBy(h) \in DataValues
<1>1. ASSUME dptr[h] # NoBlock PROVE HeldBy(h) \in DataValues
  BY <1>1, HeldIsCounted DEF DataInv, TypeOKData, NotGarbage, HeldBy
<1> QED BY <1>1, DataAssumption DEF Held, HeldBy

LEMMA SharedNext == DataInv' => SharedDataAlive'
BY InvShared, PTL

\* What somebody still refers to after a step that deletes is not deleted.
LEMMA ContentKept ==
  ASSUME DataInv, DataInv', NEW taken, NEW left, taken # left,
         Refs(taken, left), Deleted(left),
         NEW k \in DataHandles, dptr'[k] # NoBlock
  PROVE  content'[dptr'[k]] = content[dptr'[k]]
<1>1. PICK c \in DataBlocks : c = dptr'[k] /\ Handles(c)' # {}
  BY DEF DataInv, TypeOKData, Handles
<1>2. SharedDataAlive'
  BY SharedNext
<1>3. refs'[c] > 0
  BY <1>1, <1>2 DEF SharedDataAlive
<1>4. ~(c = left /\ refs[c] = 1)
  BY <1>3 DEF Refs
<1> QED BY <1>1, <1>4 DEF Deleted

\* Any CuData has no value, or one of its own, that only its own operations change.
LEMMA CopyStep ==
  ASSUME DataInv, DataInv', NEW t \in DataThreads, NEW h \in DataHandles, NEW g \in DataHandles,
         CopyData(t, h, g) \/ \E b, e \in DataBlocks : CloneData(t, h, g, b, e)
  PROVE  Copies!Next
<1>1. /\ ~Busy(t) /\ owner[h] = NoThread /\ g \in Mine(t)
      /\ dptr[h] = NoBlock /\ dptr[g] # NoBlock /\ g # h
  BY FreeHeld, MineHeld DEF CopyData, CloneData
<1>2. ASSUME NEW k \in DataHandles
      PROVE  HeldBy(k)' = IF k = h THEN HeldBy(g) ELSE HeldBy(k)
  <2>1. CASE CopyData(t, h, g)
    <3>1. dptr' = [dptr EXCEPT ![h] = dptr[g]] /\ content' = content
      BY <2>1 DEF CopyData
    <3> QED BY <3>1, <1>1 DEF HeldBy, DataInv, TypeOKData
  <2>2. ASSUME NEW b \in DataBlocks, NEW e \in DataBlocks, CloneData(t, h, g, b, e)
        PROVE  HeldBy(k)' = IF k = h THEN HeldBy(g) ELSE HeldBy(k)
    <3>1. dptr' = [dptr EXCEPT ![h] = b]
          /\ content' = [content EXCEPT ![b] = content[dptr[g]], ![e] = EmptyData]
          /\ refs[b] = 0 /\ refs[e] = 0 /\ b # e
      BY <2>2 DEF CloneData
    <3>2. b # NoBlock /\ dptr[k] # b /\ dptr[k] # e
      BY <3>1, FreeUnused, DataAssumption DEF Handles
    <3> QED BY <3>1, <3>2, <1>1 DEF HeldBy, DataInv, TypeOKData
  <2> QED BY <2>1, <2>2
<1>3. Held' = [Held EXCEPT ![h] = HeldBy(g)]
  BY <1>2, HeldChanged
<1>4. Held[h] = NoData /\ Held[g] # NoData /\ Held[g] = HeldBy(g)
  BY <1>1, HeldAt
<1>5. Copies!Duplicate(h, g)
  BY <1>3, <1>4 DEF Copies!Duplicate
<1> QED BY <1>1, <1>5 DEF Copies!Next

LEMMA MoveStep ==
  ASSUME DataInv, DataInv', NEW t \in DataThreads, NEW h \in DataHandles, NEW g \in DataHandles,
         MoveData(t, h, g) \/ MoveAssignData(t, h, g)
  PROVE  Copies!Next
<1>1. ~Busy(t) /\ g \in Mine(t) /\ dptr[g] # NoBlock /\ g # h /\ dptr[g] \in DataBlocks
  BY FreeHeld, MineHeld DEF MoveData, MoveAssignData
<1>2. dptr' = [dptr EXCEPT ![h] = dptr[g], ![g] = NoBlock]
  BY DEF MoveData, MoveAssignData
<1>3. ASSUME NEW k \in DataHandles, dptr'[k] # NoBlock
      PROVE  content'[dptr'[k]] = content[dptr'[k]]
  <2>1. CASE MoveData(t, h, g)
    BY <2>1 DEF MoveData
  <2>2. CASE MoveAssignData(t, h, g)
    <3>1. Refs(NoBlock, dptr[h]) /\ Deleted(dptr[h]) /\ dptr[h] # NoBlock
      BY <2>2, MineHeld DEF MoveAssignData
    <3> QED BY <3>1, <1>3, ContentKept
  <2> QED BY <2>1, <2>2
<1>4. ASSUME NEW k \in DataHandles
      PROVE  HeldBy(k)' = IF k = g THEN NoData ELSE IF k = h THEN HeldBy(g) ELSE HeldBy(k)
  <2>1. dptr'[k] = IF k = g THEN NoBlock ELSE IF k = h THEN dptr[g] ELSE dptr[k]
    BY <1>2, <1>1 DEF DataInv, TypeOKData
  <2> QED BY <2>1, <1>1, <1>3 DEF HeldBy
<1>5. Held' = [Held EXCEPT ![h] = HeldBy(g), ![g] = NoData]
  BY <1>1, <1>4, HeldMoved DEF Mine
<1>6. Held[g] # NoData /\ Held[g] = HeldBy(g)
  BY <1>1, HeldAt
<1>7. Copies!Move(h, g)
  BY <1>5, <1>6 DEF Copies!Move
<1> QED BY <1>1, <1>7 DEF Copies!Next

LEMMA AssignStep ==
  ASSUME DataInv, DataInv', NEW t \in DataThreads, NEW h \in DataHandles, NEW g \in DataHandles,
         AssignData(t, h, g)
  PROVE  Copies!Next
<1>1. /\ ~Busy(t) /\ g \in Mine(t) /\ h \in Mine(t) /\ g # h
      /\ dptr[g] # NoBlock /\ dptr[h] # NoBlock
  BY MineHeld DEF AssignData
<1>2. dptr' = [dptr EXCEPT ![h] = dptr[g]]
  BY DEF AssignData
<1>3. ASSUME NEW k \in DataHandles, dptr'[k] # NoBlock
      PROVE  content'[dptr'[k]] = content[dptr'[k]]
  <2>1. CASE dptr[h] = dptr[g]
    BY <2>1 DEF AssignData
  <2>2. CASE dptr[h] # dptr[g]
    <3>1. Refs(dptr[g], dptr[h]) /\ Deleted(dptr[h])
      BY <2>2 DEF AssignData
    <3> QED BY <2>2, <3>1, <1>3, ContentKept
  <2> QED BY <2>1, <2>2
<1>4. ASSUME NEW k \in DataHandles
      PROVE  HeldBy(k)' = IF k = h THEN HeldBy(g) ELSE HeldBy(k)
  <2>1. dptr'[k] = IF k = h THEN dptr[g] ELSE dptr[k]
    BY <1>2 DEF DataInv, TypeOKData
  <2> QED BY <2>1, <1>1, <1>3 DEF HeldBy
<1>5. Held' = [Held EXCEPT ![h] = HeldBy(g)]
  BY <1>4, HeldChanged
<1>6. Held[h] # NoData /\ Held[g] # NoData /\ Held[g] = HeldBy(g)
  BY <1>1, HeldAt DEF Mine
<1>7. Copies!Assign(h, g)
  BY <1>5, <1>6 DEF Copies!Assign
<1> QED BY <1>1, <1>7 DEF Copies!Next

LEMMA NewStep ==
  ASSUME DataInv, DataInv', NEW t \in DataThreads, NEW h \in DataHandles, NEW b \in DataBlocks,
         NEW v \in DataValues, NewData(t, h, b, v)
  PROVE  Copies!Next
<1>1. dptr[h] = NoBlock /\ b # NoBlock /\ refs[b] = 0
  BY FreeHeld, DataAssumption DEF NewData
<1>2. dptr' = [dptr EXCEPT ![h] = b] /\ content' = [content EXCEPT ![b] = v]
  BY DEF NewData
<1>3. ASSUME NEW k \in DataHandles
      PROVE  HeldBy(k)' = IF k = h THEN v ELSE HeldBy(k)
  <2>1. dptr[k] # b
    BY <1>1, FreeUnused DEF Handles
  <2> QED BY <2>1, <1>1, <1>2 DEF HeldBy, DataInv, TypeOKData
<1>4. Held' = [Held EXCEPT ![h] = v] /\ Held[h] = NoData
  BY <1>1, <1>3, HeldChanged, HeldAt
<1>5. Copies!Construct(h, v)
  BY <1>4 DEF Copies!Construct
<1> QED BY <1>5 DEF Copies!Next

LEMMA DestroyStep ==
  ASSUME DataInv, DataInv', NEW t \in DataThreads, NEW h \in DataHandles, DestroyData(t, h)
  PROVE  Copies!Next
<1>1. dptr[h] # NoBlock
  BY MineHeld DEF DestroyData
<1>2. dptr' = [dptr EXCEPT ![h] = NoBlock] /\ Refs(NoBlock, dptr[h]) /\ Deleted(dptr[h])
  BY DEF DestroyData
<1>3. ASSUME NEW k \in DataHandles
      PROVE  HeldBy(k)' = IF k = h THEN NoData ELSE HeldBy(k)
  <2>1. dptr'[k] = IF k = h THEN NoBlock ELSE dptr[k]
    BY <1>2 DEF DataInv, TypeOKData
  <2>2. dptr'[k] # NoBlock => content'[dptr'[k]] = content[dptr'[k]]
    BY <1>1, <1>2, ContentKept
  <2> QED BY <2>1, <2>2 DEF HeldBy
<1>4. Held' = [Held EXCEPT ![h] = NoData] /\ Held[h] # NoData
  BY <1>1, <1>3, HeldChanged, HeldAt
<1>5. Copies!Dispose(h)
  BY <1>4 DEF Copies!Dispose
<1> QED BY <1>5 DEF Copies!Next

\* What is written into is the CuData's own.
LEMMA WriteStep ==
  ASSUME DataInv, DataInv', NEW t \in DataThreads, WriteData(t)
  PROVE  Copies!Next
<1>1. Busy(t) /\ writing[t].step = "write"
  BY DEF WriteData, Busy
<1>2. PICK h \in DataHandles, v \in DataValues : h = writing[t].data /\ v = writing[t].value
  BY <1>1, WriterHeld
<1>3. dptr[h] # NoBlock /\ dptr[h] \in DataBlocks /\ Handles(dptr[h]) = {h}
  BY <1>1, <1>2, WriterHeld DEF DataInv, Exclusive
<1>4. dptr' = dptr /\ content' = [content EXCEPT ![dptr[h]] = v]
  BY <1>2 DEF WriteData
<1>5. ASSUME NEW k \in DataHandles
      PROVE  HeldBy(k)' = IF k = h THEN v ELSE HeldBy(k)
  <2>1. k # h => dptr[k] # dptr[h]
    BY <1>3 DEF Handles
  <2> QED BY <2>1, <1>3, <1>4 DEF HeldBy, DataInv, TypeOKData
<1>6. Held' = [Held EXCEPT ![h] = v] /\ Held[h] # NoData
  BY <1>3, <1>5, HeldChanged, HeldAt
<1>7. Copies!Modify(h, v)
  BY <1>6 DEF Copies!Modify
<1> QED BY <1>7 DEF Copies!Next

\* The steps of detach are not to be seen.
LEMMA DetachStep ==
  ASSUME DataInv, DataInv', NEW t \in DataThreads, NEW b \in DataBlocks, DetachCopy(t, b)
  PROVE  Held' = Held
<1>1. Busy(t) /\ writing[t].step = "copy" /\ refs[b] = 0 /\ b # NoBlock
  BY DataAssumption DEF DetachCopy, Busy
<1>2. PICK h \in DataHandles : h = writing[t].data
  BY <1>1, WriterHeld
<1>3. dptr[h] # NoBlock
  BY <1>1, <1>2, WriterHeld
<1>4. dptr' = [dptr EXCEPT ![h] = b] /\ content' = [content EXCEPT ![b] = content[dptr[h]]]
  BY <1>2 DEF DetachCopy
<1>5. ASSUME NEW k \in DataHandles PROVE HeldBy(k)' = HeldBy(k)
  <2>1. dptr[k] # b
    BY <1>1, FreeUnused DEF Handles
  <2> QED BY <2>1, <1>1, <1>3, <1>4 DEF HeldBy, DataInv, TypeOKData
<1> QED BY <1>5, HeldSame

LEMMA DataStep ==
  ASSUME DataInv, DataInv', [NextData]_dataVars
  PROVE  [Copies!Next]_Held
<1>1. CASE UNCHANGED dataVars
  BY <1>1 DEF dataVars, Held
<1>2. ASSUME NEW t \in DataThreads, NEW h \in DataHandles, NEW g \in DataHandles,
             \/ CopyData(t, h, g) \/ MoveData(t, h, g)
             \/ AssignData(t, h, g) \/ MoveAssignData(t, h, g)
             \/ \E b, e \in DataBlocks : CloneData(t, h, g, b, e)
      PROVE  Copies!Next
  BY <1>2, CopyStep, MoveStep, AssignStep
<1>3. ASSUME NEW t \in DataThreads, NEW h \in DataHandles,
             \/ DestroyData(t, h)
             \/ \E u \in DataThreads : HandOver(t, u, h)
             \/ \E v \in DataValues :
                  BeginWrite(t, h, v) \/ \E b \in DataBlocks : NewData(t, h, b, v)
      PROVE  [Copies!Next]_Held
  <2>1. CASE DestroyData(t, h)
    BY <2>1, DestroyStep
  <2>2. CASE \E u \in DataThreads : HandOver(t, u, h)
    BY <2>2 DEF HandOver, Held
  <2>3. CASE \E v \in DataValues : BeginWrite(t, h, v)
    BY <2>3 DEF BeginWrite, Held
  <2>4. CASE \E v \in DataValues, b \in DataBlocks : NewData(t, h, b, v)
    BY <2>4, NewStep
  <2> QED BY <1>3, <2>1, <2>2, <2>3, <2>4
<1>4. ASSUME NEW t \in DataThreads,
             DetachUnref(t) \/ WriteData(t) \/ \E b \in DataBlocks : DetachCopy(t, b)
      PROVE  [Copies!Next]_Held
  <2>1. CASE DetachUnref(t)
    BY <2>1 DEF DetachUnref, Held
  <2> QED BY <1>4, <2>1, WriteStep, DetachStep
<1> QED BY <1>1, <1>2, <1>3, <1>4 DEF NextData

\* Whoever uses a CuData may take it for a value of its own: the sharing of
\* what copies refer to, and the detaching of who writes, are not to be seen.
THEOREM DataImplementsCopies ==
  ASSUME ~ModifiesPublished
  PROVE  SpecData => CopyOnWrite
<1>1. InitData => Copies!Init
  BY DEF InitData, Copies!Init, Held
<1>2. DataInv /\ DataInv' /\ [NextData]_dataVars => [Copies!Next]_Held
  BY DataStep
<1> QED BY <1>1, <1>2, DataInvAlways, PTL DEF SpecData, CopyOnWrite, Copies!Spec
=============================================================================
