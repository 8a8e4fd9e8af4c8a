------------------------------ MODULE DataCopies ------------------------------
(***************************************************************************)
(* What the users of CuData rely on: every CuData is a value of its own.   *)
(* To write into one, or to destroy it, changes no other, whatever thread  *)
(* it belongs to.                                                          *)
(***************************************************************************)
CONSTANTS DataHandles, DataValues, NoData

VARIABLE held     \* the data of each CuData, or NoData

Init == held = [h \in DataHandles |-> NoData]

Construct(h, v) == held[h] = NoData /\ held' = [held EXCEPT ![h] = v]
Duplicate(h, g) ==
  /\ held[h] = NoData /\ held[g] # NoData
  /\ held' = [held EXCEPT ![h] = held[g]]
Move(h, g) ==
  /\ held[g] # NoData
  /\ held' = [held EXCEPT ![h] = held[g], ![g] = NoData]
Assign(h, g) == held[h] # NoData /\ held[g] # NoData /\ held' = [held EXCEPT ![h] = held[g]]
Modify(h, v) == held[h] # NoData /\ held' = [held EXCEPT ![h] = v]
Dispose(h) == held[h] # NoData /\ held' = [held EXCEPT ![h] = NoData]

Next ==
  \E h \in DataHandles :
    \/ \E v \in DataValues : Construct(h, v) \/ Modify(h, v)
    \/ \E g \in DataHandles \ {h} : Duplicate(h, g) \/ Move(h, g) \/ Assign(h, g)
    \/ Dispose(h)

Spec == Init /\ [][Next]_held
=============================================================================
