------------------------------ MODULE MCCuThread ------------------------------
(***************************************************************************)
(* Small instances of CuThread for TLC.                                    *)
(***************************************************************************)
EXTENDS CuThreadLifecycle, TLC

CONSTANTS a1, a2, a3, k1, k2

\* tokens: every activity in the same thread, or a1 in a thread of its own
SameToken == [a \in Activities |-> k1]
TwoTokens == [a \in Activities |-> IF a = a1 THEN k1 ELSE k2]

\* periods: every activity executed once, all periodic, or only a1 periodic
OneShot == [a \in Activities |-> 0]
SamePeriod == [a \in Activities |-> 1]
FirstPeriodic == [a \in Activities |-> IF a = a1 THEN 1 ELSE 0]

\* the threads are interchangeable, and so are the listeners
Symmetry == Permutations(Threads) \union Permutations(Listeners)
===============================================================================
