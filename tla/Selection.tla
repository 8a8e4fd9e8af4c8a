------------------------------ MODULE Selection ------------------------------
(***************************************************************************)
(* The elements of a sequence at some of its places, in their order.  It   *)
(* is what SelectSeq gives, told by places and not by a recursion, so that *)
(* one can reason about it (CuQueuesProofs).                               *)
(***************************************************************************)
EXTENDS Naturals, Sequences, FiniteSets

\* The place of what is k-th in the selection of ps.
PlaceOf(k, ps) == CHOOSE p \in ps : Cardinality({q \in ps : q <= p}) = k

Kept(s, ps) == [k \in 1..Cardinality(ps) |-> s[PlaceOf(k, ps)]]
=============================================================================
