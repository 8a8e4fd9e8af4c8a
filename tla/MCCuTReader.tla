----------------------------- MODULE MCCuTReader -----------------------------
(* Instances of CuTReader for TLC: two sources of one device. *)
EXTENDS CuTReader
CONSTANTS s1, s2, d1, l1, l2
OneDevice == [s \in Sources |-> d1]
\* Changes of mode after which a reader does not remember an event activity it
\* has left, and is not added twice to a poller: see README, divergences.
SafeSwitches == {<<"Polled", "Change", {NoPeriod}>>, <<"Polled", "Manual", {NoPeriod}>>,
                 <<"Manual", "Polled", {1}>>,
                 <<"Change", "Archive", {NoPeriod}>>, <<"Archive", "Change", {NoPeriod}>>}
EventsToPolling == {<<"Change", "Polled", {NoPeriod, 1}>>, <<"Polled", "Change", {NoPeriod}>>}
=============================================================================
