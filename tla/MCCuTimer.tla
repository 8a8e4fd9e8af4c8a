------------------------------- MODULE MCCuTimer -------------------------------
(***************************************************************************)
(* Small instances of CuTimer for TLC.                                     *)
(***************************************************************************)
EXTENDS CuTimer
===============================================================================
