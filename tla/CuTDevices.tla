----------------------------- MODULE CuTDevices ------------------------------
(***************************************************************************)
(* The Tango devices that activities share: CuDeviceFactoryService, and    *)
(* CuTThreadDevices, which every CuTThread has.  Either keeps one TDevice  *)
(* for each device and thread token, with a count of its references.  An   *)
(* activity takes a reference in init; pollers and event activities give   *)
(* it back in onExit, configuration and writing in execute.  Whether the   *)
(* device is defined in the Tango database is found when the TDevice is    *)
(* made.                                                                   *)
(*                                                                         *)
(* A write to a device that is not defined keeps its reference: the TDevice*)
(* stays, and it is not asked again whether the device has been defined.   *)
(***************************************************************************)
EXTENDS Integers, FiniteSets

CONSTANTS
  DeviceUsers,       \* activities
  UserKind,          \* what each is
  ThreadTokens, TangoDevices,
  MaxRefs            \* bound on the references to one TDevice

ASSUME DevicesAssumption ==
  /\ ThreadTokens # {} /\ TangoDevices # {} /\ IsFiniteSet(DeviceUsers)
  /\ UserKind \in [DeviceUsers -> {"poll", "event", "config", "write"}]
  /\ MaxRefs \in Nat

VARIABLES
  devmap,     \* the TDevice of each thread token and device
  phase,      \* "out", "init", "run"
  uses,       \* thread token and device of each activity
  database    \* the devices that the Tango database defines
devicesVars == <<devmap, phase, uses, database>>

Places == ThreadTokens \X TangoDevices
NoTDevice == [refCnt |-> 0, valid |-> FALSE]

-----------------------------------------------------------------------------
(* getDevice, removeRef                                                    *)

GetDevice(p) ==
  LET td == devmap[p]
      valid == IF td.refCnt = 0 THEN p[2] \in database ELSE td.valid
  IN  devmap' = [devmap EXCEPT ![p] = [refCnt |-> td.refCnt + 1, valid |-> valid]]

RemoveRef(p) ==
  LET td == devmap[p]
  IN  devmap' = [devmap EXCEPT ![p] =
        IF td.refCnt <= 1 THEN NoTDevice ELSE [td EXCEPT !.refCnt = @ - 1]]

-----------------------------------------------------------------------------
(* The hooks of the activities                                             *)

InitUser(x, p) ==
  /\ phase[x] = "out" /\ devmap[p].refCnt < MaxRefs
  /\ GetDevice(p)
  /\ phase' = [phase EXCEPT ![x] = "init"]
  /\ uses' = [uses EXCEPT ![x] = p]
  /\ UNCHANGED database

\* Pollers execute again every period, and change nothing here.
ExecuteUser(x) ==
  LET p == uses[x] IN
  /\ phase[x] = "init"
  /\ \/ UserKind[x] = "config" /\ RemoveRef(p)
     \/ UserKind[x] = "write" /\ devmap[p].valid /\ RemoveRef(p)
     \/ UserKind[x] = "write" /\ ~devmap[p].valid /\ UNCHANGED devmap
     \/ UserKind[x] \in {"poll", "event"} /\ UNCHANGED devmap
  /\ phase' = [phase EXCEPT ![x] = "run"]
  /\ UNCHANGED <<uses, database>>

\* Every activity gives a reference back when it exits.
BugExitUser(x) ==
  /\ phase[x] = "run"
  /\ RemoveRef(uses[x])
  /\ phase' = [phase EXCEPT ![x] = "out"]
  /\ UNCHANGED <<uses, database>>

ExitUser(x) ==
  /\ phase[x] = "run"
  /\ IF UserKind[x] \in {"poll", "event"} THEN RemoveRef(uses[x])
     ELSE UNCHANGED devmap
  /\ phase' = [phase EXCEPT ![x] = "out"]
  /\ UNCHANGED <<uses, database>>

\* The database is edited: by others.
EditDatabase ==
  /\ database' \in SUBSET TangoDevices
  /\ UNCHANGED <<devmap, phase, uses>>

InitDevices ==
  /\ devmap = [p \in Places |-> NoTDevice]
  /\ phase = [x \in DeviceUsers |-> "out"]
  /\ uses = [x \in DeviceUsers |-> CHOOSE p \in Places : TRUE]
  /\ database \in SUBSET TangoDevices

NextDevices ==
  \/ \E x \in DeviceUsers : \/ \E p \in Places : InitUser(x, p)
                            \/ ExecuteUser(x)
                            \/ ExitUser(x)
  \/ EditDatabase

SpecDevices == InitDevices /\ [][NextDevices]_devicesVars

-----------------------------------------------------------------------------
(* Properties                                                              *)

TypeOKDevices ==
  /\ devmap \in [Places -> [refCnt : Nat, valid : BOOLEAN]]
  /\ phase \in [DeviceUsers -> {"out", "init", "run"}]
  /\ uses \in [DeviceUsers -> Places]
  /\ database \in SUBSET TangoDevices

\* Who may still use the TDevice: until execute, or until onExit.
Using(x) == phase[x] = "init" \/ (phase[x] = "run" /\ UserKind[x] \in {"poll", "event"})
UsersOf(p) == {x \in DeviceUsers : Using(x) /\ uses[x] = p}

\* No activity is left with a deleted TDevice, and a TDevice that has its
\* DeviceProxy is deleted when the last activity leaves it: not before, not
\* later (cuwriteactivity.cpp:103, cutconfigactivity.cpp:151).
DevicesHeld ==
  \A p \in Places :
    /\ Cardinality(UsersOf(p)) <= devmap[p].refCnt
    /\ devmap[p].valid => devmap[p].refCnt = Cardinality(UsersOf(p))
=============================================================================
