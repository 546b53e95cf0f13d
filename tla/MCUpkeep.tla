-------------------------------- MODULE MCUpkeep --------------------------------
(***************************************************************************)
(* What the hub does to keep a PC up: its firmware updates and its file    *)
(* backups.  They are schedulers of their own with tables of their own,    *)
(* and each looks up no command but its own, so a behaviour here is of one *)
(* of them beside the other that stands still.                             *)
(*                                                                         *)
(* Backups are explored in three parts: with two things going wrong, one   *)
(* pass and one report at a time ("faults"); and with one thing going      *)
(* wrong, any number of passes and reports at a time, the runs a second or *)
(* more apart ("crowd") or all in one ("second").                          *)
(***************************************************************************)
EXTENDS Firmware, Backup, TLC

CONSTANTS c1, c2,
    MaxFaults       \* bound: how often something goes wrong

VARIABLES part, faults

OwnFirmwareVars == <<hub, world>>
upkeepVars == <<firmwareVars, backupOwn, part, faults>>

Alike == Permutations(Post)

FirmwaresCommands == \A c \in Command \ {c1, c2} : status'[c] = "unissued"
OneAtATime ==
    /\ \A t \in Thread \ {Scheduler} : threads'[t] = NoThread
    /\ Cardinality({p \in Post : posts'[p] # NoPost}) <= 1
Begins == \E t \in Thread : Stands(t, "idle") /\ threads'[t].pc = "plan"
Apart == Begins => second' = second + 1

BackupParts == {"faults", "crowd", "second"}
BackupPart ==
    CASE part = "faults" -> OneAtATime /\ Apart
      [] part = "crowd"  -> faults' <= 1 /\ Apart
      [] part = "second" -> faults' <= 1 /\ UNCHANGED second

(* From an overlap on there is nothing that the properties say.            *)
BackupSteady ==
    /\ part \in BackupParts /\ ~overlapped
    /\ DispatchStep \/ CancelRunStep \/ AgentStep \/ ReportStep
    /\ UNCHANGED <<OwnFirmwareVars, part, faults>> /\ BackupPart

BackupSuffers ==
    /\ part \in BackupParts /\ ~overlapped /\ faults < MaxFaults
    /\ BackupFault /\ faults' = faults + 1
    /\ UNCHANGED <<OwnFirmwareVars, part>> /\ BackupPart

UpkeepInit ==
    /\ Init /\ BackupInit
    /\ part \in {"firmware"} \cup BackupParts /\ faults = 0
    /\ viaHub => part = "faults"

UpkeepNext ==
    \/ part = "firmware" /\ Next /\ FirmwaresCommands /\ UNCHANGED <<backupOwn, part, faults>>
    \/ BackupSteady
    \/ BackupSuffers

UpkeepSpec == UpkeepInit /\ [][UpkeepNext]_upkeepVars
=============================================================================
