------------------------------ MODULE MCFat32 ------------------------------
(***************************************************************************)
(* Fat32 on small volumes: on a disk that works, and on one that does not. *)
(***************************************************************************)
EXTENDS Fat32

SmallFiles == {<<"f">>, <<"d", "f">>}
PathsBelowFile == SmallFiles \cup {<<"f", "f">>}
Siblings == {<<"f">>, <<"g">>}
SmallDirs == {<<"d">>}

AllOps == {"createFile", "createDirectory", "open", "write", "read", "seek",
           "truncate", "flush", "close", "remove", "rename", "unmount"}

(* All but those that only move offsets. *)
WriteOps == AllOps \ {"read", "seek", "unmount"}

-----------------------------------------------------------------------------
(* Faults.  What a loss of power may leave behind depends on what clients   *)
(* do, so a history keeps to one plan: "append" clients change one entry at *)
(* a time and neither shorten a file nor move one to another directory;     *)
(* "any" clients do everything.                                             *)
VARIABLE plan

Appending ==
  \/ Step
  \/ \E p \in Siblings :
       \/ \E m \in {{"Create"}, {"Append"}}, h \in Handles : open(p, m, h)
       \/ faults < 2 /\ (createFile(p) \/ remove(p) \/ \E q \in Siblings : rename(p, q))
  \/ \E p \in DirPaths : faults = 0 /\ remove(p)
  \/ \E h \in Handles, n \in Marks \ {0} : write(h, n)
  \/ \E h \in Handles : Flush(h) \/ close(h)
  \/ mount
  \/ PowerLoss

(* After a fault, all but the removal of a directory and renaming below a   *)
(* file.                                                                    *)
Damaged ==
  \/ Step
  \/ \E p \in FilePaths : createFile(p) \/ remove(p)
  \/ \E p \in DirPaths : createDirectory(p)
  \/ \E p, q \in FilePaths : rename(p, q)
  \/ \E p \in FilePaths, m \in SUBSET Modes, h \in Handles : open(p, m, h)
  \/ \E h \in Handles, n \in Marks \ {0} : write(h, n)
  \/ \E h \in Handles, n \in Marks : truncate(h, n)
  \/ \E h \in Handles : Flush(h) \/ close(h)
  \/ mount

(* Two faults for those who append, after which they only open and write;   *)
(* one for the others.                                                      *)
FaultNext ==
  /\ \/ plan = "append" /\ Appending
     \/ plan = "any" /\ faults = 0 /\ Next
     \/ plan = "any" /\ faults = 1 /\ Damaged /\ UNCHANGED faults
  /\ UNCHANGED plan

FaultVars == <<vars, plan>>

FaultInit == Init /\ plan \in {"append", "any"}

FaultSpec ==
  /\ FaultInit
  /\ [][FaultNext]_FaultVars
  /\ WF_FaultVars(Step /\ UNCHANGED plan)

(* Everything, on a disk that works (MaxFaults = 0), by clients who do not  *)
(* rename below a regular file ...                                          *)
WorkInit == Init /\ plan = "any"
WorkNext == CarefulNext /\ UNCHANGED plan
WorkSpec == WorkInit /\ [][WorkNext]_FaultVars

(* ... and by all. *)
AnySpec == WorkInit /\ [][Next /\ UNCHANGED plan]_FaultVars

(* Where clients append, no cluster has two owners and no file shows        *)
(* another's data, whatever write fails and wherever the power goes.        *)
FaultsContained == plan = "append" => CrashSafe
=============================================================================
