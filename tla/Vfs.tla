--------------------------------- MODULE Vfs ---------------------------------
(***************************************************************************)
(* The virtual file system, kernel/fs/vfs.cpp: the table of mounts and the *)
(* choice of the file system that a path belongs to.                       *)
(*                                                                         *)
(* A path is a sequence of characters, because where one path is a prefix  *)
(* of another is what dispatch is about.  A file system is its mounted     *)
(* volume; what it does with a request is its own affair, and request is   *)
(* the last one that reached it.  A call that only returns an error has no *)
(* action.                                                                 *)
(***************************************************************************)
EXTENDS Integers, Sequences, SequencesExt

CONSTANTS
  Characters,   (* what paths are made of                                   *)
  FileSystems,
  BlockDevices,
  MountPaths,   (* where clients mount, without a slash at the end          *)
  Paths,        (* what they ask for, and what is typed at the shell        *)
  NONE

Slash == "/"
Root == <<Slash>>
IsAbsolute(path) == path # <<>> /\ path[1] = Slash

ASSUME PathAssumption ==
  /\ MountPaths \cup Paths \subseteq Seq(Characters)
  /\ Root \in MountPaths
  /\ \A p \in MountPaths : IsAbsolute(p) /\ (p # Root => p[Len(p)] # Slash)
ASSUME NoneAssumption == NONE \notin FileSystems \cup BlockDevices

VARIABLES
  booted,     (* main has called mountRoot                                  *)
  mounts,     (* mountsStorage: a sequence of [path, fs]                    *)
  volume,     (* file system -> the device it has mounted, or NONE          *)
  request,    (* [op, fs, paths], or NONE                                   *)
  panicked    (* an ASSERT has failed                                       *)

vars == <<booted, mounts, volume, request, panicked>>

Asserting == {"open", "openDirectory", "stat"}
Refusing == {"createFile", "createDirectory", "remove"}

-----------------------------------------------------------------------------
(* Dispatch *)

(* Mutant: no look at where the prefix ends. *)
pathStartsWithMountUnbounded(path, mountPath) == IsPrefix(mountPath, path)

pathStartsWithMount(path, mountPath) ==
  /\ IsPrefix(mountPath, path)
  /\ \/ mountPath = Root
     \/ Len(path) = Len(mountPath)
     \/ path[Len(mountPath) + 1] = Slash

mountMatchLength(path, mountPath) ==
  IF pathStartsWithMount(path, mountPath) THEN Len(mountPath) ELSE 0

(* Mutant: the first mount that matches. *)
BetterFirst(path, best, mountPoint) ==
  IF best.fs = NONE /\ mountMatchLength(path, mountPoint.path) > 0
  THEN mountPoint ELSE best

Better(path, best, mountPoint) ==
  IF mountMatchLength(path, mountPoint.path) >
       (IF best.fs = NONE THEN 0 ELSE Len(best.path))
  THEN mountPoint ELSE best

(* The loop every operation runs through the table. *)
Best(path) ==
  LET best[n \in 0 .. Len(mounts)] ==
        IF n = 0 THEN [path |-> Root, fs |-> NONE]
        ELSE Better(path, best[n - 1], mounts[n])
  IN best[Len(mounts)]

fileSystemForPath(path) == Best(path).fs

(* Mutant: nothing is left of the mount point itself. *)
relativePathForMountEmpty(path, mountPath) ==
  IF mountPath = Root THEN path
  ELSE SubSeq(path, Len(mountPath) + 1, Len(path))

relativePathForMount(path, mountPath) ==
  IF mountPath = Root \/ ~pathStartsWithMount(path, mountPath) THEN path
  ELSE IF Len(path) = Len(mountPath) THEN Root
  ELSE SubSeq(path, Len(mountPath) + 1, Len(path))

Relative(path) == relativePathForMount(path, Best(path).path)

-----------------------------------------------------------------------------
Init ==
  /\ booted = FALSE
  /\ mounts = <<>>
  /\ volume = [fs \in FileSystems |-> NONE]
  /\ request = NONE
  /\ panicked = FALSE

Ready == booted /\ ~panicked

(* Mutant: the table is written before the file system has agreed. *)
AddMountUnchecked(path, fs, device) ==
  /\ mounts' = Append(mounts, [path |-> path, fs |-> fs])
  /\ volume' = IF volume[fs] = NONE THEN [volume EXCEPT ![fs] = device] ELSE volume

(* A file system mounts one volume at a time. *)
AddMount(path, fs, device) ==
  /\ volume[fs] = NONE
  /\ volume' = [volume EXCEPT ![fs] = device]
  /\ mounts' = Append(mounts, [path |-> path, fs |-> fs])

(* init, then a new file system on the first block device; without a device *)
(* or with one it cannot read, the kernel goes on with nothing mounted.     *)
mountRoot(fs) ==
  /\ ~booted
  /\ booted' = TRUE
  /\ \/ \E device \in BlockDevices : AddMount(Root, fs, device)
     \/ UNCHANGED <<mounts, volume>>
  /\ UNCHANGED <<request, panicked>>

mount(path, fs, device) ==
  /\ Ready
  /\ \A i \in DOMAIN mounts : mounts[i].path # path
  /\ AddMount(path, fs, device)
  /\ request' = NONE
  /\ UNCHANGED <<booted, panicked>>

unmount(path) ==
  /\ Ready
  /\ \E i \in DOMAIN mounts :
       /\ mounts[i].path = path
       /\ volume[mounts[i].fs] # NONE
       /\ volume' = [volume EXCEPT ![mounts[i].fs] = NONE]
       /\ mounts' = RemoveAt(mounts, i)
  /\ request' = NONE
  /\ UNCHANGED <<booted, panicked>>

Forward(op, fs, paths) ==
  request' = [op |-> op, fs |-> fs, paths |-> paths]

(* open, openDirectory (the shell's ls), stat (and exists, isFile,          *)
(* isDirectory): a path without a file system fails an ASSERT.              *)
Lookup(op, path) ==
  /\ Ready
  /\ \/ /\ fileSystemForPath(path) # NONE
        /\ Forward(op, fileSystemForPath(path), <<Relative(path)>>)
        /\ UNCHANGED panicked
     \/ /\ fileSystemForPath(path) = NONE
        /\ panicked' = TRUE
        /\ UNCHANGED request
  /\ UNCHANGED <<booted, mounts, volume>>

(* createFile, createDirectory, remove: such a path is refused. *)
Change(op, path) ==
  /\ Ready
  /\ fileSystemForPath(path) # NONE
  /\ Forward(op, fileSystemForPath(path), <<Relative(path)>>)
  /\ UNCHANGED <<booted, mounts, volume, panicked>>

(* rename does not go from one file system to another. *)
rename(old, new) ==
  /\ Ready
  /\ fileSystemForPath(old) # NONE
  /\ fileSystemForPath(old) = fileSystemForPath(new)
  /\ Forward("rename", fileSystemForPath(old), <<Relative(old), Relative(new)>>)
  /\ UNCHANGED <<booted, mounts, volume, panicked>>

(* kernelPanic never returns. *)
Halted == panicked /\ UNCHANGED vars

Next ==
  \/ \E fs \in FileSystems : mountRoot(fs)
  \/ \E path \in MountPaths, fs \in FileSystems, device \in BlockDevices :
       mount(path, fs, device)
  \/ \E path \in MountPaths : unmount(path)
  \/ \E path \in Paths, op \in Asserting : Lookup(op, path)
  \/ \E path \in Paths, op \in Refusing : Change(op, path)
  \/ \E old, new \in Paths : rename(old, new)
  \/ Halted

Spec == Init /\ [][Next]_vars

-----------------------------------------------------------------------------
(* Properties *)

(* Mounts and volumes have their types, and what reaches a file system is   *)
(* an absolute path of its own: never empty, never without the slash.       *)
TypeOK ==
  /\ booted \in BOOLEAN
  /\ mounts \in Seq([path : MountPaths, fs : FileSystems])
  /\ volume \in [FileSystems -> BlockDevices \cup {NONE}]
  /\ request # NONE =>
       /\ request.fs \in FileSystems
       /\ \A i \in DOMAIN request.paths : IsAbsolute(request.paths[i])
  /\ panicked \in BOOLEAN

(* A file system has a volume exactly while it is mounted at one place, and *)
(* no place has two: unmount finds the one that mount made.                 *)
OneMountEach ==
  /\ \A i, j \in DOMAIN mounts :
       i # j => mounts[i].path # mounts[j].path /\ mounts[i].fs # mounts[j].fs
  /\ {fs \in FileSystems : volume[fs] # NONE} =
       {mounts[i].fs : i \in DOMAIN mounts}

(* The directories a path names or lies in. *)
Ancestors(path) ==
  IF ~IsAbsolute(path) THEN {}
  ELSE {Root} \cup
       {SubSeq(path, 1, n) : n \in {n \in 1 .. Len(path) :
                                      n = Len(path) \/ path[n + 1] = Slash}}

MountsAbove(path) == {i \in DOMAIN mounts : mounts[i].path \in Ancestors(path)}

(* Every path belongs to the deepest mount among the directories it lies in,*)
(* whatever was mounted first; and the mount's path followed by what the    *)
(* file system is given is the path again, an absolute one also for a file  *)
(* system mounted below the root.                                           *)
DispatchIsDeepest ==
  /\ TypeOK
  /\ \A path \in Paths :
       IF MountsAbove(path) = {} THEN fileSystemForPath(path) = NONE
       ELSE \E i \in MountsAbove(path) :
              /\ \A j \in MountsAbove(path) : Len(mounts[j].path) <= Len(mounts[i].path)
              /\ fileSystemForPath(path) = mounts[i].fs
              /\ IF mounts[i].path = Root THEN Relative(path) = path
                 ELSE \/ mounts[i].path \o Relative(path) = path
                      \/ path = mounts[i].path /\ Relative(path) = Root

MountedPaths == {mounts[i].path : i \in DOMAIN mounts}

(* Mounting or unmounting at one directory moves only the paths below it:   *)
(* /ab is not concerned by what happens at /a.                              *)
MountsAreLocal ==
  [][\A path \in Paths :
       fileSystemForPath(path)' # fileSystemForPath(path) =>
         \E p \in MountedPaths \cup MountedPaths' :
           /\ ~(p \in MountedPaths /\ p \in MountedPaths')
           /\ p \in Ancestors(path)]_vars

(* What the ASSERTs of open, openDirectory and stat state: every path that  *)
(* is asked for belongs to a file system.                                   *)
AssertionsHold == ~panicked
==============================================================================
