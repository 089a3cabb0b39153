-------------------------------- MODULE Fat32 -------------------------------
(***************************************************************************)
(* The FAT32 driver, kernel/fs/fat32.cpp: cluster chains, directories, open*)
(* files and the counters of the FSInfo sector, on a disk that may fail.   *)
(*                                                                         *)
(* A call runs alone (one thread), but it is a series of sector writes: it *)
(* is one action per write, because each write may fail and each may be the*)
(* last before the power goes.  call is the call in progress; call.at names*)
(* its next write and call.next where a finished allocateCluster or        *)
(* freeClusterChain goes on.  A failed read is the failed write that would *)
(* have followed it; lookups of a path are taken to succeed.               *)
(*                                                                         *)
(* A cluster is ClusterSize cells, each a unit of file data or a directory *)
(* slot.  A unit of data is the offset it was written for.  Names are 8.3  *)
(* names up to case; the driver writes no long names.  Of a call that      *)
(* returns without touching anything there is no action.                   *)
(***************************************************************************)
EXTENDS Integers, Sequences, FiniteSets

CONSTANTS
  totalClusters,
  ClusterSize,   (* cells of a cluster                                      *)
  FilePaths,     (* what clients call their files, directory by directory   *)
  DirPaths,      (* and their directories: below the root only              *)
  Handles,
  MaxLength,     (* bound: units in a file                                  *)
  Marks,         (* bound: the offsets and lengths that clients name        *)
  Ops,           (* the operations clients use                              *)
  Modes,         (* and the flags they open files with                      *)
  MaxFaults      (* bound: how often a write fails or power is lost         *)

ASSUME VolumeAssumption ==
  /\ totalClusters \in Nat \ {0, 1}
  /\ ClusterSize \in Nat /\ ClusterSize >= 2
  /\ MaxLength \in Nat \ {0} /\ Marks \subseteq 0 .. MaxLength
  /\ \A p \in FilePaths \cup DirPaths : Len(p) \in 1 .. 2
  /\ \A p \in DirPaths : Len(p) = 1
  /\ MaxFaults \in Nat

(* No path that a client names has a dot entry in it.  New names that do    *)
(* makeShortName refuses, and remove refuses to remove one; rename does not *)
(* look at its old name.                                                    *)
ASSUME NameAssumption ==
  \A p \in FilePaths \cup DirPaths : \A i \in 1 .. Len(p) : p[i] \notin {".", ".."}

VARIABLES
  fat,      (* on disk: cluster -> next cluster, FreeCluster or EndOfChain  *)
  data,     (* on disk: cluster -> its cells                                *)
  info,     (* on disk: the FSInfo sector                                   *)
  fsInfo,   (* in memory: the same                                          *)
  mounted,
  handles,  (* handle -> open file, or Closed                               *)
  call,     (* the call in progress                                         *)
  leaked,   (* ghost: clusters that a closed handle forgot                  *)
  faults    (* ghost: how often a write failed or power was lost            *)

disk == <<fat, data, info>>
vars == <<fat, data, info, fsInfo, mounted, handles, call, leaked, faults>>

FreeCluster == 0
EndOfChain == -1
Unknown == -1                       (* freeClusterCount of 0xFFFFFFFF       *)
rootCluster == 2
Cluster == 2 .. totalClusters + 1

Zero == [kind |-> "zero"]           (* never used: name[0] is 0, or data 0  *)
Deleted == [kind |-> "deleted"]
Unit(k) == [kind |-> "unit", offset |-> k]
Entry(name, dir, first, size) ==
  [kind |-> "entry", name |-> name, dir |-> dir, firstCluster |-> first,
   size |-> size]

ZeroCells == [i \in 1 .. ClusterSize |-> Zero]
DotCells(c, parent) ==
  [ZeroCells EXCEPT ![1] = Entry(".", TRUE, c, 0),
                    ![2] = Entry("..", TRUE, parent, 0)]

NoInfo == [freeClusterCount |-> Unknown, nextFreeCluster |-> 2]

Closed == [open |-> FALSE]

-----------------------------------------------------------------------------
(* Reading the volume *)

(* The n-th cluster of the chain that starts at c, or the mark it ends with *)
(* before that.                                                             *)
Nth(c, n) ==
  LET walk[i \in 0 .. n] ==
        IF i = 0 THEN c
        ELSE IF walk[i - 1] \in Cluster THEN fat[walk[i - 1]]
        ELSE walk[i - 1]
  IN  walk[n]

Chain(c) == {Nth(c, n) : n \in 0 .. totalClusters - 1} \cap Cluster

(* What a chain ends with; a chain that loops does not end. *)
EndMark(c) == Nth(c, totalClusters)
LastOf(c) == CHOOSE d \in Chain(c) : fat[d] = EndOfChain

(* Directory slots: <<cluster, cell>>, in the order they are read. *)
Nowhere == <<0, 0>>
Slots(head) == 0 .. ClusterSize * Cardinality(Chain(head)) - 1
SlotAt(head, p) == <<Nth(head, p \div ClusterSize), (p % ClusterSize) + 1>>
Cell(slot) == data[slot[1]][slot[2]]

(* readDirectory: up to the first slot never used. *)
readDirectory(head) ==
  {SlotAt(head, p) : p \in {p \in Slots(head) :
     \A q \in 0 .. p : Cell(SlotAt(head, q)) # Zero}}

Matches(head, name) ==
  {s \in readDirectory(head) : Cell(s).kind = "entry" /\ Cell(s).name = name}

(* It fails when it runs into a free cluster first. *)
Readable(head) ==
  \/ EndMark(head) = EndOfChain
  \/ \E p \in Slots(head) : Cell(SlotAt(head, p)) = Zero

InDirectory(head, name) ==
  IF ~Readable(head) \/ Matches(head, name) = {} THEN Nowhere
  ELSE CHOOSE s \in Matches(head, name) : TRUE

(* The first cluster of the directory a path lies in, if it is one. *)
parentOf(path) ==
  IF Len(path) = 1 THEN rootCluster
  ELSE LET s == InDirectory(rootCluster, path[1])
       IN  IF s # Nowhere /\ Cell(s).dir THEN Cell(s).firstCluster ELSE 0

basenameOf(path) == path[Len(path)]

findEntry(path) == InDirectory(parentOf(path), basenameOf(path))

(* findFreeDirectoryEntry, without the case that extends the directory. *)
Reusable(head) ==
  {p \in Slots(head) : Cell(SlotAt(head, p)).kind \in {"zero", "deleted"}}
FirstReusable(head) ==
  SlotAt(head, CHOOSE p \in Reusable(head) : \A q \in Reusable(head) : p <= q)

(* The data of a file: a unit may look like a slot in use, or like a free one. *)
MayLookFree(head) ==
  {p \in Slots(head) :
     /\ Cell(SlotAt(head, p)).kind # "entry"
     /\ \A q \in Reusable(head) : p <= q}

(* Is what has this first cluster a directory? *)
OfDirectory(head) ==
  \/ head = rootCluster
  \/ \E s \in readDirectory(rootCluster) :
       Cell(s).kind = "entry" /\ Cell(s).dir /\ Cell(s).firstCluster = head

IsEmpty(head) ==
  /\ Readable(head)
  /\ \A s \in readDirectory(head) :
       \/ Cell(s).kind = "deleted"
       \/ Cell(s).kind = "entry" /\ Cell(s).name \in {".", ".."}

-----------------------------------------------------------------------------
(* Writing it *)

(* A write the driver is told has failed may have reached the disk: of a    *)
(* table entry all or nothing, of a cluster the sectors up to some point.   *)
Outcomes == IF faults < MaxFaults THEN BOOLEAN ELSE {TRUE}
Count(ok) == faults' = IF ok THEN faults ELSE faults + 1

writeFATEntry(c, value, ok) ==
  /\ Count(ok)
  /\ fat' \in IF ok THEN {[fat EXCEPT ![c] = value]}
                    ELSE {fat, [fat EXCEPT ![c] = value]}

writeCluster(c, cells, ok) ==
  /\ Count(ok)
  /\ \E k \in IF ok THEN {ClusterSize} ELSE 0 .. ClusterSize :
       data' = [data EXCEPT ![c] =
                  [i \in 1 .. ClusterSize |-> IF i <= k THEN cells[i] ELSE data[c][i]]]

writeInfo(ok) ==
  /\ Count(ok)
  /\ info' \in IF ok THEN {fsInfo} ELSE {info, fsInfo}

writeSlot(slot, cell, ok) ==
  writeCluster(slot[1], [data[slot[1]] EXCEPT ![slot[2]] = cell], ok)

(* updateDirectoryEntry leaves the name, and with it a deleted slot, alone. *)
Updated(slot, ent) ==
  IF Cell(slot).kind = "entry"
  THEN [Cell(slot) EXCEPT !.firstCluster = ent.firstCluster, !.size = ent.size]
  ELSE Cell(slot)

-----------------------------------------------------------------------------
NoEntry == Entry("", FALSE, 0, 0)

Idle ==
  [op |-> "idle", at |-> "idle", next |-> "idle", handle |-> 0, n |-> 0,
   mode |-> {}, head |-> 0, cluster |-> 0, slot |-> Nowhere, old |-> Nowhere,
   ent |-> NoEntry, was |-> NoEntry]

Jump(c, label) == IF label = "idle" THEN Idle ELSE [c EXCEPT !.at = label]
Goto(label) == Jump(call, label)

(* A call that fails ends, with what it has done so far left done. *)
GotoIf(ok, label) == IF ok THEN Goto(label) ELSE Idle

At(label) == call.at = label
File == handles[call.handle]
SetFile(file) == handles' = [handles EXCEPT ![call.handle] = file]

(* A volume with an empty root directory, or with one directory in it. *)
Volume(dirs) ==
  /\ fat = [c \in Cluster |->
              IF c - 2 <= Len(dirs) THEN EndOfChain ELSE FreeCluster]
  /\ data = [c \in Cluster |->
       IF c = rootCluster
       THEN [i \in 1 .. ClusterSize |->
               IF i <= Len(dirs) THEN Entry(dirs[i], TRUE, i + 2, 0) ELSE Zero]
       ELSE IF c - 2 <= Len(dirs) THEN DotCells(c, rootCluster)
       ELSE ZeroCells]
  /\ info = [freeClusterCount |-> totalClusters - 1 - Len(dirs),
             nextFreeCluster  |-> rootCluster]

Init ==
  /\ \E dirs \in {<<>>} \cup DirPaths : Volume(dirs)
  /\ fsInfo = NoInfo
  /\ mounted = FALSE
  /\ handles = [h \in Handles |-> Closed]
  /\ call = Idle
  /\ leaked = {}
  /\ faults = 0

-----------------------------------------------------------------------------
(* allocateCluster *)

(* The first free cluster from the hint on, round the table. *)
ScanStart ==
  IF fsInfo.nextFreeCluster \in Cluster THEN fsInfo.nextFreeCluster ELSE 2
Distance(c) == (c - ScanStart) % totalClusters

IsNextFree(c) ==
  /\ fat[c] = FreeCluster
  /\ \A d \in Cluster : fat[d] = FreeCluster => Distance(c) <= Distance(d)

Full == \A c \in Cluster : fat[c] # FreeCluster

AllocateClaim ==
  /\ At("alloc")
  /\ \/ /\ Full
        /\ call' = Idle
        /\ UNCHANGED <<fat, faults>>
     \/ \E c \in Cluster, ok \in Outcomes :
          /\ IsNextFree(c)
          /\ writeFATEntry(c, EndOfChain, ok)
          /\ call' = IF ok THEN [call EXCEPT !.at = "zero", !.cluster = c] ELSE Idle
  /\ UNCHANGED <<data, info, fsInfo, mounted, handles, leaked>>

(* Mutant: the hint does not wrap. *)
TakenUnwrapped(c) ==
  [freeClusterCount |-> IF fsInfo.freeClusterCount > 0
                        THEN fsInfo.freeClusterCount - 1
                        ELSE fsInfo.freeClusterCount,
   nextFreeCluster  |-> c + 1]

(* The in-memory counters once c is taken. *)
Taken(c) ==
  [freeClusterCount |-> IF fsInfo.freeClusterCount > 0
                        THEN fsInfo.freeClusterCount - 1
                        ELSE fsInfo.freeClusterCount,
   nextFreeCluster  |-> IF c + 1 >= totalClusters + 2 THEN 2 ELSE c + 1]

(* Mutant: a new cluster keeps what the last owner left in it. *)
zeroClusterSkipped ==
  /\ At("zero")
  /\ fsInfo' = Taken(call.cluster)
  /\ call' = Goto("sync")
  /\ UNCHANGED <<fat, data, info, mounted, handles, leaked, faults>>

zeroCluster ==
  /\ At("zero")
  /\ \E ok \in Outcomes :
       /\ writeCluster(call.cluster, ZeroCells, ok)
       /\ fsInfo' = IF ok THEN Taken(call.cluster) ELSE fsInfo
       /\ call' = Goto(IF ok THEN "sync" ELSE "undo")
  /\ UNCHANGED <<fat, info, mounted, handles, leaked>>

AllocateUndo ==
  /\ At("undo")
  /\ \E ok \in Outcomes : writeFATEntry(call.cluster, FreeCluster, ok)
  /\ call' = Idle
  /\ UNCHANGED <<data, info, fsInfo, mounted, handles, leaked>>

(* syncFSInfo: nobody looks at whether it succeeded. *)
syncFSInfo ==
  /\ At("sync")
  /\ \E ok \in Outcomes : writeInfo(ok)
  /\ call' = Goto(call.next)
  /\ UNCHANGED <<fat, data, fsInfo, mounted, handles, leaked>>

(* Mutant: it frees the first cluster only. *)
freeClusterChainFirst ==
  /\ At("free")
  /\ \E ok \in Outcomes :
       /\ writeFATEntry(call.cluster, FreeCluster, ok)
       /\ fsInfo' = IF ok /\ fsInfo.freeClusterCount # Unknown
                    THEN [fsInfo EXCEPT !.freeClusterCount = @ + 1]
                    ELSE fsInfo
       /\ call' = GotoIf(ok, "sync")
  /\ UNCHANGED <<data, info, mounted, handles, leaked>>

(* freeClusterChain, from call.cluster on; it syncs at the end. *)
freeClusterChain ==
  /\ At("free")
  /\ \E ok \in Outcomes :
       /\ writeFATEntry(call.cluster, FreeCluster, ok)
       /\ fsInfo' = IF ok /\ fsInfo.freeClusterCount # Unknown
                    THEN [fsInfo EXCEPT !.freeClusterCount = @ + 1]
                    ELSE fsInfo
       /\ call' = IF ~ok THEN Idle
                  ELSE IF fat[call.cluster] \in Cluster
                  THEN [call EXCEPT !.cluster = fat[call.cluster]]
                  ELSE Goto("sync")
  /\ UNCHANGED <<data, info, mounted, handles, leaked>>

Freeing(c, first, next) ==
  IF first \in Cluster
  THEN [c EXCEPT !.at = "free", !.cluster = first, !.next = next]
  ELSE Jump(c, next)

Allocating(c, next) == [c EXCEPT !.at = "alloc", !.next = next]

-----------------------------------------------------------------------------
(* createDirectoryEntry *)

(* With its slot known, a directory needs a cluster before it is entered.   *)
WithSlot(c, slot) ==
  LET placed == [c EXCEPT !.slot = slot]
  IN  IF c.ent.dir THEN Allocating(placed, "dots")
      ELSE [placed EXCEPT !.at = "entry"]

(* Begins c: takes a slot of directory head, or extends the directory. *)
Creating(c, head) ==
  IF Reusable(head) # {} THEN WithSlot([c EXCEPT !.head = head], FirstReusable(head))
  ELSE Allocating([c EXCEPT !.head = head], "link")

CanCreate(head) == Reusable(head) # {} \/ EndMark(head) = EndOfChain

(* Mutant: the last cluster is linked to the start of its chain. *)
ExtendLinkBack ==
  /\ At("link")
  /\ \E ok \in Outcomes :
       /\ writeFATEntry(LastOf(call.head), call.head, ok)
       /\ call' = IF ~ok THEN Idle
                  ELSE IF call.op \in {"write", "truncate"} THEN Goto("locate")
                  ELSE WithSlot(call, <<call.cluster, 1>>)
  /\ UNCHANGED <<data, info, fsInfo, mounted, handles, leaked>>

(* extendClusterChain, once it has a cluster. *)
ExtendLink ==
  /\ At("link")
  /\ \E ok \in Outcomes :
       /\ writeFATEntry(LastOf(call.head), call.cluster, ok)
       /\ call' = IF ~ok THEN Idle
                  ELSE IF call.op \in {"write", "truncate"} THEN Goto("locate")
                  ELSE WithSlot(call, <<call.cluster, 1>>)
  /\ UNCHANGED <<data, info, fsInfo, mounted, handles, leaked>>

(* The cluster of a new directory; if that fails it is freed again. *)
CreateDots ==
  /\ At("dots")
  /\ \E ok \in Outcomes :
       /\ writeCluster(call.cluster, DotCells(call.cluster, call.head), ok)
       /\ call' = IF ok
                  THEN [call EXCEPT !.at = "entry", !.ent.firstCluster = call.cluster]
                  ELSE Freeing(call, call.cluster, "idle")
  /\ UNCHANGED <<fat, info, fsInfo, mounted, handles, leaked>>

(* Where a call goes on after the new entry is on disk. *)
Entered ==
  IF call.op = "rename" THEN "update"
  ELSE IF call.op # "open" THEN "idle"
  ELSE IF "Truncate" \in call.mode THEN "clear"
  ELSE "opened"

CreateEntry ==
  /\ At("entry")
  /\ \E ok \in Outcomes :
       /\ writeSlot(call.slot, call.ent, ok)
       /\ call' = IF ok THEN Goto(Entered)
                  ELSE IF call.ent.firstCluster \in Cluster
                  THEN Freeing(call, call.ent.firstCluster, "idle")
                  ELSE Idle
  /\ UNCHANGED <<fat, info, fsInfo, mounted, handles, leaked>>
-----------------------------------------------------------------------------
(* Open files *)

(* open with Truncate: the chain is free, now the entry says so. *)
OpenClear ==
  /\ At("clear")
  /\ \E ok \in Outcomes :
       /\ writeSlot(call.slot, Updated(call.slot, NoEntry), ok)
       /\ call' = GotoIf(ok, "opened")
  /\ UNCHANGED <<fat, info, fsInfo, mounted, handles, leaked>>

OpenHandle ==
  /\ At("opened")
  /\ LET ent == Cell(call.slot)
     IN  SetFile([open   |-> TRUE,
                  slot   |-> call.slot,
                  ent    |-> ent,
                  offset |-> IF "Append" \in call.mode THEN ent.size ELSE 0,
                  dirty  |-> FALSE])
  /\ call' = Idle
  /\ UNCHANGED <<fat, data, info, fsInfo, mounted, leaked, faults>>

(* getClusterForOffset, for the unit write comes to and for the last unit   *)
(* that truncate keeps.  A file without clusters gets its first one, a      *)
(* chain that is too short gets one cluster after the other.                *)
Wanted == IF call.op = "write" THEN File.offset ELSE call.n - 1

Located(c) ==
  IF call.op = "write" THEN [call EXCEPT !.at = "chunk", !.cluster = c]
  ELSE Freeing([call EXCEPT !.head = c], fat[c], "cut")

getClusterForOffset ==
  /\ At("locate")
  /\ LET first == File.ent.firstCluster
         c == Nth(first, Wanted \div ClusterSize)
     IN  call' = IF first = 0 THEN Allocating(call, "first")
                 ELSE IF c \in Cluster THEN Located(c)
                 ELSE IF c = EndOfChain
                 THEN Allocating([call EXCEPT !.head = first], "link")
                 ELSE Idle
  /\ UNCHANGED <<fat, data, info, fsInfo, mounted, handles, leaked, faults>>

(* Only write remembers that the entry has to be updated. *)
setFirstCluster ==
  /\ At("first")
  /\ SetFile([File EXCEPT !.ent.firstCluster = call.cluster,
                         !.dirty = (call.op = "write") \/ File.dirty])
  /\ call' = Goto("locate")
  /\ UNCHANGED <<fat, data, info, fsInfo, mounted, leaked, faults>>

(* Mutant: at the start of a cluster there seems to be no room. *)
ChunkAligned ==
  LET room == (ClusterSize - File.offset) % ClusterSize
  IN  IF room <= call.n THEN room ELSE call.n

(* One turn of the loop of write: up to the end of the cluster. *)
Chunk ==
  LET room == ClusterSize - (File.offset % ClusterSize)
  IN  IF room <= call.n THEN room ELSE call.n

Written ==
  LET from == File.offset % ClusterSize
  IN  [i \in 1 .. ClusterSize |->
         IF i - 1 \in from .. from + Chunk - 1
         THEN Unit(File.offset + (i - 1 - from))
         ELSE data[call.cluster][i]]

Grown(offset) == IF offset > File.ent.size THEN offset ELSE File.ent.size

WriteChunk ==
  /\ At("chunk")
  /\ \E ok \in Outcomes :
       /\ writeCluster(call.cluster, Written, ok)
       /\ IF ok
          THEN /\ SetFile([File EXCEPT !.offset = @ + Chunk, !.dirty = TRUE,
                                      !.ent.size = Grown(File.offset + Chunk)])
               /\ call' = IF Chunk = call.n THEN Idle
                          ELSE [call EXCEPT !.at = "locate", !.n = @ - Chunk]
          ELSE call' = Idle /\ UNCHANGED handles
  /\ UNCHANGED <<fat, info, fsInfo, mounted, leaked>>

(* Mutant: the last cluster still names the next one, which is free. *)
TruncateCutForgotten ==
  /\ At("cut")
  /\ SetFile([File EXCEPT !.ent.size = call.n, !.dirty = TRUE,
                         !.offset = IF @ > call.n THEN call.n ELSE @])
  /\ call' = Goto("flush")
  /\ UNCHANGED <<fat, data, info, fsInfo, mounted, leaked, faults>>

(* truncate: the clusters behind the last one are free, now it is the last. *)
TruncateCut ==
  /\ At("cut")
  /\ \E ok \in Outcomes :
       /\ writeFATEntry(call.head, EndOfChain, ok)
       /\ call' = GotoIf(ok, "flush")
       /\ IF ok
          THEN SetFile([File EXCEPT !.ent.size = call.n, !.dirty = TRUE,
                                    !.offset = IF @ > call.n THEN call.n ELSE @])
          ELSE UNCHANGED handles
  /\ UNCHANGED <<data, info, fsInfo, mounted, leaked>>

(* truncate to nothing. *)
TruncateAll ==
  /\ At("emptied")
  /\ SetFile([File EXCEPT !.ent.firstCluster = 0, !.ent.size = 0,
                         !.offset = 0, !.dirty = TRUE])
  /\ call' = Goto("flush")
  /\ UNCHANGED <<fat, data, info, fsInfo, mounted, leaked, faults>>

(* flush, also for truncate and close; close closes whatever comes of it.   *)
flush ==
  /\ At("flush")
  /\ \E ok \in Outcomes :
       /\ writeSlot(File.slot, Updated(File.slot, File.ent), ok)
       /\ SetFile(IF call.op = "close" THEN Closed
                  ELSE [File EXCEPT !.dirty = ~ok])
  /\ call' = Idle
  /\ UNCHANGED <<fat, info, fsInfo, mounted, leaked>>

-----------------------------------------------------------------------------
(* remove and rename *)

(* Marks the slot deleted.  remove then frees the chain; a rename that      *)
(* cannot delete the old entry takes the new one back.                      *)
EraseEntry ==
  /\ At("erase")
  /\ \E ok \in Outcomes :
       LET slot == IF call.op = "rename" THEN call.old ELSE call.slot
       IN  /\ writeSlot(slot, Deleted, ok)
           /\ call' = IF call.op = "rename" THEN Goto(IF ok THEN "idle" ELSE "rollback")
                      ELSE IF ok THEN Freeing(call, Cell(slot).firstCluster, "idle")
                      ELSE Idle
  /\ UNCHANGED <<fat, info, fsInfo, mounted, handles, leaked>>

(* rename within a directory. *)
RenameInPlace ==
  /\ At("rename")
  /\ \E ok \in Outcomes : writeSlot(call.slot, call.ent, ok)
  /\ call' = Idle
  /\ UNCHANGED <<fat, info, fsInfo, mounted, handles, leaked>>

(* rename into another directory: the new entry takes over the chain. *)
RenameUpdate ==
  /\ At("update")
  /\ \E ok \in Outcomes :
       /\ writeSlot(call.slot, Updated(call.slot, call.was), ok)
       /\ call' = GotoIf(ok, "erase")
  /\ UNCHANGED <<fat, info, fsInfo, mounted, handles, leaked>>

(* It gives it up again, and is removed as remove would: below a regular    *)
(* file remove does not find it.                                            *)
RenameRollback ==
  /\ At("rollback")
  /\ \E ok \in Outcomes :
       writeSlot(call.slot,
                 Updated(call.slot, [Cell(call.slot) EXCEPT !.firstCluster = 0]), ok)
  /\ call' = IF OfDirectory(call.head)
             THEN [call EXCEPT !.op = "remove", !.at = "erase"]
             ELSE Idle
  /\ UNCHANGED <<fat, info, fsInfo, mounted, handles, leaked>>
-----------------------------------------------------------------------------
(* The calls.  Clients open a file once at a time and neither remove nor    *)
(* rename one that is open; a directory stays in its directory.             *)

Client(op) == call = Idle /\ mounted /\ op \in Ops
IsOpen(h) == handles[h] # Closed
Unopened(slot) == \A h \in Handles : IsOpen(h) => handles[h].slot # slot

Begin(op) == [Idle EXCEPT !.op = op]

Create(op, path, dir) ==
  /\ Client(op)
  /\ findEntry(path) = Nowhere
  /\ CanCreate(parentOf(path))
  /\ call' = Creating([Begin(op) EXCEPT !.ent = Entry(basenameOf(path), dir, 0, 0)],
                      parentOf(path))
  /\ UNCHANGED <<fat, data, info, fsInfo, mounted, handles, leaked, faults>>

createFile(path) == Create("createFile", path, FALSE)
createDirectory(path) == Create("createDirectory", path, TRUE)

open(path, mode, h) ==
  LET slot == findEntry(path)
      c == [Begin("open") EXCEPT !.handle = h, !.mode = mode, !.slot = slot]
  IN  /\ Client("open")
      /\ ~IsOpen(h)
      /\ \/ /\ slot # Nowhere
            /\ Unopened(slot)
            /\ ~Cell(slot).dir
            /\ call' = IF "Truncate" \in mode
                       THEN Freeing(c, Cell(slot).firstCluster, "clear")
                       ELSE [c EXCEPT !.at = "opened"]
         \/ /\ slot = Nowhere
            /\ "Create" \in mode
            /\ CanCreate(parentOf(path))
            /\ call' = Creating([c EXCEPT !.ent = Entry(basenameOf(path), FALSE, 0, 0)],
                                parentOf(path))
      /\ UNCHANGED <<fat, data, info, fsInfo, mounted, handles, leaked, faults>>

remove(path) ==
  LET slot == findEntry(path)
  IN  /\ Client("remove")
      /\ slot # Nowhere
      /\ Unopened(slot)
      /\ Cell(slot).dir => IsEmpty(Cell(slot).firstCluster)
      /\ call' = [Begin("remove") EXCEPT !.at = "erase", !.slot = slot]
      /\ UNCHANGED <<fat, data, info, fsInfo, mounted, handles, leaked, faults>>

(* The new parent is a directory. *)
rename(path, to) ==
  LET slot == findEntry(path)
      ent == Cell(slot)
      c == Begin("rename")
      parent == parentOf(to)
  IN  /\ Client("rename")
      /\ slot # Nowhere
      /\ Unopened(slot)
      /\ findEntry(to) = Nowhere
      /\ \/ /\ parentOf(path) = parent
            /\ call' = [c EXCEPT !.at = "rename", !.slot = slot,
                                 !.ent = [ent EXCEPT !.name = basenameOf(to)]]
         \/ /\ parentOf(path) # parent
            /\ ~ent.dir
            /\ CanCreate(parent)
            /\ call' = Creating([c EXCEPT !.old = slot, !.was = ent,
                                    !.ent = Entry(basenameOf(to), ent.dir, 0, 0)],
                                parent)
      /\ UNCHANGED <<fat, data, info, fsInfo, mounted, handles, leaked, faults>>

(* Nothing asks whether it is one: below a regular file the new entry goes  *)
(* into the file's data, where a free slot seems to be or behind its end,   *)
(* and the old one is deleted.                                              *)
renameBelowFile(path, to) ==
  LET slot == findEntry(path)
      file == InDirectory(rootCluster, to[1])
      head == Cell(file).firstCluster
      c == Begin("rename")
      entering == [c EXCEPT !.old = slot, !.was = Cell(slot),
                            !.ent = Entry(basenameOf(to), FALSE, 0, 0)]
      inData == [entering EXCEPT !.head = head]
  IN  /\ Client("rename")
      /\ slot # Nowhere
      /\ Unopened(slot)
      /\ Len(to) = 2 /\ file # Nowhere /\ ~Cell(file).dir
      /\ \/ /\ parentOf(path) = head
            /\ call' = [c EXCEPT !.at = "rename", !.slot = slot,
                                 !.ent = [Cell(slot) EXCEPT !.name = basenameOf(to)]]
         \/ /\ parentOf(path) # head
            /\ ~Cell(slot).dir
            /\ \/ \E p \in MayLookFree(head) :
                    call' = WithSlot(inData, SlotAt(head, p))
               \/ /\ Reusable(head) = {}
                  /\ EndMark(head) = EndOfChain
                  /\ call' = Allocating(inData, "link")
      /\ UNCHANGED <<fat, data, info, fsInfo, mounted, handles, leaked, faults>>

BeginFile(op, h, n) == [Begin(op) EXCEPT !.handle = h, !.n = n]

write(h, n) ==
  /\ Client("write")
  /\ IsOpen(h)
  /\ handles[h].offset + n <= MaxLength
  /\ call' = [BeginFile("write", h, n) EXCEPT !.at = "locate"]
  /\ UNCHANGED <<fat, data, info, fsInfo, mounted, handles, leaked, faults>>

truncate(h, n) ==
  /\ Client("truncate")
  /\ IsOpen(h)
  /\ LET c == BeginFile("truncate", h, n)
     IN  call' = IF n = 0 THEN Freeing(c, handles[h].ent.firstCluster, "emptied")
                 ELSE [c EXCEPT !.at = "locate"]
  /\ UNCHANGED <<fat, data, info, fsInfo, mounted, handles, leaked, faults>>

seek(h, offset) ==
  /\ Client("seek")
  /\ IsOpen(h)
  /\ handles' = [handles EXCEPT ![h].offset = offset]
  /\ UNCHANGED <<fat, data, info, fsInfo, mounted, call, leaked, faults>>

(* The units read gets: up to the end of the file, or of a broken chain. *)
Got(f, n) ==
  {k \in 0 .. n : \A j \in f.offset .. f.offset + k - 1 :
     j < f.ent.size /\ Nth(f.ent.firstCluster, j \div ClusterSize) \in Cluster}

read(h, n) ==
  /\ Client("read")
  /\ IsOpen(h)
  /\ \E k \in Got(handles[h], n) :
       /\ \A j \in Got(handles[h], n) : j <= k
       /\ handles' = [handles EXCEPT ![h].offset = @ + k]
  /\ UNCHANGED <<fat, data, info, fsInfo, mounted, call, leaked, faults>>

Flush(h) ==
  /\ Client("flush")
  /\ IsOpen(h)
  /\ handles[h].dirty
  /\ call' = [BeginFile("flush", h, 0) EXCEPT !.at = "flush"]
  /\ UNCHANGED <<fat, data, info, fsInfo, mounted, handles, leaked, faults>>

(* The entry on disk knows the chain of the open file. *)
Recorded(h) ==
  LET cell == Cell(handles[h].slot)
  IN  cell.kind = "entry" /\ cell.firstCluster = handles[h].ent.firstCluster

(* A handle that is not dirty is closed without a write, even when its      *)
(* truncate ran out of space after it took a first cluster.                 *)
close(h) ==
  /\ Client("close")
  /\ IsOpen(h)
  /\ \/ /\ handles[h].dirty
        /\ call' = [BeginFile("close", h, 0) EXCEPT !.at = "flush"]
        /\ UNCHANGED <<handles, leaked>>
     \/ /\ ~handles[h].dirty
        /\ handles' = [handles EXCEPT ![h] = Closed]
        /\ leaked' = leaked \cup
             IF Recorded(h) THEN {} ELSE Chain(handles[h].ent.firstCluster)
        /\ UNCHANGED call
  /\ UNCHANGED <<fat, data, info, fsInfo, mounted, faults>>

(* mount reads FSInfo; it makes do without if it cannot. *)
mount ==
  /\ ~mounted
  /\ \E ok \in Outcomes : Count(ok) /\ fsInfo' = IF ok THEN info ELSE NoInfo
  /\ mounted' = TRUE
  /\ UNCHANGED <<fat, data, info, handles, call, leaked>>

unmount ==
  /\ Client("unmount")
  /\ \A h \in Handles : ~IsOpen(h)
  /\ \E ok \in Outcomes : writeInfo(ok)
  /\ mounted' = FALSE
  /\ UNCHANGED <<fat, data, fsInfo, handles, call, leaked>>

(* The power goes, at any point of any call. *)
PowerLoss ==
  /\ mounted
  /\ faults < MaxFaults
  /\ Count(FALSE)
  /\ mounted' = FALSE
  /\ handles' = [h \in Handles |-> Closed]
  /\ call' = Idle
  /\ UNCHANGED <<fat, data, info, fsInfo, leaked>>

Step ==
  \/ AllocateClaim \/ zeroCluster \/ AllocateUndo \/ syncFSInfo
  \/ freeClusterChain \/ ExtendLink \/ CreateDots \/ CreateEntry
  \/ OpenClear \/ OpenHandle \/ getClusterForOffset \/ setFirstCluster
  \/ WriteChunk \/ TruncateCut \/ TruncateAll \/ flush
  \/ EraseEntry \/ RenameInPlace \/ RenameUpdate \/ RenameRollback

(* All of them, but for renaming below a regular file. *)
CarefulNext ==
  \/ Step
  \/ \E p \in FilePaths : createFile(p)
  \/ \E p \in DirPaths : createDirectory(p)
  \/ \E p \in FilePaths, m \in SUBSET Modes, h \in Handles :
       open(p, m, h)
  \/ \E p \in FilePaths \cup DirPaths : remove(p)
  \/ \E p, q \in FilePaths : rename(p, q)
  \/ \E p, q \in DirPaths : rename(p, q)
  \/ \E h \in Handles, n \in Marks \ {0} : write(h, n) \/ read(h, n)
  \/ \E h \in Handles, n \in Marks : truncate(h, n) \/ seek(h, n)
  \/ \E h \in Handles : Flush(h) \/ close(h)
  \/ mount
  \/ unmount
  \/ PowerLoss

Next ==
  \/ CarefulNext
  \/ \E p, q \in FilePaths : renameBelowFile(p, q)

Spec == Init /\ [][Next]_vars

(* The clients look where they rename to. *)
CarefulSpec == Init /\ [][CarefulNext]_vars

(* The kernel executes a call it has begun to its end. *)
FairSpec == Spec /\ WF_vars(Step)

-----------------------------------------------------------------------------
(* Properties *)

Label == {"idle", "alloc", "zero", "undo", "sync", "free", "link", "dots",
          "entry", "clear", "opened", "locate", "first", "chunk", "cut",
          "emptied", "flush", "erase", "rename", "update", "rollback"}

(* The table holds clusters of the volume and marks, the counters are in    *)
(* range, and no file grows past MaxLength.                                 *)
TypeOK ==
  /\ fat \in [Cluster -> Cluster \cup {FreeCluster, EndOfChain}]
  /\ \A c \in Cluster : DOMAIN data[c] = 1 .. ClusterSize
  /\ \A i \in {info, fsInfo} :
       /\ i.freeClusterCount \in {Unknown} \cup Nat
       /\ i.nextFreeCluster \in Cluster
  /\ mounted \in BOOLEAN
  /\ call.at \in Label
  /\ \A h \in Handles : IsOpen(h) =>
       /\ handles[h].slot \in Cluster \X (1 .. ClusterSize)
       /\ handles[h].offset \in 0 .. MaxLength
       /\ handles[h].ent.size \in 0 .. MaxLength
  /\ leaked \subseteq Cluster
  /\ faults \in 0 .. MaxFaults

(* The entries that can be reached from the root, by their slots. *)
Visible(head) ==
  {s \in readDirectory(head) :
     Cell(s).kind = "entry" /\ Cell(s).name \notin {".", ".."}}

Entries ==
  Visible(rootCluster) \cup
    UNION {Visible(Cell(s).firstCluster) :
             s \in {s \in Visible(rootCluster) : Cell(s).dir}}

(* What is known of a file: its entry on disk and its open handle's copy.   *)
Views(slot) ==
  {Cell(slot)} \cup {handles[h].ent : h \in {h \in Handles :
                                       IsOpen(h) /\ handles[h].slot = slot}}

Heads(slot) ==
  IF slot = Nowhere THEN {rootCluster}
  ELSE {v.firstCluster : v \in Views(slot)} \ {0}

Owned(slot) == UNION {Chain(c) : c \in Heads(slot)}

(* No two files or directories share a cluster, every chain ends properly,  *)
(* and no file is longer than its chain.                                    *)
Sound ==
  LET slots == Entries \cup {Nowhere}
  IN  /\ \A s, t \in slots : s # t => Owned(s) \cap Owned(t) = {}
      /\ \A s \in slots : Cardinality(Heads(s)) <= 1
      /\ \A s \in slots : \A c \in Heads(s) : EndMark(c) = EndOfChain
      /\ \A s \in Entries : \A v \in Views(s) :
           v.size <= ClusterSize * Cardinality(Chain(v.firstCluster))

(* Every unit of a file is one that was written for its offset, or was      *)
(* never written: no unit of another file or place shows up, neither in a   *)
(* file nor as an entry of a directory.                                     *)
InPlace ==
  /\ \A s \in Entries : \A v \in Views(s) : \A k \in 0 .. v.size - 1 :
       Cell(<<Nth(v.firstCluster, k \div ClusterSize), (k % ClusterSize) + 1>>)
         \in {Unit(k), Zero}
  /\ \A head \in {rootCluster} \cup
                   {Cell(s).firstCluster : s \in {s \in Entries : Cell(s).dir}} :
       \A s \in readDirectory(head) : Cell(s).kind \in {"entry", "deleted"}

(* Between calls on a disk that works, the volume is sound: for every mix   *)
(* of creating, writing, truncating, removing and renaming, as long as      *)
(* nothing is renamed below a regular file.  At all times the table holds   *)
(* clusters and marks and the counters are in range.                        *)
SoundAtRest == TypeOK /\ (call = Idle => Sound /\ InPlace)

(* Between calls every cluster is free, in the chain of a file or directory,*)
(* or was left behind by a truncate without space; and FSInfo counts the    *)
(* free ones.  Again nothing is renamed below a regular file.               *)
ClustersAccounted ==
  call = Idle =>
    /\ {c \in Cluster : fat[c] # FreeCluster} =
         leaked \cup UNION {Owned(s) : s \in Entries \cup {Nowhere}}
    /\ mounted => fsInfo.freeClusterCount \in
         {Unknown, Cardinality({c \in Cluster : fat[c] = FreeCluster})}

(* A path below a regular file is no path: createFile, createDirectory and  *)
(* rename have the error NotDirectory for it.  Directory entries are        *)
(* written into directories, files keep their data.                         *)
DataIsKept == call = Idle => InPlace

(* Creating, writing and removing files keep the volume sound at every      *)
(* write, whichever write fails and wherever the power goes: clusters are   *)
(* lost at worst.                                                           *)
CrashSafe == Sound /\ InPlace

(* Whatever fails, no chain becomes a loop, on which the loops over chains  *)
(* would never end.                                                         *)
NoLoops == \A c \in Cluster : EndMark(c) \notin Cluster

(* Every call returns, on a damaged volume too. *)
CallsReturn == call # Idle ~> call = Idle
=============================================================================
