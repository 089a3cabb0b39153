---------------------------- MODULE FatDirectory ----------------------------
(***************************************************************************)
(* One directory of fs/fat32.cpp, slot by slot.  Other systems have put    *)
(* files with long names into it: the parts of a long name lie in slots of *)
(* their own directly before the entry, the last part first.  This driver  *)
(* reads them, deletes them with their file, and writes short names only.  *)
(*                                                                         *)
(* What a slot holds of a file besides its name is Fat32's, and so are     *)
(* failures: here every write succeeds.                                    *)
(***************************************************************************)
EXTENDS Integers, Sequences, SequencesExt

CONSTANTS
  DirSlots,      (* slots of a cluster                                      *)
  DirClusters,   (* bound: clusters the directory can have                  *)
  ShortNames,    (* names that makeShortName takes                          *)
  LongNames,     (* names it refuses                                        *)
  LongParts,     (* long name -> slots for it                               *)
  Directories    (* what other systems have left: names, "volume" for a     *)
                 (* volume label and "gap" for a slot deleted since         *)

ASSUME DirectoryAssumption ==
  /\ DirSlots \in Nat \ {0} /\ DirClusters \in Nat \ {0}
  /\ LongParts \in [LongNames -> Nat \ {0}]
  /\ ShortNames \cap LongNames = {}

VARIABLES
  slots,         (* the slots of the directory, cluster after cluster       *)
  files,         (* ghost: slot of an entry -> the name it was given        *)
  orphans        (* ghost: parts of names that outlived their file, as they *)
                 (* were in an earlier cluster than its entry               *)

dirVars == <<slots, files, orphans>>

ZeroSlot == [kind |-> "zero"]
Entry(n) == [kind |-> "entry", name |-> n]
Part(n, k) == [kind |-> "long", name |-> n, part |-> k]

(* A deleted slot keeps its attributes. *)
DeletedSlot(s) == [kind |-> "deleted", long |-> s.kind = "long" \/ (s.kind = "deleted" /\ s.long)]

IsLong(s) == s.kind = "long" \/ (s.kind = "deleted" /\ s.long)
IsFree(s) == s.kind \in {"zero", "deleted"}

ClusterOf(i) == (i - 1) \div DirSlots

-----------------------------------------------------------------------------
(* Names as they are read: sequences of parts *)

NameOf(n) ==
  IF n \in LongNames THEN [k \in 1 .. LongParts[n] |-> <<n, k>>] ELSE <<<<n, 0>>>>

(* Mutant: a deleted slot does not end a long name. *)
ReadSlotKeeping(acc, i) ==
  LET s == slots[i]
  IN  IF acc.ended \/ s.kind = "zero" THEN [acc EXCEPT !.ended = TRUE]
      ELSE IF s.kind = "long" THEN [acc EXCEPT !.lfn = <<<<s.name, s.part>>>> \o @]
      ELSE IF s.kind = "entry"
      THEN [acc EXCEPT !.lfn = <<>>, !.entries = Append(@,
              [slot |-> i, name |-> IF acc.lfn = <<>> THEN NameOf(s.name) ELSE acc.lfn])]
      ELSE acc

ReadSlot(acc, i) ==
  LET s == slots[i]
  IN  IF acc.ended \/ s.kind = "zero" THEN [acc EXCEPT !.ended = TRUE]
      ELSE IF s.kind = "long" THEN [acc EXCEPT !.lfn = <<<<s.name, s.part>>>> \o @]
      ELSE IF s.kind = "entry"
      THEN [acc EXCEPT !.lfn = <<>>, !.entries = Append(@,
              [slot |-> i, name |-> IF acc.lfn = <<>> THEN NameOf(s.name) ELSE acc.lfn])]
      ELSE [acc EXCEPT !.lfn = <<>>]

readDirectory ==
  FoldLeft(ReadSlot, [entries |-> <<>>, lfn |-> <<>>, ended |-> FALSE],
           [i \in DOMAIN slots |-> i]).entries

(* The slot of the first entry of that name, or 0. *)
findEntry(name) ==
  LET listed == readDirectory
      at == {i \in DOMAIN listed : listed[i].name = name}
  IN  IF at = {} THEN 0 ELSE listed[CHOOSE i \in at : \A j \in at : i <= j].slot

-----------------------------------------------------------------------------

(* The slots that other systems write for these files. *)
SlotsOf(n) ==
  IF n = "volume" THEN <<[kind |-> "volume"]>>
  ELSE IF n = "gap" THEN <<DeletedSlot(ZeroSlot)>>
  ELSE IF n \in LongNames
  THEN [i \in 1 .. LongParts[n] |-> Part(n, LongParts[n] + 1 - i)] \o <<Entry(n)>>
  ELSE <<Entry(n)>>

DirInit ==
  \E names \in Directories :
    LET used == FlattenSeq([i \in DOMAIN names |-> SlotsOf(names[i])])
        clusters == ClusterOf(Len(used)) + 1
    IN  /\ slots = [i \in 1 .. clusters * DirSlots |->
                      IF i <= Len(used) THEN used[i] ELSE ZeroSlot]
        /\ files = [i \in {i \in DOMAIN used : used[i].kind = "entry"} |-> used[i].name]
        /\ orphans = {}

(* findFreeDirectoryEntry: the directory grows when it has none. *)
Grown ==
  IF \E i \in DOMAIN slots : IsFree(slots[i]) THEN slots
  ELSE slots \o [i \in 1 .. DirSlots |-> ZeroSlot]

FreeSlot(all) ==
  CHOOSE i \in DOMAIN all : IsFree(all[i]) /\ \A j \in 1 .. i - 1 : ~IsFree(all[j])

(* createFile, createDirectory, and rename to another directory. *)
createEntry(n) ==
  /\ findEntry(NameOf(n)) = 0
  /\ n \in ShortNames
  /\ Len(Grown) <= DirSlots * DirClusters
  /\ LET i == FreeSlot(Grown)
     IN  /\ slots' = [Grown EXCEPT ![i] = Entry(n)]
         /\ files' = [j \in DOMAIN files \cup {i} |-> IF j = i THEN n ELSE files[j]]
         /\ orphans' = orphans \ {i}

(* Mutant: the long name is left. *)
markEntryOnly(i) == [slots EXCEPT ![i] = DeletedSlot(@)]

(* markEntryAndLongNameDeleted, which has one cluster in memory: the slots  *)
(* before i in it, as long as their attributes are those of a long name.    *)
markEntryAndLongNameDeleted(i) ==
  [j \in DOMAIN slots |->
     IF \/ j = i
        \/ /\ j < i /\ ClusterOf(j) = ClusterOf(i)
           /\ \A k \in j .. i - 1 : IsLong(slots[k])
     THEN DeletedSlot(slots[j]) ELSE slots[j]]

(* The parts of the name in earlier clusters. *)
Before(i) ==
  {j \in 1 .. i - 1 : ClusterOf(j) # ClusterOf(i)
                        /\ \A k \in j .. i - 1 : slots[k].kind = "long"}

(* remove, and the old name of a rename to another directory. *)
removeEntry(name) ==
  LET i == findEntry(name)
  IN  /\ i # 0
      /\ slots' = markEntryAndLongNameDeleted(i)
      /\ files' = [j \in DOMAIN files \ {i} |-> files[j]]
      /\ orphans' = orphans \cup Before(i)

(* rename within the directory. *)
renameEntry(name, n) ==
  LET i == findEntry(name)
  IN  /\ i # 0
      /\ findEntry(NameOf(n)) = 0
      /\ n \in ShortNames
      /\ slots' = [markEntryAndLongNameDeleted(i) EXCEPT ![i] = Entry(n)]
      /\ files' = [files EXCEPT ![i] = n]
      /\ orphans' = orphans \cup Before(i)

DirNext ==
  \/ \E n \in ShortNames \cup LongNames : createEntry(n)
  \/ \E e \in ToSet(readDirectory) :
       \/ removeEntry(e.name)
       \/ \E n \in ShortNames \cup LongNames : renameEntry(e.name, n)

DirSpec == DirInit /\ [][DirNext]_dirVars

-----------------------------------------------------------------------------
(* Properties *)

(* A listing has every file once, by the name that it was given, whatever   *)
(* was created, removed and renamed between long names; no two files have   *)
(* one name.  The exception is a file in the first slot of a cluster that   *)
(* held, and lost, one whose long name began in the cluster before: that    *)
(* name is still there, and the new file, or the same under its new name,   *)
(* is listed by it.                                                         *)
ListingNamesFiles ==
  LET listed == readDirectory
  IN  /\ {listed[i].slot : i \in DOMAIN listed} = DOMAIN files
      /\ Len(listed) = Cardinality(DOMAIN files)
      /\ \A i \in DOMAIN listed :
           listed[i].slot - 1 \in orphans \/ listed[i].name = NameOf(files[listed[i].slot])
      /\ orphans = {} =>
           \A i, j \in DOMAIN listed : listed[i].name = listed[j].name => i = j
=============================================================================
