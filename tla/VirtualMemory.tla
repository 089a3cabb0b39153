---------------------------- MODULE VirtualMemory ----------------------------
(***************************************************************************)
(* Page tables and the windows onto device memory: kernel/core/memory/     *)
(* vmm.cpp and kernel/drivers/mmio.cpp.                                    *)
(*                                                                         *)
(* A page table is a frame of RAM; tables maps the physical address of     *)
(* each table in the kernel's tree to its entries.  An entry is the        *)
(* physical address it points to, or NONE; the flag bits other than        *)
(* "present" are left out.  The boot loader's own mappings lie in other    *)
(* slots of the root table and are left out too.                           *)
(*                                                                         *)
(* A walk down the tree is one action per level (getNextTable), because    *)
(* each level may need a frame.  call is the walk in progress: for the     *)
(* page number i of the pages that mapRange or ~Interface goes through.    *)
(* As no one here asks the page allocator for a run of pages, all frames   *)
(* below its hint are in use, and allocPage finds the lowest free one.     *)
(***************************************************************************)
EXTENDS Integers, FiniteSets

CONSTANTS
  PAGE_SIZE,
  PAGE_ENTRIES,  (* entries in a table                                      *)
  Frames,        (* physical addresses of the frames of RAM                 *)
  Root,          (* the frame of the kernel's top-level table               *)
  MmioStart,     (* 0xFFFF900000000000, where the device windows begin      *)
  HeapStart,     (* 0xFFFFA00000000000, where the heap begins               *)
  HeapPages,     (* virtual pages the heap maps                             *)
  Devices        (* device memory: records [physical, size]                 *)

NONE == -1
Levels == 4
VirtualSize == PAGE_SIZE * PAGE_ENTRIES * PAGE_ENTRIES * PAGE_ENTRIES * PAGE_ENTRIES

ASSUME GeometryAssumption ==
  /\ PAGE_SIZE \in Nat \ {0}
  /\ PAGE_ENTRIES \in Nat \ {0}
ASSUME FrameAssumption ==
  /\ IsFiniteSet(Frames)
  /\ \A f \in Frames : f \in Nat /\ f % PAGE_SIZE = 0
  /\ Root \in Frames

alignUp(x, a) == ((x + a - 1) \div a) * a
alignDown(x, a) == (x \div a) * a

(* The areas as the kernel lays them out (addresses without the bits that   *)
(* no table is indexed by).  RAM may lie on both sides of device memory,    *)
(* but the pages around a device are no RAM.                                *)
ASSUME AreaAssumption ==
  /\ MmioStart \in Nat /\ MmioStart % PAGE_SIZE = 0
  /\ HeapStart \in Nat /\ HeapStart % PAGE_SIZE = 0
  /\ MmioStart <= HeapStart /\ HeapStart <= VirtualSize
  /\ \A v \in HeapPages : v \in HeapStart .. VirtualSize - 1 /\ v % PAGE_SIZE = 0
ASSUME DeviceAssumption ==
  \A d \in Devices :
    /\ d.physical \in Nat /\ d.size \in Nat \ {0}
    /\ \A f \in Frames : f < alignDown(d.physical, PAGE_SIZE) \/ d.physical + d.size <= f

VARIABLES
  tables,        (* table address -> [level, ent]; level is a ghost         *)
  free,          (* free frames of the page allocator                       *)
  held,          (* ghost: frames the heap has, mapped or about to be       *)
  nextMMIOVirt,
  windows,       (* the mmio::Interface objects that are valid              *)
  call           (* the call in progress                                    *)

vars == <<tables, free, held, nextMMIOVirt, windows, call>>

(* PML4_INDEX, PDPT_INDEX, PD_INDEX and PT_INDEX. *)
Index(virt, level) ==
  LET page == virt \div PAGE_SIZE
  IN  IF level = 4 THEN page % PAGE_ENTRIES
      ELSE IF level = 3 THEN (page \div PAGE_ENTRIES) % PAGE_ENTRIES
      ELSE IF level = 2
      THEN (page \div (PAGE_ENTRIES * PAGE_ENTRIES)) % PAGE_ENTRIES
      ELSE (page \div (PAGE_ENTRIES * PAGE_ENTRIES * PAGE_ENTRIES)) % PAGE_ENTRIES

(* pmm::allocPage returns f. *)
allocPage(f) == f \in free /\ \A g \in free : f <= g

EmptyTable == [i \in 0 .. PAGE_ENTRIES - 1 |-> NONE]

NoDevice == [physical |-> 0, size |-> 0]

Idle == [op |-> "idle", client |-> "none", virt |-> 0, phys |-> 0, pages |-> 0,
         i |-> 0, table |-> Root, level |-> 1, dev |-> NoDevice]

Begin(op, client, virt, phys, pages, dev) ==
  [op |-> op, client |-> client, virt |-> virt, phys |-> phys, pages |-> pages,
   i |-> 0, table |-> Root, level |-> 1, dev |-> dev]

Panic == [Idle EXCEPT !.op = "panic"]

Init ==
  /\ tables = [t \in {Root} |-> [level |-> 1, ent |-> EmptyTable]]
  /\ free = Frames \ {Root}
  /\ held = {}
  /\ nextMMIOVirt = MmioStart
  /\ windows = {}
  /\ call = Idle

-----------------------------------------------------------------------------
(* The walk *)

(* The addresses of the page the walk is for. *)
Virt == call.virt + call.i * PAGE_SIZE
Phys == call.phys + call.i * PAGE_SIZE

Walking == call.op \in {"map", "unmap"}

(* The entry the walk stands at: a table above the last level, a page there.*)
Slot == Index(Virt, call.level)
Entry == tables[call.table].ent[Slot]
AtPte == call.level = Levels

SetEntry(value) == [tables EXCEPT ![call.table].ent[Slot] = value]

(* getNextTable, entry present: go down. *)
Descend ==
  /\ Walking
  /\ ~AtPte
  /\ Entry # NONE
  /\ call' = [call EXCEPT !.table = Entry, !.level = call.level + 1]
  /\ UNCHANGED <<tables, free, held, nextMMIOVirt, windows>>

(* getNextTable with create: a new table, zeroed, is linked in.  Without a  *)
(* frame newTable fails its ASSERT.                                         *)
LinkedToDirty(f) ==
  LET linked == SetEntry(f)
  IN  [t \in DOMAIN tables \cup {f} |->
         IF t = f
         THEN [level |-> call.level + 1, ent |-> tables[call.table].ent]
         ELSE linked[t]]

LinkedTo(f) ==
  LET linked == SetEntry(f)
  IN  [t \in DOMAIN tables \cup {f} |->
         IF t = f THEN [level |-> call.level + 1, ent |-> EmptyTable]
         ELSE linked[t]]

newTable ==
  /\ call.op = "map"
  /\ ~AtPte
  /\ Entry = NONE
  /\ \/ \E f \in free :
          /\ allocPage(f)
          /\ tables' = LinkedTo(f)
          /\ free' = free \ {f}
          /\ call' = [call EXCEPT !.table = f, !.level = call.level + 1]
     \/ /\ free = {}
        /\ call' = Panic
        /\ UNCHANGED <<tables, free>>
  /\ UNCHANGED <<held, nextMMIOVirt, windows>>

(* The loop of mapRange, or of ~Interface, goes on to the next page. *)
NextPage == [call EXCEPT !.i = call.i + 1, !.table = Root, !.level = 1]

LastPage == call.i + 1 = call.pages

(* The window the constructor returns; dev is a ghost. *)
Window == [base        |-> call.virt + (call.dev.physical - call.phys),
           mappingBase |-> call.virt,
           mappedSize  |-> call.pages * PAGE_SIZE,
           dev         |-> call.dev]

(* mapPage writes the entry.  After the last page the caller has what it    *)
(* asked for.                                                               *)
Returns ==
  IF LastPage
  THEN /\ call' = Idle
       /\ windows' = IF call.client = "mmio" THEN windows \cup {Window} ELSE windows
  ELSE call' = NextPage /\ UNCHANGED windows

(* The test *pte & PTE_PRESENT. *)
PresentIgnored == FALSE
Present == Entry # NONE

mapPage ==
  /\ call.op = "map"
  /\ AtPte
  /\ ~Present
  /\ tables' = SetEntry(Phys)
  /\ Returns
  /\ UNCHANGED <<free, held, nextMMIOVirt>>

(* freePage(phys), when the heap could not map its frame. *)
GiveBackForgotten == held' = held \ {call.phys} /\ UNCHANGED free
GiveBack == held' = held \ {call.phys} /\ free' = free \cup {call.phys}

(* The page is mapped already: mapPage returns false.  The heap returns its *)
(* frame; the constructor of Interface leaves the pages before this one     *)
(* mapped and its object invalid.                                           *)
mapPageFails ==
  /\ call.op = "map"
  /\ AtPte
  /\ Present
  /\ IF call.client = "heap" THEN GiveBack ELSE UNCHANGED <<free, held>>
  /\ call' = Idle
  /\ UNCHANGED <<tables, nextMMIOVirt, windows>>

(* unmapPage clears the entry, or finds nothing to clear; tables are never  *)
(* given back.                                                              *)
unmapPage ==
  /\ call.op = "unmap"
  /\ \/ AtPte /\ Present /\ tables' = SetEntry(NONE)
     \/ Entry = NONE /\ UNCHANGED tables
  /\ call' = IF LastPage THEN Idle ELSE NextPage
  /\ UNCHANGED <<free, held, nextMMIOVirt, windows>>

-----------------------------------------------------------------------------
(* The callers *)

(* A page of the heap: heap.cpp takes a frame, if there is one, and maps it.*)
MapHeapPage(virt) ==
  /\ call = Idle
  /\ \/ \E f \in free :
          /\ allocPage(f)
          /\ free' = free \ {f}
          /\ held' = held \cup {f}
          /\ call' = Begin("map", "heap", virt, f, 1, NoDevice)
     \/ free = {} /\ UNCHANGED <<free, held, call>>
  /\ UNCHANGED <<tables, nextMMIOVirt, windows>>

(* The bytes a window takes up: whole pages around [physical, +size).       *)
MappedSizeUnrounded(d) ==
  d.size + (d.physical - alignDown(d.physical, PAGE_SIZE))
MappedSizeShort(d) == alignUp(d.size, PAGE_SIZE)
MappedSize(d) ==
  alignUp(d.size + (d.physical - alignDown(d.physical, PAGE_SIZE)), PAGE_SIZE)

(* Address space is handed out upwards and never again, at last the heap's: *)
(* nothing looks where the heap begins.                                     *)
AdvanceTooLittle(d) == nextMMIOVirt' = nextMMIOVirt + MappedSize(d) - PAGE_SIZE
Advance(d) == nextMMIOVirt' = nextMMIOVirt + MappedSize(d)

(* The constructor of mmio::Interface, up to its call of mapRange.  Bound:  *)
(* the address space does not wrap around.                                  *)
Interface(d) ==
  /\ call = Idle
  /\ nextMMIOVirt + MappedSize(d) <= VirtualSize
  /\ Advance(d)
  /\ call' = Begin("map", "mmio", nextMMIOVirt,
                   alignDown(d.physical, PAGE_SIZE),
                   MappedSize(d) \div PAGE_SIZE, d)
  /\ UNCHANGED <<tables, free, held, windows>>

(* The destructor of a valid one. *)
DeleteInterface(w) ==
  /\ call = Idle
  /\ windows' = windows \ {w}
  /\ call' = Begin("unmap", "mmio", w.mappingBase, 0,
                   w.mappedSize \div PAGE_SIZE, NoDevice)
  /\ UNCHANGED <<tables, free, held, nextMMIOVirt>>

(* kernelPanic never returns. *)
Halted == call.op = "panic" /\ UNCHANGED vars

Walk == Descend \/ newTable \/ mapPage \/ mapPageFails \/ unmapPage

Next ==
  \/ Walk
  \/ \E v \in HeapPages : MapHeapPage(v)
  \/ \E d \in Devices : Interface(d)
  \/ \E w \in windows : DeleteInterface(w)
  \/ Halted

Spec == Init /\ [][Next]_vars
-----------------------------------------------------------------------------
(* Properties *)

Pointer == Nat \cup {NONE}

(* Tables are arrays of PAGE_ENTRIES pointers, and every address that the   *)
(* callers pass to mapPage and unmapPage is page aligned, so that their     *)
(* alignment checks never refuse.                                           *)
TypeOK ==
  /\ DOMAIN tables \subseteq Frames
  /\ \A t \in DOMAIN tables :
       /\ tables[t].level \in 1 .. Levels
       /\ tables[t].ent \in [0 .. PAGE_ENTRIES - 1 -> Pointer]
  /\ free \subseteq Frames
  /\ held \subseteq Frames
  /\ nextMMIOVirt \in Nat /\ nextMMIOVirt % PAGE_SIZE = 0
  /\ call.op \in {"idle", "map", "unmap", "panic"}
  /\ Virt % PAGE_SIZE = 0 /\ Phys % PAGE_SIZE = 0
  /\ call.table \in DOMAIN tables
  /\ call.level = tables[call.table].level

(* The tables form a tree below the root: every entry above the last level  *)
(* points to a table of the next level, no table has two parents, none is   *)
(* lost, and no last-level entry maps a page table as data.                 *)
Inner == {t \in DOMAIN tables : tables[t].level < Levels}
Links == {l \in Inner \X (0 .. PAGE_ENTRIES - 1) : tables[l[1]].ent[l[2]] # NONE}
Target(l) == tables[l[1]].ent[l[2]]

TableTree ==
  /\ TypeOK
  /\ {Target(l) : l \in Links} = DOMAIN tables \ {Root}
  /\ \A l \in Links : tables[Target(l)].level = tables[l[1]].level + 1
  /\ \A l, m \in Links : Target(l) = Target(m) => l = m
  /\ \A t \in DOMAIN tables \ Inner : \A i \in 0 .. PAGE_ENTRIES - 1 :
       tables[t].ent[i] \notin DOMAIN tables

(* Every frame is free, or a page table, or the heap's, and only one of     *)
(* these, also after a mapPage that failed half way.                        *)
FramesAccounted ==
  /\ free \cup held \cup DOMAIN tables = Frames
  /\ free \cap held = {}
  /\ (free \cup held) \cap DOMAIN tables = {}

(* getNextTable without create. *)
NextTable(t, index) == IF t = NONE THEN NONE ELSE tables[t].ent[index]

(* getPte without create, and what the entry it leads to points to. *)
Translation(virt) ==
  LET pdpt == NextTable(Root, Index(virt, 1))
      pd == NextTable(pdpt, Index(virt, 2))
      pt == NextTable(pd, Index(virt, 3))
  IN  NextTable(pt, Index(virt, 4))

virtToPhysical(virt) ==
  IF Translation(virt) = NONE THEN 0 ELSE Translation(virt) + (virt % PAGE_SIZE)

(* As long as the windows have not grown into the heap's area, the          *)
(* constructor of Interface never finds a page in use, so its failure path  *)
(* is not taken: mapRange can only panic.                                   *)
WindowsAreFresh ==
  call.client = "mmio" /\ call.op = "map" /\ Virt < HeapStart =>
    Translation(Virt) = NONE

(* Through a valid window the driver reaches every byte of its device, the  *)
(* ones past a page boundary and of an unaligned device too, whatever other *)
(* windows were created, destroyed or failed in the heap's area; and a new  *)
(* window below the heap is at fresh pages.                                 *)
WindowsReachDevices ==
  /\ \A w \in windows : \A k \in 0 .. w.dev.size - 1 :
       virtToPhysical(w.base + k) = w.dev.physical + k
  /\ WindowsAreFresh

(* The tables implement a flat map: the walk finds for each page what was   *)
(* last mapped there, and creating tables, mapping and unmapping one page   *)
(* affects no other.                                                        *)
Pages == {v \in 0 .. VirtualSize - 1 : v % PAGE_SIZE = 0}
translation == [v \in Pages |-> Translation(v)]

Space ==
  INSTANCE AddressSpace WITH
    VirtualPages  <- Pages,
    PhysicalPages <- Nat,
    Unmapped      <- NONE

ImplementsSpace == Space!SpaceSpec
=============================================================================
