--------------------------- MODULE PhysicalMemory ---------------------------
(***************************************************************************)
(* The physical page allocator, kernel/core/memory/pmm.cpp.                *)
(*                                                                         *)
(* Memory is a bitmap with one bit per page.  The boot loader's memory map *)
(* is read once (pmm::init); afterwards callers take and return single     *)
(* pages and runs of pages.  The bitmap is the set of the bits that are 1  *)
(* ("used").  Pages are numbered as in the code; an address is a page      *)
(* number times PAGE_SIZE, and address 0 doubles as OUT_OF_MEMORY.         *)
(*                                                                         *)
(* Calls run to completion: no interrupt handler allocates, and the kernel *)
(* has one thread.  pmm::init is one action per phase, its marking loop    *)
(* one action per memory map entry.                                        *)
(***************************************************************************)
EXTENDS Integers, Sequences, FiniteSets

CONSTANTS
  PAGE_SIZE,   (* bytes in a page                                           *)
  Memmaps,     (* the memory maps the boot loader may pass                  *)
  MaxCount     (* bound: callers ask for runs of at most MaxCount pages     *)

MemmapEntry == [base : Nat, length : Nat, usable : BOOLEAN]

ASSUME PageAssumption == PAGE_SIZE \in Nat \ {0}
ASSUME MemmapAssumption == Memmaps \subseteq Seq(MemmapEntry)
ASSUME CountAssumption == MaxCount \in Nat \ {0}

VARIABLES
  memmap,                 (* the map of this boot                           *)
  phase,                  (* progress of pmm::init; "panic" after an ASSERT *)
  entry,                  (* index of the marking loop in pmm::init         *)
  highestAddress,
  bitmapPhysicalAddress,
  bitmap,                 (* the bits that are set                          *)
  usedPages,
  freePages,
  lastAllocIndex,
  owned,                  (* ghost: pages handed out and not returned       *)
  ret                     (* the call that ended last and what it returned  *)

mapVars == <<memmap, highestAddress, bitmapPhysicalAddress>>
vars == <<mapVars, phase, entry, bitmap, usedPages, freePages,
          lastAllocIndex, owned, ret>>

OUT_OF_MEMORY == 0

alignUp(value, alignment) ==
  ((value + alignment - 1) \div alignment) * alignment

alignDown(value, alignment) == (value \div alignment) * alignment

physicalToPage(addr) == addr \div PAGE_SIZE
pageToPhysical(page) == page * PAGE_SIZE

totalPages == alignUp(highestAddress, PAGE_SIZE) \div PAGE_SIZE

bitmapSize == alignUp(alignUp(totalPages, 8) \div 8, PAGE_SIZE)

Pages == 0 .. totalPages - 1

(* The pages marked free and not yet claimed by anyone. *)
FreeSet == Pages \ bitmap

-----------------------------------------------------------------------------
(* pmm::init *)

EntryEnd(e) == e.base + e.length

(* The whole pages inside an entry: [alignUp(base), alignDown(end)).        *)
EntryStart(e) == alignUp(e.base, PAGE_SIZE)
EntryStopRoundedUp(e) == alignUp(EntryEnd(e), PAGE_SIZE)
EntryStop(e) == alignDown(EntryEnd(e), PAGE_SIZE)

EntryPages(e) ==
  IF EntryStop(e) <= EntryStart(e)
  THEN {}
  ELSE physicalToPage(EntryStart(e)) .. physicalToPage(EntryStop(e)) - 1

(* The entry is usable and its whole pages can hold the bitmap. *)
HoldsBitmap(e) ==
  /\ e.usable
  /\ EntryStop(e) > EntryStart(e)
  /\ EntryStop(e) - EntryStart(e) >= bitmapSize

(* Pages the bitmap itself occupies. *)
BitmapPages ==
  physicalToPage(bitmapPhysicalAddress) ..
    physicalToPage(bitmapPhysicalAddress) + (bitmapSize \div PAGE_SIZE) - 1

Init ==
  /\ memmap \in Memmaps
  /\ phase = "loaded"
  /\ entry = 1
  /\ highestAddress = 0
  /\ bitmapPhysicalAddress = 0
  /\ bitmap = {}
  /\ usedPages = 0
  /\ freePages = 0
  /\ lastAllocIndex = 0
  /\ owned = {}
  /\ ret = [call |-> "none", count |-> 0, addr |-> 0]

(* The loop that finds the end of physical memory. *)
ScanHighest ==
  /\ phase = "loaded"
  /\ \E h \in {0} \cup {EntryEnd(memmap[i]) : i \in DOMAIN memmap} :
       /\ \A i \in DOMAIN memmap : EntryEnd(memmap[i]) <= h
       /\ highestAddress' = h
  /\ phase' = "sized"
  /\ UNCHANGED <<memmap, bitmapPhysicalAddress, entry, bitmap, usedPages,
                 freePages, lastAllocIndex, owned, ret>>

(* The bitmap goes to the first entry that can hold it; every page starts   *)
(* out used.  A bitmap at address 0 fails the ASSERT like no bitmap at all. *)
PlaceBitmap ==
  /\ phase = "sized"
  /\ \/ \E i \in DOMAIN memmap :
          /\ HoldsBitmap(memmap[i])
          /\ \A j \in 1 .. i - 1 : ~HoldsBitmap(memmap[j])
          /\ EntryStart(memmap[i]) # 0
          /\ bitmapPhysicalAddress' = EntryStart(memmap[i])
          /\ bitmap' = 0 .. 8 * bitmapSize - 1
          /\ freePages' = 0
          /\ usedPages' = totalPages
          /\ phase' = "marking"
     \/ /\ \A i \in DOMAIN memmap :
             HoldsBitmap(memmap[i]) =>
               \E j \in 1 .. i : /\ HoldsBitmap(memmap[j])
                                 /\ EntryStart(memmap[j]) = 0
        /\ phase' = "panic"
        /\ UNCHANGED <<bitmapPhysicalAddress, bitmap, freePages, usedPages>>
  /\ UNCHANGED <<memmap, highestAddress, entry, lastAllocIndex, owned, ret>>

(* markFree and markUsed flip only the bits that differ, and stop at the    *)
(* end of memory.                                                           *)
markFreeUntested(S) ==
  LET freed == S \cap Pages
  IN  /\ bitmap' = bitmap \ freed
      /\ freePages' = freePages + Cardinality(freed)
      /\ usedPages' = usedPages - Cardinality(freed)

markFree(S) ==
  LET flipped == S \cap Pages \cap bitmap
  IN  /\ bitmap' = bitmap \ flipped
      /\ freePages' = freePages + Cardinality(flipped)
      /\ usedPages' = usedPages - Cardinality(flipped)

markUsedUntested(S) ==
  LET taken == S \cap Pages
  IN  /\ bitmap' = bitmap \cup taken
      /\ freePages' = freePages - Cardinality(taken)
      /\ usedPages' = usedPages + Cardinality(taken)

markUsed(S) ==
  LET flipped == (S \cap Pages) \ bitmap
  IN  /\ bitmap' = bitmap \cup flipped
      /\ freePages' = freePages - Cardinality(flipped)
      /\ usedPages' = usedPages + Cardinality(flipped)

(* One turn of the loop that frees the usable entries. *)
MarkFreeEntry ==
  /\ phase = "marking"
  /\ entry \in DOMAIN memmap
  /\ entry' = entry + 1
  /\ markFree(IF memmap[entry].usable THEN EntryPages(memmap[entry]) ELSE {})
  /\ UNCHANGED <<mapVars, phase, lastAllocIndex, owned, ret>>

(* The bitmap's own pages and page 0 are taken out again. *)
ReserveBitmap ==
  /\ phase = "marking"
  /\ entry > Len(memmap)
  /\ markUsed(BitmapPages \cup {0})
  /\ lastAllocIndex' = 0
  /\ phase' = "ready"
  /\ UNCHANGED <<mapVars, entry, owned, ret>>

-----------------------------------------------------------------------------
(* Allocation *)

Return(call, count, addr) ==
  ret' = [call |-> call, count |-> count, addr |-> addr]

(* Scanning lo, lo+1, ..., hi-1 stops at page p. *)
ScanStopsAt(p, lo, hi) ==
  /\ p \in lo .. hi - 1
  /\ p \notin bitmap
  /\ lo .. p - 1 \subseteq bitmap

(* Scanning lo, lo+1, ..., hi-1 meets no free page. *)
ScanFailsShort(lo, hi) == lo .. hi - 2 \subseteq bitmap
ScanFails(lo, hi) == lo .. hi - 1 \subseteq bitmap

(* The page both loops of allocPage settle on: first from the hint upwards, *)
(* then from 0 up to the hint.                                              *)
AllocPageFinds(p) ==
  \/ ScanStopsAt(p, lastAllocIndex, totalPages)
  \/ /\ ScanFails(lastAllocIndex, totalPages)
     /\ ScanStopsAt(p, 0, lastAllocIndex)

allocPage ==
  /\ phase = "ready"
  /\ \/ \E p \in Pages :
          /\ AllocPageFinds(p)
          /\ bitmap' = bitmap \cup {p}
          /\ usedPages' = usedPages + 1
          /\ freePages' = freePages - 1
          /\ lastAllocIndex' = p + 1
          /\ owned' = owned \cup {p}
          /\ Return("allocPage", 1, pageToPhysical(p))
     \/ /\ ScanFails(lastAllocIndex, totalPages)
        /\ ScanFails(0, lastAllocIndex)
        /\ Return("allocPage", 1, OUT_OF_MEMORY)
        /\ UNCHANGED <<bitmap, usedPages, freePages, lastAllocIndex, owned>>
  /\ UNCHANGED <<mapVars, phase, entry>>

Run(start, count) == start .. start + count - 1

(* A run of count free pages starts at page s. *)
FreeRunAtShort(s, count) ==
  /\ s + count <= totalPages
  /\ Run(s, count - 1) \cap bitmap = {}

FreeRunAt(s, count) ==
  /\ s + count <= totalPages
  /\ Run(s, count) \cap bitmap = {}

(* One turn of allocPages' loop: runStart is set when a run begins,         *)
(* runLength is reset at a used page, the loop stops at count.              *)
RunScanStepNoReset(count, acc, i) ==
  IF acc.found \/ i \in bitmap THEN acc
  ELSE [runStart |-> IF acc.runLength = 0 THEN i ELSE acc.runStart,
        runLength |-> acc.runLength + 1,
        found |-> acc.runLength + 1 = count]

RunScanStep(count, acc, i) ==
  IF acc.found THEN acc
  ELSE IF i \in bitmap THEN [acc EXCEPT !.runLength = 0]
  ELSE [runStart |-> IF acc.runLength = 0 THEN i ELSE acc.runStart,
        runLength |-> acc.runLength + 1,
        found |-> acc.runLength + 1 = count]

(* The loop over all pages.  allocPages below says what it finds, and       *)
(* RunScanFindsFirstRun that this is so.                                    *)
RunScan(count) ==
  LET scan[n \in 0 .. totalPages] ==
        IF n = 0 THEN [runStart |-> 0, runLength |-> 0, found |-> FALSE]
        ELSE RunScanStep(count, scan[n - 1], n - 1)
  IN  scan[totalPages]

allocPages(count) ==
  /\ phase = "ready"
  /\ \/ /\ count > 0
        /\ \E s \in Pages :
             /\ FreeRunAt(s, count)
             /\ \A r \in 0 .. s - 1 : ~FreeRunAt(r, count)
             /\ bitmap' = bitmap \cup Run(s, count)
             /\ lastAllocIndex' = s + count
             /\ owned' = owned \cup Run(s, count)
             /\ Return("allocPages", count, pageToPhysical(s))
        /\ freePages' = freePages - count
        /\ usedPages' = usedPages + count
     \/ /\ count > 0 => \A s \in Pages : ~FreeRunAt(s, count)
        /\ Return("allocPages", count, OUT_OF_MEMORY)
        /\ UNCHANGED <<bitmap, usedPages, freePages, lastAllocIndex, owned>>
  /\ UNCHANGED <<mapVars, phase, entry>>

(* A caller returns pages it holds, one freePage at a time; a page that is  *)
(* already free trips ASSERT(bitmapTest(page)).  Each page freed below the  *)
(* hint lowers it, so the first page of the run decides.  freePages(a, 0)   *)
(* changes nothing.                                                         *)
FreeRun(call, s, count) ==
  /\ phase = "ready"
  /\ \/ /\ Run(s, count) \subseteq owned
        /\ bitmap' = bitmap \ Run(s, count)
        /\ freePages' = freePages + count
        /\ usedPages' = usedPages - count
        /\ lastAllocIndex' =
             IF s < lastAllocIndex THEN s ELSE lastAllocIndex
        /\ owned' = owned \ Run(s, count)
        /\ UNCHANGED phase
     \/ /\ Run(s, count) \subseteq owned \cup FreeSet
        /\ Run(s, count) \cap FreeSet # {}
        /\ phase' = "panic"
        /\ UNCHANGED <<bitmap, usedPages, freePages, lastAllocIndex, owned>>
  /\ Return(call, count, 0)
  /\ UNCHANGED <<mapVars, entry>>

freePage(p) == FreeRun("freePage", p, 1)

freePageRun(s, count) == FreeRun("freePages", s, count)

(* kernelPanic never returns. *)
Halted == phase = "panic" /\ UNCHANGED vars

Next ==
  \/ ScanHighest
  \/ PlaceBitmap
  \/ MarkFreeEntry
  \/ ReserveBitmap
  \/ allocPage
  \/ \E count \in 0 .. MaxCount : allocPages(count)
  \/ \E p \in Pages : freePage(p)
  \/ \E s \in Pages, count \in 1 .. MaxCount : freePageRun(s, count)
  \/ Halted

Spec == Init /\ [][Next]_vars
-----------------------------------------------------------------------------
(* Properties *)

Phases == {"loaded", "sized", "marking", "ready", "panic"}
Calls == {"none", "allocPage", "allocPages", "freePage", "freePages"}

(* Every variable has the type of its C++ counterpart; in particular the    *)
(* two unsigned counters never go below zero and the hint stays in range.   *)
TypeOK ==
  /\ memmap \in Memmaps
  /\ phase \in Phases
  /\ entry \in Nat \ {0}
  /\ highestAddress \in Nat
  /\ bitmapPhysicalAddress \in Nat
  /\ bitmap \in SUBSET Nat
  /\ usedPages \in Nat
  /\ freePages \in Nat
  /\ lastAllocIndex \in 0 .. totalPages
  /\ owned \in SUBSET Pages
  /\ ret \in [call : Calls, count : Nat, addr : Nat]

(* The counters are the numbers of clear and of set bits.                   *)
CountersAgree ==
  phase \in {"marking", "ready"} =>
    /\ freePages = Cardinality(FreeSet)
    /\ usedPages + freePages = totalPages

(* getFreePages and getUsedPages tell the truth: through the boot loop with *)
(* overlapping entries, and through every alloc and free, the counters are  *)
(* the number of clear and of set bits among the pages of memory, neither   *)
(* wraps below zero, and the hint stays in range.                           *)
CountersExact == TypeOK /\ CountersAgree

(* Pages wholly inside one usable entry of the memory map, byte by byte. *)
UsablePages ==
  {p \in Pages : \E i \in DOMAIN memmap :
     /\ memmap[i].usable
     /\ memmap[i].base <= pageToPhysical(p)
     /\ pageToPhysical(p) + PAGE_SIZE <= EntryEnd(memmap[i])}

(* The pages pmm::init leaves for callers. *)
AllocatablePages == UsablePages \ (BitmapPages \cup {0})

(* No page has two owners, none is lost, and none that overlaps unusable    *)
(* memory, the bitmap or page 0 is ever handed out: free and owned pages    *)
(* partition what init set aside.                                           *)
PagesConserved ==
  phase = "ready" =>
    /\ FreeSet \cup owned = AllocatablePages
    /\ FreeSet \cap owned = {}

(* allocPage answers OUT_OF_MEMORY (the address of page 0) only when there  *)
(* is no free page anywhere, wherever the hint lastAllocIndex points.       *)
OutOfMemoryIsReal ==
  ret.call = "allocPage" /\ ret.addr = OUT_OF_MEMORY => FreeSet = {}

(* allocPages' one-pass scan with runStart and runLength finds a run exactly *)
(* when there is one, and finds the lowest.                                  *)
RunScanFindsFirstRun ==
  phase = "ready" =>
    \A count \in 1 .. MaxCount :
      LET starts == {s \in Pages : FreeRunAt(s, count)}
          scan == RunScan(count)
      IN  /\ scan.found <=> starts # {}
          /\ scan.found => /\ scan.runStart \in starts
                           /\ \A s \in starts : scan.runStart <= s

(* What the boot loop has freed when it reaches entry n. *)
MarkedPages(n) ==
  {p \in Pages : \E j \in DOMAIN memmap :
     j < n /\ memmap[j].usable /\ p \in EntryPages(memmap[j])}

(* How pmm::init gets to a partition: nothing is owned before it ends, all  *)
(* entries end below the end of memory, and the clear bits are those of the *)
(* entries visited so far.                                                  *)
BootProgress ==
  /\ phase # "loaded" =>
       \A i \in DOMAIN memmap : EntryEnd(memmap[i]) <= highestAddress
  /\ phase \in {"loaded", "sized", "marking"} =>
       owned = {} /\ lastAllocIndex = 0 /\ ret.call = "none"
  /\ phase \in {"loaded", "sized"} => entry = 1
  /\ phase = "marking" => FreeSet = MarkedPages(entry)

IInv == TypeOK /\ CountersAgree /\ PagesConserved /\ OutOfMemoryIsReal /\ BootProgress

(* The allocator is the page pool of PageAllocator: callers that test the   *)
(* returned address against 0 learn whether they got the run, a refused run *)
(* does not exist, a granted one was free, and nothing else changes.        *)
Pool ==
  INSTANCE PageAllocator WITH
    MaxRun <- MaxCount,
    state  <- CASE phase = "ready" -> "up"
                [] phase = "panic" -> "halted"
                [] OTHER           -> "boot",
    free   <- IF phase = "ready" THEN FreeSet ELSE {},
    held   <- owned,
    answer <- [count   |-> IF ret.call \in {"allocPage", "allocPages"}
                           THEN ret.count ELSE 0,
               granted |-> /\ ret.call \in {"allocPage", "allocPages"}
                           /\ ret.addr # OUT_OF_MEMORY]

ImplementsPool == Pool!PoolSpec
=============================================================================
