------------------------ MODULE PhysicalMemoryProofs ------------------------
(***************************************************************************)
(* Proofs about PhysicalMemory, for every page size, every set of memory   *)
(* maps and every bound on the length of runs.                             *)
(***************************************************************************)
EXTENDS PhysicalMemory, FiniteSetTheorems, WellFoundedInduction, TLAPS

(* Division by a positive number rounds down. *)
LEMMA DivFacts ==
  ASSUME NEW x \in Nat, NEW d \in Nat \ {0}
  PROVE  /\ x \div d \in Nat
         /\ (x \div d) * d <= x
         /\ x < (x \div d) * d + d
OBVIOUS

(* A multiple of b divided by b. *)
LEMMA DivMult ==
  ASSUME NEW k \in Nat, NEW d \in Nat \ {0}
  PROVE  (k * d) \div d = k
OBVIOUS

(* Multiplication by a page size is monotonic. *)
LEMMA MultMono ==
  ASSUME NEW a \in Nat, NEW b \in Nat, NEW d \in Nat \ {0}
  PROVE  /\ a <= b <=> a * d <= b * d
         /\ a < b <=> a * d < b * d
OBVIOUS

(* The byte-wise reading of a page address and of rounding agree: the pages *)
(* of an entry are those that lie wholly inside it.                         *)
LEMMA EntryPagesExact ==
  ASSUME NEW e \in MemmapEntry, NEW p \in Nat
  PROVE  p \in EntryPages(e) <=>
           /\ e.base <= pageToPhysical(p)
           /\ pageToPhysical(p) + PAGE_SIZE <= EntryEnd(e)
<1> DEFINE first == (e.base + PAGE_SIZE - 1) \div PAGE_SIZE
           last == EntryEnd(e) \div PAGE_SIZE
<1> USE PageAssumption
<1>1. e.base \in Nat /\ e.length \in Nat /\ EntryEnd(e) \in Nat
  BY DEF MemmapEntry, EntryEnd
<1>2. /\ first \in Nat
      /\ first * PAGE_SIZE <= e.base + PAGE_SIZE - 1
      /\ e.base + PAGE_SIZE - 1 < first * PAGE_SIZE + PAGE_SIZE
  <2>1. e.base + PAGE_SIZE - 1 \in Nat
    BY <1>1
  <2>2. QED
    BY <2>1, DivFacts
<1>3. /\ last \in Nat
      /\ last * PAGE_SIZE <= EntryEnd(e)
      /\ EntryEnd(e) < last * PAGE_SIZE + PAGE_SIZE
  BY <1>1, DivFacts
<1> HIDE DEF first, last
<1>4. EntryStart(e) = first * PAGE_SIZE /\ EntryStop(e) = last * PAGE_SIZE
  BY DEF EntryStart, EntryStop, alignUp, alignDown, first, last
<1>5. /\ physicalToPage(EntryStart(e)) = first
      /\ physicalToPage(EntryStop(e)) = last
  BY <1>2, <1>3, <1>4, DivMult DEF physicalToPage
<1>6. last <= first <=> EntryStop(e) <= EntryStart(e)
  BY <1>2, <1>3, <1>4, MultMono
<1>7. p \in EntryPages(e) <=> first <= p /\ p < last
  BY <1>2, <1>3, <1>5, <1>6 DEF EntryPages
<1>8. first <= p <=> e.base <= p * PAGE_SIZE
  <2>1. first <= p => e.base <= p * PAGE_SIZE
    BY <1>1, <1>2, MultMono
  <2>2. p < first => p + 1 <= first
    BY <1>2
  <2>3. p + 1 <= first => (p + 1) * PAGE_SIZE <= first * PAGE_SIZE
    BY <1>2, MultMono
  <2>4. QED
    BY <1>1, <1>2, <2>1, <2>2, <2>3
<1>9. p < last <=> p * PAGE_SIZE + PAGE_SIZE <= EntryEnd(e)
  <2>1. p < last <=> p + 1 <= last
    BY <1>3
  <2>2. p + 1 <= last <=> (p + 1) * PAGE_SIZE <= last * PAGE_SIZE
    BY <1>3, MultMono
  <2>3. last <= p => last * PAGE_SIZE <= p * PAGE_SIZE
    BY <1>3, MultMono
  <2>4. QED
    BY <1>1, <1>3, <2>1, <2>2, <2>3
<1>10. QED
  BY <1>7, <1>8, <1>9 DEF pageToPhysical

(* The bitmap has a bit for every page of memory. *)
LEMMA BitmapCoversPages ==
  ASSUME highestAddress \in Nat
  PROVE  /\ totalPages \in Nat
         /\ bitmapSize \in Nat
         /\ totalPages <= 8 * bitmapSize
<1> DEFINE bytes == (totalPages + 7) \div 8
           blocks == (bytes + PAGE_SIZE - 1) \div PAGE_SIZE
<1> USE PageAssumption
<1>1. totalPages \in Nat
  <2>1. highestAddress + PAGE_SIZE - 1 \in Nat
    OBVIOUS
  <2>2. (highestAddress + PAGE_SIZE - 1) \div PAGE_SIZE \in Nat
    BY <2>1, DivFacts
  <2>3. QED
    BY <2>2, DivMult DEF totalPages, alignUp
<1>2. bytes \in Nat /\ totalPages <= 8 * bytes
  BY <1>1
<1>3. blocks \in Nat /\ bytes <= blocks * PAGE_SIZE
  <2>1. bytes + PAGE_SIZE - 1 \in Nat
    BY <1>2
  <2>2. QED
    BY <2>1, <1>2, DivFacts
<1>4. bitmapSize = blocks * PAGE_SIZE
  <2>1. alignUp(totalPages, 8) \div 8 = bytes
    BY <1>1, <1>2 DEF alignUp
  <2>2. QED
    BY <2>1 DEF bitmapSize, alignUp
<1> HIDE DEF bytes, blocks
<1>5. blocks * PAGE_SIZE \in Nat
  BY <1>3
<1>6. QED
  BY <1>1, <1>2, <1>3, <1>4, <1>5

-----------------------------------------------------------------------------
(* Cardinality *)

(* The free pages are finitely many, at most totalPages. *)
LEMMA FreeSetCard ==
  ASSUME totalPages \in Nat
  PROVE  /\ IsFiniteSet(Pages)
         /\ Cardinality(Pages) = totalPages
         /\ IsFiniteSet(FreeSet)
         /\ Cardinality(FreeSet) \in Nat
         /\ Cardinality(FreeSet) <= totalPages
<1>1. IsFiniteSet(Pages) /\ Cardinality(Pages) = totalPages
  BY FS_Interval DEF Pages
<1>2. FreeSet \in SUBSET Pages
  BY DEF FreeSet
<1>3. QED
  BY <1>1, <1>2, FS_Subset, FS_CardinalityType

(* The cardinality of a set after a disjoint set is added. *)
LEMMA DisjointCard ==
  ASSUME NEW S, NEW T, IsFiniteSet(S), IsFiniteSet(T), S \cap T = {}
  PROVE  /\ Cardinality(S \cup T) = Cardinality(S) + Cardinality(T)
         /\ Cardinality(S) \in Nat
         /\ Cardinality(T) \in Nat
<1>1. Cardinality(S) \in Nat /\ Cardinality(T) \in Nat
  BY FS_CardinalityType
<1>2. Cardinality(S \cup T) = Cardinality(S) + Cardinality(T) - Cardinality({})
  BY FS_Union
<1>3. QED
  BY <1>1, <1>2, FS_EmptySet

(* The cardinality of a set after a subset is removed. *)
LEMMA SubsetCard ==
  ASSUME NEW S, NEW T, IsFiniteSet(S), T \subseteq S
  PROVE  /\ IsFiniteSet(T)
         /\ Cardinality(S \ T) = Cardinality(S) - Cardinality(T)
         /\ Cardinality(T) <= Cardinality(S)
         /\ Cardinality(S) \in Nat
         /\ Cardinality(T) \in Nat
<1>1. S \cap T = T
  OBVIOUS
<1>2. IsFiniteSet(T) /\ Cardinality(T) <= Cardinality(S)
  BY FS_Subset
<1>3. QED
  BY <1>1, <1>2, FS_Difference, FS_CardinalityType

(* A run of count pages has count elements. *)
LEMMA RunCard ==
  ASSUME NEW s \in Nat, NEW count \in Nat
  PROVE  IsFiniteSet(Run(s, count)) /\ Cardinality(Run(s, count)) = count
<1>1. s \in Int /\ s + count - 1 \in Int
  OBVIOUS
<1>2. QED
  BY <1>1, FS_Interval DEF Run

-----------------------------------------------------------------------------
(* The inductive invariant *)

(* The invariant holds before pmm::init. *)
LEMMA InitIInv == Init => IInv
<1> SUFFICES ASSUME Init PROVE IInv
  OBVIOUS
<1>1. totalPages \in Nat
  BY BitmapCoversPages DEF Init
<1>2. QED
  BY <1>1 DEF Init, IInv, TypeOK, CountersAgree, PagesConserved, OutOfMemoryIsReal,
       BootProgress, Phases, Calls, Pages

(* The entries of the memory map have natural bases and lengths. *)
LEMMA MemmapType ==
  ASSUME IInv
  PROVE  /\ memmap \in Seq(MemmapEntry)
         /\ \A i \in DOMAIN memmap : memmap[i] \in MemmapEntry
<1>1. memmap \in Seq(MemmapEntry)
  BY MemmapAssumption DEF IInv, TypeOK
<1>2. QED
  BY <1>1

(* The scan for the end of memory preserves the invariant. *)
LEMMA ScanHighestIInv == IInv /\ ScanHighest => IInv'
<1> SUFFICES ASSUME IInv, ScanHighest PROVE IInv'
  OBVIOUS
<1>1. PICK h \in {0} \cup {EntryEnd(memmap[i]) : i \in DOMAIN memmap} :
        /\ \A i \in DOMAIN memmap : EntryEnd(memmap[i]) <= h
        /\ highestAddress' = h
  BY DEF ScanHighest
<1>2. h \in Nat
  BY <1>1, MemmapType DEF MemmapEntry, EntryEnd
<1>3. totalPages' \in Nat
  <2>1. h + PAGE_SIZE - 1 \in Nat
    BY <1>2, PageAssumption
  <2>2. QED
    BY <1>1, <2>1, DivFacts, DivMult, PageAssumption DEF totalPages, alignUp
<1>4. TypeOK'
  BY <1>1, <1>2, <1>3 DEF ScanHighest, IInv, TypeOK, BootProgress, Phases
<1>5. BootProgress'
  BY <1>1 DEF ScanHighest, IInv, BootProgress, EntryEnd
<1>6. CountersAgree' /\ PagesConserved' /\ OutOfMemoryIsReal'
  BY DEF ScanHighest, IInv, BootProgress, CountersAgree, PagesConserved, OutOfMemoryIsReal
<1>7. QED
  BY <1>4, <1>5, <1>6 DEF IInv

(* So does placing the bitmap, with every page marked used. *)
LEMMA PlaceBitmapIInv == IInv /\ PlaceBitmap => IInv'
<1> SUFFICES ASSUME IInv, PlaceBitmap PROVE IInv'
  OBVIOUS
<1>1. totalPages \in Nat /\ bitmapSize \in Nat /\ totalPages <= 8 * bitmapSize
  BY BitmapCoversPages DEF IInv, TypeOK
<1>2. UNCHANGED <<totalPages, bitmapSize, Pages>>
  BY DEF PlaceBitmap, totalPages, bitmapSize, Pages
<1>3. CASE phase' = "panic"
  BY <1>2, <1>3 DEF PlaceBitmap, IInv, TypeOK, CountersAgree, PagesConserved,
       OutOfMemoryIsReal, BootProgress, Phases
<1>4. CASE phase' # "panic"
  <2>1. PICK i \in DOMAIN memmap :
          /\ bitmapPhysicalAddress' = EntryStart(memmap[i])
          /\ bitmap' = 0 .. 8 * bitmapSize - 1
          /\ freePages' = 0
          /\ usedPages' = totalPages
          /\ phase' = "marking"
    BY <1>4 DEF PlaceBitmap
  <2>2. FreeSet' = {}
    BY <1>1, <1>2, <2>1 DEF FreeSet, Pages
  <2>3. bitmapPhysicalAddress' \in Nat
    <3>1. memmap[i].base + PAGE_SIZE - 1 \in Nat
      BY MemmapType, PageAssumption DEF MemmapEntry
    <3>2. QED
      BY <2>1, <3>1, DivFacts, PageAssumption DEF EntryStart, alignUp
  <2>4. Cardinality(FreeSet') = 0
    BY <2>2, FS_EmptySet
  <2>5. MarkedPages(entry)' = {}
    <3>1. \A j \in DOMAIN memmap : ~(j < 1)
      BY MemmapType
    <3>2. entry' = 1 /\ memmap' = memmap
      BY DEF PlaceBitmap, IInv, BootProgress
    <3>3. QED
      BY <3>1, <3>2 DEF MarkedPages
  <2>6. QED
    BY <1>1, <1>2, <2>1, <2>2, <2>3, <2>4, <2>5
    DEF PlaceBitmap, IInv, TypeOK, CountersAgree, PagesConserved,
       OutOfMemoryIsReal, BootProgress, Phases
<1>5. QED
  BY <1>3, <1>4

(* When every entry has been visited, the clear bits are the usable pages. *)
LEMMA MarkedAll ==
  ASSUME IInv, entry > Len(memmap)
  PROVE  MarkedPages(entry) = UsablePages
<1>1. \A j \in DOMAIN memmap : j < entry
  BY MemmapType DEF IInv, TypeOK
<1>2. Pages \subseteq Nat
  BY DEF Pages
<1>3. \A p \in Pages, j \in DOMAIN memmap :
        p \in EntryPages(memmap[j]) <=>
          /\ memmap[j].base <= pageToPhysical(p)
          /\ pageToPhysical(p) + PAGE_SIZE <= EntryEnd(memmap[j])
  BY <1>2, MemmapType, EntryPagesExact
<1>4. QED
  BY <1>1, <1>3 DEF MarkedPages, UsablePages

(* So does one turn of the marking loop. *)
LEMMA MarkFreeEntryIInv == IInv /\ MarkFreeEntry => IInv'
<1> SUFFICES ASSUME IInv, MarkFreeEntry PROVE IInv'
  OBVIOUS
<1> DEFINE S == IF memmap[entry].usable THEN EntryPages(memmap[entry]) ELSE {}
           flipped == S \cap Pages \cap bitmap
<1>1. totalPages \in Nat
  BY BitmapCoversPages DEF IInv, TypeOK
<1>2. UNCHANGED <<totalPages, Pages>> /\ memmap' = memmap /\ phase' = phase
  BY DEF MarkFreeEntry, mapVars, totalPages, Pages
<1>3. /\ bitmap' = bitmap \ flipped
      /\ freePages' = freePages + Cardinality(flipped)
      /\ usedPages' = usedPages - Cardinality(flipped)
  BY DEF MarkFreeEntry, markFree
<1>4. FreeSet' = FreeSet \cup flipped /\ FreeSet \cap flipped = {}
  BY <1>2, <1>3 DEF FreeSet
<1>5. IsFiniteSet(flipped)
  BY <1>1, FreeSetCard, FS_Subset
<1> HIDE DEF flipped, S
<1>6. /\ Cardinality(FreeSet') = Cardinality(FreeSet) + Cardinality(flipped)
      /\ Cardinality(FreeSet) \in Nat
      /\ Cardinality(flipped) \in Nat
  BY <1>1, <1>4, <1>5, FreeSetCard, DisjointCard
<1>7. Cardinality(FreeSet') <= totalPages
  <2>1. FreeSet' \subseteq Pages
    BY <1>2 DEF FreeSet
  <2>2. QED
    BY <1>1, <2>1, FreeSetCard, FS_Subset
<1>8. CountersAgree'
  BY <1>1, <1>2, <1>3, <1>6 DEF IInv, TypeOK, CountersAgree, MarkFreeEntry
<1>9. TypeOK'
  <2>1. /\ freePages' \in Nat /\ usedPages' \in Nat
    BY <1>1, <1>2, <1>3, <1>6, <1>7 DEF IInv, TypeOK, CountersAgree, MarkFreeEntry
  <2>2. bitmap' \in SUBSET Nat
    BY <1>3 DEF IInv, TypeOK
  <2>3. lastAllocIndex' \in 0 .. totalPages' /\ owned' \in SUBSET Pages'
    BY <1>2 DEF IInv, TypeOK, MarkFreeEntry
  <2>4. QED
    BY <1>2, <2>1, <2>2, <2>3 DEF IInv, TypeOK, MarkFreeEntry, mapVars
<1>10. BootProgress'
  <2>1. FreeSet' = MarkedPages(entry + 1)
    <3>1. \A j \in DOMAIN memmap : j < entry + 1 <=> j < entry \/ j = entry
      BY MemmapType DEF IInv, TypeOK
    <3>2. FreeSet = MarkedPages(entry)
      BY DEF MarkFreeEntry, IInv, BootProgress
    <3>3. FreeSet' = FreeSet \cup (S \cap Pages)
      BY <1>4 DEF flipped, FreeSet
    <3>4. entry \in DOMAIN memmap
      BY DEF MarkFreeEntry
    <3>5. MarkedPages(entry + 1) = MarkedPages(entry) \cup (S \cap Pages)
      BY <3>1, <3>4 DEF MarkedPages, S
    <3>6. QED
      BY <3>2, <3>3, <3>5
  <2>2. MarkedPages(entry)' = MarkedPages(entry + 1)
    BY <1>2 DEF MarkedPages, MarkFreeEntry
  <2>3. QED
    BY <1>2, <2>1, <2>2 DEF MarkFreeEntry, mapVars, IInv, BootProgress, EntryEnd
<1>11. PagesConserved' /\ OutOfMemoryIsReal'
  BY <1>2 DEF MarkFreeEntry, IInv, BootProgress, PagesConserved, OutOfMemoryIsReal
<1>12. QED
  BY <1>8, <1>9, <1>10, <1>11 DEF IInv

(* Reserving the bitmap and page 0 leaves exactly AllocatablePages free. *)
LEMMA ReserveBitmapIInv == IInv /\ ReserveBitmap => IInv'
<1> SUFFICES ASSUME IInv, ReserveBitmap PROVE IInv'
  OBVIOUS
<1> DEFINE flipped == ((BitmapPages \cup {0}) \cap Pages) \ bitmap
<1>1. totalPages \in Nat
  BY BitmapCoversPages DEF IInv, TypeOK
<1>2. UNCHANGED <<totalPages, Pages, BitmapPages, UsablePages, AllocatablePages>>
  BY DEF ReserveBitmap, mapVars, totalPages, Pages, BitmapPages, bitmapSize,
         UsablePages, AllocatablePages
<1>3. /\ bitmap' = bitmap \cup flipped
      /\ freePages' = freePages - Cardinality(flipped)
      /\ usedPages' = usedPages + Cardinality(flipped)
  BY DEF ReserveBitmap, markUsed
<1>4. FreeSet' = FreeSet \ flipped /\ flipped \subseteq FreeSet
  BY <1>2, <1>3 DEF FreeSet
<1>5. flipped \in SUBSET Nat
  BY <1>1 DEF Pages
<1>6. FreeSet' = AllocatablePages
  <2>1. FreeSet = UsablePages
    BY MarkedAll DEF ReserveBitmap, IInv, BootProgress
  <2>2. FreeSet' = FreeSet \ (BitmapPages \cup {0})
    BY <1>4 DEF FreeSet
  <2>3. QED
    BY <2>1, <2>2 DEF AllocatablePages
<1> HIDE DEF flipped
<1>7. /\ Cardinality(FreeSet') = Cardinality(FreeSet) - Cardinality(flipped)
      /\ Cardinality(FreeSet) \in Nat
      /\ Cardinality(flipped) \in Nat
      /\ Cardinality(flipped) <= Cardinality(FreeSet)
  BY <1>1, <1>4, FreeSetCard, SubsetCard
<1>8. CountersAgree'
  BY <1>1, <1>2, <1>3, <1>7 DEF IInv, TypeOK, CountersAgree, ReserveBitmap
<1>9. TypeOK'
  <2>1. /\ freePages' \in Nat /\ usedPages' \in Nat
    BY <1>1, <1>3, <1>7 DEF IInv, TypeOK, CountersAgree, ReserveBitmap
  <2>2. QED
    BY <1>1, <1>2, <1>3, <1>5, <2>1 DEF IInv, TypeOK, ReserveBitmap, mapVars, Phases
<1>10. PagesConserved'
  BY <1>2, <1>6 DEF ReserveBitmap, IInv, BootProgress, PagesConserved
<1>11. BootProgress' /\ OutOfMemoryIsReal'
  BY DEF ReserveBitmap, mapVars, IInv, BootProgress, EntryEnd, OutOfMemoryIsReal
<1>12. QED
  BY <1>8, <1>9, <1>10, <1>11 DEF IInv

-----------------------------------------------------------------------------
(* Taking pages out of the free set and putting them back *)

(* Page 0 is never free, so no granted run has address OUT_OF_MEMORY. *)
LEMMA FreePagesNonzero ==
  ASSUME IInv, phase = "ready"
  PROVE  \A p \in FreeSet : p \in Nat /\ p > 0 /\ pageToPhysical(p) \in Nat
                            /\ pageToPhysical(p) # OUT_OF_MEMORY
<1>1. \A p \in FreeSet : p \in Nat /\ p # 0
  BY DEF IInv, PagesConserved, AllocatablePages, FreeSet, Pages
<1>2. \A p \in Nat : p # 0 => p * PAGE_SIZE \in Nat /\ p * PAGE_SIZE # 0
  BY PageAssumption
<1>3. QED
  BY <1>1, <1>2 DEF pageToPhysical, OUT_OF_MEMORY

(* Handing out a set of free pages keeps counters and partition right. *)
LEMMA TakeIInv ==
  ASSUME IInv, phase = "ready",
         NEW S, S \subseteq FreeSet,
         bitmap' = bitmap \cup S,
         owned' = owned \cup S,
         freePages' = freePages - Cardinality(S),
         usedPages' = usedPages + Cardinality(S),
         lastAllocIndex' \in 0 .. totalPages,
         ret' \in [call : Calls, count : Nat, addr : Nat],
         ret'.addr # OUT_OF_MEMORY,
         UNCHANGED <<mapVars, phase, entry>>
  PROVE  IInv'
<1>1. totalPages \in Nat
  BY BitmapCoversPages DEF IInv, TypeOK
<1>2. UNCHANGED <<totalPages, Pages, AllocatablePages>>
  BY DEF mapVars, totalPages, Pages, BitmapPages, bitmapSize, UsablePages,
         AllocatablePages
<1>3. FreeSet' = FreeSet \ S
  BY <1>2 DEF FreeSet
<1>4. S \subseteq Pages /\ S \subseteq Nat
  BY <1>1 DEF FreeSet, Pages
<1>5. /\ Cardinality(FreeSet') = Cardinality(FreeSet) - Cardinality(S)
      /\ Cardinality(FreeSet) \in Nat
      /\ Cardinality(S) \in Nat
      /\ Cardinality(S) <= Cardinality(FreeSet)
  BY <1>1, <1>3, FreeSetCard, SubsetCard
<1>6. CountersAgree'
  BY <1>1, <1>2, <1>5 DEF IInv, TypeOK, CountersAgree
<1>7. TypeOK'
  <2>1. freePages' \in Nat /\ usedPages' \in Nat
    BY <1>5 DEF IInv, TypeOK, CountersAgree
  <2>2. bitmap' \in SUBSET Nat /\ owned' \in SUBSET Pages'
    BY <1>2, <1>4 DEF IInv, TypeOK
  <2>3. QED
    BY <1>2, <2>1, <2>2 DEF IInv, TypeOK, mapVars
<1>8. PagesConserved'
  BY <1>2, <1>3 DEF IInv, PagesConserved
<1>9. BootProgress' /\ OutOfMemoryIsReal'
  BY DEF mapVars, IInv, BootProgress, EntryEnd, OutOfMemoryIsReal
<1>10. QED
  BY <1>6, <1>7, <1>8, <1>9 DEF IInv

(* Taking back a set of owned pages does too. *)
LEMMA GiveIInv ==
  ASSUME IInv, phase = "ready",
         NEW S, S \subseteq owned,
         bitmap' = bitmap \ S,
         owned' = owned \ S,
         freePages' = freePages + Cardinality(S),
         usedPages' = usedPages - Cardinality(S),
         lastAllocIndex' \in 0 .. totalPages,
         ret' \in [call : Calls, count : Nat, addr : Nat],
         ret'.call # "allocPage",
         UNCHANGED <<mapVars, phase, entry>>
  PROVE  IInv'
<1>1. totalPages \in Nat
  BY BitmapCoversPages DEF IInv, TypeOK
<1>2. UNCHANGED <<totalPages, Pages, AllocatablePages>>
  BY DEF mapVars, totalPages, Pages, BitmapPages, bitmapSize, UsablePages,
         AllocatablePages
<1>3. S \subseteq Pages /\ FreeSet \cap S = {}
  BY DEF IInv, TypeOK, PagesConserved
<1>4. FreeSet' = FreeSet \cup S
  BY <1>2, <1>3 DEF FreeSet
<1>5. IsFiniteSet(S)
  BY <1>1, <1>3, FreeSetCard, FS_Subset
<1>6. /\ Cardinality(FreeSet') = Cardinality(FreeSet) + Cardinality(S)
      /\ Cardinality(FreeSet) \in Nat
      /\ Cardinality(S) \in Nat
  BY <1>1, <1>3, <1>4, <1>5, FreeSetCard, DisjointCard
<1>7. Cardinality(FreeSet') <= totalPages
  <2>1. FreeSet' \subseteq Pages
    BY <1>2 DEF FreeSet
  <2>2. QED
    BY <1>1, <2>1, FreeSetCard, FS_Subset
<1>8. CountersAgree'
  BY <1>1, <1>2, <1>6 DEF IInv, TypeOK, CountersAgree
<1>9. TypeOK'
  <2>1. freePages' \in Nat /\ usedPages' \in Nat
    BY <1>1, <1>6, <1>7 DEF IInv, TypeOK, CountersAgree
  <2>2. bitmap' \in SUBSET Nat /\ owned' \in SUBSET Pages'
    BY <1>2 DEF IInv, TypeOK
  <2>3. QED
    BY <1>2, <2>1, <2>2 DEF IInv, TypeOK, mapVars
<1>10. PagesConserved'
  BY <1>2, <1>4 DEF IInv, PagesConserved
<1>11. BootProgress' /\ OutOfMemoryIsReal'
  BY DEF mapVars, IInv, BootProgress, EntryEnd, OutOfMemoryIsReal
<1>12. QED
  BY <1>8, <1>9, <1>10, <1>11 DEF IInv

(* A refused allocation changes nothing but the answer. *)
LEMMA RefuseIInv ==
  ASSUME IInv,
         UNCHANGED <<mapVars, phase, entry, bitmap, usedPages, freePages,
                     lastAllocIndex, owned>>,
         phase = "ready",
         ret' \in [call : Calls, count : Nat, addr : Nat],
         ret'.call = "allocPage" => FreeSet = {}
  PROVE  IInv'
<1>1. UNCHANGED <<totalPages, Pages, FreeSet, AllocatablePages>>
  BY DEF mapVars, totalPages, Pages, BitmapPages, bitmapSize, UsablePages,
         AllocatablePages, FreeSet
<1>2. TypeOK'
  BY <1>1 DEF mapVars, IInv, TypeOK
<1>3. CountersAgree' /\ PagesConserved'
  BY <1>1 DEF IInv, CountersAgree, PagesConserved
<1>4. BootProgress' /\ OutOfMemoryIsReal'
  BY <1>1 DEF mapVars, IInv, BootProgress, EntryEnd, OutOfMemoryIsReal
<1>5. QED
  BY <1>2, <1>3, <1>4 DEF IInv

(* The page allocPage settles on is free: both scans stop at a clear bit. *)
LEMMA AllocPageFindsFree ==
  ASSUME IInv, NEW p \in Pages, AllocPageFinds(p)
  PROVE  p \in FreeSet
BY DEF AllocPageFinds, ScanStopsAt, FreeSet

(* Both scans failing means that no page is free, wherever the hint is. *)
LEMMA ScansCoverPages ==
  ASSUME IInv, ScanFails(lastAllocIndex, totalPages), ScanFails(0, lastAllocIndex)
  PROVE  FreeSet = {}
<1>1. totalPages \in Nat /\ lastAllocIndex \in 0 .. totalPages
  BY BitmapCoversPages DEF IInv, TypeOK
<1>2. \A p \in Pages : p \in lastAllocIndex .. totalPages - 1
                        \/ p \in 0 .. lastAllocIndex - 1
  BY <1>1 DEF Pages
<1>3. QED
  BY <1>2 DEF ScanFails, FreeSet

(* allocPage preserves the invariant. *)
LEMMA allocPageIInv == IInv /\ allocPage => IInv'
<1> SUFFICES ASSUME IInv, allocPage PROVE IInv'
  OBVIOUS
<1>1. totalPages \in Nat
  BY BitmapCoversPages DEF IInv, TypeOK
<1>2. ASSUME NEW p \in Pages,
             AllocPageFinds(p),
             bitmap' = bitmap \cup {p},
             usedPages' = usedPages + 1,
             freePages' = freePages - 1,
             lastAllocIndex' = p + 1,
             owned' = owned \cup {p},
             Return("allocPage", 1, pageToPhysical(p)),
             UNCHANGED <<mapVars, phase, entry>>,
             phase = "ready"
      PROVE  IInv'
  <2>1. p \in FreeSet
    BY <1>2, AllocPageFindsFree
  <2>2. pageToPhysical(p) \in Nat /\ pageToPhysical(p) # OUT_OF_MEMORY
    BY <1>2, <2>1, FreePagesNonzero
  <2>3. Cardinality({p}) = 1
    BY FS_Singleton
  <2>4. p + 1 \in 0 .. totalPages
    BY <1>1 DEF Pages
  <2>5. /\ ret' \in [call : Calls, count : Nat, addr : Nat]
        /\ ret'.addr # OUT_OF_MEMORY
    BY <1>2, <2>2 DEF Return, Calls
  <2>6. QED
    BY <1>2, <2>1, <2>3, <2>4, <2>5, TakeIInv
<1>3. ASSUME ScanFails(lastAllocIndex, totalPages),
             ScanFails(0, lastAllocIndex),
             Return("allocPage", 1, OUT_OF_MEMORY),
             UNCHANGED <<bitmap, usedPages, freePages, lastAllocIndex, owned>>,
             UNCHANGED <<mapVars, phase, entry>>,
             phase = "ready"
      PROVE  IInv'
  <2>1. FreeSet = {}
    BY <1>3, ScansCoverPages
  <2>2. ret' \in [call : Calls, count : Nat, addr : Nat]
    BY <1>3 DEF Return, Calls, OUT_OF_MEMORY
  <2>3. QED
    BY <1>3, <2>1, <2>2, RefuseIInv
<1>4. QED
  BY <1>2, <1>3 DEF allocPage

(* allocPages preserves the invariant. *)
LEMMA allocPagesIInv ==
  ASSUME IInv, NEW count \in 0 .. MaxCount, allocPages(count)
  PROVE  IInv'
<1>1. totalPages \in Nat /\ count \in Nat
  BY BitmapCoversPages, CountAssumption DEF IInv, TypeOK
<1>2. ASSUME count > 0,
             NEW s \in Pages,
             FreeRunAt(s, count),
             bitmap' = bitmap \cup Run(s, count),
             lastAllocIndex' = s + count,
             owned' = owned \cup Run(s, count),
             Return("allocPages", count, pageToPhysical(s)),
             freePages' = freePages - count,
             usedPages' = usedPages + count,
             UNCHANGED <<mapVars, phase, entry>>,
             phase = "ready"
      PROVE  IInv'
  <2>1. Run(s, count) \subseteq FreeSet /\ s \in Run(s, count)
    BY <1>1, <1>2 DEF FreeRunAt, FreeSet, Run, Pages
  <2>2. pageToPhysical(s) \in Nat /\ pageToPhysical(s) # OUT_OF_MEMORY
    BY <1>2, <2>1, FreePagesNonzero
  <2>3. Cardinality(Run(s, count)) = count
    BY <1>1, RunCard DEF Pages
  <2>4. s + count \in 0 .. totalPages
    BY <1>1, <1>2 DEF Pages, FreeRunAt
  <2>5. /\ ret' \in [call : Calls, count : Nat, addr : Nat]
        /\ ret'.addr # OUT_OF_MEMORY
    BY <1>1, <1>2, <2>2 DEF Return, Calls
  <2>6. QED
    BY <1>2, <2>1, <2>3, <2>4, <2>5, TakeIInv
<1>3. ASSUME Return("allocPages", count, OUT_OF_MEMORY),
             UNCHANGED <<bitmap, usedPages, freePages, lastAllocIndex, owned>>,
             UNCHANGED <<mapVars, phase, entry>>,
             phase = "ready"
      PROVE  IInv'
  <2>1. /\ ret' \in [call : Calls, count : Nat, addr : Nat]
        /\ ret'.call # "allocPage"
    BY <1>1, <1>3 DEF Return, Calls, OUT_OF_MEMORY
  <2>2. QED
    BY <1>3, <2>1, RefuseIInv
<1>4. QED
  BY <1>2, <1>3 DEF allocPages

(* freePage and freePages preserve the invariant. *)
LEMMA FreeRunIInv ==
  ASSUME IInv, NEW call \in {"freePage", "freePages"},
         NEW s \in Pages, NEW count \in Nat, FreeRun(call, s, count)
  PROVE  IInv'
<1>1. totalPages \in Nat
  BY BitmapCoversPages DEF IInv, TypeOK
<1>2. /\ ret' \in [call : Calls, count : Nat, addr : Nat]
      /\ ret'.call # "allocPage"
  BY DEF FreeRun, Return, Calls
<1>3. CASE phase' # "panic"
  <2>1. /\ phase = "ready" /\ phase' = phase
        /\ Run(s, count) \subseteq owned
        /\ bitmap' = bitmap \ Run(s, count)
        /\ freePages' = freePages + count
        /\ usedPages' = usedPages - count
        /\ lastAllocIndex' = IF s < lastAllocIndex THEN s ELSE lastAllocIndex
        /\ owned' = owned \ Run(s, count)
        /\ UNCHANGED <<mapVars, entry>>
    BY <1>3 DEF FreeRun
  <2>2. Cardinality(Run(s, count)) = count
    BY <1>1, RunCard DEF Pages
  <2>3. lastAllocIndex' \in 0 .. totalPages
    BY <1>1, <2>1 DEF IInv, TypeOK, Pages
  <2>4. QED
    BY <1>2, <2>1, <2>2, <2>3, GiveIInv
<1>4. CASE phase' = "panic"
  <2>1. UNCHANGED <<mapVars, entry, bitmap, usedPages, freePages, lastAllocIndex, owned>>
    BY <1>4 DEF FreeRun
  <2>2. UNCHANGED <<totalPages, Pages>>
    BY <2>1 DEF mapVars, totalPages, Pages
  <2>3. TypeOK'
    BY <1>2, <1>4, <2>1, <2>2 DEF mapVars, IInv, TypeOK, Phases
  <2>4. BootProgress'
    <3>1. phase # "loaded"
      BY DEF FreeRun
    <3>2. QED
      BY <1>4, <2>1, <3>1 DEF mapVars, IInv, BootProgress, EntryEnd
  <2>5. CountersAgree' /\ PagesConserved' /\ OutOfMemoryIsReal'
    BY <1>2, <1>4 DEF CountersAgree, PagesConserved, OutOfMemoryIsReal
  <2>6. QED
    BY <2>3, <2>4, <2>5 DEF IInv
<1>5. QED
  BY <1>3, <1>4

(* A step that changes nothing preserves the invariant. *)
LEMMA StutterIInv == IInv /\ UNCHANGED vars => IInv'
<1> SUFFICES ASSUME IInv, UNCHANGED vars PROVE IInv'
  OBVIOUS
<1>1. UNCHANGED <<memmap, highestAddress, bitmapPhysicalAddress, phase, entry, bitmap,
                  usedPages, freePages, lastAllocIndex, owned, ret>>
  BY DEF vars, mapVars
<1>2. UNCHANGED <<totalPages, Pages, FreeSet, AllocatablePages>>
  BY <1>1 DEF totalPages, Pages, BitmapPages, bitmapSize, UsablePages,
         AllocatablePages, FreeSet
<1>3. TypeOK'
  BY <1>1, <1>2 DEF IInv, TypeOK
<1>4. CountersAgree' /\ PagesConserved' /\ OutOfMemoryIsReal'
  BY <1>1, <1>2 DEF IInv, CountersAgree, PagesConserved, OutOfMemoryIsReal
<1>5. BootProgress'
  BY <1>1, <1>2 DEF IInv, BootProgress, EntryEnd, MarkedPages
<1>6. QED
  BY <1>3, <1>4, <1>5 DEF IInv

(* Every step preserves the invariant. *)
LEMMA NextIInv == IInv /\ [Next]_vars => IInv'
<1> SUFFICES ASSUME IInv, [Next]_vars PROVE IInv'
  OBVIOUS
<1>1. CASE ScanHighest
  BY <1>1, ScanHighestIInv
<1>2. CASE PlaceBitmap
  BY <1>2, PlaceBitmapIInv
<1>3. CASE MarkFreeEntry
  BY <1>3, MarkFreeEntryIInv
<1>4. CASE ReserveBitmap
  BY <1>4, ReserveBitmapIInv
<1>5. CASE allocPage
  BY <1>5, allocPageIInv
<1>6. ASSUME NEW count \in 0 .. MaxCount, allocPages(count) PROVE IInv'
  BY <1>6, allocPagesIInv
<1>7. ASSUME NEW p \in Pages, freePage(p) PROVE IInv'
  BY <1>7, FreeRunIInv DEF freePage
<1>8. ASSUME NEW s \in Pages, NEW count \in 1 .. MaxCount, freePageRun(s, count)
      PROVE  IInv'
  <2>1. count \in Nat
    BY CountAssumption
  <2>2. QED
    BY <1>8, <2>1, FreeRunIInv DEF freePageRun
<1>9. CASE Halted \/ UNCHANGED vars
  BY <1>9, StutterIInv DEF Halted
<1>10. QED
  BY <1>1, <1>2, <1>3, <1>4, <1>5, <1>6, <1>7, <1>8, <1>9 DEF Next

(* The inductive invariant holds throughout. *)
THEOREM Invariance == Spec => []IInv
BY InitIInv, NextIInv, PTL DEF Spec

(* For every page size and memory map, pmm.cpp's variables keep their       *)
(* types: no counter goes below zero, the hint stays within memory.         *)
THEOREM TypeCorrect == Spec => []TypeOK
BY Invariance, PTL DEF IInv

(* getFreePages and getUsedPages are exact for every memory map. *)
THEOREM CountersAreExact == Spec => []CountersExact
BY Invariance, PTL DEF IInv, CountersExact

(* Free and owned pages always partition the usable pages without the       *)
(* bitmap and page 0: no page is handed out twice, lost or stolen.          *)
THEOREM PagesAreConserved == Spec => []PagesConserved
BY Invariance, PTL DEF IInv

(* allocPage fails only when no page is free. *)
THEOREM OutOfMemoryIsExact == Spec => []OutOfMemoryIsReal
BY Invariance, PTL DEF IInv

-----------------------------------------------------------------------------
(* The run scan of allocPages *)

(* Induction over the numbers, for a set of them.                           *)
LEMMA SetInduction ==
  ASSUME NEW S, 0 \in S, \A n \in Nat : n \in S => n + 1 \in S
  PROVE  Nat \subseteq S
<1> DEFINE T == {n \in Nat : n \notin S}
<1> SUFFICES ASSUME T # {} PROVE FALSE
  OBVIOUS
<1>1. IsWellFoundedOn(OpToRel(<, Nat), Nat)
  BY NatLessThanWellFounded, Zenon
<1>2. PICK m \in T : \A k \in T : ~(<<k, m>> \in OpToRel(<, Nat))
  BY <1>1, WFMin, Zenon
<1>3. \A k \in Nat : k < m => k \in S
  BY <1>2 DEF OpToRel
<1> QED
  BY <1>3

Accumulator == [runStart : Nat, runLength : Nat, found : BOOLEAN]
NoRun == [runStart |-> 0, runLength |-> 0, found |-> FALSE]

(* What the loop has done after n pages: f[k] is its state after k.         *)
IsScan(count, n, f) ==
  f = [k \in 0 .. n |-> IF k = 0 THEN [runStart |-> 0, runLength |-> 0, found |-> FALSE]
                        ELSE RunScanStep(count, f[k - 1], k - 1)]

(* The loop can go over any number of pages.                                *)
LEMMA ScanExists ==
  ASSUME NEW count
  PROVE  \A n \in Nat : \E f : IsScan(count, n, f)
<1> DEFINE S == {n \in Nat : \E f : IsScan(count, n, f)}
           Turn(f, k) == IF k = 0 THEN [runStart |-> 0, runLength |-> 0, found |-> FALSE]
                         ELSE RunScanStep(count, f[k - 1], k - 1)
<1>1. 0 \in S
  <2> DEFINE f == [k \in 0 .. 0 |-> NoRun]
             d == [k \in 0 .. 0 |-> Turn(f, k)]
  <2>1. \A k \in 0 .. 0 : k = 0
    OBVIOUS
  <2>2. f = d
    BY <2>1 DEF NoRun
  <2>3. IsScan(count, 0, f)
    <3> HIDE DEF f
    <3> QED
      BY <2>2, Zenon DEF IsScan
  <2> QED
    BY <2>3
<1>2. ASSUME NEW n \in Nat, n \in S PROVE n + 1 \in S
  <2>1. PICK b : IsScan(count, n, b)
    BY <1>2
  <2> DEFINE f == [k \in 0 .. n + 1 |-> IF k = n + 1 THEN RunScanStep(count, b[n], n) ELSE b[k]]
             d == [k \in 0 .. n + 1 |-> Turn(f, k)]
  <2>2. \A k \in 0 .. n : b[k] = Turn(b, k)
    BY <2>1 DEF IsScan
  <2>3. \A k \in 0 .. n + 1 : f[k] = Turn(f, k)
    <3> TAKE k \in 0 .. n + 1
    <3>1. CASE k = n + 1
      <4>1. f[k] = RunScanStep(count, b[n], n)
        BY <3>1
      <4>2. k - 1 = n /\ k # 0 /\ n \in 0 .. n + 1 /\ n # n + 1
        BY <3>1
      <4>3. f[k - 1] = b[n]
        BY <4>2
      <4> QED
        BY <4>1, <4>2, <4>3
    <3>2. CASE k \in 0 .. n
      <4>1. k # n + 1 /\ f[k] = b[k]
        BY <3>2
      <4>2. CASE k = 0
        BY <4>1, <4>2, <2>2, <3>2
      <4>3. CASE k # 0
        <5>1. k - 1 \in 0 .. n + 1 /\ k - 1 # n + 1
          BY <4>3, <3>2
        <5>2. f[k - 1] = b[k - 1]
          BY <5>1
        <5> QED
          BY <4>1, <4>3, <5>2, <2>2, <3>2
      <4> QED
        BY <4>2, <4>3
    <3> QED
      BY <3>1, <3>2
  <2>4. f = d
    <3> HIDE DEF Turn
    <3> QED
      BY <2>3
  <2>5. IsScan(count, n + 1, f)
    <3> HIDE DEF f
    <3> QED
      BY <2>4, Zenon DEF IsScan
  <2> QED
    BY <2>5
<1> HIDE DEF S
<1>3. Nat \subseteq S
  BY <1>1, <1>2, SetInduction
<1> QED
  BY <1>3 DEF S

FreeAt(s, count) == Run(s, count) \cap bitmap = {}

(* What the loop knows after n pages: the free pages just behind it, and    *)
(* that no run ends among the pages it has seen; or the lowest run.         *)
Searching(count, n, acc) ==
  /\ ~acc.found
  /\ acc.runLength <= n /\ acc.runLength < count
  /\ acc.runLength # 0 => acc.runStart = n - acc.runLength
  /\ \A p \in Nat : n - acc.runLength <= p /\ p < n => p \notin bitmap
  /\ acc.runLength # n => n - acc.runLength - 1 \in bitmap
  /\ \A s \in Nat : s + count <= n => ~FreeAt(s, count)

Found(count, n, acc) ==
  /\ acc.found
  /\ acc.runStart + count <= n
  /\ FreeAt(acc.runStart, count)
  /\ \A s \in Nat : s < acc.runStart => ~FreeAt(s, count)

Knows(count, n, acc) ==
  acc \in Accumulator /\ (Searching(count, n, acc) \/ Found(count, n, acc))

(* A run is free if each of its pages is.                                   *)
LEMMA FreeAtPages ==
  ASSUME NEW s \in Nat, NEW count \in Nat
  PROVE  FreeAt(s, count) <=> \A p \in Nat : s <= p /\ p < s + count => p \notin bitmap
<1>1. \A p : p \in Run(s, count) <=> p \in Nat /\ s <= p /\ p < s + count
  BY DEF Run
<1> HIDE DEF Run
<1> QED
  BY <1>1 DEF FreeAt

(* One page more.                                                           *)
LEMMA ScanLearns ==
  ASSUME NEW count \in Nat \ {0}, NEW n \in Nat, NEW acc, Knows(count, n, acc)
  PROVE  Knows(count, n + 1, RunScanStep(count, acc, n))
<1> DEFINE new == RunScanStep(count, acc, n)
<1>1. /\ acc \in Accumulator /\ acc.runStart \in Nat /\ acc.runLength \in Nat
      /\ acc.found \in BOOLEAN
  BY DEF Knows, Accumulator
<1>2. CASE acc.found
  <2>1. new = acc
    BY <1>2 DEF RunScanStep
  <2>2. Found(count, n, acc)
    BY <1>2 DEF Knows, Searching
  <2>3. acc.runStart + count <= n + 1
    BY <1>1, <2>2 DEF Found
  <2> QED
    BY <1>1, <2>1, <2>2, <2>3 DEF Knows, Found
<1>3. CASE ~acc.found /\ n \in bitmap
  <2>1. /\ new = [acc EXCEPT !.runLength = 0] /\ new \in Accumulator
        /\ ~new.found /\ new.runLength = 0
    BY <1>1, <1>3 DEF RunScanStep, Accumulator
  <2>2. Searching(count, n, acc)
    BY <1>3 DEF Knows, Found
  <2> HIDE DEF new
  <2>3. ASSUME NEW s \in Nat, s + count <= n + 1
        PROVE  ~FreeAt(s, count)
    <3>1. CASE s + count <= n
      BY <2>2, <3>1 DEF Searching
    <3>2. CASE s + count = n + 1
      <4>1. s <= n /\ n < s + count
        BY <3>2
      <4> QED
        BY <1>3, <4>1, FreeAtPages
    <3> QED
      BY <2>3, <3>1, <3>2
  <2>4. Searching(count, n + 1, new)
    BY <1>3, <2>1, <2>3 DEF Searching
  <2> QED
    BY <2>1, <2>4 DEF Knows, new
<1>4. CASE ~acc.found /\ n \notin bitmap
  <2> DEFINE l == acc.runLength
             start == n - l
  <2>1. Searching(count, n, acc)
    BY <1>4 DEF Knows, Found
  <2>2. /\ l <= n /\ l < count /\ start \in Nat
        /\ \A p \in Nat : start <= p /\ p < n => p \notin bitmap
        /\ l # n => start - 1 \in bitmap
        /\ \A s \in Nat : s + count <= n => ~FreeAt(s, count)
    BY <1>1, <2>1 DEF Searching
  <2>3. new = [runStart |-> IF l = 0 THEN n ELSE acc.runStart,
               runLength |-> l + 1, found |-> l + 1 = count]
    BY <1>4 DEF RunScanStep
  <2>4. /\ new.runStart = start /\ new.runLength = l + 1
        /\ new.found = (l + 1 = count) /\ new \in Accumulator
    <3>1. (IF l = 0 THEN n ELSE acc.runStart) = start
      BY <1>1, <2>1 DEF Searching
    <3>2. start \in Nat /\ l + 1 \in Nat
      BY <1>1, <2>2
    <3> HIDE DEF start, l
    <3> QED
      BY <2>3, <3>1, <3>2 DEF Accumulator
  <2>5. l \in Nat
    BY <1>1
  <2> HIDE DEF new, l
  <2>6. \A p \in Nat : start <= p /\ p < n + 1 => p \notin bitmap
    BY <1>4, <2>2, <2>5
  <2>7. CASE l + 1 = count
    <3>1. FreeAt(start, count)
      <4>1. start + count = n + 1
        BY <2>2, <2>5, <2>7
      <4> QED
        BY <2>2, <2>6, <4>1, FreeAtPages
    <3>2. \A s \in Nat : s < start => ~FreeAt(s, count)
      BY <2>2, <2>5, <2>7
    <3>3. start + count <= n + 1
      BY <2>2, <2>5, <2>7
    <3>4. Found(count, n + 1, new)
      BY <2>4, <2>7, <3>1, <3>2, <3>3 DEF Found
    <3> QED
      BY <2>4, <3>4 DEF Knows, new
  <2>8. CASE l + 1 # count
    <3>1. ASSUME NEW s \in Nat, s + count <= n + 1
          PROVE  ~FreeAt(s, count)
      <4>1. CASE s + count <= n
        BY <2>2, <4>1
      <4>2. CASE s + count = n + 1
        <5>1. s <= start - 1 /\ start - 1 < s + count /\ start - 1 \in Nat /\ l # n
          BY <2>2, <2>5, <2>8, <4>2
        <5> QED
          BY <2>2, <5>1, FreeAtPages
      <4> QED
        BY <3>1, <4>1, <4>2
    <3>2. /\ l + 1 <= n + 1 /\ l + 1 < count /\ (n + 1) - (l + 1) = start
          /\ l + 1 # n + 1 => start - 1 \in bitmap
      BY <2>2, <2>5, <2>8
    <3>3. Searching(count, n + 1, new)
      BY <2>4, <2>6, <2>8, <3>1, <3>2 DEF Searching
    <3> QED
      BY <2>4, <3>3 DEF Knows, new
  <2> QED
    BY <2>7, <2>8
<1> QED
  BY <1>1, <1>2, <1>3, <1>4

(* The whole loop.                                                          *)
LEMMA ScanKnows ==
  ASSUME NEW count \in Nat \ {0}, totalPages \in Nat
  PROVE  Knows(count, totalPages, RunScan(count))
<1> DEFINE N == totalPages
           f == CHOOSE g : IsScan(count, N, g)
           S == {n \in Nat : n <= N => Knows(count, n, f[n])}
<1>1. IsScan(count, N, f)
  BY ScanExists, Zenon
<1>2. RunScan(count) = f[N]
  BY DEF RunScan, IsScan
<1> HIDE DEF f, N
<1>3. /\ \A k \in 0 .. N : f[k] = IF k = 0 THEN NoRun ELSE RunScanStep(count, f[k - 1], k - 1)
      /\ N \in Nat
  BY <1>1 DEF IsScan, NoRun, N
<1>4. 0 \in S
  <2>1. Searching(count, 0, NoRun) /\ NoRun \in Accumulator
    <3>1. \A s \in Nat : ~(s + count <= 0)
      OBVIOUS
    <3> QED
      BY <3>1 DEF Searching, NoRun, Accumulator
  <2>2. f[0] = NoRun
    BY <1>3
  <2> QED
    BY <2>1, <2>2 DEF Knows
<1>5. ASSUME NEW n \in Nat, n \in S PROVE n + 1 \in S
  <2> SUFFICES ASSUME n + 1 <= N PROVE Knows(count, n + 1, f[n + 1])
    OBVIOUS
  <2>1. n <= N /\ n + 1 \in 0 .. N /\ n + 1 # 0 /\ (n + 1) - 1 = n
    BY <1>3
  <2>2. f[n + 1] = RunScanStep(count, f[n], n)
    BY <1>3, <2>1
  <2>3. Knows(count, n, f[n])
    BY <1>5, <2>1
  <2> QED
    BY <2>2, <2>3, ScanLearns
<1> HIDE DEF S
<1>6. Nat \subseteq S
  BY <1>4, <1>5, SetInduction
<1>7. N \in S /\ N <= N
  BY <1>3, <1>6
<1> QED
  BY <1>2, <1>7 DEF S, N

(* pmm.cpp:174: one pass over the bitmap, which remembers only where the run*)
(* at hand began and how long it is, finds the lowest run of free pages of  *)
(* any length, and finds none only when there is none.                      *)
THEOREM RunScanIsFirstFit == Spec => []RunScanFindsFirstRun
<1>1. ASSUME IInv, NEW count \in 1 .. MaxCount
      PROVE  LET starts == {s \in Pages : FreeRunAt(s, count)}
                 scan == RunScan(count)
             IN  /\ scan.found <=> starts # {}
                 /\ scan.found => /\ scan.runStart \in starts
                                  /\ \A s \in starts : scan.runStart <= s
  <2> DEFINE scan == RunScan(count)
             starts == {s \in Pages : FreeRunAt(s, count)}
  <2>1. count \in Nat \ {0} /\ totalPages \in Nat
    <3>1. highestAddress \in Nat /\ PAGE_SIZE \in Nat \ {0}
      BY <1>1, PageAssumption DEF IInv, TypeOK
    <3>2. totalPages \in Nat
      BY <3>1, BitmapCoversPages
    <3> QED
      BY <3>2, CountAssumption
  <2>2. Knows(count, totalPages, scan)
    BY <2>1, ScanKnows
  <2>3. scan \in Accumulator /\ scan.runStart \in Nat
    BY <2>2 DEF Knows, Accumulator
  <2>4. \A s : s \in starts <=> s \in Nat /\ s + count <= totalPages /\ FreeAt(s, count)
    BY <2>1 DEF Pages, FreeRunAt, FreeAt
  <2> HIDE DEF scan, starts
  <2>5. CASE Searching(count, totalPages, scan)
    <3>1. ~scan.found /\ starts = {}
      BY <2>4, <2>5 DEF Searching
    <3> QED
      BY <3>1 DEF scan, starts
  <2>6. CASE Found(count, totalPages, scan)
    <3>1. scan.found /\ scan.runStart \in starts
      BY <2>3, <2>4, <2>6 DEF Found
    <3>2. \A s \in starts : scan.runStart <= s
      BY <2>3, <2>4, <2>6 DEF Found
    <3> QED
      BY <3>1, <3>2 DEF scan, starts
  <2> QED
    BY <2>2, <2>5, <2>6 DEF Knows
<1>2. IInv => RunScanFindsFirstRun
  BY <1>1 DEF RunScanFindsFirstRun
<1> QED
  BY <1>2, Invariance, PTL

-----------------------------------------------------------------------------
(* PhysicalMemory implements PageAllocator *)

(* The initial state maps to the initial state of the pool. *)
LEMMA PoolInitial == Init => Pool!PoolInit
BY DEF Init, Pool!PoolInit, Pool!NoAnswer

(* Every step maps to a step of the pool or to a stutter. *)
LEMMA PoolStep == IInv /\ IInv' /\ [Next]_vars => [Pool!PoolNext]_(Pool!poolVars)
<1> SUFFICES ASSUME IInv, IInv', [Next]_vars
             PROVE  [Pool!PoolNext]_(Pool!poolVars)
  OBVIOUS
<1>1. CASE ScanHighest
  BY <1>1 DEF ScanHighest, Pool!poolVars
<1>2. CASE PlaceBitmap
  <2>1. CASE phase' = "marking"
    BY <1>2, <2>1 DEF PlaceBitmap, Pool!poolVars
  <2>2. CASE phase' = "panic"
    <3>1. Pool!Halt
      BY <1>2, <2>2 DEF PlaceBitmap, Pool!Halt, Pool!NoAnswer, IInv, BootProgress
    <3>2. QED
      BY <3>1 DEF Pool!PoolNext
  <2>3. QED
    BY <1>2, <2>1, <2>2 DEF PlaceBitmap
<1>3. CASE MarkFreeEntry
  BY <1>3 DEF MarkFreeEntry, mapVars, Pool!poolVars
<1>4. CASE ReserveBitmap
  <2>1. FreeSet' \in SUBSET (Nat \ {0})
    BY <1>4 DEF ReserveBitmap, IInv, PagesConserved, AllocatablePages, FreeSet, Pages
  <2>2. Pool!ComeUp
    BY <1>4, <2>1 DEF ReserveBitmap, Pool!ComeUp
  <2>3. QED
    BY <2>2 DEF Pool!PoolNext
<1>5. CASE allocPage
  <2>1. /\ phase = "ready" /\ phase' = "ready"
        /\ UNCHANGED <<totalPages, Pages>>
        /\ 1 \in 0 .. MaxCount
    BY <1>5, CountAssumption DEF allocPage, mapVars, totalPages, Pages
  <2>2. ASSUME NEW p \in Pages,
               AllocPageFinds(p),
               bitmap' = bitmap \cup {p},
               owned' = owned \cup {p},
               Return("allocPage", 1, pageToPhysical(p))
        PROVE  Pool!PoolNext
    <3>1. p \in FreeSet /\ p \in Nat /\ pageToPhysical(p) # OUT_OF_MEMORY
      BY <2>1, <2>2, AllocPageFindsFree, FreePagesNonzero
    <3>2. Pool!Interval(p, 1) = {p}
      BY <3>1 DEF Pool!Interval
    <3>3. FreeSet' = FreeSet \ {p}
      BY <2>1, <2>2 DEF FreeSet
    <3>4. ret'.call = "allocPage" /\ ret'.count = 1 /\ ret'.addr # OUT_OF_MEMORY
      BY <2>2, <3>1 DEF Return
    <3>5. Pool!Take(p, 1)
      <4>1. 1 > 0 /\ {p} \subseteq FreeSet
        BY <3>1
      <4>2. QED
        BY <2>1, <2>2, <3>2, <3>3, <3>4, <4>1 DEF Pool!Take
    <3>6. QED
      BY <2>1, <3>1, <3>5 DEF Pool!PoolNext
  <2>3. ASSUME ScanFails(lastAllocIndex, totalPages),
               ScanFails(0, lastAllocIndex),
               Return("allocPage", 1, OUT_OF_MEMORY),
               UNCHANGED <<bitmap, owned>>
        PROVE  Pool!PoolNext
    <3>1. FreeSet = {} /\ FreeSet' = FreeSet
      BY <2>1, <2>3, ScansCoverPages DEF FreeSet
    <3>2. Pool!Refuse(1)
      BY <2>1, <2>3, <3>1 DEF Pool!Refuse, Return
    <3>3. QED
      BY <2>1, <3>2 DEF Pool!PoolNext
  <2>4. QED
    BY <1>5, <2>2, <2>3 DEF allocPage
<1>6. ASSUME NEW count \in 0 .. MaxCount, allocPages(count)
      PROVE  Pool!PoolNext
  <2>1. /\ phase = "ready" /\ phase' = "ready"
        /\ UNCHANGED <<totalPages, Pages>>
        /\ count \in Nat
        /\ totalPages \in Nat
    BY <1>6, CountAssumption, BitmapCoversPages
    DEF allocPages, mapVars, totalPages, Pages, IInv, TypeOK
  <2>2. ASSUME count > 0,
               NEW s \in Pages,
               FreeRunAt(s, count),
               bitmap' = bitmap \cup Run(s, count),
               owned' = owned \cup Run(s, count),
               Return("allocPages", count, pageToPhysical(s))
        PROVE  Pool!PoolNext
    <3>1. Run(s, count) \subseteq FreeSet /\ s \in FreeSet
      BY <2>1, <2>2 DEF FreeRunAt, FreeSet, Run, Pages
    <3>2. pageToPhysical(s) # OUT_OF_MEMORY
      BY <2>1, <3>1, FreePagesNonzero
    <3>3. FreeSet' = FreeSet \ Run(s, count)
      BY <2>1, <2>2 DEF FreeSet
    <3>4. Pool!Take(s, count)
      BY <2>1, <2>2, <3>1, <3>2, <3>3 DEF Pool!Take, Pool!Interval, Run, Return
    <3>5. QED
      BY <2>1, <3>1, <3>4 DEF Pool!PoolNext
  <2>3. ASSUME count > 0 => \A s \in Pages : ~FreeRunAt(s, count),
               Return("allocPages", count, OUT_OF_MEMORY),
               UNCHANGED <<bitmap, owned>>
        PROVE  Pool!PoolNext
    <3>1. ASSUME count > 0, NEW s \in FreeSet, Run(s, count) \subseteq FreeSet
          PROVE  FALSE
      <4>1. s \in Pages /\ s \in Nat /\ s + count - 1 \in Pages
        BY <2>1, <3>1 DEF FreeSet, Run, Pages
      <4>2. FreeRunAt(s, count)
        BY <2>1, <3>1, <4>1 DEF FreeRunAt, FreeSet, Pages
      <4>3. QED
        BY <2>3, <3>1, <4>1, <4>2
    <3>2. FreeSet' = FreeSet
      BY <2>1, <2>3 DEF FreeSet
    <3>3. Pool!Refuse(count)
      BY <2>1, <2>3, <3>1, <3>2 DEF Pool!Refuse, Pool!Interval, Run, Return
    <3>4. QED
      BY <2>1, <3>3 DEF Pool!PoolNext
  <2>4. QED
    BY <1>6, <2>2, <2>3 DEF allocPages
<1>7. ASSUME NEW call \in {"freePage", "freePages"}, NEW s \in Pages,
             NEW count \in 1 .. MaxCount, FreeRun(call, s, count)
      PROVE  Pool!PoolNext
  <2>1. /\ phase = "ready"
        /\ UNCHANGED <<totalPages, Pages>>
        /\ Return(call, count, 0)
        /\ count \in 0 .. MaxCount
        /\ count > 0
    BY <1>7, CountAssumption DEF FreeRun, mapVars, totalPages, Pages
  <2>2. CASE phase' # "panic"
    <3>1. /\ phase' = "ready"
          /\ Run(s, count) \subseteq owned
          /\ bitmap' = bitmap \ Run(s, count)
          /\ owned' = owned \ Run(s, count)
      BY <1>7, <2>2 DEF FreeRun
    <3>2. s \in owned
      BY <2>1, <3>1 DEF Run, Pages
    <3>3. FreeSet' = FreeSet \cup Run(s, count)
      BY <2>1, <3>1 DEF FreeSet, IInv, TypeOK
    <3>4. Pool!Give(s, count)
      BY <2>1, <3>1, <3>3 DEF Pool!Give, Pool!Interval, Pool!NoAnswer, Run, Return
    <3>5. QED
      BY <2>1, <3>2, <3>4 DEF Pool!PoolNext
  <2>3. CASE phase' = "panic"
    <3>1. owned' = owned
      BY <1>7, <2>1, <2>3 DEF FreeRun
    <3>2. Pool!Halt
      BY <2>1, <2>3, <3>1 DEF Pool!Halt, Pool!NoAnswer, Return
    <3>3. QED
      BY <3>2 DEF Pool!PoolNext
  <2>4. QED
    BY <2>2, <2>3
<1>9. CASE Halted \/ UNCHANGED vars
  <2>1. UNCHANGED <<phase, owned, ret>> /\ FreeSet' = FreeSet
    BY <1>9 DEF Halted, vars, mapVars, FreeSet, Pages, totalPages
  <2>2. QED
    BY <2>1 DEF Pool!poolVars
<1>10. QED
  <2>1. 1 \in 1 .. MaxCount
    BY CountAssumption
  <2>2. QED
    BY <1>1, <1>2, <1>3, <1>4, <1>5, <1>6, <1>7, <1>9, <2>1
    DEF Next, freePage, freePageRun

(* pmm.cpp implements the page pool its header promises. *)
THEOREM Refinement == Spec => ImplementsPool
<1>1. Init => Pool!PoolInit
  BY PoolInitial
<1>2. IInv /\ IInv' /\ [Next]_vars => [Pool!PoolNext]_(Pool!poolVars)
  BY PoolStep
<1>3. QED
  BY <1>1, <1>2, Invariance, PTL DEF Spec, ImplementsPool, Pool!PoolSpec

=============================================================================
