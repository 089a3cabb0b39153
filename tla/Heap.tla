-------------------------------- MODULE Heap --------------------------------
(***************************************************************************)
(* The kernel heap, kernel/core/memory/heap.cpp: a first-fit allocator over*)
(* a doubly linked list of blocks that tile [heapStart, heapEnd), grown one*)
(* page at a time with frames from the page allocator.                     *)
(*                                                                         *)
(* hdr maps the address of each block on the list to its header; addresses *)
(* count from KERNEL_HEAP_START, and a block stands for the pointer past   *)
(* its header that callers hold.  realloc(nullptr, n) is allocate(n).      *)
(* Calls run to completion (the kernel has one thread and no interrupt     *)
(* handler allocates); the loop of expandHeap is one action per page, as   *)
(* each turn calls the page allocator and the page tables, which can fail: *)
(* call says how far it got.  The heap tells frames apart by nothing but   *)
(* their number, so the page allocator is the number of free frames.       *)
(***************************************************************************)
EXTENDS Integers, FiniteSets

CONSTANTS
  HDR,          (* sizeof(HeapBlock)                                        *)
  ALIGN,        (* 16, the granularity of block sizes                       *)
  PAGE,         (* 4096                                                     *)
  InitialSize,  (* KERNEL_HEAP_INITIAL_SIZE                                 *)
  MaxSize,      (* KERNEL_HEAP_MAX_SIZE                                     *)
  Word,         (* 2^64: the counters wrap                                  *)
  Requests,     (* the sizes callers ask for                                *)
  MaxFrames,    (* bound: free frames in the machine                        *)
  TableSpan     (* pages that one last-level page table maps                *)

ASSUME SizeAssumption ==
  /\ ALIGN \in Nat \ {0}
  /\ HDR \in Nat \ {0} /\ HDR % ALIGN = 0
  /\ PAGE \in Nat \ {0} /\ PAGE % ALIGN = 0 /\ HDR + ALIGN <= PAGE
  /\ InitialSize \in Nat \ {0} /\ InitialSize % PAGE = 0
  /\ MaxSize \in Nat /\ InitialSize <= MaxSize
  /\ Word \in Nat /\ MaxSize < Word
  /\ Requests \subseteq Nat
  /\ MaxFrames \in Nat
  /\ TableSpan \in Nat \ {0}

VARIABLES
  hdr,         (* block address -> header                                   *)
  heapEnd,
  usedMemory,
  freeMemory,
  mapped,      (* heap pages that have a page table entry                   *)
  tables,      (* last-level page tables of the heap area that exist        *)
  frames,      (* free frames of the page allocator                         *)
  call,        (* the call in progress                                      *)
  live,        (* ghost: what callers hold, block -> bytes asked for        *)
  expansions   (* ghost: how often expandHeap succeeded                     *)

vars == <<hdr, heapEnd, usedMemory, freeMemory, mapped, tables, frames, call,
          live, expansions>>

NULL == -1
heapStart == 0
heapMaxPastEnd == heapStart + MaxSize + PAGE
heapMax == heapStart + MaxSize

alignUp(x, a) == ((x + a - 1) \div a) * a

Header(size, free, next, prev) ==
  [size |-> size, free |-> free, next |-> next, prev |-> prev]

(* The address just past a block. *)
End(h, a) == a + HDR + h[a].size

-----------------------------------------------------------------------------
(* The list operations, as functions of the headers *)

SetFree(h, a, isFree) ==
  [b \in DOMAIN h |-> IF b = a THEN [h[a] EXCEPT !.free = isFree] ELSE h[b]]

(* The part of block a past its first size bytes becomes a block. *)
CarveKeepsPrev(h, a, size) ==
  LET new == a + HDR + size
  IN  [b \in DOMAIN h \cup {new} |->
         IF b = new THEN Header(h[a].size - size - HDR, TRUE, h[a].next, a)
         ELSE IF b = a THEN Header(size, h[a].free, new, h[a].prev)
         ELSE h[b]]

Carve(h, a, size) ==
  LET new == a + HDR + size
  IN  [b \in DOMAIN h \cup {new} |->
         IF b = new THEN Header(h[a].size - size - HDR, TRUE, h[a].next, a)
         ELSE IF b = a THEN Header(size, h[a].free, new, h[a].prev)
         ELSE IF b = h[a].next THEN [h[b] EXCEPT !.prev = new]
         ELSE h[b]]

splitBlockTruncates(h, a, size) ==
  IF h[a].size - size <= HDR + ALIGN
  THEN [b \in DOMAIN h |-> IF b = a THEN [h[a] EXCEPT !.size = size] ELSE h[b]]
  ELSE Carve(h, a, size)

splitBlock(h, a, size) ==
  IF h[a].size - size <= HDR + ALIGN THEN h ELSE Carve(h, a, size)

(* Block a takes over the block next after it. *)
Absorb(h, a, next) ==
  [b \in DOMAIN h \ {next} |->
     IF b = a THEN Header(h[a].size + HDR + h[next].size, h[a].free,
                          h[next].next, h[a].prev)
     ELSE IF b = h[next].next THEN [h[b] EXCEPT !.prev = a]
     ELSE h[b]]

mergeWithNextUnchecked(h, a) ==
  IF h[a].next = NULL THEN h ELSE Absorb(h, a, h[a].next)

mergeWithNext(h, a) ==
  IF h[a].next = NULL \/ ~h[h[a].next].free THEN h ELSE Absorb(h, a, h[a].next)

(* findFreeBlock returns a: the first block of the list that fits, which is *)
(* the lowest one (WalkFindsFirstFit).                                      *)
Fits(h, a, size) == a \in DOMAIN h /\ h[a].free /\ h[a].size >= size

FirstFit(h, a, size) ==
  Fits(h, a, size) /\ \A b \in DOMAIN h : b < a => ~Fits(h, b, size)

NoFit(h, size) == \A b \in DOMAIN h : ~Fits(h, b, size)

(* findFreeBlock as written: follow next from the head of the list.         *)
findFreeBlock(h, size) ==
  LET walk[a \in DOMAIN h \cup {NULL}] ==
        IF a = NULL \/ Fits(h, a, size) THEN a ELSE walk[h[a].next]
  IN  walk[IF DOMAIN h = {} THEN NULL ELSE heapStart]

(* The end of expandHeap: a block for the new pages at the end of the list, *)
(* merged into the last block if that is free.                              *)
Last(h, a) == a \in DOMAIN h /\ h[a].next = NULL

AppendBlockUnlinked(h, e, size, last) ==
  [b \in DOMAIN h \cup {e} |->
     IF b = e THEN Header(size - HDR, TRUE, NULL, last) ELSE h[b]]

AppendBlock(h, e, size, last) ==
  LET linked == [b \in DOMAIN h \cup {e} |->
                   IF b = e THEN Header(size - HDR, TRUE, NULL, last)
                   ELSE IF b = last THEN [h[b] EXCEPT !.next = e]
                   ELSE h[b]]
  IN  IF last # NULL /\ h[last].free
      THEN mergeWithNext(linked, last)
      ELSE linked

(* free(block): mark, then merge with the next and with the previous block. *)
ReleaseForwardOnly(h, a) == mergeWithNext(SetFree(h, a, TRUE), a)

Release(h, a) ==
  LET marked == SetFree(h, a, TRUE)
      forward == mergeWithNext(marked, a)
      prev == forward[a].prev
  IN  IF prev # NULL /\ forward[prev].free
      THEN mergeWithNext(forward, prev)
      ELSE forward

-----------------------------------------------------------------------------
Idle == [op |-> "idle", request |-> 0, old |-> NULL, total |-> 0, offset |-> 0]

Panic == [Idle EXCEPT !.op = "panic"]

(* expandHeap(total) is in progress for heap::init, allocate(request) or    *)
(* realloc(old, request).                                                   *)
Expanding(op, request, old, total) ==
  [op |-> op, request |-> request, old |-> old, total |-> total, offset |-> 0]

Init ==
  /\ hdr = [a \in {} |-> Header(0, TRUE, NULL, NULL)]
  /\ heapEnd = heapStart
  /\ usedMemory = 0
  /\ freeMemory = 0
  /\ mapped = {}
  /\ tables = {}
  /\ frames \in 0 .. MaxFrames
  /\ call = Expanding("init", 0, NULL, InitialSize)
  /\ live = [a \in {} |-> 0]
  /\ expansions = 0

(* The rest of allocate once a block a has been found in h, and for realloc *)
(* the copy and the release of the old block.  used and free are the        *)
(* counters so far.                                                         *)
Grant(h, a, request, old, used, free) ==
  LET size == alignUp(request, ALIGN)
      split == splitBlock(h, a, size)
      taken == SetFree(split, a, FALSE)
      got == taken[a].size
      holding == [b \in DOMAIN live \cup {a} |->
                    IF b = a THEN request ELSE live[b]]
  IN  IF old = NULL
      THEN /\ hdr' = taken
           /\ usedMemory' = (used + got) % Word
           /\ freeMemory' = (free - got) % Word
           /\ live' = holding
      ELSE /\ hdr' = Release(taken, old)
           /\ usedMemory' = (used + got - taken[old].size) % Word
           /\ freeMemory' = (free - got + taken[old].size) % Word
           /\ live' = [b \in DOMAIN holding \ {old} |-> holding[b]]

(* How much allocate asks expandHeap for, and expandHeap rounds it to.      *)
ExpandSize(size) ==
  alignUp(IF size + HDR < PAGE THEN PAGE ELSE size + HDR, PAGE)

(* allocate(request), alone or from realloc(old, request).                  *)
Allocate(op, request, old) ==
  LET size == alignUp(request, ALIGN)
  IN  \/ /\ request = 0
         /\ UNCHANGED <<hdr, usedMemory, freeMemory, call, live>>
      \/ /\ request > 0
         /\ \E a \in DOMAIN hdr :
              /\ FirstFit(hdr, a, size)
              /\ Grant(hdr, a, request, old, usedMemory, freeMemory)
         /\ UNCHANGED call
      \/ /\ request > 0
         /\ NoFit(hdr, size)
         /\ heapEnd + ExpandSize(size) > heapMax
         /\ UNCHANGED <<hdr, usedMemory, freeMemory, call, live>>
      \/ /\ request > 0
         /\ NoFit(hdr, size)
         /\ heapEnd + ExpandSize(size) <= heapMax
         /\ call' = Expanding(op, request, old, ExpandSize(size))
         /\ UNCHANGED <<hdr, usedMemory, freeMemory, live>>

allocate(request) ==
  /\ call = Idle
  /\ Allocate("allocate", request, NULL)
  /\ UNCHANGED <<heapEnd, mapped, tables, frames, expansions>>

(* realloc of a held block: in place if it is large enough; a size of 0     *)
(* trips ASSERT(newSize > 0).                                               *)
realloc(a, request) ==
  /\ call = Idle
  /\ a \in DOMAIN live
  /\ \/ /\ request = 0
        /\ call' = Panic
        /\ UNCHANGED <<hdr, usedMemory, freeMemory, live>>
     \/ /\ request > 0
        /\ hdr[a].size >= request
        /\ live' = [live EXCEPT ![a] = request]
        /\ UNCHANGED <<hdr, usedMemory, freeMemory, call>>
     \/ /\ hdr[a].size < request
        /\ Allocate("realloc", request, a)
  /\ UNCHANGED <<heapEnd, mapped, tables, frames, expansions>>

free(a) ==
  /\ call = Idle
  /\ a \in DOMAIN live
  /\ hdr' = Release(hdr, a)
  /\ usedMemory' = (usedMemory - hdr[a].size) % Word
  /\ freeMemory' = (freeMemory + hdr[a].size) % Word
  /\ live' = [b \in DOMAIN live \ {a} |-> live[b]]
  /\ UNCHANGED <<heapEnd, mapped, tables, frames, call, expansions>>

(* ASSERT(!block->free): a block that is on the list and free is freed again*)
freeTwice(a) ==
  /\ call = Idle
  /\ a \in DOMAIN hdr
  /\ hdr[a].free
  /\ call' = Panic
  /\ UNCHANGED <<hdr, heapEnd, usedMemory, freeMemory, mapped, tables, frames,
                 live, expansions>>

-----------------------------------------------------------------------------
(* expandHeap *)

InExpansion == call.op \in {"init", "allocate", "realloc"}

(* expandHeap returns false: allocate and realloc return nullptr, init      *)
(* fails its ASSERT.                                                        *)
GiveUp == call' = IF call.op = "init" THEN Panic ELSE Idle

(* Frames mapPage needs for page tables on the way to heap page p: one for  *)
(* the last level, and the two levels above it with the very first.         *)
TablesNeeded(p) ==
  (IF tables = {} THEN 2 ELSE 0) + (IF p \div TableSpan \in tables THEN 0 ELSE 1)

(* mapPage fails: the entry is present. *)
RemapSilently(p) == FALSE
MapFails(p) == p \in mapped

(* One turn of expandHeap's loop.                                           *)
ExpandPage ==
  LET p == (heapEnd + call.offset) \div PAGE
  IN  /\ InExpansion
      /\ call.offset < call.total
      /\ \/ \* pmm::allocPage fails
            /\ frames = 0
            /\ GiveUp
            /\ UNCHANGED <<mapped, tables, frames>>
         \/ \* vmm::newTable finds no frame for a page table and asserts
            /\ frames > 0
            /\ frames - 1 < TablesNeeded(p)
            /\ call' = Panic
            /\ UNCHANGED <<mapped, tables, frames>>
         \/ \* the page is mapped already: the frame goes back
            /\ frames - 1 >= TablesNeeded(p)
            /\ MapFails(p)
            /\ GiveUp
            /\ UNCHANGED <<mapped, tables, frames>>
         \/ /\ frames - 1 >= TablesNeeded(p)
            /\ ~MapFails(p)
            /\ mapped' = mapped \cup {p}
            /\ tables' = tables \cup {p \div TableSpan}
            /\ frames' = frames - 1 - TablesNeeded(p)
            /\ call' = [call EXCEPT !.offset = @ + PAGE]
      /\ UNCHANGED <<hdr, heapEnd, usedMemory, freeMemory, live, expansions>>

(* All pages are mapped: link the new block, then finish the caller.        *)
ExpandDone ==
  /\ InExpansion
  /\ call.offset >= call.total
  /\ \E last \in IF DOMAIN hdr = {} THEN {NULL} ELSE {a \in DOMAIN hdr : Last(hdr, a)} :
       LET grown == AppendBlock(hdr, heapEnd, call.total, last)
           free_ == freeMemory + call.total - HDR
       IN  \/ /\ call.op = "init"
              /\ hdr' = grown
              /\ freeMemory' = free_ % Word
              /\ UNCHANGED <<usedMemory, live>>
           \/ /\ call.op # "init"
              /\ \E a \in DOMAIN grown :
                   /\ FirstFit(grown, a, alignUp(call.request, ALIGN))
                   /\ Grant(grown, a, call.request, call.old, usedMemory, free_)
           \/ /\ call.op # "init"
              /\ NoFit(grown, alignUp(call.request, ALIGN))
              /\ hdr' = grown
              /\ freeMemory' = free_ % Word
              /\ UNCHANGED <<usedMemory, live>>
  /\ heapEnd' = heapEnd + call.total
  /\ expansions' = expansions + 1
  /\ call' = Idle
  /\ UNCHANGED <<mapped, tables, frames>>

(* Between heap calls other code takes and returns frames. *)
OthersUseFrames ==
  /\ call = Idle
  /\ frames' \in 0 .. MaxFrames
  /\ UNCHANGED <<hdr, heapEnd, usedMemory, freeMemory, mapped, tables, call,
                 live, expansions>>

Halted == call.op = "panic" /\ UNCHANGED vars

Next ==
  \/ \E n \in Requests : allocate(n)
  \/ \E a \in DOMAIN live, n \in Requests : realloc(a, n)
  \/ \E a \in DOMAIN live : free(a)
  \/ \E a \in DOMAIN hdr : freeTwice(a)
  \/ ExpandPage
  \/ ExpandDone
  \/ OthersUseFrames
  \/ Halted

Spec == Init /\ [][Next]_vars

-----------------------------------------------------------------------------
(* Properties *)

Address == 0 .. MaxSize
Pointer == Address \cup {NULL}
Headers == [size : Address, free : BOOLEAN, next : Pointer, prev : Pointer]

(* Headers, pointers and heapEnd stay within KERNEL_HEAP_MAX_SIZE. *)
TypeOK ==
  /\ DOMAIN hdr \subseteq Address
  /\ hdr \in [DOMAIN hdr -> Headers]
  /\ heapEnd \in Address
  /\ usedMemory \in 0 .. Word - 1
  /\ freeMemory \in 0 .. Word - 1
  /\ mapped \subseteq Nat
  /\ tables \subseteq Nat
  /\ frames \in 0 .. MaxFrames
  /\ call \in [op : {"idle", "init", "allocate", "realloc", "panic"},
               request : Nat, old : Pointer, total : Nat, offset : Nat]
  /\ DOMAIN live \subseteq Address
  /\ live \in [DOMAIN live -> Nat]
  /\ expansions \in Nat

(* The blocks of h tile [heapStart, hi), and next and prev agree with that. *)
Tiling(h, hi) ==
  /\ hi > heapStart => heapStart \in DOMAIN h
  /\ \A a \in DOMAIN h :
       /\ End(h, a) <= hi
       /\ h[a].next = IF End(h, a) = hi THEN NULL ELSE End(h, a)
       /\ h[a].next # NULL => h[a].next \in DOMAIN h
       /\ h[a].prev = NULL <=> a = heapStart
       /\ h[a].prev # NULL => h[a].prev \in DOMAIN h /\ End(h, h[a].prev) = a
       /\ \A b \in DOMAIN h : a < b => End(h, a) <= b

(* No two neighbouring blocks are free, so a request is refused only when no *)
(* gap in the heap is large enough.                                         *)
Coalesced(h) ==
  \A a \in DOMAIN h : h[a].free /\ h[a].next # NULL => ~h[h[a].next].free

(* splitBlock, mergeWithNext and expandHeap keep the list a tiling of the   *)
(* heap: no two blocks overlap, no byte is lost, the links never dangle, and*)
(* free gaps are merged.                                                    *)
ListIsTiling == TypeOK /\ Tiling(hdr, heapEnd) /\ Coalesced(hdr)

(* Every block in use is held by exactly one caller, is at least as large   *)
(* as that caller asked, starts aligned and lies on mapped pages; realloc   *)
(* neither leaks nor releases a block its caller still holds.               *)
LiveExact ==
  /\ DOMAIN live = {a \in DOMAIN hdr : ~hdr[a].free}
  /\ \A a \in DOMAIN live :
       /\ live[a] <= hdr[a].size
       /\ a % ALIGN = 0
       /\ \A p \in 0 .. MaxSize \div PAGE :
            p * PAGE < End(hdr, a) /\ a < (p + 1) * PAGE => p \in mapped

(* An expansion that failed after it had mapped pages: the page at heapEnd  *)
(* has a page table entry that no block covers.                             *)
Stuck == heapEnd \div PAGE \in mapped /\ call.offset = 0

(* expandHeap does not undo the pages it mapped before it failed, and finds *)
(* them mapped the next time: from then on the heap never grows again.      *)
PartialFailureIsFinal == [][Stuck => Stuck' /\ heapEnd' = heapEnd]_vars

(* The sum of w over the addresses below n. *)
Total(w, n) ==
  LET sum[i \in 0 .. n] ==
        IF i = 0 THEN 0
        ELSE sum[i - 1] + (IF i - 1 \in DOMAIN w THEN w[i - 1] ELSE 0)
  IN  sum[n]

UsedBlocks == {a \in DOMAIN hdr : ~hdr[a].free}
FreeBlocks == DOMAIN hdr \ UsedBlocks
Bytes(S) == Total([a \in S |-> hdr[a].size], heapEnd)

(* getUsedMemory is the number of bytes in blocks in use.  getFreeMemory is *)
(* the bytes in free blocks plus one header per block that no expansion     *)
(* made: splitBlock does not charge its new header, mergeWithNext does not  *)
(* credit the one it absorbs, and expandHeap always charges one.            *)
CountersAccount ==
  /\ usedMemory = Bytes(UsedBlocks)
  /\ freeMemory =
       (Bytes(FreeBlocks) + HDR * (Cardinality(DOMAIN hdr) - expansions)) % Word

(* The walk along the list ends at the lowest block that fits, and at       *)
(* nullptr only when none does.                                             *)
WalkFindsFirstFit ==
  \A size \in {alignUp(n, ALIGN) : n \in Requests} :
    LET a == findFreeBlock(hdr, size)
    IN  IF a = NULL THEN NoFit(hdr, size) ELSE FirstFit(hdr, a, size)

(* getFreeMemory, which the kernel's own heap test prints as the free bytes *)
(* of the heap, never exceeds the heap's size.                              *)
FreeMemoryWithinHeap == freeMemory <= heapEnd - heapStart
=============================================================================
