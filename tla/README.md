# A verification of the Avery kernel

Avery is a small x86-64 kernel in C++ that boots through Limine, sets up memory,
interrupts and drivers, mounts a FAT32 volume from an ATA disk and runs a shell.
This directory holds TLA+ models of its stateful parts, the TLC runs that check
them, and proofs of some of their properties. `PROJECT.json` maps every
definition to the lines it models and lists runs, mutants, findings, hazards and
theorems.

Parse with `tlasany M.tla`, check with `tlc -workers 2 -config X.cfg MCx`, prove
with `tlapm MProofs.tla`. Every run ends within three minutes.

## The system

| Part | Source (kernel/...) | State | Operations |
| --- | --- | --- | --- |
| Physical memory manager | core/memory/pmm.cpp | bitmap, two counters, a hint | init from the boot memory map, allocPage(s), freePage(s) |
| Heap | core/memory/heap.cpp | doubly linked block list, heapEnd, two byte counters | allocate, free, realloc, expandHeap |
| Virtual memory | core/memory/vmm.cpp | page tables in RAM | mapPage, unmapPage, mapRange, virtToPhysical |
| MMIO windows | drivers/mmio.cpp | next free virtual address, window objects | constructor, destructor of mmio::Interface |
| Keyboard | drivers/input/keyboard.cpp | decoder flags, ring buffer | interrupt handler, hasChar, getChar |
| Console, shell | io/console.cpp, main.cpp | the line being typed | getLine, the command loop |
| Drivers | drivers/drivers.cpp | device list, driver list, bindings | register, unregister, bind, unbind |
| ATA disk | drivers/storage/ata.cpp | the drive's registers | probe, start, sector read and write by polling |
| PIT timer | drivers/time/pit.cpp | tick counter | start, stop, wait |
| FAT32 | fs/fat32.cpp | the volume; FSInfo in memory; open handles | mount, create, open, read, write, truncate, remove, rename, ... |
| VFS | fs/vfs.cpp | mount table | mount, unmount, and every operation by path |
| Interrupt controllers | core/interrupts/ | routing and mask bits, handler table | enable, disable, dispatch, end of interrupt |
| PCI | drivers/pci.cpp | configuration registers of the machine | enumeration, sizing of bars, enabling |
| Screen console | graphics/framebuffer.cpp | pixels, cursor | print, new row, tab, scroll, backspace, blinking |
| Strings, collections | types.h, utils/types.cpp | buffers, arrays, nodes | construct, copy, move, edit |
| GDT, IDT, serial, logging | various | tables written once, or none | |

How they interact. The kernel has **one thread**; the only concurrency is between
it and its two interrupt handlers (timer, keyboard). Neither handler allocates
memory, so the allocators run their calls to completion, and the shared state is
the keyboard ring and the tick counter. The heap asks the page allocator and the
page tables for memory a page at a time; page tables ask the page allocator for
frames; device windows are mappings. The shell reads lines from the keyboard
ring and asks the VFS for directories; the VFS chooses a file system, which reads
and writes sectors of a block device that the ATA driver registered. The ATA driver
is bound to a function that the PCI enumeration found, and polls the drive's
registers. Lines are echoed on the screen console. Strings and Vectors are the
currency of all of this: paths, listings, the mount table.

What is hard here:

* *the interrupt against the reader of the ring*, with a compiler free to reorder
  a load of a plain array and a store to a volatile index;
* *partial failure*: every multi-step operation (growing the heap, a four-level
  page walk, a file-system call) can fail in the middle, and few undo what they did;
* *power loss* between two sector writes;
* *long sequences* of legal calls on linked lists, bitmaps and chains;
* *lists that grow while they are walked*, when a driver that starts registers
  devices;
* *a device that answers late*, after the poll for it gave up, with two drives
  behind one set of registers;
* *data moved over itself*: in strings, in pixels, in Vectors that hand their arrays
  to one another;
* *assertions* that stop the kernel on inputs that reach them.

## Modules

| Module | Models | Run(s) |
| --- | --- | --- |
| PhysicalMemory | pmm.cpp | pmm |
| PageAllocator | what callers of pmm rely on (abstract) | pmm |
| Heap | heap.cpp | heap, heap_free_memory |
| VirtualMemory | vmm.cpp, mmio.cpp | vmm |
| AddressSpace | what users of page tables rely on (abstract) | vmm |
| Keyboard | keyboard.cpp, getLine, the shell loop | keyboard |
| CharQueue | what the reader of the ring relies on (abstract) | keyboard |
| Interrupts | interrupts/, the timer's tick counter and wait | interrupts |
| Drivers | drivers.cpp, start and stop of the three drivers | devices |
| AtaPio | the polling of ata.cpp against two drives | devices |
| Pci | pci.cpp and configuration registers | devices |
| Strings | class string | library |
| Collections | Vector, LinkedList, Queue | library |
| Framebuffer, Console | framebuffer.cpp, and what getLine draws | library |
| Numbers | the printed numbers of console.cpp | library |
| FatNames | names and paths of fat32.cpp | library |
| FatDirectory | a directory of fat32.cpp with long names | library |
| Vfs | vfs.cpp, mountRoot | library, vfs_assert |
| Fat32 | the volume and the calls of fat32.cpp | fat32, fat32_faults, fat32_rename |
| PhysicalMemoryProofs, HeapProofs, VirtualMemoryProofs, KeyboardProofs, VfsProofs, Fat32Proofs | theorems about the module of that name | |
| Fat32SoundProofs | further theorems about Fat32, on the lemmas of Fat32Proofs | |
| DeviceProofs | theorems about Drivers, AtaPio, Pci, Interrupts and Console | |
| MC* | instances, and reference definitions TLC compares with | |

Definitions keep the source's names. A definition whose name ends in a word like
`Unchecked`, `Skipped` or `Forgotten`, and that nothing uses, is the mutant of its
neighbour: the same code with a plausible mistake, which the run must detect.

### PhysicalMemory

The bitmap is the set of its set bits, with the padding bits past the last page.
`pmm::init` is one action per phase and its marking loop one action per memory-map
entry; `allocPage`, `allocPages`, `freePage`, `freePages` are one action each. The
two ranges that `allocPage` scans from its hint are kept apart, and address 0
doubles as OUT_OF_MEMORY as in the code. `owned` is a ghost: what callers hold.
Callers return what they hold, or a page that is already free, which fails an
ASSERT and halts.

Run *pmm* (3 509 states) boots on eight memory maps: unaligned, overlapping and
too-small entries, usable memory at address 0, a bitmap of two pages, no place for
the bitmap. About ten pages and runs of up to three are enough for the hint to be in
front of, on and behind every hole, and for runs to be broken by a used page.
`RunScanFindsFirstRun` compares the one-pass run scan, transcribed, with the
definition of the lowest free run; `CountersExact`, that the two counters are the
cardinalities they stand for, includes the types. `ImplementsPool` is the refinement to
PageAllocator.

### Heap

`hdr` maps block addresses to headers with size, free flag, next and prev. The list
operations are functions of `hdr`, so that each call is one action, except that
`expandHeap` is one action per page: each turn takes a frame, maybe a second one
for a page table, and can run out. `OthersUseFrames` lets the rest of the kernel
take and return frames between two such steps.

Run *heap* (37 155 states): 6-byte headers, 16-byte pages, a heap of one page that
may grow to four, and five request sizes: nothing, unaligned, one that leaves a
remainder too small to split off, and two that need one and two pages more. Five
frames run out at each point of the loop. Checked: blocks tile the heap and links
agree with it (`ListIsTiling`, which
includes the types and that no two free blocks are neighbours), the blocks in use are exactly what callers
hold and lie on mapped pages, first fit, the two byte counters against their
closed formulas, and the fate of a partly failed growth: the heap never grows again.

Run *heap_free_memory* is a finding (below).

### VirtualMemory

Tables are frames with entries; one level of a walk is one action, as each may take
a frame and fail. Clients are the heap (any of its pages, also one it has mapped before) and device
windows. `level` in a table is a ghost. Flags other than "present" and the TLB are
left out.

The windows begin at 0xFFFF900000000000, the heap above them at 0xFFFFA00000000000
(without the bits that no table is indexed by). `nextMMIOVirt` only grows, and
mmio.cpp:24 compares it with nothing, so after 16 TiB of windows a constructor may meet
a page of the heap: `mapRange` then fails half-way, and the object is invalid with the
pages before mapped. The model does so too. Its one bound is that the address space
does not wrap around. RAM may lie on both sides of a device, as it does on a machine
with more than 4 GiB and the local APIC at 0xFEE00000.

Run *vmm* (55 191 states): tables of two entries, four levels, eight frames. Two heap
pages share their upper tables or not; the two devices are one page long, one of
them across a page boundary, one amid the frames. There are four pages below the heap,
so windows soon grow into it: a constructor fails on its first or its second page, and
the heap finds a window in its place. Eight frames suffice for some combinations and
run out at each level for others. Checked: the tables form a tree, each frame is free,
a table or the heap's, each byte of a device is reached through its window, windows
below the heap find their pages unused, and the translation is an AddressSpace (no
operation affects another page).

### Keyboard

The handler runs behind an interrupt gate and is one action per byte. The reader's
accesses are separate actions: `hasChar` loads two indices, `getChar` loads a
character and stores `readIndex`. `inputBuffer` is not volatile, so the build may
move that load behind the store: both orders are modelled. Keys are pressed,
repeated and released; extended keys send a 0xE0 byte first.

Run *keyboard* (121 219 states): a ring of three slots, so that two characters fill
it and indices wrap; a letter, Enter, Backspace, a shift key, and an extended key
whose code is that of the shift key; four presses. Checked: the ring implements a
bounded FIFO queue, the line is what was typed with backspaces applied (compared
with a declarative reading of the keystrokes) with the decoder at rest when the wire
is, and an accepted Enter ends a line if every echo returns (`EchoReturns`; see
Fairness).

### Interrupts

Three actors. Devices raise edges at any time. The processor takes an interrupt
between any two steps of the kernel after `sti`, and runs `irq_handler` with
interrupts off: `Take`, the call of the handler, `eoi`. The kernel's steps are those
at which its stores become visible to the chips: the backend chosen, each
redirection entry written and then masked, `installHandler` in its two stores,
`uninstallHandler` in its two, and the loop of `time::wait`. The chips are external:
the I/O APIC may keep or forget an edge at a masked pin, the PICs latch it; the local
APIC holds back all other interrupts of the range while one is in service, a PIC only
those of lower priority; the keyboard raises one edge when its buffer fills and none
until it is read. Each IRQ is wired to the pin of its number, as the code assumes.
Spurious interrupts are left out. The keyboard's port is a single byte here; what the
handler does with it is in Keyboard.

Run *interrupts* (36 992 states): timer, keyboard, and two lines nobody handles, IRQ 7
and IRQ 12 (on the second PIC), with both backends; the kernel waits for one or two
ticks, as one is the boundary and two let another interrupt come between. Checked:
every interrupt is acknowledged at every chip it went through (`TypeOK`); once the
keyboard's line was enabled with its buffer empty, no byte is left without an
interrupt that will read it (`KeyboardNeverJams`); `time::wait` returns. What is
*not* promised is the case the second property excludes: a key pressed before the
driver starts leaves a byte nobody reads, and the keyboard is silent for good.

### Drivers

The two lists, the binding of each device, the state of each driver, and which
interrupts have a handler. A registration appends and then walks the other list;
each turn of that loop is an action (`TryDriver`, `TryDevice`), because ATADriver's
`start` registers disks and so lengthens the list `tryBind(Driver&)` is walking.
Which drives answer IDENTIFY is open, so `start` may find none and fail. `refused`
is a ghost that remembers it.

Run *devices* has it with one timer, one keyboard, one IDE controller, two
drive positions and a device list of four, so that the disks of two starts do not
fit. The controller may start twice (`MaxStarts`). Boot makes its calls in one
order; here they come in all orders, with unregistration. Checked: an interrupt has
a handler exactly while a device is bound to its driver; when no call is running
every registered device that a registered driver can handle has been given to it
unless that driver failed on it. The first of these relies on there being one timer and one keyboard, as in the kernel:
`stop` removes the handler whatever other devices the driver has.

### Vfs

A path is a sequence of characters, since dispatch is about prefixes. Dispatch is
the code's loop as a recursive function over the mount table (`Best`),
strictly-longer comparison included. File systems are opaque: `request` is the last call that reached one.
`mountRoot` may find no device, or one it cannot mount, and goes on.

Run *library* has these among its parts (MCVfs: 3 645 states, symmetric in the file
systems): mounts at `/`, `/a`, `/ab` and `/a/b` in any order, and seven paths at, below
and beside them, one relative. Checked: dispatch chooses the deepest mounted ancestor,
defined by directories rather than by prefixes; the mount's path and what the file
system is given make up the path; mounting or unmounting affects only paths below that
directory; a file system is mounted exactly where its volume says.

Run *vfs_assert* is a finding (below).

### Fat32

One action per sector write, because each may fail and power may be lost after
each. The table, the clusters' cells (units of data or directory slots), the FSInfo
sector on disk and in memory, open handles with their cached entry, and the call in
progress with its next write. `allocateCluster` and `freeClusterChain` are shared
steps that return to their caller by a label. The contents of a unit is the offset
it was written for, which is enough to see a unit in the wrong place, file or
directory. `leaked` is a ghost: the clusters that `truncate` took for an empty file
before it ran out of space, and `close` forgot (fat32.cpp:1454).

* *fat32* (417 000 states): all operations on a working disk of four clusters with
  two cells each, files in the root and in a directory, for clients who rename nothing
  below a regular file (`CarefulNext`). Files need two clusters, so
  the disk fills up inside calls. Between calls no cluster is shared or lost, chains
  end, files hold what was written to them, FSInfo counts right. A volume has at
  least two clusters, as a chain that is lengthened has a last cluster to link from
  and one to link to.
* *fat32_rename* is a finding (below): the same for all clients (`AnySpec`).
* *fat32_faults* (352 000 states, three clusters): a history keeps to one of two
  plans. Under `any`, all writing operations with one failure, a failed write or a
  loss of power (and no directory removed and nothing renamed below a file after it): damage is possible, but no chain
  becomes a loop (`NoLoops`, checked under both plans), so every call returns. Under
  `append`, two failures anywhere in createFile, open, write, flush, close, remove and
  renaming within a directory: the volume is sound after *every write*
  (`FaultsContained`), at worst clusters are lost. Two failures include a second
  power loss after a remount; after the second, files are opened, written and closed,
  but none is created, renamed or removed.

`rename` does not ask whether the new parent is a directory (fat32.cpp:1184). The
action `renameBelowFile` is what follows when it is a regular file: `findFreeDirectoryEntry`
looks for a slot in the data of the file, where any unit may look like a slot in use or
like a free one, or extends its chain, the entry is written there (line 1219), and the old
one is deleted. SoundAtRest and ClustersAccounted except such calls, as they are false of
them; that no chain becomes a loop is checked and proved with them (`Next`, `Spec`).

`open` with Truncate, `truncate`, `createDirectory` and a rename to another
directory are not in the plan `append`: they free a chain before the entry stops
naming it, or have two entries name one chain for the time of a write. The hazards
name the lines.

Clients of the model open a file through one handle at a time, do not remove or
rename an open file, and move no directory to another directory: the driver keeps
no table of open files to catch the first, and loses a cluster in the last (see the
hazards). Lookups do not fail to read. On a damaged volume, units of data that a
directory's chain comes to are not parsed as entries. The second copy of the table,
boot-sector validation and sizes near 4 GiB are left out.

### AtaPio

One channel, two drives behind one set of registers. Each read of the status register
is an action, and so is what the kernel does between two of them; a word stands for
the 256 words of a sector. Drives are external and run on their own: a command is
noticed some time after it was written (`unseen`), worked on as long as the drive
likes, ended with data, in silence or with an error; commands to a busy drive are
lost. `gaveUp` is a ghost: the drives that a call left, by timeout or error, with a
transfer still to come. `spoiled` is another: the sectors whose last write the drive
failed.

In run *devices*: two polls (100 000 in the code, but the drive may as well need three
steps as 100 001), two sectors, IDENTIFY of both drives in any order and at any time,
reads and writes of two sectors on one drive and a read on the other; every
subset of the two drives is tried as the drives that are there. Checked: a call that returns true on a
drive that was never given up on has the sectors it named, in order, or has stored
them, and no drive works on a transfer but of the call in progress (`AnswersBelong`);
every call ends although a drive may be silent for ever (`CallsEnd`). What the first
property excepts is what the code does not look at: after a timeout the answer of the
old command is taken for the next one's, and an error after a write is not noticed.

### Pci

A register is the set of its bits that are 1, so widths are those of the code. A
machine (`plugged`) maps slots and functions to functions with their bars; a
single function may answer for its whole slot. Each `readBAR` and each `enable` is an
action. Enumeration runs alone, before `sti`. Buses are left out: they are one more
loop of the same form.

In run *devices*: three slots of two functions, four sets of bars (ports, 32 and 64
bits, addresses above 4 GiB, the last bar), a bridge, a list with room for three.
Checked: each function the headers announce is registered once, in order
(`EachFunctionOnce`); the registers are afterwards what they were but for the bits
drivers enabled and the write-1-to-clear bits that `write16` and the sizing of a
bridge's registers cannot help clearing, and bars below 4 GiB are read as what they
are (`ConfigPreserved`).

Run *devices* (1 016 888 states) is the sum of Drivers, AtaPio and Pci: a variable
chooses one of the three, as they share no state, so that their histories are not
multiplied. Deadlock is not checked: enumeration ends, and enabling what is enabled
changes nothing.

### Strings

A buffer is a sequence of bytes as long as its allocation, so that a byte stored past
the end shows; moves within a buffer go byte by byte in the order of the code. `text`
is a ghost: what the string means after each call. Two strings, texts of up to two of
two letters (one is a space), strings of up to three: enough for a buffer to be kept,
outgrown, swapped by moves and left with spare room. `StringsHoldTexts`: each string
has a buffer of its own, as long as it says, none is lost, and it says its text with
the terminator behind it.

### Collections

Vectors with their arrays, and one doubly linked list (a Queue is one). `items` and
`listed` are ghosts. The first capacity is 1 instead of 4, so that three elements
make it grow twice. `CollectionsHoldItems`: contents, ownership of arrays, capacity,
and the list read both ways. `resize` may bring back elements that left before; the
ghost follows the code there, as nothing says what they should be.

### Framebuffer and Console

Pixels are rows of values; ink is the glyph it belongs to, so that a property can say
what is seen. `glyphAdvance`, wrapping, scrolling with `copyRect` pixel by pixel, tabs
one space at a time, backspace by the width of the letter, and the cursor follow the
code. A glyph's shape is the number of its columns. `shown` is a ghost: for each row the
characters printed there and where each begins, moved up when the screen scrolls. The
screen is 7 by 5 pixels with cells of 3 by 2: two rows and a rest, a narrow and a wide
glyph, so that lines wrap after two or three glyphs and every third scrolls; a tab is
three spaces, so that its stop lies inside the row or beyond the last cell.

`ScreenShowsText` is the conjunction of four: the ink of what was printed and neither
scrolled away nor taken back is there (`GlyphsVisible`); a cursor is where the next
character goes and nowhere else (`OneCursor`); while a line stays on its row, the end of
that row is the line, without a gap, up to the cursor (`LineVisible`); and a tab whose
stop can be reached ends, after its own spaces or, if they wrap, those of the next row
up to the stop as well (`TabsEnd`). The last bound is the one that the proof forced: a
tab whose spaces wrap prints spaces up to its stop once more on the next row, so no
multiple of the tab size bounds them. The rectangle that `scroll`
clears is empty (framebuffer.cpp:522 passes an end above the start), so old ink may stay
in the last row between and behind new glyphs; and a tab whose stop lies behind the last
place a space can end at never ends, as the spaces wrap first (framebuffer.cpp:405).
Both happen in the model, and the properties leave them out.

### FatNames, FatDirectory, Numbers

`FatNames` takes names into directory entries and back, and paths apart in the two ways
of the code. `FatDirectory` has the slots of one directory, with long names that other
systems left, and create, remove and rename on them. Removal deletes the parts of a
long name in the entry's own cluster only; parts before it survive, and rename the next
file in that slot (`orphans` remembers them). `ListingNamesFiles`: with that exception
a listing has each file once by the name it was given. `Numbers` are the digits of
printNumber, printHex and printSigned.

`ComputedIsMeant` is about what has no state, for all arguments of a bounded size:
`copyRect` against moving all pixels at once; colours taken apart and packed again; a
name that `makeShortName` takes is found again exactly if it ends in no blank or dot
and does not begin as a deleted entry; the parent and name of a path are those its
lookup goes through; numbers of 12 bits are printed as the digits that denote them,
within buffers sized as the code's are for 64.

Run *library* (181 346 states) is the sum of these and of Vfs: a variable chooses one of
strings, vectors, list, console, directory, mounts, or the single state in which
`ComputedIsMeant` is evaluated. That state has no successor, so deadlock is not checked. Its constants: a
directory of at most three clusters of three slots, with long names that lie in one
cluster, begin in one and end in the next, or have their entry alone in the next.

## Fairness

The kernel executes a call it has begun to its end: one thread, no preemption but
by handlers that return. This is weak fairness of the steps of a call in progress
(fat32_faults), and nothing obliges clients to make calls. For
the keyboard, interrupts stay enabled after boot, so a pending byte is eventually
handled, and the shell is the only thread, so it gets on with `getChar`: its steps at the
ring are fair (`GetChar`). Nothing is assumed of what it does with the character. The echo
of a tab near the right edge never returns (framebuffer.cpp:405), and a command can panic
(*vfs_assert*), so `getLine` and `RunCommand` are not fair, and NewlineEndsLine has the
hypothesis that every echo returns. It needs none about commands: the property asks that
the shell gets to one, and if it is in one for ever, says nothing of later lines. For *interrupts* the
same holds of `irq_handler`, `eoi` and the boot steps; the timer ticks for ever (weak
fairness), and strong fairness of taking its interrupt and of the kernel's own steps
says that other interrupts do not come faster than their handlers run. For *devices*,
a call of the ATA driver goes on, and a drive notices a command within 400 ns; it may
do nothing more for ever. No other fairness is assumed of keys, disks or power.

## What is proved

For every value of the constants that satisfies the assumptions stated in the
modules:

**PhysicalMemoryProofs** (any page size, any memory map, runs of any length; from
`PageAssumption`, `MemmapAssumption` and `CountAssumption`).
`IInv` is the types, the three invariants of the run and `BootProgress`. The latter is needed
because the partition of pages into free and owned holds only from the end of
`pmm::init`: what the marking loop establishes at entry *n* is that the clear bits
are the pages of entries before *n*, and that all entries end below the highest
address; `ReserveBitmap` turns this into the partition. `CountersAgree` carries the
cardinalities through each set operation, and `OutOfMemoryIsReal` follows from the
two scan ranges covering all pages. Theorems: `Invariance` (Spec => []IInv),
`TypeCorrect`, `CountersAreExact`, `PagesAreConserved`, `OutOfMemoryIsExact`, and
`Refinement`: each step is a step of PageAllocator or a stutter. `RunScanIsFirstFit`: the
scan of `allocPages` keeps a start and a count; after *n* pages it has either found
the lowest run among them, or no run ends among them and the count is of the free
pages just behind (`Searching`), by induction over the pages.

**KeyboardProofs** (any ring size, layout and set of keys of scan code set 1, which has
none with code 0x60: its release would read as the prefix 0xE0; from
`BufferAssumption`, `LayoutAssumption` and `KeyAssumption`). `IInv` is TypeOK and
`ReaderAgrees`: what the reader found before an interrupt still holds after it (the
ring is still nonempty, the character loaded is still the oldest, the index stored
follows the slot yet to be read). Theorems: `Invariance`, `TypeCorrect`,
`Refinement`: the ring is a CharQueue, and `LineIsTyped`. The work is in three lemmas on `Pending`,
the waiting characters as a sequence around the end of the array: pushing appends,
popping takes the head, all else leaves it alone. `LineIsTyped` is in three parts.
The characters accepted are those dealt with, the one in the reader's hand and those
waiting, in this order (`AcceptedInOrder`). The line shows what stays of those dealt
with (`LineShows`): the last character to stay is followed by as many backspaces as
characters (`LastStay`), so one more backspace removes it and no other. And the bytes
on the wire are whole codes, behind each press of shift the release unless a shift
key is held (`DecoderInv`), so that the decoder is at rest when the wire is empty.

**VfsProofs** (any sets of file systems, devices and paths over any characters; from
`PathAssumption` and `NoneAssumption`). The inductive invariant
is OneMountEach with the types of the table and the volumes, and `EmptyAtBoot`, which
tells that `mountRoot`, the one caller that does not look for its path in the table,
finds it empty. `MountedOnce`: the table and the volumes agree, whatever the order of
mounting and unmounting. That removing an entry of the table keeps the others is the
lemma `RemoveAtEntries`. `DispatchFindsTheDeepest`: what the loop has after *n* entries
is, by induction over the table, the deepest of those that are ancestors of the path
(`Deepest`); that the prefix comparison of the code means "ancestor" holds because
mount paths are absolute and do not end in a slash, but for the root. `MountsStayLocal`: a
path's file system is fixed by the *set* of entries (`Chooses`), of which no two have
one path, so an entry that comes or goes matters only to the paths it is an ancestor of.

**HeapProofs** (any header, page and heap size, any alignment, any requests, frames
running out anywhere; from `SizeAssumption`). ListIsTiling is inductive only with
alignment and with what an expansion in progress may rely on, so `HeapInv` adds: all
addresses and sizes are multiples of ALIGN, blocks in use have holders and hold what
was asked (`Held`), every page below `heapEnd` and below the progress of `expandHeap`
is mapped (`PagesMapped`), and a call in progress asks for whole pages that fit the heap
(`CallOK`). The work is in the list operations: `CarveShape`, `AbsorbShape` and
`LinkShape` show that cutting, merging and appending keep a list that tiles its range;
`TakeGood`, `ReleaseGood` and `AppendGood` add that no two free neighbours are left and
no other block in use is touched; a merge at a free block repairs all but the block
before it (`MergeGood`), which is why `free` merges in both directions. For the
counters, a sum over blocks is a recursive function over addresses (`Total`), and what
each list operation does to the sum is a lemma; headers and blocks together fill the
heap (`TilesAddUp`), so `freeMemory` is, modulo the word, what is neither in use nor a
header an expansion made (`CountersHold`). `findFreeBlock` is the walk along `next` as
a function over addresses, and what it finds at an address is the lowest free block
from there on that is long enough (`SearchFinds`). Theorems: `HeapListIsTiling` (with
the types), `HeapLiveExact`, `HeapFailureIsFinal`, `HeapCountersAccount` and
`HeapWalkFindsFirstFit`.

**VirtualMemoryProofs** (any page size and number of entries in a table, any frames,
heap pages and devices, frames running out at any level; from `GeometryAssumption`,
`FrameAssumption`, `AreaAssumption`: the heap lies above the start of the windows, and
`DeviceAssumption`: the pages around a device are no RAM). The tables are a tree (`TreeOK`: an entry above the last level
points to a table of the next, no table has two parents, none is lost), so two walks
meet in an entry only if they are for the same page: this is the lemma the rest hangs
on, and why a store into one entry changes one translation. `VMInv` adds what is at the
leaves (`Leaves`: frames the heap holds, or device memory), `FramesAccounted`, and what
each client's call in progress relies on: its walk is the walk for its page
(`CallTypes`), the heap's frame is in no entry yet (`HeapCall`), the pages of a growing
window so far are those of its device (`WindowCall`), the pages taken down are of no
other window (`UnmapCall`), finished windows are whole and apart (`WindowsOK`), and
from `nextMMIOVirt` up to the heap nothing is mapped (`Fresh`), which is why below the
heap `mapPage` never finds a window's page mapped. Windows that have grown into the
heap's area are covered: a constructor that meets a mapped page returns no window, and
`mapPage` writes only entries that were not present, so none of another window.
Theorems: `VMInvariant`, `TableTreeHolds`, `FramesConserved`,
`WindowsReach`, and `Refinement`: the four-level tree is an AddressSpace, each step
affecting the page it is for and no other.

**Fat32Proofs** (any size of volume and cluster, any paths, below regular files too,
handles, operations and open modes, any number of failed writes and losses of power at any step; from
`VolumeAssumption`). NoLoops is about every chain on the disk, in use or not, at every
moment. `IInv` has the types of the table, the cells and the handles; that every chain
ends (`EndsEverywhere`); what the call in progress is going to use (`Prepared`,
`Allocated`: after an allocation there is a cluster, before an entry is written there is
a slot for it); and `Linkable`, the heart of it: a cluster that is about to be linked
ends its own chain and is not in the chain it is linked behind, which ends too. That
survives the steps between allocation and link because they write the data of the new
cluster, or FSInfo, and not the table. `LinkMakesNoLoop` and `MarkMakesNoLoop` are the two
things a write does to the table: linking chains that do not meet, and marking a cluster
free or last. `EndsInTime` is the pigeonhole argument that a walk which ends does so within as
many steps as there are clusters. After a power loss the call is forgotten, and what is
on disk satisfies the invariant by itself. `Ranges` adds that no entry, handle or request
passes `MaxLength`: a write ends where it was asked to end, a read where the file does, and
the size `updateDirectoryEntry` writes is that of the handle. Theorems: `ChainsEnd`,
`TypeCorrect`.

**Fat32SoundProofs** (as above, on a disk that works, `MaxFaults = 0`, and for clients who
rename nothing below a regular file, `CarefulSpec`; from `VolumeAssumption` and
`NameAssumption`). SoundAtRest speaks of the moments between calls,
and of walks: which clusters an entry's chain has. Neither is inductive. What is: every
cluster has an *owner* and a *place* (`Vol`). The owner is the slot of the entry whose
chain it is in, the root, the call in progress, nobody (a free cluster), or it is lost;
the place is its number in that chain. `Labels` says locally, link by link, that the
table agrees with the labels, so that a walk from a first cluster meets the clusters
of one owner in order (`WalkIsLabelled`), two owners never share one, and a step that
changes one link changes the label of one cluster. `EntriesHold` and `FilesHold` tie first
clusters and sizes, on disk and in handles, to the labels; `DirectoriesHold` says that no
cell is in use behind the first unused one, where lookups stop; `UnitsHold` that
each unit stands at its own place. Labels are not state of the program: the invariant
says that some exist.

In the middle of a call the volume is not sound: `truncate` has changed the handle and
not yet the table, the old entry of a rename is still there. `Held` therefore is about the
volume as it will be once the call has written what it owes: the handles (`View`), the
table (`TableDue`) and the cells (`CellsDue`), with one cluster that belongs to the call
(`Private`), and adds what its remaining steps rely on (`StageHolds`,
`RequestHolds`: the slot found is still free, no cell before it is unused, the directory
removed is empty). Each of the steps, and each beginning of a call, has its lemma: it
pays a debt or makes one, and the labels move with it. Theorem: `SoundBetweenCalls`.

For the counts, labels say that a cluster in use is somebody's; `CInv` adds that the
counter in use (of FSInfo on disk, or in memory once mounted) is the number of
free clusters, or unknown, but for the one the call in progress has claimed and not
yet counted. Theorem: `AccountedBetweenCalls`.

**DeviceProofs**, about five components.

* Drivers (any devices, lists and order of calls; from `LimitAssumption` and
  `KindAssumption`: one timer and one keyboard, as the kernel permanently has, and no
  device of two kinds). HandlersFollowBindings needs that what is bound to the timer or
  the keyboard driver has passed its probe (`Probed`): two timers would share one
  handler, and stopping one would silence the other. NoneMissed speaks of the moments
  between calls; in the middle of a walk, each pair of a registered driver and device
  is settled or yet to be visited (`NoneForgotten`), although a start in the walk
  appends to the list. `MissInv` adds that lists name nobody twice (`ListsOK`), who is
  bound to whom (`Bound`) and where the walk is (`WalkOK`). Theorems: `HandlersFollow`,
  `NoneIsMissed`.
* AtaPio (any number of drives, sectors, values and polls, drives that answer
  late, never, or with an error; from `AtaAssumption` and `AtaNoCommand`). That a drive's
  words are those of the sector asked for rests on: a drive not given up on works for
  nobody but the call in progress (`AskedByCall`), the sectors passed so far are done
  (`PrefixDone`), the call and the registers fit one another (`CallOK`), and a drive
  still storing is one that was sent its last word (`StoreIsLast`, `StoreIsNotSent`).
  Theorems: `AtaTypes`, `AtaAnswersBelong`.
* Pci (any machine of well-formed functions, any number of slots and of places in the
  device list; from `PciAssumption`, where `WellFormed` is what the PCI
  specification asks of bars: a size, an address that is a multiple of it, and an upper half
  behind each 64-bit bar). `Enumerating` and `RegisteredSoFar`: what is registered is what
  the headers announce before the place enumeration is at. `ConfigInv` adds the widths of
  the registers (`RegisterTypes`), that each is what it was at boot or one of the
  exceptions (`RegistersKept`), and that the bars read so far are the function's
  (`BarsKnown`): sizing a bar writes ones, reads and restores, and what it restores is
  the same set of bits. Theorems: `EachFunctionIsRegistered`, `ConfigIsPreserved`.
* Interrupts (any set of lines, any timing; from `IRQAssumption`, `WaitAssumption` and
  `NoneAssumption`). The inductive invariant (`IrqInv`) adds to the two checked
  invariants what the state of the set-up is (`ControllersSetUp`), that a line is
  enabled after its handler was installed (`Enabling`), and at which steps of the kernel
  the keyboard may be listening: its line is then open and its handler in place
  (`Armed`), which is why no edge is lost. Theorems: `IrqTypeCorrect`, which includes
  that every interrupt is acknowledged at every chip (the lemma `AcknowledgedAll` is
  about the two PICs), and `KeyboardIsHeard`.
* Console on its Framebuffer (any screen with room for a row, any cell, glyphs, tab and
  history; from `FramebufferAssumption` and `ConsoleAssumption`: a space is narrower than
  a cell, and the cursor has a colour of its own, as pixels tell them apart by colour).
  `ConsoleInv` says of the screen (`Good`) that characters on a row do not overlap
  (`Ordered`), that the cursor stands behind them and the rows below are unused
  (`Behind`): a cell is drawn over whatever is right of the cursor, so this is why it
  hides no ink (`PaintKeepsInk`). Scrolling copies overlapping rectangles in one picture:
  that every row becomes the one a cell below (`RectCopied`) is an induction over the
  pixels of a row (`RowCopied`) and the rows (`RowsGrow`), with the pixels read not
  written yet. `Stands` says where the line being read is, `TabGoes` how far a tab has
  come on its first or its second row. Theorem: `ScreenHolds`.

Only model-checked:

* Liveness (`CallsReturn`, `CallsEnd`, that a line ends, that `time::wait` returns): out
  of the proof system's reach, as is ENABLED.
* `FaultsContained`: the volume after any failure, for clients that append.
* The properties that compare a computation over data with its definition
  (`StringsHoldTexts`, `CollectionsHoldItems`, `ListingNamesFiles`, `ComputedIsMeant`).
  Induction over the natural numbers is available as an argument on sets
  (`SetInduction`, from the well-foundedness of <), but only for recursive functions, as
  `copyRect` is one: these algorithms are folds of the community modules, or RECURSIVE
  operators, and take operators as parameters, of which the provers have nothing to
  expand.

## Findings

* **heap_free_memory**, heap.cpp:129. `freeMemory` is credited with payloads only,
  while merging turns headers into payload that `allocate` later charges; it drops
  below zero and wraps. The heap test prints it as the free heap.
* **vfs_assert**, vfs.cpp:167. Lookups assert that some file system has the path,
  but a path typed at the shell may be relative, and without a disk nothing is
  mounted: `ls boot` panics the kernel where `ls()` is ready for a null result.

* **fat32_rename**, fat32.cpp:1184. `rename` has the error NotDirectory, but only asks
  whether the new parent exists; createFile (1061) and createDirectory (1088) ask whether
  it is a directory. Renaming `/d/f` to `/f/f` with `/f` a regular file writes a directory
  entry into the data of `/f` and deletes the old entry: one file is corrupted, and no path
  leads to the other any more.

## Not modelled

GDT, IDT and exception stubs: executed once, with no state that evolves. Panic and
logging, serial and port I/O: output. UniquePtr and Option: they hold one value. The
console's setCursor, `\r` and backspace without a character, and PCIDevice's
createMMIOInterface: nothing calls them. The names of PCI classes, the shapes of
glyphs, formatting. Boot order: each module starts where its initialiser leaves it; the
in-kernel tests were read as statements about the code. FAT32's handles on one file
(see Fat32), directory handles (a listing taken when they are opened), the second copy
of the table, and boot-sector validation.

## Plan

The order was: memory (everything rests on it), the keyboard ring (the one data race
in the system), the file system (the most state and the most ways to fail), then the
VFS, the driver framework and interrupts; then the devices and the library that
everything else uses. To come:

1. **VirtualMemory on PhysicalMemory**: the frames of the page tables taken from the
   page pool (PageAllocator) instead of a set of their own.
2. **An abstract file store** that Fat32 implements between calls: paths to contents,
   with the effect of each call at its last write.
3. **Several handles on one file** in Fat32, as an instance that shows the damage.
4. Proofs: soundness after faults, for clients that append (`FaultsContained`), on the
   labels of Fat32SoundProofs.
