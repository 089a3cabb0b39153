-------------------------- MODULE MCPhysicalMemory --------------------------
(***************************************************************************)
(* Small instances of PhysicalMemory: 4-byte pages and maps whose entries  *)
(* are unaligned, overlap, start at address 0, leave holes, need a bitmap  *)
(* of two pages, or cannot hold the bitmap.  (Limine promises aligned and  *)
(* disjoint usable entries; pmm.cpp rounds and tests bits all the same.)   *)
(***************************************************************************)
EXTENDS PhysicalMemory

Usable(b, l) == [base |-> b, length |-> l, usable |-> TRUE]
Reserved(b, l) == [base |-> b, length |-> l, usable |-> FALSE]

MCMemmaps ==
  { \* page 0 usable but cut short, an unaligned region, a hole
    << Usable(0, 3), Reserved(4, 4), Usable(9, 19), Reserved(30, 1) >>,
    \* overlapping usable entries after a region of no whole page
    << Usable(2, 5), Usable(8, 16), Usable(16, 16) >>,
    \* usable memory split in two by a reserved page
    << Usable(4, 12), Reserved(16, 4), Usable(20, 18) >>,
    \* the first region that can hold the bitmap starts at address 0
    << Usable(0, 8), Usable(12, 12) >>,
    \* page 0 inside a usable region that comes second
    << Usable(8, 12), Usable(0, 8), Reserved(20, 3) >>,
    \* the bitmap takes the only usable page
    << Usable(4, 4), Reserved(8, 4) >>,
    \* 34 pages of address space: a bitmap of two pages
    << Usable(4, 20), Reserved(24, 112) >>,
    \* nothing can hold the bitmap
    << Reserved(0, 20), Usable(21, 4) >> }
=============================================================================
