--------------------------- MODULE MCVirtualMemory ---------------------------
(***************************************************************************)
(* Sixteen virtual pages under tables of two entries: the windows have     *)
(* the third quarter to themselves and go on into the last, where the heap *)
(* maps two pages.  One device is a page amid the RAM, one is a page long  *)
(* but straddles two.  Eight frames are not enough for everything.         *)
(***************************************************************************)
EXTENDS VirtualMemory

MCFrames == {2 * n : n \in (1 .. 9) \ {5}}
MCHeapPages == {24, 30}
MCDevices == {[physical |-> 10, size |-> 2], [physical |-> 41, size |-> 2]}
=============================================================================
