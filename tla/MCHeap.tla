------------------------------- MODULE MCHeap -------------------------------
(***************************************************************************)
(* A small heap: headers of 6 bytes, pages of 16, one page to begin with   *)
(* and at most four.  Requests are unaligned, smaller than what is left of *)
(* a page, and so large that the heap must grow by one page or by two.     *)
(***************************************************************************)
EXTENDS Heap

MCRequests == {0, 1, 17, 42, 58}
=============================================================================
