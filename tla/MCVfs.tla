-------------------------------- MODULE MCVfs --------------------------------
(***************************************************************************)
(* Vfs with mounts inside one another and beside one another, and paths at *)
(* them, below them and next to them; one path is relative.                *)
(***************************************************************************)
EXTENDS Vfs

A == <<Slash, "a">>
AB == <<Slash, "a", "b">>
InA == <<Slash, "a", Slash, "b">>

MCMountPaths == {Root, A, AB, InA}
MCPaths == {Root, A, AB, InA, InA \o A, AB \o A, <<"a">>}
(* The file systems are of one kind. *)
Alike == Permutations(FileSystems)
=============================================================================
