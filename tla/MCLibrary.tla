------------------------------ MODULE MCLibrary ------------------------------
(***************************************************************************)
(* The parts that keep to themselves: strings, collections, the console on *)
(* its screen, a directory with long names, and the table of mounts (with  *)
(* the paths of MCVfs).  They share no state, so a history is one of any   *)
(* of them: the states of the run are the sum of theirs, not the product.  *)
(* What is computed without state (copyRect and colours, names and paths,  *)
(* printed numbers) is checked for all arguments of a bounded size in one  *)
(* state more.                                                             *)
(***************************************************************************)
EXTENDS MCVfs, Strings, Collections, Console, FatNames, FatDirectory, Numbers

VARIABLE which

MCVars == <<stringVars, collectionVars, consoleVars, dirVars, vars, which>>

MCInit ==
  /\ which \in {"strings", "vectors", "list", "console", "directory", "mounts",
               "pure"}
  /\ StringInit /\ CollectionInit /\ ConsoleInit /\ Init
  /\ IF which = "directory" THEN DirInit
     ELSE slots = <<>> /\ files = <<>> /\ orphans = {}

MCNext ==
  /\ \/ /\ which = "strings" /\ StringNext
        /\ UNCHANGED <<collectionVars, consoleVars, dirVars, vars>>
     \/ /\ which = "vectors" /\ VectorNext
        /\ UNCHANGED <<stringVars, consoleVars, dirVars, vars>>
     \/ /\ which = "list" /\ ListNext
        /\ UNCHANGED <<stringVars, consoleVars, dirVars, vars>>
     \/ /\ which = "console" /\ ConsoleNext
        /\ UNCHANGED <<stringVars, collectionVars, dirVars, vars>>
     \/ /\ which = "directory" /\ DirNext
        /\ UNCHANGED <<stringVars, collectionVars, consoleVars, vars>>
     \/ /\ which = "mounts" /\ Next
        /\ UNCHANGED <<stringVars, collectionVars, consoleVars, dirVars>>
  /\ UNCHANGED which

MCSpec == MCInit /\ [][MCNext]_MCVars

-----------------------------------------------------------------------------
(* Constants *)

MCInk == [g \in {"i", "m"} |-> IF g = "i" THEN 1 ELSE 3]

MCCapital == [c \in {"a"} |-> "A"]

MCLongParts == [n \in {"long1", "long2"} |-> IF n = "long1" THEN 1 ELSE 2]

(* Long names that lie within a cluster of three slots, that begin in one   *)
(* and end in the next, and that have their entry alone in the next.        *)
MCDirectories ==
  {<<>>, <<"long2", "long1">>, <<"volume", "a", "long2">>,
   <<"long1", "long2", "gap">>, <<"a", "gap", "long1", "b">>}

-----------------------------------------------------------------------------
(* What is computed without state *)

UpTo(n, S) == UNION {[1 .. k -> S] : k \in 1 .. n}

(* Every rectangle of a screen, to every place of it and beyond. *)
Spots == [x : 0 .. Width, y : 0 .. 3]
Sizes == [x : {0, 1, 3, Width, Width + 1}, y : {0, 1, 2, Height}]

(* No two pixels are alike. *)
Coloured == [y \in Ys |-> [x \in Xs |-> Width * y + x]]

(* A rectangle arrives as it was, though it overlaps where it comes from    *)
(* and either may reach over the edge of the screen; and the colour of a    *)
(* pixel survives being taken apart and packed, whatever its width.         *)
CopyIsFaithful ==
  /\ \A src, dst \in Spots, size \in Sizes :
       copyRect(Coloured, src, dst, size) = MovedAtOnce(Coloured, src, dst, size)
  /\ \A bits \in 1 .. 8 : \A val \in 0 .. 2^bits - 1 :
       packed(expandTo8Bit(val, bits), bits) = val

(* All names and all paths of a few characters. *)
NamesAreFaithful ==
  /\ \A name \in UpTo(5, {"a", "A", Dot, Blank, PathSeparator, Deleted}) : NameSurvives(name)
  /\ \A path \in UpTo(6, {"a", "b", PathSeparator}) : PathAgrees(path)

(* What functions without state make of their arguments is what it is taken *)
(* for: screen areas and colours by scrolling, names and paths by lookups,  *)
(* numbers by whoever reads them.                                           *)
ComputedIsMeant ==
  which = "pure" => CopyIsFaithful /\ NamesAreFaithful /\ NumbersReadable
=============================================================================
