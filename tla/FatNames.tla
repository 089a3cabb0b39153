------------------------------ MODULE FatNames ------------------------------
(***************************************************************************)
(* Names and paths of fs/fat32.cpp as strings: the name of a file on its   *)
(* way into a directory entry and back, and the two ways in which a path is*)
(* taken apart, splitPath for lookups, parentOf and basenameOf for changes.*)
(***************************************************************************)
EXTENDS Integers, Sequences, SequencesExt

CONSTANTS
  BaseSize, ExtSize,    (* 8 and 3 in the code                              *)
  Capital               (* small letter -> its capital                      *)

ASSUME NamesAssumption == BaseSize \in Nat \ {0} /\ ExtSize \in Nat \ {0}

PathSeparator == "/"
Dot == "."
Blank == " "
Deleted == "0xE5"       (* the first byte of an entry that was deleted      *)

toUpper(c) == IF c \in DOMAIN Capital THEN Capital[c] ELSE c
toLower(c) ==
  IF \E s \in DOMAIN Capital : Capital[s] = c
  THEN CHOOSE s \in DOMAIN Capital : Capital[s] = c ELSE c

Each(Op(_), s) == [i \in DOMAIN s |-> Op(s[i])]

namesEqual(a, b) == Each(toLower, a) = Each(toLower, b)

-----------------------------------------------------------------------------
(* Entries *)

Refused == "refused"

DotsOf(name) == {i \in DOMAIN name : name[i] = Dot}

(* The two halves of a name, by its only dot. *)
Base(name) ==
  IF DotsOf(name) = {} THEN name ELSE SubSeq(name, 1, (CHOOSE i \in DotsOf(name) : TRUE) - 1)
Ext(name) ==
  IF DotsOf(name) = {} THEN <<>>
  ELSE SubSeq(name, (CHOOSE i \in DotsOf(name) : TRUE) + 1, Len(name))

Padded(s, n) == [i \in 1 .. n |-> IF i <= Len(s) THEN toUpper(s[i]) ELSE Blank]

(* Mutant: an extension that is too long is cut off. *)
makeShortNameCut(name) ==
  IF \/ PathSeparator \in ToSet(name)
     \/ \E i, j \in DotsOf(name) : i # j
     \/ Len(Base(name)) \notin 1 .. BaseSize
  THEN Refused
  ELSE Padded(Base(name), BaseSize) \o Padded(Ext(name), ExtSize)

makeShortName(name) ==
  IF \/ PathSeparator \in ToSet(name)
     \/ \E i, j \in DotsOf(name) : i # j
     \/ Len(Base(name)) \notin 1 .. BaseSize \/ Len(Ext(name)) > ExtSize
  THEN Refused
  ELSE Padded(Base(name), BaseSize) \o Padded(Ext(name), ExtSize)

(* Without the blanks at its end. *)
Stripped(s) ==
  LET ink == {i \in DOMAIN s : s[i] # Blank}
  IN  IF ink = {} THEN <<>> ELSE SubSeq(s, 1, CHOOSE i \in ink : \A j \in ink : j <= i)

shortNameToString(raw) ==
  LET ext == Stripped(SubSeq(raw, BaseSize + 1, BaseSize + ExtSize))
  IN  Each(toLower, Stripped(SubSeq(raw, 1, BaseSize))
                      \o (IF ext = <<>> THEN <<>> ELSE <<Dot>> \o ext))

-----------------------------------------------------------------------------
(* Paths *)

(* The maximal parts between slashes, each by where it starts and ends. *)
Parts(path) ==
  {p \in (DOMAIN path) \X (DOMAIN path) :
     /\ p[1] <= p[2]
     /\ \A i \in p[1] .. p[2] : path[i] # PathSeparator
     /\ p[1] = 1 \/ path[p[1] - 1] = PathSeparator
     /\ p[2] = Len(path) \/ path[p[2] + 1] = PathSeparator}

splitPath(path) ==
  LET inOrder == SetToSortSeq(Parts(path), LAMBDA p, q : p[1] < q[1])
  IN  [i \in DOMAIN inOrder |-> SubSeq(path, inOrder[i][1], inOrder[i][2])]

(* Where the path ends, slashes behind it left out but for the first. *)
EndOf(path) ==
  LET last == {i \in DOMAIN path : i = 1 \/ path[i] # PathSeparator}
  IN  IF last = {} THEN 0 ELSE CHOOSE i \in last : \A j \in last : j <= i

(* The last slash up to there, or 0. *)
SlashOf(path) ==
  LET at == {i \in 1 .. EndOf(path) : path[i] = PathSeparator}
  IN  IF at = {} THEN 0 ELSE CHOOSE i \in at : \A j \in at : j <= i

basenameOf(path) ==
  IF path = <<PathSeparator>> THEN path ELSE SubSeq(path, SlashOf(path) + 1, EndOf(path))

(* Mutant: slashes behind the path count. *)
parentOfNaive(path) ==
  LET at == {i \in DOMAIN path : path[i] = PathSeparator}
      slash == IF at = {} THEN 0 ELSE CHOOSE i \in at : \A j \in at : j <= i
  IN  IF slash <= 1 THEN <<PathSeparator>> ELSE SubSeq(path, 1, slash - 1)

parentOf(path) ==
  IF SlashOf(path) <= 1 THEN <<PathSeparator>> ELSE SubSeq(path, 1, SlashOf(path) - 1)

-----------------------------------------------------------------------------
(* Properties, of one name or path *)

(* A name that an entry can say: no blank or dot at the end of a half, and  *)
(* not one that begins as a deleted entry does.                             *)
Sayable(name) ==
  /\ Stripped(Base(name)) = Base(name) /\ Stripped(Ext(name)) = Ext(name)
  /\ Last(name) # Dot
  /\ Head(name) # Deleted

(* A name that makeShortName takes is found again by the lookup of createFile*)
(* and open exactly if it is sayable.  (For another, "a." or "a ", open with*)
(* Create makes a file "a" and then fails, once more with each call.)       *)
NameSurvives(name) ==
  LET raw == makeShortName(name)
  IN  raw # Refused =>
        (Head(raw) # Deleted /\ namesEqual(shortNameToString(raw), name) <=> Sayable(name))

(* The parent and the name that a change works on are those that a lookup of *)
(* the same path goes through, whatever slashes it has and where.           *)
PathAgrees(path) ==
  LET parts == splitPath(path)
  IN  parts # <<>> =>
        basenameOf(path) = Last(parts) /\ splitPath(parentOf(path)) = Front(parts)
=============================================================================
