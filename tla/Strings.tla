------------------------------- MODULE Strings -------------------------------
(***************************************************************************)
(* class string of types.h and utils/types.cpp: a length, a capacity and a *)
(* buffer of one byte more, which the object owns.  A buffer is a sequence *)
(* of bytes as long as its allocation; a byte stored past the end makes it *)
(* longer.  Loops that move bytes within a buffer go byte by byte in the   *)
(* order of the code, as source and destination overlap.                   *)
(*                                                                         *)
(* Arguments of type cstring are texts of their own: no caller hands a     *)
(* string its own cStr().  Allocation does not fail.                       *)
(***************************************************************************)
EXTENDS Integers, Sequences, FiniteSets, SequencesExt

CONSTANTS
  Names,       (* the string variables of a program                         *)
  Letters,
  Space,       (* the letter that trim removes                              *)
  NUL,
  Unset,       (* a byte that was never written                             *)
  Nothing,     (* the data of a variable that is not alive                  *)
  MaxText,     (* bound: letters in an argument                             *)
  MaxString    (* bound: letters in a string                                *)

ASSUME StringAssumption ==
  /\ IsFiniteSet(Names)
  /\ Space \in Letters /\ NUL \notin Letters /\ Unset \notin Letters \cup {NUL}

VARIABLES
  blocks,      (* buffer -> its bytes; a free one is empty                  *)
  data, len, capacity,   (* the members of each string                      *)
  text         (* ghost: what each string is meant to say                   *)

stringVars == <<blocks, data, len, capacity, text>>

(* Two more than there are strings: one call holds an old and a new buffer. *)
Blocks == 1 .. Cardinality(Names) + 2

Texts(n) == UNION {[1 .. k -> Letters] : k \in 0 .. n}

Alive(s) == data[s] # Nothing

StringInit ==
  /\ blocks = [b \in Blocks |-> <<>>]
  /\ data = [s \in Names |-> Nothing]
  /\ len = [s \in Names |-> 0]
  /\ capacity = [s \in Names |-> 0]
  /\ text = [s \in Names |-> <<>>]

-----------------------------------------------------------------------------
(* Memory *)

(* A block that `new char[n]` may return, here the first. *)
NewBlock == CHOOSE b \in Blocks :
              blocks[b] = <<>> /\ \A c \in Blocks : blocks[c] = <<>> => b <= c

Fresh(n) == [i \in 1 .. n |-> Unset]

(* data[i] = byte, with i counted from 0. *)
Stored(bytes, i, byte) ==
  [j \in 1 .. (IF i + 1 > Len(bytes) THEN i + 1 ELSE Len(bytes)) |->
     IF j = i + 1 THEN byte ELSE IF j > Len(bytes) THEN Unset ELSE bytes[j]]

Get(bytes, i) == IF i + 1 \in DOMAIN bytes THEN bytes[i + 1] ELSE Unset

(* memory::copy of other bytes to offset `at`. *)
copy(bytes, at, source) ==
  FoldLeft(LAMBDA m, i : Stored(m, at + i - 1, source[i]), bytes,
           [i \in 1 .. Len(source) |-> i])

(* data[i + to] = data[i + from] for each i of a sequence, in its order. *)
Shifted(bytes, is, from, to) ==
  FoldLeft(LAMBDA m, i : Stored(m, i + to, Get(m, i + from)), bytes, is)

Upto(n) == [i \in 1 .. n |-> i - 1]
Downfrom(n) == [i \in 1 .. n |-> n - i]

(* The first n bytes of a buffer. *)
First(bytes, n) == [i \in 1 .. n |-> Get(bytes, i - 1)]

Contents(s) == First(blocks[data[s]], len[s])

(* Mutant: no room for the terminator. *)
BufferTight(n, letters) == Stored(copy(Fresh(n), 0, letters), Len(letters), NUL)

(* A buffer for n letters that holds these and the terminator. *)
Buffer(n, letters) == Stored(copy(Fresh(n + 1), 0, letters), Len(letters), NUL)

-----------------------------------------------------------------------------
(* Constructors, assignments and the destructor *)

Becomes(s, b, l, c, t) ==
  /\ data' = [data EXCEPT ![s] = b]
  /\ len' = [len EXCEPT ![s] = l]
  /\ capacity' = [capacity EXCEPT ![s] = c]
  /\ text' = [text EXCEPT ![s] = t]

(* string() and string(cstring) *)
construct(s, t) ==
  /\ ~Alive(s)
  /\ blocks' = [blocks EXCEPT ![NewBlock] = Buffer(Len(t), t)]
  /\ Becomes(s, NewBlock, Len(t), Len(t), t)

(* string(const string&) *)
copyConstruct(s, o) ==
  /\ ~Alive(s) /\ Alive(o)
  /\ blocks' = [blocks EXCEPT ![NewBlock] = Buffer(capacity[o], Contents(o))]
  /\ Becomes(s, NewBlock, len[o], capacity[o], text[o])

(* The buffer of o goes to s; o is left empty, with a buffer of its own. *)
Taking(s, o, memory) ==
  LET b == CHOOSE n \in Blocks :
             memory[n] = <<>> /\ \A c \in Blocks : memory[c] = <<>> => n <= c
  IN  /\ blocks' = [memory EXCEPT ![b] = <<NUL>>]
      /\ data' = [data EXCEPT ![s] = data[o], ![o] = b]
      /\ len' = [len EXCEPT ![s] = len[o], ![o] = 0]
      /\ capacity' = [capacity EXCEPT ![s] = capacity[o], ![o] = 0]
      /\ text' = [text EXCEPT ![s] = text[o], ![o] = <<>>]

(* string(string&&) *)
moveConstruct(s, o) == ~Alive(s) /\ Alive(o) /\ Taking(s, o, blocks)

destroy(s) ==
  /\ Alive(s)
  /\ blocks' = [blocks EXCEPT ![data[s]] = <<>>]
  /\ Becomes(s, Nothing, 0, 0, <<>>)

(* operator=(const string&): nothing happens when s is o. *)
copyAssign(s, o) ==
  /\ Alive(s) /\ Alive(o) /\ s # o
  /\ blocks' = [blocks EXCEPT ![NewBlock] = Buffer(capacity[o], Contents(o)),
                              ![data[s]] = <<>>]
  /\ Becomes(s, NewBlock, len[o], capacity[o], text[o])

(* Mutant: the old buffer is not deleted. *)
moveAssignLeaking(s, o) ==
  /\ Alive(s) /\ Alive(o) /\ s # o
  /\ Taking(s, o, blocks)

(* operator=(string&&) *)
moveAssign(s, o) ==
  /\ Alive(s) /\ Alive(o) /\ s # o
  /\ Taking(s, o, [blocks EXCEPT ![data[s]] = <<>>])

-----------------------------------------------------------------------------
(* Changes in place *)

(* reserve(n), and then the bytes of the buffer s has now are changed.      *)
Reserved(s, n) ==
  IF n <= capacity[s] THEN blocks[data[s]] ELSE Buffer(n, Contents(s))

ReserveAnd(s, n, bytes, l) ==
  IF n <= capacity[s]
  THEN /\ blocks' = [blocks EXCEPT ![data[s]] = bytes]
       /\ len' = [len EXCEPT ![s] = l]
       /\ UNCHANGED <<data, capacity>>
  ELSE /\ blocks' = [blocks EXCEPT ![NewBlock] = bytes, ![data[s]] = <<>>]
       /\ data' = [data EXCEPT ![s] = NewBlock]
       /\ capacity' = [capacity EXCEPT ![s] = n]
       /\ len' = [len EXCEPT ![s] = l]

(* append of a text, or of a letter. *)
append(s, t) ==
  LET l == len[s] + Len(t)
  IN  /\ Alive(s) /\ l <= MaxString
      /\ ReserveAnd(s, l, Stored(copy(Reserved(s, l), len[s], t), l, NUL), l)
      /\ text' = [text EXCEPT ![s] = @ \o t]

(* Mutant: the first one first. *)
prependForwards(s, t) ==
  LET l == len[s] + Len(t)
      room == Shifted(Reserved(s, l), Upto(len[s]), 0, Len(t))
  IN  /\ Alive(s) /\ t # <<>> /\ l <= MaxString
      /\ ReserveAnd(s, l, Stored(copy(room, 0, t), l, NUL), l)
      /\ text' = [text EXCEPT ![s] = t \o @]

(* prepend: the letters there make room, the last one first. *)
prepend(s, t) ==
  LET l == len[s] + Len(t)
      room == Shifted(Reserved(s, l), Downfrom(len[s]), 0, Len(t))
  IN  /\ Alive(s) /\ t # <<>> /\ l <= MaxString
      /\ ReserveAnd(s, l, Stored(copy(room, 0, t), l, NUL), l)
      /\ text' = [text EXCEPT ![s] = t \o @]

(* The buffer stays, its bytes and the length change. *)
InPlace(s, bytes, l) == ReserveAnd(s, 0, bytes, l)

clear(s) ==
  /\ Alive(s)
  /\ InPlace(s, Stored(blocks[data[s]], 0, NUL), 0)
  /\ text' = [text EXCEPT ![s] = <<>>]

popBack(s) ==
  /\ Alive(s) /\ len[s] > 0
  /\ InPlace(s, Stored(blocks[data[s]], len[s] - 1, NUL), len[s] - 1)
  /\ text' = [text EXCEPT ![s] = Front(@)]

(* removePrefix: the rest moves down, terminator included. *)
removePrefix(s, t) ==
  LET rest == len[s] - Len(t)
  IN  /\ Alive(s) /\ t # <<>> /\ rest >= 0
      /\ First(blocks[data[s]], Len(t)) = t
      /\ InPlace(s, Shifted(blocks[data[s]], Upto(rest + 1), Len(t), 0), rest)
      /\ text' = [text EXCEPT ![s] = SubSeq(@, Len(t) + 1, Len(@))]

removeSuffix(s, t) ==
  LET start == len[s] - Len(t)
  IN  /\ Alive(s) /\ t # <<>> /\ start >= 0
      /\ \A i \in 1 .. Len(t) : Get(blocks[data[s]], start + i - 1) = t[i]
      /\ InPlace(s, Stored(blocks[data[s]], start, NUL), start)
      /\ text' = [text EXCEPT ![s] = SubSeq(@, 1, Len(@) - Len(t))]

(* The two loops of trim: the number of letters before the first, and up to *)
(* the last, that is no space.                                              *)
TrimStart(letters) ==
  FoldLeft(LAMBDA n, i : IF n = i - 1 /\ letters[i] = Space THEN i ELSE n,
           0, [i \in 1 .. Len(letters) |-> i])

TrimEnd(letters, start) ==
  FoldLeft(LAMBDA n, i : IF n = i /\ letters[i] = Space THEN i - 1 ELSE n,
           Len(letters), [i \in 1 .. Len(letters) - start |-> Len(letters) + 1 - i])

(* What trim leaves, by its meaning: the longest part without a space at    *)
(* either end.                                                              *)
Trimmed(t) ==
  LET solid == {i \in DOMAIN t : t[i] # Space}
  IN  IF solid = {} THEN <<>>
      ELSE SubSeq(t, CHOOSE i \in solid : \A j \in solid : i <= j,
                     CHOOSE i \in solid : \A j \in solid : i >= j)

trim(s) ==
  LET letters == Contents(s)
      start == TrimStart(letters)
      l == TrimEnd(letters, start) - start
  IN  /\ Alive(s) /\ len[s] > 0
      /\ InPlace(s, Stored(Shifted(blocks[data[s]], Upto(l), start, 0), l, NUL), l)
      /\ text' = [text EXCEPT ![s] = Trimmed(@)]

StringNext ==
  \E s \in Names :
    \/ \E t \in Texts(MaxText) :
         construct(s, t) \/ append(s, t) \/ prepend(s, t)
           \/ removePrefix(s, t) \/ removeSuffix(s, t)
    \/ \E o \in Names :
         copyConstruct(s, o) \/ moveConstruct(s, o)
           \/ copyAssign(s, o) \/ moveAssign(s, o)
    \/ destroy(s) \/ clear(s) \/ popBack(s) \/ trim(s)

StringSpec == StringInit /\ [][StringNext]_stringVars

-----------------------------------------------------------------------------
(* Properties *)

(* Every buffer belongs to one string and is as long as that string says:   *)
(* no buffer is shared, lost or freed twice, and no byte is stored past an  *)
(* end, whatever was copied, moved or reserved before.                      *)
OwnBuffers ==
  /\ \A s, o \in Names : Alive(s) /\ data[s] = data[o] => s = o
  /\ \A b \in Blocks : blocks[b] # <<>> => \E s \in Names : data[s] = b
  /\ \A s \in Names : Alive(s) =>
       Len(blocks[data[s]]) = capacity[s] + 1 /\ len[s] <= capacity[s]

(* The letters are those of the abstract text, and the terminator follows   *)
(* them at once, so cStr() and length() agree.                              *)
SayTexts ==
  \A s \in Names : Alive(s) =>
    Contents(s) = text[s] /\ Get(blocks[data[s]], len[s]) = NUL

(* Every string says what its history of calls means, from a buffer of its  *)
(* own.                                                                     *)
StringsHoldTexts == OwnBuffers /\ SayTexts
=============================================================================
