------------------------------- MODULE Numbers -------------------------------
(***************************************************************************)
(* printNumber, printHex and printSigned of io/console.cpp: the digits they*)
(* put into their buffers, for integers of Bits bits (64 in the code).  A  *)
(* digit is its value.                                                     *)
(***************************************************************************)
EXTENDS Integers, Sequences, SequencesExt

CONSTANTS
  Bits,          (* of a number; a multiple of 4                            *)
  NumberRoom,    (* characters in the buffer of printNumber: 21 in the code *)
  HexRoom        (* and in that of printHex: 19                             *)

ASSUME NumbersAssumption ==
  Bits \in Nat \ {0} /\ Bits % 4 = 0 /\ NumberRoom \in Nat /\ HexRoom \in Nat

Unsigned == 0 .. 2^Bits - 1
Signed == -(2^(Bits - 1)) .. 2^(Bits - 1) - 1

(* As an unsigned number. *)
u64(num) == num % 2^Bits

(* The buffer filled from its end, the digit of lowest value first. *)
printNumber(num) ==
  LET digits[n \in Nat] == IF n < 10 THEN <<n>> ELSE Append(digits[n \div 10], n % 10)
  IN  digits[num]

(* Mutant: zeros inside a number are left out like those before it. *)
HexDigitPresent(acc, shift, digit) == digit # 0 \/ shift = 0

(* A digit is shown, but for zeros before the first that is not. *)
HexDigitShown(acc, shift, digit) == digit # 0 \/ acc # <<>> \/ shift = 0

printHex(num) ==
  FoldLeft(LAMBDA acc, shift :
             LET digit == (num \div 2^shift) % 16
             IN  IF HexDigitShown(acc, shift, digit) THEN Append(acc, digit) ELSE acc,
           <<>>, [i \in 1 .. Bits \div 4 |-> Bits - 4 * i])

(* The magnitude of the least number has no signed counterpart: one is added*)
(* before the sign is changed and once more after it.                       *)
Magnitude(num) == u64(u64(-(num + 1)) + 1)

printSigned(num) ==
  IF num < 0 THEN [minus |-> TRUE, digits |-> printNumber(Magnitude(num))]
  ELSE [minus |-> FALSE, digits |-> printNumber(u64(num))]

-----------------------------------------------------------------------------
(* Properties *)

Denotes(digits, base) == FoldLeft(LAMBDA acc, d : base * acc + d, 0, digits)

Plain(digits) == digits # <<>> /\ (Head(digits) = 0 => digits = <<0>>)

(* Every number is printed as the digits that denote it, with no zeros      *)
(* before them, within the buffer: its end, and for printHex its prefix,    *)
(* included; and no step of the way overflows a signed number.              *)
NumbersReadable ==
  /\ \A num \in Unsigned :
       /\ Denotes(printNumber(num), 10) = num /\ Plain(printNumber(num))
       /\ Len(printNumber(num)) + 1 <= NumberRoom
       /\ Denotes(printHex(num), 16) = num /\ Plain(printHex(num))
       /\ Len(printHex(num)) + 3 <= HexRoom
  /\ \A num \in Signed :
       LET text == printSigned(num)
       IN  /\ num < 0 => num + 1 \in Signed /\ -(num + 1) \in Signed
           /\ (IF text.minus THEN -1 ELSE 1) * Denotes(text.digits, 10) = num
=============================================================================
