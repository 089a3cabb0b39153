----------------------------- MODULE MCKeyboard -----------------------------
(***************************************************************************)
(* A ring of three slots, so that two characters fill it, and five keys: a *)
(* letter, Enter, Backspace, a shift key, and an extended key whose code   *)
(* is the one of that shift key.                                           *)
(***************************************************************************)
EXTENDS Keyboard

Plain(n) == [ext |-> FALSE, code |-> n]

MCKeys ==
  {Plain(30), Plain(28), Plain(14), Plain(42),
   [ext |-> TRUE, code |-> 42]}

MCLayout == [n \in 0 .. 127 |->
  CASE n = 30 -> 97 [] n = 28 -> Newline [] n = 14 -> Backspace [] OTHER -> 0]
MCShift == [n \in 0 .. 127 |->
  CASE n = 30 -> 65 [] n = 28 -> Newline [] n = 14 -> Backspace [] OTHER -> 0]
=============================================================================
