------------------------------ MODULE CharQueue ------------------------------
(***************************************************************************)
(* What the keyboard driver promises its reader: a first-in first-out      *)
(* queue of characters with room for Capacity of them.  A character that   *)
(* comes when the queue is full, and only then, is lost.  The reader takes *)
(* one character at a time from the front.                                 *)
(***************************************************************************)
EXTENDS Integers, Sequences

CONSTANTS Capacity, Char

VARIABLES
  queue,    (* the characters waiting, oldest first                         *)
  inHand,   (* <<>>, or the character taken and not yet used                *)
  lost      (* how many characters found the queue full                     *)

vars == <<queue, inHand, lost>>

QueueInit == queue = <<>> /\ inHand = <<>> /\ lost = 0

Accept(c) ==
  /\ Len(queue) < Capacity
  /\ queue' = Append(queue, c)
  /\ UNCHANGED <<inHand, lost>>

Lose ==
  /\ Len(queue) = Capacity
  /\ lost' = lost + 1
  /\ UNCHANGED <<queue, inHand>>

Take ==
  /\ queue # <<>>
  /\ inHand = <<>>
  /\ inHand' = <<Head(queue)>>
  /\ queue' = Tail(queue)
  /\ UNCHANGED lost

Use ==
  /\ inHand # <<>>
  /\ inHand' = <<>>
  /\ UNCHANGED <<queue, lost>>

QueueNext ==
  \/ \E c \in Char : Accept(c)
  \/ Lose
  \/ Take
  \/ Use

QueueSpec == QueueInit /\ [][QueueNext]_vars
=============================================================================
