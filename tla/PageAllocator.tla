---------------------------- MODULE PageAllocator ----------------------------
(***************************************************************************)
(* What the rest of the kernel may rely on when it asks for physical pages *)
(* (the interface in include/kernel/memory/physicalMemory.h): a pool of    *)
(* pages, fixed when the pool comes up, from which runs of pages are taken *)
(* and to which they come back.  Page 0 is never in the pool, because its  *)
(* address is the error value.  A run is refused only when no such run is  *)
(* free, so a single page only when the pool is empty.  Which pages are    *)
(* taken is not promised.                                                  *)
(***************************************************************************)
EXTENDS Integers

CONSTANT MaxRun   (* the longest run a caller asks for *)

VARIABLES
  state,   (* "boot", "up" or "halted"                                      *)
  free,    (* pages nobody holds                                            *)
  held,    (* pages callers hold                                            *)
  answer   (* the answer to the last call, if it asked for pages            *)

poolVars == <<state, free, held, answer>>

Interval(s, n) == s .. s + n - 1

NoAnswer == [count |-> 0, granted |-> FALSE]

PoolInit ==
  /\ state = "boot"
  /\ free = {}
  /\ held = {}
  /\ answer = NoAnswer

ComeUp ==
  /\ state = "boot"
  /\ state' = "up"
  /\ free' \in SUBSET (Nat \ {0})
  /\ UNCHANGED <<held, answer>>

Take(s, n) ==
  /\ state = "up"
  /\ n > 0
  /\ Interval(s, n) \subseteq free
  /\ free' = free \ Interval(s, n)
  /\ held' = held \cup Interval(s, n)
  /\ answer' = [count |-> n, granted |-> TRUE]
  /\ UNCHANGED state

Refuse(n) ==
  /\ state = "up"
  /\ n > 0 => \A s \in free : ~(Interval(s, n) \subseteq free)
  /\ answer' = [count |-> n, granted |-> FALSE]
  /\ UNCHANGED <<state, free, held>>

Give(s, n) ==
  /\ state = "up"
  /\ Interval(s, n) \subseteq held
  /\ free' = free \cup Interval(s, n)
  /\ held' = held \ Interval(s, n)
  /\ answer' = NoAnswer
  /\ UNCHANGED state

(* A caller that returns what it does not hold stops the machine, and so    *)
(* does a boot that finds no room for the allocator.                        *)
Halt ==
  /\ state \in {"boot", "up"}
  /\ state' = "halted"
  /\ free' = {}
  /\ answer' = NoAnswer
  /\ UNCHANGED held

PoolNext ==
  \/ ComeUp
  \/ \E n \in 0 .. MaxRun :
       \/ \E s \in free : Take(s, n)
       \/ Refuse(n)
       \/ \E s \in held : Give(s, n)
  \/ Halt

PoolSpec == PoolInit /\ [][PoolNext]_poolVars
=============================================================================
