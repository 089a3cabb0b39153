----------------------------- MODULE Collections -----------------------------
(***************************************************************************)
(* Vector, LinkedList and Queue of types.h.                                *)
(*                                                                         *)
(* A Vector owns an array of cap elements, of which the first count are in *)
(* use; pop, remove and clear only lower count, so elements that left stay *)
(* in the array.  Vectors are copied and moved (the VFS hands out its mount*)
(* table by value, FAT32 its directory listings).  LinkedList and Queue    *)
(* have no users yet; a Queue is a LinkedList of which push is pushBack and*)
(* pop is front with popFront.  No element passed to push is one of the    *)
(* same Vector, and allocation does not fail.                              *)
(***************************************************************************)
EXTENDS Integers, Sequences, FiniteSets, SequencesExt

CONSTANTS
  Vectors,     (* the Vector variables of a program                         *)
  Elements,
  Default,     (* the element that T() makes                                *)
  Null,        (* no array, no node; also a Vector that is not alive        *)
  FirstCap,    (* what grow starts with: 4 in the code                      *)
  MaxItems     (* bound: elements in a collection                           *)

ASSUME CollectionAssumption ==
  /\ IsFiniteSet(Vectors) /\ Default \in Elements
  /\ FirstCap \in Nat \ {0} /\ MaxItems \in Nat

VARIABLES
  arrays,      (* array -> its elements; a free one is Null                 *)
  array, count, cap,     (* the members of each Vector                      *)
  alive,       (* the Vectors between construction and destruction          *)
  items,       (* ghost: what each Vector is meant to hold                  *)
  nodes,       (* node -> [value, next, prev]; a free one is Null           *)
  head, tail, listCount, (* the members of the LinkedList                   *)
  listed       (* ghost: what it is meant to hold                           *)

vectorVars == <<arrays, array, count, cap, alive, items>>
listVars == <<nodes, head, tail, listCount, listed>>

Arrays == 1 .. Cardinality(Vectors) + 1
NodeIds == 1 .. MaxItems

CollectionInit ==
  /\ arrays = [a \in Arrays |-> Null]
  /\ array = [v \in Vectors |-> Null]
  /\ count = [v \in Vectors |-> 0] /\ cap = [v \in Vectors |-> 0]
  /\ alive = {}
  /\ items = [v \in Vectors |-> <<>>]
  /\ nodes = [n \in NodeIds |-> Null]
  /\ head = Null /\ tail = Null /\ listCount = 0 /\ listed = <<>>

-----------------------------------------------------------------------------
(* Vector *)

NewArray == CHOOSE a \in Arrays :
              arrays[a] = Null /\ \A b \in Arrays : arrays[b] = Null => a <= b

(* data[i], counted from 1; Default where there is no such element, which   *)
(* VectorsHold rules out.                                                   *)
At(elements, i) == IF elements # Null /\ i \in DOMAIN elements THEN elements[i] ELSE Default

Elems(v) == IF array[v] = Null THEN <<>> ELSE arrays[array[v]]
Used(v) == [i \in 1 .. count[v] |-> At(Elems(v), i)]

(* new T[n] with these at its start. *)
Array(n, elements) ==
  [i \in 1 .. (IF n > Len(elements) THEN n ELSE Len(elements)) |-> At(elements, i)]

(* The Vector v has n elements, these, in an array for c of them: the one it*)
(* has if that is large enough, else a new one in its place (reserve).      *)
Holds(v, n, elements, c) ==
  /\ count' = [count EXCEPT ![v] = n]
  /\ IF c <= cap[v]
     THEN /\ arrays' = IF array[v] = Null THEN arrays
                       ELSE [arrays EXCEPT ![array[v]] =
                         [i \in 1 .. Len(@) |-> IF i <= n THEN At(elements, i) ELSE @[i]]]
          /\ UNCHANGED <<array, cap>>
     ELSE /\ arrays' = [a \in Arrays |-> IF a = NewArray THEN Array(c, elements)
                                         ELSE IF a = array[v] THEN Null ELSE arrays[a]]
          /\ array' = [array EXCEPT ![v] = NewArray]
          /\ cap' = [cap EXCEPT ![v] = c]

(* Mutant: the array is never replaced by a larger one. *)
grownNever(v) == cap[v]

(* The capacity push makes sure of. *)
grown(v) ==
  IF count[v] < cap[v] THEN cap[v] ELSE IF cap[v] = 0 THEN FirstCap ELSE 2 * cap[v]

newVector(v) ==
  /\ v \notin alive
  /\ alive' = alive \cup {v}
  /\ UNCHANGED <<arrays, array, count, cap, items>>

push(v, x) ==
  /\ v \in alive /\ count[v] < MaxItems
  /\ Holds(v, count[v] + 1, Append(Used(v), x), grown(v))
  /\ items' = [items EXCEPT ![v] = Append(@, x)]
  /\ UNCHANGED alive

pop(v) ==
  /\ v \in alive /\ count[v] > 0
  /\ count' = [count EXCEPT ![v] = @ - 1]
  /\ items' = [items EXCEPT ![v] = Front(@)]
  /\ UNCHANGED <<arrays, array, cap, alive>>

(* remove: the elements behind move up one by one; the last stays in place. *)
remove(v, index) ==
  /\ v \in alive /\ index <= count[v]
  /\ arrays' = [arrays EXCEPT ![array[v]] =
       FoldLeft(LAMBDA e, i : [e EXCEPT ![i] = e[i + 1]], @,
                [k \in 1 .. count[v] - index |-> index + k - 1])]
  /\ count' = [count EXCEPT ![v] = @ - 1]
  /\ items' = [items EXCEPT ![v] = RemoveAt(@, index)]
  /\ UNCHANGED <<array, cap, alive>>

clearVector(v) ==
  /\ v \in alive
  /\ count' = [count EXCEPT ![v] = 0]
  /\ items' = [items EXCEPT ![v] = <<>>]
  /\ UNCHANGED <<arrays, array, cap, alive>>

reserve(v, n) ==
  /\ v \in alive
  /\ Holds(v, count[v], Used(v), n)
  /\ UNCHANGED <<alive, items>>

(* resize: elements that left before may come back. *)
resize(v, n) ==
  LET grow == Array(n, Used(v))
  IN  /\ v \in alive
      /\ Holds(v, n, IF n <= cap[v] THEN Elems(v) ELSE grow, n)
      /\ items' = [items EXCEPT ![v] = [i \in 1 .. n |->
           IF i <= Len(@) THEN @[i] ELSE IF n <= cap[v] THEN Elems(v)[i] ELSE Default]]
      /\ UNCHANGED alive

(* reserve for all of o, then push of each of its elements; v is empty. *)
Copied(v, o) ==
  /\ Holds(v, count[o], Used(o), count[o])
  /\ items' = [items EXCEPT ![v] = items[o]]

copyVector(v, o) ==
  v \notin alive /\ o \in alive /\ Copied(v, o) /\ alive' = alive \cup {v}

assignVector(v, o) ==
  v # o /\ {v, o} \subseteq alive /\ Copied(v, o) /\ UNCHANGED alive

(* Mutant: o keeps the array as well. *)
TakenShared(v, o) ==
  /\ arrays' = [a \in Arrays |-> IF a = array[v] THEN Null ELSE arrays[a]]
  /\ array' = [array EXCEPT ![v] = array[o]]
  /\ count' = [count EXCEPT ![v] = count[o], ![o] = 0]
  /\ cap' = [cap EXCEPT ![v] = cap[o]]
  /\ items' = [items EXCEPT ![v] = items[o], ![o] = <<>>]

(* v takes the array of o, and the one it had is deleted. *)
Taken(v, o) ==
  /\ arrays' = [a \in Arrays |-> IF a = array[v] THEN Null ELSE arrays[a]]
  /\ array' = [array EXCEPT ![v] = array[o], ![o] = Null]
  /\ count' = [count EXCEPT ![v] = count[o], ![o] = 0]
  /\ cap' = [cap EXCEPT ![v] = cap[o], ![o] = 0]
  /\ items' = [items EXCEPT ![v] = items[o], ![o] = <<>>]

moveVector(v, o) ==
  v \notin alive /\ o \in alive /\ Taken(v, o) /\ alive' = alive \cup {v}

moveAssignVector(v, o) == v # o /\ {v, o} \subseteq alive /\ Taken(v, o) /\ UNCHANGED alive

deleteVector(v) ==
  /\ v \in alive
  /\ arrays' = [a \in Arrays |-> IF a = array[v] THEN Null ELSE arrays[a]]
  /\ array' = [array EXCEPT ![v] = Null]
  /\ count' = [count EXCEPT ![v] = 0] /\ cap' = [cap EXCEPT ![v] = 0]
  /\ items' = [items EXCEPT ![v] = <<>>]
  /\ alive' = alive \ {v}

VectorNext ==
  /\ \E v \in Vectors :
       \/ newVector(v) \/ pop(v) \/ clearVector(v) \/ deleteVector(v)
       \/ \E x \in Elements : push(v, x)
       \/ \E i \in 1 .. MaxItems : remove(v, i) \/ reserve(v, i) \/ resize(v, i)
       \/ \E o \in Vectors : copyVector(v, o) \/ assignVector(v, o)
                               \/ moveVector(v, o) \/ moveAssignVector(v, o)
  /\ UNCHANGED listVars

-----------------------------------------------------------------------------
(* LinkedList *)

NewNode == CHOOSE n \in NodeIds :
             nodes[n] = Null /\ \A m \in NodeIds : nodes[m] = Null => n <= m

Room == listCount < MaxItems

pushBack(x) ==
  /\ Room
  /\ nodes' = [n \in NodeIds |->
       IF n = NewNode THEN [value |-> x, next |-> Null, prev |-> tail]
       ELSE IF n = tail THEN [nodes[n] EXCEPT !.next = NewNode]
       ELSE nodes[n]]
  /\ tail' = NewNode
  /\ head' = IF listCount = 0 THEN NewNode ELSE head
  /\ listCount' = listCount + 1
  /\ listed' = Append(listed, x)

pushFront(x) ==
  /\ Room
  /\ nodes' = [n \in NodeIds |->
       IF n = NewNode THEN [value |-> x, next |-> head, prev |-> Null]
       ELSE IF n = head THEN [nodes[n] EXCEPT !.prev = NewNode]
       ELSE nodes[n]]
  /\ head' = NewNode
  /\ tail' = IF listCount = 0 THEN NewNode ELSE tail
  /\ listCount' = listCount + 1
  /\ listed' = <<x>> \o listed

popBackNode ==
  /\ listCount > 0
  /\ LET new == IF head = tail THEN Null ELSE nodes[tail].prev
     IN  /\ nodes' = [n \in NodeIds |-> IF n = tail THEN Null
                        ELSE IF n = new THEN [nodes[n] EXCEPT !.next = Null]
                        ELSE nodes[n]]
         /\ tail' = new
  /\ head' = IF head = tail THEN Null ELSE head
  /\ listCount' = listCount - 1
  /\ listed' = Front(listed)

(* popFront, and pop of a Queue. *)
popFrontNode ==
  /\ listCount > 0
  /\ LET new == IF head = tail THEN Null ELSE nodes[head].next
     IN  /\ nodes' = [n \in NodeIds |-> IF n = head THEN Null
                        ELSE IF n = new THEN [nodes[n] EXCEPT !.prev = Null]
                        ELSE nodes[n]]
         /\ head' = new
  /\ tail' = IF head = tail THEN Null ELSE tail
  /\ listCount' = listCount - 1
  /\ listed' = Tail(listed)

(* The nodes from head on, as many as there can be. *)
Chain(from, link) ==
  FoldLeft(LAMBDA c, i : IF c # <<>> /\ nodes[Last(c)][link] # Null
                         THEN Append(c, nodes[Last(c)][link]) ELSE c,
           IF from = Null THEN <<>> ELSE <<from>>, [i \in 1 .. MaxItems |-> i])

clearList ==
  /\ nodes' = [n \in NodeIds |->
       IF \E i \in DOMAIN Chain(head, "next") : Chain(head, "next")[i] = n
       THEN Null ELSE nodes[n]]
  /\ head' = Null /\ tail' = Null /\ listCount' = 0 /\ listed' = <<>>

ListNext ==
  /\ \/ \E x \in Elements : pushBack(x) \/ pushFront(x)
     \/ popBackNode \/ popFrontNode \/ clearList
  /\ UNCHANGED vectorVars

collectionVars == <<vectorVars, listVars>>

CollectionSpec == CollectionInit /\ [][VectorNext \/ ListNext]_collectionVars

-----------------------------------------------------------------------------
(* Properties *)

(* Every Vector holds what its history of calls means, in an array that is  *)
(* as long as it believes and that no other Vector has; every array has an  *)
(* owner.                                                                   *)
VectorsHold ==
  /\ \A v \in Vectors :
       /\ Used(v) = items[v]
       /\ Len(Elems(v)) = cap[v] /\ count[v] <= cap[v]
       /\ array[v] # Null => arrays[array[v]] # Null
       /\ \A o \in Vectors : array[v] # Null /\ array[v] = array[o] => v = o
  /\ \A a \in Arrays : arrays[a] # Null => \E v \in alive : array[v] = a

(* Read along next or along prev, the list holds what was pushed and not    *)
(* popped; it has no other nodes.                                           *)
ListHolds ==
  LET chain == Chain(head, "next")
  IN  /\ [i \in DOMAIN chain |-> nodes[chain[i]].value] = listed
      /\ Chain(tail, "prev") = Reverse(chain)
      /\ listCount = Len(listed)
      /\ \A n \in NodeIds : nodes[n] # Null <=> \E i \in DOMAIN chain : chain[i] = n

(* Vectors and lists hold what their histories of calls mean.               *)
CollectionsHoldItems == VectorsHold /\ ListHolds
=============================================================================
