----------------------------- MODULE HeapProofs -----------------------------
(***************************************************************************)
(* The kernel heap for every size of header, page and heap, every alignment*)
(* and every set of requests: its blocks always tile it, neighbours are not*)
(* both free, every block in use is held by one caller, the byte counters  *)
(* account for all of it, and the walk along the list finds the first fit. *)
(***************************************************************************)
EXTENDS Heap, FiniteSetTheorems, WellFoundedInduction, TLAPS

Link == Nat \cup {NULL}

(* The headers are those of a list of blocks that tile [0, hi).             *)
Shape(h, hi) ==
  /\ hi \in Nat
  /\ DOMAIN h \subseteq Nat
  /\ h \in [DOMAIN h -> [size : Nat, free : BOOLEAN, next : Link, prev : Link]]
  /\ Tiling(h, hi)

Used(h) == {a \in DOMAIN h : ~h[a].free}

(* What holders of blocks notice of the headers.                            *)
SameUse(g, h, S) ==
  /\ Used(g) = S
  /\ S \subseteq DOMAIN h
  /\ \A a \in S : g[a].size = h[a].size

-----------------------------------------------------------------------------
(* The list operations *)

(* What Shape says of a block.                                              *)
LEMMA ShapeFacts ==
  ASSUME NEW h, NEW hi, Shape(h, hi)
  PROVE  /\ hi \in Nat
         /\ \A b \in DOMAIN h :
              /\ b \in Nat /\ End(h, b) \in Nat /\ b + HDR <= End(h, b)
              /\ h[b].size \in Nat /\ h[b].free \in BOOLEAN
              /\ End(h, b) = b + HDR + h[b].size
         /\ \A b \in DOMAIN h :
              /\ End(h, b) <= hi
              /\ h[b].next = IF End(h, b) = hi THEN NULL ELSE End(h, b)
              /\ h[b].next # NULL => h[b].next \in DOMAIN h
              /\ h[b].prev = NULL <=> b = 0
              /\ h[b].prev # NULL => h[b].prev \in DOMAIN h /\ End(h, h[b].prev) = b
         /\ \A b, c \in DOMAIN h : b < c => End(h, b) <= c
         /\ hi > 0 => 0 \in DOMAIN h
<1>1. HDR \in Nat /\ hi \in Nat
  BY SizeAssumption DEF Shape
<1>2. \A b \in DOMAIN h : b \in Nat /\ h[b].size \in Nat /\ h[b].free \in BOOLEAN
  BY DEF Shape
<1>3. \A b \in DOMAIN h : End(h, b) = b + HDR + h[b].size
  BY DEF End
<1>4. \A b \in DOMAIN h : End(h, b) \in Nat /\ b + HDR <= End(h, b)
  BY <1>1, <1>2, <1>3
<1>5. Tiling(h, hi)
  BY DEF Shape
<1> QED
  BY <1>1, <1>2, <1>3, <1>4, <1>5 DEF Tiling, heapStart

(* g is h with the mark of block a set to f.                                *)
Marked(h, g, a, f) ==
  /\ DOMAIN g = DOMAIN h
  /\ g[a].free = f
  /\ \A b \in DOMAIN h :
       /\ g[b].size = h[b].size /\ g[b].next = h[b].next /\ g[b].prev = h[b].prev
       /\ b # a => g[b].free = h[b].free

(* Marking a block free or used moves nothing.                              *)
LEMMA SetFreeShape ==
  ASSUME NEW h, NEW hi, Shape(h, hi), NEW a \in DOMAIN h, NEW f \in BOOLEAN,
         NEW g, g = SetFree(h, a, f)
  PROVE  Shape(g, hi) /\ Marked(h, g, a, f)
<1>1. /\ DOMAIN g = DOMAIN h
      /\ g = [b \in DOMAIN h |-> IF b = a THEN [h[a] EXCEPT !.free = f] ELSE h[b]]
  BY DEF SetFree
<1>2. /\ g \in [DOMAIN g -> [size : Nat, free : BOOLEAN, next : Link, prev : Link]]
      /\ g[a].free = f
      /\ \A b \in DOMAIN h :
           /\ g[b].size = h[b].size /\ g[b].next = h[b].next /\ g[b].prev = h[b].prev
           /\ b # a => g[b].free = h[b].free
  BY <1>1 DEF Shape
<1>3. \A b \in DOMAIN h : End(g, b) = End(h, b)
  BY <1>2 DEF End
<1>4. Tiling(g, hi)
  BY <1>1, <1>2, <1>3 DEF Shape, Tiling
<1> QED
  BY <1>1, <1>2, <1>4 DEF Shape, Marked

(* In g block a of h is cut in two; new is the second part.                 *)
Carved(h, g, a, new, size) ==
  /\ new \notin DOMAIN h /\ DOMAIN g = DOMAIN h \cup {new}
  /\ g[a].size = size /\ g[a].free = h[a].free /\ g[a].next = new
  /\ g[new].size = h[a].size - size - HDR /\ g[new].free = TRUE
  /\ g[new].next = h[a].next
  /\ \A b \in DOMAIN h \ {a} :
       g[b].size = h[b].size /\ g[b].free = h[b].free /\ g[b].next = h[b].next

(* splitBlock keeps a list a list.                                          *)
LEMMA CarveShape ==
  ASSUME NEW h, NEW hi, Shape(h, hi), NEW a \in DOMAIN h,
         NEW size \in Nat, size + HDR < h[a].size,
         NEW new, new = a + HDR + size,
         NEW g, g = Carve(h, a, size)
  PROVE  Shape(g, hi) /\ Carved(h, g, a, new, size)
<1> DEFINE nx == h[a].next
<1> USE SizeAssumption
<1>1. /\ a \in Nat /\ HDR \in Nat /\ h[a].size \in Nat /\ new \in Nat
      /\ nx \in Link /\ h[a].prev \in Link /\ h[a].free \in BOOLEAN
  BY DEF Shape
<1>2. \A b \in DOMAIN h : b \in Nat /\ (a < b => End(h, a) <= b)
  BY DEF Shape, Tiling
<1>3. new \notin DOMAIN h /\ a < new /\ new < End(h, a) /\ a # new
  BY <1>1, <1>2 DEF End
<1>4. /\ DOMAIN g = DOMAIN h \cup {new}
      /\ g[new] = Header(h[a].size - size - HDR, TRUE, nx, a)
      /\ g[a] = Header(size, h[a].free, new, h[a].prev)
      /\ \A b \in DOMAIN h \ {a} : g[b] = IF b = nx THEN [h[b] EXCEPT !.prev = new] ELSE h[b]
  BY <1>3 DEF Carve
<1>5. g = [b \in DOMAIN g |-> g[b]]
  BY DEF Carve
<1> HIDE DEF nx
<1>6. /\ g[new].size = h[a].size - size - HDR /\ g[new].free = TRUE /\ g[new].next = nx
      /\ g[new].prev = a
      /\ g[a].size = size /\ g[a].free = h[a].free /\ g[a].next = new
      /\ g[a].prev = h[a].prev
      /\ \A b \in DOMAIN h \ {a} :
           /\ g[b].size = h[b].size /\ g[b].free = h[b].free /\ g[b].next = h[b].next
           /\ g[b].prev = IF b = nx THEN new ELSE h[b].prev
  <2>1. \A b \in DOMAIN h \ {a} :
           /\ g[b].size = h[b].size /\ g[b].free = h[b].free /\ g[b].next = h[b].next
           /\ g[b].prev = IF b = nx THEN new ELSE h[b].prev
    BY <1>4 DEF Shape
  <2> QED
    BY <1>4, <2>1 DEF Header
<1>7. g \in [DOMAIN g -> [size : Nat, free : BOOLEAN, next : Link, prev : Link]]
  <2>1. g[new] \in [size : Nat, free : BOOLEAN, next : Link, prev : Link]
    BY <1>1, <1>4 DEF Header, Link
  <2>2. g[a] \in [size : Nat, free : BOOLEAN, next : Link, prev : Link]
    BY <1>1, <1>4 DEF Header, Link
  <2>3. \A b \in DOMAIN h \ {a} : g[b] \in [size : Nat, free : BOOLEAN, next : Link, prev : Link]
    BY <1>1, <1>4 DEF Shape, Link
  <2> QED
    BY <1>4, <1>5, <2>1, <2>2, <2>3
<1>8. /\ End(g, new) = End(h, a) /\ End(g, a) = new
      /\ \A b \in DOMAIN h \ {a} : End(g, b) = End(h, b)
  BY <1>1, <1>6 DEF End
<1>9. /\ \A b \in DOMAIN h :
          /\ b \in Nat /\ End(h, b) \in Nat /\ b < End(h, b)
          /\ End(h, b) <= hi
          /\ h[b].next = IF End(h, b) = hi THEN NULL ELSE End(h, b)
          /\ h[b].next # NULL => h[b].next \in DOMAIN h
          /\ h[b].prev = NULL <=> b = 0
          /\ h[b].prev # NULL => h[b].prev \in DOMAIN h /\ End(h, h[b].prev) = b
      /\ \A b, c \in DOMAIN h : b < c => End(h, b) <= c
      /\ hi \in Nat /\ (hi > 0 => 0 \in DOMAIN h)
  BY <1>1, ShapeFacts
<1>10. /\ End(h, a) <= hi /\ a < End(h, a) /\ End(h, a) \in Nat
       /\ nx = IF End(h, a) = hi THEN NULL ELSE End(h, a)
       /\ nx # NULL => nx \in DOMAIN h
  BY <1>9 DEF nx
<1>11. \A b \in DOMAIN h : h[b].prev # b /\ (h[b].prev = a => b = nx)
  BY <1>9, <1>10 DEF NULL
<1>12. ASSUME NEW b \in DOMAIN g
       PROVE  /\ End(g, b) <= hi
              /\ g[b].next = IF End(g, b) = hi THEN NULL ELSE End(g, b)
              /\ g[b].next # NULL => g[b].next \in DOMAIN g
  <2>1. CASE b \in DOMAIN h \ {a}
    <3>1. End(g, b) = End(h, b) /\ g[b].next = h[b].next
      BY <2>1, <1>6, <1>8
    <3>2. b \in DOMAIN h /\ DOMAIN h \subseteq DOMAIN g
      BY <2>1, <1>4
    <3> QED
      BY <3>1, <3>2, <1>9
  <2>2. CASE b = a
    <3>1. End(g, b) = new /\ g[b].next = new /\ new \in DOMAIN g
      BY <2>2, <1>4, <1>6, <1>8
    <3>2. new < hi /\ new # hi
      BY <1>1, <1>3, <1>9, <1>10
    <3> QED
      BY <3>1, <3>2, <1>1, <1>9
  <2>3. CASE b = new
    <3>1. End(g, b) = End(h, a) /\ g[b].next = nx
      BY <2>3, <1>6, <1>8
    <3> QED
      BY <3>1, <1>4, <1>10
  <2> QED
    BY <2>1, <2>2, <2>3, <1>4
<1>13. ASSUME NEW b \in DOMAIN g
       PROVE  /\ g[b].prev = NULL <=> b = 0
              /\ g[b].prev # NULL => g[b].prev \in DOMAIN g /\ End(g, g[b].prev) = b
  <2>1. CASE b \in DOMAIN h \ {a} /\ b # nx
    <3>1. g[b].prev = h[b].prev /\ h[b].prev # a
      BY <2>1, <1>6, <1>11
    <3> QED
      BY <2>1, <3>1, <1>4, <1>8, <1>9
  <2>2. CASE b \in DOMAIN h \ {a} /\ b = nx
    <3>1. g[b].prev = new /\ new # NULL /\ new \in DOMAIN g
      BY <2>2, <1>1, <1>4, <1>6 DEF NULL
    <3>2. nx # NULL /\ b = End(h, a) /\ b # 0
      BY <2>2, <1>9, <1>10 DEF NULL
    <3> QED
      BY <3>1, <3>2, <1>8
  <2>3. CASE b = new
    <3>1. g[b].prev = a /\ a # NULL /\ b # 0
      BY <2>3, <1>1, <1>3, <1>6 DEF NULL
    <3>2. a \in DOMAIN g /\ End(g, a) = b
      BY <2>3, <1>4, <1>8
    <3> QED
      BY <3>1, <3>2
  <2>4. CASE b = a
    BY <2>4, <1>4, <1>6, <1>8, <1>9, <1>11
  <2> QED
    BY <2>1, <2>2, <2>3, <2>4, <1>4
<1>14. ASSUME NEW b \in DOMAIN g, NEW c \in DOMAIN g, b < c
       PROVE  End(g, b) <= c
  <2>1. CASE b = new
    BY <2>1, <1>14, <1>1, <1>3, <1>4, <1>8, <1>9
  <2>2. CASE b = a
    BY <2>2, <1>14, <1>1, <1>3, <1>4, <1>8, <1>9
  <2>3. CASE b \in DOMAIN h \ {a} /\ c = new
    BY <2>3, <1>14, <1>1, <1>3, <1>8, <1>9
  <2>4. CASE b \in DOMAIN h \ {a} /\ c \in DOMAIN h
    BY <2>4, <1>14, <1>8, <1>9
  <2> QED
    BY <2>1, <2>2, <2>3, <2>4, <1>4
<1>15. Tiling(g, hi)
  BY <1>4, <1>9, <1>12, <1>13, <1>14 DEF Tiling, heapStart
<1>16. Shape(g, hi)
  BY <1>1, <1>4, <1>7, <1>9, <1>15 DEF Shape
<1> QED
  BY <1>3, <1>4, <1>6, <1>16 DEF nx, Carved
(* In g block a has taken over the block n that followed it in h.           *)
Absorbed(h, g, a, n) ==
  /\ n \in DOMAIN h /\ n # a /\ DOMAIN g = DOMAIN h \ {n}
  /\ g[a].size = h[a].size + HDR + h[n].size
  /\ g[a].free = h[a].free /\ g[a].next = h[n].next /\ g[a].prev = h[a].prev
  /\ \A b \in DOMAIN g \ {a} :
       /\ g[b].size = h[b].size /\ g[b].free = h[b].free
       /\ g[b].next = h[b].next /\ h[b].next # n

(* mergeWithNext keeps a list a list.                                       *)
LEMMA AbsorbShape ==
  ASSUME NEW h, NEW hi, Shape(h, hi), NEW a \in DOMAIN h,
         NEW n, n = h[a].next, n # NULL,
         NEW g, g = Absorb(h, a, n)
  PROVE  /\ Shape(g, hi)
         /\ Absorbed(h, g, a, n)
<1> DEFINE nn == h[n].next
<1> USE SizeAssumption
<1>1. /\ \A b \in DOMAIN h :
          /\ b \in Nat /\ End(h, b) \in Nat /\ b < End(h, b)
          /\ End(h, b) <= hi
          /\ h[b].next = IF End(h, b) = hi THEN NULL ELSE End(h, b)
          /\ h[b].next # NULL => h[b].next \in DOMAIN h
          /\ h[b].prev = NULL <=> b = 0
          /\ h[b].prev # NULL => h[b].prev \in DOMAIN h /\ End(h, h[b].prev) = b
      /\ \A b, c \in DOMAIN h : b < c => End(h, b) <= c
      /\ hi \in Nat /\ (hi > 0 => 0 \in DOMAIN h)
  BY ShapeFacts
<1>2. /\ \A b \in DOMAIN h : /\ h[b].size \in Nat /\ h[b].free \in BOOLEAN
                             /\ h[b].next \in Link /\ h[b].prev \in Link
                             /\ End(h, b) = b + HDR + h[b].size
  BY DEF Shape, End
<1>3. n \in DOMAIN h /\ n = End(h, a) /\ a < n /\ n # a /\ n # 0
  BY <1>1
<1>4. /\ DOMAIN g = DOMAIN h \ {n}
      /\ g[a] = Header(h[a].size + HDR + h[n].size, h[a].free, nn, h[a].prev)
      /\ \A b \in DOMAIN h \ {a, n} : g[b] = IF b = nn THEN [h[b] EXCEPT !.prev = a] ELSE h[b]
  BY <1>3 DEF Absorb
<1>5. g = [b \in DOMAIN g |-> g[b]]
  BY DEF Absorb
<1> HIDE DEF nn
<1>6. /\ g[a].size = h[a].size + HDR + h[n].size /\ g[a].free = h[a].free
      /\ g[a].next = nn /\ g[a].prev = h[a].prev
      /\ \A b \in DOMAIN h \ {a, n} :
           /\ g[b].size = h[b].size /\ g[b].free = h[b].free /\ g[b].next = h[b].next
           /\ g[b].prev = IF b = nn THEN a ELSE h[b].prev
  <2>1. \A b \in DOMAIN h \ {a, n} :
           /\ g[b].size = h[b].size /\ g[b].free = h[b].free /\ g[b].next = h[b].next
           /\ g[b].prev = IF b = nn THEN a ELSE h[b].prev
    <3> SUFFICES ASSUME NEW b \in DOMAIN h \ {a, n}
                 PROVE  /\ g[b].size = h[b].size /\ g[b].free = h[b].free
                        /\ g[b].next = h[b].next
                        /\ g[b].prev = IF b = nn THEN a ELSE h[b].prev
      OBVIOUS
    <3>1. h[b] \in [size : Nat, free : BOOLEAN, next : Link, prev : Link]
      BY DEF Shape
    <3>2. CASE b = nn
      <4>1. g[b] = [h[b] EXCEPT !.prev = a]
        BY <1>4, <3>2
      <4> QED
        BY <3>1, <3>2, <4>1
    <3>3. CASE b # nn
      BY <1>4, <3>3
    <3> QED
      BY <3>2, <3>3
  <2> QED
    BY <1>4, <2>1 DEF Header
<1>7. g \in [DOMAIN g -> [size : Nat, free : BOOLEAN, next : Link, prev : Link]]
  <2>1. g[a] \in [size : Nat, free : BOOLEAN, next : Link, prev : Link]
    BY <1>2, <1>3, <1>4 DEF Header, nn
  <2>2. ASSUME NEW b \in DOMAIN h \ {a, n}
        PROVE  g[b] \in [size : Nat, free : BOOLEAN, next : Link, prev : Link]
    <3>1. h[b] \in [size : Nat, free : BOOLEAN, next : Link, prev : Link]
      BY <2>2 DEF Shape
    <3>2. a \in Link
      BY <1>1 DEF Link
    <3>3. [h[b] EXCEPT !.prev = a] \in [size : Nat, free : BOOLEAN, next : Link, prev : Link]
      BY <3>1, <3>2
    <3> QED
      BY <2>2, <3>1, <3>3, <1>4
  <2> QED
    BY <1>4, <1>5, <2>1, <2>2
<1>8. /\ End(g, a) = End(h, n)
      /\ \A b \in DOMAIN h \ {a, n} : End(g, b) = End(h, b)
  <2>1. \A b \in DOMAIN h \ {a, n} : End(g, b) = End(h, b)
    BY <1>6 DEF End
  <2>2. End(g, a) = a + HDR + (h[a].size + HDR + h[n].size)
    BY <1>6 DEF End
  <2> QED
    BY <1>1, <1>2, <1>3, <2>1, <2>2
<1>9. \A b \in DOMAIN h \ {a, n} :
        h[b].next # n /\ (h[b].prev # NULL => h[b].prev # a) /\ (h[b].prev = n => b = nn)
  <2>1. \A b \in DOMAIN h \ {a, n} : End(h, b) # n
    BY <1>1, <1>3
  <2>2. \A b \in DOMAIN h \ {a, n} : h[b].next # n
    BY <2>1, <1>1, <1>3 DEF NULL
  <2>3. \A b \in DOMAIN h \ {a, n} : h[b].prev # NULL => h[b].prev # a
    BY <1>1, <1>3
  <2>4. \A b \in DOMAIN h \ {a, n} : h[b].prev = n => b = nn
    BY <1>1, <1>3 DEF nn, NULL
  <2> QED
    BY <2>2, <2>3, <2>4
<1>10. /\ nn = IF End(h, n) = hi THEN NULL ELSE End(h, n)
       /\ End(h, n) <= hi /\ a < End(h, n) /\ n < End(h, n) /\ End(h, n) \in Nat
       /\ nn # NULL => nn \in DOMAIN h /\ nn # n /\ nn # a
  BY <1>1, <1>3 DEF nn
<1>11. ASSUME NEW b \in DOMAIN g
       PROVE  /\ End(g, b) <= hi
              /\ g[b].next = IF End(g, b) = hi THEN NULL ELSE End(g, b)
              /\ g[b].next # NULL => g[b].next \in DOMAIN g
  <2>1. CASE b = a
    BY <2>1, <1>4, <1>6, <1>8, <1>10
  <2>2. CASE b \in DOMAIN h \ {a, n}
    <3>1. End(g, b) = End(h, b) /\ g[b].next = h[b].next /\ h[b].next # n
      BY <2>2, <1>6, <1>8, <1>9
    <3> QED
      BY <2>2, <3>1, <1>1, <1>4
  <2> QED
    BY <2>1, <2>2, <1>4
<1>12. ASSUME NEW b \in DOMAIN g
       PROVE  /\ g[b].prev = NULL <=> b = 0
              /\ g[b].prev # NULL => g[b].prev \in DOMAIN g /\ End(g, g[b].prev) = b
  <2>1. CASE b = a
    <3>1. g[b].prev = h[a].prev
      BY <2>1, <1>6
    <3>2. h[a].prev # NULL => h[a].prev # a /\ h[a].prev # n
      BY <1>1, <1>3
    <3> QED
      BY <2>1, <3>1, <3>2, <1>1, <1>4, <1>8
  <2>2. CASE b \in DOMAIN h \ {a, n} /\ b = nn
    <3>1. g[b].prev = a /\ a # NULL /\ a \in DOMAIN g
      BY <2>2, <1>1, <1>3, <1>4, <1>6 DEF NULL
    <3>2. nn # NULL
      BY <2>2, <1>1 DEF NULL
    <3>3. b = End(h, n) /\ b # 0
      BY <2>2, <3>2, <1>1, <1>10
    <3> QED
      BY <3>1, <3>3, <1>8
  <2>3. CASE b \in DOMAIN h \ {a, n} /\ b # nn
    <3>1. g[b].prev = h[b].prev
      BY <2>3, <1>6
    <3>2. h[b].prev # NULL => h[b].prev \in DOMAIN h \ {a, n}
      BY <2>3, <1>1, <1>9
    <3> QED
      BY <2>3, <3>1, <3>2, <1>1, <1>4, <1>8
  <2> QED
    BY <2>1, <2>2, <2>3, <1>4
<1>13. ASSUME NEW b \in DOMAIN g, NEW c \in DOMAIN g, b < c
       PROVE  End(g, b) <= c
  <2>1. CASE b = a
    <3>1. End(h, a) <= c /\ c # n /\ c \in DOMAIN h /\ c \in Nat
      BY <2>1, <1>13, <1>1, <1>4
    <3>2. n < c
      BY <3>1, <1>1, <1>3
    <3> QED
      BY <2>1, <3>1, <3>2, <1>1, <1>3, <1>8
  <2>2. CASE b \in DOMAIN h \ {a, n}
    BY <2>2, <1>13, <1>1, <1>4, <1>8
  <2> QED
    BY <2>1, <2>2, <1>4
<1>14. Tiling(g, hi)
  BY <1>1, <1>3, <1>4, <1>11, <1>12, <1>13 DEF Tiling, heapStart
<1>15. Shape(g, hi)
  BY <1>1, <1>4, <1>7, <1>14 DEF Shape
<1>16. \A b \in DOMAIN g \ {a} :
          /\ g[b].size = h[b].size /\ g[b].free = h[b].free
          /\ g[b].next = h[b].next /\ h[b].next # n
  BY <1>4, <1>6, <1>9
<1> QED
  BY <1>3, <1>4, <1>6, <1>15, <1>16 DEF nn, Absorbed
-----------------------------------------------------------------------------
(* Blocks and sizes are multiples of ALIGN *)

(* A multiple of d between 0 and d - 1 is 0.                                *)
LEMMA SmallMultiple ==
  ASSUME NEW d \in Nat \ {0}, NEW q \in Int, NEW r \in 0 .. d - 1, d * q = r
  PROVE  r = 0
<1>1. q >= 1 => d * q >= d
  BY Z3
<1>2. q <= 0 => d * q <= 0
  BY Z3
<1> QED
  BY <1>1, <1>2

(* The remainder of a product by its factor.                                *)
LEMMA ProductIsMultiple ==
  ASSUME NEW d \in Nat \ {0}, NEW k \in Int
  PROVE  (d * k) % d = 0
<1> DEFINE z == d * k
<1>1. z \in Int
  BY Z3
<1>2. z = d * (z \div d) + (z % d) /\ z \div d \in Int /\ z % d \in 0 .. d - 1
  BY <1>1, Z3
<1> DEFINE q == z \div d
           r == z % d
<1>3. \A m, n \in Int : d * (m - n) = d * m - d * n /\ m - n \in Int
  BY Z3
<1>4. d * (k - q) = z - d * q /\ k - q \in Int
  BY <1>2, <1>3
<1>5. z = d * q + r /\ r \in 0 .. d - 1 /\ q \in Int
  BY <1>2
<1>6. d * q \in Int
  BY <1>5, Z3
<1> HIDE DEF z, q, r
<1>7. d * (k - q) = r
  BY <1>1, <1>4, <1>5, <1>6
<1>8. r = 0
  BY <1>4, <1>5, <1>7, SmallMultiple
<1> QED
  BY <1>8 DEF r, z

(* Sums and differences of multiples are multiples.                         *)
LEMMA Multiples ==
  ASSUME NEW d \in Nat \ {0}, NEW x \in Int, NEW y \in Int, x % d = 0, y % d = 0
  PROVE  (x + y) % d = 0 /\ (x - y) % d = 0
<1>1. /\ x = d * (x \div d) /\ x \div d \in Int
      /\ y = d * (y \div d) /\ y \div d \in Int
  BY Z3
<1>2. /\ x + y = d * (x \div d + y \div d)
      /\ x - y = d * (x \div d - y \div d)
  BY <1>1, Z3
<1>3. \A k \in Int : (d * k) % d = 0
  BY ProductIsMultiple
<1>4. x \div d + y \div d \in Int /\ x \div d - y \div d \in Int
  BY <1>1
<1>5. (d * (x \div d + y \div d)) % d = 0
  BY <1>3, <1>4
<1>6. (d * (x \div d - y \div d)) % d = 0
  BY <1>3, <1>4
<1> QED
  BY <1>2, <1>5, <1>6

(* What divides a divisor divides.                                          *)
LEMMA MultiplesOf ==
  ASSUME NEW d \in Nat \ {0}, NEW e \in Nat \ {0}, e % d = 0,
         NEW x \in Int, x % e = 0
  PROVE  x % d = 0
<1>1. x = e * (x \div e) /\ e = d * (e \div d) /\ x \div e \in Int /\ e \div d \in Int
  BY Z3
<1>2. \A k, m \in Int : (d * k) * m = d * (k * m) /\ k * m \in Int
  BY Z3
<1>3. x = d * ((e \div d) * (x \div e)) /\ (e \div d) * (x \div e) \in Int
  <2>1. x = (d * (e \div d)) * (x \div e)
    BY <1>1
  <2> QED
    BY <1>1, <1>2, <2>1
<1> QED
  BY <1>3, ProductIsMultiple

(* alignUp rounds up to a multiple.                                         *)
LEMMA AlignUpFacts ==
  ASSUME NEW d \in Nat \ {0}, NEW x \in Nat
  PROVE  alignUp(x, d) \in Nat /\ x <= alignUp(x, d) /\ alignUp(x, d) % d = 0
<1> DEFINE y == x + d - 1
           q == y \div d
<1>1. /\ y \in Nat /\ q \in Nat /\ y = d * q + (y % d) /\ y % d \in 0 .. d - 1
  BY Z3
<1>2. q * d = d * q /\ d * q \in Nat
  BY <1>1, Z3
<1>3. x <= d * q
  BY <1>1
<1>4. alignUp(x, d) = d * q
  BY <1>2 DEF alignUp
<1>5. \A k \in Int : (d * k) % d = 0
  BY ProductIsMultiple
<1>6. q \in Int
  BY <1>1
<1> HIDE DEF q
<1>7. (d * q) % d = 0
  BY <1>5, <1>6
<1> QED
  BY <1>2, <1>3, <1>4, <1>7

HAligned(h) == \A a \in DOMAIN h : a % ALIGN = 0 /\ h[a].size % ALIGN = 0

Good(h, hi) == Shape(h, hi) /\ HAligned(h) /\ Coalesced(h)

(* Coalesced, but for block s. *)
CoalescedBut(h, s) ==
  \A b \in DOMAIN h \ {s} : h[b].free /\ h[b].next # NULL => ~h[h[b].next].free

(* mergeWithNext at a free block leaves at most the block before a with a   *)
(* free neighbour.                                                          *)
LEMMA MergeGood ==
  ASSUME NEW h, NEW hi, Shape(h, hi), HAligned(h), NEW a \in DOMAIN h, h[a].free,
         NEW s \in Int, s < a,
         \A b \in DOMAIN h \ {a, s} : h[b].free /\ h[b].next # NULL => ~h[h[b].next].free
  PROVE  LET g == mergeWithNext(h, a)
         IN  /\ Shape(g, hi) /\ HAligned(g) /\ CoalescedBut(g, s)
             /\ SameUse(g, h, Used(h))
             /\ a \in DOMAIN g /\ g[a].free /\ g[a].prev = h[a].prev
             /\ DOMAIN g \subseteq DOMAIN h
<1> USE SizeAssumption
<1> DEFINE g == mergeWithNext(h, a)
           n == h[a].next
<1>1. CASE n = NULL \/ ~h[n].free
  <2>1. g = h
    BY <1>1 DEF mergeWithNext
  <2>2. CoalescedBut(h, s)
    BY <1>1 DEF CoalescedBut
  <2>3. SameUse(h, h, Used(h))
    BY DEF SameUse, Used
  <2> HIDE DEF g
  <2>4. g[a].free /\ g[a].prev = h[a].prev /\ DOMAIN g = DOMAIN h
    BY <2>1
  <2> QED
    BY <2>1, <2>2, <2>3, <2>4 DEF g
<1>2. CASE n # NULL /\ h[n].free
  <2>1. g = Absorb(h, a, n)
    BY <1>2 DEF mergeWithNext
  <2> HIDE DEF g
  <2>2. /\ Shape(g, hi)
        /\ n \in DOMAIN h /\ n # a /\ DOMAIN g = DOMAIN h \ {n}
        /\ g[a].size = h[a].size + HDR + h[n].size
        /\ g[a].free = h[a].free /\ g[a].next = h[n].next /\ g[a].prev = h[a].prev
        /\ \A b \in DOMAIN g \ {a} :
             /\ g[b].size = h[b].size /\ g[b].free = h[b].free
             /\ g[b].next = h[b].next /\ h[b].next # n
    <3>1. n # NULL /\ n = h[a].next
      BY <1>2
    <3> HIDE DEF n
    <3>2. Shape(g, hi) /\ Absorbed(h, g, a, n)
      BY <2>1, <3>1, AbsorbShape
    <3> QED
      BY <3>2 DEF Absorbed
  <2>3. \A b \in DOMAIN h : b \in Nat /\ h[b].size \in Nat /\ (h[b].next # NULL => h[b].next \in DOMAIN h)
    BY ShapeFacts
  <2>4. a < n /\ (h[n].next # NULL => h[n].next # n /\ h[n].next # a)
    BY <1>2, <2>2, ShapeFacts
  <2>5. CoalescedBut(g, s)
    <3> SUFFICES ASSUME NEW b \in DOMAIN g \ {s}, g[b].free, g[b].next # NULL
                 PROVE  ~g[g[b].next].free
      BY DEF CoalescedBut
    <3>1. CASE b = a
      <4>1. n \in DOMAIN h \ {a, s} /\ h[n].next # NULL
        BY <1>2, <2>2, <2>3, <2>4, <3>1
      <4>2. ~h[h[n].next].free
        BY <1>2, <4>1
      <4>3. h[n].next \in DOMAIN g \ {a}
        BY <2>2, <2>3, <2>4, <4>1
      <4> QED
        BY <2>2, <3>1, <4>2, <4>3
    <3>2. CASE b # a
      <4>1. b \in DOMAIN h \ {a, s} /\ g[b].next = h[b].next /\ h[b].next # n /\ h[b].free
        BY <2>2, <3>2
      <4>2. ~h[h[b].next].free /\ h[b].next \in DOMAIN g
        BY <2>2, <2>3, <4>1
      <4>3. h[b].next # a
        BY <4>2
      <4> QED
        BY <2>2, <4>1, <4>2, <4>3
    <3> QED
      BY <3>1, <3>2
  <2>6. HAligned(g)
    <3>1. HDR % ALIGN = 0 /\ ALIGN \in Nat \ {0} /\ HDR \in Int
      BY DEF SizeAssumption
    <3>2. h[a].size % ALIGN = 0 /\ h[n].size % ALIGN = 0 /\ h[a].size \in Int /\ h[n].size \in Int
      BY <2>2, <2>3 DEF HAligned
    <3>3. (h[a].size + HDR) % ALIGN = 0 /\ h[a].size + HDR \in Int
      BY <3>1, <3>2, Multiples
    <3>4. (h[a].size + HDR + h[n].size) % ALIGN = 0
      BY <3>1, <3>2, <3>3, Multiples
    <3> QED
      BY <2>2, <3>4 DEF HAligned
  <2>7. SameUse(g, h, Used(h))
    BY <1>2, <2>2 DEF SameUse, Used
  <2> QED
    BY <2>2, <2>5, <2>6, <2>7 DEF g
<1> QED
  BY <1>1, <1>2

(* free: marking, then merging in both directions, leaves no two free       *)
(* neighbours, and touches no block in use but the one released.            *)
LEMMA ReleaseGood ==
  ASSUME NEW h, NEW hi, Good(h, hi), NEW a \in Used(h)
  PROVE  Good(Release(h, a), hi) /\ SameUse(Release(h, a), h, Used(h) \ {a})
<1> DEFINE marked == SetFree(h, a, TRUE)
           forward == mergeWithNext(marked, a)
           prev == forward[a].prev
<1>1. Shape(h, hi) /\ HAligned(h) /\ Coalesced(h) /\ a \in DOMAIN h
  BY DEF Good, Used
<1>2. Shape(marked, hi) /\ Marked(h, marked, a, TRUE)
  BY <1>1, SetFreeShape
<1> HIDE DEF marked
<1>3. HAligned(marked) /\ SameUse(marked, h, Used(h) \ {a})
  <2>1. HAligned(marked)
    BY <1>1, <1>2 DEF HAligned, Marked
  <2>2. Used(marked) = Used(h) \ {a}
    BY <1>1, <1>2 DEF Marked, Used
  <2> QED
    BY <1>2, <2>1, <2>2 DEF Marked, SameUse, Used
<1>4. h[a].prev \in Int /\ h[a].prev < a
  <2>1. a \in Nat /\ (h[a].prev # NULL => h[a].prev \in DOMAIN h /\ End(h, h[a].prev) = a)
    BY <1>1, ShapeFacts
  <2>2. \A b \in DOMAIN h : b \in Nat /\ b + HDR <= End(h, b) /\ End(h, b) \in Nat
    BY <1>1, ShapeFacts
  <2> QED
    BY <2>1, <2>2, SizeAssumption DEF NULL
<1>5. \A b \in DOMAIN marked \ {a, h[a].prev} :
        marked[b].free /\ marked[b].next # NULL => ~marked[marked[b].next].free
  <2> SUFFICES ASSUME NEW b \in DOMAIN h, b # a, b # h[a].prev, h[b].free, h[b].next # NULL
               PROVE  ~marked[h[b].next].free
    BY <1>2 DEF Marked
  <2>1. h[b].next \in DOMAIN h /\ ~h[h[b].next].free
    BY <1>1, ShapeFacts DEF Coalesced
  <2>2. h[b].next # a
    <3>1. h[b].next = a => End(h, b) = a
      BY <1>1, <2>1, ShapeFacts
    <3>2. End(h, b) = a => h[a].prev = b
      <4>1. \A c, d \in DOMAIN h : c < d => End(h, c) <= d
        BY <1>1, ShapeFacts
      <4>2. \A c \in DOMAIN h : c \in Nat /\ End(h, c) \in Nat /\ c + HDR <= End(h, c)
        BY <1>1, ShapeFacts
      <4>3. h[a].prev # NULL => h[a].prev \in DOMAIN h /\ End(h, h[a].prev) = a
        BY <1>1, ShapeFacts
      <4>4. h[a].prev = NULL => a = 0
        BY <1>1, ShapeFacts
      <4> QED
        BY <4>1, <4>2, <4>3, <4>4, SizeAssumption
    <3> QED
      BY <3>1, <3>2
  <2> QED
    BY <1>2, <2>1, <2>2 DEF Marked
<1>6. /\ Shape(forward, hi) /\ HAligned(forward) /\ CoalescedBut(forward, h[a].prev)
      /\ SameUse(forward, marked, Used(marked))
      /\ a \in DOMAIN forward /\ forward[a].free /\ forward[a].prev = marked[a].prev
      /\ DOMAIN forward \subseteq DOMAIN marked
  <2>1. a \in DOMAIN marked /\ marked[a].free
    BY <1>1, <1>2 DEF Marked
  <2> QED
    BY <1>2, <1>3, <1>4, <1>5, <2>1, MergeGood
<1> HIDE DEF forward
<1>7. prev = h[a].prev
  BY <1>1, <1>2, <1>6 DEF Marked
<1>8. SameUse(forward, h, Used(h) \ {a})
  BY <1>3, <1>6 DEF SameUse
<1>9. CASE prev # NULL /\ forward[prev].free
  <2>1. Release(h, a) = mergeWithNext(forward, prev)
    BY <1>9 DEF Release, forward, marked
  <2>2. prev \in DOMAIN forward /\ prev \in Nat /\ NULL \in Int /\ NULL < prev
    <3>1. prev \in DOMAIN forward
      BY <1>6, <1>9, ShapeFacts
    <3> QED
      BY <1>6, <3>1, ShapeFacts DEF NULL
  <2>3. \A b \in DOMAIN forward \ {prev, NULL} :
          forward[b].free /\ forward[b].next # NULL => ~forward[forward[b].next].free
    BY <1>6, <1>7 DEF CoalescedBut
  <2> HIDE DEF prev
  <2> DEFINE r == mergeWithNext(forward, prev)
  <2>4. /\ Shape(r, hi) /\ HAligned(r) /\ CoalescedBut(r, NULL)
        /\ SameUse(r, forward, Used(forward))
    BY <1>6, <1>9, <2>2, <2>3, MergeGood
  <2> HIDE DEF r
  <2>5. Coalesced(r)
    <3>1. NULL \notin DOMAIN r
      BY <2>4, ShapeFacts DEF NULL
    <3> QED
      BY <2>4, <3>1 DEF Coalesced, CoalescedBut
  <2>6. SameUse(r, h, Used(h) \ {a})
    BY <1>8, <2>4 DEF SameUse
  <2> QED
    BY <2>1, <2>4, <2>5, <2>6 DEF Good, r
<1>10. CASE prev = NULL \/ ~forward[prev].free
  <2>1. Release(h, a) = forward
    BY <1>10 DEF Release, forward, marked
  <2>2. Coalesced(forward)
    <3>1. NULL \notin DOMAIN forward
      BY <1>6, ShapeFacts DEF NULL
    <3>2. ASSUME NEW b \in DOMAIN forward, forward[b].free, forward[b].next # NULL
          PROVE  ~forward[forward[b].next].free
      <4>1. b # h[a].prev
        BY <1>7, <1>10, <3>1, <3>2
      <4> QED
        BY <1>6, <3>2, <4>1 DEF CoalescedBut
    <3> QED
      BY <3>2 DEF Coalesced
  <2> QED
    BY <1>6, <1>8, <2>1, <2>2 DEF Good
<1> QED
  BY <1>9, <1>10

(* In t block a of h is in use, with at least size bytes.                   *)
Taken(h, t, a, size) ==
  /\ Used(t) = Used(h) \cup {a}
  /\ size <= t[a].size
  /\ \A b \in Used(h) : t[b].size = h[b].size

(* What allocate does to the headers: block a, long enough, is cut to size  *)
(* and marked used.                                                         *)
LEMMA TakeGood ==
  ASSUME NEW h, NEW hi, Good(h, hi), NEW a \in DOMAIN h, h[a].free = TRUE,
         NEW size \in Nat, size % ALIGN = 0, size <= h[a].size,
         NEW t, t = SetFree(splitBlock(h, a, size), a, FALSE)
  PROVE  Good(t, hi) /\ Taken(h, t, a, size)
<1> USE SizeAssumption
<1> DEFINE s == splitBlock(h, a, size)
           new == a + HDR + size
<1>1. Shape(h, hi) /\ HAligned(h) /\ Coalesced(h)
  BY DEF Good
<1>2. /\ a \in Nat /\ h[a].size \in Nat /\ HDR \in Nat /\ ALIGN \in Nat
      /\ \A b \in DOMAIN h : h[b].next # NULL => h[b].next \in DOMAIN h
      /\ \A b \in DOMAIN h : h[b].next # NULL => b < h[b].next
  <2>1. /\ a \in Nat /\ h[a].size \in Nat
        /\ \A b \in DOMAIN h : h[b].next # NULL => h[b].next \in DOMAIN h
    BY <1>1, ShapeFacts
  <2>2. \A b \in DOMAIN h : h[b].next # NULL => b < h[b].next
    <3>1. \A b \in DOMAIN h : b \in Nat /\ End(h, b) \in Nat /\ b + HDR <= End(h, b)
      BY <1>1, ShapeFacts
    <3>2. \A b \in DOMAIN h : h[b].next = IF End(h, b) = hi THEN NULL ELSE End(h, b)
      BY <1>1, ShapeFacts
    <3> QED
      BY <3>1, <3>2
  <2> QED
    BY <2>1, <2>2
<1>3. /\ Shape(s, hi) /\ HAligned(s) /\ a \in DOMAIN s /\ size <= s[a].size
      /\ Used(s) = Used(h) /\ \A b \in Used(h) : s[b].size = h[b].size
      /\ \A b \in DOMAIN s \ {a} : s[b].free /\ s[b].next # NULL => ~s[s[b].next].free
  <2>1. CASE h[a].size - size <= HDR + ALIGN
    <3>1. s = h
      BY <2>1 DEF splitBlock
    <3> HIDE DEF s
    <3> QED
      BY <1>1, <3>1 DEF Coalesced
  <2>2. CASE ~(h[a].size - size <= HDR + ALIGN)
    <3>1. s = Carve(h, a, size) /\ size + HDR < h[a].size
      BY <1>2, <2>2 DEF splitBlock
    <3> HIDE DEF s, new
    <3>2. Shape(s, hi) /\ Carved(h, s, a, new, size)
      BY <1>1, <3>1, CarveShape DEF new
    <3>3. HAligned(s)
      <4>1. /\ a % ALIGN = 0 /\ HDR % ALIGN = 0 /\ h[a].size % ALIGN = 0
        BY <1>1 DEF HAligned
      <4>2. (a + HDR) % ALIGN = 0 /\ (h[a].size - size) % ALIGN = 0
        BY <1>2, <4>1, Multiples
      <4>3. (a + HDR + size) % ALIGN = 0 /\ (h[a].size - size - HDR) % ALIGN = 0
        <5>1. a + HDR \in Int /\ h[a].size - size \in Int
          BY <1>2
        <5> QED
          BY <1>2, <4>1, <4>2, <5>1, Multiples
      <4> QED
        BY <1>1, <3>2, <4>1, <4>3 DEF HAligned, Carved, new
    <3>4. Used(s) = Used(h) /\ \A b \in Used(h) : s[b].size = h[b].size
      BY <3>2 DEF Carved, Used
    <3>5. ASSUME NEW b \in DOMAIN s \ {a}, s[b].free, s[b].next # NULL
          PROVE  ~s[s[b].next].free
      <4>1. CASE b = new
        <5>1. s[b].next = h[a].next /\ h[a].next # NULL
          BY <3>2, <3>5, <4>1 DEF Carved
        <5>2. h[a].next \in DOMAIN h \ {a} /\ ~h[h[a].next].free
          BY <1>1, <1>2, <5>1 DEF Coalesced
        <5> QED
          BY <3>2, <5>1, <5>2 DEF Carved
      <4>2. CASE b \in DOMAIN h \ {a}
        <5>1. s[b].next = h[b].next /\ h[b].free /\ h[b].next # NULL
          BY <3>2, <3>5, <4>2 DEF Carved
        <5>2. h[b].next \in DOMAIN h /\ ~h[h[b].next].free
          BY <1>1, <1>2, <4>2, <5>1 DEF Coalesced
        <5>3. h[b].next # a
          BY <5>2
        <5> QED
          BY <3>2, <5>1, <5>2, <5>3 DEF Carved
      <4> QED
        BY <3>2, <4>1, <4>2 DEF Carved
    <3>6. a \in DOMAIN s /\ size <= s[a].size
      BY <3>2 DEF Carved
    <3> QED
      BY <3>2, <3>3, <3>4, <3>5, <3>6
  <2> QED
    BY <2>1, <2>2
<1> HIDE DEF s
<1>4. Shape(t, hi) /\ Marked(s, t, a, FALSE)
  BY <1>3, SetFreeShape DEF s
<1>5. HAligned(t)
  BY <1>3, <1>4 DEF HAligned, Marked
<1>6. Used(t) = Used(s) \cup {a}
  BY <1>3, <1>4 DEF Marked, Used
<1>7. Coalesced(t)
  <2> SUFFICES ASSUME NEW b \in DOMAIN t, t[b].free, t[b].next # NULL
               PROVE  ~t[t[b].next].free
    BY DEF Coalesced
  <2>1. b \in DOMAIN s \ {a} /\ s[b].free /\ s[b].next = t[b].next
    BY <1>4 DEF Marked
  <2>2. ~s[s[b].next].free /\ s[b].next \in DOMAIN s
    BY <1>3, <2>1, ShapeFacts
  <2> QED
    BY <1>4, <2>1, <2>2 DEF Marked
<1>8. size <= t[a].size /\ \A b \in Used(h) : t[b].size = h[b].size
  BY <1>3, <1>4 DEF Marked, Used
<1> QED
  BY <1>3, <1>4, <1>5, <1>6, <1>7, <1>8 DEF Good, Taken
(* In g a free block of total bytes is linked behind the blocks of h.       *)
Linked(h, g, e, total, last) ==
  /\ e \notin DOMAIN h /\ DOMAIN g = DOMAIN h \cup {e}
  /\ g[e].size = total - HDR /\ g[e].free = TRUE /\ g[e].next = NULL /\ g[e].prev = last
  /\ \A b \in DOMAIN h :
       /\ g[b].size = h[b].size /\ g[b].free = h[b].free /\ g[b].prev = h[b].prev
       /\ g[b].next = IF b = last THEN e ELSE h[b].next

(* The first half of AppendBlock. *)
LinkBlock(h, e, total, last) ==
  [b \in DOMAIN h \cup {e} |->
     IF b = e THEN Header(total - HDR, TRUE, NULL, last)
     ELSE IF b = last THEN [h[b] EXCEPT !.next = e]
     ELSE h[b]]

AtEnd(h, last) == IF DOMAIN h = {} THEN last = NULL ELSE Last(h, last)

(* The block of an expansion continues the list.                            *)
LEMMA LinkShape ==
  ASSUME NEW h, NEW e, Shape(h, e), NEW total \in Nat, HDR < total,
         NEW last, AtEnd(h, last),
         NEW g, g = LinkBlock(h, e, total, last)
  PROVE  Shape(g, e + total) /\ Linked(h, g, e, total, last)
<1> USE SizeAssumption
<1>1. /\ \A b \in DOMAIN h :
          /\ b \in Nat /\ End(h, b) \in Nat /\ b < End(h, b)
          /\ End(h, b) <= e
          /\ h[b].next = IF End(h, b) = e THEN NULL ELSE End(h, b)
          /\ h[b].next # NULL => h[b].next \in DOMAIN h
          /\ h[b].prev = NULL <=> b = 0
          /\ h[b].prev # NULL => h[b].prev \in DOMAIN h /\ End(h, h[b].prev) = b
      /\ \A b, c \in DOMAIN h : b < c => End(h, b) <= c
      /\ e \in Nat /\ (e > 0 => 0 \in DOMAIN h)
  BY ShapeFacts
<1>2. e \notin DOMAIN h /\ \A b \in DOMAIN h : b < e
  BY <1>1
<1>3. /\ DOMAIN h = {} => last = NULL /\ e = 0
      /\ DOMAIN h # {} => last \in DOMAIN h /\ h[last].next = NULL /\ End(h, last) = e /\ e # 0
  <2>1. DOMAIN h = {} => last = NULL /\ e = 0
    BY <1>1 DEF AtEnd
  <2>2. ASSUME DOMAIN h # {}
        PROVE  last \in DOMAIN h /\ h[last].next = NULL
    BY <2>2 DEF AtEnd, Last
  <2>3. ASSUME DOMAIN h # {}
        PROVE  End(h, last) = e /\ e # 0
    BY <2>2, <2>3, <1>1 DEF NULL
  <2> QED
    BY <2>1, <2>2, <2>3
<1>4. last \in Link /\ (last # NULL => last \in DOMAIN h)
  BY <1>1, <1>3 DEF Link
<1>5. /\ DOMAIN g = DOMAIN h \cup {e}
      /\ g[e] = Header(total - HDR, TRUE, NULL, last)
      /\ \A b \in DOMAIN h : g[b] = IF b = last THEN [h[b] EXCEPT !.next = e] ELSE h[b]
      /\ g = [b \in DOMAIN g |-> g[b]]
  BY <1>2 DEF LinkBlock
<1>6. ASSUME NEW b \in DOMAIN h
      PROVE  /\ g[b].size = h[b].size /\ g[b].free = h[b].free /\ g[b].prev = h[b].prev
             /\ g[b].next = IF b = last THEN e ELSE h[b].next
             /\ g[b] \in [size : Nat, free : BOOLEAN, next : Link, prev : Link]
  <2>1. h[b] \in [size : Nat, free : BOOLEAN, next : Link, prev : Link]
    BY DEF Shape
  <2>2. CASE b = last
    <3>1. g[b] = [h[b] EXCEPT !.next = e]
      BY <1>5, <2>2
    <3>2. e \in Link
      BY <1>1 DEF Link
    <3> QED
      BY <2>1, <2>2, <3>1, <3>2
  <2>3. CASE b # last
    BY <1>5, <2>1, <2>3
  <2> QED
    BY <2>2, <2>3
<1>7. /\ g[e].size = total - HDR /\ g[e].free = TRUE /\ g[e].next = NULL /\ g[e].prev = last
      /\ g[e] \in [size : Nat, free : BOOLEAN, next : Link, prev : Link]
  <2>1. total - HDR \in Nat /\ NULL \in Link
    BY DEF Link
  <2> QED
    BY <1>4, <1>5, <2>1 DEF Header
<1>8. Linked(h, g, e, total, last)
  BY <1>2, <1>5, <1>6, <1>7 DEF Linked
<1>9. g \in [DOMAIN g -> [size : Nat, free : BOOLEAN, next : Link, prev : Link]]
  BY <1>5, <1>6, <1>7
<1>10. End(g, e) = e + total /\ \A b \in DOMAIN h : End(g, b) = End(h, b)
  BY <1>1, <1>6, <1>7 DEF End
<1>11. ASSUME NEW b \in DOMAIN g
       PROVE  /\ End(g, b) <= e + total
              /\ g[b].next = IF End(g, b) = e + total THEN NULL ELSE End(g, b)
              /\ g[b].next # NULL => g[b].next \in DOMAIN g
  <2>1. CASE b = e
    BY <2>1, <1>1, <1>7, <1>10
  <2>2. CASE b \in DOMAIN h /\ b = last
    <3>1. End(g, b) = e /\ g[b].next = e /\ e \in DOMAIN g
      BY <2>2, <1>3, <1>5, <1>6, <1>10
    <3> QED
      BY <3>1, <1>1
  <2>3. CASE b \in DOMAIN h /\ b # last
    <3>1. End(g, b) = End(h, b) /\ g[b].next = h[b].next
      BY <2>3, <1>6, <1>10
    <3>2. End(h, b) # e
      <4>1. last \in DOMAIN h /\ End(h, last) = e
        BY <2>3, <1>3
      <4> QED
        BY <2>3, <4>1, <1>1
    <3> QED
      BY <2>3, <3>1, <3>2, <1>1, <1>5
  <2> QED
    BY <2>1, <2>2, <2>3, <1>5
<1>12. ASSUME NEW b \in DOMAIN g
       PROVE  /\ g[b].prev = NULL <=> b = 0
              /\ g[b].prev # NULL => g[b].prev \in DOMAIN g /\ End(g, g[b].prev) = b
  <2>1. CASE b = e /\ DOMAIN h = {}
    BY <2>1, <1>3, <1>7
  <2>2. CASE b = e /\ DOMAIN h # {}
    <3>1. last \in DOMAIN h /\ last # NULL /\ End(h, last) = e /\ e # 0
      BY <2>2, <1>1, <1>3 DEF NULL
    <3> QED
      BY <2>2, <3>1, <1>5, <1>7, <1>10
  <2>3. CASE b \in DOMAIN h
    BY <2>3, <1>1, <1>5, <1>6, <1>10
  <2> QED
    BY <2>1, <2>2, <2>3, <1>5
<1>13. ASSUME NEW b \in DOMAIN g, NEW c \in DOMAIN g, b < c
       PROVE  End(g, b) <= c
  <2>1. b \in DOMAIN h
    BY <1>13, <1>1, <1>2, <1>5
  <2> QED
    BY <2>1, <1>13, <1>1, <1>5, <1>10
<1>14. e + total > 0 => 0 \in DOMAIN g
  BY <1>1, <1>5
<1>15. Tiling(g, e + total)
  BY <1>11, <1>12, <1>13, <1>14 DEF Tiling, heapStart
<1>16. Shape(g, e + total)
  BY <1>1, <1>5, <1>9, <1>15 DEF Shape
<1> QED
  BY <1>8, <1>16

(* The end of expandHeap.                                                   *)
LEMMA AppendGood ==
  ASSUME NEW h, NEW e, Good(h, e), e % ALIGN = 0,
         NEW total \in Nat, HDR < total, total % ALIGN = 0,
         NEW last, AtEnd(h, last),
         NEW t, t = AppendBlock(h, e, total, last)
  PROVE  Good(t, e + total) /\ SameUse(t, h, Used(h))
<1> USE SizeAssumption
<1> DEFINE g == LinkBlock(h, e, total, last)
<1>1. t = IF last # NULL /\ h[last].free THEN mergeWithNext(g, last) ELSE g
  BY DEF AppendBlock, LinkBlock
<1>2. Shape(h, e) /\ HAligned(h) /\ Coalesced(h)
  BY DEF Good
<1>3. Shape(g, e + total) /\ Linked(h, g, e, total, last)
  BY <1>2, LinkShape
<1> HIDE DEF g
<1>4. HAligned(g)
  <2>1. HDR \in Int /\ ALIGN \in Nat \ {0} /\ HDR % ALIGN = 0
    OBVIOUS
  <2>2. (total - HDR) % ALIGN = 0
    BY <2>1, Multiples
  <2> QED
    BY <1>2, <1>3, <2>2 DEF HAligned, Linked
<1>5. SameUse(g, h, Used(h))
  BY <1>3 DEF SameUse, Used, Linked
<1>6. ASSUME NEW b \in DOMAIN g, b # last, g[b].free, g[b].next # NULL
      PROVE  ~g[g[b].next].free
  <2>1. b \in DOMAIN h /\ g[b].next = h[b].next /\ h[b].free
    BY <1>3, <1>6 DEF Linked
  <2>2. h[b].next \in DOMAIN h /\ ~h[h[b].next].free
    BY <1>2, <1>6, <2>1, ShapeFacts DEF Coalesced
  <2> QED
    BY <1>3, <2>1, <2>2 DEF Linked
<1>7. last # NULL => last \in DOMAIN h
  BY DEF AtEnd, Last
<1>8. CASE last # NULL /\ h[last].free
  <2>1. t = mergeWithNext(g, last)
    BY <1>1, <1>8
  <2>2. last \in DOMAIN g /\ g[last].free
    BY <1>3, <1>7, <1>8 DEF Linked
  <2>3. NULL \in Int /\ NULL < last
    BY <1>3, <2>2, ShapeFacts DEF NULL
  <2>4. \A b \in DOMAIN g \ {last, NULL} : g[b].free /\ g[b].next # NULL => ~g[g[b].next].free
    BY <1>6
  <2>5. Shape(t, e + total) /\ HAligned(t) /\ CoalescedBut(t, NULL) /\ SameUse(t, g, Used(g))
    BY <1>3, <1>4, <2>1, <2>2, <2>3, <2>4, MergeGood
  <2>6. Coalesced(t)
    <3>1. NULL \notin DOMAIN t
      BY <2>5, ShapeFacts DEF NULL
    <3> QED
      BY <2>5, <3>1 DEF Coalesced, CoalescedBut
  <2>7. SameUse(t, h, Used(h))
    BY <1>5, <2>5 DEF SameUse
  <2> QED
    BY <2>5, <2>6, <2>7 DEF Good
<1>9. CASE last = NULL \/ ~h[last].free
  <2>1. t = g
    BY <1>1, <1>9
  <2>2. Coalesced(g)
    <3>1. ASSUME NEW b \in DOMAIN g, g[b].free, g[b].next # NULL
          PROVE  b # last
      <4>1. NULL \notin DOMAIN g
        BY <1>3, ShapeFacts DEF NULL
      <4> QED
        BY <1>3, <1>7, <1>9, <3>1, <4>1 DEF Linked
    <3> QED
      BY <1>6, <3>1 DEF Coalesced
  <2> QED
    BY <1>3, <1>4, <1>5, <2>1, <2>2 DEF Good
<1> QED
  BY <1>8, <1>9

-----------------------------------------------------------------------------
(* The inductive invariant *)

(* Every block in use has a holder, and is as long as that one asked.       *)
Held(h, l) ==
  /\ DOMAIN l = Used(h)
  /\ l \in [DOMAIN l -> Nat]
  /\ \A a \in DOMAIN l : l[a] <= h[a].size

Counted ==
  /\ usedMemory \in 0 .. Word - 1 /\ freeMemory \in 0 .. Word - 1
  /\ mapped \subseteq Nat /\ tables \subseteq Nat
  /\ frames \in 0 .. MaxFrames /\ expansions \in Nat

(* The pages of the heap, and those an expansion has mapped so far.         *)
PagesMapped ==
  /\ heapEnd \in Nat /\ heapEnd <= MaxSize /\ heapEnd % PAGE = 0
  /\ \A p \in Nat : p * PAGE < heapEnd + call.offset => p \in mapped

CallOK ==
  /\ call \in [op : {"idle", "init", "allocate", "realloc", "panic"},
               request : Nat, old : Link, total : Nat, offset : Nat]
  /\ ~InExpansion => call.offset = 0
  /\ InExpansion => /\ HDR < call.total /\ call.total % PAGE = 0
                    /\ call.offset % PAGE = 0
                    /\ heapEnd + call.total <= MaxSize
  /\ call.old = NULL \/ (InExpansion /\ call.old \in DOMAIN live)

HeapInv == Good(hdr, heapEnd) /\ Held(hdr, live) /\ Counted /\ PagesMapped /\ CallOK

(* expandHeap is asked for whole pages, with room for a header.             *)
LEMMA ExpandSizeFacts ==
  ASSUME NEW size \in Nat
  PROVE  ExpandSize(size) \in Nat /\ HDR < ExpandSize(size) /\ ExpandSize(size) % PAGE = 0
<1> USE SizeAssumption
<1> DEFINE x == IF size + HDR < PAGE THEN PAGE ELSE size + HDR
<1>1. x \in Nat /\ PAGE <= x
  OBVIOUS
<1>2. ExpandSize(size) = alignUp(x, PAGE)
  BY DEF ExpandSize
<1> HIDE DEF x
<1>3. PAGE \in Nat \ {0}
  OBVIOUS
<1>4. alignUp(x, PAGE) \in Nat /\ x <= alignUp(x, PAGE) /\ alignUp(x, PAGE) % PAGE = 0
  BY <1>1, <1>3, AlignUpFacts
<1> QED
  BY <1>1, <1>2, <1>4

(* The counters are words.                                                  *)
LEMMA WordRange == \A n \in Int : n % Word \in 0 .. Word - 1
<1>1. Word \in Nat \ {0}
  BY SizeAssumption
<1> QED
  BY <1>1, Z3

(* What the rest of allocate and realloc makes of the list.                 *)
LEMMA GrantGood ==
  ASSUME NEW h, NEW hi, Good(h, hi), Held(h, live), NEW a,
         NEW request \in Nat, FirstFit(h, a, alignUp(request, ALIGN)),
         NEW old, old = NULL \/ old \in DOMAIN live,
         NEW used \in Int, NEW free_ \in Int,
         Grant(h, a, request, old, used, free_)
  PROVE  /\ Good(hdr', hi) /\ Held(hdr', live')
         /\ usedMemory' \in 0 .. Word - 1 /\ freeMemory' \in 0 .. Word - 1
<1> USE SizeAssumption
<1> DEFINE size == alignUp(request, ALIGN)
           t == SetFree(splitBlock(h, a, size), a, FALSE)
           holding == [b \in DOMAIN live \cup {a} |-> IF b = a THEN request ELSE live[b]]
<1>1. size \in Nat /\ request <= size /\ size % ALIGN = 0
  <2>1. ALIGN \in Nat \ {0}
    OBVIOUS
  <2> QED
    BY <2>1, AlignUpFacts
<1>2. a \in DOMAIN h /\ h[a].free = TRUE /\ size <= h[a].size
  <2>1. a \in DOMAIN h /\ h[a].free /\ h[a].size >= size
    BY DEF FirstFit, Fits
  <2>2. h[a].free \in BOOLEAN /\ h[a].size \in Nat
    BY <2>1 DEF Good, Shape
  <2> QED
    BY <1>1, <2>1, <2>2
<1>3. /\ old = NULL =>
           /\ hdr' = t /\ live' = holding
           /\ usedMemory' = (used + t[a].size) % Word
           /\ freeMemory' = (free_ - t[a].size) % Word
      /\ old # NULL =>
           /\ hdr' = Release(t, old)
           /\ live' = [b \in DOMAIN holding \ {old} |-> holding[b]]
           /\ usedMemory' = (used + t[a].size - t[old].size) % Word
           /\ freeMemory' = (free_ - t[a].size + t[old].size) % Word
  BY DEF Grant
<1>4. /\ Good(t, hi) /\ Used(t) = Used(h) \cup {a}
      /\ size <= t[a].size /\ \A b \in Used(h) : t[b].size = h[b].size
  <2> HIDE DEF size
  <2>1. t = SetFree(splitBlock(h, a, size), a, FALSE)
    OBVIOUS
  <2> HIDE DEF t
  <2>2. Good(t, hi) /\ Taken(h, t, a, size)
    BY <1>1, <1>2, <2>1, TakeGood
  <2> QED
    BY <2>2 DEF Taken
<1> HIDE DEF t
<1>5. /\ DOMAIN holding = Used(t) /\ \A b \in DOMAIN holding : holding[b] \in Nat
      /\ \A b \in DOMAIN holding : holding[b] <= t[b].size
      /\ a \in Used(t) /\ a \notin DOMAIN live
  <2>1. DOMAIN live = Used(h) /\ \A b \in DOMAIN live : live[b] \in Nat /\ live[b] <= h[b].size
    BY DEF Held
  <2>2. DOMAIN holding = Used(t) /\ a \in Used(t) /\ a \notin DOMAIN live
    BY <1>2, <1>4, <2>1 DEF Used
  <2>3. \A b \in DOMAIN holding : b # a => b \in DOMAIN live /\ holding[b] = live[b]
    OBVIOUS
  <2>4. holding[a] = request
    OBVIOUS
  <2>5. t[a].size \in Nat
    BY <1>4, <2>2 DEF Good, Shape, Used
  <2> HIDE DEF holding, size
  <2>6. \A b \in DOMAIN holding : holding[b] \in Nat /\ holding[b] <= t[b].size
    <3> SUFFICES ASSUME NEW b \in DOMAIN holding
                 PROVE  holding[b] \in Nat /\ holding[b] <= t[b].size
      OBVIOUS
    <3>1. CASE b = a
      BY <1>1, <1>4, <2>4, <2>5, <3>1
    <3>2. CASE b # a
      BY <1>4, <2>1, <2>3, <3>2
    <3> QED
      BY <3>1, <3>2
  <2> QED
    BY <2>2, <2>6
<1>6. \A b \in Used(t) : t[b].size \in Nat
  BY <1>4 DEF Good, Shape, Used
<1>7. CASE old = NULL
  <2>1. hdr' = t /\ live' = holding /\ holding = [b \in DOMAIN holding |-> holding[b]]
    BY <1>3, <1>7
  <2>2. usedMemory' \in 0 .. Word - 1 /\ freeMemory' \in 0 .. Word - 1
    <3>1. used + t[a].size \in Int /\ free_ - t[a].size \in Int
      BY <1>5, <1>6
    <3> QED
      BY <1>3, <1>7, <3>1, WordRange
  <2> HIDE DEF holding
  <2> QED
    BY <1>4, <1>5, <2>1, <2>2 DEF Held
<1>8. CASE old # NULL
  <2>1. old \in Used(t) /\ old # a
    <3>1. old \in DOMAIN live
      BY <1>8
    <3> QED
      BY <1>4, <1>5, <3>1 DEF Held
  <2> DEFINE r == Release(t, old)
  <2>2. Good(r, hi) /\ SameUse(r, t, Used(t) \ {old})
    BY <1>4, <2>1, ReleaseGood
  <2>3. hdr' = r /\ live' = [b \in DOMAIN holding \ {old} |-> holding[b]]
    BY <1>3, <1>8
  <2>4. usedMemory' \in 0 .. Word - 1 /\ freeMemory' \in 0 .. Word - 1
    <3>1. used + t[a].size - t[old].size \in Int /\ free_ - t[a].size + t[old].size \in Int
      BY <1>5, <1>6, <2>1
    <3> QED
      BY <1>3, <1>8, <3>1, WordRange
  <2> HIDE DEF r, holding
  <2>5. /\ DOMAIN live' = Used(r)
        /\ \A b \in DOMAIN live' : live'[b] = holding[b] /\ b \in DOMAIN holding
    BY <1>5, <2>2, <2>3 DEF SameUse
  <2>6. live' \in [DOMAIN live' -> Nat]
    BY <1>5, <2>3
  <2>7. \A b \in DOMAIN live' : live'[b] <= r[b].size
    BY <1>5, <2>2, <2>5 DEF SameUse
  <2> QED
    BY <2>2, <2>3, <2>4, <2>5, <2>6, <2>7 DEF Held
<1> QED
  BY <1>7, <1>8

(* heap::init starts with an empty list.                                    *)
LEMMA InitInv == Init => HeapInv
<1> USE SizeAssumption
<1> SUFFICES ASSUME Init
             PROVE  HeapInv
  OBVIOUS
<1>1. /\ DOMAIN hdr = {} /\ heapEnd = 0 /\ DOMAIN live = {}
      /\ hdr = [b \in {} |-> Header(0, TRUE, NULL, NULL)] /\ live = [b \in {} |-> 0]
      /\ mapped = {} /\ tables = {} /\ usedMemory = 0 /\ freeMemory = 0
      /\ frames \in 0 .. MaxFrames /\ expansions = 0
      /\ call = [op |-> "init", request |-> 0, old |-> NULL, total |-> InitialSize, offset |-> 0]
  BY DEF Init, Expanding, heapStart
<1>2. Good(hdr, heapEnd)
  <2>1. hdr \in [DOMAIN hdr -> [size : Nat, free : BOOLEAN, next : Link, prev : Link]]
    BY <1>1
  <2>2. Tiling(hdr, heapEnd)
    BY <1>1 DEF Tiling, heapStart
  <2> QED
    BY <1>1, <2>1, <2>2 DEF Good, Shape, HAligned, Coalesced
<1>3. Held(hdr, live)
  BY <1>1 DEF Held, Used
<1>4. Counted
  <2>1. 0 \in 0 .. Word - 1
    OBVIOUS
  <2> QED
    BY <1>1, <2>1 DEF Counted
<1>5. 0 % PAGE = 0
  <2>1. PAGE \in Nat \ {0}
    OBVIOUS
  <2> QED
    BY <2>1, Z3
<1>6. PagesMapped
  <2>1. \A p \in Nat : ~(p * PAGE < 0)
    <3>1. PAGE \in Nat
      OBVIOUS
    <3> QED
      BY <3>1, Z3
  <2> QED
    BY <1>1, <1>5, <2>1 DEF PagesMapped
<1>7. HDR < InitialSize
  <2>1. InitialSize < PAGE => InitialSize % PAGE = InitialSize
    OBVIOUS
  <2> QED
    BY <2>1
<1>8. CallOK
  BY <1>1, <1>5, <1>7 DEF CallOK, InExpansion, Link
<1> QED
  BY <1>2, <1>3, <1>4, <1>6, <1>8 DEF HeapInv

(* The part of a step that keeps the list and its holders together.         *)
LEMMA AllocateInv ==
  ASSUME HeapInv, call = Idle,
         NEW op \in {"allocate", "realloc"}, NEW request \in Nat,
         NEW old, old = NULL \/ old \in DOMAIN live,
         Allocate(op, request, old),
         UNCHANGED <<heapEnd, mapped, tables, frames, expansions>>
  PROVE  HeapInv'
<1> USE SizeAssumption
<1> DEFINE size == alignUp(request, ALIGN)
<1>1. /\ Good(hdr, heapEnd) /\ Held(hdr, live) /\ Counted /\ PagesMapped /\ CallOK
      /\ heapEnd' = heapEnd /\ mapped' = mapped /\ tables' = tables
      /\ frames' = frames /\ expansions' = expansions
  BY DEF HeapInv
<1>2. /\ call.op = "idle" /\ call.offset = 0 /\ call.old = NULL
      /\ ~InExpansion
  BY DEF Idle, InExpansion
<1>3. CASE UNCHANGED <<hdr, usedMemory, freeMemory, call, live>>
  BY <1>1, <1>3 DEF HeapInv, Counted, PagesMapped, CallOK, InExpansion, Good, Held
<1>4. ASSUME NEW a \in DOMAIN hdr, FirstFit(hdr, a, size),
             Grant(hdr, a, request, old, usedMemory, freeMemory), UNCHANGED call
      PROVE  HeapInv'
  <2>1. usedMemory \in Int /\ freeMemory \in Int
    BY <1>1 DEF Counted
  <2>2. /\ Good(hdr', heapEnd) /\ Held(hdr', live')
        /\ usedMemory' \in 0 .. Word - 1 /\ freeMemory' \in 0 .. Word - 1
    BY <1>1, <1>4, <2>1, GrantGood
  <2>3. Counted' /\ PagesMapped'
    BY <1>1, <1>4, <2>2 DEF Counted, PagesMapped
  <2>4. CallOK'
    BY <1>1, <1>2, <1>4 DEF CallOK, InExpansion
  <2> QED
    BY <1>1, <2>2, <2>3, <2>4 DEF HeapInv
<1>5. CASE /\ heapEnd + ExpandSize(size) <= heapMax
           /\ call' = Expanding(op, request, old, ExpandSize(size))
           /\ UNCHANGED <<hdr, usedMemory, freeMemory, live>>
  <2>1. size \in Nat
    <3>1. ALIGN \in Nat \ {0}
      OBVIOUS
    <3> QED
      BY <3>1, AlignUpFacts
  <2> DEFINE total == ExpandSize(size)
  <2> HIDE DEF size
  <2>2. total \in Nat /\ HDR < total /\ total % PAGE = 0
    BY <2>1, ExpandSizeFacts
  <2>3. /\ call' = [op |-> op, request |-> request, old |-> old, total |-> total, offset |-> 0]
        /\ heapEnd + total <= MaxSize
    BY <1>5 DEF Expanding, heapMax, heapStart
  <2> HIDE DEF total
  <2>4. 0 % PAGE = 0
    <3>1. PAGE \in Nat \ {0}
      OBVIOUS
    <3> QED
      BY <3>1, Z3
  <2>5. old \in Link
    BY <1>1 DEF Held, Used, Good, Shape, Link
  <2>6. /\ call'.op = op /\ call'.request = request /\ call'.old = old
        /\ call'.total = total /\ call'.offset = 0 /\ InExpansion'
        /\ call' \in [op : {"idle", "init", "allocate", "realloc", "panic"},
                      request : Nat, old : Link, total : Nat, offset : Nat]
    BY <2>2, <2>3, <2>5 DEF InExpansion
  <2>7. CallOK'
    BY <1>1, <1>5, <2>2, <2>3, <2>4, <2>6 DEF CallOK
  <2>8. PagesMapped'
    BY <1>1, <1>2, <2>6 DEF PagesMapped
  <2>9. Good(hdr, heapEnd)' /\ Held(hdr, live)' /\ Counted'
    BY <1>1, <1>5 DEF Counted, Good, Held
  <2> QED
    BY <2>7, <2>8, <2>9 DEF HeapInv
<1> QED
  BY <1>3, <1>4, <1>5 DEF Allocate

(* free(a) of a block that is held.                                         *)
LEMMA FreeInv ==
  ASSUME HeapInv, NEW a \in DOMAIN live, free(a)
  PROVE  HeapInv'
<1>1. /\ Good(hdr, heapEnd) /\ Held(hdr, live) /\ Counted /\ PagesMapped /\ CallOK
      /\ call.old = NULL /\ ~InExpansion
  BY DEF HeapInv, free, Idle, InExpansion
<1>2. a \in Used(hdr) /\ hdr[a].size \in Nat
  BY <1>1 DEF Held, Good, Shape, Used
<1> DEFINE r == Release(hdr, a)
<1>3. Good(r, heapEnd) /\ SameUse(r, hdr, Used(hdr) \ {a})
  BY <1>1, <1>2, ReleaseGood
<1>4. /\ hdr' = r /\ live' = [b \in DOMAIN live \ {a} |-> live[b]]
      /\ heapEnd' = heapEnd /\ mapped' = mapped /\ tables' = tables
      /\ frames' = frames /\ expansions' = expansions /\ call' = call
      /\ usedMemory' = (usedMemory - hdr[a].size) % Word
      /\ freeMemory' = (freeMemory + hdr[a].size) % Word
  BY DEF free
<1> HIDE DEF r
<1>5. Held(r, live')
  <2>1. /\ DOMAIN live' = Used(r)
        /\ \A b \in DOMAIN live' : live'[b] = live[b] /\ b \in DOMAIN live /\ b \in Used(hdr) \ {a}
    BY <1>1, <1>3, <1>4 DEF Held, SameUse
  <2>2. live' \in [DOMAIN live' -> Nat]
    BY <1>1, <1>4 DEF Held
  <2>3. \A b \in DOMAIN live' : live'[b] <= r[b].size
    BY <1>1, <1>3, <2>1 DEF Held, SameUse
  <2> QED
    BY <2>1, <2>2, <2>3 DEF Held
<1>6. Counted'
  <2>1. usedMemory - hdr[a].size \in Int /\ freeMemory + hdr[a].size \in Int
    BY <1>1, <1>2 DEF Counted
  <2> QED
    BY <1>1, <1>4, <2>1, WordRange DEF Counted
<1>7. PagesMapped' /\ CallOK'
  BY <1>1, <1>4 DEF PagesMapped, CallOK, InExpansion
<1> QED
  BY <1>3, <1>4, <1>5, <1>6, <1>7 DEF HeapInv

(* expandHeap maps the next page, or gives up.                              *)
LEMMA ExpandPageInv ==
  ASSUME HeapInv, ExpandPage
  PROVE  HeapInv'
<1> USE SizeAssumption
<1> DEFINE p == (heapEnd + call.offset) \div PAGE
<1>1. /\ Good(hdr, heapEnd) /\ Held(hdr, live) /\ Counted /\ PagesMapped /\ CallOK
      /\ hdr' = hdr /\ heapEnd' = heapEnd /\ usedMemory' = usedMemory
      /\ freeMemory' = freeMemory /\ live' = live /\ expansions' = expansions
      /\ InExpansion
  BY DEF HeapInv, ExpandPage
<1>2. heapEnd \in Nat /\ call.offset \in Nat /\ PAGE \in Nat \ {0}
  BY <1>1 DEF PagesMapped, CallOK
<1>3. Good(hdr, heapEnd)' /\ Held(hdr, live)'
  BY <1>1
<1>4. ASSUME call' = Idle \/ call' = Panic, UNCHANGED <<mapped, tables, frames>>
      PROVE  HeapInv'
  <2>1. call'.offset = 0 /\ call'.old = NULL /\ ~InExpansion'
        /\ call' \in [op : {"idle", "init", "allocate", "realloc", "panic"},
                      request : Nat, old : Link, total : Nat, offset : Nat]
    BY <1>4 DEF Idle, Panic, InExpansion, Link
  <2>2. Counted' /\ CallOK'
    BY <1>1, <1>4, <2>1 DEF Counted, CallOK
  <2>3. ASSUME NEW q \in Nat, q * PAGE < heapEnd
        PROVE  q \in mapped
    <3>1. q * PAGE \in Int
      BY <1>2, Z3
    <3>2. q * PAGE < heapEnd + call.offset
      BY <1>2, <2>3, <3>1
    <3> QED
      BY <1>1, <3>2 DEF PagesMapped
  <2>4. PagesMapped'
    BY <1>1, <1>2, <1>4, <2>1, <2>3 DEF PagesMapped
  <2> QED
    BY <1>3, <2>2, <2>4 DEF HeapInv
<1>5. CASE /\ frames - 1 >= TablesNeeded(p)
           /\ mapped' = mapped \cup {p}
           /\ tables' = tables \cup {p \div TableSpan}
           /\ frames' = frames - 1 - TablesNeeded(p)
           /\ call' = [call EXCEPT !.offset = @ + PAGE]
  <2>1. p \in Nat /\ p * PAGE = heapEnd + call.offset
    <3> DEFINE x == heapEnd + call.offset
    <3>1. x \in Nat /\ x % PAGE = 0
      <4>1. call.offset % PAGE = 0 /\ heapEnd % PAGE = 0
        BY <1>1 DEF CallOK, PagesMapped
      <4> QED
        BY <1>2, <4>1, Multiples
    <3> HIDE DEF x
    <3>2. x \div PAGE \in Nat /\ (x \div PAGE) * PAGE = x
      BY <1>2, <3>1, Z3
    <3> QED
      BY <3>2 DEF x
  <2>2. p \div TableSpan \in Nat
    <3> HIDE DEF p
    <3>1. TableSpan \in Nat \ {0} /\ p \in Nat
      BY <2>1
    <3> QED
      BY <3>1, Z3
  <2> HIDE DEF p
  <2>3. TablesNeeded(p) \in Nat
    BY DEF TablesNeeded
  <2>4. Counted'
    BY <1>1, <1>5, <2>1, <2>2, <2>3 DEF Counted
  <2>5. /\ call' \in [op : {"idle", "init", "allocate", "realloc", "panic"},
                      request : Nat, old : Link, total : Nat, offset : Nat]
        /\ call'.offset = call.offset + PAGE /\ call'.total = call.total
        /\ call'.old = call.old /\ call'.op = call.op /\ InExpansion'
    BY <1>1, <1>2, <1>5 DEF CallOK, InExpansion
  <2>6. (call.offset + PAGE) % PAGE = 0
    <3>1. PAGE % PAGE = 0
      BY <1>2, Z3
    <3>2. call.offset % PAGE = 0
      BY <1>1 DEF CallOK
    <3> QED
      BY <1>2, <3>1, <3>2, Multiples
  <2>7. CallOK'
    BY <1>1, <2>5, <2>6 DEF CallOK
  <2>8. ASSUME NEW q \in Nat, q * PAGE < heapEnd + (call.offset + PAGE)
        PROVE  q \in mapped'
    <3>1. q * PAGE < p * PAGE + PAGE
      <4>1. q * PAGE \in Int
        BY <1>2, Z3
      <4> QED
        BY <1>2, <2>1, <2>8, <4>1
    <3>2. q >= p + 1 => q * PAGE >= p * PAGE + PAGE
      <4>1. \A m \in Nat : (p + 1 + m) * PAGE = p * PAGE + PAGE + m * PAGE /\ m * PAGE \in Nat
        BY <1>2, <2>1, Z3
      <4>2. q >= p + 1 => q - p - 1 \in Nat /\ p + 1 + (q - p - 1) = q
        BY <2>1
      <4> DEFINE m == q - p - 1
      <4>3. q >= p + 1 => m \in Nat /\ q * PAGE = p * PAGE + PAGE + m * PAGE
        BY <4>1, <4>2
      <4>4. q >= p + 1 => m * PAGE \in Nat
        BY <4>1, <4>3
      <4>5. p * PAGE \in Int
        BY <1>2, <2>1
      <4> HIDE DEF m
      <4> QED
        BY <1>2, <4>3, <4>4, <4>5
    <3>3. q <= p
      <4>1. q * PAGE \in Int /\ p * PAGE \in Int
        BY <1>2, <2>1, Z3
      <4> QED
        BY <1>2, <2>1, <3>1, <3>2, <4>1
    <3>4. CASE q = p
      BY <1>5, <3>4
    <3>5. CASE q < p
      <4>1. q * PAGE < p * PAGE
        BY <1>2, <2>1, <3>5, Z3
      <4> QED
        BY <1>1, <1>5, <2>1, <4>1 DEF PagesMapped
    <3> QED
      BY <2>1, <3>3, <3>4, <3>5
  <2>9. PagesMapped'
    BY <1>1, <2>5, <2>8 DEF PagesMapped
  <2> QED
    BY <1>3, <2>4, <2>7, <2>9 DEF HeapInv
<1> QED
  BY <1>4, <1>5 DEF ExpandPage, GiveUp

(* The new block is linked, and the call that asked for it finishes.        *)
LEMMA ExpandDoneInv ==
  ASSUME HeapInv, ExpandDone
  PROVE  HeapInv'
<1> USE SizeAssumption
<1>1. /\ Good(hdr, heapEnd) /\ Held(hdr, live) /\ Counted /\ PagesMapped /\ CallOK
      /\ InExpansion /\ call.offset >= call.total
      /\ heapEnd' = heapEnd + call.total /\ expansions' = expansions + 1 /\ call' = Idle
      /\ mapped' = mapped /\ tables' = tables /\ frames' = frames
  BY DEF HeapInv, ExpandDone
<1>2. /\ call.total \in Nat /\ HDR < call.total /\ call.total % PAGE = 0
      /\ heapEnd + call.total <= MaxSize /\ call.request \in Nat /\ call.offset \in Nat
      /\ call.old = NULL \/ call.old \in DOMAIN live
      /\ heapEnd \in Nat /\ heapEnd % PAGE = 0 /\ PAGE \in Nat \ {0} /\ ALIGN \in Nat \ {0}
      /\ PAGE % ALIGN = 0
  BY <1>1 DEF CallOK, PagesMapped
<1>3. call.total % ALIGN = 0 /\ heapEnd % ALIGN = 0
  BY <1>2, MultiplesOf
<1>4. PICK last \in IF DOMAIN hdr = {} THEN {NULL} ELSE {a \in DOMAIN hdr : Last(hdr, a)} :
        LET grown == AppendBlock(hdr, heapEnd, call.total, last)
            free_ == freeMemory + call.total - HDR
        IN  \/ /\ call.op = "init"
               /\ hdr' = grown
               /\ freeMemory' = free_ % Word
               /\ UNCHANGED <<usedMemory, live>>
            \/ /\ call.op # "init"
               /\ \E a \in DOMAIN grown :
                    /\ FirstFit(grown, a, alignUp(call.request, ALIGN))
                    /\ Grant(grown, a, call.request, call.old, usedMemory, free_)
            \/ /\ call.op # "init"
               /\ NoFit(grown, alignUp(call.request, ALIGN))
               /\ hdr' = grown
               /\ freeMemory' = free_ % Word
               /\ UNCHANGED <<usedMemory, live>>
  BY DEF ExpandDone
<1> DEFINE grown == AppendBlock(hdr, heapEnd, call.total, last)
           free_ == freeMemory + call.total - HDR
<1>5. AtEnd(hdr, last)
  BY <1>4 DEF AtEnd
<1>6. grown = AppendBlock(hdr, heapEnd, call.total, last)
  OBVIOUS
<1>7. free_ \in Int /\ usedMemory \in Int
  BY <1>1, <1>2 DEF Counted
<1>8. \/ hdr' = grown /\ freeMemory' = free_ % Word /\ usedMemory' = usedMemory /\ live' = live
      \/ \E a \in DOMAIN grown :
           /\ FirstFit(grown, a, alignUp(call.request, ALIGN))
           /\ Grant(grown, a, call.request, call.old, usedMemory, free_)
  BY <1>4
<1> HIDE DEF grown, free_
<1>9. Good(grown, heapEnd + call.total) /\ SameUse(grown, hdr, Used(hdr))
  BY <1>1, <1>2, <1>3, <1>5, <1>6, AppendGood
<1>10. Held(grown, live)
  BY <1>1, <1>9 DEF Held, SameUse
<1>11. /\ Good(hdr', heapEnd + call.total) /\ Held(hdr', live')
       /\ usedMemory' \in 0 .. Word - 1 /\ freeMemory' \in 0 .. Word - 1
  <2>1. CASE hdr' = grown /\ freeMemory' = free_ % Word /\ usedMemory' = usedMemory /\ live' = live
    BY <1>1, <1>7, <1>9, <1>10, <2>1, WordRange DEF Counted
  <2>2. CASE \E a \in DOMAIN grown :
               /\ FirstFit(grown, a, alignUp(call.request, ALIGN))
               /\ Grant(grown, a, call.request, call.old, usedMemory, free_)
    BY <1>2, <1>7, <1>9, <1>10, <2>2, GrantGood
  <2> QED
    BY <1>8, <2>1, <2>2
<1>12. Counted'
  BY <1>1, <1>11 DEF Counted
<1>13. call'.offset = 0 /\ call'.old = NULL /\ ~InExpansion'
       /\ call' \in [op : {"idle", "init", "allocate", "realloc", "panic"},
                     request : Nat, old : Link, total : Nat, offset : Nat]
  BY <1>1 DEF Idle, InExpansion, Link
<1>14. CallOK'
  BY <1>13 DEF CallOK
<1>15. PagesMapped'
  <2>1. ASSUME NEW q \in Nat, q * PAGE < heapEnd + call.total
        PROVE  q \in mapped
    <3>1. q * PAGE \in Int
      BY <1>2, Z3
    <3>2. q * PAGE < heapEnd + call.offset
      BY <1>1, <1>2, <2>1, <3>1
    <3> QED
      BY <1>1, <3>2 DEF PagesMapped
  <2>2. (heapEnd + call.total) % PAGE = 0 /\ heapEnd + call.total \in Nat
    <3>1. heapEnd \in Int /\ call.total \in Int
      BY <1>2
    <3>2. (heapEnd + call.total) % PAGE = 0
      BY <1>2, <3>1, Multiples
    <3> QED
      BY <1>2, <3>2
  <2>3. heapEnd' + call'.offset = heapEnd + call.total
    BY <1>1, <1>13, <2>2
  <2> QED
    BY <1>1, <1>2, <2>1, <2>2, <2>3 DEF PagesMapped
<1> QED
  BY <1>1, <1>11, <1>12, <1>14, <1>15 DEF HeapInv

(* Every step of the heap, one case per action.                             *)
LEMMA StepInv == HeapInv /\ [Next]_vars => HeapInv'
<1> SUFFICES ASSUME HeapInv, [Next]_vars
             PROVE  HeapInv'
  OBVIOUS
<1>1. Requests \subseteq Nat
  BY SizeAssumption
<1>2. /\ Good(hdr, heapEnd) /\ Held(hdr, live) /\ Counted /\ PagesMapped /\ CallOK
  BY DEF HeapInv
<1>3. ASSUME UNCHANGED <<hdr, heapEnd, usedMemory, freeMemory, mapped, tables, expansions>>,
             frames' \in 0 .. MaxFrames,
             \/ UNCHANGED call
             \/ call.offset = 0 /\ call' = Panic,
             \/ UNCHANGED live
             \/ call' = call /\ call.old = NULL /\ Held(hdr, live')
      PROVE  HeapInv'
  <2>1. Good(hdr, heapEnd)' /\ Counted'
    BY <1>2, <1>3 DEF Counted
  <2>2. Held(hdr', live')
    BY <1>2, <1>3
  <2>3. call' = Panic => /\ call'.offset = 0 /\ call'.old = NULL /\ ~InExpansion'
                         /\ call' \in [op : {"idle", "init", "allocate", "realloc", "panic"},
                                       request : Nat, old : Link, total : Nat, offset : Nat]
    BY DEF Panic, Idle, InExpansion, Link
  <2>4. CallOK'
    BY <1>2, <1>3, <2>3 DEF CallOK, InExpansion
  <2>5. call'.offset = call.offset
    BY <1>3, <2>3
  <2>6. PagesMapped'
    BY <1>2, <1>3, <2>5 DEF PagesMapped
  <2> QED
    BY <2>1, <2>2, <2>4, <2>6 DEF HeapInv
<1>4. frames \in 0 .. MaxFrames
  BY <1>2 DEF Counted
<1>5. ASSUME NEW n \in Requests, allocate(n)
      PROVE  HeapInv'
  BY <1>1, <1>5, AllocateInv DEF allocate
<1>6. ASSUME NEW a \in DOMAIN live, NEW n \in Requests, realloc(a, n)
      PROVE  HeapInv'
  <2>1. call = Idle /\ call.offset = 0 /\ call.old = NULL
    BY <1>6 DEF realloc, Idle
  <2>2. CASE n = 0 /\ call' = Panic /\ UNCHANGED <<hdr, usedMemory, freeMemory, live>>
    BY <1>3, <1>4, <1>6, <2>1, <2>2 DEF realloc
  <2>3. CASE /\ n > 0 /\ hdr[a].size >= n
             /\ live' = [live EXCEPT ![a] = n]
             /\ UNCHANGED <<hdr, usedMemory, freeMemory, call>>
    <3>1. Held(hdr, live')
      <4>1. /\ DOMAIN live' = DOMAIN live
            /\ live'[a] = n /\ \A b \in DOMAIN live : b # a => live'[b] = live[b]
        BY <2>3
      <4>2. live' \in [DOMAIN live' -> Nat]
        BY <1>1, <1>2, <2>3 DEF Held
      <4>3. n <= hdr[a].size
        BY <1>1, <1>2, <2>3 DEF Held, Used, Good, Shape
      <4> QED
        BY <1>2, <4>1, <4>2, <4>3 DEF Held
    <3> QED
      BY <1>3, <1>4, <1>6, <2>1, <2>3, <3>1 DEF realloc
  <2>4. CASE hdr[a].size < n /\ Allocate("realloc", n, a)
    <3>1. UNCHANGED <<heapEnd, mapped, tables, frames, expansions>> /\ n \in Nat
      BY <1>1, <1>6 DEF realloc
    <3> QED
      BY <2>1, <2>4, <3>1, AllocateInv
  <2> QED
    BY <1>6, <2>2, <2>3, <2>4 DEF realloc
<1>7. ASSUME NEW a \in DOMAIN live, free(a)
      PROVE  HeapInv'
  BY <1>7, FreeInv
<1>8. ASSUME NEW a \in DOMAIN hdr, freeTwice(a)
      PROVE  HeapInv'
  <2>1. call.offset = 0
    BY <1>8 DEF freeTwice, Idle
  <2> QED
    BY <1>3, <1>4, <1>8, <2>1 DEF freeTwice
<1>9. CASE ExpandPage
  BY <1>9, ExpandPageInv
<1>10. CASE ExpandDone
  BY <1>10, ExpandDoneInv
<1>11. CASE OthersUseFrames
  BY <1>3, <1>11 DEF OthersUseFrames
<1>12. CASE UNCHANGED vars
  BY <1>3, <1>4, <1>12 DEF vars
<1> QED
  BY <1>5, <1>6, <1>7, <1>8, <1>9, <1>10, <1>11, <1>12 DEF Next, Halted

(* The list, its holders, the pages under it and the call in progress agree *)
(* after every step of the heap.                                            *)
THEOREM HeapInvariant == Spec => []HeapInv
<1>1. HeapInv /\ [Next]_vars => HeapInv'
  BY StepInv
<1> QED
  BY <1>1, InitInv, PTL DEF Spec

-----------------------------------------------------------------------------
(* What follows *)

(* Headers and links stay inside the heap: blocks end below heapEnd.        *)
LEMMA InvGivesTypes == HeapInv => TypeOK
<1> USE SizeAssumption
<1> SUFFICES ASSUME HeapInv
             PROVE  TypeOK
  OBVIOUS
<1>1. /\ Good(hdr, heapEnd) /\ Held(hdr, live) /\ Counted /\ PagesMapped /\ CallOK
      /\ Shape(hdr, heapEnd)
  BY DEF HeapInv, Good
<1>2. heapEnd \in Address /\ MaxSize \in Nat /\ heapEnd <= MaxSize
  BY <1>1 DEF PagesMapped, Address
<1>3. ASSUME NEW b \in DOMAIN hdr
      PROVE  b \in Address /\ hdr[b].size \in Address
  <2>1. /\ b \in Nat /\ hdr[b].size \in Nat /\ End(hdr, b) = b + HDR + hdr[b].size
        /\ End(hdr, b) <= heapEnd
    BY <1>1, ShapeFacts
  <2> QED
    BY <1>2, <2>1 DEF Address
<1>4. hdr \in [DOMAIN hdr -> Headers]
  <2>1. hdr \in [DOMAIN hdr -> [size : Nat, free : BOOLEAN, next : Link, prev : Link]]
    BY <1>1 DEF Shape
  <2>2. \A b \in DOMAIN hdr : hdr[b].next \in Pointer /\ hdr[b].prev \in Pointer
    <3>1. \A b \in DOMAIN hdr : /\ hdr[b].next # NULL => hdr[b].next \in DOMAIN hdr
                                /\ hdr[b].prev # NULL => hdr[b].prev \in DOMAIN hdr
      BY <1>1, ShapeFacts
    <3> QED
      BY <1>3, <3>1 DEF Pointer
  <2>3. ASSUME NEW b \in DOMAIN hdr
        PROVE  hdr[b] \in Headers
    <3>1. hdr[b] \in [size : Nat, free : BOOLEAN, next : Link, prev : Link]
      BY <2>1
    <3>2. hdr[b].size \in Address /\ hdr[b].next \in Pointer /\ hdr[b].prev \in Pointer
      BY <1>3, <2>2
    <3> QED
      BY <3>1, <3>2 DEF Headers
  <2> QED
    BY <2>1, <2>3
<1>5. DOMAIN live \subseteq Address /\ live \in [DOMAIN live -> Nat]
  BY <1>1, <1>3 DEF Held, Used
<1>6. call \in [op : {"idle", "init", "allocate", "realloc", "panic"},
                request : Nat, old : Pointer, total : Nat, offset : Nat]
  <2>1. call.old \in Pointer
    BY <1>1, <1>5 DEF CallOK, Pointer
  <2>2. call \in [op : {"idle", "init", "allocate", "realloc", "panic"},
                  request : Nat, old : Link, total : Nat, offset : Nat]
    BY <1>1 DEF CallOK
  <2> QED
    BY <2>1, <2>2
<1> QED
  BY <1>1, <1>2, <1>3, <1>4, <1>5, <1>6 DEF TypeOK, Counted

(* Whatever is allocated, resized and freed, and however often the heap     *)
(* fails to grow: its blocks tile it, the links agree with that, and no two *)
(* neighbours are free.                                                     *)
THEOREM HeapListIsTiling == Spec => []ListIsTiling
<1>1. HeapInv => ListIsTiling
  BY InvGivesTypes DEF HeapInv, ListIsTiling, Good, Shape
<1> QED
  BY <1>1, HeapInvariant, PTL

(* Every block in use is held by one caller, long enough, aligned, and on   *)
(* mapped pages.                                                            *)
THEOREM HeapLiveExact == Spec => []LiveExact
<1>1. ASSUME HeapInv
      PROVE  LiveExact
  <2>1. Good(hdr, heapEnd) /\ Held(hdr, live) /\ PagesMapped /\ CallOK
    BY <1>1 DEF HeapInv
  <2>2. DOMAIN live = {a \in DOMAIN hdr : ~hdr[a].free}
    BY <2>1 DEF Held, Used
  <2>3. ASSUME NEW a \in DOMAIN live, NEW p \in Nat, p * PAGE < End(hdr, a)
        PROVE  p \in mapped
    <3>1. End(hdr, a) \in Nat /\ End(hdr, a) <= heapEnd /\ heapEnd \in Nat
      BY <2>1, <2>2, ShapeFacts DEF Good
    <3>2. call.offset \in Nat
      BY <2>1 DEF CallOK
    <3>3. PAGE \in Nat
      BY SizeAssumption
    <3>4. p * PAGE \in Int
      BY <3>3, Z3
    <3>5. p * PAGE < heapEnd + call.offset
      BY <2>3, <3>1, <3>2, <3>4
    <3> QED
      BY <2>1, <3>5 DEF PagesMapped
  <2>4. 0 .. MaxSize \div PAGE \subseteq Nat
    OBVIOUS
  <2>5. \A a \in DOMAIN live : live[a] <= hdr[a].size /\ a % ALIGN = 0
    BY <2>1, <2>2 DEF Held, Good, HAligned
  <2> QED
    BY <2>2, <2>3, <2>4, <2>5 DEF LiveExact
<1> QED
  BY <1>1, HeapInvariant, PTL

(* Once an expansion failed after it had mapped pages, the heap never grows.*)
THEOREM HeapFailureIsFinal == Spec => PartialFailureIsFinal
<1>1. ASSUME HeapInv, [Next]_vars, Stuck
      PROVE  Stuck' /\ heapEnd' = heapEnd
  <2>1. /\ heapEnd \div PAGE \in mapped /\ call.offset = 0 /\ heapEnd \in Nat
        /\ InExpansion => call.total \in Nat /\ 0 < call.total
    BY <1>1, SizeAssumption DEF HeapInv, PagesMapped, CallOK, Stuck
  <2>2. ASSUME heapEnd' = heapEnd, mapped' = mapped, call'.offset = 0
        PROVE  Stuck' /\ heapEnd' = heapEnd
    BY <2>1, <2>2 DEF Stuck
  <2>3. Idle.offset = 0 /\ Panic.offset = 0
    BY DEF Idle, Panic
  <2>4. ASSUME NEW op, NEW n, NEW old, Allocate(op, n, old)
        PROVE  call'.offset = 0
    BY <2>1, <2>4 DEF Allocate, Expanding
  <2>5. ASSUME NEW n \in Requests, allocate(n)
        PROVE  Stuck' /\ heapEnd' = heapEnd
    BY <2>2, <2>4, <2>5 DEF allocate
  <2>6. ASSUME NEW a \in DOMAIN live, NEW n \in Requests, realloc(a, n)
        PROVE  Stuck' /\ heapEnd' = heapEnd
    BY <2>1, <2>2, <2>3, <2>4, <2>6 DEF realloc
  <2>7. ASSUME NEW a \in DOMAIN live, free(a)
        PROVE  Stuck' /\ heapEnd' = heapEnd
    BY <2>1, <2>2, <2>7 DEF free
  <2>8. ASSUME NEW a \in DOMAIN hdr, freeTwice(a)
        PROVE  Stuck' /\ heapEnd' = heapEnd
    BY <2>2, <2>3, <2>8 DEF freeTwice
  <2>9. CASE ExpandPage
    <3>1. MapFails((heapEnd + call.offset) \div PAGE) /\ heapEnd' = heapEnd
      BY <2>1, <2>9 DEF ExpandPage, MapFails
    <3>2. UNCHANGED mapped /\ (call' = Idle \/ call' = Panic)
      BY <2>9, <3>1 DEF ExpandPage, GiveUp
    <3> QED
      BY <2>2, <2>3, <3>1, <3>2
  <2>10. ~ExpandDone
    BY <2>1 DEF ExpandDone
  <2>11. CASE OthersUseFrames \/ UNCHANGED vars
    BY <2>1, <2>2, <2>11 DEF OthersUseFrames, vars
  <2> QED
    BY <1>1, <2>5, <2>6, <2>7, <2>8, <2>9, <2>10, <2>11 DEF Next, Halted
<1> QED
  BY <1>1, HeapInvariant, PTL DEF Spec, PartialFailureIsFinal

-----------------------------------------------------------------------------
(* Sums over the addresses of blocks *)

(* Induction over the numbers, for a set of them.                           *)
LEMMA SetInduction ==
  ASSUME NEW S, 0 \in S, \A n \in Nat : n \in S => n + 1 \in S
  PROVE  Nat \subseteq S
<1> DEFINE T == {n \in Nat : n \notin S}
<1> SUFFICES ASSUME T # {} PROVE FALSE
  OBVIOUS
<1>1. IsWellFoundedOn(OpToRel(<, Nat), Nat)
  BY NatLessThanWellFounded, Zenon
<1>2. PICK m \in T : \A k \in T : ~(<<k, m>> \in OpToRel(<, Nat))
  BY <1>1, WFMin, Zenon
<1>3. \A k \in Nat : k < m => k \in S
  BY <1>2 DEF OpToRel
<1> QED
  BY <1>3

(* A set of numbers that is not empty has a least one.                      *)
LEMMA LeastOf ==
  ASSUME NEW S, S \subseteq Nat, S # {}
  PROVE  \E m \in S : \A k \in S : m <= k
<1>1. IsWellFoundedOn(OpToRel(<, Nat), Nat)
  BY NatLessThanWellFounded, Zenon
<1>2. PICK m \in S : \A k \in S : ~(<<k, m>> \in OpToRel(<, Nat))
  BY <1>1, WFMin, Zenon
<1>3. \A k \in S : ~(k < m)
  BY <1>2 DEF OpToRel
<1> QED
  BY <1>3

(* What address i adds to a total.                                          *)
Share(w, i) == IF i \in DOMAIN w THEN w[i] ELSE 0

IsSum(w, n, s) ==
  s = [i \in 0 .. n |-> IF i = 0 THEN 0
                        ELSE s[i - 1] + (IF i - 1 \in DOMAIN w THEN w[i - 1] ELSE 0)]

(* A sum starts at 0 and takes in one address after the other.              *)
LEMMA SumSteps ==
  ASSUME NEW w, NEW n \in Nat, NEW s, IsSum(w, n, s)
  PROVE  /\ s[0] = 0
         /\ \A i \in Nat : i < n => s[i + 1] = s[i] + Share(w, i)
<1>1. \A i \in 0 .. n :
        s[i] = IF i = 0 THEN 0
               ELSE s[i - 1] + (IF i - 1 \in DOMAIN w THEN w[i - 1] ELSE 0)
  BY DEF IsSum
<1>2. s[0] = 0
  BY <1>1
<1>3. ASSUME NEW i \in Nat, i < n PROVE s[i + 1] = s[i] + Share(w, i)
  <2>1. i + 1 \in 0 .. n /\ i + 1 # 0 /\ (i + 1) - 1 = i
    BY <1>3
  <2> QED
    BY <1>1, <2>1 DEF Share
<1> QED
  BY <1>2, <1>3

(* There is a sum up to every address.                                      *)
LEMMA SumExists ==
  ASSUME NEW w
  PROVE  \A n \in Nat : \E s : IsSum(w, n, s)
<1> DEFINE S == {n \in Nat : \E s : IsSum(w, n, s)}
           Turn(f, k) == IF k = 0 THEN 0
                         ELSE f[k - 1] + (IF k - 1 \in DOMAIN w THEN w[k - 1] ELSE 0)
<1>1. 0 \in S
  <2> DEFINE s == [k \in 0 .. 0 |-> 0]
             d == [k \in 0 .. 0 |-> Turn(s, k)]
  <2>1. \A k \in 0 .. 0 : k = 0
    OBVIOUS
  <2>2. s = d
    BY <2>1
  <2>3. IsSum(w, 0, s)
    <3> HIDE DEF s
    <3> QED
      BY <2>2, Zenon DEF IsSum
  <2> QED
    BY <2>3
<1>2. ASSUME NEW n \in Nat, n \in S PROVE n + 1 \in S
  <2>1. PICK b : IsSum(w, n, b)
    BY <1>2
  <2> DEFINE s == [k \in 0 .. n + 1 |-> IF k = n + 1 THEN b[n] + Share(w, n) ELSE b[k]]
             d == [k \in 0 .. n + 1 |-> Turn(s, k)]
  <2>2. \A k \in 0 .. n : b[k] = Turn(b, k)
    BY <2>1 DEF IsSum
  <2>3. \A k \in 0 .. n + 1 : s[k] = Turn(s, k)
    <3> TAKE k \in 0 .. n + 1
    <3>1. CASE k = n + 1
      <4>1. s[k] = b[n] + Share(w, n)
        BY <3>1
      <4>2. k - 1 = n /\ k # 0 /\ n \in 0 .. n + 1 /\ n # n + 1
        BY <3>1
      <4>3. s[k - 1] = b[n]
        BY <4>2
      <4> QED
        BY <4>1, <4>2, <4>3 DEF Share
    <3>2. CASE k \in 0 .. n
      <4>1. k # n + 1 /\ s[k] = b[k]
        BY <3>2
      <4>2. CASE k = 0
        BY <4>1, <4>2, <2>2, <3>2
      <4>3. CASE k # 0
        <5>1. k - 1 \in 0 .. n + 1 /\ k - 1 # n + 1
          BY <4>3, <3>2
        <5>2. s[k - 1] = b[k - 1]
          BY <5>1
        <5> QED
          BY <4>1, <4>3, <5>2, <2>2, <3>2
      <4> QED
        BY <4>2, <4>3
    <3> QED
      BY <3>1, <3>2
  <2>4. s = d
    <3> HIDE DEF Turn
    <3> QED
      BY <2>3
  <2>5. IsSum(w, n + 1, s)
    <3> HIDE DEF s
    <3> QED
      BY <2>4, Zenon DEF IsSum
  <2> QED
    BY <2>5
<1> HIDE DEF S
<1>3. Nat \subseteq S
  BY <1>1, <1>2, SetInduction
<1> QED
  BY <1>3 DEF S

(* Total is what a sum of its length comes to.                              *)
LEMMA TotalIsASum ==
  ASSUME NEW w, NEW n \in Nat
  PROVE  \E s : IsSum(w, n, s) /\ Total(w, n) = s[n]
<1> DEFINE b == CHOOSE s : IsSum(w, n, s)
<1>1. IsSum(w, n, b)
  BY SumExists, Zenon
<1>2. Total(w, n) = b[n]
  BY DEF Total, IsSum
<1> QED
  BY <1>1, <1>2

(* So one more address adds its share.                                      *)
LEMMA TotalSteps ==
  ASSUME NEW w
  PROVE  /\ Total(w, 0) = 0
         /\ \A n \in Nat : Total(w, n + 1) = Total(w, n) + Share(w, n)
<1>1. Total(w, 0) = 0
  <2>1. PICK s : IsSum(w, 0, s) /\ Total(w, 0) = s[0]
    BY TotalIsASum
  <2> QED
    BY <2>1, SumSteps
<1>2. ASSUME NEW n \in Nat PROVE Total(w, n + 1) = Total(w, n) + Share(w, n)
  <2>1. PICK s : IsSum(w, n, s) /\ Total(w, n) = s[n]
    BY TotalIsASum
  <2>2. PICK t : IsSum(w, n + 1, t) /\ Total(w, n + 1) = t[n + 1]
    BY TotalIsASum
  <2>3. s[0] = 0 /\ \A i \in Nat : i < n => s[i + 1] = s[i] + Share(w, i)
    BY <2>1, SumSteps
  <2>4. t[0] = 0 /\ \A i \in Nat : i < n + 1 => t[i + 1] = t[i] + Share(w, i)
    BY <2>2, SumSteps
  <2> DEFINE S == {i \in Nat : i <= n => s[i] = t[i]}
  <2>5. 0 \in S
    BY <2>3, <2>4
  <2>6. \A i \in Nat : i \in S => i + 1 \in S
    BY <2>3, <2>4
  <2> HIDE DEF S
  <2>7. Nat \subseteq S
    BY <2>5, <2>6, SetInduction
  <2>8. s[n] = t[n]
    BY <2>7 DEF S
  <2> QED
    BY <2>1, <2>2, <2>4, <2>8
<1> QED
  BY <1>1, <1>2

Sizes(w) == \A i \in DOMAIN w : i \in Nat /\ w[i] \in Nat

(* Sizes add up to a number.                                                *)
LEMMA TotalType ==
  ASSUME NEW w, Sizes(w)
  PROVE  \A n \in Nat : Total(w, n) \in Nat /\ Share(w, n) \in Nat
<1>1. \A n \in Nat : Share(w, n) \in Nat
  BY DEF Share, Sizes
<1> DEFINE S == {n \in Nat : Total(w, n) \in Nat}
<1>2. 0 \in S
  BY TotalSteps
<1>3. ASSUME NEW n \in Nat, n \in S PROVE n + 1 \in S
  <2>1. Total(w, n + 1) = Total(w, n) + Share(w, n)
    BY TotalSteps
  <2> QED
    BY <1>1, <1>3, <2>1
<1> HIDE DEF S
<1>4. Nat \subseteq S
  BY <1>2, <1>3, SetInduction
<1> QED
  BY <1>1, <1>4 DEF S

(* Shares that add up make totals that add up.                              *)
LEMMA TotalAdds ==
  ASSUME NEW u, NEW v, NEW w, Sizes(u), Sizes(v), Sizes(w),
         \A i \in Nat : Share(u, i) = Share(v, i) + Share(w, i)
  PROVE  \A n \in Nat : Total(u, n) = Total(v, n) + Total(w, n)
<1> DEFINE S == {n \in Nat : Total(u, n) = Total(v, n) + Total(w, n)}
<1>1. 0 \in S
  BY TotalSteps
<1>2. ASSUME NEW n \in Nat, n \in S PROVE n + 1 \in S
  <2>1. /\ Total(u, n) \in Nat /\ Total(v, n) \in Nat /\ Total(w, n) \in Nat
        /\ Share(u, n) \in Nat /\ Share(v, n) \in Nat /\ Share(w, n) \in Nat
    BY TotalType
  <2>2. /\ Total(u, n + 1) = Total(u, n) + Share(u, n)
        /\ Total(v, n + 1) = Total(v, n) + Share(v, n)
        /\ Total(w, n + 1) = Total(w, n) + Share(w, n)
    BY TotalSteps
  <2> QED
    BY <1>2, <2>1, <2>2
<1> HIDE DEF S
<1>3. Nat \subseteq S
  BY <1>1, <1>2, SetInduction
<1> QED
  BY <1>3 DEF S

Single(a, k) == [b \in {a} |-> k]

(* The total of one block is its size.                                      *)
LEMMA TotalOfOne ==
  ASSUME NEW a \in Nat, NEW k \in Nat
  PROVE  \A n \in Nat : Total(Single(a, k), n) = IF a < n THEN k ELSE 0
<1> DEFINE w == Single(a, k)
           S == {n \in Nat : Total(w, n) = IF a < n THEN k ELSE 0}
<1>1. \A n \in Nat : Share(w, n) = IF n = a THEN k ELSE 0
  BY DEF Share, Single
<1> HIDE DEF w
<1>2. 0 \in S
  BY TotalSteps
<1>3. ASSUME NEW n \in Nat, n \in S PROVE n + 1 \in S
  <2>1. Total(w, n + 1) = Total(w, n) + Share(w, n)
    BY TotalSteps
  <2> QED
    BY <1>1, <1>3, <2>1
<1> HIDE DEF S
<1>4. Nat \subseteq S
  BY <1>2, <1>3, SetInduction
<1> QED
  BY <1>4 DEF S, w

(* Addresses behind the last block add nothing.                             *)
LEMMA TotalEnds ==
  ASSUME NEW w, Sizes(w), NEW m \in Nat, \A i \in DOMAIN w : i < m
  PROVE  \A n \in Nat : m <= n => Total(w, n) = Total(w, m)
<1> DEFINE S == {n \in Nat : m <= n => Total(w, n) = Total(w, m)}
<1>1. 0 \in S
  OBVIOUS
<1>2. ASSUME NEW n \in Nat, n \in S PROVE n + 1 \in S
  <2>1. m <= n => Share(w, n) = 0
    BY DEF Share
  <2>2. Total(w, n) \in Nat /\ Total(w, n + 1) = Total(w, n) + Share(w, n)
    BY TotalType, TotalSteps
  <2> QED
    BY <1>2, <2>1, <2>2
<1> HIDE DEF S
<1>3. Nat \subseteq S
  BY <1>1, <1>2, SetInduction
<1> QED
  BY <1>3 DEF S

(* The total of equal sizes is their number times one.                      *)
LEMMA TotalOfEqual ==
  ASSUME NEW D \in SUBSET Nat, NEW k \in Nat
  PROVE  \A n \in Nat : /\ Cardinality(D \cap (0 .. n - 1)) \in Nat
                        /\ Total([b \in D |-> k], n) = k * Cardinality(D \cap (0 .. n - 1))
<1> DEFINE w == [b \in D |-> k]
           C(n) == D \cap (0 .. n - 1)
           S == {n \in Nat : Total(w, n) = k * Cardinality(C(n))}
<1>1. \A n \in Nat : Share(w, n) = IF n \in D THEN k ELSE 0
  BY DEF Share
<1> HIDE DEF w
<1>2. ASSUME NEW n \in Nat PROVE IsFiniteSet(C(n)) /\ Cardinality(C(n)) \in Nat
  <2>1. IsFiniteSet(0 .. n - 1)
    BY FS_Interval
  <2> QED
    BY <2>1, FS_Subset, FS_CardinalityType
<1>3. 0 \in S
  <2>1. C(0) = {}
    OBVIOUS
  <2>2. Cardinality(C(0)) = 0
    BY <2>1, FS_EmptySet
  <2>3. k * 0 = 0
    BY Z3
  <2> QED
    BY <2>2, <2>3, TotalSteps
<1>4. ASSUME NEW n \in Nat, n \in S PROVE n + 1 \in S
  <2> DEFINE c == Cardinality(C(n))
  <2>1. c \in Nat
    BY <1>2
  <2>2. Total(w, n + 1) = k * c + Share(w, n)
    BY <1>4, TotalSteps
  <2>3. CASE n \in D
    <3>1. C(n + 1) = C(n) \cup {n} /\ n \notin C(n)
      BY <2>3
    <3>2. Cardinality(C(n + 1)) = c + 1
      BY <1>2, <3>1, FS_AddElement
    <3> HIDE DEF c, C
    <3>3. k * (c + 1) = k * c + k
      BY <2>1, Z3
    <3> QED
      BY <1>1, <2>2, <2>3, <3>2, <3>3
  <2>4. CASE n \notin D
    <3>1. C(n + 1) = C(n)
      BY <2>4
    <3>2. Share(w, n) = 0
      BY <1>1, <2>4
    <3> HIDE DEF C
    <3>3. k * c \in Int
      BY <2>1, Z3
    <3> QED
      BY <2>2, <3>1, <3>2, <3>3
  <2> QED
    BY <2>3, <2>4
<1> HIDE DEF S
<1>5. Nat \subseteq S
  BY <1>3, <1>4, SetInduction
<1> QED
  BY <1>2, <1>5 DEF S, w

-----------------------------------------------------------------------------
(* The byte counters *)

UsedSizes(h) == [a \in Used(h) |-> h[a].size]
UsedBytes(h, hi) == Total(UsedSizes(h), hi)

(* Headers and blocks together fill the heap.                               *)
LEMMA TilesAddUp ==
  ASSUME NEW h, NEW hi, Shape(h, hi)
  PROVE  Total([b \in DOMAIN h |-> HDR + h[b].size], hi) = hi
<1> DEFINE w == [b \in DOMAIN h |-> HDR + h[b].size]
           S == {n \in Nat : n <= hi =>
                   \/ n = 0 /\ Total(w, n) = 0
                   \/ \E b \in DOMAIN h : /\ b < n /\ n <= End(h, b)
                                          /\ Total(w, n) = End(h, b)}
<1>1. /\ hi \in Nat
      /\ \A b \in DOMAIN h :
           /\ b \in Nat /\ End(h, b) \in Nat /\ b < End(h, b)
           /\ End(h, b) = b + HDR + h[b].size /\ h[b].size \in Nat
           /\ End(h, b) <= hi
           /\ End(h, b) # hi => End(h, b) \in DOMAIN h
      /\ \A b, c \in DOMAIN h : b < c => End(h, b) <= c
      /\ hi > 0 => 0 \in DOMAIN h
  <2>1. HDR \in Nat \ {0}
    BY SizeAssumption
  <2>2. \A b \in DOMAIN h : End(h, b) # hi => End(h, b) # NULL /\ h[b].next = End(h, b)
    BY ShapeFacts DEF NULL
  <2> QED
    BY <2>1, <2>2, ShapeFacts
<1>2. \A n \in Nat : Share(w, n) = IF n \in DOMAIN h THEN HDR + h[n].size ELSE 0
  BY DEF Share
<1>3. HDR \in Nat
  BY SizeAssumption
<1> HIDE DEF w
<1>4. 0 \in S
  BY TotalSteps
<1>5. ASSUME NEW n \in Nat, n \in S PROVE n + 1 \in S
  <2>1. SUFFICES ASSUME n + 1 <= hi
                 PROVE  \E b \in DOMAIN h : /\ b < n + 1 /\ n + 1 <= End(h, b)
                                            /\ Total(w, n + 1) = End(h, b)
    OBVIOUS
  <2>2. Total(w, n + 1) = Total(w, n) + Share(w, n)
    BY TotalSteps
  <2>3. ASSUME n \in DOMAIN h, Total(w, n) = n
        PROVE  n < n + 1 /\ n + 1 <= End(h, n) /\ Total(w, n + 1) = End(h, n)
    BY <1>1, <1>2, <1>3, <2>2, <2>3
  <2>4. CASE n = 0 /\ Total(w, n) = 0
    BY <1>1, <2>1, <2>3, <2>4
  <2>5. CASE \E b \in DOMAIN h : b < n /\ n <= End(h, b) /\ Total(w, n) = End(h, b)
    <3>1. PICK b \in DOMAIN h : b < n /\ n <= End(h, b) /\ Total(w, n) = End(h, b)
      BY <2>5
    <3>2. CASE n = End(h, b)
      BY <1>1, <2>1, <2>3, <3>1, <3>2
    <3>3. CASE n < End(h, b)
      <4>1. n \notin DOMAIN h
        BY <1>1, <3>1, <3>3
      <4>2. Total(w, n + 1) = End(h, b)
        BY <1>1, <1>2, <2>2, <3>1, <4>1
      <4> QED
        BY <1>1, <3>1, <3>3, <4>2
    <3> QED
      BY <1>1, <3>1, <3>2, <3>3
  <2>6. \/ n = 0 /\ Total(w, n) = 0
        \/ \E b \in DOMAIN h : b < n /\ n <= End(h, b) /\ Total(w, n) = End(h, b)
    <3>1. n <= hi
      BY <1>1, <2>1
    <3> QED
      BY <1>5, <3>1, Zenon
  <2> QED
    BY <2>4, <2>5, <2>6
<1> HIDE DEF S
<1>6. hi \in S
  BY <1>1, <1>4, <1>5, SetInduction
<1> USE DEF S
<1>7. CASE hi = 0 /\ Total(w, hi) = 0
  BY <1>7 DEF w
<1>8. CASE \E b \in DOMAIN h : b < hi /\ hi <= End(h, b) /\ Total(w, hi) = End(h, b)
  BY <1>1, <1>8 DEF w
<1> QED
  BY <1>1, <1>6, <1>7, <1>8

(* The blocks of a list have sizes, and lie below its end.                  *)
LEMMA SizesOf ==
  ASSUME NEW h, NEW hi, Shape(h, hi), NEW S \in SUBSET DOMAIN h
  PROVE  /\ Sizes([a \in S |-> h[a].size])
         /\ \A a \in S : a < hi
<1>1. HDR \in Nat \ {0}
  BY SizeAssumption
<1> QED
  BY <1>1, ShapeFacts DEF Sizes

(* The blocks in use are not longer than the heap, and what they leave is   *)
(* free blocks and headers.                                                 *)
LEMMA BytesAddUp ==
  ASSUME NEW h, NEW hi, Shape(h, hi)
  PROVE  /\ UsedBytes(h, hi) \in 0 .. hi
         /\ Total([a \in DOMAIN h \ Used(h) |-> h[a].size], hi) \in Nat
         /\ Cardinality(DOMAIN h) \in Nat
         /\ HDR * Cardinality(DOMAIN h) \in Nat
         /\ hi = UsedBytes(h, hi) + Total([a \in DOMAIN h \ Used(h) |-> h[a].size], hi)
                   + HDR * Cardinality(DOMAIN h)
<1> DEFINE free_ == [a \in DOMAIN h \ Used(h) |-> h[a].size]
           all == [a \in DOMAIN h |-> h[a].size]
           heads == [a \in DOMAIN h |-> HDR]
           tiles == [b \in DOMAIN h |-> HDR + h[b].size]
<1>1. /\ hi \in Nat /\ HDR \in Nat /\ DOMAIN h \in SUBSET Nat
      /\ \A b \in DOMAIN h : b < hi /\ h[b].size \in Nat
  BY SizeAssumption, ShapeFacts, SizesOf DEF Shape
<1>2. Sizes(UsedSizes(h)) /\ Sizes(free_) /\ Sizes(all)
  BY SizesOf DEF UsedSizes, Used
<1>3. Sizes(heads) /\ Sizes(tiles)
  BY <1>1 DEF Sizes
<1>4. \A i \in Nat : Share(all, i) = Share(UsedSizes(h), i) + Share(free_, i)
  BY <1>1 DEF Share, UsedSizes, Used
<1>5. \A i \in Nat : Share(tiles, i) = Share(heads, i) + Share(all, i)
  BY <1>1 DEF Share
<1>6. Total(tiles, hi) = hi
  BY TilesAddUp
<1>7. DOMAIN h \cap (0 .. hi - 1) = DOMAIN h
  BY <1>1
<1>8. /\ Cardinality(DOMAIN h) \in Nat
      /\ Total(heads, hi) = HDR * Cardinality(DOMAIN h)
  <2> DEFINE D == DOMAIN h
  <2>1. D \in SUBSET Nat /\ HDR \in Nat /\ hi \in Nat /\ D \cap (0 .. hi - 1) = D
    BY <1>1, <1>7
  <2> HIDE DEF D
  <2>2. /\ Cardinality(D \cap (0 .. hi - 1)) \in Nat
        /\ Total([b \in D |-> HDR], hi) = HDR * Cardinality(D \cap (0 .. hi - 1))
    BY <2>1, TotalOfEqual
  <2> QED
    BY <2>1, <2>2 DEF D
<1> HIDE DEF free_, all, heads, tiles
<1>9. Total(tiles, hi) = Total(heads, hi) + Total(all, hi)
  BY <1>1, <1>2, <1>3, <1>5, TotalAdds
<1>10. Total(all, hi) = Total(UsedSizes(h), hi) + Total(free_, hi)
  BY <1>1, <1>2, <1>4, TotalAdds
<1>11. Total(heads, hi) \in Nat /\ Total(UsedSizes(h), hi) \in Nat /\ Total(free_, hi) \in Nat
  BY <1>1, <1>2, <1>3, TotalType
<1> QED
  BY <1>1, <1>6, <1>8, <1>9, <1>10, <1>11 DEF UsedBytes, free_

(* A list whose users notice nothing has as many bytes in use.              *)
LEMMA SameBytes ==
  ASSUME NEW h, NEW hi, Shape(h, hi), NEW g, NEW top \in Nat, hi <= top,
         SameUse(g, h, Used(h))
  PROVE  UsedBytes(g, top) = UsedBytes(h, hi)
<1>1. UsedSizes(g) = UsedSizes(h)
  BY DEF UsedSizes, SameUse
<1>2. Used(h) \in SUBSET DOMAIN h
  BY DEF Used
<1>3. Sizes(UsedSizes(h)) /\ \A a \in DOMAIN UsedSizes(h) : a < hi
  BY <1>2, SizesOf DEF UsedSizes
<1>4. hi \in Nat
  BY DEF Shape
<1> QED
  BY <1>1, <1>3, <1>4, TotalEnds DEF UsedBytes

(* One block more or less in use, the others as they were.                  *)
LEMMA BytesOfOneMore ==
  ASSUME NEW h, NEW hi, Shape(h, hi), NEW g, Shape(g, hi),
         NEW a \in Used(g), Used(g) = Used(h) \cup {a}, a \notin Used(h),
         \A b \in Used(h) : g[b].size = h[b].size
  PROVE  UsedBytes(g, hi) = UsedBytes(h, hi) + g[a].size
<1> DEFINE k == g[a].size
<1>1. Used(h) \in SUBSET DOMAIN h /\ Used(g) \in SUBSET DOMAIN g
  BY DEF Used
<1>2. /\ Sizes(UsedSizes(h)) /\ Sizes(UsedSizes(g))
      /\ \A b \in Used(g) : b \in Nat /\ b < hi /\ g[b].size \in Nat
      /\ \A b \in Used(h) : b \in Nat /\ h[b].size \in Nat
      /\ hi \in Nat
  BY <1>1, SizesOf DEF UsedSizes, Sizes, Shape
<1>3. Sizes(Single(a, k))
  BY <1>2 DEF Sizes, Single
<1>4. \A i \in Nat : Share(UsedSizes(g), i) = Share(UsedSizes(h), i) + Share(Single(a, k), i)
  BY <1>2 DEF Share, UsedSizes, Single
<1>5. Total(UsedSizes(g), hi) = Total(UsedSizes(h), hi) + Total(Single(a, k), hi)
  BY <1>2, <1>3, <1>4, TotalAdds
<1>6. Total(Single(a, k), hi) = k
  BY <1>2, TotalOfOne
<1> QED
  BY <1>5, <1>6 DEF UsedBytes

(* Releasing a block takes its bytes out of those in use.                   *)
LEMMA ReleasedBytes ==
  ASSUME NEW h, NEW hi, Good(h, hi), NEW a \in Used(h)
  PROVE  /\ UsedBytes(Release(h, a), hi) = UsedBytes(h, hi) - h[a].size
         /\ UsedBytes(Release(h, a), hi) \in 0 .. hi
<1> DEFINE g == Release(h, a)
<1>1. Good(g, hi) /\ SameUse(g, h, Used(h) \ {a})
  BY ReleaseGood
<1> HIDE DEF g
<1>2. Shape(g, hi) /\ Shape(h, hi)
  BY <1>1 DEF Good
<1>3. /\ Used(h) = Used(g) \cup {a} /\ a \notin Used(g)
      /\ \A b \in Used(g) : h[b].size = g[b].size
  BY <1>1 DEF SameUse
<1>4. UsedBytes(h, hi) = UsedBytes(g, hi) + h[a].size
  BY <1>2, <1>3, BytesOfOneMore
<1>5. UsedBytes(g, hi) \in 0 .. hi /\ hi \in Nat
  BY <1>2, BytesAddUp DEF Shape
<1>6. h[a].size \in Nat
  BY <1>2 DEF Shape, Used
<1> QED
  BY <1>4, <1>5, <1>6 DEF g

(* Multiples of 2^64 do not show in a word.                                 *)
LEMMA WordMultiple ==
  ASSUME NEW y \in Int, NEW z \in Int, NEW k \in Int
  PROVE  (y + Word * k + z) % Word = (y + z) % Word
<1> DEFINE n == y + z
           m == y + Word * k + z
<1>1. Word \in Nat \ {0}
  BY SizeAssumption
<1>2. n \in Int /\ Word * k \in Int /\ m = n + Word * k /\ m \in Int
  BY <1>1, Z3
<1> HIDE DEF n, m
<1>3. /\ n = Word * (n \div Word) + (n % Word) /\ n \div Word \in Int /\ n % Word \in 0 .. Word - 1
      /\ m = Word * (m \div Word) + (m % Word) /\ m \div Word \in Int /\ m % Word \in 0 .. Word - 1
  BY <1>1, <1>2, Z3
<1> DEFINE q == (m \div Word) - (n \div Word) - k
<1>4. q \in Int /\ Word * q = (n % Word) - (m % Word)
  <2>1. Word * q = Word * (m \div Word) - Word * (n \div Word) - Word * k
    BY <1>1, <1>3, Z3
  <2>2. Word * (m \div Word) \in Int /\ Word * (n \div Word) \in Int
    BY <1>1, <1>3, Z3
  <2> QED
    BY <1>2, <1>3, <2>1, <2>2
<1> HIDE DEF q
<1>5. q >= 1 => Word * q >= Word
  BY <1>1, <1>4, Z3
<1>6. q <= -1 => Word * q <= -Word
  BY <1>1, <1>4, Z3
<1>7. q = 0
  <2> DEFINE r == n % Word
             t == m % Word
             wq == Word * q
  <2>1. r \in 0 .. Word - 1 /\ t \in 0 .. Word - 1 /\ wq = r - t /\ q \in Int
    BY <1>3, <1>4
  <2>2. (q >= 1 => wq >= Word) /\ (q <= -1 => wq <= -Word)
    BY <1>5, <1>6
  <2> HIDE DEF r, t, wq
  <2> QED
    BY <1>1, <2>1, <2>2
<1>8. Word * q = 0
  BY <1>1, <1>7, Z3
<1> QED
  BY <1>3, <1>4, <1>8 DEF n, m

(* What a word holds depends on the number only up to multiples of 2^64.    *)
LEMMA WordShift ==
  ASSUME NEW x \in Int, NEW y \in Int, NEW z \in Int, x % Word = y % Word
  PROVE  (x + z) % Word = (y + z) % Word
<1>1. Word \in Nat \ {0}
  BY SizeAssumption
<1>2. \A n \in Int : n = Word * (n \div Word) + (n % Word) /\ n \div Word \in Int /\ n % Word \in 0 .. Word - 1
  BY <1>1, Z3
<1> DEFINE k == (x \div Word) - (y \div Word)
<1>3. k \in Int /\ x = y + Word * k
  <2>1. Word * k = Word * (x \div Word) - Word * (y \div Word)
    BY <1>1, <1>2, Z3
  <2>2. Word * (x \div Word) \in Int /\ Word * (y \div Word) \in Int
    BY <1>1, <1>2, Z3
  <2> QED
    BY <1>2, <2>1, <2>2
<1> HIDE DEF k
<1> QED
  BY <1>1, <1>3, WordMultiple

(* The counters agree with the list h of a heap that ends at hi and has     *)
(* grown e times: what is not in use was free when it came, but for one     *)
(* header each time.                                                        *)
CountersHold(h, hi, used, free_, e) ==
  /\ used = UsedBytes(h, hi)
  /\ free_ = (hi - used - HDR * e) % Word

Counters == CountersHold(hdr, heapEnd, usedMemory, freeMemory, expansions)

(* A word holds what is below 2^64.                                         *)
LEMMA WordKeeps ==
  ASSUME NEW n \in 0 .. Word - 1
  PROVE  n % Word = n
<1>1. Word \in Nat \ {0}
  BY SizeAssumption
<1> QED
  BY <1>1, Z3

(* So the bytes in use are what their counter says.                         *)
LEMMA NoWrap ==
  ASSUME NEW hi \in Nat, hi <= MaxSize, NEW n \in 0 .. hi
  PROVE  n % Word = n
<1>1. n \in 0 .. Word - 1
  BY SizeAssumption
<1> QED
  BY <1>1, WordKeeps

(* What the rest of allocate and realloc does to the counters.              *)
LEMMA GrantCounts ==
  ASSUME NEW h, NEW hi, Good(h, hi), hi <= MaxSize, Held(h, live), NEW a,
         NEW request \in Nat, FirstFit(h, a, alignUp(request, ALIGN)),
         NEW old, old = NULL \/ old \in DOMAIN live,
         NEW used, used = UsedBytes(h, hi), NEW free_ \in Int, NEW e \in Nat,
         free_ % Word = (hi - used - HDR * e) % Word,
         Grant(h, a, request, old, used, free_)
  PROVE  CountersHold(hdr', hi, usedMemory', freeMemory', e)
<1> DEFINE size == alignUp(request, ALIGN)
           t == SetFree(splitBlock(h, a, size), a, FALSE)
           x == HDR * e
<1>1. size \in Nat /\ size % ALIGN = 0
  BY AlignUpFacts, SizeAssumption
<1>2. a \in DOMAIN h /\ h[a].free = TRUE /\ size <= h[a].size /\ a \notin Used(h)
  <2>1. a \in DOMAIN h /\ h[a].free /\ h[a].size >= size
    BY DEF FirstFit, Fits
  <2>2. h[a].free \in BOOLEAN /\ h[a].size \in Nat
    BY <2>1 DEF Good, Shape
  <2> QED
    BY <1>1, <2>1, <2>2 DEF Used
<1>3. /\ old = NULL =>
           /\ hdr' = t
           /\ usedMemory' = (used + t[a].size) % Word
           /\ freeMemory' = (free_ - t[a].size) % Word
      /\ old # NULL =>
           /\ hdr' = Release(t, old)
           /\ usedMemory' = (used + t[a].size - t[old].size) % Word
           /\ freeMemory' = (free_ - t[a].size + t[old].size) % Word
  BY DEF Grant
<1>4. Good(t, hi) /\ Taken(h, t, a, size)
  <2> HIDE DEF size
  <2>1. t = SetFree(splitBlock(h, a, size), a, FALSE)
    OBVIOUS
  <2> HIDE DEF t
  <2> QED
    BY <1>1, <1>2, <2>1, TakeGood
<1> HIDE DEF t, size
<1>5. Shape(h, hi) /\ Shape(t, hi) /\ hi \in Nat
  BY <1>4 DEF Good, Shape
<1>6. /\ UsedBytes(t, hi) = used + t[a].size /\ UsedBytes(t, hi) \in 0 .. hi
      /\ used \in 0 .. hi /\ t[a].size \in Nat
  <2>1. a \in Used(t) /\ Used(t) = Used(h) \cup {a} /\ \A b \in Used(h) : t[b].size = h[b].size
    BY <1>4 DEF Taken
  <2>2. UsedBytes(t, hi) = UsedBytes(h, hi) + t[a].size
    BY <1>2, <1>5, <2>1, BytesOfOneMore
  <2>3. t[a].size \in Nat
    BY <1>5, <2>1 DEF Shape, Used
  <2>4. UsedBytes(t, hi) \in 0 .. hi /\ UsedBytes(h, hi) \in 0 .. hi
    BY <1>5, BytesAddUp
  <2> QED
    BY <2>2, <2>3, <2>4
<1>7. x \in Int /\ hi - used - x \in Int
  <2>1. x \in Int
    BY SizeAssumption, Z3
  <2> QED
    BY <1>5, <1>6, <2>1
<1> HIDE DEF x
<1>8. free_ % Word = (hi - used - x) % Word
  BY DEF x
<1>9. CASE old = NULL
  <2>1. usedMemory' = UsedBytes(t, hi)
    BY <1>3, <1>5, <1>6, <1>9, NoWrap
  <2> DEFINE z == -t[a].size
  <2>2. z \in Int /\ free_ - t[a].size = free_ + z /\ hi - used - x + z = hi - UsedBytes(t, hi) - x
    BY <1>5, <1>6, <1>7
  <2> HIDE DEF z
  <2>3. (free_ + z) % Word = (hi - used - x + z) % Word
    BY <1>7, <1>8, <2>2, WordShift
  <2>4. freeMemory' = (hi - usedMemory' - x) % Word
    BY <1>3, <1>9, <2>1, <2>2, <2>3
  <2> QED
    BY <1>3, <1>9, <2>1, <2>4 DEF CountersHold, x
<1>10. CASE old # NULL
  <2>1. old \in Used(t)
    BY <1>4, <1>10 DEF Held, Taken
  <2> DEFINE r == Release(t, old)
  <2>2. UsedBytes(r, hi) = UsedBytes(t, hi) - t[old].size /\ UsedBytes(r, hi) \in 0 .. hi
    BY <1>4, <2>1, ReleasedBytes
  <2>3. t[old].size \in Nat
    BY <1>5, <2>1 DEF Shape, Used
  <2> HIDE DEF r
  <2>4. used + t[a].size - t[old].size = UsedBytes(r, hi)
    BY <1>5, <1>6, <2>2, <2>3
  <2>5. hdr' = r /\ usedMemory' = UsedBytes(r, hi)
    BY <1>3, <1>5, <1>10, <2>2, <2>4, NoWrap DEF r
  <2> DEFINE z == t[old].size - t[a].size
  <2>6. /\ z \in Int /\ free_ - t[a].size + t[old].size = free_ + z
        /\ hi - used - x + z = hi - UsedBytes(r, hi) - x
    BY <1>5, <1>6, <1>7, <2>2, <2>3
  <2> HIDE DEF z
  <2>7. (free_ + z) % Word = (hi - used - x + z) % Word
    BY <1>7, <1>8, <2>6, WordShift
  <2>8. freeMemory' = (hi - usedMemory' - x) % Word
    BY <1>3, <1>10, <2>5, <2>6, <2>7
  <2> QED
    BY <2>5, <2>8 DEF CountersHold, x
<1> QED
  BY <1>9, <1>10

(* Nothing is in use before the heap has grown.                             *)
LEMMA InitCounts == Init => Counters
<1> SUFFICES ASSUME Init PROVE Counters
  OBVIOUS
<1>1. heapEnd = 0 /\ usedMemory = 0 /\ freeMemory = 0 /\ expansions = 0
  BY DEF Init, heapStart
<1>2. UsedBytes(hdr, heapEnd) = 0
  BY <1>1, TotalSteps DEF UsedBytes
<1>3. HDR * 0 = 0 /\ 0 % Word = 0
  BY SizeAssumption, Z3
<1> QED
  BY <1>1, <1>2, <1>3 DEF Counters, CountersHold

(* Calls of allocate and realloc that need no more pages.                   *)
LEMMA AllocateCounts ==
  ASSUME HeapInv, Counters,
         NEW op, NEW request \in Nat,
         NEW old, old = NULL \/ old \in DOMAIN live,
         Allocate(op, request, old), UNCHANGED <<heapEnd, expansions>>
  PROVE  Counters'
<1>1. CASE UNCHANGED <<hdr, usedMemory, freeMemory>>
  BY <1>1 DEF Counters, CountersHold
<1>2. CASE \E a \in DOMAIN hdr :
             /\ FirstFit(hdr, a, alignUp(request, ALIGN))
             /\ Grant(hdr, a, request, old, usedMemory, freeMemory)
  <2>1. PICK a \in DOMAIN hdr :
          /\ FirstFit(hdr, a, alignUp(request, ALIGN))
          /\ Grant(hdr, a, request, old, usedMemory, freeMemory)
    BY <1>2
  <2>2. /\ Good(hdr, heapEnd) /\ Held(hdr, live) /\ heapEnd <= MaxSize
        /\ freeMemory \in 0 .. Word - 1 /\ expansions \in Nat
    BY DEF HeapInv, PagesMapped, Counted
  <2>3. freeMemory % Word = freeMemory
    BY <2>2, WordKeeps
  <2>4. CountersHold(hdr', heapEnd, usedMemory', freeMemory', expansions)
    BY <2>1, <2>2, <2>3, GrantCounts DEF Counters, CountersHold
  <2> QED
    BY <2>4 DEF Counters
<1> QED
  BY <1>1, <1>2 DEF Allocate

(* The block of the caller goes from one counter to the other.              *)
LEMMA FreeCounts ==
  ASSUME HeapInv, Counters, NEW a \in DOMAIN live, free(a)
  PROVE  Counters'
<1> DEFINE r == Release(hdr, a)
           k == hdr[a].size
           x == HDR * expansions
<1>1. /\ Good(hdr, heapEnd) /\ a \in Used(hdr) /\ heapEnd <= MaxSize /\ heapEnd \in Nat
      /\ expansions \in Nat /\ freeMemory \in 0 .. Word - 1
  BY DEF HeapInv, PagesMapped, Counted, Held
<1>2. UsedBytes(r, heapEnd) = UsedBytes(hdr, heapEnd) - k /\ UsedBytes(r, heapEnd) \in 0 .. heapEnd
  BY <1>1, ReleasedBytes
<1>3. k \in Nat /\ x \in Int
  <2>1. k \in Nat
    BY <1>1 DEF Good, Shape, Used
  <2> QED
    BY <1>1, <2>1, SizeAssumption, Z3
<1>4. /\ hdr' = r /\ heapEnd' = heapEnd /\ expansions' = expansions
      /\ usedMemory' = (usedMemory - k) % Word
      /\ freeMemory' = (freeMemory + k) % Word
  BY DEF free
<1>5. usedMemory = UsedBytes(hdr, heapEnd) /\ freeMemory = (heapEnd - usedMemory - x) % Word
  BY DEF Counters, CountersHold
<1> HIDE DEF r, k, x
<1>6. usedMemory' = UsedBytes(r, heapEnd)
  BY <1>1, <1>2, <1>4, <1>5, NoWrap
<1>7. usedMemory \in Nat /\ heapEnd - usedMemory - x + k = heapEnd - usedMemory' - x
  <2>1. UsedBytes(hdr, heapEnd) \in 0 .. heapEnd
    BY <1>1, BytesAddUp DEF Good
  <2> QED
    BY <1>1, <1>2, <1>3, <1>5, <1>6, <2>1
<1> DEFINE y == heapEnd - usedMemory - x
<1>8. y \in Int /\ freeMemory \in Int /\ freeMemory = y % Word
  BY <1>1, <1>3, <1>5, <1>7
<1>9. freeMemory % Word = freeMemory
  BY <1>1, WordKeeps
<1>10. freeMemory' = (heapEnd - usedMemory' - x) % Word
  <2> HIDE DEF y
  <2>1. freeMemory % Word = y % Word
    BY <1>8, <1>9, Zenon
  <2>2. (freeMemory + k) % Word = (y + k) % Word
    <3>1. k \in Int /\ y \in Int /\ freeMemory \in Int
      BY <1>3, <1>8
    <3> QED
      BY <2>1, <3>1, WordShift, Zenon
  <2>3. y + k = heapEnd - usedMemory' - x
    BY <1>7 DEF y
  <2> QED
    BY <1>4, <2>2, <2>3
<1> HIDE DEF y
<1> QED
  BY <1>4, <1>6, <1>10 DEF Counters, CountersHold, x

(* The new pages come to the free bytes, less the header of their block.    *)
LEMMA ExpandDoneCounts ==
  ASSUME HeapInv, Counters, ExpandDone
  PROVE  Counters'
<1>1. /\ Good(hdr, heapEnd) /\ Held(hdr, live) /\ Counted /\ PagesMapped /\ CallOK
      /\ InExpansion
      /\ heapEnd' = heapEnd + call.total /\ expansions' = expansions + 1
  BY DEF HeapInv, ExpandDone
<1>2. /\ call.total \in Nat /\ HDR < call.total /\ call.total % PAGE = 0
      /\ heapEnd + call.total <= MaxSize /\ call.request \in Nat
      /\ call.old = NULL \/ call.old \in DOMAIN live
      /\ heapEnd \in Nat /\ heapEnd % PAGE = 0 /\ PAGE \in Nat \ {0} /\ ALIGN \in Nat \ {0}
      /\ PAGE % ALIGN = 0 /\ HDR \in Nat /\ expansions \in Nat
      /\ freeMemory \in 0 .. Word - 1 /\ Word \in Nat \ {0}
  BY <1>1, SizeAssumption DEF CallOK, PagesMapped, Counted
<1>3. call.total % ALIGN = 0 /\ heapEnd % ALIGN = 0
  <2>1. call.total \in Int /\ heapEnd \in Int
    BY <1>2
  <2> QED
    BY <1>2, <2>1, MultiplesOf
<1>4. PICK last \in IF DOMAIN hdr = {} THEN {NULL} ELSE {a \in DOMAIN hdr : Last(hdr, a)} :
        LET grown == AppendBlock(hdr, heapEnd, call.total, last)
            free_ == freeMemory + call.total - HDR
        IN  \/ /\ call.op = "init"
               /\ hdr' = grown
               /\ freeMemory' = free_ % Word
               /\ UNCHANGED <<usedMemory, live>>
            \/ /\ call.op # "init"
               /\ \E a \in DOMAIN grown :
                    /\ FirstFit(grown, a, alignUp(call.request, ALIGN))
                    /\ Grant(grown, a, call.request, call.old, usedMemory, free_)
            \/ /\ call.op # "init"
               /\ NoFit(grown, alignUp(call.request, ALIGN))
               /\ hdr' = grown
               /\ freeMemory' = free_ % Word
               /\ UNCHANGED <<usedMemory, live>>
  BY DEF ExpandDone
<1> DEFINE grown == AppendBlock(hdr, heapEnd, call.total, last)
           free_ == freeMemory + call.total - HDR
           top == heapEnd + call.total
           x == HDR * expansions
           y == heapEnd - usedMemory - x
           z == call.total - HDR
<1>5. AtEnd(hdr, last)
  BY <1>4 DEF AtEnd
<1>6. \/ hdr' = grown /\ freeMemory' = free_ % Word /\ usedMemory' = usedMemory
      \/ \E a \in DOMAIN grown :
           /\ FirstFit(grown, a, alignUp(call.request, ALIGN))
           /\ Grant(grown, a, call.request, call.old, usedMemory, free_)
  BY <1>4
<1>7. Good(grown, top) /\ SameUse(grown, hdr, Used(hdr))
  <2>1. grown = AppendBlock(hdr, heapEnd, call.total, last)
    OBVIOUS
  <2> HIDE DEF grown
  <2> QED
    BY <1>1, <1>2, <1>3, <1>5, <2>1, AppendGood
<1> HIDE DEF grown
<1>8. Held(grown, live)
  BY <1>1, <1>7 DEF Held, SameUse
<1>9. usedMemory = UsedBytes(hdr, heapEnd) /\ usedMemory \in Nat
  <2>1. UsedBytes(hdr, heapEnd) \in 0 .. heapEnd
    BY <1>1, BytesAddUp DEF Good
  <2> QED
    BY <1>2, <2>1 DEF Counters, CountersHold
<1>10. usedMemory = UsedBytes(grown, top)
  <2>1. top \in Nat /\ heapEnd <= top /\ Shape(hdr, heapEnd)
    BY <1>1, <1>2 DEF Good
  <2> QED
    BY <1>7, <1>9, <2>1, SameBytes
<1>11. HDR * (expansions + 1) = x + HDR /\ x \in Int
  BY <1>2, Z3
<1>12. /\ free_ = freeMemory + z /\ free_ \in Int /\ z \in Int /\ y \in Int /\ freeMemory \in Int
       /\ y + z = top - usedMemory - HDR * (expansions + 1)
  <2> DEFINE x1 == HDR * (expansions + 1)
  <2>1. x1 = x + HDR /\ x \in Int
    BY <1>11
  <2> HIDE DEF x, x1
  <2>2. y \in Int /\ z \in Int /\ free_ = freeMemory + z /\ freeMemory \in Int
    BY <1>2, <1>9, <2>1
  <2>3. y + z = top - usedMemory - x1
    BY <1>2, <1>9, <2>1
  <2>4. free_ \in Int
    BY <2>2
  <2> QED
    BY <2>2, <2>3, <2>4 DEF x1
<1>13. free_ % Word = (top - usedMemory - HDR * (expansions + 1)) % Word
  <2>1. freeMemory = y % Word
    BY DEF Counters, CountersHold
  <2> HIDE DEF y, z, free_, top, x
  <2>2. freeMemory % Word = freeMemory
    BY <1>2, WordKeeps
  <2>3. freeMemory % Word = y % Word
    BY <2>1, <2>2, Zenon
  <2>4. (freeMemory + z) % Word = (y + z) % Word
    BY <1>12, <2>3, WordShift, Zenon
  <2> QED
    BY <1>12, <2>4, Zenon
<1> HIDE DEF free_
<1>14. CASE hdr' = grown /\ freeMemory' = free_ % Word /\ usedMemory' = usedMemory
  BY <1>1, <1>10, <1>13, <1>14 DEF Counters, CountersHold
<1>15. CASE \E a \in DOMAIN grown :
              /\ FirstFit(grown, a, alignUp(call.request, ALIGN))
              /\ Grant(grown, a, call.request, call.old, usedMemory, free_)
  <2>1. PICK a \in DOMAIN grown :
              /\ FirstFit(grown, a, alignUp(call.request, ALIGN))
              /\ Grant(grown, a, call.request, call.old, usedMemory, free_)
    BY <1>15
  <2>2. top <= MaxSize /\ expansions + 1 \in Nat
    BY <1>2
  <2>3. CountersHold(hdr', top, usedMemory', freeMemory', expansions + 1)
    <3> HIDE DEF top
    <3> QED
      BY <1>2, <1>7, <1>8, <1>10, <1>12, <1>13, <2>1, <2>2, GrantCounts
  <2> QED
    BY <1>1, <2>3 DEF Counters
<1> QED
  BY <1>6, <1>14, <1>15

(* Every step of the heap, one case per action.                             *)
LEMMA StepCounts == HeapInv /\ Counters /\ [Next]_vars => Counters'
<1> SUFFICES ASSUME HeapInv, Counters, [Next]_vars
             PROVE  Counters'
  OBVIOUS
<1>1. Requests \subseteq Nat
  BY SizeAssumption
<1>2. ASSUME UNCHANGED <<hdr, heapEnd, usedMemory, freeMemory, expansions>>
      PROVE  Counters'
  BY <1>2 DEF Counters
<1>3. ASSUME NEW n \in Requests, allocate(n)
      PROVE  Counters'
  BY <1>1, <1>3, AllocateCounts DEF allocate
<1>4. ASSUME NEW a \in DOMAIN live, NEW n \in Requests, realloc(a, n)
      PROVE  Counters'
  <2>1. CASE UNCHANGED <<hdr, usedMemory, freeMemory>>
    BY <1>2, <1>4, <2>1 DEF realloc
  <2>2. CASE Allocate("realloc", n, a)
    <3>1. UNCHANGED <<heapEnd, expansions>>
      BY <1>4 DEF realloc
    <3> QED
      BY <1>1, <2>2, <3>1, AllocateCounts
  <2> QED
    BY <1>4, <2>1, <2>2 DEF realloc
<1>5. ASSUME NEW a \in DOMAIN live, free(a)
      PROVE  Counters'
  BY <1>5, FreeCounts
<1>6. ASSUME NEW a \in DOMAIN hdr, freeTwice(a)
      PROVE  Counters'
  BY <1>2, <1>6 DEF freeTwice
<1>7. CASE ExpandPage
  BY <1>2, <1>7 DEF ExpandPage
<1>8. CASE ExpandDone
  BY <1>8, ExpandDoneCounts
<1>9. CASE OthersUseFrames
  BY <1>2, <1>9 DEF OthersUseFrames
<1>10. CASE UNCHANGED vars
  BY <1>2, <1>10 DEF vars
<1> QED
  BY <1>3, <1>4, <1>5, <1>6, <1>7, <1>8, <1>9, <1>10 DEF Next, Halted

(* heap.cpp: getUsedMemory is the bytes of the blocks in use, whatever is   *)
(* split, merged, moved and appended; getFreeMemory is those of the free    *)
(* blocks, one header more for each block that no expansion made.           *)
THEOREM HeapCountersAccount == Spec => []CountersAccount
<1>1. ASSUME HeapInv, Counters
      PROVE  CountersAccount
  <2> DEFINE b == Total([a \in DOMAIN hdr \ Used(hdr) |-> hdr[a].size], heapEnd)
             c == Cardinality(DOMAIN hdr)
  <2>1. Shape(hdr, heapEnd) /\ expansions \in Nat /\ heapEnd \in Nat
    BY <1>1 DEF HeapInv, Good, Counted, PagesMapped
  <2>2. /\ UsedBytes(hdr, heapEnd) \in 0 .. heapEnd /\ b \in Nat /\ c \in Nat
        /\ heapEnd = UsedBytes(hdr, heapEnd) + b + HDR * c
    BY <2>1, BytesAddUp
  <2>3. UsedBlocks = Used(hdr) /\ FreeBlocks = DOMAIN hdr \ Used(hdr)
    BY DEF UsedBlocks, FreeBlocks, Used
  <2>4. Bytes(UsedBlocks) = UsedBytes(hdr, heapEnd) /\ Bytes(FreeBlocks) = b
    BY <2>3 DEF Bytes, UsedBytes, UsedSizes
  <2> HIDE DEF b, c
  <2>5. /\ HDR * (c - expansions) = HDR * c - HDR * expansions
        /\ HDR * c \in Int /\ HDR * expansions \in Int
    BY <2>1, <2>2, SizeAssumption, Z3
  <2>6. heapEnd - UsedBytes(hdr, heapEnd) - HDR * expansions = b + HDR * (c - expansions)
    <3> DEFINE p == HDR * c
               q == HDR * expansions
               r == HDR * (c - expansions)
    <3>1. r = p - q /\ p \in Int /\ q \in Int
      BY <2>5
    <3>2. heapEnd = UsedBytes(hdr, heapEnd) + b + p
      BY <2>2
    <3> HIDE DEF p, q, r
    <3>3. heapEnd - UsedBytes(hdr, heapEnd) - q = b + r
      BY <2>1, <2>2, <3>1, <3>2
    <3> QED
      BY <3>3 DEF q, r
  <2> QED
    BY <1>1, <2>4, <2>6, Zenon DEF Counters, CountersHold, CountersAccount, c
<1> QED
  BY <1>1, HeapInvariant, InitCounts, StepCounts, PTL DEF Spec

-----------------------------------------------------------------------------
(* The walk of findFreeBlock *)

IsSearch(h, size, f) ==
  f = [a \in DOMAIN h \cup {NULL} |->
         IF a = NULL \/ Fits(h, a, size) THEN a ELSE f[h[a].next]]

(* b is what the walk from block a should find.                             *)
Finds(h, size, a, b) ==
  \/ b = NULL /\ \A c \in DOMAIN h : a <= c => ~Fits(h, c, size)
  \/ /\ b \in DOMAIN h /\ a <= b /\ Fits(h, b, size)
     /\ \A c \in DOMAIN h : a <= c /\ c < b => ~Fits(h, c, size)

(* What follows a block in the list is what lies behind it.                 *)
LEMMA NextIsBehind ==
  ASSUME NEW h, NEW hi, Shape(h, hi), NEW a \in DOMAIN h
  PROVE  /\ a \in Nat /\ a < hi /\ hi \in Nat
         /\ h[a].next # NULL => h[a].next \in DOMAIN h /\ a < h[a].next
         /\ \A c \in DOMAIN h : a < c => h[a].next # NULL /\ h[a].next <= c
<1>1. HDR \in Nat \ {0}
  BY SizeAssumption
<1>2. /\ hi \in Nat
      /\ \A b \in DOMAIN h : b \in Nat /\ End(h, b) \in Nat /\ b + HDR <= End(h, b)
      /\ \A b \in DOMAIN h : End(h, b) <= hi
      /\ h[a].next = IF End(h, a) = hi THEN NULL ELSE End(h, a)
      /\ h[a].next # NULL => h[a].next \in DOMAIN h
      /\ \A c \in DOMAIN h : a < c => End(h, a) <= c
  BY ShapeFacts
<1>3. \A c \in DOMAIN h : c < hi
  BY <1>1, <1>2
<1>4. ASSUME NEW c \in DOMAIN h, a < c PROVE h[a].next = End(h, a) /\ End(h, a) # NULL
  BY <1>2, <1>3, <1>4 DEF NULL
<1> QED
  BY <1>1, <1>2, <1>3, <1>4

(* A walk that skips a block that does not fit finds what the next one finds*)
LEMMA FindsFromNext ==
  ASSUME NEW h, NEW hi, Shape(h, hi), NEW size, NEW a \in DOMAIN h, ~Fits(h, a, size)
  PROVE  /\ h[a].next = NULL => Finds(h, size, a, NULL)
         /\ h[a].next # NULL =>
              \A b : Finds(h, size, h[a].next, b) <=> Finds(h, size, a, b)
<1>1. /\ a \in Nat
      /\ h[a].next # NULL => h[a].next \in DOMAIN h /\ a < h[a].next
      /\ \A c \in DOMAIN h : a < c => h[a].next # NULL /\ h[a].next <= c
  BY NextIsBehind
<1>2. \A c \in DOMAIN h : c \in Nat
  BY NextIsBehind
<1>3. CASE h[a].next = NULL
  <2>1. \A c \in DOMAIN h : a <= c => c = a
    BY <1>1, <1>2, <1>3
  <2> QED
    BY <1>3, <2>1 DEF Finds
<1>4. CASE h[a].next # NULL
  <2> DEFINE n == h[a].next
  <2>1. n \in DOMAIN h /\ n \in Nat /\ a < n
    BY <1>1, <1>2, <1>4
  <2>2. \A c \in DOMAIN h : a <= c <=> c = a \/ n <= c
    BY <1>1, <1>2, <2>1
  <2>3. ASSUME NEW b PROVE Finds(h, size, n, b) <=> Finds(h, size, a, b)
    <3> HIDE DEF n
    <3>1. CASE b = NULL
      <4>1. NULL \notin DOMAIN h
        BY <1>2 DEF NULL
      <4> QED
        BY <2>2, <3>1, <4>1 DEF Finds
    <3>2. CASE b \in DOMAIN h
      <4>1. b # NULL
        BY <1>2, <3>2 DEF NULL
      <4>2. Fits(h, b, size) => b # a
        OBVIOUS
      <4> QED
        BY <2>2, <3>2, <4>1, <4>2 DEF Finds
    <3>3. CASE b # NULL /\ b \notin DOMAIN h
      BY <3>3 DEF Finds
    <3> QED
      BY <3>1, <3>2, <3>3
  <2> QED
    BY <1>4, <2>3
<1> QED
  BY <1>3, <1>4

(* There is something to be found from every block, and only one thing.     *)
LEMMA OneIsFound ==
  ASSUME NEW h, NEW hi, Shape(h, hi), NEW size, NEW a \in DOMAIN h
  PROVE  /\ \E b : Finds(h, size, a, b)
         /\ \A b, c : Finds(h, size, a, b) /\ Finds(h, size, a, c) => b = c
<1>1. NULL \notin DOMAIN h /\ \A c \in DOMAIN h : c \in Nat
  BY NextIsBehind DEF NULL
<1>2. \E b : Finds(h, size, a, b)
  <2> DEFINE S == {c \in DOMAIN h : a <= c /\ Fits(h, c, size)}
  <2>1. CASE S = {}
    <3>1. Finds(h, size, a, NULL)
      BY <2>1 DEF Finds
    <3> QED
      BY <3>1
  <2>2. CASE S # {}
    <3>1. S \subseteq Nat
      BY <1>1
    <3>2. PICK m \in S : \A k \in S : m <= k
      <4> HIDE DEF S
      <4> QED
        BY <2>2, <3>1, LeastOf
    <3>3. \A c \in DOMAIN h : a <= c /\ c < m => ~Fits(h, c, size)
      BY <1>1, <3>2
    <3>4. Finds(h, size, a, m)
      BY <3>2, <3>3 DEF Finds
    <3> QED
      BY <3>4
  <2> QED
    BY <2>1, <2>2
<1>3. ASSUME NEW b, NEW c, Finds(h, size, a, b), Finds(h, size, a, c)
      PROVE  b = c
  <2>1. CASE b = NULL \/ c = NULL
    BY <1>1, <1>3, <2>1 DEF Finds
  <2>2. CASE b # NULL /\ c # NULL
    <3>1. /\ b \in DOMAIN h /\ a <= b /\ Fits(h, b, size)
          /\ c \in DOMAIN h /\ a <= c /\ Fits(h, c, size)
          /\ ~(c < b) /\ ~(b < c)
      BY <1>3, <2>2 DEF Finds
    <3> QED
      BY <1>1, <3>1
  <2> QED
    BY <2>1, <2>2
<1> QED
  BY <1>2, <1>3

(* The recursion along next has a solution on a list that tiles its range.  *)
LEMMA SearchExists ==
  ASSUME NEW h, NEW hi, Shape(h, hi), NEW size
  PROVE  \E f : IsSearch(h, size, f)
<1> DEFINE D == DOMAIN h \cup {NULL}
           f == [a \in D |-> IF a = NULL THEN NULL ELSE CHOOSE b : Finds(h, size, a, b)]
           Turn(g, a) == IF a = NULL \/ Fits(h, a, size) THEN a ELSE g[h[a].next]
           d == [a \in D |-> Turn(f, a)]
<1>1. NULL \notin DOMAIN h /\ \A a \in DOMAIN h : a \in Nat
  BY NextIsBehind DEF NULL
<1>2. f[NULL] = NULL /\ \A a \in DOMAIN h : Finds(h, size, a, f[a])
  <2>1. \A a \in DOMAIN h : Finds(h, size, a, CHOOSE b : Finds(h, size, a, b))
    BY OneIsFound, Zenon
  <2>2. \A a \in DOMAIN h : f[a] = CHOOSE b : Finds(h, size, a, b)
    BY <1>1
  <2> QED
    BY <2>1, <2>2
<1>3. DOMAIN f = D /\ f = [a \in D |-> f[a]]
  OBVIOUS
<1> HIDE DEF f
<1>4. ASSUME NEW a \in D PROVE f[a] = Turn(f, a)
  <2>1. CASE a = NULL
    BY <1>2, <2>1
  <2>2. CASE a \in DOMAIN h /\ Fits(h, a, size)
    <3>1. a \in Nat /\ a <= a
      BY <1>1, <2>2
    <3>2. \A c \in DOMAIN h : ~(a <= c /\ c < a)
      BY <1>1, <3>1
    <3>3. Finds(h, size, a, a)
      BY <2>2, <3>1, <3>2 DEF Finds
    <3>4. f[a] = a
      BY <1>2, <2>2, <3>3, OneIsFound
    <3> QED
      BY <2>2, <3>4
  <2>3. CASE a \in DOMAIN h /\ ~Fits(h, a, size)
    <3>1. a # NULL
      BY <1>1, <2>3
    <3>2. CASE h[a].next = NULL
      <4>1. Finds(h, size, a, NULL)
        BY <2>3, <3>2, FindsFromNext
      <4>2. f[a] = NULL
        BY <1>2, <2>3, <4>1, OneIsFound
      <4> QED
        BY <1>2, <2>3, <3>1, <3>2, <4>2
    <3>3. CASE h[a].next # NULL
      <4>1. h[a].next \in DOMAIN h
        BY <2>3, <3>3, NextIsBehind
      <4>2. Finds(h, size, h[a].next, f[h[a].next])
        BY <1>2, <4>1
      <4>3. Finds(h, size, a, f[h[a].next])
        BY <2>3, <3>3, <4>2, FindsFromNext
      <4>4. f[a] = f[h[a].next]
        BY <1>2, <2>3, <4>3, OneIsFound
      <4> QED
        BY <2>3, <3>1, <4>4
    <3> QED
      BY <3>2, <3>3
  <2> QED
    BY <2>1, <2>2, <2>3
<1>5. f = d
  <2> HIDE DEF Turn
  <2> QED
    BY <1>3, <1>4
<1>6. IsSearch(h, size, f)
  BY <1>5, Zenon DEF IsSearch
<1> QED
  BY <1>6

(* However it is solved, a walk from a block finds the lowest one that fits.*)
LEMMA SearchFinds ==
  ASSUME NEW h, NEW hi, Shape(h, hi), NEW size, NEW f, IsSearch(h, size, f)
  PROVE  \A a \in DOMAIN h : Finds(h, size, a, f[a])
<1> DEFINE S == {n \in Nat : \A a \in DOMAIN h : hi - a <= n => Finds(h, size, a, f[a])}
<1>1. \A a \in DOMAIN h : a \in Nat /\ a < hi /\ hi \in Nat
  BY NextIsBehind
<1>2. \A a \in DOMAIN h \cup {NULL} :
        f[a] = IF a = NULL \/ Fits(h, a, size) THEN a ELSE f[h[a].next]
  BY DEF IsSearch
<1>3. 0 \in S
  BY <1>1
<1>4. ASSUME NEW n \in Nat, n \in S PROVE n + 1 \in S
  <2> SUFFICES ASSUME NEW a \in DOMAIN h, hi - a <= n + 1
               PROVE  Finds(h, size, a, f[a])
    OBVIOUS
  <2>1. \A b \in DOMAIN h : hi - b <= n => Finds(h, size, b, f[b])
    BY <1>4
  <2> HIDE DEF S
  <2>2. a # NULL /\ a \in Nat
    BY <1>1 DEF NULL
  <2>3. CASE Fits(h, a, size)
    <3>1. f[a] = a
      BY <1>2, <2>3
    <3>2. a <= a /\ \A c \in DOMAIN h : ~(a <= c /\ c < a)
      BY <1>1, <2>2
    <3> QED
      BY <2>3, <3>1, <3>2 DEF Finds
  <2>4. CASE ~Fits(h, a, size) /\ h[a].next = NULL
    <3>1. f[a] = f[NULL] /\ f[NULL] = NULL
      BY <1>2, <2>2, <2>4
    <3> QED
      BY <2>4, <3>1, FindsFromNext
  <2>5. CASE ~Fits(h, a, size) /\ h[a].next # NULL
    <3>1. h[a].next \in DOMAIN h /\ a < h[a].next
      BY <2>5, NextIsBehind
    <3>2. hi - h[a].next <= n
      BY <1>1, <2>2, <3>1
    <3>3. Finds(h, size, h[a].next, f[h[a].next])
      BY <2>1, <3>1, <3>2
    <3>4. f[a] = f[h[a].next]
      BY <1>2, <2>2, <2>5
    <3> QED
      BY <2>5, <3>3, <3>4, FindsFromNext
  <2> QED
    BY <2>3, <2>4, <2>5
<1> HIDE DEF S
<1>5. Nat \subseteq S
  BY <1>3, <1>4, SetInduction
<1>6. ASSUME NEW a \in DOMAIN h PROVE Finds(h, size, a, f[a])
  <2>1. hi - a \in Nat /\ hi - a <= hi - a
    BY <1>1
  <2>2. hi - a \in S
    BY <1>5, <2>1
  <2> QED
    BY <2>1, <2>2 DEF S
<1> QED
  BY <1>6

(* heap.cpp:67: findFreeBlock, which follows next from the head of the list,*)
(* comes to an end, and returns the lowest block that fits, or nullptr when *)
(* none does: splitting and merging never takes a block off its way.        *)
THEOREM HeapWalkFindsFirstFit == Spec => []WalkFindsFirstFit
<1>1. ASSUME HeapInv, NEW size
      PROVE  LET a == findFreeBlock(hdr, size)
             IN  IF a = NULL THEN NoFit(hdr, size) ELSE FirstFit(hdr, a, size)
  <2>1. Shape(hdr, heapEnd)
    BY <1>1 DEF HeapInv, Good
  <2> DEFINE f == CHOOSE g : IsSearch(hdr, size, g)
             start == IF DOMAIN hdr = {} THEN NULL ELSE heapStart
  <2>2. IsSearch(hdr, size, f)
    BY <2>1, SearchExists, Zenon
  <2>3. findFreeBlock(hdr, size) = f[start]
    BY DEF findFreeBlock, IsSearch
  <2> HIDE DEF f
  <2>4. CASE DOMAIN hdr = {}
    <3>1. f[NULL] = NULL
      BY <2>2 DEF IsSearch
    <3> QED
      BY <2>3, <2>4, <3>1 DEF NoFit
  <2>5. CASE DOMAIN hdr # {}
    <3>1. /\ 0 \in DOMAIN hdr
          /\ \A c \in DOMAIN hdr : c \in Nat /\ 0 <= c
      <4>1. PICK b \in DOMAIN hdr : TRUE
        BY <2>5
      <4>2. b \in Nat /\ b < heapEnd /\ heapEnd \in Nat
        BY <2>1, NextIsBehind
      <4>3. \A c \in DOMAIN hdr : c \in Nat
        BY <2>1, NextIsBehind
      <4> QED
        BY <2>1, <4>2, <4>3, ShapeFacts
    <3>2. start = 0
      BY <2>5 DEF heapStart
    <3>3. Finds(hdr, size, 0, f[0])
      BY <2>1, <2>2, <3>1, SearchFinds
    <3>4. CASE f[0] = NULL
      <4>1. \A c \in DOMAIN hdr : ~Fits(hdr, c, size)
        BY <3>1, <3>3, <3>4 DEF Finds, NULL
      <4> QED
        BY <2>3, <3>2, <3>4, <4>1 DEF NoFit
    <3>5. CASE f[0] # NULL
      <4>1. /\ Fits(hdr, f[0], size)
            /\ \A c \in DOMAIN hdr : c < f[0] => ~Fits(hdr, c, size)
        BY <3>1, <3>3, <3>5 DEF Finds
      <4> QED
        BY <2>3, <3>2, <3>5, <4>1 DEF FirstFit
    <3> QED
      BY <3>4, <3>5
  <2> QED
    BY <2>4, <2>5
<1>2. HeapInv => WalkFindsFirstFit
  BY <1>1 DEF WalkFindsFirstFit
<1> QED
  BY <1>2, HeapInvariant, PTL

=============================================================================
