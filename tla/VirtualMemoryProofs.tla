------------------------- MODULE VirtualMemoryProofs -------------------------
(***************************************************************************)
(* The page tables and the device windows for every page size, number of   *)
(* entries and set of frames, heap pages and devices: the tables form a    *)
(* tree, every frame has one use, a window reaches all of its device, and  *)
(* the tree implements a flat map.                                         *)
(***************************************************************************)
EXTENDS VirtualMemory, TLAPS

Slots == 0 .. PAGE_ENTRIES - 1

-----------------------------------------------------------------------------
(* The tables T, and the walks in them *)

Typed(T) ==
  /\ Root \in DOMAIN T /\ T[Root].level = 1
  /\ T \in [DOMAIN T -> [level : 1 .. 4, ent : [Slots -> Pointer]]]

(* An entry above the last level points to a table of the next.             *)
Levelled(T) ==
  \A t \in DOMAIN T, i \in Slots :
    T[t].level < 4 /\ T[t].ent[i] # NONE =>
      /\ T[t].ent[i] \in DOMAIN T \ {Root}
      /\ T[T[t].ent[i]].level = T[t].level + 1

OneParent(T) ==
  \A t, u \in DOMAIN T : \A i, j \in Slots :
    /\ T[t].level < 4 /\ T[u].level < 4
    /\ T[t].ent[i] # NONE /\ T[t].ent[i] = T[u].ent[j]
    => t = u /\ i = j

NoneLost(T) ==
  \A t \in DOMAIN T \ {Root} : \E u \in DOMAIN T, i \in Slots :
    T[u].level < 4 /\ T[u].ent[i] = t

TreeOK(T) == Typed(T) /\ Levelled(T) /\ OneParent(T) /\ NoneLost(T)

Down(T, t, i) == IF t = NONE THEN NONE ELSE T[t].ent[i]

(* The tables a walk for v comes through, and what it ends with.            *)
W2(T, v) == Down(T, Root, Index(v, 1))
W3(T, v) == Down(T, W2(T, v), Index(v, 2))
W4(T, v) == Down(T, W3(T, v), Index(v, 3))
W5(T, v) == Down(T, W4(T, v), Index(v, 4))

Node(T, v, l) ==
  IF l = 1 THEN Root ELSE IF l = 2 THEN W2(T, v)
  ELSE IF l = 3 THEN W3(T, v) ELSE W4(T, v)

-----------------------------------------------------------------------------
(* The inductive invariant *)

(* A page that is mapped is the heap's frame, or device memory.             *)
Leaves ==
  \A t \in DOMAIN tables, i \in Slots :
    tables[t].level = 4 /\ tables[t].ent[i] # NONE =>
      tables[t].ent[i] \in held \cup (Nat \ Frames)

WindowEnd(w) == w.mappingBase + w.mappedSize

WindowOK(w) ==
  /\ w.dev \in Devices
  /\ w.mappingBase \in Nat /\ w.mappingBase % PAGE_SIZE = 0
  /\ MmioStart <= w.mappingBase
  /\ w.mappedSize = MappedSize(w.dev)
  /\ w.base = w.mappingBase + (w.dev.physical - alignDown(w.dev.physical, PAGE_SIZE))
  /\ WindowEnd(w) <= nextMMIOVirt

WindowMapped(w) ==
  \A v \in Pages : w.mappingBase <= v /\ v < WindowEnd(w) =>
    Translation(v) = v - w.mappingBase + alignDown(w.dev.physical, PAGE_SIZE)

WindowsOK ==
  /\ \A w \in windows : WindowOK(w) /\ WindowMapped(w)
  /\ \A w, x \in windows : w # x =>
       WindowEnd(w) <= x.mappingBase \/ WindowEnd(x) <= w.mappingBase

CallEnd == call.virt + call.pages * PAGE_SIZE

CallRecord(addresses) ==
  [op : {"idle", "map", "unmap", "panic"}, client : {"none", "heap", "mmio"},
   virt : Nat, phys : Nat, pages : Nat, i : Nat, table : addresses,
   level : 1 .. 4, dev : Devices \cup {NoDevice}]

CallTypes ==
  /\ call \in CallRecord(DOMAIN tables)
  /\ call.level = tables[call.table].level
  /\ ~Walking => call = Idle \/ call = Panic
  /\ Walking => /\ call.i < call.pages
                /\ call.virt % PAGE_SIZE = 0 /\ call.phys % PAGE_SIZE = 0
                /\ CallEnd <= VirtualSize
                /\ call.table = Node(tables, Virt, call.level)
  /\ call.op = "map" => call.client \in {"heap", "mmio"}

(* The heap's frame is in no entry yet.                                     *)
HeapCall ==
  call.op = "map" /\ call.client = "heap" =>
    /\ call.pages = 1 /\ HeapStart <= call.virt /\ call.phys \in held
    /\ \A t \in DOMAIN tables, i \in Slots :
         tables[t].level = 4 => tables[t].ent[i] # call.phys

(* The window that grows lies past the others, and its pages so far are     *)
(* those of the device.                                                     *)
WindowCall ==
  call.op = "map" /\ call.client = "mmio" =>
    /\ call.dev \in Devices /\ MmioStart <= call.virt
    /\ call.phys = alignDown(call.dev.physical, PAGE_SIZE)
    /\ call.pages * PAGE_SIZE = MappedSize(call.dev)
    /\ CallEnd = nextMMIOVirt
    /\ \A w \in windows : WindowEnd(w) <= call.virt
    /\ \A v \in Pages : call.virt <= v /\ v < Virt =>
         Translation(v) = v - call.virt + call.phys

UnmapCall ==
  call.op = "unmap" =>
    /\ MmioStart <= call.virt /\ CallEnd <= nextMMIOVirt
    /\ \A w \in windows : WindowEnd(w) <= call.virt \/ CallEnd <= w.mappingBase

(* Past what was handed out nothing is mapped, up to the heap.              *)
FreshFrom == IF call.op = "map" /\ call.client = "mmio" THEN Virt ELSE nextMMIOVirt
Fresh ==
  /\ nextMMIOVirt \in Nat /\ nextMMIOVirt % PAGE_SIZE = 0
  /\ MmioStart <= nextMMIOVirt /\ nextMMIOVirt <= VirtualSize
  /\ \A v \in Pages : FreshFrom <= v /\ v < HeapStart => Translation(v) = NONE

VMInv ==
  /\ TreeOK(tables) /\ Leaves /\ FramesAccounted
  /\ CallTypes /\ HeapCall /\ WindowCall /\ UnmapCall
  /\ WindowsOK /\ Fresh
-----------------------------------------------------------------------------
(* Arithmetic of pages and entries *)

(* A multiple of d between 0 and d - 1 is 0.                                *)
LEMMA SmallMultiple ==
  ASSUME NEW d \in Nat \ {0}, NEW q \in Int, NEW r \in 0 .. d - 1, d * q = r
  PROVE  r = 0
<1>1. q >= 1 => d * q >= d
  BY Z3
<1>2. q <= 0 => d * q <= 0
  BY Z3
<1> QED
  BY <1>1, <1>2

(* The remainder of a product by its factor.                                *)
LEMMA ProductIsMultiple ==
  ASSUME NEW d \in Nat \ {0}, NEW k \in Int
  PROVE  (d * k) % d = 0
<1> DEFINE z == d * k
<1>1. z \in Int
  BY Z3
<1>2. z = d * (z \div d) + (z % d) /\ z \div d \in Int /\ z % d \in 0 .. d - 1
  BY <1>1, Z3
<1> DEFINE q == z \div d
           r == z % d
<1>3. \A m, n \in Int : d * (m - n) = d * m - d * n /\ m - n \in Int
  BY Z3
<1>4. d * (k - q) = z - d * q /\ k - q \in Int
  BY <1>2, <1>3
<1>5. z = d * q + r /\ r \in 0 .. d - 1 /\ q \in Int
  BY <1>2
<1>6. d * q \in Int
  BY <1>5, Z3
<1> HIDE DEF z, q, r
<1>7. d * (k - q) = r
  BY <1>1, <1>4, <1>5, <1>6
<1>8. r = 0
  BY <1>4, <1>5, <1>7, SmallMultiple
<1> QED
  BY <1>8 DEF r, z

(* Sums and differences of multiples are multiples.                         *)
LEMMA Multiples ==
  ASSUME NEW d \in Nat \ {0}, NEW x \in Int, NEW y \in Int, x % d = 0, y % d = 0
  PROVE  (x + y) % d = 0 /\ (x - y) % d = 0
<1>1. /\ x = d * (x \div d) /\ x \div d \in Int
      /\ y = d * (y \div d) /\ y \div d \in Int
  BY Z3
<1>2. /\ x + y = d * (x \div d + y \div d)
      /\ x - y = d * (x \div d - y \div d)
  BY <1>1, Z3
<1>3. \A k \in Int : (d * k) % d = 0
  BY ProductIsMultiple
<1>4. x \div d + y \div d \in Int /\ x \div d - y \div d \in Int
  BY <1>1
<1>5. (d * (x \div d + y \div d)) % d = 0
  BY <1>3, <1>4
<1>6. (d * (x \div d - y \div d)) % d = 0
  BY <1>3, <1>4
<1> QED
  BY <1>2, <1>5, <1>6

(* alignUp rounds up to a multiple.                                         *)
LEMMA AlignUpFacts ==
  ASSUME NEW d \in Nat \ {0}, NEW x \in Nat
  PROVE  /\ alignUp(x, d) \in Nat /\ alignUp(x, d) % d = 0
         /\ x <= alignUp(x, d) /\ alignUp(x, d) < x + d
<1> DEFINE y == x + d - 1
           q == y \div d
<1>1. /\ y \in Nat /\ q \in Nat /\ y = d * q + (y % d) /\ y % d \in 0 .. d - 1
  BY Z3
<1>2. q * d = d * q /\ d * q \in Nat
  BY <1>1, Z3
<1>3. x <= d * q /\ d * q < x + d
  BY <1>1
<1>4. alignUp(x, d) = d * q
  BY <1>2 DEF alignUp
<1>5. \A k \in Int : (d * k) % d = 0
  BY ProductIsMultiple
<1>6. q \in Int
  BY <1>1
<1> HIDE DEF q
<1>7. (d * q) % d = 0
  BY <1>5, <1>6
<1> QED
  BY <1>2, <1>3, <1>4, <1>7

(* Quotient and remainder are unique.                                       *)
LEMMA DivUnique ==
  ASSUME NEW d \in Nat \ {0}, NEW q \in Int, NEW r \in 0 .. d - 1,
         NEW x \in Int, x = d * q + r
  PROVE  x \div d = q /\ x % d = r
<1> DEFINE p == x \div d
           s == x % d
<1>1. x = d * p + s /\ p \in Int /\ s \in 0 .. d - 1
  BY Z3
<1>2. \A m, n \in Int : d * (m - n) = d * m - d * n /\ d * m \in Int
  BY Z3
<1> HIDE DEF p, s
<1>3. d * (p - q) = r - s /\ d * (q - p) = s - r
  BY <1>1, <1>2
<1>4. p - q \in Int /\ q - p \in Int
  BY <1>1
<1>5. p = q
  <2>1. CASE r >= s
    <3>1. r - s \in 0 .. d - 1
      BY <1>1, <2>1
    <3>2. r - s = 0
      BY <1>3, <1>4, <3>1, SmallMultiple
    <3>3. \A k \in Int : d * k = 0 => k = 0
      BY Z3
    <3> QED
      BY <1>1, <1>3, <1>4, <3>2, <3>3
  <2>2. CASE r < s
    <3>1. s - r \in 0 .. d - 1
      BY <1>1, <2>2
    <3>2. s - r = 0
      BY <1>3, <1>4, <3>1, SmallMultiple
    <3> QED
      BY <1>1, <2>2, <3>2
  <2> QED
    BY <1>1, <2>1, <2>2
<1>6. s = r
  BY <1>1, <1>2, <1>5
<1> QED
  BY <1>5, <1>6 DEF p, s

(* Dividing by a product is dividing twice.                                 *)
LEMMA DivDiv ==
  ASSUME NEW a \in Nat \ {0}, NEW b \in Nat \ {0}, NEW x \in Nat
  PROVE  a * b \in Nat \ {0} /\ x \div (a * b) = (x \div a) \div b
<1> DEFINE q == x \div a
           r == x % a
           p == q \div b
           s == q % b
<1>1. x = a * q + r /\ q \in Int /\ r \in 0 .. a - 1
  BY Z3
<1>2. \A y \in Int : y = b * (y \div b) + (y % b) /\ y \div b \in Int /\ y % b \in 0 .. b - 1
  BY Z3
<1>3. q = b * p + s /\ p \in Int /\ s \in 0 .. b - 1
  BY <1>1, <1>2
<1> HIDE DEF q, r, p, s
<1>4. a * b \in Nat \ {0}
  BY Z3
<1>5. \A m, n \in Int : a * (b * m + n) = (a * b) * m + a * n /\ a * n \in Int
  BY Z3
<1>6. x = (a * b) * p + (a * s + r)
  <2>1. a * q = (a * b) * p + a * s
    BY <1>3, <1>5
  <2>2. (a * b) * p \in Int /\ a * s \in Int
    BY <1>3, <1>4, Z3
  <2> QED
    BY <1>1, <2>1, <2>2
<1>7. a * s + r \in 0 .. a * b - 1
  <2>1. \A n \in 0 .. b - 1 : 0 <= a * n /\ a * n <= a * b - a
    BY Z3
  <2> QED
    BY <1>1, <1>3, <1>4, <1>5, <2>1
<1>8. x \div (a * b) = p
  BY <1>3, <1>4, <1>6, <1>7, DivUnique
<1> QED
  BY <1>4, <1>8 DEF p, q

(* The quotient of a number below a product.                                *)
LEMMA DivBound ==
  ASSUME NEW a \in Nat \ {0}, NEW b \in Nat \ {0}, NEW x \in Nat, x < a * b
  PROVE  x \div a \in 0 .. b - 1
<1>1. x = a * (x \div a) + (x % a) /\ x \div a \in Int /\ x % a \in 0 .. a - 1
  BY Z3
<1>2. \A q \in Int : q >= b => a * q >= a * b
  BY Z3
<1>3. \A q \in Int : q <= -1 => a * q <= -a
  BY Z3
<1>4. a * (x \div a) \in Int /\ a * b \in Int
  BY <1>1, Z3
<1> QED
  BY <1>1, <1>2, <1>3, <1>4

(* Two multiples are a multiple apart.                                      *)
LEMMA Apart ==
  ASSUME NEW d \in Nat \ {0}, NEW x \in Int, NEW y \in Int, x % d = 0, y % d = 0, x < y
  PROVE  x + d <= y
<1>1. (y - x) % d = 0
  BY Multiples
<1>2. y - x = d * ((y - x) \div d) + ((y - x) % d) /\ (y - x) \div d \in Int
  BY Z3
<1>3. \A q \in Int : d * q \in Int /\ (q <= 0 => d * q <= 0) /\ (q >= 1 => d * q >= d)
  BY Z3
<1> QED
  BY <1>1, <1>2, <1>3

(* The indices are the digits of the page number.                           *)
LEMMA Digits ==
  ASSUME NEW v \in 0 .. VirtualSize - 1,
         NEW n4, n4 = v \div PAGE_SIZE, NEW n3, n3 = n4 \div PAGE_ENTRIES,
         NEW n2, n2 = n3 \div PAGE_ENTRIES, NEW n1, n1 = n2 \div PAGE_ENTRIES
  PROVE  /\ v \in Nat /\ n4 \in Nat /\ n3 \in Nat /\ n2 \in Nat /\ n1 \in Nat
         /\ Index(v, 4) = n4 % PAGE_ENTRIES
         /\ Index(v, 3) = n3 % PAGE_ENTRIES
         /\ Index(v, 2) = n2 % PAGE_ENTRIES
         /\ Index(v, 1) = n1 /\ n1 \in Slots
<1> DEFINE P == PAGE_SIZE
           e == PAGE_ENTRIES
           e2 == e * e
           e3 == e * e * e
           e4 == e3 * e
<1>1. P \in Nat \ {0} /\ e \in Nat \ {0}
  BY GeometryAssumption
<1>2. \A a, b \in Nat \ {0} : a * b \in Nat \ {0}
  BY Z3
<1>3. e2 \in Nat \ {0} /\ e3 \in Nat \ {0} /\ e4 \in Nat \ {0}
  <2>1. e2 \in Nat \ {0}
    BY <1>1, <1>2
  <2>2. e3 \in Nat \ {0}
    BY <1>1, <1>2, <2>1
  <2>3. e4 \in Nat \ {0}
    BY <1>1, <1>2, <2>2
  <2> QED
    BY <2>1, <2>2, <2>3
<1>4. VirtualSize = P * e4
  <2>1. \A a, b, c \in Int : (a * b) * c = a * (b * c) /\ a * b \in Int
    BY Z3
  <2>2. P * e * e * e * e = P * (e * (e * (e * e)))
    BY <1>1, <2>1
  <2>3. e * e * e * e = e * (e * (e * e))
    BY <1>1, <2>1
  <2> QED
    BY <2>2, <2>3 DEF VirtualSize
<1>5. v \in Nat /\ v < P * e4
  BY <1>1, <1>3, <1>4, Z3
<1>6. \A x \in Nat : x \div P \in Nat /\ x \div e \in Nat
  BY <1>1, Z3
<1>7. n4 \in Nat /\ n3 \in Nat /\ n2 \in Nat /\ n1 \in Nat
  BY <1>5, <1>6
<1>8. n4 < e4
  <2>1. n4 \in 0 .. e4 - 1
    BY <1>1, <1>3, <1>5, DivBound
  <2> QED
    BY <1>3, <2>1
<1>9. n4 \div e2 = n2
  BY <1>1, <1>7, DivDiv
<1>10. n4 \div e3 = n1
  BY <1>1, <1>3, <1>7, <1>9, DivDiv
<1>11. n1 \in 0 .. e - 1
  BY <1>1, <1>3, <1>7, <1>8, <1>10, DivBound
<1>12. n1 % e = n1
  <2>1. e * 0 = 0
    BY <1>1, Z3
  <2> HIDE DEF e
  <2>2. n1 = e * 0 + n1 /\ 0 \in Int /\ n1 \in Int
    BY <1>7, <2>1
  <2> QED
    BY <1>1, <1>11, <2>2, DivUnique
<1>13. /\ Index(v, 4) = n4 % e
       /\ Index(v, 3) = n3 % e
       /\ Index(v, 2) = (n4 \div e2) % e
       /\ Index(v, 1) = (n4 \div e3) % e
  BY DEF Index
<1> QED
  BY <1>5, <1>7, <1>9, <1>10, <1>11, <1>12, <1>13 DEF Slots

(* Every index is that of an entry.                                         *)
LEMMA IndexFacts ==
  ASSUME NEW v \in 0 .. VirtualSize - 1
  PROVE  /\ v \in Nat
         /\ \A l \in 1 .. 4 : Index(v, l) \in Slots
<1> DEFINE n4 == v \div PAGE_SIZE
           n3 == n4 \div PAGE_ENTRIES
           n2 == n3 \div PAGE_ENTRIES
           n1 == n2 \div PAGE_ENTRIES
<1>1. /\ v \in Nat /\ n4 \in Nat /\ n3 \in Nat /\ n2 \in Nat /\ n1 \in Nat
      /\ Index(v, 4) = n4 % PAGE_ENTRIES
      /\ Index(v, 3) = n3 % PAGE_ENTRIES
      /\ Index(v, 2) = n2 % PAGE_ENTRIES
      /\ Index(v, 1) = n1 /\ n1 \in Slots
  BY Digits
<1> HIDE DEF n4, n3, n2, n1
<1>2. \A n \in Nat : n % PAGE_ENTRIES \in Slots
  BY GeometryAssumption, Z3 DEF Slots
<1>3. Index(v, 1) \in Slots /\ Index(v, 2) \in Slots /\ Index(v, 3) \in Slots /\ Index(v, 4) \in Slots
  BY <1>1, <1>2
<1>4. 1 .. 4 = {1, 2, 3, 4}
  OBVIOUS
<1> QED
  BY <1>1, <1>3, <1>4

(* Pages with the same four indices are the same page.                       *)
LEMMA SameIndex ==
  ASSUME NEW u \in Pages, NEW v \in Pages,
         Index(u, 1) = Index(v, 1), Index(u, 2) = Index(v, 2),
         Index(u, 3) = Index(v, 3), Index(u, 4) = Index(v, 4)
  PROVE  u = v
<1> DEFINE m4 == u \div PAGE_SIZE
           m3 == m4 \div PAGE_ENTRIES
           m2 == m3 \div PAGE_ENTRIES
           m1 == m2 \div PAGE_ENTRIES
           n4 == v \div PAGE_SIZE
           n3 == n4 \div PAGE_ENTRIES
           n2 == n3 \div PAGE_ENTRIES
           n1 == n2 \div PAGE_ENTRIES
<1>1. u \in 0 .. VirtualSize - 1 /\ v \in 0 .. VirtualSize - 1
  BY DEF Pages
<1>2. /\ u \in Nat /\ m4 \in Nat /\ m3 \in Nat /\ m2 \in Nat /\ m1 \in Nat
      /\ Index(u, 4) = m4 % PAGE_ENTRIES
      /\ Index(u, 3) = m3 % PAGE_ENTRIES
      /\ Index(u, 2) = m2 % PAGE_ENTRIES
      /\ Index(u, 1) = m1 /\ m1 \in Slots
  BY <1>1, Digits
<1>3. /\ v \in Nat /\ n4 \in Nat /\ n3 \in Nat /\ n2 \in Nat /\ n1 \in Nat
      /\ Index(v, 4) = n4 % PAGE_ENTRIES
      /\ Index(v, 3) = n3 % PAGE_ENTRIES
      /\ Index(v, 2) = n2 % PAGE_ENTRIES
      /\ Index(v, 1) = n1 /\ n1 \in Slots
  BY <1>1, Digits
<1>4. \A x \in Nat : x = PAGE_ENTRIES * (x \div PAGE_ENTRIES) + (x % PAGE_ENTRIES)
  BY GeometryAssumption, Z3
<1>5. \A x \in Nat : x = PAGE_SIZE * (x \div PAGE_SIZE) + (x % PAGE_SIZE)
  BY GeometryAssumption, Z3
<1>6. m2 = n2
  BY <1>2, <1>3, <1>4
<1>7. m3 = n3
  BY <1>2, <1>3, <1>4, <1>6
<1>8. m4 = n4
  BY <1>2, <1>3, <1>4, <1>7
<1>9. u % PAGE_SIZE = v % PAGE_SIZE
  BY DEF Pages
<1> QED
  BY <1>2, <1>3, <1>5, <1>8, <1>9

(* The bytes of a page have its indices.                                    *)
LEMMA SamePageIndex ==
  ASSUME NEW v \in Nat, v % PAGE_SIZE = 0, NEW r \in 0 .. PAGE_SIZE - 1, NEW l
  PROVE  Index(v + r, l) = Index(v, l) /\ (v + r) % PAGE_SIZE = r
<1>1. v = PAGE_SIZE * (v \div PAGE_SIZE) + (v % PAGE_SIZE) /\ v \div PAGE_SIZE \in Int
  BY GeometryAssumption, Z3
<1> DEFINE q == v \div PAGE_SIZE
<1>2. PAGE_SIZE * q \in Int
  BY <1>1, GeometryAssumption, Z3
<1>3. v + r = PAGE_SIZE * q + r /\ v + r \in Int /\ q \in Int
  BY <1>1, <1>2
<1> HIDE DEF q
<1>4. (v + r) \div PAGE_SIZE = q /\ (v + r) % PAGE_SIZE = r
  BY <1>3, GeometryAssumption, DivUnique
<1> QED
  BY <1>4 DEF Index, q
-----------------------------------------------------------------------------
(* Walks *)

OnWay(T, t, l) == t # NONE => t \in DOMAIN T /\ T[t].level = l

(* A level down from a table of level l, and with what entry it ends.       *)
LEMMA DownFacts ==
  ASSUME NEW T, Typed(T), Levelled(T), NEW t, NEW l \in 1 .. 4, OnWay(T, t, l),
         NEW i \in Slots
  PROVE  /\ l < 4 => OnWay(T, Down(T, t, i), l + 1)
         /\ Down(T, t, i) \in Pointer
<1>1. CASE t = NONE
  BY <1>1 DEF Down, OnWay, Pointer
<1>2. CASE t # NONE
  <2>1. t \in DOMAIN T /\ T[t].level = l
    BY <1>2 DEF OnWay
  <2>2. T[t].ent[i] \in Pointer
    BY <2>1 DEF Typed
  <2>3. l < 4 => OnWay(T, T[t].ent[i], l + 1)
    BY <2>1 DEF Levelled, OnWay
  <2> QED
    BY <1>2, <2>2, <2>3 DEF Down
<1> QED
  BY <1>1, <1>2

(* A walk comes through one table of each level.                            *)
LEMMA WalkFacts ==
  ASSUME NEW T, Typed(T), Levelled(T), NEW v \in 0 .. VirtualSize - 1
  PROVE  /\ Root # NONE /\ OnWay(T, Root, 1)
         /\ OnWay(T, W2(T, v), 2) /\ OnWay(T, W3(T, v), 3) /\ OnWay(T, W4(T, v), 4)
         /\ W5(T, v) \in Pointer
<1>1. \A l \in 1 .. 4 : Index(v, l) \in Slots
  BY IndexFacts
<1>2. Root # NONE /\ OnWay(T, Root, 1)
  BY FrameAssumption DEF Typed, OnWay, NONE
<1>3. OnWay(T, W2(T, v), 2)
  BY <1>1, <1>2, DownFacts DEF W2
<1>4. OnWay(T, W3(T, v), 3)
  BY <1>1, <1>3, DownFacts DEF W3
<1>5. OnWay(T, W4(T, v), 4)
  BY <1>1, <1>4, DownFacts DEF W4
<1>6. W5(T, v) \in Pointer
  BY <1>1, <1>5, DownFacts DEF W5
<1> QED
  BY <1>2, <1>3, <1>4, <1>5, <1>6

(* A table has one way that leads to it.                                    *)
LEMMA DownOnce ==
  ASSUME NEW T, OneParent(T), NEW l \in 1 .. 3, NEW t, NEW u,
         OnWay(T, t, l), OnWay(T, u, l), NEW i \in Slots, NEW j \in Slots,
         Down(T, t, i) # NONE, Down(T, t, i) = Down(T, u, j)
  PROVE  t # NONE /\ t = u /\ i = j
<1>1. t # NONE /\ u # NONE
  BY DEF Down
<1>2. /\ t \in DOMAIN T /\ T[t].level < 4 /\ u \in DOMAIN T /\ T[u].level < 4
      /\ T[t].ent[i] # NONE /\ T[t].ent[i] = T[u].ent[j]
  BY <1>1 DEF OnWay, Down
<1> QED
  BY <1>1, <1>2 DEF OneParent

(* Two pages have the same entry of the same last table only if they are    *)
(* one.                                                                     *)
LEMMA SamePath ==
  ASSUME NEW T, TreeOK(T), NEW u \in Pages, NEW v \in Pages,
         W4(T, u) # NONE, W4(T, u) = W4(T, v), Index(u, 4) = Index(v, 4)
  PROVE  u = v
<1>0. u \in 0 .. VirtualSize - 1 /\ v \in 0 .. VirtualSize - 1
  BY DEF Pages
<1>1. \A l \in 1 .. 4 : Index(u, l) \in Slots /\ Index(v, l) \in Slots
  BY <1>0, IndexFacts
<1>2. Typed(T) /\ Levelled(T) /\ OneParent(T)
  BY DEF TreeOK
<1>3. OnWay(T, Root, 1) /\ OnWay(T, W2(T, u), 2) /\ OnWay(T, W3(T, u), 3)
  BY <1>0, <1>2, WalkFacts
<1>4. OnWay(T, Root, 1) /\ OnWay(T, W2(T, v), 2) /\ OnWay(T, W3(T, v), 3)
  BY <1>0, <1>2, WalkFacts
<1>5. W3(T, u) # NONE /\ W3(T, u) = W3(T, v) /\ Index(u, 3) = Index(v, 3)
  BY <1>1, <1>2, <1>3, <1>4, DownOnce DEF W4
<1>6. W2(T, u) # NONE /\ W2(T, u) = W2(T, v) /\ Index(u, 2) = Index(v, 2)
  BY <1>1, <1>2, <1>3, <1>4, <1>5, DownOnce DEF W3
<1>7. Index(u, 1) = Index(v, 1)
  BY <1>1, <1>2, <1>3, <1>4, <1>6, DownOnce DEF W2
<1> QED
  BY <1>5, <1>6, <1>7, SameIndex

(* T2 is T with x in entry i of table t.                                    *)
LeafSet(T, T2, t, i, x) ==
  /\ DOMAIN T2 = DOMAIN T
  /\ T2[t].ent[i] = x
  /\ \A s \in DOMAIN T :
       /\ T2[s].level = T[s].level
       /\ \A j \in Slots : s # t \/ j # i => T2[s].ent[j] = T[s].ent[j]

(* What SetEntry writes.                                                    *)
LEMMA SetEntryFacts ==
  ASSUME NEW T, Typed(T), NEW t \in DOMAIN T, NEW i \in Slots, NEW x \in Pointer,
         NEW T2, T2 = [T EXCEPT ![t].ent[i] = x]
  PROVE  LeafSet(T, T2, t, i, x) /\ Typed(T2)
<1>1. DOMAIN T2 = DOMAIN T
  OBVIOUS
<1>2. T2[t] = [T[t] EXCEPT !.ent[i] = x] /\ \A s \in DOMAIN T \ {t} : T2[s] = T[s]
  OBVIOUS
<1>3. \A s \in DOMAIN T : T[s] \in [level : 1 .. 4, ent : [Slots -> Pointer]]
  BY DEF Typed
<1>4. T2[t].level = T[t].level /\ T2[t].ent = [T[t].ent EXCEPT ![i] = x]
  BY <1>2, <1>3
<1>5. \A s \in DOMAIN T2 : T2[s] \in [level : 1 .. 4, ent : [Slots -> Pointer]]
  BY <1>1, <1>2, <1>3
<1>6. T2 = [s \in DOMAIN T2 |-> T2[s]]
  OBVIOUS
<1>7. Typed(T2)
  BY <1>1, <1>2, <1>4, <1>5, <1>6 DEF Typed
<1>8. LeafSet(T, T2, t, i, x)
  <2>1. \A j \in Slots : T2[t].ent[j] = IF j = i THEN x ELSE T[t].ent[j]
    BY <1>3, <1>4
  <2> QED
    BY <1>1, <1>2, <1>4, <2>1 DEF LeafSet
<1> QED
  BY <1>7, <1>8

(* A leaf written leaves the tree as it was.                                *)
LEMMA LeafTree ==
  ASSUME NEW T, TreeOK(T), NEW t \in DOMAIN T, T[t].level = 4, NEW i \in Slots,
         NEW x \in Pointer, NEW T2, LeafSet(T, T2, t, i, x), Typed(T2)
  PROVE  TreeOK(T2)
<1>1. /\ DOMAIN T2 = DOMAIN T
      /\ \A s \in DOMAIN T : T2[s].level = T[s].level
      /\ \A s \in DOMAIN T, j \in Slots : T[s].level < 4 => T2[s].ent[j] = T[s].ent[j]
  BY DEF LeafSet
<1>2. Levelled(T2)
  BY <1>1 DEF TreeOK, Levelled
<1>3. OneParent(T2)
  BY <1>1 DEF TreeOK, OneParent
<1>4. NoneLost(T2)
  BY <1>1 DEF TreeOK, NoneLost
<1> QED
  BY <1>2, <1>3, <1>4 DEF TreeOK

(* And every walk comes to the same leaf.                                   *)
LEMMA LeafNodes ==
  ASSUME NEW T, TreeOK(T), NEW t \in DOMAIN T, T[t].level = 4, NEW i \in Slots,
         NEW x \in Pointer, NEW T2, LeafSet(T, T2, t, i, x),
         NEW u \in 0 .. VirtualSize - 1
  PROVE  W2(T2, u) = W2(T, u) /\ W3(T2, u) = W3(T, u) /\ W4(T2, u) = W4(T, u)
<1>1. \A l \in 1 .. 4 : Index(u, l) \in Slots
  BY IndexFacts
<1>2. \A s, j : OnWay(T, s, 1) \/ OnWay(T, s, 2) \/ OnWay(T, s, 3) =>
        (j \in Slots => Down(T2, s, j) = Down(T, s, j))
  BY DEF OnWay, Down, LeafSet
<1>3. OnWay(T, Root, 1) /\ OnWay(T, W2(T, u), 2) /\ OnWay(T, W3(T, u), 3)
  BY WalkFacts DEF TreeOK
<1>4. W2(T2, u) = W2(T, u)
  BY <1>1, <1>2, <1>3 DEF W2
<1>5. W3(T2, u) = W3(T, u)
  BY <1>1, <1>2, <1>3, <1>4 DEF W3
<1>6. W4(T2, u) = W4(T, u)
  BY <1>1, <1>2, <1>3, <1>5 DEF W4
<1> QED
  BY <1>4, <1>5, <1>6

(* So only the page the entry is for is affected.                           *)
LEMMA LeafWalks ==
  ASSUME NEW T, TreeOK(T), NEW v \in Pages, NEW t, t # NONE, t = W4(T, v),
         NEW i, i = Index(v, 4),
         NEW x \in Pointer, NEW T2, LeafSet(T, T2, t, i, x),
         NEW u \in Pages
  PROVE  W5(T2, u) = IF u = v THEN x ELSE W5(T, u)
<1>0. v \in 0 .. VirtualSize - 1 /\ u \in 0 .. VirtualSize - 1
  BY DEF Pages
<1>1. OnWay(T, t, 4) /\ i \in Slots /\ Index(u, 4) \in Slots /\ OnWay(T, W4(T, u), 4)
  BY <1>0, WalkFacts, IndexFacts DEF TreeOK
<1>2. t \in DOMAIN T /\ T[t].level = 4
  BY <1>1 DEF OnWay
<1>3. W4(T2, u) = W4(T, u)
  BY <1>0, <1>1, <1>2, LeafNodes
<1>4. CASE u = v
  BY <1>2, <1>3, <1>4 DEF W5, Down, LeafSet
<1>5. CASE u # v
  <2>1. CASE W4(T, u) = NONE
    BY <1>3, <1>5, <2>1 DEF W5, Down
  <2>2. CASE W4(T, u) # NONE
    <3>1. W4(T, u) # t \/ Index(u, 4) # i
      BY <1>5, <2>2, SamePath
    <3>2. W4(T, u) \in DOMAIN T
      BY <1>1, <2>2 DEF OnWay
    <3> QED
      BY <1>1, <1>3, <1>5, <2>2, <3>1, <3>2 DEF W5, Down, LeafSet
  <2> QED
    BY <2>1, <2>2
<1> QED
  BY <1>4, <1>5

(* T2 is T with a new table f that entry i of table t points to.            *)
TableLinked(T, T2, t, i, f) ==
  /\ DOMAIN T2 = DOMAIN T \cup {f}
  /\ T2[f].level = T[t].level + 1
  /\ \A j \in Slots : T2[f].ent[j] = NONE
  /\ T2[t].ent[i] = f
  /\ \A s \in DOMAIN T :
       /\ T2[s].level = T[s].level
       /\ \A j \in Slots : s # t \/ j # i => T2[s].ent[j] = T[s].ent[j]

(* A new table leaves the tree a tree.                                      *)
LEMMA LinkTree ==
  ASSUME NEW T, TreeOK(T), NEW t \in DOMAIN T, T[t].level < 4, NEW i \in Slots,
         T[t].ent[i] = NONE, NONE \notin DOMAIN T, NEW f, f \notin DOMAIN T, f # NONE,
         NEW T2, TableLinked(T, T2, t, i, f), Typed(T2)
  PROVE  TreeOK(T2)
<1>1. Levelled(T2)
  <2> SUFFICES ASSUME NEW s \in DOMAIN T2, NEW j \in Slots,
                      T2[s].level < 4, T2[s].ent[j] # NONE
               PROVE  /\ T2[s].ent[j] \in DOMAIN T2 \ {Root}
                      /\ T2[T2[s].ent[j]].level = T2[s].level + 1
    BY DEF Levelled
  <2>1. s # f /\ s \in DOMAIN T
    BY DEF TableLinked
  <2>2. CASE s = t /\ j = i
    <3>1. f # Root
      BY DEF TreeOK, Typed
    <3> QED
      BY <2>1, <2>2, <3>1 DEF TableLinked
  <2>3. CASE s # t \/ j # i
    <3>1. T2[s].ent[j] = T[s].ent[j] /\ T2[s].level = T[s].level
      BY <2>1, <2>3 DEF TableLinked
    <3>2. T[s].ent[j] \in DOMAIN T \ {Root} /\ T[T[s].ent[j]].level = T[s].level + 1
      BY <2>1, <3>1 DEF TreeOK, Levelled
    <3> QED
      BY <2>1, <3>1, <3>2 DEF TableLinked
  <2> QED
    BY <2>2, <2>3
<1>2. OneParent(T2)
  <2> SUFFICES ASSUME NEW s \in DOMAIN T2, NEW u \in DOMAIN T2,
                      NEW j \in Slots, NEW k \in Slots,
                      T2[s].level < 4, T2[u].level < 4,
                      T2[s].ent[j] # NONE, T2[s].ent[j] = T2[u].ent[k]
               PROVE  s = u /\ j = k
    BY DEF OneParent
  <2>1. s \in DOMAIN T /\ u \in DOMAIN T /\ T[s].level < 4 /\ T[u].level < 4
    BY DEF TableLinked
  <2>2. \A r \in DOMAIN T, m \in Slots : T[r].level < 4 => T[r].ent[m] # f
    BY DEF TreeOK, Levelled
  <2>3. \A r \in DOMAIN T, m \in Slots :
          r # t \/ m # i => T2[r].ent[m] = T[r].ent[m]
    BY DEF TableLinked
  <2>4. T2[t].ent[i] = f
    BY DEF TableLinked
  <2>5. CASE s = t /\ j = i
    <3>1. T2[u].ent[k] = f
      BY <2>4, <2>5
    <3> QED
      BY <2>1, <2>2, <2>3, <2>5, <3>1
  <2>7. CASE u = t /\ k = i
    <3>1. T2[s].ent[j] = f
      BY <2>4, <2>7
    <3> QED
      BY <2>1, <2>2, <2>3, <2>7, <3>1
  <2>6. CASE ~(s = t /\ j = i) /\ ~(u = t /\ k = i)
    <3>1. T2[s].ent[j] = T[s].ent[j] /\ T2[u].ent[k] = T[u].ent[k]
      BY <2>1, <2>3, <2>6
    <3>2. T[s].ent[j] # NONE /\ T[s].ent[j] = T[u].ent[k]
      BY <3>1
    <3>3. OneParent(T)
      BY DEF TreeOK
    <3> QED
      BY <2>1, <3>2, <3>3 DEF OneParent
  <2> QED
    BY <2>5, <2>6, <2>7
<1>3. NoneLost(T2)
  <2> SUFFICES ASSUME NEW s \in DOMAIN T2 \ {Root}
               PROVE  \E u \in DOMAIN T2, j \in Slots : T2[u].level < 4 /\ T2[u].ent[j] = s
    BY DEF NoneLost
  <2>1. CASE s = f
    BY <2>1 DEF TableLinked
  <2>2. CASE s # f
    <3>1. s \in DOMAIN T \ {Root}
      BY <2>2 DEF TableLinked
    <3>2. PICK u \in DOMAIN T, j \in Slots : T[u].level < 4 /\ T[u].ent[j] = s
      BY <3>1 DEF TreeOK, NoneLost
    <3>3. s # NONE
      BY <3>1
    <3>4. u # t \/ j # i
      BY <3>2, <3>3
    <3> QED
      BY <3>2, <3>4 DEF TableLinked
  <2> QED
    BY <2>1, <2>2
<1> QED
  BY <1>1, <1>2, <1>3 DEF TreeOK

(* Where walks are in the new tables and in the old: in the same table, or  *)
(* in the new one, where there was none.                                    *)
Near(x, y, f) == (x = y /\ x # f) \/ (x \in {f, NONE} /\ y = NONE)

(* A level down from there.                                                 *)
LEMMA NearDown ==
  ASSUME NEW T, TreeOK(T), NEW t \in DOMAIN T, T[t].level < 4, NEW i \in Slots,
         T[t].ent[i] = NONE, NEW f, f \notin DOMAIN T, f # NONE,
         NEW T2, TableLinked(T, T2, t, i, f),
         NEW l \in 1 .. 3, NEW x, NEW y, Near(x, y, f), OnWay(T, y, l), NEW j \in Slots
  PROVE  Near(Down(T2, x, j), Down(T, y, j), f)
<1>1. CASE y = NONE
  BY <1>1 DEF Near, Down, TableLinked
<1>2. CASE y # NONE
  <2>1. x = y /\ y \in DOMAIN T /\ T[y].level < 4
    BY <1>2 DEF Near, OnWay
  <2>2. Down(T, y, j) = T[y].ent[j] /\ Down(T2, x, j) = T2[y].ent[j]
    BY <1>2, <2>1 DEF Down
  <2>3. T[y].ent[j] # f
    BY <2>1 DEF TreeOK, Levelled
  <2>4. CASE y = t /\ j = i
    BY <2>2, <2>4 DEF TableLinked, Near
  <2>5. CASE y # t \/ j # i
    <3>1. T2[y].ent[j] = T[y].ent[j]
      BY <2>1, <2>5 DEF TableLinked
    <3> QED
      BY <2>2, <2>3, <3>1 DEF Near
  <2> QED
    BY <2>4, <2>5
<1> QED
  BY <1>1, <1>2

(* A new table maps nothing and hides nothing.                              *)
LEMMA LinkWalks ==
  ASSUME NEW T, TreeOK(T), NEW t \in DOMAIN T, T[t].level < 4, NEW i \in Slots,
         T[t].ent[i] = NONE, NEW f, f \notin DOMAIN T, f # NONE,
         NEW T2, TableLinked(T, T2, t, i, f), NEW u \in 0 .. VirtualSize - 1
  PROVE  /\ Near(W2(T2, u), W2(T, u), f)
         /\ Near(W3(T2, u), W3(T, u), f)
         /\ Near(W4(T2, u), W4(T, u), f)
         /\ W5(T2, u) = W5(T, u)
<1>1. \A l \in 1 .. 4 : Index(u, l) \in Slots
  BY IndexFacts
<1>2. /\ OnWay(T, Root, 1) /\ OnWay(T, W2(T, u), 2)
      /\ OnWay(T, W3(T, u), 3) /\ OnWay(T, W4(T, u), 4)
  BY WalkFacts DEF TreeOK
<1>3. Near(Root, Root, f)
  BY DEF Near, TreeOK, Typed
<1>4. Near(W2(T2, u), W2(T, u), f)
  BY <1>1, <1>2, <1>3, NearDown DEF W2
<1>5. Near(W3(T2, u), W3(T, u), f)
  BY <1>1, <1>2, <1>4, NearDown DEF W3
<1>6. Near(W4(T2, u), W4(T, u), f)
  BY <1>1, <1>2, <1>5, NearDown DEF W4
<1>7. W5(T2, u) = W5(T, u)
  <2>1. CASE W4(T, u) = NONE
    <3>1. W4(T2, u) \in {f, NONE}
      BY <1>6, <2>1 DEF Near
    <3> QED
      BY <1>1, <2>1, <3>1 DEF W5, Down, TableLinked
  <2>2. CASE W4(T, u) # NONE
    <3>1. W4(T2, u) = W4(T, u) /\ W4(T, u) # t /\ W4(T, u) \in DOMAIN T
      BY <1>2, <1>6, <2>2 DEF Near, OnWay
    <3> QED
      BY <1>1, <2>2, <3>1 DEF W5, Down, TableLinked
  <2> QED
    BY <2>1, <2>2
<1> QED
  BY <1>4, <1>5, <1>6, <1>7

(* The walk that needed the table goes on in it.                            *)
LEMMA LinkNode ==
  ASSUME NEW T, TreeOK(T), NEW t \in DOMAIN T, NEW l \in 1 .. 3, T[t].level < 4,
         NEW u \in 0 .. VirtualSize - 1, t = Node(T, u, l),
         NEW i, i = Index(u, l), T[t].ent[i] = NONE,
         NEW f, f \notin DOMAIN T, f # NONE, NONE \notin DOMAIN T,
         NEW T2, TableLinked(T, T2, t, i, f)
  PROVE  Node(T2, u, l + 1) = f
<1>1. i \in Slots
  BY IndexFacts
<1>2. /\ Near(W2(T2, u), W2(T, u), f)
      /\ Near(W3(T2, u), W3(T, u), f)
  BY <1>1, LinkWalks
<1>3. t # NONE
  OBVIOUS
<1>4. Down(T2, t, i) = f
  BY <1>3 DEF Down, TableLinked
<1>5. CASE l = 1
  BY <1>4, <1>5 DEF Node, W2
<1>6. CASE l = 2
  BY <1>2, <1>3, <1>4, <1>6 DEF Node, W3, Near
<1>7. CASE l = 3
  BY <1>2, <1>3, <1>4, <1>7 DEF Node, W4, Near
<1> QED
  BY <1>5, <1>6, <1>7

(* What LinkedTo makes.                                                     *)
LEMMA LinkedFacts ==
  ASSUME Typed(tables), NEW f \in Nat, f \notin DOMAIN tables,
         call.table \in DOMAIN tables, call.level = tables[call.table].level,
         call.level < 4, Slot \in Slots,
         NEW T2, T2 = LinkedTo(f)
  PROVE  TableLinked(tables, T2, call.table, Slot, f) /\ Typed(T2)
<1> DEFINE S == SetEntry(f)
<1>1. f \in Pointer
  BY DEF Pointer
<1>2. LeafSet(tables, S, call.table, Slot, f) /\ Typed(S)
  BY <1>1, SetEntryFacts DEF SetEntry
<1>3. /\ DOMAIN T2 = DOMAIN tables \cup {f}
      /\ T2[f] = [level |-> call.level + 1, ent |-> EmptyTable]
      /\ \A s \in DOMAIN tables : T2[s] = S[s]
      /\ T2 = [s \in DOMAIN T2 |-> T2[s]]
  BY DEF LinkedTo
<1> HIDE DEF S
<1>4. EmptyTable \in [Slots -> Pointer] /\ \A j \in Slots : EmptyTable[j] = NONE
  BY DEF EmptyTable, Slots, Pointer
<1>5. \A s \in DOMAIN tables : S[s] \in [level : 1 .. 4, ent : [Slots -> Pointer]]
  BY <1>2 DEF Typed, LeafSet
<1>6. call.level \in 1 .. 4
  BY DEF Typed
<1>7. T2[f] \in [level : 1 .. 4, ent : [Slots -> Pointer]]
  BY <1>3, <1>4, <1>6
<1>8. Typed(T2)
  <2>1. \A s \in DOMAIN T2 : T2[s] \in [level : 1 .. 4, ent : [Slots -> Pointer]]
    BY <1>3, <1>5, <1>7
  <2>2. Root \in DOMAIN T2 /\ T2[Root].level = 1
    BY <1>2, <1>3 DEF Typed, LeafSet
  <2> QED
    BY <1>3, <2>1, <2>2 DEF Typed
<1>9. TableLinked(tables, T2, call.table, Slot, f)
  BY <1>2, <1>3, <1>4 DEF TableLinked, LeafSet
<1> QED
  BY <1>8, <1>9
-----------------------------------------------------------------------------
(* The addresses of a call *)

(* alignDown rounds down to a multiple.                                     *)
LEMMA AlignDownFacts ==
  ASSUME NEW d \in Nat \ {0}, NEW x \in Nat
  PROVE  /\ alignDown(x, d) \in Nat /\ alignDown(x, d) % d = 0
         /\ alignDown(x, d) <= x /\ x < alignDown(x, d) + d
<1> DEFINE q == x \div d
<1>1. x = d * q + (x % d) /\ q \in Int /\ x % d \in 0 .. d - 1 /\ q >= 0
  BY Z3
<1>2. d * q = q * d /\ d * q \in Int /\ d * q >= 0
  BY <1>1, Z3
<1>3. alignDown(x, d) = d * q
  BY <1>2 DEF alignDown
<1> HIDE DEF q
<1>4. (d * q) % d = 0
  BY <1>1, ProductIsMultiple
<1> QED
  BY <1>1, <1>2, <1>3, <1>4

(* Page i of a range.                                                       *)
LEMMA PageNumbers ==
  ASSUME NEW i \in Nat, NEW j \in Nat
  PROVE  /\ i * PAGE_SIZE \in Nat /\ (i * PAGE_SIZE) % PAGE_SIZE = 0
         /\ (i + 1) * PAGE_SIZE = i * PAGE_SIZE + PAGE_SIZE
         /\ i < j => i * PAGE_SIZE + PAGE_SIZE <= j * PAGE_SIZE
<1>1. /\ i * PAGE_SIZE \in Nat
      /\ (i + 1) * PAGE_SIZE = i * PAGE_SIZE + PAGE_SIZE
      /\ i * PAGE_SIZE = PAGE_SIZE * i
  BY GeometryAssumption, Z3
<1>2. (PAGE_SIZE * i) % PAGE_SIZE = 0
  BY GeometryAssumption, ProductIsMultiple
<1>3. \A p \in Nat \ {0} : i < j => (i + 1) * p <= j * p
  BY Z3
<1> QED
  BY <1>1, <1>2, <1>3, GeometryAssumption

(* Whole pages.                                                             *)
LEMMA WholePages ==
  ASSUME NEW x \in Nat \ {0}, x % PAGE_SIZE = 0
  PROVE  /\ x \div PAGE_SIZE \in Nat /\ 0 < x \div PAGE_SIZE
         /\ (x \div PAGE_SIZE) * PAGE_SIZE = x
<1> DEFINE q == x \div PAGE_SIZE
<1>1. x = PAGE_SIZE * q /\ q \in Int
  BY GeometryAssumption, Z3
<1>2. \A p \in Nat \ {0}, m \in Int : p * m = m * p /\ (m <= 0 => p * m <= 0)
  BY Z3
<1> HIDE DEF q
<1>3. q > 0 /\ q * PAGE_SIZE = x
  BY <1>1, <1>2, GeometryAssumption
<1> QED
  BY <1>1, <1>3 DEF q

(* The pages of a device.                                                   *)
LEMMA DevicePages ==
  ASSUME NEW d \in Devices,
         NEW b, b = alignDown(d.physical, PAGE_SIZE), NEW s, s = MappedSize(d)
  PROVE  /\ b \in Nat /\ b % PAGE_SIZE = 0 /\ b <= d.physical
         /\ d.physical < b + PAGE_SIZE
         /\ d.physical \in Nat /\ d.size \in Nat \ {0}
         /\ s \in Nat \ {0} /\ s % PAGE_SIZE = 0
         /\ d.physical - b + d.size <= s
         /\ \A f \in Frames : f < b \/ b + s < f + PAGE_SIZE
<1>1. /\ d.physical \in Nat /\ d.size \in Nat \ {0}
      /\ \A f \in Frames : f < b \/ d.physical + d.size <= f
  BY DeviceAssumption
<1>2. b \in Nat /\ b % PAGE_SIZE = 0 /\ b <= d.physical /\ d.physical < b + PAGE_SIZE
  BY <1>1, GeometryAssumption, AlignDownFacts
<1> DEFINE z == d.size + (d.physical - b)
<1>3. z \in Nat /\ z > 0
  BY <1>1, <1>2
<1>4. s = alignUp(z, PAGE_SIZE)
  BY DEF MappedSize
<1> HIDE DEF z
<1>5. s \in Nat /\ z <= s /\ s < z + PAGE_SIZE /\ s % PAGE_SIZE = 0
  BY <1>3, <1>4, GeometryAssumption, AlignUpFacts
<1>6. \A f \in Frames : f < b \/ b + s < f + PAGE_SIZE
  BY <1>1, <1>2, <1>5, FrameAssumption, GeometryAssumption DEF z
<1> QED
  BY <1>1, <1>2, <1>3, <1>5, <1>6 DEF z

(* The areas in numbers: the address space is a whole number of pages.      *)
LEMMA AreaFacts ==
  /\ MmioStart \in Nat /\ HeapStart \in Nat /\ VirtualSize \in Int
  /\ MmioStart <= HeapStart /\ HeapStart <= VirtualSize
  /\ VirtualSize % PAGE_SIZE = 0
<1>1. PICK k \in Int : k = PAGE_ENTRIES * PAGE_ENTRIES * PAGE_ENTRIES * PAGE_ENTRIES
  BY GeometryAssumption, Z3
<1>2. VirtualSize = PAGE_SIZE * k /\ PAGE_SIZE * k \in Int
  BY <1>1, GeometryAssumption, Z3 DEF VirtualSize
<1>3. (PAGE_SIZE * k) % PAGE_SIZE = 0
  BY <1>1, GeometryAssumption, ProductIsMultiple
<1> QED
  BY <1>2, <1>3, AreaAssumption

(* The flat map of the tables is the leaf a walk ends with.                 *)
LEMMA TranslationIsWalk ==
  /\ \A v : Translation(v) = W5(tables, v)
  /\ \A v : Translation(v)' = W5(tables', v)
<1>1. \A v : Translation(v) = W5(tables, v)
  BY DEF Translation, NextTable, W5, W4, W3, W2, Down
<1>2. \A v : Translation(v)' = W5(tables', v)
  BY DEF Translation, NextTable, W5, W4, W3, W2, Down, Index
<1> QED
  BY <1>1, <1>2

(* What is known of the walk in progress.                                   *)
WalkState ==
  /\ Virt \in Pages /\ Virt \in Nat /\ call.virt \in Nat /\ call.i \in Nat /\ call.pages \in Nat
  /\ call.virt <= Virt /\ Virt + PAGE_SIZE <= CallEnd /\ CallEnd <= VirtualSize /\ CallEnd \in Nat
  /\ Phys \in Nat /\ Phys % PAGE_SIZE = 0 /\ call.phys <= Phys
  /\ Slot = Index(Virt, call.level) /\ Slot \in Slots
  /\ call.table \in DOMAIN tables /\ call.table # NONE
  /\ call.table = Node(tables, Virt, call.level)
  /\ call.level \in 1 .. 4 /\ call.level = tables[call.table].level
  /\ Entry \in Pointer
  /\ Entry = NONE => Translation(Virt) = NONE
  /\ AtPte => Translation(Virt) = Entry /\ call.table = W4(tables, Virt)

(* Tables lie at addresses of frames.                                       *)
LEMMA TablesAreFrames ==
  ASSUME FramesAccounted
  PROVE  /\ DOMAIN tables \subseteq Frames /\ NONE \notin DOMAIN tables
         /\ free \subseteq Frames /\ held \subseteq Frames /\ Frames \subseteq Nat
         /\ \A f \in Frames : f # NONE
<1>1. DOMAIN tables \subseteq Frames /\ free \subseteq Frames /\ held \subseteq Frames
  BY DEF FramesAccounted
<1>2. \A f \in Frames : f \in Nat /\ f # NONE
  BY FrameAssumption DEF NONE
<1> QED
  BY <1>1, <1>2

(* The invariant says so.                                                   *)
LEMMA WalkStateHolds ==
  ASSUME VMInv, Walking
  PROVE  WalkState
<1>1. /\ call.virt \in Nat /\ call.phys \in Nat /\ call.pages \in Nat /\ call.i \in Nat
      /\ call.table \in DOMAIN tables /\ call.level \in 1 .. 4
      /\ call.level = tables[call.table].level
      /\ call.i < call.pages
      /\ call.virt % PAGE_SIZE = 0 /\ call.phys % PAGE_SIZE = 0
      /\ CallEnd <= VirtualSize
      /\ call.table = Node(tables, Virt, call.level)
  BY DEF VMInv, CallTypes, CallRecord
<1>2. /\ call.i * PAGE_SIZE \in Nat /\ (call.i * PAGE_SIZE) % PAGE_SIZE = 0
      /\ call.i * PAGE_SIZE + PAGE_SIZE <= call.pages * PAGE_SIZE
      /\ call.pages * PAGE_SIZE \in Nat
  BY <1>1, PageNumbers
<1>3. /\ Virt \in Nat /\ call.virt <= Virt /\ Virt + PAGE_SIZE <= CallEnd /\ CallEnd \in Nat
      /\ Phys \in Nat /\ call.phys <= Phys
  BY <1>1, <1>2, GeometryAssumption DEF Virt, Phys, CallEnd
<1>4. Virt % PAGE_SIZE = 0 /\ Phys % PAGE_SIZE = 0
  BY <1>1, <1>2, GeometryAssumption, Multiples DEF Virt, Phys
<1>5. VirtualSize \in Int
  BY GeometryAssumption, Z3 DEF VirtualSize
<1>6. Virt \in Pages /\ Virt \in 0 .. VirtualSize - 1
  BY <1>1, <1>3, <1>4, <1>5, GeometryAssumption DEF Pages
<1>7. Slot = Index(Virt, call.level) /\ Slot \in Slots
  BY <1>1, <1>6, IndexFacts DEF Slot
<1>8. call.table # NONE
  BY <1>1, TablesAreFrames DEF VMInv
<1>9. Typed(tables)
  BY DEF VMInv, TreeOK
<1>10. Entry \in Pointer
  BY <1>1, <1>7, <1>9 DEF Typed, Entry
<1>11. Entry = Down(tables, Node(tables, Virt, call.level), Index(Virt, call.level))
  BY <1>1, <1>7, <1>8 DEF Down, Entry
<1>12. AtPte => Translation(Virt) = Entry /\ call.table = W4(tables, Virt)
  BY <1>1, <1>11, TranslationIsWalk DEF AtPte, Levels, Node, W5
<1>13. Entry = NONE => Translation(Virt) = NONE
  <2>1. Node(tables, Virt, 4) = NONE => Translation(Virt) = NONE
    BY TranslationIsWalk DEF Node, W5, Down
  <2>2. Node(tables, Virt, 3) = NONE => Node(tables, Virt, 4) = NONE
    BY DEF Node, W4, Down
  <2>3. Node(tables, Virt, 2) = NONE => Node(tables, Virt, 3) = NONE
    BY DEF Node, W3, Down
  <2>4. CASE AtPte
    BY <1>12, <2>4
  <2>5. CASE call.level \in {1, 2, 3}
    <3>1. Entry = Node(tables, Virt, call.level + 1)
      BY <1>11, <2>5 DEF Node, W4, W3, W2
    <3> QED
      BY <2>1, <2>2, <2>3, <2>5, <3>1
  <2> QED
    BY <1>1, <2>4, <2>5 DEF AtPte, Levels
<1> QED
  BY <1>1, <1>3, <1>4, <1>6, <1>7, <1>8, <1>10, <1>12, <1>13 DEF WalkState

(* T2 is the tables with x in the entry of the page of the walk.            *)
Written(T2, x) ==
  /\ TreeOK(T2) /\ DOMAIN T2 = DOMAIN tables
  /\ LeafSet(tables, T2, call.table, Slot, x)
  /\ tables[call.table].level = 4
  /\ \A v \in Pages : W5(T2, v) = IF v = Virt THEN x ELSE Translation(v)

(* mapPage and unmapPage write one page's entry.                            *)
LEMMA EntryWritten ==
  ASSUME VMInv, Walking, AtPte, NEW x \in Pointer, NEW T2, T2 = SetEntry(x)
  PROVE  Written(T2, x)
<1>1. WalkState /\ TreeOK(tables)
  BY WalkStateHolds DEF VMInv
<1>2. /\ call.table \in DOMAIN tables /\ tables[call.table].level = 4 /\ Slot \in Slots
      /\ call.table # NONE /\ call.table = W4(tables, Virt) /\ Slot = Index(Virt, 4)
      /\ Virt \in Pages
  BY <1>1 DEF WalkState, AtPte, Levels
<1>3. LeafSet(tables, T2, call.table, Slot, x) /\ Typed(T2)
  BY <1>1, <1>2, SetEntryFacts DEF SetEntry, TreeOK
<1>4. TreeOK(T2)
  BY <1>1, <1>2, <1>3, LeafTree
<1>5. \A v \in Pages : W5(T2, v) = IF v = Virt THEN x ELSE W5(tables, v)
  BY <1>1, <1>2, <1>3, LeafWalks
<1> QED
  BY <1>2, <1>3, <1>4, <1>5, TranslationIsWalk DEF Written, LeafSet

(* T2 is the tables with a table f that the walk goes on in.                *)
Extended(T2, f) ==
  /\ TreeOK(T2)
  /\ TableLinked(tables, T2, call.table, Slot, f)
  /\ Node(T2, Virt, call.level + 1) = f
  /\ \A v \in Pages : W5(T2, v) = Translation(v)

(* newTable extends them.                                                   *)
LEMMA TableAdded ==
  ASSUME VMInv, Walking, ~AtPte, Entry = NONE, NEW f \in free,
         NEW T2, T2 = LinkedTo(f)
  PROVE  Extended(T2, f)
<1>1. WalkState /\ TreeOK(tables) /\ FramesAccounted
  BY WalkStateHolds DEF VMInv
<1>2. f \in Nat /\ f \notin DOMAIN tables /\ f # NONE /\ NONE \notin DOMAIN tables
  BY <1>1, TablesAreFrames DEF FramesAccounted
<1>3. /\ call.table \in DOMAIN tables /\ call.level \in 1 .. 3
      /\ tables[call.table].level = call.level
      /\ Slot \in Slots /\ Slot = Index(Virt, call.level)
      /\ tables[call.table].ent[Slot] = NONE
      /\ call.table = Node(tables, Virt, call.level) /\ Virt \in 0 .. VirtualSize - 1
  BY <1>1 DEF WalkState, AtPte, Levels, Entry, Pages
<1>4. TableLinked(tables, T2, call.table, Slot, f) /\ Typed(T2)
  BY <1>1, <1>2, <1>3, LinkedFacts DEF TreeOK
<1>5. TreeOK(T2)
  BY <1>1, <1>2, <1>3, <1>4, LinkTree
<1>6. Node(T2, Virt, call.level + 1) = f
  BY <1>1, <1>2, <1>3, <1>4, LinkNode
<1>7. \A v \in Pages : W5(T2, v) = W5(tables, v)
  <2> TAKE v \in Pages
  <2>1. v \in 0 .. VirtualSize - 1
    BY DEF Pages
  <2> QED
    BY <1>1, <1>2, <1>3, <1>4, <2>1, LinkWalks
<1> QED
  BY <1>4, <1>5, <1>6, <1>7, TranslationIsWalk DEF Extended
-----------------------------------------------------------------------------
(* Every step keeps the invariant *)

SameMap == \A v \in Pages : Translation(v)' = Translation(v)

SameRange ==
  /\ call'.op = call.op /\ call'.client = call.client /\ call'.virt = call.virt
  /\ call'.phys = call.phys /\ call'.pages = call.pages /\ call'.i = call.i
  /\ call'.dev = call.dev

(* At the start nothing is mapped.                                          *)
LEMMA InitUnmapped == Init => \A v \in Pages : Translation(v) = NONE
<1> SUFFICES ASSUME Init, NEW v \in Pages PROVE Translation(v) = NONE
  OBVIOUS
<1>1. \A i \in Slots : tables[Root].ent[i] = NONE
  BY DEF Init, EmptyTable, Slots
<1>2. \A l \in 1 .. 4 : Index(v, l) \in Slots
  BY IndexFacts DEF Pages
<1>3. W2(tables, v) = NONE
  BY <1>1, <1>2 DEF W2, Down
<1> QED
  BY <1>3, TranslationIsWalk DEF W5, W4, W3, Down

(* The boot tables are empty.                                               *)
LEMMA InitInv == Init => VMInv
<1> SUFFICES ASSUME Init PROVE VMInv
  OBVIOUS
<1>1. /\ tables = [t \in {Root} |-> [level |-> 1, ent |-> EmptyTable]]
      /\ free = Frames \ {Root} /\ held = {} /\ nextMMIOVirt = MmioStart
      /\ windows = {} /\ call = Idle
  BY DEF Init
<1>2. /\ DOMAIN tables = {Root} /\ tables[Root].level = 1
      /\ \A i \in Slots : tables[Root].ent[i] = NONE
      /\ tables[Root].ent \in [Slots -> Pointer]
  BY <1>1 DEF EmptyTable, Slots, Pointer
<1>3. Typed(tables)
  <2>1. tables[Root] \in [level : 1 .. 4, ent : [Slots -> Pointer]]
    BY <1>1, <1>2
  <2> QED
    BY <1>1, <1>2, <2>1 DEF Typed
<1>4. TreeOK(tables)
  BY <1>2, <1>3 DEF TreeOK, Levelled, OneParent, NoneLost
<1>5. \A v \in Pages : Translation(v) = NONE
  BY InitUnmapped
<1>6. Leaves
  BY <1>2 DEF Leaves
<1>7. FramesAccounted
  BY <1>1, <1>2, FrameAssumption DEF FramesAccounted
<1>8. CallTypes /\ HeapCall /\ WindowCall /\ UnmapCall
  BY <1>1, <1>2 DEF CallTypes, CallRecord, HeapCall, WindowCall, UnmapCall, Idle, Walking
<1>9. WindowsOK
  BY <1>1 DEF WindowsOK
<1>10. Fresh
  BY <1>1, <1>5, AreaAssumption, AreaFacts DEF Fresh, Idle, FreshFrom
<1> QED
  BY <1>4, <1>6, <1>7, <1>8, <1>9, <1>10 DEF VMInv

(* A step of a walk that maps nothing and unmaps nothing keeps the windows. *)
LEMMA SameMapKeeps ==
  ASSUME VMInv, SameMap, SameRange, windows' = windows, nextMMIOVirt' = nextMMIOVirt
  PROVE  WindowsOK' /\ WindowCall' /\ UnmapCall' /\ Fresh'
<1>1. WindowsOK /\ WindowCall /\ UnmapCall /\ Fresh
  BY DEF VMInv
<1>2. Virt' = Virt /\ CallEnd' = CallEnd /\ FreshFrom' = FreshFrom
  BY DEF SameRange, Virt, CallEnd, FreshFrom
<1>3. WindowsOK'
  BY <1>1 DEF WindowsOK, WindowOK, WindowMapped, WindowEnd, SameMap
<1>4. WindowCall'
  BY <1>1, <1>2 DEF WindowCall, WindowEnd, SameRange, SameMap
<1>5. UnmapCall'
  BY <1>1, <1>2 DEF UnmapCall, WindowEnd, SameRange
<1>6. Fresh'
  BY <1>1, <1>2 DEF Fresh, SameMap
<1> QED
  BY <1>3, <1>4, <1>5, <1>6

(* Unchanged tables map the same.                                           *)
LEMMA SameTables ==
  ASSUME tables' = tables
  PROVE  /\ \A v : Translation(v)' = Translation(v)
         /\ SameMap
BY TranslationIsWalk DEF SameMap

(* Descend goes on in the table the entry points to.                        *)
LEMMA DescendInv == VMInv /\ Descend => VMInv'
<1> SUFFICES ASSUME VMInv, Descend PROVE VMInv'
  OBVIOUS
<1>1. /\ Walking /\ ~AtPte /\ Entry # NONE
      /\ call' = [call EXCEPT !.table = Entry, !.level = call.level + 1]
      /\ tables' = tables /\ free' = free /\ held' = held
      /\ nextMMIOVirt' = nextMMIOVirt /\ windows' = windows
  BY DEF Descend
<1>2. WalkState
  BY <1>1, WalkStateHolds
<1>3. SameRange /\ call'.table = Entry /\ call'.level = call.level + 1
  BY <1>1 DEF SameRange, VMInv, CallTypes, CallRecord
<1>4. SameMap
  BY <1>1, SameTables
<1>5. WindowsOK' /\ WindowCall' /\ UnmapCall' /\ Fresh'
  BY <1>1, <1>3, <1>4, SameMapKeeps
<1>6. call.level \in 1 .. 3
  BY <1>1, <1>2 DEF WalkState, AtPte, Levels
<1>7. Entry \in DOMAIN tables /\ tables[Entry].level = call.level + 1
  BY <1>1, <1>2, <1>6 DEF WalkState, VMInv, TreeOK, Levelled, Entry
<1>8. Node(tables, Virt, call.level + 1) = Entry
  <2>1. Entry = Down(tables, Node(tables, Virt, call.level), Index(Virt, call.level))
    BY <1>2 DEF WalkState, Down, Entry
  <2> QED
    BY <1>6, <2>1 DEF Node, W4, W3, W2
<1>9. CallTypes'
  <2>1. Virt' = Virt /\ CallEnd' = CallEnd
    BY <1>3 DEF SameRange, Virt, CallEnd
  <2>2. CallTypes
    BY DEF VMInv
  <2>3. call' \in CallRecord(DOMAIN tables)
    <3>1. call \in CallRecord(DOMAIN tables)
      BY <2>2 DEF CallTypes
    <3>2. call.level + 1 \in 1 .. 4
      BY <1>6
    <3> QED
      BY <1>1, <1>7, <3>1, <3>2 DEF CallRecord
  <2>4. Walking'
    BY <1>1, <1>3 DEF Walking, SameRange
  <2> QED
    BY <1>1, <1>3, <1>7, <1>8, <2>1, <2>2, <2>3, <2>4 DEF CallTypes, SameRange
<1>10. HeapCall'
  BY <1>1, <1>3 DEF VMInv, HeapCall, SameRange
<1>11. TreeOK(tables)' /\ Leaves' /\ FramesAccounted'
  BY <1>1 DEF VMInv, Leaves, FramesAccounted
<1> QED
  BY <1>5, <1>9, <1>10, <1>11 DEF VMInv

(* Between calls, and after a panic, there is nothing to keep.              *)
LEMMA AtRest ==
  ASSUME TreeOK(tables'), call' = Idle \/ call' = Panic
  PROVE  CallTypes' /\ HeapCall' /\ WindowCall' /\ UnmapCall' /\ FreshFrom' = nextMMIOVirt'
<1>1. Root \in DOMAIN tables' /\ tables'[Root].level = 1
  BY DEF TreeOK, Typed
<1>2. /\ call'.op \in {"idle", "panic"} /\ call'.client = "none" /\ call'.virt = 0
      /\ call'.phys = 0 /\ call'.pages = 0 /\ call'.i = 0 /\ call'.table = Root
      /\ call'.level = 1 /\ call'.dev = NoDevice
  BY DEF Idle, Panic
<1>3. Idle' = Idle /\ Panic' = Panic
  BY DEF Idle, Panic, NoDevice
<1>4. call' \in CallRecord(DOMAIN tables')
  BY <1>1 DEF CallRecord, Idle, Panic
<1>5. ~Walking' /\ call'.op # "map" /\ call'.op # "unmap"
  BY <1>2 DEF Walking
<1>6. CallTypes'
  BY <1>1, <1>2, <1>4, <1>5 DEF CallTypes, Idle, Panic
<1>7. HeapCall' /\ WindowCall' /\ UnmapCall'
  BY <1>5 DEF HeapCall, WindowCall, UnmapCall
<1>8. FreshFrom' = nextMMIOVirt'
  BY <1>5 DEF FreshFrom
<1> QED
  BY <1>6, <1>7, <1>8

(* FreshFrom is not past what was handed out.                               *)
LEMMA FreshFromBelow ==
  ASSUME VMInv
  PROVE  FreshFrom <= nextMMIOVirt /\ FreshFrom \in Nat
<1>1. nextMMIOVirt \in Nat
  BY DEF VMInv, Fresh
<1>2. CASE call.op = "map" /\ call.client = "mmio"
  <2>1. WalkState
    BY <1>2, WalkStateHolds DEF Walking
  <2>2. CallEnd = nextMMIOVirt
    BY <1>2 DEF VMInv, WindowCall
  <2> QED
    BY <1>1, <1>2, <2>1, <2>2, GeometryAssumption DEF WalkState, FreshFrom
<1>3. CASE ~(call.op = "map" /\ call.client = "mmio")
  BY <1>1, <1>3 DEF FreshFrom
<1> QED
  BY <1>2, <1>3

(* newTable puts a table into the tree, or panics.                          *)
LEMMA newTableInv == VMInv /\ newTable => VMInv'
<1> SUFFICES ASSUME VMInv, newTable PROVE VMInv'
  OBVIOUS
<1>1. /\ call.op = "map" /\ ~AtPte /\ Entry = NONE /\ Walking
      /\ held' = held /\ nextMMIOVirt' = nextMMIOVirt /\ windows' = windows
  BY DEF newTable, Walking
<1>2. WalkState
  BY <1>1, WalkStateHolds
<1>3. ASSUME NEW f \in free, tables' = LinkedTo(f), free' = free \ {f},
             call' = [call EXCEPT !.table = f, !.level = call.level + 1]
      PROVE  VMInv'
  <2>1. Extended(tables', f)
    BY <1>1, <1>3, TableAdded
  <2>2. SameMap
    BY <2>1, TranslationIsWalk DEF Extended, SameMap
  <2>3. SameRange /\ call'.table = f /\ call'.level = call.level + 1
    BY <1>3 DEF SameRange, VMInv, CallTypes, CallRecord
  <2>4. WindowsOK' /\ WindowCall' /\ UnmapCall' /\ Fresh'
    BY <1>1, <2>2, <2>3, SameMapKeeps
  <2>5. TableLinked(tables, tables', call.table, Slot, f)
    BY <2>1 DEF Extended
  <2>6. call.level \in 1 .. 3 /\ call.table \in DOMAIN tables /\ tables[call.table].level = call.level
    BY <1>1, <1>2 DEF WalkState, AtPte, Levels
  <2>7. \A t \in DOMAIN tables', i \in Slots : tables'[t].level = 4 =>
          \/ tables'[t].ent[i] = NONE
          \/ /\ t \in DOMAIN tables /\ tables[t].level = 4
             /\ tables'[t].ent[i] = tables[t].ent[i]
    BY <2>5, <2>6 DEF TableLinked
  <2>8. Leaves'
    BY <1>1, <2>7 DEF VMInv, Leaves
  <2>9. FramesAccounted'
    <3>1. DOMAIN tables' = DOMAIN tables \cup {f}
      BY <2>5 DEF TableLinked
    <3>2. FramesAccounted
      BY DEF VMInv
    <3> QED
      BY <1>1, <1>3, <3>1, <3>2 DEF FramesAccounted
  <2>10. HeapCall'
    <3>1. HeapCall /\ FramesAccounted
      BY DEF VMInv
    <3>2. call.client = "heap" => call.phys # NONE
      BY <1>1, <3>1, TablesAreFrames DEF HeapCall
    <3> QED
      BY <1>1, <2>3, <2>7, <3>1, <3>2 DEF HeapCall, SameRange
  <2>11. CallTypes'
    <3>1. Virt' = Virt /\ CallEnd' = CallEnd
      BY <2>3 DEF SameRange, Virt, CallEnd
    <3>2. CallTypes
      BY DEF VMInv
    <3>3. f \in DOMAIN tables' /\ tables'[f].level = call.level + 1
      BY <2>5, <2>6 DEF TableLinked
    <3>4. call' \in CallRecord(DOMAIN tables')
      <4>1. call \in CallRecord(DOMAIN tables)
        BY <3>2 DEF CallTypes
      <4>2. call.level + 1 \in 1 .. 4
        BY <2>6
      <4> QED
        BY <1>3, <3>3, <4>1, <4>2 DEF CallRecord
    <3>5. Walking'
      BY <1>1, <2>3 DEF Walking, SameRange
    <3>6. Node(tables', Virt, call.level + 1) = f
      BY <2>1 DEF Extended
    <3> QED
      BY <1>1, <2>3, <3>1, <3>2, <3>3, <3>4, <3>5, <3>6 DEF CallTypes, SameRange
  <2>12. TreeOK(tables)'
    BY <2>1 DEF Extended
  <2> QED
    BY <2>4, <2>8, <2>9, <2>10, <2>11, <2>12 DEF VMInv
<1>4. ASSUME call' = Panic, tables' = tables, free' = free
      PROVE  VMInv'
  <2>1. TreeOK(tables') /\ SameMap
    BY <1>4, SameTables DEF VMInv
  <2>2. CallTypes' /\ HeapCall' /\ WindowCall' /\ UnmapCall' /\ FreshFrom' = nextMMIOVirt'
    BY <1>4, <2>1, AtRest
  <2>3. Leaves' /\ FramesAccounted'
    BY <1>1, <1>4 DEF VMInv, Leaves, FramesAccounted
  <2>4. WindowsOK'
    BY <1>1, <2>1 DEF VMInv, WindowsOK, WindowOK, WindowMapped, WindowEnd, SameMap
  <2>5. Fresh'
    <3>1. \A v \in Pages : nextMMIOVirt <= v => FreshFrom <= v
      BY FreshFromBelow DEF Pages, VMInv, Fresh
    <3> QED
      BY <1>1, <2>1, <2>2, <3>1 DEF VMInv, Fresh, SameMap
  <2> QED
    BY <2>1, <2>2, <2>3, <2>4, <2>5 DEF VMInv
<1> QED
  BY <1>3, <1>4 DEF newTable

(* A step that changes one page outside of a window keeps the window.       *)
LEMMA OtherWindows ==
  ASSUME VMInv, \A v \in Pages : v # Virt => Translation(v)' = Translation(v),
         nextMMIOVirt' \in Nat, nextMMIOVirt <= nextMMIOVirt',
         NEW w \in windows, Virt \in Nat, Virt < w.mappingBase \/ WindowEnd(w) <= Virt
  PROVE  WindowOK(w)' /\ WindowMapped(w)'
<1>1. WindowOK(w) /\ WindowMapped(w) /\ nextMMIOVirt \in Nat
  BY DEF VMInv, WindowsOK, Fresh
<1>2. w.mappedSize \in Nat
  BY <1>1, DevicePages DEF WindowOK
<1>3. WindowOK(w)'
  BY <1>1, <1>2 DEF WindowOK, WindowEnd
<1>4. \A v \in Pages : w.mappingBase <= v /\ v < WindowEnd(w) => v # Virt
  BY <1>1, <1>2 DEF WindowOK, WindowEnd
<1>5. WindowMapped(w)'
  BY <1>1, <1>4 DEF WindowMapped, WindowEnd
<1> QED
  BY <1>3, <1>5

(* The page that mapPage maps lies in no window: it was not mapped.         *)
LEMMA MapOutside ==
  ASSUME VMInv, Virt \in Pages, Translation(Virt) = NONE, NEW w \in windows
  PROVE  Virt < w.mappingBase \/ WindowEnd(w) <= Virt
<1>1. WindowOK(w) /\ WindowMapped(w)
  BY DEF VMInv, WindowsOK
<1>2. PICK v, b, m : /\ v = Virt /\ v \in Pages /\ m = w.mappingBase
                     /\ b = alignDown(w.dev.physical, PAGE_SIZE)
  BY Zenon
<1>3. v \in Nat /\ m \in Nat /\ b \in Nat /\ WindowEnd(w) \in Nat
  BY <1>1, <1>2, DevicePages DEF WindowOK, WindowEnd, Pages
<1>4. ASSUME m <= v, v < WindowEnd(w) PROVE FALSE
  <2>1. Translation(v) = v - m + b
    BY <1>1, <1>2, <1>4 DEF WindowMapped
  <2> QED
    BY <1>2, <1>3, <1>4, <2>1 DEF NONE
<1> QED
  BY <1>2, <1>3, <1>4

(* The heap maps one page, in its own area.                                 *)
LEMMA HeapMaps ==
  ASSUME VMInv, call.op = "map", call.client = "heap"
  PROVE  /\ call.i = 0 /\ call.pages = 1 /\ LastPage
         /\ Virt = call.virt /\ Phys = call.phys /\ HeapStart <= Virt
         /\ call.phys \in held
<1>1. WalkState
  BY WalkStateHolds DEF Walking
<1>2. /\ call.pages = 1 /\ HeapStart <= call.virt /\ call.i < call.pages
      /\ call.phys \in held
  BY DEF VMInv, HeapCall, CallTypes, Walking
<1>3. call.i = 0
  BY <1>1, <1>2 DEF WalkState
<1>4. 0 * PAGE_SIZE = 0
  BY GeometryAssumption, Z3
<1>5. call.phys \in Nat
  BY DEF VMInv, CallTypes, CallRecord
<1> QED
  BY <1>1, <1>2, <1>3, <1>4, <1>5 DEF WalkState, Virt, Phys, LastPage

(* The pages of a window are of the device.                                 *)
LEMMA WindowMaps ==
  ASSUME VMInv, call.op = "map", call.client = "mmio"
  PROVE  /\ Phys = Virt - call.virt + call.phys /\ Phys \notin Frames
         /\ call.dev \in Devices /\ MmioStart <= Virt
<1>1. WalkState
  BY WalkStateHolds DEF Walking
<1>2. /\ call.dev \in Devices /\ MmioStart <= call.virt
      /\ call.phys = alignDown(call.dev.physical, PAGE_SIZE)
      /\ call.pages * PAGE_SIZE = MappedSize(call.dev)
  BY DEF VMInv, WindowCall
<1>3. PICK s \in Nat : /\ s = call.pages * PAGE_SIZE
                      /\ \A f \in Frames : f < call.phys \/ call.phys + s < f + PAGE_SIZE
  BY <1>2, DevicePages
<1>4. call.phys \in Nat /\ Frames \subseteq Nat
  BY FrameAssumption DEF VMInv, CallTypes, CallRecord
<1>5. call.i * PAGE_SIZE \in Nat
  BY <1>1, PageNumbers DEF WalkState
<1>6. Phys = Virt - call.virt + call.phys
  BY <1>1, <1>4, <1>5 DEF WalkState, Virt, Phys
<1>7. Phys \notin Frames
  <2>1. Virt + PAGE_SIZE <= call.virt + s
    BY <1>1, <1>3 DEF WalkState, CallEnd
  <2>2. Phys + PAGE_SIZE <= call.phys + s /\ call.phys <= Phys
    BY <1>1, <1>3, <1>4, <1>6, <2>1, GeometryAssumption DEF WalkState
  <2> QED
    BY <1>1, <1>3, <1>4, <2>2, GeometryAssumption DEF WalkState
<1> QED
  BY <1>1, <1>2, <1>6, <1>7, AreaAssumption DEF WalkState

(* The next page of a range.                                                *)
LEMMA NextPageFacts ==
  ASSUME VMInv, Walking, ~LastPage, call' = NextPage, TreeOK(tables')
  PROVE  /\ CallTypes' /\ Virt' = Virt + PAGE_SIZE /\ CallEnd' = CallEnd
         /\ call'.op = call.op /\ call'.client = call.client /\ call'.virt = call.virt
         /\ call'.phys = call.phys /\ call'.pages = call.pages /\ call'.dev = call.dev
<1>1. WalkState /\ CallTypes
  BY WalkStateHolds DEF VMInv
<1>2. call \in CallRecord(DOMAIN tables)
  BY <1>1 DEF CallTypes
<1>3. /\ call'.op = call.op /\ call'.client = call.client /\ call'.virt = call.virt
      /\ call'.phys = call.phys /\ call'.pages = call.pages /\ call'.dev = call.dev
      /\ call'.i = call.i + 1 /\ call'.table = Root /\ call'.level = 1
  BY <1>2 DEF NextPage, CallRecord
<1>4. call.i \in Nat /\ call.pages \in Nat /\ call.i < call.pages /\ call.i + 1 < call.pages
  BY <1>1 DEF CallTypes, WalkState, LastPage
<1>5. Virt' = Virt + PAGE_SIZE
  <2>1. (call.i + 1) * PAGE_SIZE = call.i * PAGE_SIZE + PAGE_SIZE /\ call.i * PAGE_SIZE \in Nat
    BY <1>4, PageNumbers
  <2> QED
    BY <1>1, <1>3, <2>1, GeometryAssumption DEF Virt, WalkState
<1>6. CallEnd' = CallEnd
  BY <1>3 DEF CallEnd
<1>7. Root \in DOMAIN tables' /\ tables'[Root].level = 1
  BY DEF TreeOK, Typed
<1>8. call' \in CallRecord(DOMAIN tables')
  <2>1. call.i + 1 \in Nat /\ 1 \in 1 .. 4
    BY <1>4
  <2>2. call' = [call EXCEPT !.i = call.i + 1, !.table = Root, !.level = 1]
    BY DEF NextPage
  <2> QED
    BY <1>2, <1>7, <2>1, <2>2 DEF CallRecord
<1>9. Walking'
  BY <1>3 DEF Walking
<1>10. CallTypes'
  BY <1>1, <1>3, <1>4, <1>6, <1>7, <1>8, <1>9 DEF CallTypes, Node
<1> QED
  BY <1>3, <1>5, <1>6, <1>10

(* mapPage writes the entry of one page.                                    *)
LEMMA mapPageEffect ==
  ASSUME VMInv, mapPage
  PROVE  /\ Walking /\ call.op = "map" /\ TreeOK(tables')
         /\ free' = free /\ held' = held /\ nextMMIOVirt' = nextMMIOVirt
         /\ \A v \in Pages : Translation(v)' = IF v = Virt THEN Phys ELSE Translation(v)
         /\ Leaves' /\ FramesAccounted'
         /\ Translation(Virt) = NONE /\ Virt \in Pages /\ Phys \in Nat
<1>1. /\ call.op = "map" /\ Walking /\ AtPte /\ Entry = NONE /\ tables' = SetEntry(Phys)
      /\ free' = free /\ held' = held /\ nextMMIOVirt' = nextMMIOVirt
  BY DEF mapPage, Present, Walking
<1>2. WalkState
  BY <1>1, WalkStateHolds
<1>3. Phys \in Pointer
  BY <1>2 DEF WalkState, Pointer
<1>4. Written(tables', Phys)
  BY <1>1, <1>3, EntryWritten
<1>5. \A v \in Pages : Translation(v)' = IF v = Virt THEN Phys ELSE Translation(v)
  BY <1>4, TranslationIsWalk DEF Written
<1>6. Phys \in held \cup (Nat \ Frames)
  <2>1. CASE call.client = "heap"
    BY <1>1, <2>1, HeapMaps
  <2>2. CASE call.client = "mmio"
    BY <1>1, <1>2, <2>2, WindowMaps DEF WalkState
  <2> QED
    BY <1>1, <2>1, <2>2 DEF VMInv, CallTypes
<1>7. Leaves'
  <2> SUFFICES ASSUME NEW t \in DOMAIN tables', NEW i \in Slots,
                      tables'[t].level = 4, tables'[t].ent[i] # NONE
               PROVE  tables'[t].ent[i] \in held \cup (Nat \ Frames)
    BY <1>1 DEF Leaves
  <2>1. CASE t = call.table /\ i = Slot
    BY <1>4, <1>6, <2>1 DEF Written, LeafSet
  <2>2. CASE t # call.table \/ i # Slot
    <3>1. t \in DOMAIN tables /\ tables[t].level = 4 /\ tables'[t].ent[i] = tables[t].ent[i]
      BY <1>4, <2>2 DEF Written, LeafSet
    <3> QED
      BY <3>1 DEF VMInv, Leaves
  <2> QED
    BY <2>1, <2>2
<1>8. FramesAccounted'
  BY <1>1, <1>4 DEF Written, VMInv, FramesAccounted
<1>9. TreeOK(tables')
  BY <1>4 DEF Written
<1> QED
  BY <1>1, <1>2, <1>5, <1>7, <1>8, <1>9 DEF WalkState

(* The pages of the device so far, with the one mapPage adds.               *)
LEMMA WindowGrows ==
  ASSUME VMInv, mapPage, call.client = "mmio", NEW v \in Pages,
         call.virt <= v, v < Virt + PAGE_SIZE
  PROVE  Translation(v)' = v - call.virt + call.phys
<1>1. /\ \A u \in Pages : Translation(u)' = IF u = Virt THEN Phys ELSE Translation(u)
      /\ call.op = "map" /\ Walking
  BY mapPageEffect
<1>2. WalkState
  BY <1>1, WalkStateHolds
<1>3. CASE v = Virt
  BY <1>1, <1>3, WindowMaps
<1>4. CASE v # Virt
  <2>1. v \in Int /\ Virt \in Int /\ v % PAGE_SIZE = 0 /\ Virt % PAGE_SIZE = 0
    BY <1>2 DEF WalkState, Pages
  <2>2. v < Virt
    <3>1. Virt < v => Virt + PAGE_SIZE <= v
      BY <2>1, GeometryAssumption, Apart
    <3> QED
      BY <1>4, <2>1, <3>1, GeometryAssumption
  <2>3. Translation(v) = v - call.virt + call.phys
    BY <1>1, <2>2 DEF VMInv, WindowCall
  <2> QED
    BY <1>1, <1>4, <2>3
<1> QED
  BY <1>3, <1>4

(* The window that is complete.                                             *)
LEMMA NewWindow ==
  ASSUME VMInv, mapPage, call.client = "mmio", LastPage, NEW w, w = Window
  PROVE  /\ WindowOK(w)' /\ WindowMapped(w)'
         /\ w.mappingBase = call.virt /\ WindowEnd(w) = nextMMIOVirt
<1>1. /\ call.op = "map" /\ Walking /\ nextMMIOVirt' = nextMMIOVirt
  BY mapPageEffect
<1>2. WalkState
  BY <1>1, WalkStateHolds
<1>3. /\ call.dev \in Devices /\ MmioStart <= call.virt
      /\ call.phys = alignDown(call.dev.physical, PAGE_SIZE)
      /\ call.pages * PAGE_SIZE = MappedSize(call.dev)
      /\ CallEnd = nextMMIOVirt
  BY <1>1 DEF VMInv, WindowCall
<1>4. /\ w.base = call.virt + (call.dev.physical - call.phys)
      /\ w.mappingBase = call.virt /\ w.mappedSize = call.pages * PAGE_SIZE
      /\ w.dev = call.dev
  BY DEF Window
<1>5. WindowEnd(w) = nextMMIOVirt
  BY <1>3, <1>4 DEF WindowEnd, CallEnd
<1>6. call.virt % PAGE_SIZE = 0 /\ call.virt \in Nat /\ nextMMIOVirt \in Nat
  BY <1>1, <1>2 DEF VMInv, CallTypes, WalkState, Fresh
<1>7. WindowOK(w)'
  <2>1. WindowEnd(w) <= nextMMIOVirt'
    BY <1>1, <1>5, <1>6
  <2> QED
    BY <1>3, <1>4, <1>6, <2>1 DEF WindowOK, WindowEnd
<1>8. Virt + PAGE_SIZE = CallEnd
  <2>1. call.i + 1 = call.pages /\ call.i \in Nat
    BY <1>2 DEF LastPage, WalkState
  <2>2. call.pages * PAGE_SIZE = call.i * PAGE_SIZE + PAGE_SIZE /\ call.i * PAGE_SIZE \in Nat
    BY <2>1, PageNumbers
  <2> QED
    BY <1>6, <2>2, GeometryAssumption DEF Virt, CallEnd
<1>9. WindowMapped(w)'
  <2>1. \A v \in Pages : call.virt <= v /\ v < CallEnd =>
          Translation(v)' = v - call.virt + call.phys
    BY <1>8, WindowGrows
  <2> QED
    BY <1>3, <1>4, <1>5, <2>1 DEF WindowMapped, WindowEnd
<1> QED
  BY <1>4, <1>5, <1>7, <1>9

(* mapPage: the page of the heap, or one more page of a window.             *)
LEMMA mapPageInv == VMInv /\ mapPage => VMInv'
<1> SUFFICES ASSUME VMInv, mapPage PROVE VMInv'
  OBVIOUS
<1>1. /\ Walking /\ call.op = "map" /\ TreeOK(tables')
      /\ free' = free /\ held' = held /\ nextMMIOVirt' = nextMMIOVirt
      /\ \A v \in Pages : Translation(v)' = IF v = Virt THEN Phys ELSE Translation(v)
      /\ Leaves' /\ FramesAccounted' /\ Virt \in Pages
  BY mapPageEffect
<1>2. WalkState /\ Fresh /\ nextMMIOVirt \in Nat
  BY <1>1, WalkStateHolds DEF VMInv, Fresh
<1>3. \A w \in windows : WindowOK(w)' /\ WindowMapped(w)'
  <2>1. Virt \in Pages /\ Translation(Virt) = NONE
    BY mapPageEffect
  <2> QED
    BY <1>1, <1>2, <2>1, OtherWindows, MapOutside DEF WalkState
<1>4. \A w, x \in windows : w # x =>
        WindowEnd(w) <= x.mappingBase \/ WindowEnd(x) <= w.mappingBase
  BY DEF VMInv, WindowsOK
<1>5. Virt < nextMMIOVirt \/ HeapStart <= Virt
  <2>1. CASE call.client = "heap"
    BY <1>1, <2>1, HeapMaps
  <2>2. CASE call.client = "mmio"
    BY <1>1, <1>2, <2>2, GeometryAssumption DEF VMInv, WindowCall, WalkState
  <2> QED
    BY <1>1, <2>1, <2>2 DEF VMInv, CallTypes
<1>6. CASE LastPage
  <2>1. call' = Idle
    BY <1>6 DEF mapPage, Returns
  <2>2. CallTypes' /\ HeapCall' /\ WindowCall' /\ UnmapCall' /\ FreshFrom' = nextMMIOVirt'
    BY <1>1, <2>1, AtRest
  <2>3. Fresh'
    <3>1. \A v \in Pages : nextMMIOVirt <= v /\ v < HeapStart => FreshFrom <= v /\ v # Virt
      BY <1>2, <1>5, FreshFromBelow, AreaFacts DEF Pages, WalkState
    <3> QED
      BY <1>1, <1>2, <2>2, <3>1 DEF Fresh
  <2>4. WindowsOK'
    <3>1. CASE call.client = "mmio"
      <4>1. PICK w : w = Window
        OBVIOUS
      <4>2. windows' = windows \cup {w}
        BY <1>6, <3>1, <4>1 DEF mapPage, Returns
      <4>3. WindowOK(w)' /\ WindowMapped(w)' /\ w.mappingBase = call.virt
        BY <1>6, <3>1, <4>1, NewWindow
      <4>4. \A x \in windows : WindowEnd(x) <= w.mappingBase
        BY <1>1, <3>1, <4>3 DEF VMInv, WindowCall
      <4> QED
        BY <1>3, <1>4, <4>2, <4>3, <4>4 DEF WindowsOK, WindowEnd
    <3>2. CASE call.client # "mmio"
      <4>1. windows' = windows
        BY <1>6, <3>2 DEF mapPage, Returns
      <4> QED
        BY <1>3, <1>4, <4>1 DEF WindowsOK, WindowEnd
    <3> QED
      BY <3>1, <3>2
  <2> QED
    BY <1>1, <2>2, <2>3, <2>4 DEF VMInv
<1>7. CASE ~LastPage
  <2>1. call' = NextPage /\ windows' = windows
    BY <1>7 DEF mapPage, Returns
  <2>2. call.client = "mmio"
    BY <1>1, <1>7, HeapMaps DEF VMInv, CallTypes
  <2>3. /\ CallTypes' /\ Virt' = Virt + PAGE_SIZE /\ CallEnd' = CallEnd
        /\ call'.op = call.op /\ call'.client = call.client /\ call'.virt = call.virt
        /\ call'.phys = call.phys /\ call'.pages = call.pages /\ call'.dev = call.dev
    BY <1>1, <1>7, <2>1, NextPageFacts
  <2>4. HeapCall' /\ UnmapCall'
    BY <1>1, <2>2, <2>3 DEF HeapCall, UnmapCall
  <2>5. WindowCall'
    <3>1. \A v \in Pages : call.virt <= v /\ v < Virt + PAGE_SIZE =>
            Translation(v)' = v - call.virt + call.phys
      BY <2>2, WindowGrows
    <3>2. WindowCall
      BY DEF VMInv
    <3> QED
      BY <1>1, <2>1, <2>2, <2>3, <3>1, <3>2 DEF WindowCall, WindowEnd
  <2>6. Fresh'
    <3>1. FreshFrom' = Virt + PAGE_SIZE /\ FreshFrom = Virt
      BY <1>1, <2>2, <2>3 DEF FreshFrom
    <3>2. \A v \in Pages : Virt + PAGE_SIZE <= v => Virt <= v /\ v # Virt
      BY <1>2, GeometryAssumption DEF Pages, WalkState
    <3> QED
      BY <1>1, <1>2, <3>1, <3>2 DEF Fresh
  <2>7. WindowsOK'
    BY <1>3, <1>4, <2>1 DEF WindowsOK, WindowEnd
  <2> QED
    BY <1>1, <2>3, <2>4, <2>5, <2>6, <2>7 DEF VMInv
<1> QED
  BY <1>6, <1>7

(* Below the heap no new window meets a mapped page.                        *)
LEMMA WindowPageFree ==
  ASSUME VMInv, call.op = "map", call.client = "mmio", Virt < HeapStart
  PROVE  Translation(Virt) = NONE
<1>1. WalkState
  BY WalkStateHolds DEF Walking
<1>2. FreshFrom = Virt
  BY DEF FreshFrom
<1> QED
  BY <1>1, <1>2 DEF WalkState, VMInv, Fresh

(* The heap gives back the frame it could not map; a window that meets a    *)
(* mapped page is not valid.                                                *)
LEMMA mapPageFailsInv == VMInv /\ mapPageFails => VMInv'
<1> SUFFICES ASSUME VMInv, mapPageFails PROVE VMInv'
  OBVIOUS
<1>1. /\ call.op = "map" /\ call' = Idle
      /\ tables' = tables /\ nextMMIOVirt' = nextMMIOVirt /\ windows' = windows
  BY DEF mapPageFails
<1>2. TreeOK(tables') /\ SameMap
  BY <1>1, SameTables DEF VMInv
<1>3. Leaves' /\ FramesAccounted'
  <2>1. CASE call.client = "heap"
    <3>1. held' = held \ {call.phys} /\ free' = free \cup {call.phys}
      BY <2>1 DEF mapPageFails, GiveBack
    <3>2. /\ call.phys \in held
          /\ \A t \in DOMAIN tables, i \in Slots :
               tables[t].level = 4 => tables[t].ent[i] # call.phys
      BY <1>1, <2>1 DEF VMInv, HeapCall
    <3>3. Leaves'
      BY <1>1, <3>1, <3>2 DEF VMInv, Leaves
    <3>4. FramesAccounted'
      BY <1>1, <3>1, <3>2 DEF VMInv, FramesAccounted
    <3> QED
      BY <3>3, <3>4
  <2>2. CASE call.client # "heap"
    <3>1. held' = held /\ free' = free
      BY <2>2 DEF mapPageFails
    <3> QED
      BY <1>1, <3>1 DEF VMInv, Leaves, FramesAccounted
  <2> QED
    BY <2>1, <2>2
<1>4. CallTypes' /\ HeapCall' /\ WindowCall' /\ UnmapCall' /\ FreshFrom' = nextMMIOVirt'
  BY <1>1, <1>2, AtRest
<1>5. WindowsOK'
  BY <1>1, <1>2 DEF VMInv, WindowsOK, WindowOK, WindowMapped, WindowEnd, SameMap
<1>6. Fresh'
  <2>1. \A v \in Pages : nextMMIOVirt <= v => FreshFrom <= v
    BY FreshFromBelow DEF Pages, VMInv, Fresh
  <2> QED
    BY <1>1, <1>2, <1>4, <2>1 DEF VMInv, Fresh, SameMap
<1> QED
  BY <1>2, <1>3, <1>4, <1>5, <1>6 DEF VMInv

(* unmapPage leaves the page unmapped, whether it was mapped or not.        *)
LEMMA unmapPageEffect ==
  ASSUME VMInv, unmapPage
  PROVE  /\ Walking /\ call.op = "unmap" /\ TreeOK(tables')
         /\ \A v \in Pages : Translation(v)' = IF v = Virt THEN NONE ELSE Translation(v)
         /\ Leaves' /\ FramesAccounted' /\ Virt \in Pages
<1>1. /\ call.op = "unmap" /\ Walking /\ free' = free /\ held' = held
  BY DEF unmapPage, Walking
<1>2. WalkState
  BY <1>1, WalkStateHolds
<1>3. CASE AtPte /\ tables' = SetEntry(NONE)
  <2>1. Written(tables', NONE)
    BY <1>1, <1>3, EntryWritten DEF Pointer
  <2>2. \A v \in Pages : Translation(v)' = IF v = Virt THEN NONE ELSE Translation(v)
    BY <2>1, TranslationIsWalk DEF Written
  <2>3. Leaves'
    <3>1. \A t \in DOMAIN tables', i \in Slots :
            /\ tables'[t].level = tables[t].level
            /\ tables'[t].ent[i] = NONE \/ tables'[t].ent[i] = tables[t].ent[i]
      BY <2>1 DEF Written, LeafSet
    <3>2. DOMAIN tables' = DOMAIN tables
      BY <2>1 DEF Written
    <3> QED
      BY <1>1, <3>1, <3>2 DEF VMInv, Leaves
  <2>4. FramesAccounted' /\ TreeOK(tables')
    BY <1>1, <2>1 DEF Written, VMInv, FramesAccounted
  <2> QED
    BY <1>1, <1>2, <2>2, <2>3, <2>4 DEF WalkState
<1>4. CASE Entry = NONE /\ tables' = tables
  <2>1. Translation(Virt) = NONE
    BY <1>2, <1>4 DEF WalkState
  <2>2. \A v \in Pages : Translation(v)' = IF v = Virt THEN NONE ELSE Translation(v)
    BY <1>4, <2>1, SameTables
  <2>3. Leaves' /\ FramesAccounted' /\ TreeOK(tables')
    BY <1>1, <1>4 DEF VMInv, Leaves, FramesAccounted
  <2> QED
    BY <1>1, <1>2, <2>2, <2>3 DEF WalkState
<1> QED
  BY <1>3, <1>4 DEF unmapPage

(* unmapPage touches no window that is still valid.                         *)
LEMMA unmapPageInv == VMInv /\ unmapPage => VMInv'
<1> SUFFICES ASSUME VMInv, unmapPage PROVE VMInv'
  OBVIOUS
<1>1. /\ Walking /\ call.op = "unmap" /\ TreeOK(tables')
      /\ \A v \in Pages : Translation(v)' = IF v = Virt THEN NONE ELSE Translation(v)
      /\ Leaves' /\ FramesAccounted' /\ Virt \in Pages
  BY unmapPageEffect
<1>2. nextMMIOVirt' = nextMMIOVirt /\ windows' = windows
  BY DEF unmapPage
<1>3. WalkState /\ Fresh /\ nextMMIOVirt \in Nat /\ UnmapCall
  BY <1>1, WalkStateHolds DEF VMInv, Fresh
<1>4. \A w \in windows : Virt < w.mappingBase \/ WindowEnd(w) <= Virt
  <2> TAKE w \in windows
  <2>1. WindowOK(w)
    BY DEF VMInv, WindowsOK
  <2>2. w.mappedSize \in Nat /\ WindowEnd(w) \in Nat /\ w.mappingBase \in Nat
    BY <2>1, DevicePages DEF WindowOK, WindowEnd
  <2>3. WindowEnd(w) <= call.virt \/ CallEnd <= w.mappingBase
    BY <1>1, <1>3 DEF UnmapCall
  <2> QED
    BY <1>3, <2>2, <2>3, GeometryAssumption DEF WalkState
<1>5. WindowsOK'
  <2>1. \A w \in windows : WindowOK(w)' /\ WindowMapped(w)'
    BY <1>1, <1>2, <1>3, <1>4, OtherWindows DEF WalkState
  <2> QED
    BY <1>2, <2>1 DEF VMInv, WindowsOK, WindowEnd
<1>6. FreshFrom = nextMMIOVirt
  BY <1>1 DEF FreshFrom
<1>7. FreshFrom' = nextMMIOVirt' => Fresh'
  BY <1>1, <1>2, <1>3, <1>6 DEF Fresh
<1>8. CASE LastPage
  <2>1. call' = Idle
    BY <1>8 DEF unmapPage
  <2>2. CallTypes' /\ HeapCall' /\ WindowCall' /\ UnmapCall' /\ FreshFrom' = nextMMIOVirt'
    BY <1>1, <2>1, AtRest
  <2> QED
    BY <1>1, <1>5, <1>7, <2>2 DEF VMInv
<1>9. CASE ~LastPage
  <2>1. call' = NextPage
    BY <1>9 DEF unmapPage
  <2>2. /\ CallTypes' /\ Virt' = Virt + PAGE_SIZE /\ CallEnd' = CallEnd
        /\ call'.op = call.op /\ call'.client = call.client /\ call'.virt = call.virt
        /\ call'.phys = call.phys /\ call'.pages = call.pages /\ call'.dev = call.dev
    BY <1>1, <1>9, <2>1, NextPageFacts
  <2>3. HeapCall' /\ WindowCall' /\ FreshFrom' = nextMMIOVirt'
    BY <1>1, <2>2 DEF HeapCall, WindowCall, FreshFrom
  <2>4. UnmapCall'
    BY <1>2, <1>3, <2>2 DEF UnmapCall, WindowEnd
  <2> QED
    BY <1>1, <1>5, <1>7, <2>2, <2>3, <2>4 DEF VMInv
<1> QED
  BY <1>8, <1>9

(* A call begins at its first page, with the root table.                    *)
LEMMA BeginFacts ==
  ASSUME VMInv, tables' = tables,
         NEW op \in {"map", "unmap"}, NEW client \in {"heap", "mmio"},
         NEW virt \in Nat, virt % PAGE_SIZE = 0, NEW phys \in Nat, phys % PAGE_SIZE = 0,
         NEW pages \in Nat \ {0}, virt + pages * PAGE_SIZE <= VirtualSize,
         NEW dev \in Devices \cup {NoDevice},
         call' = Begin(op, client, virt, phys, pages, dev)
  PROVE  /\ CallTypes' /\ Virt' = virt /\ CallEnd' = virt + pages * PAGE_SIZE
         /\ call'.op = op /\ call'.client = client /\ call'.virt = virt
         /\ call'.phys = phys /\ call'.pages = pages /\ call'.dev = dev
<1>1. /\ call'.op = op /\ call'.client = client /\ call'.virt = virt
      /\ call'.phys = phys /\ call'.pages = pages /\ call'.dev = dev
      /\ call'.i = 0 /\ call'.table = Root /\ call'.level = 1
  BY DEF Begin
<1>2. 0 * PAGE_SIZE = 0
  BY GeometryAssumption, Z3
<1>3. Virt' = virt
  BY <1>1, <1>2 DEF Virt
<1>4. CallEnd' = virt + pages * PAGE_SIZE
  BY <1>1 DEF CallEnd
<1>5. Root \in DOMAIN tables' /\ tables'[Root].level = 1
  BY DEF VMInv, TreeOK, Typed
<1>6. call' \in CallRecord(DOMAIN tables')
  <2>1. 0 \in Nat /\ 1 \in 1 .. 4
    OBVIOUS
  <2> QED
    BY <1>5, <2>1 DEF CallRecord, Begin
<1>7. Walking' /\ Walking' = (call'.op \in {"map", "unmap"})
  BY <1>1 DEF Walking
<1>8. CallTypes'
  BY <1>1, <1>3, <1>4, <1>5, <1>6, <1>7 DEF CallTypes, Node
<1> QED
  BY <1>1, <1>3, <1>4, <1>8

(* The heap takes a frame that nothing maps.                                *)
LEMMA MapHeapPageInv ==
  ASSUME VMInv, NEW virt \in HeapPages, MapHeapPage(virt)
  PROVE  VMInv'
<1>1. /\ call = Idle /\ tables' = tables /\ nextMMIOVirt' = nextMMIOVirt
      /\ windows' = windows
  BY DEF MapHeapPage
<1>2. SameMap /\ FramesAccounted /\ Leaves /\ Fresh /\ WindowsOK /\ TreeOK(tables')
  BY <1>1, SameTables DEF VMInv
<1>3. WindowsOK'
  BY <1>1, <1>2 DEF WindowsOK, WindowOK, WindowMapped, WindowEnd, SameMap
<1>4. FreshFrom = nextMMIOVirt
  BY <1>1 DEF FreshFrom, Idle
<1>5. ASSUME NEW f \in free, free' = free \ {f}, held' = held \cup {f},
             call' = Begin("map", "heap", virt, f, 1, NoDevice)
      PROVE  VMInv'
  <2>1. f \in Frames /\ f \in Nat /\ f % PAGE_SIZE = 0 /\ f \notin held
    BY <1>2, FrameAssumption DEF FramesAccounted
  <2>2. virt \in Nat /\ virt % PAGE_SIZE = 0 /\ HeapStart <= virt /\ virt < VirtualSize
    BY AreaAssumption, AreaFacts
  <2>3. virt + PAGE_SIZE <= VirtualSize
    <3>1. virt \in Int
      BY <2>2
    <3> QED
      BY <2>2, <3>1, GeometryAssumption, AreaFacts, Apart
  <2>4. 1 * PAGE_SIZE = PAGE_SIZE
    BY GeometryAssumption, Z3
  <2>5. virt + 1 * PAGE_SIZE <= VirtualSize /\ 1 \in Nat \ {0}
    BY <2>3, <2>4
  <2>6. /\ CallTypes' /\ Virt' = virt /\ CallEnd' = virt + 1 * PAGE_SIZE
        /\ call'.op = "map" /\ call'.client = "heap" /\ call'.virt = virt
        /\ call'.phys = f /\ call'.pages = 1 /\ call'.dev = NoDevice
    BY <1>1, <1>5, <2>1, <2>2, <2>5, BeginFacts
  <2>7. Leaves' /\ FramesAccounted'
    BY <1>1, <1>2, <1>5, <2>1 DEF Leaves, FramesAccounted
  <2>8. HeapCall'
    <3>1. \A t \in DOMAIN tables, i \in Slots :
            tables[t].level = 4 => tables[t].ent[i] # f
      BY <1>2, <2>1, TablesAreFrames DEF Leaves
    <3> QED
      BY <1>1, <1>5, <2>2, <2>6, <3>1 DEF HeapCall
  <2>9. WindowCall' /\ UnmapCall' /\ FreshFrom' = nextMMIOVirt'
    BY <2>6 DEF WindowCall, UnmapCall, FreshFrom
  <2>10. Fresh'
    BY <1>1, <1>2, <1>4, <2>9 DEF Fresh, SameMap
  <2> QED
    BY <1>2, <1>3, <2>6, <2>7, <2>8, <2>9, <2>10 DEF VMInv
<1>6. ASSUME free' = free, held' = held, call' = call
      PROVE  VMInv'
  <2>1. CallTypes' /\ HeapCall' /\ WindowCall' /\ UnmapCall' /\ FreshFrom' = nextMMIOVirt'
    BY <1>1, <1>2, <1>6, AtRest
  <2>2. Leaves' /\ FramesAccounted'
    BY <1>1, <1>2, <1>6 DEF Leaves, FramesAccounted
  <2>3. Fresh'
    BY <1>1, <1>2, <1>4, <2>1 DEF Fresh, SameMap
  <2> QED
    BY <1>2, <1>3, <2>1, <2>2, <2>3 DEF VMInv
<1> QED
  BY <1>5, <1>6 DEF MapHeapPage

(* A new window takes the addresses past all others.                        *)
LEMMA InterfaceInv ==
  ASSUME VMInv, NEW d \in Devices, Interface(d)
  PROVE  VMInv'
<1> DEFINE b == alignDown(d.physical, PAGE_SIZE)
           s == MappedSize(d)
           pages == s \div PAGE_SIZE
<1>1. /\ call = Idle /\ tables' = tables /\ free' = free /\ held' = held
      /\ windows' = windows /\ nextMMIOVirt' = nextMMIOVirt + s
      /\ nextMMIOVirt + s <= VirtualSize
      /\ call' = Begin("map", "mmio", nextMMIOVirt, b, pages, d)
  BY DEF Interface, Advance
<1>2. SameMap /\ FramesAccounted /\ Leaves /\ Fresh /\ WindowsOK /\ TreeOK(tables')
  BY <1>1, SameTables DEF VMInv
<1>3. /\ b \in Nat /\ b % PAGE_SIZE = 0 /\ s \in Nat \ {0} /\ s % PAGE_SIZE = 0
  BY DevicePages
<1>4. pages \in Nat \ {0} /\ pages * PAGE_SIZE = s
  BY <1>3, WholePages
<1>5. /\ nextMMIOVirt \in Nat /\ nextMMIOVirt % PAGE_SIZE = 0 /\ MmioStart <= nextMMIOVirt
  BY <1>2 DEF Fresh
<1> HIDE DEF b, s, pages
<1>6. PICK start \in Nat : start = nextMMIOVirt
  BY <1>5
<1>7. /\ CallTypes' /\ Virt' = start /\ CallEnd' = start + pages * PAGE_SIZE
      /\ call'.op = "map" /\ call'.client = "mmio" /\ call'.virt = start
      /\ call'.phys = b /\ call'.pages = pages /\ call'.dev = d
  <2>1. call' = Begin("map", "mmio", start, b, pages, d)
    BY <1>1, <1>6
  <2>2. start % PAGE_SIZE = 0 /\ start + pages * PAGE_SIZE <= VirtualSize
    BY <1>1, <1>4, <1>5, <1>6
  <2> QED
    BY <1>1, <1>3, <1>4, <1>6, <2>1, <2>2, BeginFacts
<1>8. Leaves' /\ FramesAccounted'
  BY <1>1, <1>2 DEF Leaves, FramesAccounted
<1>9. HeapCall' /\ UnmapCall' /\ FreshFrom' = start /\ FreshFrom = start
  BY <1>1, <1>6, <1>7 DEF HeapCall, UnmapCall, FreshFrom, Idle
<1>10. \A w \in windows : WindowEnd(w) <= start /\ WindowEnd(w) \in Nat
  <2> TAKE w \in windows
  <2>1. WindowOK(w)
    BY <1>2 DEF WindowsOK
  <2>2. w.mappedSize \in Nat
    BY <2>1, DevicePages DEF WindowOK
  <2> QED
    BY <1>6, <2>1, <2>2 DEF WindowOK, WindowEnd
<1>11. WindowCall'
  <2>1. \A v \in Pages : ~(start <= v /\ v < start)
    BY DEF Pages
  <2>2. b = alignDown(d.physical, PAGE_SIZE) /\ s = MappedSize(d)
    BY DEF b, s
  <2> QED
    BY <1>1, <1>4, <1>5, <1>6, <1>7, <1>10, <2>1, <2>2, AreaAssumption DEF WindowCall, WindowEnd
<1>12. WindowsOK'
  <2>1. nextMMIOVirt <= nextMMIOVirt'
    BY <1>1, <1>3, <1>5
  <2>2. \A w \in windows : WindowEnd(w) <= nextMMIOVirt'
    BY <1>1, <1>3, <1>6, <1>10
  <2> QED
    BY <1>1, <1>2, <2>2 DEF WindowsOK, WindowOK, WindowMapped, WindowEnd, SameMap
<1>13. Fresh'
  <2>1. nextMMIOVirt' \in Nat /\ nextMMIOVirt' % PAGE_SIZE = 0
    BY <1>1, <1>3, <1>5, GeometryAssumption, Multiples
  <2>2. MmioStart <= nextMMIOVirt' /\ nextMMIOVirt' <= VirtualSize
    BY <1>1, <1>3, <1>5, AreaAssumption
  <2> QED
    BY <1>2, <1>9, <2>1, <2>2 DEF Fresh, SameMap
<1> QED
  BY <1>2, <1>7, <1>8, <1>9, <1>11, <1>12, <1>13 DEF VMInv

(* The addresses of a window that goes are not those of another.            *)
LEMMA DeleteInterfaceInv ==
  ASSUME VMInv, NEW w \in windows, DeleteInterface(w)
  PROVE  VMInv'
<1> DEFINE pages == w.mappedSize \div PAGE_SIZE
<1>1. /\ call = Idle /\ tables' = tables /\ free' = free /\ held' = held
      /\ windows' = windows \ {w} /\ nextMMIOVirt' = nextMMIOVirt
      /\ call' = Begin("unmap", "mmio", w.mappingBase, 0, pages, NoDevice)
  BY DEF DeleteInterface
<1>2. SameMap /\ FramesAccounted /\ Leaves /\ Fresh /\ WindowsOK /\ TreeOK(tables')
  BY <1>1, SameTables DEF VMInv
<1>3. /\ WindowOK(w) /\ w.mappedSize \in Nat \ {0} /\ w.mappedSize % PAGE_SIZE = 0
      /\ w.mappingBase \in Nat /\ w.mappingBase % PAGE_SIZE = 0
      /\ MmioStart <= w.mappingBase /\ WindowEnd(w) <= nextMMIOVirt
  BY <1>2, DevicePages DEF WindowsOK, WindowOK
<1>4. pages \in Nat \ {0} /\ pages * PAGE_SIZE = w.mappedSize
  BY <1>3, WholePages
<1>5. nextMMIOVirt \in Nat /\ nextMMIOVirt <= VirtualSize /\ VirtualSize \in Int
  BY <1>2, GeometryAssumption, Z3 DEF Fresh, VirtualSize
<1> HIDE DEF pages
<1>6. w.mappingBase + pages * PAGE_SIZE = WindowEnd(w) /\ WindowEnd(w) \in Nat
  BY <1>3, <1>4 DEF WindowEnd
<1>7. /\ CallTypes' /\ CallEnd' = w.mappingBase + pages * PAGE_SIZE
      /\ call'.op = "unmap" /\ call'.virt = w.mappingBase
  <2>1. 0 % PAGE_SIZE = 0 /\ 0 \in Nat
    BY GeometryAssumption, Z3
  <2>2. w.mappingBase + pages * PAGE_SIZE <= VirtualSize
    BY <1>3, <1>5, <1>6
  <2> QED
    BY <1>1, <1>3, <1>4, <2>1, <2>2, BeginFacts
<1>8. Leaves' /\ FramesAccounted'
  BY <1>1, <1>2 DEF Leaves, FramesAccounted
<1>9. HeapCall' /\ WindowCall' /\ FreshFrom' = nextMMIOVirt' /\ FreshFrom = nextMMIOVirt
  BY <1>1, <1>7 DEF HeapCall, WindowCall, FreshFrom, Idle
<1>10. UnmapCall'
  BY <1>1, <1>2, <1>3, <1>6, <1>7 DEF UnmapCall, WindowsOK, WindowEnd
<1>11. WindowsOK'
  BY <1>1, <1>2 DEF WindowsOK, WindowOK, WindowMapped, WindowEnd, SameMap
<1>12. Fresh'
  BY <1>1, <1>2, <1>9 DEF Fresh, SameMap
<1> QED
  BY <1>2, <1>7, <1>8, <1>9, <1>10, <1>11, <1>12 DEF VMInv

(* Every step keeps the invariant.                                          *)
LEMMA StepInv == VMInv /\ [Next]_vars => VMInv'
<1> SUFFICES ASSUME VMInv, [Next]_vars PROVE VMInv'
  OBVIOUS
<1>1. ASSUME UNCHANGED vars PROVE VMInv'
  <2>1. /\ tables' = tables /\ free' = free /\ held' = held
        /\ nextMMIOVirt' = nextMMIOVirt /\ windows' = windows /\ call' = call
    BY <1>1 DEF vars
  <2>2. SameMap /\ SameRange
    BY <2>1, SameTables DEF SameRange
  <2>3. WindowsOK' /\ WindowCall' /\ UnmapCall' /\ Fresh'
    BY <2>1, <2>2, SameMapKeeps
  <2>4. TreeOK(tables') /\ Leaves' /\ FramesAccounted'
    BY <2>1 DEF VMInv, Leaves, FramesAccounted
  <2>5. HeapCall'
    BY <2>1 DEF VMInv, HeapCall
  <2>6. CallTypes'
    BY <2>1 DEF VMInv, CallTypes, Walking, CallEnd, Virt
  <2> QED
    BY <2>3, <2>4, <2>5, <2>6 DEF VMInv
<1>2. CASE Walk
  BY <1>2, DescendInv, newTableInv, mapPageInv, mapPageFailsInv, unmapPageInv DEF Walk
<1>3. CASE \E v \in HeapPages : MapHeapPage(v)
  BY <1>3, MapHeapPageInv
<1>4. CASE \E d \in Devices : Interface(d)
  BY <1>4, InterfaceInv
<1>5. CASE \E w \in windows : DeleteInterface(w)
  BY <1>5, DeleteInterfaceInv
<1>6. CASE Halted
  BY <1>1, <1>6 DEF Halted
<1> QED
  BY <1>1, <1>2, <1>3, <1>4, <1>5, <1>6 DEF Next

-----------------------------------------------------------------------------
(* The theorems *)

(* VMInv holds in every state: the inductive invariant of the page tables.  *)
THEOREM VMInvariant == Spec => []VMInv
<1> QED
  BY InitInv, StepInv, PTL DEF Spec

(* The types of the tables and of the call, from the invariant.             *)
LEMMA InvGivesTypes == VMInv => TypeOK
<1> SUFFICES ASSUME VMInv PROVE TypeOK
  OBVIOUS
<1>1. DOMAIN tables \subseteq Frames /\ free \subseteq Frames /\ held \subseteq Frames
  BY TablesAreFrames DEF VMInv
<1>2. \A t \in DOMAIN tables :
        /\ tables[t].level \in 1 .. Levels
        /\ tables[t].ent \in [0 .. PAGE_ENTRIES - 1 -> Pointer]
  BY DEF VMInv, TreeOK, Typed, Levels, Slots
<1>3. /\ nextMMIOVirt \in Nat /\ nextMMIOVirt % PAGE_SIZE = 0
      /\ call \in CallRecord(DOMAIN tables) /\ call.level = tables[call.table].level
  BY DEF VMInv, Fresh, CallTypes
<1>4. call.op \in {"idle", "map", "unmap", "panic"} /\ call.table \in DOMAIN tables
  BY <1>3 DEF CallRecord
<1>5. Virt % PAGE_SIZE = 0 /\ Phys % PAGE_SIZE = 0
  <2>1. CASE Walking
    BY <2>1, WalkStateHolds DEF WalkState, Pages
  <2>2. CASE ~Walking
    <3>1. call.virt = 0 /\ call.phys = 0 /\ call.i = 0
      BY <2>2 DEF VMInv, CallTypes, Idle, Panic
    <3>2. 0 * PAGE_SIZE = 0 /\ 0 % PAGE_SIZE = 0
      BY GeometryAssumption, Z3
    <3> QED
      BY <3>1, <3>2 DEF Virt, Phys
  <2> QED
    BY <2>1, <2>2
<1> QED
  BY <1>1, <1>2, <1>3, <1>4, <1>5 DEF TypeOK

(* The tables form a tree, from the invariant.                              *)
LEMMA InvGivesTree == VMInv => TableTree
<1> SUFFICES ASSUME VMInv PROVE TableTree
  OBVIOUS
<1>1. TypeOK
  BY InvGivesTypes
<1>2. Typed(tables) /\ Levelled(tables) /\ OneParent(tables) /\ NoneLost(tables)
  BY DEF VMInv, TreeOK
<1>3. DOMAIN tables \subseteq Frames /\ NONE \notin DOMAIN tables
  BY TablesAreFrames DEF VMInv
<1>4. \A l \in Links :
        /\ l = <<l[1], l[2]>> /\ l[1] \in DOMAIN tables /\ l[2] \in Slots
        /\ tables[l[1]].level < 4 /\ tables[l[1]].ent[l[2]] # NONE
  BY DEF Links, Inner, Levels, Slots
<1>5. \A l \in Links :
        /\ Target(l) \in DOMAIN tables \ {Root}
        /\ tables[Target(l)].level = tables[l[1]].level + 1
  BY <1>2, <1>4 DEF Levelled, Target
<1>6. \A l, m \in Links : Target(l) = Target(m) => l = m
  <2> SUFFICES ASSUME NEW l \in Links, NEW m \in Links, Target(l) = Target(m)
               PROVE  l = m
    OBVIOUS
  <2>1. l[1] = m[1] /\ l[2] = m[2]
    BY <1>2, <1>4 DEF OneParent, Target
  <2> QED
    BY <1>4, <2>1
<1>7. ASSUME NEW t \in DOMAIN tables \ {Root}
      PROVE  \E l \in Links : Target(l) = t
  <2>1. PICK u \in DOMAIN tables, i \in Slots :
          tables[u].level < 4 /\ tables[u].ent[i] = t
    BY <1>2 DEF NoneLost
  <2>2. t # NONE
    BY <1>3
  <2>3. <<u, i>> \in Links /\ Target(<<u, i>>) = t
    BY <2>1, <2>2 DEF Links, Inner, Levels, Slots, Target
  <2> QED
    BY <2>3
<1>8. {Target(l) : l \in Links} = DOMAIN tables \ {Root}
  BY <1>5, <1>7
<1>9. \A t \in DOMAIN tables \ Inner : \A i \in 0 .. PAGE_ENTRIES - 1 :
        tables[t].ent[i] \notin DOMAIN tables
  <2> SUFFICES ASSUME NEW t \in DOMAIN tables \ Inner, NEW i \in Slots
               PROVE  tables[t].ent[i] \notin DOMAIN tables
    BY DEF Slots
  <2>1. tables[t].level = 4
    BY <1>2 DEF Typed, Inner, Levels
  <2>2. tables[t].ent[i] = NONE \/ tables[t].ent[i] \in held \cup (Nat \ Frames)
    BY <2>1 DEF VMInv, Leaves
  <2> QED
    BY <1>3, <2>2 DEF VMInv, FramesAccounted
<1> QED
  BY <1>1, <1>5, <1>6, <1>8, <1>9 DEF TableTree

(* The bytes of one page are translated with it.                            *)
LEMMA ByteTranslation ==
  ASSUME NEW v \in Nat, v % PAGE_SIZE = 0, NEW r \in 0 .. PAGE_SIZE - 1,
         Translation(v) # NONE
  PROVE  virtToPhysical(v + r) = Translation(v) + r
<1>1. \A l : Index(v + r, l) = Index(v, l)
  BY SamePageIndex
<1>2. (v + r) % PAGE_SIZE = r
  BY SamePageIndex
<1>3. Translation(v + r) = Translation(v)
  BY <1>1 DEF Translation
<1> QED
  BY <1>2, <1>3 DEF virtToPhysical

(* A window is over the bytes of its device.                                *)
LEMMA WindowReaches ==
  ASSUME VMInv, NEW w \in windows, NEW k \in 0 .. w.dev.size - 1
  PROVE  virtToPhysical(w.base + k) = w.dev.physical + k
<1> DEFINE b == alignDown(w.dev.physical, PAGE_SIZE)
           x == w.dev.physical - b + k
           a == alignDown(x, PAGE_SIZE)
           v == w.mappingBase + a
           r == x - a
<1>1. WindowOK(w) /\ WindowMapped(w)
  BY DEF VMInv, WindowsOK
<1>2. /\ w.dev \in Devices /\ w.mappingBase \in Nat /\ w.mappingBase % PAGE_SIZE = 0
      /\ w.mappedSize = MappedSize(w.dev)
      /\ w.base = w.mappingBase + (w.dev.physical - b)
      /\ WindowEnd(w) <= nextMMIOVirt
  BY <1>1 DEF WindowOK
<1>3. /\ b \in Nat /\ b <= w.dev.physical /\ w.dev.physical \in Nat
      /\ w.dev.size \in Nat /\ w.mappedSize \in Nat
      /\ w.dev.physical - b + w.dev.size <= w.mappedSize
  BY <1>2, DevicePages
<1> HIDE DEF b
<1>4. x \in Nat /\ x < w.mappedSize
  BY <1>3
<1> HIDE DEF x
<1>5. a \in Nat /\ a % PAGE_SIZE = 0 /\ a <= x /\ x < a + PAGE_SIZE
  BY <1>4, GeometryAssumption, AlignDownFacts
<1> HIDE DEF a
<1>6. nextMMIOVirt \in Nat /\ nextMMIOVirt <= VirtualSize /\ VirtualSize \in Int
  BY GeometryAssumption, Z3 DEF VMInv, Fresh, VirtualSize
<1>7. v \in Nat /\ v % PAGE_SIZE = 0 /\ w.mappingBase <= v /\ v < WindowEnd(w)
  <2>1. v % PAGE_SIZE = 0
    BY <1>2, <1>5, GeometryAssumption, Multiples
  <2> QED
    BY <1>2, <1>3, <1>4, <1>5, <2>1 DEF WindowEnd
<1>8. WindowEnd(w) \in Nat
  BY <1>2, <1>3 DEF WindowEnd
<1>9. v \in Pages
  BY <1>2, <1>6, <1>7, <1>8 DEF Pages
<1>10. Translation(v) = v - w.mappingBase + b
  BY <1>1, <1>7, <1>9 DEF WindowMapped, b
<1>11. Translation(v) = a + b /\ Translation(v) # NONE
  BY <1>2, <1>3, <1>5, <1>10 DEF NONE
<1>12. r \in 0 .. PAGE_SIZE - 1
  BY <1>4, <1>5, GeometryAssumption
<1>13. virtToPhysical(v + r) = Translation(v) + r
  BY <1>7, <1>11, <1>12, ByteTranslation
<1>14. v + r = w.base + k /\ Translation(v) + r = w.dev.physical + k
  BY <1>2, <1>3, <1>4, <1>5, <1>11 DEF x
<1> QED
  BY <1>13, <1>14

(* getNextTable and mapPage build a tree: no table has two parents or is    *)
(* lost, levels go down by one, and no page table is mapped as data.        *)
THEOREM TableTreeHolds == Spec => []TableTree
BY VMInvariant, InvGivesTree, PTL

(* Every frame is free, a table, or the heap's, through every walk that     *)
(* fails half way and every mapPage that refuses.                           *)
THEOREM FramesConserved == Spec => []FramesAccounted
<1>1. VMInv => FramesAccounted
  BY DEF VMInv
<1> QED
  BY <1>1, VMInvariant, PTL

(* A valid mmio::Interface reaches each byte of its device, and as long as  *)
(* the windows lie below the heap the constructor never meets a page in use.*)
THEOREM WindowsReach == Spec => []WindowsReachDevices
<1>1. VMInv => WindowsReachDevices
  BY WindowReaches, WindowPageFree DEF WindowsReachDevices, WindowsAreFresh
<1> QED
  BY <1>1, VMInvariant, PTL

(* mapPage maps a page that was not mapped, unmapPage unmaps one, and no    *)
(* other step changes what the walks find.                                  *)
LEMMA SpaceStep == VMInv /\ [Next]_vars => [Space!SpaceNext]_translation
<1> SUFFICES ASSUME VMInv, [Next]_vars PROVE [Space!SpaceNext]_translation
  OBVIOUS
<1>1. SameMap => translation' = translation
  BY DEF SameMap, translation
<1>2. tables' = tables => translation' = translation
  BY <1>1, SameTables
<1>3. CASE mapPage
  <2>1. /\ \A v \in Pages : Translation(v)' = IF v = Virt THEN Phys ELSE Translation(v)
        /\ Translation(Virt) = NONE /\ Virt \in Pages /\ Phys \in Nat
    BY <1>3, mapPageEffect
  <2>2. PICK v \in Pages : v = Virt
    BY <2>1
  <2>3. translation[v] = NONE /\ translation'[v] = Phys
    BY <2>1, <2>2 DEF translation
  <2>4. translation' = [translation EXCEPT ![v] = Phys]
    BY <2>1, <2>2 DEF translation
  <2>5. Space!Map(v)
    BY <2>1, <2>3, <2>4 DEF Space!Map
  <2> QED
    BY <2>5 DEF Space!SpaceNext
<1>4. CASE unmapPage
  <2>1. /\ \A v \in Pages : Translation(v)' = IF v = Virt THEN NONE ELSE Translation(v)
        /\ Virt \in Pages
    BY <1>4, unmapPageEffect
  <2>2. PICK v \in Pages : v = Virt
    BY <2>1
  <2>3. CASE Translation(v) = NONE
    BY <1>1, <2>1, <2>2, <2>3 DEF SameMap
  <2>4. CASE Translation(v) # NONE
    <3>1. translation[v] # NONE /\ translation' = [translation EXCEPT ![v] = NONE]
      BY <2>1, <2>2, <2>4 DEF translation
    <3>2. Space!Unmap(v)
      BY <3>1 DEF Space!Unmap
    <3> QED
      BY <3>2 DEF Space!SpaceNext
  <2> QED
    BY <2>3, <2>4
<1>5. CASE newTable
  <2>1. call.op = "map" /\ ~AtPte /\ Entry = NONE /\ Walking
    BY <1>5 DEF newTable, Walking
  <2>2. CASE tables' = tables
    BY <1>2, <2>2
  <2>3. ASSUME NEW f \in free, tables' = LinkedTo(f) PROVE SameMap
    <3>1. Extended(tables', f)
      BY <2>1, <2>3, TableAdded
    <3> QED
      BY <3>1, TranslationIsWalk DEF Extended, SameMap
  <2> QED
    BY <1>1, <1>5, <2>2, <2>3 DEF newTable
<1>6. CASE Descend \/ mapPageFails \/ Halted \/ UNCHANGED vars
  BY <1>2, <1>6 DEF Descend, mapPageFails, Halted, vars
<1>7. CASE \E v \in HeapPages : MapHeapPage(v)
  BY <1>2, <1>7 DEF MapHeapPage
<1>8. CASE (\E d \in Devices : Interface(d)) \/ (\E w \in windows : DeleteInterface(w))
  BY <1>2, <1>8 DEF Interface, DeleteInterface
<1> QED
  BY <1>3, <1>4, <1>5, <1>6, <1>7, <1>8 DEF Next, Walk

(* The four levels of tables implement a flat map of pages.                 *)
THEOREM Refinement == Spec => ImplementsSpace
<1>1. Init => Space!SpaceInit
  BY InitUnmapped DEF Space!SpaceInit, translation
<1> QED
  BY <1>1, SpaceStep, VMInvariant, PTL DEF Spec, ImplementsSpace, Space!SpaceSpec
=============================================================================
