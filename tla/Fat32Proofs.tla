----------------------------- MODULE Fat32Proofs -----------------------------
(***************************************************************************)
(* Cluster chains of Fat32 end, and its state keeps its types, whichever   *)
(* write fails and wherever the power goes: for every size of volume,      *)
(* whatever clients do.  The second half is about volumes whose clusters   *)
(* carry labels, an owner and a place in the owner's chain: what the labels*)
(* say of the volume, and what stays of them when a part of it changes.    *)
(* Fat32SoundProofs builds on it.                                          *)
(*                                                                         *)
(* The parts of the invariants take the table, the cells, the handles and  *)
(* the call as parameters, so that lemmas speak of the state before a step *)
(* and after it alike.                                                     *)
(***************************************************************************)
EXTENDS Fat32, FiniteSetTheorems, WellFoundedInduction, TLAPS

-----------------------------------------------------------------------------
(* The invariant *)

(* The walk of Nth along a table g.                                         *)
Walk(g, c, n) ==
  LET walk[i \in 0 .. n] ==
        IF i = 0 THEN c
        ELSE IF walk[i - 1] \in Cluster THEN g[walk[i - 1]]
        ELSE walk[i - 1]
  IN  walk[n]

(* The clusters of the chain that starts at c.                              *)
ChainOf(g, c) == {Walk(g, c, n) : n \in 0 .. totalClusters - 1} \cap Cluster

(* No walk goes on for ever.                                                *)
EndsEverywhere(g) == \A c \in Cluster : Walk(g, c, totalClusters) \notin Cluster

(* A table of clusters and marks.                                           *)
FatOK(g) == g \in [Cluster -> Cluster \cup {FreeCluster, EndOfChain}]

Link == Cluster \cup {0}

(* A directory entry is a record that names a cluster of the volume or none.*)
EntryFields == {"kind", "name", "dir", "firstCluster", "size"}
EntOK(e) ==
  /\ e = [f \in EntryFields |-> e[f]]
  /\ e.kind = "entry"
  /\ e.firstCluster \in Link
  /\ e.size \in Nat

(* Cells, slots and directories keep their forms.                           *)
CellOK(cell) == cell.kind = "entry" => EntOK(cell)
SlotOK(slot) == slot \in Cluster \X (1 .. ClusterSize)

CellsOK(cells) ==
  /\ cells = [i \in 1 .. ClusterSize |-> cells[i]]
  /\ \A i \in 1 .. ClusterSize : CellOK(cells[i])

(* All cells of the volume.                                                 *)
DataOK(cells) ==
  /\ cells = [c \in Cluster |-> cells[c]]
  /\ \A c \in Cluster : CellsOK(cells[c])

(* An open file is a record with a slot, a copy of its entry and an offset. *)
FileFields == {"open", "slot", "ent", "offset", "dirty"}
FileOK(file) ==
  /\ file = [f \in FileFields |-> file[f]]
  /\ file.open
  /\ SlotOK(file.slot)
  /\ EntOK(file.ent)
  /\ file.offset \in Nat

(* Every handle is closed or a file.                                        *)
HandlesOK(files) ==
  /\ files = [h \in Handles |-> files[h]]
  /\ \A h \in Handles : files[h] # Closed => FileOK(files[h])

(* A call is a record with the fields of Idle.                              *)
CallFields == {"op", "at", "next", "handle", "n", "mode", "head", "cluster",
               "slot", "old", "ent", "was"}
CallForm(c) == c = [f \in CallFields |-> c[f]]

(* A call has an open file, or an entry that it is about to write.          *)
HasFile(c, files) ==
  c.handle \in Handles /\ files[c.handle] # Closed /\ c.n \in Nat
Locating(c) ==
  c.op \in {"write", "truncate"} /\ (c.op = "truncate" => c.n # 0)
HasEntry(c) ==
  /\ EntOK(c.ent)
  /\ c.op = "rename" => EntOK(c.was)
  /\ c.op = "open" => c.handle \in Handles

(* The step that a call has in view: an allocation and the freeing of a     *)
(* chain are on the way to the one that follows them.                       *)
InView(c) ==
  IF c.at \in {"alloc", "zero", "sync", "free"} THEN c.next ELSE c.at

(* The steps that a call may have in view.                                  *)
Later == {"idle", "undo", "link", "dots", "entry", "clear", "opened", "locate",
          "first", "chunk", "cut", "emptied", "flush", "erase", "rename",
          "update", "rollback"}

(* What a step is going to use.                                             *)
Prepared(to, c, cells, files) ==
  /\ to \in Later
  /\ to = "link" =>
       IF c.op \in {"write", "truncate"} THEN HasFile(c, files) /\ Locating(c)
       ELSE HasEntry(c)
  /\ to = "dots" => HasEntry(c) /\ SlotOK(c.slot) /\ c.head \in Link
  /\ to = "entry" => HasEntry(c) /\ SlotOK(c.slot)
  /\ to \in {"clear", "opened"} =>
       /\ SlotOK(c.slot)
       /\ cells[c.slot[1]][c.slot[2]].kind = "entry"
       /\ c.handle \in Handles
  /\ to \in {"locate", "first", "chunk", "cut", "emptied", "flush"} =>
       HasFile(c, files)
  /\ to \in {"locate", "first", "chunk"} => Locating(c)
  /\ to = "chunk" => c.op = "write"
  /\ to \in {"cut", "emptied"} => c.op = "truncate"
  /\ to = "rename" => EntOK(c.ent)
  /\ to = "update" => SlotOK(c.slot) /\ EntOK(c.was)
  /\ to = "rollback" \/ (to = "erase" /\ c.op = "rename") => SlotOK(c.slot)

(* An allocation leads to where its cluster is used, and the cluster is one *)
(* of the volume.                                                           *)
Allocated(c) ==
  /\ c.at \in {"alloc", "zero"} => c.next \in {"link", "dots", "first"}
  /\ c.at = "free" => c.next \in {"idle", "clear", "cut", "emptied"}
  /\ InView(c) \in {"link", "dots", "first", "chunk"} /\ c.at # "alloc" =>
       c.cluster \in Cluster

(* What is linked is a last cluster, and the chain that it is linked to ends*)
(* as it should and does not have it yet.                                   *)
Linkable(c, g) ==
  InView(c) = "link" =>
    /\ c.head \in Cluster
    /\ Walk(g, c.head, totalClusters) = EndOfChain
    /\ c.at # "alloc" =>
         g[c.cluster] = EndOfChain /\ c.cluster \notin ChainOf(g, c.head)

(* A call in progress is ready for its next step.                           *)
CallOK(c, g, cells, files) ==
  /\ CallForm(c)
  /\ Prepared(InView(c), c, cells, files)
  /\ Allocated(c)
  /\ Linkable(c, g)

(* The inductive invariant of types and of chains that end.                 *)
IInv ==
  /\ FatOK(fat)
  /\ DataOK(data)
  /\ HandlesOK(handles)
  /\ CallOK(call, fat, data, handles)
  /\ EndsEverywhere(fat)

-----------------------------------------------------------------------------
(* Walks along a table g of next clusters                                   *)

(* Induction over the numbers, for a set of them.                           *)
LEMMA SetInduction ==
  ASSUME NEW S, 0 \in S, \A n \in Nat : n \in S => n + 1 \in S
  PROVE  Nat \subseteq S
<1> DEFINE T == {n \in Nat : n \notin S}
<1> SUFFICES ASSUME T # {} PROVE FALSE
  OBVIOUS
<1>1. IsWellFoundedOn(OpToRel(<, Nat), Nat)
  BY NatLessThanWellFounded, Zenon
<1>2. PICK m \in T : \A k \in T : ~(<<k, m>> \in OpToRel(<, Nat))
  BY <1>1, WFMin, Zenon
<1>3. \A k \in Nat : k < m => k \in S
  BY <1>2 DEF OpToRel
<1> QED
  BY <1>3

(* The step from one cluster to the next, where a mark stays a mark.        *)
Follow(g, d) == IF d \in Cluster THEN g[d] ELSE d

(* What the walk of Nth is for a table g and n steps.                       *)
IsWalk(g, c, n, w) ==
  w = [i \in 0 .. n |-> IF i = 0 THEN c
                        ELSE IF w[i - 1] \in Cluster THEN g[w[i - 1]] ELSE w[i - 1]]

(* Nth walks along the table on disk.                                       *)
LEMMA NthWalks ==
  ASSUME NEW c, NEW n
  PROVE  Nth(c, n) = Walk(fat, c, n)
  BY DEF Nth, Walk

(* A walk starts at its first cluster and follows the table.                *)
LEMMA WalkSteps ==
  ASSUME NEW g, NEW c, NEW n \in Nat, NEW w, IsWalk(g, c, n, w)
  PROVE  /\ w[0] = c
         /\ \A i \in Nat : i < n => w[i + 1] = Follow(g, w[i])
<1>1. \A i \in 0 .. n :
        w[i] = IF i = 0 THEN c
               ELSE IF w[i - 1] \in Cluster THEN g[w[i - 1]] ELSE w[i - 1]
  BY DEF IsWalk
<1>2. w[0] = c
  BY <1>1
<1>3. ASSUME NEW i \in Nat, i < n PROVE w[i + 1] = Follow(g, w[i])
  <2>1. i + 1 \in 0 .. n /\ i + 1 # 0 /\ (i + 1) - 1 = i
    BY <1>3
  <2> QED
    BY <1>1, <2>1 DEF Follow
<1> QED
  BY <1>2, <1>3

(* There is a walk of every length.                                         *)
LEMMA WalkExists ==
  ASSUME NEW g, NEW c
  PROVE  \A n \in Nat : \E w : IsWalk(g, c, n, w)
<1> DEFINE S == {n \in Nat : \E w : IsWalk(g, c, n, w)}
           Turn(f, k) == IF k = 0 THEN c
                         ELSE IF f[k - 1] \in Cluster THEN g[f[k - 1]] ELSE f[k - 1]
<1>1. 0 \in S
  <2> DEFINE w == [k \in 0 .. 0 |-> c]
             d == [k \in 0 .. 0 |-> Turn(w, k)]
  <2>1. \A k \in 0 .. 0 : k = 0
    OBVIOUS
  <2>2. w = d
    BY <2>1
  <2>3. IsWalk(g, c, 0, w)
    <3> HIDE DEF w
    <3> QED
      BY <2>2, Zenon DEF IsWalk
  <2> QED
    BY <2>3
<1>2. ASSUME NEW n \in Nat, n \in S PROVE n + 1 \in S
  <2>1. PICK b : IsWalk(g, c, n, b)
    BY <1>2
  <2> DEFINE w == [k \in 0 .. n + 1 |-> IF k = n + 1 THEN Follow(g, b[n]) ELSE b[k]]
             d == [k \in 0 .. n + 1 |-> Turn(w, k)]
  <2>2. \A k \in 0 .. n : b[k] = Turn(b, k)
    BY <2>1 DEF IsWalk
  <2>3. \A k \in 0 .. n + 1 : w[k] = Turn(w, k)
    <3> TAKE k \in 0 .. n + 1
    <3>1. CASE k = n + 1
      <4>1. w[k] = Follow(g, b[n])
        BY <3>1
      <4>2. k - 1 = n /\ k # 0 /\ n \in 0 .. n + 1 /\ n # n + 1
        BY <3>1
      <4>3. w[k - 1] = b[n]
        BY <4>2
      <4> QED
        BY <4>1, <4>2, <4>3 DEF Follow
    <3>2. CASE k \in 0 .. n
      <4>1. k # n + 1 /\ w[k] = b[k]
        BY <3>2
      <4>2. CASE k = 0
        BY <4>1, <4>2, <2>2, <3>2
      <4>3. CASE k # 0
        <5>1. k - 1 \in 0 .. n + 1 /\ k - 1 # n + 1
          BY <4>3, <3>2
        <5>2. w[k - 1] = b[k - 1]
          BY <5>1
        <5> QED
          BY <4>1, <4>3, <5>2, <2>2, <3>2
      <4> QED
        BY <4>2, <4>3
    <3> QED
      BY <3>1, <3>2
  <2>4. w = d
    <3> HIDE DEF Turn
    <3> QED
      BY <2>3
  <2>5. IsWalk(g, c, n + 1, w)
    <3> HIDE DEF w
    <3> QED
      BY <2>4, Zenon DEF IsWalk
  <2> QED
    BY <2>5
<1> HIDE DEF S
<1>3. Nat \subseteq S
  BY <1>1, <1>2, SetInduction
<1> QED
  BY <1>3 DEF S

(* Walk is what a walk of its length comes to.                              *)
LEMMA WalkIsAWalk ==
  ASSUME NEW g, NEW c, NEW n \in Nat
  PROVE  \E w : IsWalk(g, c, n, w) /\ Walk(g, c, n) = w[n]
<1> DEFINE b == CHOOSE w : IsWalk(g, c, n, w)
<1>1. IsWalk(g, c, n, b)
  BY WalkExists, Zenon
<1>2. Walk(g, c, n) = b[n]
  BY DEF Walk, IsWalk
<1> QED
  BY <1>1, <1>2

(* Walks of different lengths agree as far as both go.                      *)
LEMMA WalksAgree ==
  ASSUME NEW g, NEW c, NEW n \in Nat, NEW m \in Nat, n <= m,
         NEW v, IsWalk(g, c, n, v), NEW w, IsWalk(g, c, m, w)
  PROVE  \A i \in 0 .. n : v[i] = w[i]
<1> DEFINE S == {i \in Nat : i <= n => v[i] = w[i]}
<1>1. v[0] = c /\ \A i \in Nat : i < n => v[i + 1] = Follow(g, v[i])
  BY WalkSteps
<1>2. w[0] = c /\ \A i \in Nat : i < m => w[i + 1] = Follow(g, w[i])
  BY WalkSteps
<1>3. 0 \in S
  BY <1>1, <1>2
<1>4. \A i \in Nat : i \in S => i + 1 \in S
  BY <1>1, <1>2
<1> HIDE DEF S
<1>5. Nat \subseteq S
  BY <1>3, <1>4, SetInduction
<1> QED
  BY <1>5 DEF S

(* So one more step of a walk follows the table once more.                  *)
LEMMA WalkNext ==
  ASSUME NEW g, NEW c
  PROVE  /\ Walk(g, c, 0) = c
         /\ \A n \in Nat : Walk(g, c, n + 1) = Follow(g, Walk(g, c, n))
<1>1. Walk(g, c, 0) = c
  <2>1. PICK w : IsWalk(g, c, 0, w) /\ Walk(g, c, 0) = w[0]
    BY WalkIsAWalk
  <2> QED
    BY <2>1, WalkSteps
<1>2. ASSUME NEW n \in Nat PROVE Walk(g, c, n + 1) = Follow(g, Walk(g, c, n))
  <2>1. PICK v : IsWalk(g, c, n, v) /\ Walk(g, c, n) = v[n]
    BY WalkIsAWalk
  <2>2. PICK w : IsWalk(g, c, n + 1, w) /\ Walk(g, c, n + 1) = w[n + 1]
    BY WalkIsAWalk
  <2>3. \A i \in 0 .. n : v[i] = w[i]
    BY <2>1, <2>2, WalksAgree
  <2>4. w[n + 1] = Follow(g, w[n])
    BY <2>2, WalkSteps
  <2> QED
    BY <2>1, <2>2, <2>3, <2>4
<1> QED
  BY <1>1, <1>2

(* A walk that has come to a mark stays there.                              *)
LEMMA MarkStays ==
  ASSUME NEW g, NEW c, NEW n \in Nat, Walk(g, c, n) \notin Cluster,
         NEW m \in Nat, n <= m
  PROVE  Walk(g, c, m) = Walk(g, c, n)
<1> DEFINE S == {k \in Nat : Walk(g, c, n + k) = Walk(g, c, n)}
<1>1. 0 \in S
  OBVIOUS
<1>2. ASSUME NEW k \in Nat, k \in S PROVE k + 1 \in S
  <2>1. n + k \in Nat /\ n + (k + 1) = (n + k) + 1
    OBVIOUS
  <2>2. Walk(g, c, (n + k) + 1) = Follow(g, Walk(g, c, n + k))
    BY <2>1, WalkNext
  <2>3. Walk(g, c, n + k) = Walk(g, c, n)
    BY <1>2
  <2> QED
    BY <2>1, <2>2, <2>3 DEF Follow
<1> HIDE DEF S
<1>3. Nat \subseteq S
  BY <1>1, <1>2, SetInduction
<1>4. m - n \in Nat /\ n + (m - n) = m
  OBVIOUS
<1>5. m - n \in S
  BY <1>3, <1>4
<1> QED
  BY <1>4, <1>5 DEF S

(* The volume has as many clusters as it says.                              *)
LEMMA ClustersCounted ==
  /\ IsFiniteSet(Cluster)
  /\ Cardinality(Cluster) = totalClusters
  /\ totalClusters \in Nat /\ totalClusters >= 2
  /\ 0 \notin Cluster /\ -1 \notin Cluster /\ rootCluster \in Cluster
<1>1. totalClusters \in Nat /\ totalClusters >= 2
  BY VolumeAssumption
<1>2. 2 \in Int /\ totalClusters + 1 \in Int
  BY <1>1
<1>3. /\ IsFiniteSet(2 .. totalClusters + 1)
      /\ Cardinality(2 .. totalClusters + 1) =
           IF 2 > totalClusters + 1 THEN 0 ELSE (totalClusters + 1) - 2 + 1
  BY <1>2, FS_Interval
<1> QED
  BY <1>1, <1>3 DEF Cluster, rootCluster

(* A walk that ever comes to a mark has come to it after totalClusters      *)
(* steps: else it would have met a cluster twice and gone round for ever.   *)
LEMMA EndsInTime ==
  ASSUME NEW g, NEW c, NEW e \in Nat, Walk(g, c, e) \notin Cluster
  PROVE  Walk(g, c, totalClusters) \notin Cluster
<1> DEFINE T == totalClusters
           w(n) == Walk(g, c, n)
<1>1. T \in Nat /\ IsFiniteSet(Cluster) /\ Cardinality(Cluster) = T
  BY ClustersCounted
<1> HIDE DEF T, w
<1>next. \A n \in Nat : w(n + 1) = Follow(g, w(n))
  BY WalkNext DEF w
<1> SUFFICES ASSUME w(T) \in Cluster PROVE FALSE
  BY DEF w, T
<1>2. \A n \in 0 .. T : w(n) \in Cluster
  <2> SUFFICES ASSUME NEW n \in 0 .. T, w(n) \notin Cluster PROVE FALSE
    OBVIOUS
  <2>1. w(T) = w(n)
    BY <1>1, MarkStays DEF w
  <2> QED
    BY <2>1
<1> DEFINE f == [n \in 0 .. T |-> w(n)]
<1>3. f \in [0 .. T -> Cluster]
  BY <1>2
<1>4. IsFiniteSet(0 .. T) /\ Cardinality(0 .. T) = T + 1
  <2>1. 0 \in Int /\ T \in Int
    BY <1>1
  <2>2. /\ IsFiniteSet(0 .. T)
        /\ Cardinality(0 .. T) = IF 0 > T THEN 0 ELSE T - 0 + 1
    BY <2>1, FS_Interval
  <2> QED
    BY <2>2, <1>1
<1>5. Cardinality(Cluster) < Cardinality(0 .. T)
  BY <1>1, <1>4
<1>6. \E i, j \in 0 .. T : i # j /\ f[i] = f[j]
  <2> HIDE DEF f
  <2> QED
    BY <1>1, <1>3, <1>4, <1>5, FS_PigeonHole
<1>7. \E i, j \in 0 .. T : i < j /\ w(i) = w(j)
  <2>1. PICK i \in 0 .. T, j \in 0 .. T : i # j /\ f[i] = f[j]
    BY <1>6
  <2>2. w(i) = w(j)
    BY <2>1
  <2>3. i < j \/ j < i
    BY <2>1, <1>1
  <2> QED
    BY <2>2, <2>3
<1>8. PICK i \in 0 .. T, j \in 0 .. T : i < j /\ w(i) = w(j)
  BY <1>7
<1> DEFINE S == {m \in Nat : \E k \in 0 .. j - 1 : w(m) = w(k)}
<1>9. 0 \in S
  BY <1>8, <1>1
<1>10. ASSUME NEW m \in Nat, m \in S PROVE m + 1 \in S
  <2>1. PICK k \in 0 .. j - 1 : w(m) = w(k)
    BY <1>10
  <2>2. w(m + 1) = w(k + 1)
    <3>1. k \in Nat
      BY <2>1
    <3> QED
      BY <2>1, <3>1, <1>next
  <2>3. CASE k + 1 = j
    <3>1. i \in 0 .. j - 1
      BY <1>8, <1>1
    <3> QED
      BY <2>2, <2>3, <3>1, <1>8
  <2>4. CASE k + 1 # j
    <3>1. k + 1 \in 0 .. j - 1
      BY <2>4, <2>1, <1>1
    <3> QED
      BY <2>2, <3>1
  <2> QED
    BY <2>3, <2>4
<1> HIDE DEF S
<1>11. Nat \subseteq S
  BY <1>9, <1>10, SetInduction
<1>12. e \in S
  BY <1>11
<1>13. PICK k \in 0 .. j - 1 : w(e) = w(k)
  BY <1>12 DEF S
<1>14. w(e) \in Cluster
  BY <1>13, <1>2, <1>1
<1> QED
  BY <1>14 DEF w

(* Then a walk from anywhere ends in time.                                  *)
LEMMA AnyWalkEnds ==
  ASSUME NEW g, EndsEverywhere(g), NEW c, NEW n \in Nat, n >= totalClusters
  PROVE  /\ Walk(g, c, n) = Walk(g, c, totalClusters)
         /\ Walk(g, c, n) \notin Cluster
<1>1. totalClusters \in Nat
  BY ClustersCounted
<1>2. Walk(g, c, totalClusters) \notin Cluster
  <2>1. CASE c \in Cluster
    BY <2>1 DEF EndsEverywhere
  <2>2. CASE c \notin Cluster
    <3>1. Walk(g, c, 0) = c
      BY WalkNext
    <3>2. Walk(g, c, totalClusters) = Walk(g, c, 0)
      BY <3>1, <2>2, <1>1, MarkStays
    <3> QED
      BY <3>1, <3>2, <2>2
  <2> QED
    BY <2>1, <2>2
<1>3. Walk(g, c, n) = Walk(g, c, totalClusters)
  BY <1>1, <1>2, MarkStays
<1> QED
  BY <1>2, <1>3

(* Table h is g with v for x.                                               *)
Changed(g, x, v, h) == \A d \in Cluster : h[d] = IF d = x THEN v ELSE g[d]

(* A table in which an entry becomes a mark: every walk goes as before, or  *)
(* ends at the new mark.                                                    *)
LEMMA MarkCuts ==
  ASSUME NEW g, NEW x, NEW v, v \notin Cluster, NEW h, Changed(g, x, v, h), NEW c
  PROVE  \A n \in Nat : Walk(h, c, n) \in {Walk(g, c, n), v}
<1> DEFINE S == {n \in Nat : Walk(h, c, n) \in {Walk(g, c, n), v}}
<1>1. 0 \in S
  BY WalkNext
<1>2. ASSUME NEW n \in Nat, n \in S PROVE n + 1 \in S
  <2>1. /\ Walk(h, c, n + 1) = Follow(h, Walk(h, c, n))
        /\ Walk(g, c, n + 1) = Follow(g, Walk(g, c, n))
    BY WalkNext
  <2>2. \A d : Follow(h, d) = Follow(g, d) \/ Follow(h, d) = v
    BY DEF Follow, Changed
  <2>3. Follow(h, v) = v
    BY DEF Follow
  <2>4. Walk(h, c, n) = Walk(g, c, n) \/ Walk(h, c, n) = v
    BY <1>2
  <2> QED
    BY <2>1, <2>2, <2>3, <2>4
<1> HIDE DEF S
<1>3. Nat \subseteq S
  BY <1>1, <1>2, SetInduction
<1> QED
  BY <1>3 DEF S

(* So it has no loop that was not there.                                    *)
LEMMA MarkMakesNoLoop ==
  ASSUME NEW g, EndsEverywhere(g), NEW x, NEW v, v \notin Cluster,
         NEW h, Changed(g, x, v, h)
  PROVE  EndsEverywhere(h)
<1>1. totalClusters \in Nat
  BY ClustersCounted
<1>2. \A c \in Cluster : Walk(h, c, totalClusters) \in {Walk(g, c, totalClusters), v}
  BY <1>1, MarkCuts
<1> QED
  BY <1>2 DEF EndsEverywhere

(* A walk that does not pass the entry that changes goes as before.         *)
LEMMA PassesBy ==
  ASSUME NEW g, NEW x, NEW v, NEW h, Changed(g, x, v, h), NEW c,
         \A n \in Nat : Walk(g, c, n) # x
  PROVE  \A n \in Nat : Walk(h, c, n) = Walk(g, c, n)
<1> DEFINE S == {n \in Nat : Walk(h, c, n) = Walk(g, c, n)}
<1>1. 0 \in S
  BY WalkNext
<1>2. ASSUME NEW n \in Nat, n \in S PROVE n + 1 \in S
  <2>1. /\ Walk(h, c, n + 1) = Follow(h, Walk(h, c, n))
        /\ Walk(g, c, n + 1) = Follow(g, Walk(g, c, n))
    BY WalkNext
  <2>2. \A d : d # x => Follow(h, d) = Follow(g, d)
    BY DEF Follow, Changed
  <2> QED
    BY <2>1, <2>2, <1>2
<1> HIDE DEF S
<1>3. Nat \subseteq S
  BY <1>1, <1>2, SetInduction
<1> QED
  BY <1>3 DEF S

(* Linking a last cluster behind another cluster makes no loop: a walk that *)
(* passes the link ends two steps later.                                    *)
LEMMA LinkMakesNoLoop ==
  ASSUME NEW g, EndsEverywhere(g),
         NEW x \in Cluster, NEW y \in Cluster, x # y, g[y] \notin Cluster,
         NEW h, Changed(g, x, y, h)
  PROVE  EndsEverywhere(h)
<1> SUFFICES ASSUME NEW c \in Cluster
             PROVE  Walk(h, c, totalClusters) \notin Cluster
  BY DEF EndsEverywhere
<1>1. totalClusters \in Nat
  BY ClustersCounted
<1>2. h[x] = y /\ h[y] = g[y]
  BY DEF Changed
<1>3. CASE \E n \in Nat : Walk(h, c, n) = x
  <2>1. PICK n \in Nat : Walk(h, c, n) = x
    BY <1>3
  <2>2. Walk(h, c, n + 1) = y
    <3>1. Walk(h, c, n + 1) = Follow(h, x)
      BY <2>1, WalkNext
    <3> QED
      BY <3>1, <1>2 DEF Follow
  <2>3. Walk(h, c, (n + 1) + 1) = g[y]
    <3>1. \A k \in Nat : Walk(h, c, k + 1) = Follow(h, Walk(h, c, k))
      BY WalkNext
    <3>2. Walk(h, c, (n + 1) + 1) = Follow(h, y)
      BY <3>1, <2>2
    <3> QED
      BY <3>2, <1>2 DEF Follow
  <2>4. (n + 1) + 1 \in Nat /\ Walk(h, c, (n + 1) + 1) \notin Cluster
    BY <2>3
  <2> QED
    BY <2>4, EndsInTime
<1>4. CASE \A n \in Nat : Walk(h, c, n) # x
  <2>1. Changed(h, x, g[x], g)
    BY DEF Changed
  <2>2. \A n \in Nat : Walk(g, c, n) = Walk(h, c, n)
    BY <2>1, <1>4, PassesBy
  <2> QED
    BY <2>2, <1>1 DEF EndsEverywhere
<1> QED
  BY <1>3, <1>4

(* A chain that ends has a last cluster, and it holds the mark.             *)
LEMMA LastExists ==
  ASSUME NEW g, NEW c \in Cluster, Walk(g, c, totalClusters) \notin Cluster
  PROVE  \E m \in 0 .. totalClusters - 1 :
           /\ Walk(g, c, m) \in Cluster
           /\ g[Walk(g, c, m)] = Walk(g, c, totalClusters)
<1> DEFINE T == totalClusters
           S == {n \in Nat : \/ Walk(g, c, n) \in Cluster
                             \/ \E m \in 0 .. n - 1 :
                                  /\ Walk(g, c, m) \in Cluster
                                  /\ g[Walk(g, c, m)] = Walk(g, c, n)}
<1>1. T \in Nat
  BY ClustersCounted
<1>2. 0 \in S
  BY WalkNext
<1>3. ASSUME NEW n \in Nat, n \in S PROVE n + 1 \in S
  <2>1. Walk(g, c, n + 1) = Follow(g, Walk(g, c, n))
    BY WalkNext
  <2>2. CASE Walk(g, c, n) \in Cluster
    <3>1. g[Walk(g, c, n)] = Walk(g, c, n + 1)
      BY <2>1, <2>2 DEF Follow
    <3>2. n \in 0 .. (n + 1) - 1
      OBVIOUS
    <3> QED
      BY <3>1, <3>2, <2>2
  <2>3. CASE /\ Walk(g, c, n) \notin Cluster
             /\ \E m \in 0 .. n - 1 :
                  /\ Walk(g, c, m) \in Cluster
                  /\ g[Walk(g, c, m)] = Walk(g, c, n)
    <3>1. Walk(g, c, n + 1) = Walk(g, c, n)
      BY <2>1, <2>3 DEF Follow
    <3>2. PICK m \in 0 .. n - 1 : /\ Walk(g, c, m) \in Cluster
                                 /\ g[Walk(g, c, m)] = Walk(g, c, n)
      BY <2>3
    <3>3. m \in 0 .. (n + 1) - 1
      OBVIOUS
    <3> QED
      BY <3>1, <3>2, <3>3
  <2> QED
    BY <2>2, <2>3, <1>3
<1> HIDE DEF S
<1>4. Nat \subseteq S
  BY <1>2, <1>3, SetInduction
<1>5. T \in S
  BY <1>1, <1>4
<1> QED
  BY <1>5 DEF S

(* The chains and the end marks of Fat32 are those of the table on disk.    *)
LEMMA ChainsWalk ==
  ASSUME NEW c
  PROVE  Chain(c) = ChainOf(fat, c) /\ EndMark(c) = Walk(fat, c, totalClusters)
<1>1. \A n : Nth(c, n) = Walk(fat, c, n)
  BY NthWalks
<1> QED
  BY <1>1 DEF Chain, ChainOf, EndMark

(* A chain has no more clusters than it takes steps to the mark: a place    *)
(* below its length lies in a cluster.                                      *)
LEMMA PlacesLieInChain ==
  ASSUME NEW g, NEW c, NEW n \in Nat, n < Cardinality(ChainOf(g, c))
  PROVE  Walk(g, c, n) \in Cluster
<1> SUFFICES ASSUME Walk(g, c, n) \notin Cluster PROVE FALSE
  OBVIOUS
<1> DEFINE I == {Walk(g, c, m) : m \in 0 .. n - 1}
           f == [m \in 0 .. n - 1 |-> Walk(g, c, m)]
<1>0. totalClusters \in Nat
  BY ClustersCounted
<1>1. ChainOf(g, c) \subseteq I
  <2> SUFFICES ASSUME NEW m \in 0 .. totalClusters - 1, Walk(g, c, m) \in Cluster
               PROVE  Walk(g, c, m) \in I
    BY DEF ChainOf
  <2>1. m \in Nat
    BY <1>0
  <2>2. m < n
    <3> SUFFICES ASSUME n <= m PROVE FALSE
      BY <2>1
    <3>1. Walk(g, c, m) = Walk(g, c, n)
      BY <2>1, MarkStays
    <3> QED
      BY <3>1
  <2>3. m \in 0 .. n - 1
    BY <2>1, <2>2
  <2> QED
    BY <2>3
<1>2. f \in Surjection(0 .. n - 1, I)
  <2>1. f \in [0 .. n - 1 -> I]
    OBVIOUS
  <2>2. \A t \in I : \E m \in 0 .. n - 1 : f[m] = t
    OBVIOUS
  <2> HIDE DEF f, I
  <2> QED
    BY <2>1, <2>2 DEF Surjection
<1>3. IsFiniteSet(0 .. n - 1) /\ Cardinality(0 .. n - 1) = n
  <2>1. 0 \in Int /\ n - 1 \in Int
    OBVIOUS
  <2>2. /\ IsFiniteSet(0 .. n - 1)
        /\ Cardinality(0 .. n - 1) = IF 0 > n - 1 THEN 0 ELSE (n - 1) - 0 + 1
    BY <2>1, FS_Interval
  <2> QED
    BY <2>2
<1> HIDE DEF f, I
<1>4. IsFiniteSet(I) /\ Cardinality(I) <= n
  BY <1>2, <1>3, FS_Surjection
<1>5. Cardinality(ChainOf(g, c)) <= Cardinality(I) /\ IsFiniteSet(ChainOf(g, c))
  BY <1>1, <1>4, FS_Subset
<1>6. Cardinality(I) \in Nat /\ Cardinality(ChainOf(g, c)) \in Nat
  BY <1>4, <1>5, FS_CardinalityType
<1> QED
  BY <1>4, <1>5, <1>6

-----------------------------------------------------------------------------
(* The records                                                              *)

(* Record c with its fields, but for those that no proof looks at.          *)
Is(c, op, at, next, handle, n, head, cluster, slot, ent, was) ==
  /\ CallForm(c)
  /\ c.op = op /\ c.at = at /\ c.next = next /\ c.handle = handle
  /\ c.n = n /\ c.head = head /\ c.cluster = cluster /\ c.slot = slot
  /\ c.ent = ent /\ c.was = was

(* What the steps of the calls make of one.                                 *)
LEMMA Moves ==
  ASSUME NEW c, CallForm(c), NEW label, NEW x, NEW y
  PROVE  /\ Is([c EXCEPT !.at = label],
               c.op, label, c.next, c.handle, c.n, c.head, c.cluster, c.slot, c.ent, c.was)
         /\ Is([c EXCEPT !.at = label, !.cluster = x],
               c.op, label, c.next, c.handle, c.n, c.head, x, c.slot, c.ent, c.was)
         /\ Is([c EXCEPT !.cluster = x],
               c.op, c.at, c.next, c.handle, c.n, c.head, x, c.slot, c.ent, c.was)
         /\ Is([c EXCEPT !.at = label, !.cluster = x, !.next = y],
               c.op, label, y, c.handle, c.n, c.head, x, c.slot, c.ent, c.was)
         /\ Is([c EXCEPT !.at = label, !.next = x],
               c.op, label, x, c.handle, c.n, c.head, c.cluster, c.slot, c.ent, c.was)
         /\ Is([c EXCEPT !.slot = x],
               c.op, c.at, c.next, c.handle, c.n, c.head, c.cluster, x, c.ent, c.was)
         /\ Is([c EXCEPT !.head = x],
               c.op, c.at, c.next, c.handle, c.n, x, c.cluster, c.slot, c.ent, c.was)
         /\ Is([c EXCEPT !.at = label, !.n = x],
               c.op, label, c.next, c.handle, x, c.head, c.cluster, c.slot, c.ent, c.was)
         /\ Is([c EXCEPT !.op = x, !.at = label],
               x, label, c.next, c.handle, c.n, c.head, c.cluster, c.slot, c.ent, c.was)
<1>1. Is([c EXCEPT !.at = label],
         c.op, label, c.next, c.handle, c.n, c.head, c.cluster, c.slot, c.ent, c.was)
  BY DEF CallForm, CallFields, Is
<1>2. Is([c EXCEPT !.at = label, !.cluster = x],
         c.op, label, c.next, c.handle, c.n, c.head, x, c.slot, c.ent, c.was)
  BY DEF CallForm, CallFields, Is
<1>3. Is([c EXCEPT !.cluster = x],
         c.op, c.at, c.next, c.handle, c.n, c.head, x, c.slot, c.ent, c.was)
  BY DEF CallForm, CallFields, Is
<1>4. Is([c EXCEPT !.at = label, !.cluster = x, !.next = y],
         c.op, label, y, c.handle, c.n, c.head, x, c.slot, c.ent, c.was)
  BY DEF CallForm, CallFields, Is
<1>5. Is([c EXCEPT !.at = label, !.next = x],
         c.op, label, x, c.handle, c.n, c.head, c.cluster, c.slot, c.ent, c.was)
  BY DEF CallForm, CallFields, Is
<1>6. Is([c EXCEPT !.slot = x],
         c.op, c.at, c.next, c.handle, c.n, c.head, c.cluster, x, c.ent, c.was)
  BY DEF CallForm, CallFields, Is
<1>7. Is([c EXCEPT !.head = x],
         c.op, c.at, c.next, c.handle, c.n, x, c.cluster, c.slot, c.ent, c.was)
  BY DEF CallForm, CallFields, Is
<1>8. Is([c EXCEPT !.at = label, !.n = x],
         c.op, label, c.next, c.handle, x, c.head, c.cluster, c.slot, c.ent, c.was)
  BY DEF CallForm, CallFields, Is
<1>9. Is([c EXCEPT !.op = x, !.at = label],
         x, label, c.next, c.handle, c.n, c.head, c.cluster, c.slot, c.ent, c.was)
  BY DEF CallForm, CallFields, Is
<1> QED
  BY <1>1, <1>2, <1>3, <1>4, <1>5, <1>6, <1>7, <1>8, <1>9

(* An entry keeps its form when its cluster and size are set.               *)
LEMMA EntrySet ==
  ASSUME NEW e, EntOK(e), NEW x \in Link, NEW y \in Nat, NEW name
  PROVE  /\ EntOK([e EXCEPT !.firstCluster = x])
         /\ EntOK([e EXCEPT !.firstCluster = x, !.size = y])
         /\ EntOK([e EXCEPT !.size = y])
         /\ EntOK([e EXCEPT !.name = name])
         /\ [e EXCEPT !.firstCluster = x].firstCluster = x
<1>1. EntOK([e EXCEPT !.firstCluster = x])
  BY DEF EntOK, EntryFields
<1>2. EntOK([e EXCEPT !.firstCluster = x, !.size = y])
  BY DEF EntOK, EntryFields
<1>3. EntOK([e EXCEPT !.size = y])
  BY DEF EntOK, EntryFields
<1>4. EntOK([e EXCEPT !.name = name])
  BY DEF EntOK, EntryFields
<1>5. [e EXCEPT !.firstCluster = x].firstCluster = x
  BY DEF EntOK, EntryFields
<1> QED
  BY <1>1, <1>2, <1>3, <1>4, <1>5

(* The same for the entry in a call.                                        *)
LEMMA MoveEntry ==
  ASSUME NEW c, CallForm(c), EntOK(c.ent), NEW x \in Link
  PROVE  Is([c EXCEPT !.at = "entry", !.ent.firstCluster = x],
            c.op, "entry", c.next, c.handle, c.n, c.head, c.cluster, c.slot,
            [c.ent EXCEPT !.firstCluster = x], c.was)
  BY DEF CallForm, CallFields, Is

(* An entry that is built is one.                                           *)
LEMMA EntryIsOK ==
  ASSUME NEW name, NEW dir, NEW first \in Link, NEW size \in Nat
  PROVE  /\ EntOK(Entry(name, dir, first, size))
         /\ CellOK(Entry(name, dir, first, size))
         /\ Entry(name, dir, first, size).kind = "entry"
         /\ Entry(name, dir, first, size).firstCluster = first
<1>1. EntOK(Entry(name, dir, first, size))
  BY DEF EntOK, EntryFields, Entry
<1> QED
  BY <1>1 DEF CellOK, Entry

(* The other cells hold no entry.                                           *)
LEMMA NoEntryCells ==
  /\ CellOK(Zero) /\ CellOK(Deleted) /\ \A k : CellOK(Unit(k))
  /\ EntOK(NoEntry) /\ NoEntry.firstCluster = 0 /\ NoEntry.size = 0
<1>1. CellOK(Zero) /\ CellOK(Deleted) /\ \A k : CellOK(Unit(k))
  BY DEF CellOK, Zero, Deleted, Unit
<1>2. 0 \in Link
  BY DEF Link
<1>3. EntOK(NoEntry) /\ NoEntry.firstCluster = 0 /\ NoEntry.size = 0
  BY <1>2, Zenon DEF NoEntry, Entry, EntOK, EntryFields
<1> QED
  BY <1>1, <1>3

(* A call begins as Idle with some of its fields set.                       *)
LEMMA Begins ==
  ASSUME NEW op, NEW x, NEW y, NEW z, NEW label
  PROVE  /\ Is(Idle, "idle", "idle", "idle", 0, 0, 0, 0, Nowhere, NoEntry, NoEntry)
         /\ Is([Begin(op) EXCEPT !.ent = x],
               op, "idle", "idle", 0, 0, 0, 0, Nowhere, x, NoEntry)
         /\ Is([Begin(op) EXCEPT !.handle = x, !.mode = y, !.slot = z],
               op, "idle", "idle", x, 0, 0, 0, z, NoEntry, NoEntry)
         /\ Is([Begin(op) EXCEPT !.at = label, !.slot = z],
               op, label, "idle", 0, 0, 0, 0, z, NoEntry, NoEntry)
         /\ Is([Begin(op) EXCEPT !.at = label, !.slot = z, !.ent = x],
               op, label, "idle", 0, 0, 0, 0, z, x, NoEntry)
         /\ Is([Begin(op) EXCEPT !.old = x, !.was = y, !.ent = z],
               op, "idle", "idle", 0, 0, 0, 0, Nowhere, z, y)
         /\ Is(BeginFile(op, x, y),
               op, "idle", "idle", x, y, 0, 0, Nowhere, NoEntry, NoEntry)
<1>0. Is(Idle, "idle", "idle", "idle", 0, 0, 0, 0, Nowhere, NoEntry, NoEntry)
  BY DEF CallForm, CallFields, Is, Idle
<1>1. PICK c : c = Begin(op)
  OBVIOUS
<1>2. Is(c, op, "idle", "idle", 0, 0, 0, 0, Nowhere, NoEntry, NoEntry)
  <2>1. PICK d : d = Idle
    OBVIOUS
  <2>2. Is(d, "idle", "idle", "idle", 0, 0, 0, 0, Nowhere, NoEntry, NoEntry)
    BY <1>0, <2>1
  <2>3. c = [d EXCEPT !.op = op]
    BY <1>1, <2>1 DEF Begin
  <2> QED
    BY <2>2, <2>3 DEF CallForm, CallFields, Is
<1>3. Is([c EXCEPT !.ent = x],
         op, "idle", "idle", 0, 0, 0, 0, Nowhere, x, NoEntry)
  BY <1>2 DEF CallForm, CallFields, Is
<1>4. Is([c EXCEPT !.handle = x, !.mode = y, !.slot = z],
         op, "idle", "idle", x, 0, 0, 0, z, NoEntry, NoEntry)
  BY <1>2 DEF CallForm, CallFields, Is
<1>5. Is([c EXCEPT !.at = label, !.slot = z],
         op, label, "idle", 0, 0, 0, 0, z, NoEntry, NoEntry)
  BY <1>2 DEF CallForm, CallFields, Is
<1>6. Is([c EXCEPT !.at = label, !.slot = z, !.ent = x],
         op, label, "idle", 0, 0, 0, 0, z, x, NoEntry)
  BY <1>2 DEF CallForm, CallFields, Is
<1>7. Is([c EXCEPT !.old = x, !.was = y, !.ent = z],
         op, "idle", "idle", 0, 0, 0, 0, Nowhere, z, y)
  BY <1>2 DEF CallForm, CallFields, Is
<1>8. Is([c EXCEPT !.handle = x, !.n = y],
         op, "idle", "idle", x, y, 0, 0, Nowhere, NoEntry, NoEntry)
  BY <1>2 DEF CallForm, CallFields, Is
<1> QED
  BY <1>0, <1>1, <1>3, <1>4, <1>5, <1>6, <1>7, <1>8 DEF BeginFile

-----------------------------------------------------------------------------
(* Reading directories                                                      *)

(* A cell of the volume is a directory entry of its form, or none.          *)
LEMMA CellRead ==
  ASSUME DataOK(data), NEW slot, SlotOK(slot)
  PROVE  CellOK(Cell(slot))
  BY DEF DataOK, CellsOK, SlotOK, Cell

(* A set of numbers has a least one.                                        *)
LEMMA LeastNumber ==
  ASSUME NEW S, S \subseteq Nat, S # {}
  PROVE  \E p \in S : \A q \in S : p <= q
<1>1. IsWellFoundedOn(OpToRel(<, Nat), Nat)
  BY NatLessThanWellFounded, Zenon
<1>2. PICK m \in S : \A k \in S : ~(<<k, m>> \in OpToRel(<, Nat))
  BY <1>1, WFMin, Zenon
<1>3. \A k \in S : ~(k < m)
  BY <1>2 DEF OpToRel
<1>4. m \in S /\ \A q \in S : m <= q
  BY <1>3
<1> QED
  BY <1>4

(* Whole clusters are what positions are counted in.                        *)
LEMMA PlaceInCluster ==
  ASSUME NEW p \in Nat, NEW k \in Nat, p < ClusterSize * k
  PROVE  /\ p \div ClusterSize \in Nat
         /\ p \div ClusterSize < k
         /\ (p % ClusterSize) + 1 \in 1 .. ClusterSize
<1>1. ClusterSize \in Nat /\ ClusterSize >= 2
  BY VolumeAssumption
<1>2. PICK s : s = ClusterSize
  OBVIOUS
<1>3. PICK q, r : q = p \div s /\ r = p % s
  OBVIOUS
<1>4. q \in Nat /\ r \in 0 .. s - 1 /\ p = s * q + r
  BY <1>1, <1>2, <1>3
<1>5. q < k
  <2> SUFFICES ASSUME k <= q PROVE FALSE
    BY <1>4
  <2>1. PICK d \in Nat : q = k + d
    <3>1. q - k \in Nat /\ q = k + (q - k)
      BY <1>4
    <3> QED
      BY <3>1
  <2>2. s * q = s * k + s * d
    BY <2>1, <1>1, <1>2
  <2>3. s * d \in Nat /\ s * k \in Nat
    BY <2>1, <1>1, <1>2
  <2> QED
    BY <2>2, <2>3, <1>2, <1>4
<1>6. r + 1 \in 1 .. s
  BY <1>4, <1>1, <1>2
<1>7. q \in Nat
  BY <1>4
<1> QED
  BY <1>2, <1>3, <1>5, <1>6, <1>7, Zenon

(* The slots of a directory lie in its chain.                               *)
LEMMA SlotsLieInChain ==
  ASSUME NEW head
  PROVE  /\ Slots(head) \subseteq Nat
         /\ \A p \in Slots(head) : SlotOK(SlotAt(head, p))
<1> DEFINE k == Cardinality(Chain(head))
<1>1. k \in Nat
  <2>1. Chain(head) \in SUBSET Cluster
    BY DEF Chain
  <2>2. IsFiniteSet(Chain(head))
    BY <2>1, ClustersCounted, FS_Subset
  <2> QED
    BY <2>2, FS_CardinalityType
<1>2. k = Cardinality(ChainOf(fat, head))
  BY ChainsWalk
<1>3. ClusterSize \in Nat
  BY VolumeAssumption
<1>4. ClusterSize * k \in Nat
  BY <1>1, <1>3
<1>5. \A p \in Slots(head) : p \in Nat /\ p < ClusterSize * k
  BY <1>4 DEF Slots
<1> HIDE DEF k
<1>6. ASSUME NEW p \in Slots(head) PROVE SlotOK(SlotAt(head, p))
  <2>1. p \in Nat /\ p < ClusterSize * k
    BY <1>5
  <2>2. /\ p \div ClusterSize \in Nat
        /\ p \div ClusterSize < k
        /\ (p % ClusterSize) + 1 \in 1 .. ClusterSize
    BY <2>1, <1>1, PlaceInCluster
  <2>3. Walk(fat, head, p \div ClusterSize) \in Cluster
    BY <2>2, <1>2, PlacesLieInChain
  <2>4. Nth(head, p \div ClusterSize) \in Cluster
    BY <2>3, NthWalks
  <2>5. PICK c, i : c = Nth(head, p \div ClusterSize) /\ i = (p % ClusterSize) + 1
    OBVIOUS
  <2>6. SlotAt(head, p) = <<c, i>>
    BY <2>5 DEF SlotAt
  <2> QED
    BY <2>2, <2>4, <2>5, <2>6 DEF SlotOK
<1> QED
  BY <1>5, <1>6

(* What a lookup in a directory finds is an entry.                          *)
LEMMA FoundIsEntry ==
  ASSUME NEW head, NEW name, InDirectory(head, name) # Nowhere
  PROVE  /\ SlotOK(InDirectory(head, name))
         /\ Cell(InDirectory(head, name)).kind = "entry"
<1>1. InDirectory(head, name) \in Matches(head, name)
  BY DEF InDirectory
<1>2. InDirectory(head, name) \in readDirectory(head)
  BY <1>1 DEF Matches
<1>3. PICK p \in Slots(head) : InDirectory(head, name) = SlotAt(head, p)
  BY <1>2 DEF readDirectory
<1>4. SlotOK(SlotAt(head, p))
  BY SlotsLieInChain
<1>5. Cell(InDirectory(head, name)).kind = "entry"
  BY <1>1 DEF Matches
<1> QED
  BY <1>3, <1>4, <1>5

(* A path that is found is found as an entry of the volume.                 *)
LEMMA FoundPath ==
  ASSUME DataOK(data), NEW path, findEntry(path) # Nowhere
  PROVE  /\ SlotOK(findEntry(path))
         /\ Cell(findEntry(path)).kind = "entry"
         /\ EntOK(Cell(findEntry(path)))
<1>1. SlotOK(findEntry(path)) /\ Cell(findEntry(path)).kind = "entry"
  BY FoundIsEntry DEF findEntry
<1>2. CellOK(Cell(findEntry(path)))
  BY <1>1, CellRead
<1> QED
  BY <1>1, <1>2 DEF CellOK

(* The directory of a path is a cluster of the volume or none.              *)
LEMMA ParentIsLink ==
  ASSUME DataOK(data), NEW path
  PROVE  parentOf(path) \in Link
<1>1. rootCluster \in Link /\ 0 \in Link
  BY ClustersCounted DEF Link
<1>2. PICK slot : slot = InDirectory(rootCluster, path[1])
  OBVIOUS
<1>3. ASSUME slot # Nowhere PROVE Cell(slot).firstCluster \in Link
  <2>1. SlotOK(slot) /\ Cell(slot).kind = "entry"
    BY <1>2, <1>3, FoundIsEntry
  <2>2. CellOK(Cell(slot))
    BY <2>1, CellRead
  <2> QED
    BY <2>1, <2>2 DEF CellOK, EntOK
<1>4. parentOf(path) = IF Len(path) = 1 THEN rootCluster
                       ELSE IF slot # Nowhere /\ Cell(slot).dir
                            THEN Cell(slot).firstCluster ELSE 0
  BY <1>2 DEF parentOf
<1> QED
  BY <1>1, <1>3, <1>4

(* A reusable slot of a directory is a slot of the volume.                  *)
LEMMA ReusableIsSlot ==
  ASSUME NEW head, Reusable(head) # {}
  PROVE  SlotOK(FirstReusable(head))
<1>1. Reusable(head) \subseteq Slots(head)
  BY DEF Reusable
<1>2. Reusable(head) \subseteq Nat
  BY <1>1, SlotsLieInChain
<1>3. \E p \in Reusable(head) : \A q \in Reusable(head) : p <= q
  BY <1>2, LeastNumber
<1> DEFINE p == CHOOSE p \in Reusable(head) : \A q \in Reusable(head) : p <= q
<1>4. p \in Reusable(head)
  BY <1>3
<1>5. FirstReusable(head) = SlotAt(head, p)
  BY DEF FirstReusable
<1> HIDE DEF p
<1>6. p \in Slots(head)
  BY <1>1, <1>4
<1>7. SlotOK(SlotAt(head, p))
  BY <1>6, SlotsLieInChain
<1> QED
  BY <1>5, <1>7

-----------------------------------------------------------------------------
(* Writing                                                                  *)

(* A table entry that is freed or marked as an end, or a write of one that  *)
(* fails, makes no loop.                                                    *)
LEMMA MarkWritten ==
  ASSUME FatOK(fat), EndsEverywhere(fat), NEW c,
         NEW v \in {FreeCluster, EndOfChain}, NEW ok, writeFATEntry(c, v, ok)
  PROVE  FatOK(fat') /\ EndsEverywhere(fat')
<1>1. v \notin Cluster
  BY ClustersCounted DEF FreeCluster, EndOfChain
<1>2. fat' = fat \/ fat' = [fat EXCEPT ![c] = v]
  BY DEF writeFATEntry
<1>3. CASE fat' = fat
  BY <1>3
<1>4. CASE fat' = [fat EXCEPT ![c] = v]
  <2>1. FatOK(fat')
    BY <1>4 DEF FatOK
  <2>2. Changed(fat, c, v, fat')
    BY <1>4 DEF FatOK, Changed
  <2>3. EndsEverywhere(fat')
    BY <2>2, <1>1, MarkMakesNoLoop
  <2> QED
    BY <2>1, <2>3
<1> QED
  BY <1>2, <1>3, <1>4

(* Cells of the right form keep the volume in form, however many of them    *)
(* reach the disk; a write that succeeds leaves all of them there.          *)
LEMMA CellsWritten ==
  ASSUME DataOK(data), NEW c, NEW cells, NEW ok \in BOOLEAN,
         c \in Cluster => \A i \in 1 .. ClusterSize : CellOK(cells[i]),
         writeCluster(c, cells, ok)
  PROVE  /\ DataOK(data')
         /\ ok /\ c \in Cluster => \A i \in 1 .. ClusterSize : data'[c][i] = cells[i]
<1>size. ClusterSize \in Nat
  BY VolumeAssumption
<1>1. PICK k \in IF ok THEN {ClusterSize} ELSE 0 .. ClusterSize :
        data' = [data EXCEPT ![c] =
                  [i \in 1 .. ClusterSize |-> IF i <= k THEN cells[i] ELSE data[c][i]]]
  BY DEF writeCluster
<1> DEFINE new == [i \in 1 .. ClusterSize |-> IF i <= k THEN cells[i] ELSE data[c][i]]
<1>2. data' = [data EXCEPT ![c] = new]
  BY <1>1
<1>3. data = [d \in Cluster |-> data[d]] /\ \A d \in Cluster : CellsOK(data[d])
  BY DEF DataOK
<1>4. ASSUME c \in Cluster PROVE CellsOK(new)
  <2>1. \A i \in 1 .. ClusterSize : CellOK(cells[i]) /\ CellOK(data[c][i])
    BY <1>4, <1>3 DEF CellsOK
  <2>2. \A i \in 1 .. ClusterSize : CellOK(new[i])
    <3> TAKE i \in 1 .. ClusterSize
    <3>1. new[i] = cells[i] \/ new[i] = data[c][i]
      OBVIOUS
    <3> QED
      BY <3>1, <2>1
  <2>3. new = [i \in 1 .. ClusterSize |-> new[i]]
    OBVIOUS
  <2> HIDE DEF new
  <2> QED
    BY <2>2, <2>3 DEF CellsOK
<1>5. ASSUME ok PROVE \A i \in 1 .. ClusterSize : new[i] = cells[i]
  <2>1. k = ClusterSize
    BY <1>5
  <2> QED
    BY <2>1, <1>size
<1> HIDE DEF new
<1>6. /\ data' = [d \in Cluster |-> data'[d]]
      /\ \A d \in Cluster : data'[d] = IF d = c THEN new ELSE data[d]
  BY <1>2, <1>3
<1>7. DataOK(data')
  BY <1>3, <1>4, <1>6 DEF DataOK
<1> QED
  BY <1>5, <1>6, <1>7

(* The same for one slot.                                                   *)
LEMMA SlotWritten ==
  ASSUME DataOK(data), NEW slot, NEW cell, CellOK(cell), NEW ok \in BOOLEAN,
         writeSlot(slot, cell, ok)
  PROVE  /\ DataOK(data')
         /\ ok /\ SlotOK(slot) => data'[slot[1]][slot[2]] = cell
<1> DEFINE c == slot[1]
           cells == [data[c] EXCEPT ![slot[2]] = cell]
<1>1. writeCluster(c, cells, ok)
  BY DEF writeSlot
<1>2. ASSUME c \in Cluster
      PROVE  \A i \in 1 .. ClusterSize : cells[i] = IF i = slot[2] THEN cell ELSE data[c][i]
  BY <1>2 DEF DataOK, CellsOK
<1>3. ASSUME c \in Cluster PROVE \A i \in 1 .. ClusterSize : CellOK(cells[i])
  <2>1. \A i \in 1 .. ClusterSize : CellOK(data[c][i])
    BY <1>3 DEF DataOK, CellsOK
  <2>2. \A i \in 1 .. ClusterSize : cells[i] = cell \/ cells[i] = data[c][i]
    BY <1>2, <1>3
  <2> HIDE DEF cells
  <2> QED
    BY <2>1, <2>2
<1>4. ASSUME SlotOK(slot) PROVE c \in Cluster /\ slot[2] \in 1 .. ClusterSize
  BY <1>4 DEF SlotOK
<1> HIDE DEF c, cells
<1>5. /\ DataOK(data')
      /\ ok /\ c \in Cluster => \A i \in 1 .. ClusterSize : data'[c][i] = cells[i]
  BY <1>1, <1>3, CellsWritten
<1>6. ASSUME ok, SlotOK(slot) PROVE data'[c][slot[2]] = cell
  BY <1>2, <1>4, <1>5, <1>6
<1> QED
  BY <1>5, <1>6 DEF c

(* updateDirectoryEntry writes an entry where there was one, else what was  *)
(* there.                                                                   *)
LEMMA UpdatedIsCell ==
  ASSUME DataOK(data), NEW slot, SlotOK(slot), NEW ent,
         Cell(slot).kind = "entry" => ent.firstCluster \in Link /\ ent.size \in Nat
  PROVE  /\ CellOK(Updated(slot, ent))
         /\ Cell(slot).kind = "entry" => Updated(slot, ent).kind = "entry"
<1>1. CellOK(Cell(slot))
  BY CellRead
<1>2. CASE Cell(slot).kind = "entry"
  <2>1. EntOK(Cell(slot))
    BY <1>1, <1>2 DEF CellOK
  <2>2. PICK x, y : x = ent.firstCluster /\ y = ent.size
    OBVIOUS
  <2>3. EntOK([Cell(slot) EXCEPT !.firstCluster = x, !.size = y])
    BY <2>1, <2>2, <1>2, EntrySet, Zenon
  <2>4. EntOK(Updated(slot, ent))
    BY <2>2, <2>3, <1>2 DEF Updated
  <2> QED
    BY <2>4 DEF CellOK, EntOK
<1>3. CASE Cell(slot).kind # "entry"
  BY <1>1, <1>3 DEF Updated
<1> QED
  BY <1>2, <1>3

-----------------------------------------------------------------------------
(* Where a call goes on                                                     *)

(* No call is always in order.                                              *)
LEMMA IdleIsOK ==
  ASSUME NEW g, NEW cells, NEW files
  PROVE  CallOK(Idle, g, cells, files)
<1>1. CallForm(Idle) /\ Idle.at = "idle"
  BY Begins, Zenon DEF Is
<1>2. InView(Idle) = "idle"
  BY <1>1 DEF InView
<1> QED
  BY <1>1, <1>2 DEF CallOK, Prepared, Later, Allocated, Linkable

(* A call that keeps its operation, handle, head, slot and entries is       *)
(* prepared for what it was prepared for.                                   *)
LEMMA StaysPrepared ==
  ASSUME NEW c, NEW d, NEW at, NEW next, NEW x,
         Is(d, c.op, at, next, c.handle, c.n, c.head, x, c.slot, c.ent, c.was),
         NEW cells, NEW files, NEW to, Prepared(to, c, cells, files)
  PROVE  Prepared(to, d, cells, files)
<1>1. d.op = c.op /\ d.handle = c.handle /\ d.n = c.n
  BY DEF Is
<1>2. d.head = c.head /\ d.slot = c.slot /\ d.ent = c.ent /\ d.was = c.was
  BY DEF Is
<1>3. HasFile(c, files) => HasFile(d, files)
  BY <1>1 DEF HasFile
<1>4. Locating(c) => Locating(d)
  BY <1>1 DEF Locating
<1>5. HasEntry(c) => HasEntry(d)
  BY <1>1, <1>2 DEF HasEntry
<1> QED
  BY <1>1, <1>2, <1>3, <1>4, <1>5 DEF Prepared

(* Only a call that opens a file looks at the cells.                        *)
LEMMA PreparedAnyway ==
  ASSUME NEW c, NEW cells, NEW new, NEW files, NEW to,
         Prepared(to, c, cells, files), to \notin {"clear", "opened"}
  PROVE  Prepared(to, c, new, files)
  BY DEF Prepared

(* A call that goes on to a step it is prepared for.                        *)
LEMMA GoesOn ==
  ASSUME NEW c, CallForm(c), NEW label, NEW g, NEW cells, NEW files,
         label \notin {"alloc", "zero", "sync", "free", "link"},
         label \in {"dots", "first", "chunk"} => c.cluster \in Cluster,
         Prepared(label, c, cells, files)
  PROVE  /\ CallOK([c EXCEPT !.at = label], g, cells, files)
         /\ CallOK(Jump(c, label), g, cells, files)
<1>1. PICK d : d = [c EXCEPT !.at = label]
  BY Zenon
<1>2. Is(d, c.op, label, c.next, c.handle, c.n, c.head, c.cluster, c.slot, c.ent, c.was)
  BY <1>1, Moves, Zenon
<1>3. Prepared(label, d, cells, files)
  BY <1>2, StaysPrepared
<1>4. InView(d) = label /\ d.at = label /\ d.cluster = c.cluster /\ CallForm(d)
  BY <1>2 DEF InView, Is
<1>5. CallOK(d, g, cells, files)
  BY <1>3, <1>4 DEF CallOK, Allocated, Linkable
<1> QED
  BY <1>1, <1>5, IdleIsOK DEF Jump

(* A call that frees a chain before a step that does not need the chain.    *)
LEMMA FreeingIsOK ==
  ASSUME NEW c, CallForm(c), NEW first, NEW next \in {"idle", "clear", "cut", "emptied"},
         NEW g, NEW cells, NEW files, Prepared(next, c, cells, files)
  PROVE  CallOK(Freeing(c, first, next), g, cells, files)
<1>1. CASE first \in Cluster
  <2>1. PICK d : d = [c EXCEPT !.at = "free", !.cluster = first, !.next = next]
    OBVIOUS
  <2>2. Is(d, c.op, "free", next, c.handle, c.n, c.head, first, c.slot, c.ent, c.was)
    BY <2>1, Moves, Zenon
  <2>3. Prepared(next, d, cells, files)
    BY <2>2, StaysPrepared
  <2>4. InView(d) = next /\ d.at = "free" /\ d.next = next /\ CallForm(d)
    BY <2>2 DEF InView, Is
  <2>5. CallOK(d, g, cells, files)
    BY <2>3, <2>4 DEF CallOK, Allocated, Linkable
  <2> QED
    BY <2>1, <2>5, <1>1 DEF Freeing
<1>2. CASE first \notin Cluster
  <2>1. CallOK(Jump(c, next), g, cells, files)
    BY GoesOn, Zenon
  <2> QED
    BY <2>1, <1>2 DEF Freeing
<1> QED
  BY <1>1, <1>2

(* A call that begins to allocate: for a link, at a chain that ends well.   *)
LEMMA AllocatingIsOK ==
  ASSUME NEW c, CallForm(c), NEW next \in {"link", "dots", "first"},
         NEW g, NEW cells, NEW files, Prepared(next, c, cells, files),
         next = "link" =>
           c.head \in Cluster /\ Walk(g, c.head, totalClusters) = EndOfChain
  PROVE  CallOK(Allocating(c, next), g, cells, files)
<1>1. PICK d : d = [c EXCEPT !.at = "alloc", !.next = next]
  OBVIOUS
<1>2. Is(d, c.op, "alloc", next, c.handle, c.n, c.head, c.cluster, c.slot, c.ent, c.was)
  BY <1>1, Moves, Zenon
<1>3. Prepared(next, d, cells, files)
  BY <1>2, StaysPrepared
<1>4. InView(d) = next /\ d.at = "alloc" /\ d.next = next /\ d.head = c.head /\ CallForm(d)
  BY <1>2 DEF InView, Is
<1>5. CallOK(d, g, cells, files)
  BY <1>3, <1>4 DEF CallOK, Allocated, Linkable
<1> QED
  BY <1>1, <1>5 DEF Allocating

(* A call that has found a slot for its entry.                              *)
LEMMA WithSlotIsOK ==
  ASSUME NEW c, CallForm(c), HasEntry(c), c.head \in Link, NEW slot, SlotOK(slot),
         NEW g, NEW cells, NEW files
  PROVE  CallOK(WithSlot(c, slot), g, cells, files)
<1>1. PICK d : d = [c EXCEPT !.slot = slot]
  BY Zenon
<1>2. Is(d, c.op, c.at, c.next, c.handle, c.n, c.head, c.cluster, slot, c.ent, c.was)
  BY <1>1, Moves, Zenon
<1>3. CallForm(d) /\ HasEntry(d) /\ SlotOK(d.slot) /\ d.head \in Link
  BY <1>2 DEF Is, HasEntry
<1>4. Prepared("dots", d, cells, files) /\ Prepared("entry", d, cells, files)
  BY <1>3 DEF Prepared, Later
<1>5. CallOK(Allocating(d, "dots"), g, cells, files)
  BY <1>3, <1>4, AllocatingIsOK
<1>6. CallOK([d EXCEPT !.at = "entry"], g, cells, files)
  BY <1>3, <1>4, GoesOn
<1>7. WithSlot(c, slot) = IF c.ent.dir THEN Allocating(d, "dots")
                          ELSE [d EXCEPT !.at = "entry"]
  BY <1>1 DEF WithSlot
<1> QED
  BY <1>5, <1>6, <1>7

(* A call that extends a chain for its entry: the chain has a cluster.      *)
LEMMA ExtendingIsOK ==
  ASSUME NEW d, CallForm(d), HasEntry(d), d.op \notin {"write", "truncate"},
         d.head \in Link, EndMark(d.head) = EndOfChain, NEW cells, NEW files
  PROVE  CallOK(Allocating(d, "link"), fat, cells, files)
<1>1. PICK head : head = d.head
  OBVIOUS
<1>2. Walk(fat, head, totalClusters) = EndOfChain
  BY <1>1, ChainsWalk
<1>3. head \in Cluster
  <2> SUFFICES ASSUME head = 0 PROVE FALSE
    BY <1>1 DEF Link
  <2>1. Walk(fat, head, 0) = 0 /\ 0 \notin Cluster /\ totalClusters \in Nat
    BY WalkNext, ClustersCounted
  <2>2. Walk(fat, head, totalClusters) = Walk(fat, head, 0)
    BY <2>1, MarkStays
  <2> QED
    BY <2>1, <2>2, <1>2 DEF EndOfChain
<1>4. Prepared("link", d, cells, files)
  BY DEF Prepared, Later
<1> QED
  BY <1>1, <1>2, <1>3, <1>4, AllocatingIsOK

(* A call that creates an entry in a directory: in one of its slots, or in  *)
(* a cluster that the directory gets.                                       *)
LEMMA CreatingIsOK ==
  ASSUME NEW c, CallForm(c), HasEntry(c), c.op \notin {"write", "truncate"},
         NEW head \in Link, CanCreate(head), NEW cells, NEW files
  PROVE  CallOK(Creating(c, head), fat, cells, files)
<1>1. PICK d : d = [c EXCEPT !.head = head]
  BY Zenon
<1>2. Is(d, c.op, c.at, c.next, c.handle, c.n, head, c.cluster, c.slot, c.ent, c.was)
  BY <1>1, Moves, Zenon
<1>3. /\ CallForm(d) /\ HasEntry(d) /\ d.head = head
      /\ d.op \notin {"write", "truncate"}
  BY <1>2 DEF Is, HasEntry
<1>4. CASE Reusable(head) # {}
  <2>1. SlotOK(FirstReusable(head))
    BY <1>4, ReusableIsSlot
  <2>2. CallOK(WithSlot(d, FirstReusable(head)), fat, cells, files)
    BY <2>1, <1>3, WithSlotIsOK
  <2> QED
    BY <2>2, <1>1, <1>4 DEF Creating
<1>5. CASE Reusable(head) = {}
  <2>1. EndMark(head) = EndOfChain
    BY <1>5 DEF CanCreate
  <2>2. CallOK(Allocating(d, "link"), fat, cells, files)
    BY <2>1, <1>3, ExtendingIsOK
  <2> QED
    BY <2>2, <1>1, <1>5 DEF Creating
<1> QED
  BY <1>4, <1>5

-----------------------------------------------------------------------------
(* The steps that write the table                                           *)

(* The chain that is going to be extended ends well, so no walk along it    *)
(* meets the free cluster that is taken for it.                             *)
LEMMA TakenApart ==
  ASSUME NEW g, NEW head, NEW y \in Cluster, g[y] = FreeCluster,
         Walk(g, head, totalClusters) = EndOfChain,
         NEW h, Changed(g, y, EndOfChain, h)
  PROVE  /\ Walk(h, head, totalClusters) = EndOfChain
         /\ y \notin ChainOf(h, head)
         /\ h[y] = EndOfChain
<1>1. totalClusters \in Nat /\ 0 \notin Cluster /\ -1 \notin Cluster
  BY ClustersCounted
<1>2. ASSUME NEW n \in Nat, Walk(g, head, n) = y PROVE FALSE
  <2>1. Walk(g, head, n + 1) = 0
    <3>1. Walk(g, head, n + 1) = Follow(g, Walk(g, head, n))
      BY WalkNext
    <3> QED
      BY <3>1, <1>2 DEF Follow, FreeCluster
  <2>2. CASE n + 1 <= totalClusters
    <3>1. n + 1 \in Nat /\ Walk(g, head, n + 1) \notin Cluster
      BY <2>1, <1>1
    <3>2. Walk(g, head, totalClusters) = Walk(g, head, n + 1)
      BY <3>1, <2>2, <1>1, MarkStays
    <3> QED
      BY <3>2, <2>1 DEF EndOfChain
  <2>3. CASE totalClusters <= n
    <3>1. Walk(g, head, totalClusters) \notin Cluster
      BY <1>1 DEF EndOfChain
    <3>2. Walk(g, head, n) = Walk(g, head, totalClusters)
      BY <3>1, <2>3, <1>1, MarkStays
    <3> QED
      BY <3>1, <3>2, <1>2
  <2> QED
    BY <2>2, <2>3, <1>1
<1>3. \A n \in Nat : Walk(h, head, n) = Walk(g, head, n)
  BY <1>2, PassesBy
<1>4. y \notin ChainOf(h, head)
  <2> SUFFICES ASSUME NEW n \in 0 .. totalClusters - 1, Walk(h, head, n) = y
               PROVE  FALSE
    BY DEF ChainOf
  <2>1. n \in Nat
    BY <1>1
  <2> QED
    BY <2>1, <1>2, <1>3
<1>5. h[y] = EndOfChain
  BY DEF Changed
<1> QED
  BY <1>1, <1>3, <1>4, <1>5

(* allocateCluster takes a cluster.                                         *)
LEMMA ClaimKeeps == ASSUME IInv, AllocateClaim PROVE IInv'
<1>inv. /\ FatOK(fat) /\ EndsEverywhere(fat) /\ DataOK(data) /\ HandlesOK(handles)
        /\ CallOK(call, fat, data, handles)
  BY DEF IInv
<1>0. data' = data /\ handles' = handles /\ call.at = "alloc"
  BY Zenon DEF AllocateClaim, At
<1>1. CASE call' = Idle /\ fat' = fat
  BY <1>1, <1>inv, <1>0, IdleIsOK DEF IInv
<1>2. ASSUME NEW c \in Cluster, NEW ok \in Outcomes, IsNextFree(c),
             writeFATEntry(c, EndOfChain, ok),
             call' = IF ok THEN [call EXCEPT !.at = "zero", !.cluster = c] ELSE Idle
      PROVE  IInv'
  <2>0. ok \in BOOLEAN
    BY DEF Outcomes
  <2>1. FatOK(fat') /\ EndsEverywhere(fat')
    BY <1>inv, <1>2, MarkWritten
  <2>2. CASE ~ok
    BY <2>1, <2>2, <1>inv, <1>0, <1>2, IdleIsOK DEF IInv
  <2>3. CASE ok
    <3>1. Changed(fat, c, EndOfChain, fat')
      BY <2>3, <1>2, <1>inv DEF writeFATEntry, Changed, FatOK
    <3>2. fat[c] = FreeCluster
      BY <1>2 DEF IsNextFree
    <3>3. PICK d : d = [call EXCEPT !.at = "zero", !.cluster = c]
      OBVIOUS
    <3>4. CallForm(call)
      BY <1>inv DEF CallOK
    <3>5. Is(d, call.op, "zero", call.next, call.handle, call.n, call.head, c, call.slot,
             call.ent, call.was)
      BY <3>3, <3>4, Moves, Zenon
    <3>6. InView(call) = call.next
      BY <1>0 DEF InView
    <3>7. /\ InView(d) = call.next /\ d.at = "zero" /\ d.next = call.next
          /\ d.head = call.head /\ d.cluster = c /\ CallForm(d)
      BY <3>5 DEF Is, InView
    <3>8. Prepared(call.next, call, data, handles)
      BY <1>inv, <3>6 DEF CallOK
    <3>9. Prepared(call.next, d, data, handles)
      BY <3>5, <3>8, StaysPrepared
    <3>10. Allocated(d)
      BY <1>inv, <1>0, <3>7 DEF CallOK, Allocated
    <3>11. Linkable(d, fat')
      <4> SUFFICES ASSUME call.next = "link"
                   PROVE  /\ call.head \in Cluster
                          /\ Walk(fat', call.head, totalClusters) = EndOfChain
                          /\ fat'[c] = EndOfChain /\ c \notin ChainOf(fat', call.head)
        BY <3>7 DEF Linkable
      <4>1. call.head \in Cluster /\ Walk(fat, call.head, totalClusters) = EndOfChain
        BY <1>inv, <3>6 DEF CallOK, Linkable
      <4> QED
        BY <4>1, <3>1, <3>2, TakenApart
    <3>12. CallOK(d, fat', data, handles)
      BY <3>7, <3>9, <3>10, <3>11 DEF CallOK
    <3>13. call' = d
      BY <2>3, <1>2, <3>3
    <3> QED
      BY <3>12, <3>13, <2>1, <1>inv, <1>0 DEF IInv
  <2> QED
    BY <2>0, <2>2, <2>3
<1> QED
  BY <1>1, <1>2, Zenon DEF AllocateClaim

(* A cluster that could not be cleared is freed again.                      *)
LEMMA UndoKeeps == ASSUME IInv, AllocateUndo PROVE IInv'
<1>inv. /\ FatOK(fat) /\ EndsEverywhere(fat) /\ DataOK(data) /\ HandlesOK(handles)
  BY DEF IInv
<1>1. PICK ok \in Outcomes : writeFATEntry(call.cluster, FreeCluster, ok)
  BY DEF AllocateUndo
<1>2. FatOK(fat') /\ EndsEverywhere(fat')
  BY <1>inv, <1>1, MarkWritten
<1>3. data' = data /\ handles' = handles /\ call' = Idle
  BY DEF AllocateUndo
<1> QED
  BY <1>inv, <1>2, <1>3, IdleIsOK DEF IInv

(* freeClusterChain frees one cluster more.                                 *)
LEMMA FreeKeeps == ASSUME IInv, freeClusterChain PROVE IInv'
<1>inv. /\ FatOK(fat) /\ EndsEverywhere(fat) /\ DataOK(data) /\ HandlesOK(handles)
        /\ CallForm(call) /\ Allocated(call)
        /\ Prepared(InView(call), call, data, handles)
  BY DEF IInv, CallOK
<1>0. data' = data /\ handles' = handles /\ call.at = "free"
  BY DEF freeClusterChain, At
<1>1. PICK ok \in Outcomes :
        /\ writeFATEntry(call.cluster, FreeCluster, ok)
        /\ call' = IF ~ok THEN Idle
                   ELSE IF fat[call.cluster] \in Cluster
                   THEN [call EXCEPT !.cluster = fat[call.cluster]]
                   ELSE Goto("sync")
  BY DEF freeClusterChain
<1>2. FatOK(fat') /\ EndsEverywhere(fat')
  BY <1>inv, <1>1, MarkWritten
<1>3. PICK x : x = fat[call.cluster]
  OBVIOUS
<1>4. call.next \in {"idle", "clear", "cut", "emptied"} /\ InView(call) = call.next
  BY <1>inv, <1>0 DEF Allocated, InView
<1>5. ASSUME NEW d, NEW at \in {"free", "sync"}, NEW y,
             Is(d, call.op, at, call.next, call.handle, call.n, call.head, y, call.slot,
                call.ent, call.was)
      PROVE  CallOK(d, fat', data, handles)
  <2>1. Prepared(call.next, d, data, handles)
    BY <1>5, <1>inv, <1>4, StaysPrepared, Zenon
  <2>2. InView(d) = call.next /\ d.next = call.next /\ CallForm(d) /\ d.at \in {"free", "sync"}
    BY <1>5 DEF Is, InView
  <2> QED
    BY <2>1, <2>2, <1>4 DEF CallOK, Allocated, Linkable
<1>6. CallOK([call EXCEPT !.cluster = x], fat', data, handles)
  BY <1>0, <1>5, <1>inv, Moves, Zenon
<1>7. CallOK(Goto("sync"), fat', data, handles)
  <2>1. CallOK([call EXCEPT !.at = "sync"], fat', data, handles)
    BY <1>5, <1>inv, Moves, Zenon
  <2> QED
    BY <2>1 DEF Goto, Jump
<1>8. CallOK(call', fat', data, handles)
  BY <1>1, <1>3, <1>6, <1>7, IdleIsOK
<1> QED
  BY <1>inv, <1>0, <1>2, <1>8 DEF IInv

(* extendClusterChain hangs the new cluster behind the last one.            *)
LEMMA LinkKeeps == ASSUME IInv, ExtendLink PROVE IInv'
<1>inv. /\ FatOK(fat) /\ EndsEverywhere(fat) /\ DataOK(data) /\ HandlesOK(handles)
        /\ CallForm(call) /\ Allocated(call) /\ Linkable(call, fat)
        /\ Prepared(InView(call), call, data, handles)
  BY DEF IInv, CallOK
<1>0. data' = data /\ handles' = handles /\ call.at = "link"
  BY DEF ExtendLink, At
<1>1. PICK ok \in Outcomes :
        /\ writeFATEntry(LastOf(call.head), call.cluster, ok)
        /\ call' = IF ~ok THEN Idle
                   ELSE IF call.op \in {"write", "truncate"} THEN Goto("locate")
                   ELSE WithSlot(call, <<call.cluster, 1>>)
  BY DEF ExtendLink
<1>2. PICK x, y : x = LastOf(call.head) /\ y = call.cluster
  OBVIOUS
<1>3. InView(call) = "link"
  BY <1>0 DEF InView
<1>4. /\ y \in Cluster /\ call.head \in Cluster
      /\ Walk(fat, call.head, totalClusters) = EndOfChain
      /\ fat[y] = EndOfChain /\ y \notin Chain(call.head)
  BY <1>inv, <1>0, <1>2, <1>3, ChainsWalk DEF Allocated, Linkable
<1>end. totalClusters \in Nat /\ EndOfChain \notin Cluster
  BY ClustersCounted DEF EndOfChain
<1>5. x \in Chain(call.head) /\ fat[x] = EndOfChain
  <2>1. PICK m \in 0 .. totalClusters - 1 :
          /\ Walk(fat, call.head, m) \in Cluster
          /\ fat[Walk(fat, call.head, m)] = EndOfChain
    BY <1>4, <1>end, LastExists
  <2>2. Walk(fat, call.head, m) \in Chain(call.head)
    BY <2>1, ChainsWalk DEF ChainOf
  <2>3. \E d \in Chain(call.head) : fat[d] = EndOfChain
    BY <2>1, <2>2
  <2> QED
    BY <2>3, <1>2 DEF LastOf
<1>6. x \in Cluster /\ x # y
  BY <1>4, <1>5 DEF Chain
<1>7. fat' = fat \/ fat' = [fat EXCEPT ![x] = y]
  BY <1>1, <1>2 DEF writeFATEntry
<1>8. FatOK(fat')
  BY <1>7, <1>inv, <1>4 DEF FatOK
<1>9. EndsEverywhere(fat')
  <2>1. CASE fat' = fat
    BY <2>1, <1>inv
  <2>2. CASE fat' = [fat EXCEPT ![x] = y]
    <3>1. Changed(fat, x, y, fat')
      BY <2>2, <1>inv DEF Changed, FatOK
    <3>2. fat[y] \notin Cluster
      BY <1>4, <1>end
    <3> QED
      BY <3>1, <3>2, <1>4, <1>6, <1>inv, LinkMakesNoLoop
  <2> QED
    BY <1>7, <2>1, <2>2
<1>10. CallOK(call', fat', data, handles)
  <2>1. CASE ~ok
    BY <2>1, <1>1, IdleIsOK
  <2>2. CASE ok /\ call.op \in {"write", "truncate"}
    <3>1. HasFile(call, handles) /\ Locating(call)
      BY <2>2, <1>inv, <1>3 DEF Prepared
    <3>2. Prepared("locate", call, data, handles)
      BY <3>1 DEF Prepared, Later
    <3>3. CallOK(Jump(call, "locate"), fat', data, handles)
      BY <3>2, <1>inv, GoesOn
    <3> QED
      BY <3>3, <2>2, <1>1 DEF Goto
  <2>3. CASE ok /\ call.op \notin {"write", "truncate"}
    <3>1. HasEntry(call)
      BY <2>3, <1>inv, <1>3 DEF Prepared
    <3>2. PICK s : s = <<call.cluster, 1>>
      OBVIOUS
    <3>3. SlotOK(s)
      <4>1. s = <<y, 1>> /\ 1 \in 1 .. ClusterSize
        BY <3>2, <1>2, VolumeAssumption
      <4> QED
        BY <4>1, <1>4 DEF SlotOK
    <3>4. call.head \in Link
      BY <1>4 DEF Link
    <3>5. CallOK(WithSlot(call, s), fat', data, handles)
      BY <3>1, <3>3, <3>4, <1>inv, WithSlotIsOK
    <3> QED
      BY <3>5, <3>2, <2>3, <1>1
  <2> QED
    BY <2>1, <2>2, <2>3
<1> QED
  BY <1>inv, <1>0, <1>8, <1>9, <1>10 DEF IInv

-----------------------------------------------------------------------------
(* The steps that write clusters                                            *)

(* The parts of the invariant, for a step that leaves the table alone.      *)
LEMMA Parts ==
  IInv => /\ FatOK(fat) /\ EndsEverywhere(fat) /\ DataOK(data) /\ HandlesOK(handles)
          /\ CallForm(call) /\ Allocated(call) /\ Linkable(call, fat)
          /\ Prepared(InView(call), call, data, handles)
  BY DEF IInv, CallOK

(* An allocation or a freed chain is over and the call goes on.             *)
LEMMA AfterLoop ==
  ASSUME NEW c, CallForm(c), Allocated(c), Linkable(c, fat),
         c.at \in {"zero", "sync"}, NEW cells, NEW files,
         Prepared(c.next, c, cells, files)
  PROVE  /\ c.at = "zero" => CallOK(Jump(c, "sync"), fat, cells, files)
         /\ CallOK(Jump(c, c.next), fat, cells, files)
<1>0. InView(c) = c.next /\ c.next \in Later
  BY DEF InView, Prepared
<1>1. ASSUME NEW label,
             \/ label = "sync" /\ c.at = "zero"
             \/ label = c.next /\ label # "idle"
      PROVE  CallOK(Jump(c, label), fat, cells, files)
  <2>1. PICK d : d = [c EXCEPT !.at = label]
    OBVIOUS
  <2>2. Is(d, c.op, label, c.next, c.handle, c.n, c.head, c.cluster, c.slot, c.ent, c.was)
    BY <2>1, Moves, Zenon
  <2>3. Prepared(c.next, d, cells, files)
    BY <2>2, StaysPrepared
  <2>4. /\ CallForm(d) /\ d.at = label /\ d.next = c.next
        /\ d.head = c.head /\ d.cluster = c.cluster
    BY <2>2 DEF Is
  <2>5. InView(d) = c.next
    BY <2>4, <1>0, <1>1 DEF InView, Later
  <2>6. CallOK(d, fat, cells, files)
    BY <2>3, <2>4, <2>5, <1>0, <1>1 DEF CallOK, Allocated, Linkable, Later
  <2>7. Jump(c, label) = d
    BY <2>1, <1>1 DEF Jump
  <2> QED
    BY <2>6, <2>7
<1>2. CASE c.next = "idle"
  BY <1>1, <1>2, IdleIsOK DEF Jump
<1> QED
  BY <1>1, <1>2

(* A new cluster is cleared; if that fails it is given back.                *)
LEMMA ZeroKeeps == ASSUME IInv, zeroCluster PROVE IInv'
<1>0. fat' = fat /\ handles' = handles /\ call.at = "zero"
  BY DEF zeroCluster, At
<1>1. PICK ok \in Outcomes :
        /\ writeCluster(call.cluster, ZeroCells, ok)
        /\ call' = Goto(IF ok THEN "sync" ELSE "undo")
  BY DEF zeroCluster
<1>2. ok \in BOOLEAN
  BY DEF Outcomes
<1>3. \A i \in 1 .. ClusterSize : CellOK(ZeroCells[i])
  BY NoEntryCells DEF ZeroCells
<1>4. DataOK(data')
  BY <1>1, <1>2, <1>3, Parts, CellsWritten
<1>5. call.next \in {"link", "dots", "first"} /\ InView(call) = call.next
  BY <1>0, Parts DEF Allocated, InView
<1>6. Prepared(call.next, call, data', handles)
  BY <1>5, Parts, PreparedAnyway
<1>7. CallOK(Jump(call, "sync"), fat, data', handles)
  BY <1>0, <1>6, Parts, AfterLoop
<1>8. CallOK(Jump(call, "undo"), fat, data', handles)
  <2>1. Prepared("undo", call, data', handles)
    BY DEF Prepared, Later
  <2> QED
    BY <2>1, Parts, GoesOn
<1>9. CallOK(call', fat, data', handles)
  BY <1>1, <1>2, <1>7, <1>8 DEF Goto
<1> QED
  BY <1>0, <1>4, <1>9, Parts DEF IInv

(* syncFSInfo, and on to where the cluster is used.                         *)
LEMMA SyncKeeps == ASSUME IInv, syncFSInfo PROVE IInv'
<1>0. /\ fat' = fat /\ data' = data /\ handles' = handles /\ call.at = "sync"
      /\ call' = Goto(call.next)
  BY DEF syncFSInfo, At
<1>1. Prepared(call.next, call, data, handles)
  BY <1>0, Parts DEF InView
<1>2. CallOK(Jump(call, call.next), fat, data, handles)
  BY <1>0, <1>1, Parts, AfterLoop
<1> QED
  BY <1>0, <1>2, Parts DEF IInv, Goto

(* The first cells of a directory are entries.                              *)
LEMMA DotsAreCells ==
  ASSUME NEW c \in Link, NEW p \in Link
  PROVE  \A i \in 1 .. ClusterSize : CellOK(DotCells(c, p)[i])
<1> DEFINE e == Entry(".", TRUE, c, 0)
           f == Entry("..", TRUE, p, 0)
<1>1. CellOK(e) /\ CellOK(f) /\ CellOK(Zero)
  <2>1. \A dir : CellOK(Entry(".", dir, c, 0)) /\ CellOK(Entry("..", dir, p, 0))
    BY EntryIsOK
  <2> QED
    BY <2>1, NoEntryCells
<1>2. DotCells(c, p) = [ZeroCells EXCEPT ![1] = e, ![2] = f]
  BY DEF DotCells
<1> HIDE DEF e, f
<1>3. \A i \in 1 .. ClusterSize : DotCells(c, p)[i] \in {e, f, Zero}
  BY <1>2 DEF ZeroCells
<1> QED
  BY <1>1, <1>3

(* A new directory gets its first two entries.                              *)
LEMMA DotsKeeps == ASSUME IInv, CreateDots PROVE IInv'
<1>0. fat' = fat /\ handles' = handles /\ call.at = "dots"
  BY DEF CreateDots, At
<1>1. PICK ok \in Outcomes :
        /\ writeCluster(call.cluster, DotCells(call.cluster, call.head), ok)
        /\ call' = IF ok
                   THEN [call EXCEPT !.at = "entry", !.ent.firstCluster = call.cluster]
                   ELSE Freeing(call, call.cluster, "idle")
  BY DEF CreateDots
<1>2. ok \in BOOLEAN
  BY DEF Outcomes
<1>3. PICK c, p : c = call.cluster /\ p = call.head
  OBVIOUS
<1>4. InView(call) = "dots"
  BY <1>0 DEF InView
<1>5. /\ HasEntry(call) /\ SlotOK(call.slot) /\ p \in Link
      /\ c \in Cluster /\ c \in Link
  BY <1>0, <1>3, <1>4, Parts DEF Prepared, Allocated, Link
<1>6. \A i \in 1 .. ClusterSize : CellOK(DotCells(c, p)[i])
  BY <1>5, DotsAreCells
<1>7. DataOK(data')
  BY <1>1, <1>2, <1>3, <1>6, Parts, CellsWritten
<1>8. CallOK(call', fat, data', handles)
  <2>1. CASE ok
    <3>1. PICK d : d = [call EXCEPT !.at = "entry", !.ent.firstCluster = c]
      OBVIOUS
    <3>2. EntOK(call.ent) /\ EntOK([call.ent EXCEPT !.firstCluster = c])
      BY <1>5, EntrySet, Zenon DEF HasEntry
    <3>3. Is(d, call.op, "entry", call.next, call.handle, call.n, call.head, call.cluster,
             call.slot, [call.ent EXCEPT !.firstCluster = c], call.was)
      BY <3>1, <3>2, <1>5, Parts, MoveEntry, Zenon
    <3>4. CallForm(d) /\ d.at = "entry" /\ HasEntry(d) /\ SlotOK(d.slot)
      BY <3>2, <3>3, <1>5 DEF Is, HasEntry
    <3>5. InView(d) = "entry"
      BY <3>4 DEF InView
    <3>6. CallOK(d, fat, data', handles)
      BY <3>4, <3>5 DEF CallOK, Prepared, Later, Allocated, Linkable
    <3> QED
      BY <2>1, <1>1, <1>3, <3>1, <3>6
  <2>2. CASE ~ok
    <3>1. Prepared("idle", call, data', handles)
      BY DEF Prepared, Later
    <3>2. CallOK(Freeing(call, call.cluster, "idle"), fat, data', handles)
      BY <3>1, Parts, FreeingIsOK
    <3> QED
      BY <2>2, <1>1, <3>2
  <2> QED
    BY <1>2, <2>1, <2>2
<1> QED
  BY <1>0, <1>7, <1>8, Parts DEF IInv

(* The new entry reaches its slot.                                          *)
LEMMA EntryKeeps == ASSUME IInv, CreateEntry PROVE IInv'
<1>0. fat' = fat /\ handles' = handles /\ call.at = "entry"
  BY DEF CreateEntry, At
<1>1. PICK ok \in Outcomes :
        /\ writeSlot(call.slot, call.ent, ok)
        /\ call' = IF ok THEN Goto(Entered)
                   ELSE IF call.ent.firstCluster \in Cluster
                   THEN Freeing(call, call.ent.firstCluster, "idle")
                   ELSE Idle
  BY DEF CreateEntry
<1>2. ok \in BOOLEAN
  BY DEF Outcomes
<1>3. InView(call) = "entry"
  BY <1>0 DEF InView
<1>4. HasEntry(call) /\ SlotOK(call.slot)
  BY <1>3, Parts DEF Prepared
<1>5. CellOK(call.ent) /\ call.ent.kind = "entry"
  BY <1>4 DEF HasEntry, CellOK, EntOK
<1>6. PICK s, e : s = call.slot /\ e = call.ent
  OBVIOUS
<1>7. /\ DataOK(data')
      /\ ok => data'[s[1]][s[2]] = e
  BY <1>1, <1>2, <1>4, <1>5, <1>6, Parts, SlotWritten
<1>8. CallOK(call', fat, data', handles)
  <2>1. CASE ok
    <3>1. Prepared(Entered, call, data', handles)
      <4>1. CASE call.op = "rename"
        <5>1. Entered = "update"
          BY <4>1 DEF Entered
        <5> QED
          BY <5>1, <4>1, <1>4 DEF Prepared, Later, HasEntry
      <4>2. CASE call.op = "open"
        <5>1. Entered \in {"clear", "opened"}
          BY <4>2 DEF Entered
        <5>2. data'[call.slot[1]][call.slot[2]].kind = "entry"
          BY <2>1, <1>5, <1>6, <1>7
        <5> QED
          BY <5>1, <5>2, <4>2, <1>4 DEF Prepared, Later, HasEntry
      <4>3. CASE call.op \notin {"rename", "open"}
        <5>1. Entered = "idle"
          BY <4>3 DEF Entered
        <5> QED
          BY <5>1 DEF Prepared, Later
      <4> QED
        BY <4>1, <4>2, <4>3
    <3>2. Entered \in {"update", "idle", "clear", "opened"}
      BY DEF Entered
    <3>3. CallOK(Jump(call, Entered), fat, data', handles)
      BY <3>1, <3>2, Parts, GoesOn
    <3> QED
      BY <2>1, <1>1, <3>3 DEF Goto
  <2>2. CASE ~ok
    <3>1. Prepared("idle", call, data', handles)
      BY DEF Prepared, Later
    <3>2. CallOK(Freeing(call, call.ent.firstCluster, "idle"), fat, data', handles)
      BY <3>1, Parts, FreeingIsOK
    <3> QED
      BY <2>2, <1>1, <3>2, IdleIsOK
  <2> QED
    BY <1>2, <2>1, <2>2
<1> QED
  BY <1>0, <1>7, <1>8, Parts DEF IInv

(* The entry of a file that open has emptied.                               *)
LEMMA ClearKeeps == ASSUME IInv, OpenClear PROVE IInv'
<1>0. fat' = fat /\ handles' = handles /\ call.at = "clear"
  BY DEF OpenClear, At
<1>1. PICK ok \in Outcomes :
        /\ writeSlot(call.slot, Updated(call.slot, NoEntry), ok)
        /\ call' = GotoIf(ok, "opened")
  BY DEF OpenClear
<1>2. ok \in BOOLEAN
  BY DEF Outcomes
<1>3. InView(call) = "clear"
  BY <1>0 DEF InView
<1>4. /\ SlotOK(call.slot) /\ call.handle \in Handles
      /\ Cell(call.slot).kind = "entry"
  BY <1>3, Parts DEF Prepared, Cell
<1>5. PICK s, e : s = call.slot /\ e = Updated(call.slot, NoEntry)
  OBVIOUS
<1>6. NoEntry.firstCluster \in Link /\ NoEntry.size \in Nat
  BY NoEntryCells DEF Link
<1>7. CellOK(e) /\ e.kind = "entry"
  BY <1>4, <1>5, <1>6, Parts, UpdatedIsCell
<1>8. /\ DataOK(data')
      /\ ok => data'[s[1]][s[2]] = e
  BY <1>1, <1>2, <1>4, <1>5, <1>7, Parts, SlotWritten
<1>9. CallOK(call', fat, data', handles)
  <2>1. CASE ok
    <3>1. Prepared("opened", call, data', handles)
      BY <2>1, <1>4, <1>5, <1>7, <1>8 DEF Prepared, Later
    <3>2. CallOK(Jump(call, "opened"), fat, data', handles)
      BY <3>1, Parts, GoesOn
    <3> QED
      BY <2>1, <1>1, <3>2 DEF GotoIf, Goto
  <2>2. CASE ~ok
    BY <2>2, <1>1, IdleIsOK DEF GotoIf
  <2> QED
    BY <1>2, <2>1, <2>2
<1> QED
  BY <1>0, <1>8, <1>9, Parts DEF IInv

-----------------------------------------------------------------------------
(* Open files                                                               *)

(* What the steps make of an open file.                                     *)
LEMMA FileMoves ==
  ASSUME NEW f, FileOK(f), NEW b, NEW x \in Link, NEW y \in Nat, NEW z \in Nat
  PROVE  /\ FileOK([f EXCEPT !.ent.firstCluster = x, !.dirty = b])
         /\ FileOK([f EXCEPT !.offset = y, !.dirty = b, !.ent.size = z])
         /\ FileOK([f EXCEPT !.ent.size = z, !.dirty = b, !.offset = y])
         /\ FileOK([f EXCEPT !.ent.firstCluster = x, !.ent.size = z,
                             !.offset = y, !.dirty = b])
         /\ FileOK([f EXCEPT !.dirty = b])
         /\ FileOK([f EXCEPT !.offset = y])
<1>1. PICK e : e = f.ent
  OBVIOUS
<1>2. EntOK(e)
  BY <1>1 DEF FileOK
<1>3. /\ EntOK([e EXCEPT !.firstCluster = x])
      /\ EntOK([e EXCEPT !.size = z])
  BY <1>2, EntrySet, Zenon
<1>4. PICK d : d = [e EXCEPT !.firstCluster = x]
  OBVIOUS
<1>5. EntOK(d) /\ EntOK([d EXCEPT !.size = z])
  BY <1>3, <1>4, EntrySet, Zenon
<1>6. FileOK([f EXCEPT !.ent = d, !.dirty = b])
  BY <1>5 DEF FileOK, FileFields
<1>7. \A g : EntOK(g) => FileOK([f EXCEPT !.offset = y, !.dirty = b, !.ent = g])
  BY DEF FileOK, FileFields
<1>8. [f EXCEPT !.ent.firstCluster = x, !.dirty = b] = [f EXCEPT !.ent = d, !.dirty = b]
  BY <1>1, <1>4 DEF FileOK, FileFields
<1>9. PICK g : g = [e EXCEPT !.size = z]
  OBVIOUS
<1>10. /\ [f EXCEPT !.offset = y, !.dirty = b, !.ent.size = z]
             = [f EXCEPT !.offset = y, !.dirty = b, !.ent = g]
       /\ [f EXCEPT !.ent.size = z, !.dirty = b, !.offset = y]
             = [f EXCEPT !.offset = y, !.dirty = b, !.ent = g]
  BY <1>1, <1>9 DEF FileOK, FileFields
<1>11. PICK k : k = [d EXCEPT !.size = z]
  OBVIOUS
<1>12. [f EXCEPT !.ent.firstCluster = x, !.ent.size = z, !.offset = y, !.dirty = b]
             = [f EXCEPT !.offset = y, !.dirty = b, !.ent = k]
  BY <1>1, <1>4, <1>11 DEF FileOK, FileFields
<1>13. FileOK([f EXCEPT !.dirty = b]) /\ FileOK([f EXCEPT !.offset = y])
  BY DEF FileOK, FileFields
<1>14. EntOK(g) /\ EntOK(k)
  BY <1>3, <1>5, <1>9, <1>11
<1>15. /\ FileOK([f EXCEPT !.offset = y, !.dirty = b, !.ent = g])
       /\ FileOK([f EXCEPT !.offset = y, !.dirty = b, !.ent = k])
  BY <1>7, <1>14, Zenon
<1> QED
  BY <1>6, <1>8, <1>10, <1>12, <1>13, <1>15

(* The handles once one of them has another file, or none.                  *)
LEMMA FileIsSet ==
  ASSUME HandlesOK(handles), NEW h, NEW file, FileOK(file) \/ file = Closed,
         handles' = [handles EXCEPT ![h] = file]
  PROVE  /\ HandlesOK(handles')
         /\ FileOK(file) /\ h \in Handles => handles'[h] # Closed
<1>1. FileOK(file) => file # Closed
  BY DEF FileOK, Closed
<1>2. handles = [k \in Handles |-> handles[k]]
  BY DEF HandlesOK
<1>3. /\ handles' = [k \in Handles |-> handles'[k]]
      /\ \A k \in Handles : handles'[k] = IF k = h THEN file ELSE handles[k]
  BY <1>2
<1> QED
  BY <1>1, <1>3 DEF HandlesOK

(* The file of a call is open and of its form.                              *)
LEMMA TheFile ==
  ASSUME HandlesOK(handles), HasFile(call, handles)
  PROVE  FileOK(File) /\ call.handle \in Handles
  BY DEF HandlesOK, HasFile, File

(* open gives the handle its file.                                          *)
LEMMA OpenHandleKeeps == ASSUME IInv, OpenHandle PROVE IInv'
<1>0. /\ fat' = fat /\ data' = data /\ call' = Idle /\ call.at = "opened"
  BY DEF OpenHandle, At
<1>1. InView(call) = "opened"
  BY <1>0 DEF InView
<1>2. SlotOK(call.slot) /\ Cell(call.slot).kind = "entry"
  BY <1>1, Parts DEF Prepared, Cell
<1>3. PICK s, e : s = call.slot /\ e = Cell(call.slot)
  OBVIOUS
<1>4. EntOK(e)
  BY <1>2, <1>3, Parts, CellRead DEF CellOK
<1>5. PICK x : x = IF "Append" \in call.mode THEN e.size ELSE 0
  OBVIOUS
<1>6. x \in Nat
  BY <1>4, <1>5 DEF EntOK
<1>7. PICK file : file = [open |-> TRUE, slot |-> s, ent |-> e, offset |-> x,
                          dirty |-> FALSE]
  OBVIOUS
<1>8. FileOK(file)
  BY <1>2, <1>3, <1>4, <1>6, <1>7 DEF FileOK, FileFields
<1>9. handles' = [handles EXCEPT ![call.handle] = file]
  BY <1>3, <1>5, <1>7 DEF OpenHandle, SetFile
<1>10. HandlesOK(handles')
  BY <1>8, <1>9, Parts, FileIsSet
<1> QED
  BY <1>0, <1>10, Parts, IdleIsOK DEF IInv

-----------------------------------------------------------------------------
(* Writing and truncating files                                             *)

(* A chain that ends at some place is at its end after as many steps as the *)
(* volume has clusters.                                                     *)
LEMMA EndIsReached ==
  ASSUME NEW g, EndsEverywhere(g), NEW c, NEW n \in Nat, Walk(g, c, n) = EndOfChain
  PROVE  Walk(g, c, totalClusters) = EndOfChain
<1>1. totalClusters \in Nat /\ EndOfChain \notin Cluster
  BY ClustersCounted DEF EndOfChain
<1>2. CASE n <= totalClusters
  BY <1>1, <1>2, MarkStays
<1>3. CASE n >= totalClusters
  BY <1>3, AnyWalkEnds
<1> QED
  BY <1>1, <1>2, <1>3

(* The place that write and truncate look for is one.                       *)
LEMMA WantedIsPlace ==
  ASSUME HandlesOK(handles), HasFile(call, handles), Locating(call)
  PROVE  Wanted \div ClusterSize \in Nat
<1>1. File.offset \in Nat
  BY TheFile DEF FileOK
<1>2. call.n \in Nat
  BY DEF HasFile
<1>3. PICK w : w = Wanted
  OBVIOUS
<1>4. w \in Nat
  BY <1>1, <1>2, <1>3 DEF Wanted, Locating
<1>5. ClusterSize \in Nat /\ ClusterSize >= 2
  BY VolumeAssumption
<1>6. w \div ClusterSize \in Nat
  BY <1>4, <1>5
<1> QED
  BY <1>3, <1>6

(* getClusterForOffset: the cluster is there, or the chain ends before it.  *)
LEMMA LocateKeeps == ASSUME IInv, getClusterForOffset PROVE IInv'
<1>0. /\ fat' = fat /\ data' = data /\ handles' = handles /\ call.at = "locate"
  BY DEF getClusterForOffset, At
<1>1. InView(call) = "locate"
  BY <1>0 DEF InView
<1>2. HasFile(call, handles) /\ Locating(call)
  BY <1>1, Parts DEF Prepared
<1>3. PICK first, q : first = File.ent.firstCluster /\ q = Wanted \div ClusterSize
  OBVIOUS
<1>4. PICK c : c = Nth(first, q)
  OBVIOUS
<1>5. q \in Nat
  BY <1>2, <1>3, Parts, WantedIsPlace
<1>6. first \in Link
  BY <1>2, <1>3, Parts, TheFile DEF FileOK, EntOK
<1>7. call' = IF first = 0 THEN Allocating(call, "first")
              ELSE IF c \in Cluster THEN Located(c)
              ELSE IF c = EndOfChain
              THEN Allocating([call EXCEPT !.head = first], "link")
              ELSE Idle
  BY <1>3, <1>4 DEF getClusterForOffset
<1>8. ASSUME NEW x, NEW d, d = [call EXCEPT !.head = x]
      PROVE  /\ CallForm(d) /\ d.head = x /\ HasFile(d, handles) /\ Locating(d)
             /\ d.op = call.op
  <2>1. Is(d, call.op, call.at, call.next, call.handle, call.n, x, call.cluster,
           call.slot, call.ent, call.was)
    BY <1>8, Parts, Moves, Zenon
  <2> QED
    BY <2>1, <1>2 DEF Is, HasFile, Locating
<1>9. CallOK(call', fat, data, handles)
  <2>1. CASE first = 0
    <3>1. Prepared("first", call, data, handles)
      BY <1>2 DEF Prepared, Later
    <3>2. CallOK(Allocating(call, "first"), fat, data, handles)
      BY <3>1, Parts, AllocatingIsOK
    <3> QED
      BY <3>2, <2>1, <1>7
  <2>2. CASE first # 0 /\ c \in Cluster
    <3>1. CASE call.op = "write"
      <4>1. PICK d : d = [call EXCEPT !.at = "chunk", !.cluster = c]
        OBVIOUS
      <4>2. Is(d, call.op, "chunk", call.next, call.handle, call.n, call.head, c,
               call.slot, call.ent, call.was)
        BY <4>1, Parts, Moves, Zenon
      <4>3. /\ CallForm(d) /\ d.at = "chunk" /\ d.cluster = c /\ d.op = "write"
            /\ HasFile(d, handles) /\ Locating(d)
        BY <3>1, <4>2, <1>2 DEF Is, HasFile, Locating
      <4>4. InView(d) = "chunk"
        BY <4>3 DEF InView
      <4>5. CallOK(d, fat, data, handles)
        BY <4>3, <4>4, <2>2 DEF CallOK, Prepared, Later, Allocated, Linkable
      <4> QED
        BY <4>1, <4>5, <3>1, <2>2, <1>7 DEF Located
    <3>2. CASE call.op # "write"
      <4>1. PICK d : d = [call EXCEPT !.head = c]
        OBVIOUS
      <4>2. CallForm(d) /\ HasFile(d, handles) /\ d.op = "truncate"
        BY <4>1, <3>2, <1>8 DEF Locating
      <4>3. Prepared("cut", d, data, handles)
        BY <4>2 DEF Prepared, Later
      <4>4. CallOK(Freeing(d, fat[c], "cut"), fat, data, handles)
        BY <4>2, <4>3, FreeingIsOK
      <4> QED
        BY <4>1, <4>4, <3>2, <2>2, <1>7 DEF Located
    <3> QED
      BY <3>1, <3>2
  <2>3. CASE first # 0 /\ c \notin Cluster /\ c = EndOfChain
    <3>1. PICK d : d = [call EXCEPT !.head = first]
      OBVIOUS
    <3>2. CallForm(d) /\ d.head = first /\ HasFile(d, handles) /\ Locating(d)
      BY <3>1, <1>8
    <3>3. Walk(fat, first, q) = EndOfChain
      BY <2>3, <1>4, NthWalks
    <3>4. Walk(fat, first, totalClusters) = EndOfChain
      BY <3>3, <1>5, Parts, EndIsReached
    <3>5. first \in Cluster
      BY <2>3, <1>6 DEF Link
    <3>6. Prepared("link", d, data, handles)
      BY <3>2 DEF Prepared, Later, Locating
    <3>7. CallOK(Allocating(d, "link"), fat, data, handles)
      BY <3>2, <3>4, <3>5, <3>6, AllocatingIsOK
    <3> QED
      BY <3>1, <3>7, <2>3, <1>7
  <2>4. CASE first # 0 /\ c \notin Cluster /\ c # EndOfChain
    BY <2>4, <1>7, IdleIsOK
  <2> QED
    BY <2>1, <2>2, <2>3, <2>4
<1> QED
  BY <1>0, <1>9, Parts DEF IInv

(* A file without clusters gets its first one.                              *)
LEMMA FirstKeeps == ASSUME IInv, setFirstCluster PROVE IInv'
<1>0. /\ fat' = fat /\ data' = data /\ call.at = "first"
      /\ call' = Goto("locate")
  BY DEF setFirstCluster, At
<1>1. InView(call) = "first"
  BY <1>0 DEF InView
<1>2. HasFile(call, handles) /\ Locating(call) /\ call.cluster \in Cluster
  BY <1>0, <1>1, Parts DEF Prepared, Allocated
<1>3. PICK f, x, b : /\ f = File /\ x = call.cluster
                     /\ b = ((call.op = "write") \/ File.dirty)
  OBVIOUS
<1>4. FileOK(f) /\ call.handle \in Handles /\ x \in Link
  BY <1>2, <1>3, Parts, TheFile DEF Link
<1>5. PICK file : file = [f EXCEPT !.ent.firstCluster = x, !.dirty = b]
  OBVIOUS
<1>6. FileOK(file)
  BY <1>4, <1>5, FileMoves, Zenon
<1>7. handles' = [handles EXCEPT ![call.handle] = file]
  BY <1>3, <1>5 DEF setFirstCluster, SetFile
<1>8. HandlesOK(handles') /\ handles'[call.handle] # Closed
  BY <1>4, <1>6, <1>7, Parts, FileIsSet
<1>9. HasFile(call, handles')
  BY <1>2, <1>8 DEF HasFile
<1>10. Prepared("locate", call, data, handles')
  BY <1>2, <1>9 DEF Prepared, Later
<1>11. CallOK(Jump(call, "locate"), fat, data, handles')
  BY <1>10, Parts, GoesOn
<1> QED
  BY <1>0, <1>8, <1>11, Parts DEF IInv, Goto

(* A chunk is no more than what is left to write.                           *)
LEMMA ChunkIsPart ==
  ASSUME NEW f, f = File, FileOK(f), call.n \in Nat
  PROVE  /\ Chunk \in Nat
         /\ call.n - Chunk \in Nat
         /\ f.offset + Chunk \in Nat
         /\ Grown(f.offset + Chunk) \in Nat
<1>1. PICK o, n, room : /\ o = f.offset /\ n = call.n
                        /\ room = ClusterSize - (o % ClusterSize)
  OBVIOUS
<1>2. o \in Nat /\ f.ent.size \in Nat
  BY <1>1 DEF FileOK, EntOK
<1>3. ClusterSize \in Nat /\ ClusterSize >= 2
  BY VolumeAssumption
<1>4. o % ClusterSize \in 0 .. ClusterSize - 1
  BY <1>2, <1>3
<1>5. room \in Nat
  BY <1>1, <1>3, <1>4
<1>6. PICK k : k = Chunk
  OBVIOUS
<1>7. k = IF room <= n THEN room ELSE n
  BY <1>1, <1>6 DEF Chunk
<1>8. k \in Nat /\ n - k \in Nat
  BY <1>1, <1>5, <1>7
<1>9. o + k \in Nat
  BY <1>2, <1>8
<1>10. Grown(o + k) \in Nat
  BY <1>2, <1>9 DEF Grown
<1> QED
  BY <1>1, <1>6, <1>8, <1>9, <1>10

(* One turn of the loop of write.                                           *)
LEMMA ChunkKeeps == ASSUME IInv, WriteChunk PROVE IInv'
<1>0. fat' = fat /\ call.at = "chunk"
  BY DEF WriteChunk, At
<1>1. PICK ok \in Outcomes :
        /\ writeCluster(call.cluster, Written, ok)
        /\ IF ok
           THEN /\ SetFile([File EXCEPT !.offset = @ + Chunk, !.dirty = TRUE,
                                        !.ent.size = Grown(File.offset + Chunk)])
                /\ call' = IF Chunk = call.n THEN Idle
                           ELSE [call EXCEPT !.at = "locate", !.n = @ - Chunk]
           ELSE call' = Idle /\ UNCHANGED handles
  BY DEF WriteChunk
<1>2. ok \in BOOLEAN
  BY DEF Outcomes
<1>3. InView(call) = "chunk"
  BY <1>0 DEF InView
<1>4. HasFile(call, handles) /\ Locating(call) /\ call.cluster \in Cluster
  BY <1>0, <1>3, Parts DEF Prepared, Allocated
<1>5. PICK f : f = File
  OBVIOUS
<1>6. FileOK(f) /\ call.handle \in Handles /\ call.n \in Nat
  BY <1>4, <1>5, Parts, TheFile DEF HasFile
<1>7. DataOK(data')
  <2>1. \A i \in 1 .. ClusterSize : CellOK(Written[i])
    <3> TAKE i \in 1 .. ClusterSize
    <3>1. CellOK(data[call.cluster][i])
      BY <1>4, Parts DEF DataOK, CellsOK
    <3>2. \/ \E k : Written[i] = Unit(k)
          \/ Written[i] = data[call.cluster][i]
      BY DEF Written
    <3> QED
      BY <3>1, <3>2, NoEntryCells
  <2> QED
    BY <2>1, <1>1, <1>2, Parts, CellsWritten
<1>8. CASE ok
  <2>1. PICK y, z, k : /\ y = f.offset + Chunk /\ z = Grown(f.offset + Chunk)
                       /\ k = call.n - Chunk
    OBVIOUS
  <2>2. y \in Nat /\ z \in Nat /\ k \in Nat
    BY <2>1, <1>5, <1>6, ChunkIsPart
  <2>3. PICK file : file = [f EXCEPT !.offset = y, !.dirty = TRUE, !.ent.size = z]
    OBVIOUS
  <2>4. \A b : FileOK([f EXCEPT !.offset = y, !.dirty = b, !.ent.size = z])
    <3>1. 0 \in Link
      BY DEF Link
    <3> QED
      BY <3>1, <2>2, <1>6, FileMoves, Zenon
  <2>5. FileOK(file)
    BY <2>3, <2>4, Zenon
  <2>6. file = [f EXCEPT !.offset = @ + Chunk, !.dirty = TRUE,
                         !.ent.size = Grown(f.offset + Chunk)]
    BY <2>1, <2>3
  <2>7. handles' = [handles EXCEPT ![call.handle] = file]
    BY <2>6, <1>1, <1>5, <1>8 DEF SetFile
  <2>8. HandlesOK(handles') /\ handles'[call.handle] # Closed
    BY <2>5, <2>7, <1>6, Parts, FileIsSet
  <2>9. CASE Chunk = call.n
    <3>1. call' = Idle
      BY <2>9, <1>1, <1>8
    <3> QED
      BY <3>1, <2>8, <1>0, <1>7, Parts, IdleIsOK DEF IInv
  <2>10. CASE Chunk # call.n
    <3>1. PICK d : d = [call EXCEPT !.at = "locate", !.n = k]
      OBVIOUS
    <3>2. Is(d, call.op, "locate", call.next, call.handle, k, call.head, call.cluster,
             call.slot, call.ent, call.was)
      BY <3>1, Parts, Moves, Zenon
    <3>3. k # 0
      <4>1. Chunk \in Nat
        BY <1>5, <1>6, ChunkIsPart
      <4> QED
        BY <4>1, <2>1, <2>10, <1>6
    <3>4. /\ CallForm(d) /\ d.at = "locate" /\ Locating(d)
          /\ HasFile(d, handles')
      BY <3>2, <3>3, <2>2, <2>8, <1>4, <1>6 DEF Is, HasFile, Locating
    <3>5. InView(d) = "locate"
      BY <3>4 DEF InView
    <3>6. CallOK(d, fat, data', handles')
      BY <3>4, <3>5 DEF CallOK, Prepared, Later, Allocated, Linkable
    <3>7. call' = d
      BY <3>1, <2>1, <2>10, <1>1, <1>8
    <3> QED
      BY <3>6, <3>7, <2>8, <1>0, <1>7, Parts DEF IInv
  <2> QED
    BY <2>9, <2>10
<1>9. CASE ~ok
  <2>1. call' = Idle /\ handles' = handles
    BY <1>1, <1>9
  <2> QED
    BY <2>1, <1>0, <1>7, Parts, IdleIsOK DEF IInv
<1> QED
  BY <1>2, <1>8, <1>9

(* truncate marks the last cluster that stays.                              *)
LEMMA CutKeeps == ASSUME IInv, TruncateCut PROVE IInv'
<1>0. data' = data /\ call.at = "cut"
  BY DEF TruncateCut, At
<1>1. PICK ok \in Outcomes :
        /\ writeFATEntry(call.head, EndOfChain, ok)
        /\ call' = GotoIf(ok, "flush")
        /\ IF ok
           THEN SetFile([File EXCEPT !.ent.size = call.n, !.dirty = TRUE,
                                     !.offset = IF @ > call.n THEN call.n ELSE @])
           ELSE UNCHANGED handles
  BY DEF TruncateCut
<1>2. ok \in BOOLEAN
  BY DEF Outcomes
<1>3. InView(call) = "cut"
  BY <1>0 DEF InView
<1>4. HasFile(call, handles)
  BY <1>3, Parts DEF Prepared
<1>5. PICK f, n : f = File /\ n = call.n
  OBVIOUS
<1>6. FileOK(f) /\ call.handle \in Handles /\ n \in Nat
  BY <1>4, <1>5, Parts, TheFile DEF HasFile
<1>7. FatOK(fat') /\ EndsEverywhere(fat')
  BY <1>1, Parts, MarkWritten
<1>8. CASE ok
  <2>1. PICK y : y = IF f.offset > n THEN n ELSE f.offset
    OBVIOUS
  <2>2. y \in Nat
    BY <2>1, <1>6 DEF FileOK
  <2>3. PICK file : file = [f EXCEPT !.ent.size = n, !.dirty = TRUE, !.offset = y]
    OBVIOUS
  <2>4. \A b : FileOK([f EXCEPT !.ent.size = n, !.dirty = b, !.offset = y])
    <3>1. 0 \in Link
      BY DEF Link
    <3> QED
      BY <3>1, <2>2, <1>6, FileMoves, Zenon
  <2>5. FileOK(file)
    BY <2>3, <2>4, Zenon
  <2>6. file = [f EXCEPT !.ent.size = n, !.dirty = TRUE,
                         !.offset = IF @ > n THEN n ELSE @]
    BY <2>1, <2>3
  <2>7. handles' = [handles EXCEPT ![call.handle] = file]
    BY <2>6, <1>1, <1>5, <1>8 DEF SetFile
  <2>8. HandlesOK(handles') /\ handles'[call.handle] # Closed
    BY <2>5, <2>7, <1>6, Parts, FileIsSet
  <2>9. HasFile(call, handles')
    BY <2>8, <1>4 DEF HasFile
  <2>10. Prepared("flush", call, data, handles')
    BY <2>9 DEF Prepared, Later
  <2>11. CallOK(Jump(call, "flush"), fat', data, handles')
    BY <2>10, Parts, GoesOn
  <2>12. call' = Jump(call, "flush")
    BY <1>1, <1>8 DEF GotoIf, Goto
  <2> QED
    BY <2>8, <2>11, <2>12, <1>0, <1>7, Parts DEF IInv
<1>9. CASE ~ok
  <2>1. call' = Idle /\ handles' = handles
    BY <1>1, <1>9 DEF GotoIf
  <2> QED
    BY <2>1, <1>0, <1>7, Parts, IdleIsOK DEF IInv
<1> QED
  BY <1>2, <1>8, <1>9

(* truncate to nothing, once the chain is free.                             *)
LEMMA EmptiedKeeps == ASSUME IInv, TruncateAll PROVE IInv'
<1>0. /\ fat' = fat /\ data' = data /\ call.at = "emptied"
      /\ call' = Goto("flush")
  BY DEF TruncateAll, At
<1>1. InView(call) = "emptied"
  BY <1>0 DEF InView
<1>2. HasFile(call, handles)
  BY <1>1, Parts DEF Prepared
<1>3. PICK f : f = File
  OBVIOUS
<1>4. FileOK(f) /\ call.handle \in Handles /\ 0 \in Link
  BY <1>2, <1>3, Parts, TheFile DEF Link
<1>5. PICK file : file = [f EXCEPT !.ent.firstCluster = 0, !.ent.size = 0,
                                   !.offset = 0, !.dirty = TRUE]
  OBVIOUS
<1>6. \A b : FileOK([f EXCEPT !.ent.firstCluster = 0, !.ent.size = 0,
                              !.offset = 0, !.dirty = b])
  BY <1>4, FileMoves, Zenon
<1>7. FileOK(file)
  BY <1>5, <1>6, Zenon
<1>8. handles' = [handles EXCEPT ![call.handle] = file]
  BY <1>3, <1>5 DEF TruncateAll, SetFile
<1>9. HandlesOK(handles') /\ handles'[call.handle] # Closed
  BY <1>4, <1>7, <1>8, Parts, FileIsSet
<1>10. HasFile(call, handles')
  BY <1>2, <1>9 DEF HasFile
<1>11. Prepared("flush", call, data, handles')
  BY <1>10 DEF Prepared, Later
<1>12. CallOK(Jump(call, "flush"), fat, data, handles')
  BY <1>11, Parts, GoesOn
<1> QED
  BY <1>0, <1>9, <1>12, Parts DEF IInv, Goto

(* The entry of an open file is written; close closes the file.             *)
LEMMA FlushKeeps == ASSUME IInv, flush PROVE IInv'
<1>0. fat' = fat /\ call' = Idle /\ call.at = "flush"
  BY DEF flush, At
<1>1. PICK ok \in Outcomes :
        /\ writeSlot(File.slot, Updated(File.slot, File.ent), ok)
        /\ SetFile(IF call.op = "close" THEN Closed
                   ELSE [File EXCEPT !.dirty = ~ok])
  BY DEF flush
<1>2. ok \in BOOLEAN
  BY DEF Outcomes
<1>3. InView(call) = "flush"
  BY <1>0 DEF InView
<1>4. HasFile(call, handles)
  BY <1>3, Parts DEF Prepared
<1>5. PICK f, s, e, b : /\ f = File /\ s = File.slot /\ e = File.ent
                        /\ b = ~ok
  OBVIOUS
<1>6. FileOK(f) /\ call.handle \in Handles /\ SlotOK(s) /\ EntOK(e)
  BY <1>4, <1>5, Parts, TheFile DEF FileOK
<1>7. PICK cell : cell = Updated(s, e)
  OBVIOUS
<1>8. CellOK(cell)
  BY <1>6, <1>7, Parts, UpdatedIsCell DEF EntOK
<1>9. DataOK(data')
  BY <1>1, <1>2, <1>5, <1>7, <1>8, Parts, SlotWritten
<1>10. PICK file : file = IF call.op = "close" THEN Closed ELSE [f EXCEPT !.dirty = b]
  BY Zenon
<1>11. FileOK(file) \/ file = Closed
  <2>1. FileOK([f EXCEPT !.dirty = b])
    <3>1. 0 \in Link
      BY DEF Link
    <3> QED
      BY <3>1, <1>6, FileMoves, Zenon
  <2> QED
    BY <2>1, <1>10
<1>12. handles' = [handles EXCEPT ![call.handle] = file]
  BY <1>1, <1>5, <1>10 DEF SetFile
<1>13. HandlesOK(handles')
  BY <1>11, <1>12, Parts, FileIsSet
<1> QED
  BY <1>0, <1>9, <1>13, Parts, IdleIsOK DEF IInv

-----------------------------------------------------------------------------
(* Removing and renaming                                                    *)

(* A slot is marked deleted.                                                *)
LEMMA EraseKeeps == ASSUME IInv, EraseEntry PROVE IInv'
<1>0. fat' = fat /\ handles' = handles /\ call.at = "erase"
  BY DEF EraseEntry, At
<1>1. PICK slot : slot = IF call.op = "rename" THEN call.old ELSE call.slot
  OBVIOUS
<1>2. PICK ok \in Outcomes :
        /\ writeSlot(slot, Deleted, ok)
        /\ call' = IF call.op = "rename" THEN Goto(IF ok THEN "idle" ELSE "rollback")
                   ELSE IF ok THEN Freeing(call, Cell(slot).firstCluster, "idle")
                   ELSE Idle
  BY <1>1 DEF EraseEntry
<1>3. ok \in BOOLEAN
  BY DEF Outcomes
<1>4. DataOK(data')
  BY <1>2, <1>3, Parts, NoEntryCells, SlotWritten
<1>5. InView(call) = "erase"
  BY <1>0 DEF InView
<1>6. Prepared("idle", call, data', handles)
  BY DEF Prepared, Later
<1>7. CallOK(call', fat, data', handles)
  <2>1. CASE call.op = "rename" /\ ~ok
    <3>1. Prepared("rollback", call, data', handles)
      BY <2>1, <1>5, Parts DEF Prepared, Later
    <3>2. CallOK(Jump(call, "rollback"), fat, data', handles)
      BY <3>1, Parts, GoesOn
    <3> QED
      BY <3>2, <2>1, <1>2 DEF Goto
  <2>2. CASE call.op = "rename" /\ ok
    BY <2>2, <1>2, IdleIsOK DEF Goto, Jump
  <2>3. CASE call.op # "rename" /\ ok
    <3>1. CallOK(Freeing(call, Cell(slot).firstCluster, "idle"), fat, data', handles)
      BY <1>6, Parts, FreeingIsOK
    <3> QED
      BY <3>1, <2>3, <1>2
  <2>4. CASE call.op # "rename" /\ ~ok
    BY <2>4, <1>2, IdleIsOK
  <2> QED
    BY <1>3, <2>1, <2>2, <2>3, <2>4
<1> QED
  BY <1>0, <1>4, <1>7, Parts DEF IInv

(* rename within a directory rewrites the entry.                            *)
LEMMA InPlaceKeeps == ASSUME IInv, RenameInPlace PROVE IInv'
<1>0. /\ fat' = fat /\ handles' = handles /\ call' = Idle /\ call.at = "rename"
  BY DEF RenameInPlace, At
<1>1. PICK ok \in Outcomes : writeSlot(call.slot, call.ent, ok)
  BY DEF RenameInPlace
<1>2. ok \in BOOLEAN
  BY DEF Outcomes
<1>3. InView(call) = "rename"
  BY <1>0 DEF InView
<1>4. CellOK(call.ent)
  BY <1>3, Parts DEF Prepared, CellOK
<1>5. DataOK(data')
  BY <1>1, <1>2, <1>4, Parts, SlotWritten
<1> QED
  BY <1>0, <1>5, Parts, IdleIsOK DEF IInv

(* rename into another directory: the new entry takes over the chain.       *)
LEMMA UpdateKeeps == ASSUME IInv, RenameUpdate PROVE IInv'
<1>0. fat' = fat /\ handles' = handles /\ call.at = "update"
  BY DEF RenameUpdate, At
<1>1. PICK ok \in Outcomes :
        /\ writeSlot(call.slot, Updated(call.slot, call.was), ok)
        /\ call' = GotoIf(ok, "erase")
  BY DEF RenameUpdate
<1>2. ok \in BOOLEAN
  BY DEF Outcomes
<1>3. InView(call) = "update"
  BY <1>0 DEF InView
<1>4. SlotOK(call.slot) /\ EntOK(call.was)
  BY <1>3, Parts DEF Prepared
<1>5. CellOK(Updated(call.slot, call.was))
  BY <1>4, Parts, UpdatedIsCell DEF EntOK
<1>6. DataOK(data')
  BY <1>1, <1>2, <1>5, Parts, SlotWritten
<1>7. CallOK(call', fat, data', handles)
  <2>1. CASE ok
    <3>1. Prepared("erase", call, data', handles)
      BY <1>4 DEF Prepared, Later
    <3>2. CallOK(Jump(call, "erase"), fat, data', handles)
      BY <3>1, Parts, GoesOn
    <3> QED
      BY <3>2, <2>1, <1>1 DEF GotoIf, Goto
  <2>2. CASE ~ok
    BY <2>2, <1>1, IdleIsOK DEF GotoIf
  <2> QED
    BY <1>2, <2>1, <2>2
<1> QED
  BY <1>0, <1>6, <1>7, Parts DEF IInv

(* It gives it up again and goes on as remove.                              *)
LEMMA RollbackKeeps == ASSUME IInv, RenameRollback PROVE IInv'
<1>0. /\ fat' = fat /\ handles' = handles /\ call.at = "rollback"
      /\ call' = [call EXCEPT !.op = "remove", !.at = "erase"] \/ call' = Idle
  BY DEF RenameRollback, At
<1>1. PICK e : e = [Cell(call.slot) EXCEPT !.firstCluster = 0]
  OBVIOUS
<1>2. PICK ok \in Outcomes : writeSlot(call.slot, Updated(call.slot, e), ok)
  BY <1>1 DEF RenameRollback
<1>3. ok \in BOOLEAN
  BY DEF Outcomes
<1>4. InView(call) = "rollback"
  BY <1>0 DEF InView
<1>5. SlotOK(call.slot)
  BY <1>4, Parts DEF Prepared
<1>6. ASSUME Cell(call.slot).kind = "entry"
      PROVE  e.firstCluster \in Link /\ e.size \in Nat
  <2>1. EntOK(Cell(call.slot))
    BY <1>5, <1>6, Parts, CellRead DEF CellOK
  <2>2. 0 \in Link /\ 0 \in Nat
    BY DEF Link
  <2>3. EntOK(e)
    BY <2>1, <2>2, <1>1, EntrySet, Zenon
  <2> QED
    BY <2>3 DEF EntOK
<1>7. CellOK(Updated(call.slot, e))
  BY <1>5, <1>6, Parts, UpdatedIsCell
<1>8. DataOK(data')
  BY <1>2, <1>3, <1>7, Parts, SlotWritten
<1>9. CASE call' = [call EXCEPT !.op = "remove", !.at = "erase"]
  <2>1. Is(call', "remove", "erase", call.next, call.handle, call.n, call.head,
           call.cluster, call.slot, call.ent, call.was)
    BY <1>9, Parts, Moves, Zenon
  <2>2. CallForm(call') /\ call'.at = "erase" /\ call'.op = "remove" /\ call'.slot = call.slot
    BY <2>1 DEF Is
  <2>3. InView(call') = "erase"
    BY <2>2 DEF InView
  <2>4. CallOK(call', fat, data', handles)
    BY <2>2, <2>3 DEF CallOK, Prepared, Later, Allocated, Linkable
  <2> QED
    BY <1>0, <1>8, <2>4, Parts DEF IInv
<1>10. CASE call' = Idle
  BY <1>0, <1>8, <1>10, Parts, IdleIsOK DEF IInv
<1> QED
  BY <1>0, <1>9, <1>10

-----------------------------------------------------------------------------
(* The calls                                                                *)

(* A call that only begins.                                                 *)
LEMMA Started ==
  ASSUME IInv, fat' = fat, data' = data, handles' = handles,
         CallOK(call', fat, data, handles)
  PROVE  IInv'
  BY Parts DEF IInv

(* createFile and createDirectory begin with the entry they are going to    *)
(* write.                                                                   *)
LEMMA CreateKeeps ==
  ASSUME IInv, NEW op \in {"createFile", "createDirectory"}, NEW path, NEW dir,
         Create(op, path, dir)
  PROVE  IInv'
<1>1. PICK e, c : /\ e = Entry(basenameOf(path), dir, 0, 0)
                  /\ c = [Begin(op) EXCEPT !.ent = e]
  BY Zenon
<1>2. 0 \in Link /\ 0 \in Nat
  BY DEF Link
<1>3. EntOK(e)
  BY <1>1, <1>2, EntryIsOK
<1>4. Is(c, op, "idle", "idle", 0, 0, 0, 0, Nowhere, e, NoEntry)
  BY <1>1, Begins, Zenon
<1>5. CallForm(c) /\ HasEntry(c) /\ c.op \notin {"write", "truncate"}
  BY <1>3, <1>4 DEF Is, HasEntry
<1>6. parentOf(path) \in Link /\ CanCreate(parentOf(path))
  BY Parts, ParentIsLink DEF Create
<1>7. CallOK(Creating(c, parentOf(path)), fat, data, handles)
  BY <1>5, <1>6, CreatingIsOK
<1>8. /\ fat' = fat /\ data' = data /\ handles' = handles
      /\ call' = Creating(c, parentOf(path))
  BY <1>1 DEF Create
<1> QED
  BY <1>7, <1>8, Started

(* open begins with the entry it has found, or creates one.                 *)
LEMMA OpenKeeps ==
  ASSUME IInv, NEW path, NEW mode, NEW h \in Handles, open(path, mode, h)
  PROVE  IInv'
<1>1. PICK slot, c : /\ slot = findEntry(path)
                     /\ c = [Begin("open") EXCEPT !.handle = h, !.mode = mode,
                                                  !.slot = slot]
  BY Zenon
<1>2. Is(c, "open", "idle", "idle", h, 0, 0, 0, slot, NoEntry, NoEntry)
  BY <1>1, Begins, Zenon
<1>3. CallForm(c) /\ c.op = "open" /\ c.handle = h /\ c.slot = slot
  BY <1>2 DEF Is
<1>4. /\ fat' = fat /\ data' = data /\ handles' = handles
      /\ \/ /\ slot # Nowhere
            /\ call' = IF "Truncate" \in mode
                       THEN Freeing(c, Cell(slot).firstCluster, "clear")
                       ELSE [c EXCEPT !.at = "opened"]
         \/ /\ CanCreate(parentOf(path))
            /\ call' = Creating([c EXCEPT !.ent = Entry(basenameOf(path), FALSE, 0, 0)],
                                parentOf(path))
  BY <1>1 DEF open
<1>5. CASE /\ slot # Nowhere
           /\ call' = IF "Truncate" \in mode
                      THEN Freeing(c, Cell(slot).firstCluster, "clear")
                      ELSE [c EXCEPT !.at = "opened"]
  <2>1. SlotOK(slot) /\ Cell(slot).kind = "entry"
    BY <1>1, <1>5, Parts, FoundPath
  <2>2. /\ Prepared("clear", c, data, handles)
        /\ Prepared("opened", c, data, handles)
    BY <2>1, <1>3 DEF Prepared, Later, Cell
  <2>3. CallOK(Freeing(c, Cell(slot).firstCluster, "clear"), fat, data, handles)
    BY <2>2, <1>3, FreeingIsOK
  <2>4. CallOK([c EXCEPT !.at = "opened"], fat, data, handles)
    BY <2>2, <1>3, GoesOn
  <2> QED
    BY <2>3, <2>4, <1>4, <1>5, Started
<1>6. CASE /\ CanCreate(parentOf(path))
           /\ call' = Creating([c EXCEPT !.ent = Entry(basenameOf(path), FALSE, 0, 0)],
                               parentOf(path))
  <2>1. PICK e : e = Entry(basenameOf(path), FALSE, 0, 0)
    OBVIOUS
  <2>2. EntOK(e)
    <3>1. 0 \in Link /\ 0 \in Nat
      BY DEF Link
    <3>2. \A dir : EntOK(Entry(basenameOf(path), dir, 0, 0))
      BY <3>1, EntryIsOK
    <3> QED
      BY <2>1, <3>2
  <2>3. PICK d : d = [c EXCEPT !.ent = e]
    OBVIOUS
  <2>4. Is(d, "open", "idle", "idle", h, 0, 0, 0, slot, e, NoEntry)
    BY <2>3, <1>2 DEF Is, CallForm, CallFields
  <2>5. CallForm(d) /\ HasEntry(d) /\ d.op \notin {"write", "truncate"}
    BY <2>2, <2>4 DEF Is, HasEntry
  <2>6. parentOf(path) \in Link
    BY Parts, ParentIsLink
  <2>7. CallOK(Creating(d, parentOf(path)), fat, data, handles)
    BY <2>5, <2>6, <1>6, CreatingIsOK
  <2> QED
    BY <2>1, <2>3, <2>7, <1>4, <1>6, Started
<1> QED
  BY <1>4, <1>5, <1>6

(* remove begins with the slot it has found.                                *)
LEMMA RemoveKeeps == ASSUME IInv, NEW path, remove(path) PROVE IInv'
<1>1. PICK slot : slot = findEntry(path)
  OBVIOUS
<1>2. /\ fat' = fat /\ data' = data /\ handles' = handles
      /\ call' = [Begin("remove") EXCEPT !.at = "erase", !.slot = slot]
  BY <1>1 DEF remove
<1>3. Is(call', "remove", "erase", "idle", 0, 0, 0, 0, slot, NoEntry, NoEntry)
  BY <1>2, Begins, Zenon
<1>4. CallForm(call') /\ call'.at = "erase" /\ call'.op = "remove"
  BY <1>3 DEF Is
<1>5. InView(call') = "erase"
  BY <1>4 DEF InView
<1>6. CallOK(call', fat, data, handles)
  BY <1>4, <1>5 DEF CallOK, Prepared, Later, Allocated, Linkable
<1> QED
  BY <1>2, <1>6, Started

(* rename begins with the entry it has found.                               *)
LEMMA RenameKeeps == ASSUME IInv, NEW path, NEW to, rename(path, to) PROVE IInv'
<1>1. PICK slot, e, p : slot = findEntry(path) /\ e = Cell(slot) /\ p = parentOf(to)
  OBVIOUS
<1>2. /\ fat' = fat /\ data' = data /\ handles' = handles
      /\ slot # Nowhere
      /\ \/ call' = [Begin("rename") EXCEPT !.at = "rename", !.slot = slot,
                                    !.ent = [e EXCEPT !.name = basenameOf(to)]]
         \/ /\ CanCreate(p)
            /\ call' = Creating([Begin("rename") EXCEPT !.old = slot, !.was = e,
                                    !.ent = Entry(basenameOf(to), e.dir, 0, 0)], p)
  BY <1>1 DEF rename
<1>3. EntOK(e)
  BY <1>1, <1>2, Parts, FoundPath
<1>4. CASE call' = [Begin("rename") EXCEPT !.at = "rename", !.slot = slot,
                                    !.ent = [e EXCEPT !.name = basenameOf(to)]]
  <2>1. PICK f : f = [e EXCEPT !.name = basenameOf(to)]
    OBVIOUS
  <2>2. EntOK(f)
    <3>1. 0 \in Link /\ 0 \in Nat
      BY DEF Link
    <3> QED
      BY <3>1, <2>1, <1>3, EntrySet, Zenon
  <2>3. call' = [Begin("rename") EXCEPT !.at = "rename", !.slot = slot, !.ent = f]
    BY <2>1, <1>4
  <2>4. Is(call', "rename", "rename", "idle", 0, 0, 0, 0, slot, f, NoEntry)
    BY <2>3, Begins, Zenon
  <2>5. CallForm(call') /\ call'.at = "rename" /\ EntOK(call'.ent)
    BY <2>2, <2>4 DEF Is
  <2>6. InView(call') = "rename"
    BY <2>5 DEF InView
  <2>7. CallOK(call', fat, data, handles)
    BY <2>5, <2>6 DEF CallOK, Prepared, Later, Allocated, Linkable
  <2> QED
    BY <2>7, <1>2, Started
<1>5. CASE /\ CanCreate(p)
           /\ call' = Creating([Begin("rename") EXCEPT !.old = slot, !.was = e,
                                   !.ent = Entry(basenameOf(to), e.dir, 0, 0)], p)
  <2>1. PICK f : f = Entry(basenameOf(to), e.dir, 0, 0)
    OBVIOUS
  <2>2. EntOK(f)
    <3>1. 0 \in Link /\ 0 \in Nat
      BY DEF Link
    <3>2. \A dir : EntOK(Entry(basenameOf(to), dir, 0, 0))
      BY <3>1, EntryIsOK
    <3> QED
      BY <3>2, <2>1
  <2>3. PICK d : d = [Begin("rename") EXCEPT !.old = slot, !.was = e, !.ent = f]
    OBVIOUS
  <2>4. Is(d, "rename", "idle", "idle", 0, 0, 0, 0, Nowhere, f, e)
    BY <2>3, Begins, Zenon
  <2>5. CallForm(d) /\ HasEntry(d) /\ d.op \notin {"write", "truncate"}
    BY <2>2, <2>4, <1>3 DEF Is, HasEntry
  <2>6. p \in Link
    BY <1>1, Parts, ParentIsLink
  <2>7. CallOK(Creating(d, p), fat, data, handles)
    BY <2>5, <2>6, <1>5, CreatingIsOK
  <2> QED
    BY <2>1, <2>3, <2>7, <1>2, <1>5, Started
<1> QED
  BY <1>2, <1>4, <1>5

(* rename below a regular file begins with the entry it has found and with  *)
(* a slot in the data of the file, or with a chain that it extends.         *)
LEMMA RenameBelowKeeps ==
  ASSUME IInv, NEW path, NEW to, renameBelowFile(path, to) PROVE IInv'
<1>1. PICK slot, e, head : /\ slot = findEntry(path) /\ e = Cell(slot)
                           /\ head = Cell(InDirectory(rootCluster, to[1])).firstCluster
  BY Zenon
<1>2. PICK f, n, d, x : /\ f = Entry(basenameOf(to), FALSE, 0, 0)
                        /\ n = [e EXCEPT !.name = basenameOf(to)]
                        /\ d = [Begin("rename") EXCEPT !.old = slot, !.was = e, !.ent = f]
                        /\ x = [d EXCEPT !.head = head]
  BY Zenon
<1>3. /\ fat' = fat /\ data' = data /\ handles' = handles
      /\ slot # Nowhere /\ InDirectory(rootCluster, to[1]) # Nowhere
      /\ \/ call' = [Begin("rename") EXCEPT !.at = "rename", !.slot = slot, !.ent = n]
         \/ \E p \in MayLookFree(head) : call' = WithSlot(x, SlotAt(head, p))
         \/ EndMark(head) = EndOfChain /\ call' = Allocating(x, "link")
  BY <1>1, <1>2 DEF renameBelowFile
<1>4. EntOK(e)
  BY <1>1, <1>3, Parts, FoundPath
<1>5. EntOK(f) /\ EntOK(n)
  <2>1. 0 \in Link /\ 0 \in Nat
    BY DEF Link
  <2>2. \A dir : EntOK(Entry(basenameOf(to), dir, 0, 0))
    BY <2>1, EntryIsOK
  <2>3. EntOK(n)
    BY <2>1, <1>2, <1>4, EntrySet, Zenon
  <2> QED
    BY <2>2, <2>3, <1>2
<1>6. head \in Link
  <2>1. PICK s : s = InDirectory(rootCluster, to[1])
    OBVIOUS
  <2>2. SlotOK(s) /\ Cell(s).kind = "entry"
    BY <2>1, <1>3, FoundIsEntry
  <2>3. CellOK(Cell(s))
    BY <2>2, Parts, CellRead
  <2> QED
    BY <2>1, <2>2, <2>3, <1>1 DEF CellOK, EntOK
<1>7. Is(d, "rename", "idle", "idle", 0, 0, 0, 0, Nowhere, f, e)
  BY <1>2, Begins, Zenon
<1>8. /\ CallForm(x) /\ HasEntry(x) /\ x.op \notin {"write", "truncate"}
      /\ x.head = head /\ x.head \in Link
  <2>1. CallForm(d)
    BY <1>7 DEF Is
  <2>2. Is(x, d.op, d.at, d.next, d.handle, d.n, head, d.cluster, d.slot, d.ent, d.was)
    BY <1>2, <2>1, Moves, Zenon
  <2> QED
    BY <2>2, <1>4, <1>5, <1>6, <1>7 DEF Is, HasEntry
<1>9. CASE call' = [Begin("rename") EXCEPT !.at = "rename", !.slot = slot, !.ent = n]
  <2>1. Is(call', "rename", "rename", "idle", 0, 0, 0, 0, slot, n, NoEntry)
    BY <1>9, Begins, Zenon
  <2>2. CallForm(call') /\ call'.at = "rename" /\ EntOK(call'.ent)
    BY <1>5, <2>1 DEF Is
  <2>3. InView(call') = "rename"
    BY <2>2 DEF InView
  <2>4. CallOK(call', fat, data, handles)
    BY <2>2, <2>3 DEF CallOK, Prepared, Later, Allocated, Linkable
  <2> QED
    BY <2>4, <1>3, Started
<1>10. CASE \E p \in MayLookFree(head) : call' = WithSlot(x, SlotAt(head, p))
  <2>1. PICK p \in MayLookFree(head) : call' = WithSlot(x, SlotAt(head, p))
    BY <1>10
  <2>2. SlotOK(SlotAt(head, p))
    BY SlotsLieInChain DEF MayLookFree
  <2>3. CallOK(WithSlot(x, SlotAt(head, p)), fat, data, handles)
    BY <2>2, <1>8, WithSlotIsOK
  <2> QED
    BY <2>1, <2>3, <1>3, Started
<1>11. CASE EndMark(head) = EndOfChain /\ call' = Allocating(x, "link")
  <2>1. CallOK(Allocating(x, "link"), fat, data, handles)
    BY <1>8, <1>11, ExtendingIsOK
  <2> QED
    BY <2>1, <1>3, <1>11, Started
<1> QED
  BY <1>3, <1>9, <1>10, <1>11

(* A call on an open file begins with the file.                             *)
LEMMA FileCallBegins ==
  ASSUME HandlesOK(handles), NEW h \in Handles, IsOpen(h), NEW op, NEW n \in Nat,
         NEW c, c = BeginFile(op, h, n)
  PROVE  /\ CallForm(c) /\ HasFile(c, handles) /\ c.op = op /\ c.n = n
         /\ Is(c, op, "idle", "idle", h, n, 0, 0, Nowhere, NoEntry, NoEntry)
<1>1. Is(c, op, "idle", "idle", h, n, 0, 0, Nowhere, NoEntry, NoEntry)
  BY Begins, Zenon
<1> QED
  BY <1>1 DEF Is, HasFile, IsOpen

(* The lengths and offsets that clients name are numbers.                   *)
LEMMA MarksAreNumbers == Marks \subseteq Nat
  BY VolumeAssumption

(* write begins by looking for the cluster of its offset.                   *)
LEMMA WriteKeeps == ASSUME IInv, NEW h \in Handles, NEW n \in Marks, write(h, n) PROVE IInv'
<1>1. PICK c : c = BeginFile("write", h, n)
  OBVIOUS
<1>2. /\ fat' = fat /\ data' = data /\ handles' = handles /\ IsOpen(h)
      /\ call' = [c EXCEPT !.at = "locate"]
  BY <1>1 DEF write
<1>3. CallForm(c) /\ HasFile(c, handles) /\ c.op = "write"
  BY <1>1, <1>2, Parts, MarksAreNumbers, FileCallBegins
<1>4. Prepared("locate", c, data, handles)
  BY <1>3 DEF Prepared, Later, Locating
<1>5. CallOK([c EXCEPT !.at = "locate"], fat, data, handles)
  BY <1>3, <1>4, GoesOn
<1> QED
  BY <1>2, <1>5, Started

(* truncate begins by looking for the last cluster, or by freeing them all. *)
LEMMA TruncateKeeps ==
  ASSUME IInv, NEW h \in Handles, NEW n \in Marks, truncate(h, n)
  PROVE  IInv'
<1>1. PICK c, first : /\ c = BeginFile("truncate", h, n)
                      /\ first = handles[h].ent.firstCluster
  OBVIOUS
<1>2. /\ fat' = fat /\ data' = data /\ handles' = handles /\ IsOpen(h)
      /\ call' = IF n = 0 THEN Freeing(c, first, "emptied")
                 ELSE [c EXCEPT !.at = "locate"]
  BY <1>1 DEF truncate
<1>3. CallForm(c) /\ HasFile(c, handles) /\ c.op = "truncate" /\ c.n = n
  BY <1>1, <1>2, Parts, MarksAreNumbers, FileCallBegins
<1>4. CASE n = 0
  <2>1. Prepared("emptied", c, data, handles)
    BY <1>3 DEF Prepared, Later
  <2>2. CallOK(Freeing(c, first, "emptied"), fat, data, handles)
    BY <2>1, <1>3, FreeingIsOK
  <2> QED
    BY <2>2, <1>2, <1>4, Started
<1>5. CASE n # 0
  <2>1. Prepared("locate", c, data, handles)
    BY <1>3, <1>5 DEF Prepared, Later, Locating
  <2>2. CallOK([c EXCEPT !.at = "locate"], fat, data, handles)
    BY <2>1, <1>3, GoesOn
  <2> QED
    BY <2>2, <1>2, <1>5, Started
<1> QED
  BY <1>4, <1>5

(* flush and close begin with the file.                                     *)
LEMMA FlushBegins ==
  ASSUME IInv, NEW h \in Handles, IsOpen(h), NEW op,
         fat' = fat, data' = data, handles' = handles,
         call' = [BeginFile(op, h, 0) EXCEPT !.at = "flush"]
  PROVE  IInv'
<1>1. PICK c : c = BeginFile(op, h, 0)
  OBVIOUS
<1>2. CallForm(c) /\ HasFile(c, handles)
  BY <1>1, Parts, FileCallBegins
<1>3. Prepared("flush", c, data, handles)
  BY <1>2 DEF Prepared, Later
<1>4. CallOK([c EXCEPT !.at = "flush"], fat, data, handles)
  BY <1>2, <1>3, GoesOn
<1> QED
  BY <1>1, <1>4, Started

(* A step between calls that leaves the disk alone.                         *)
LEMMA BetweenCalls ==
  ASSUME IInv, fat' = fat, data' = data, call' = Idle, HandlesOK(handles')
  PROVE  IInv'
  BY Parts, IdleIsOK DEF IInv

(* An open file at another offset.                                          *)
LEMMA OffsetMoves ==
  ASSUME HandlesOK(handles), NEW h \in Handles, IsOpen(h), NEW y \in Nat,
         handles' = [handles EXCEPT ![h].offset = y]
  PROVE  HandlesOK(handles')
<1>1. PICK f : f = handles[h]
  OBVIOUS
<1>2. FileOK(f) /\ 0 \in Link
  BY <1>1 DEF HandlesOK, IsOpen, Link
<1>3. PICK file : file = [f EXCEPT !.offset = y]
  OBVIOUS
<1>4. FileOK(file)
  BY <1>2, <1>3, FileMoves, Zenon
<1>5. handles' = [handles EXCEPT ![h] = file]
  BY <1>1, <1>3
<1> QED
  BY <1>4, <1>5, FileIsSet

(* seek moves the offset.                                                   *)
LEMMA SeekKeeps ==
  ASSUME IInv, NEW h \in Handles, NEW n \in Marks, seek(h, n)
  PROVE  IInv'
<1>1. /\ fat' = fat /\ data' = data /\ call' = Idle /\ IsOpen(h)
      /\ handles' = [handles EXCEPT ![h].offset = n]
  BY DEF seek, Client
<1>2. HandlesOK(handles')
  BY <1>1, Parts, MarksAreNumbers, OffsetMoves
<1> QED
  BY <1>1, <1>2, BetweenCalls

(* read moves the offset past what it has read.                             *)
LEMMA ReadKeeps ==
  ASSUME IInv, NEW h \in Handles, NEW n \in Marks, read(h, n)
  PROVE  IInv'
<1>1. fat' = fat /\ data' = data /\ call' = Idle /\ IsOpen(h)
  BY DEF read, Client
<1>2. PICK k \in Got(handles[h], n) : handles' = [handles EXCEPT ![h].offset = @ + k]
  BY DEF read
<1>3. k \in Nat
  <2>1. k \in 0 .. n
    BY DEF Got
  <2> QED
    BY <2>1, MarksAreNumbers
<1>4. handles[h].offset \in Nat
  BY <1>1, Parts DEF HandlesOK, FileOK, IsOpen
<1>5. PICK y : y = handles[h].offset + k
  OBVIOUS
<1>6. y \in Nat
  BY <1>3, <1>4, <1>5
<1>7. handles' = [handles EXCEPT ![h].offset = y]
  BY <1>2, <1>5
<1>8. HandlesOK(handles')
  BY <1>1, <1>6, <1>7, Parts, OffsetMoves
<1> QED
  BY <1>1, <1>8, BetweenCalls

(* close writes the entry first if it has to.                               *)
LEMMA CloseKeeps == ASSUME IInv, NEW h \in Handles, close(h) PROVE IInv'
<1>1. /\ fat' = fat /\ data' = data /\ call = Idle /\ IsOpen(h)
      /\ \/ /\ call' = [BeginFile("close", h, 0) EXCEPT !.at = "flush"]
            /\ handles' = handles
         \/ /\ handles' = [handles EXCEPT ![h] = Closed]
            /\ call' = call
  BY DEF close, Client
<1>2. CASE /\ call' = [BeginFile("close", h, 0) EXCEPT !.at = "flush"]
           /\ handles' = handles
  BY <1>1, <1>2, FlushBegins
<1>3. CASE handles' = [handles EXCEPT ![h] = Closed] /\ call' = call
  <2>1. HandlesOK(handles')
    BY <1>3, Parts, FileIsSet
  <2> QED
    BY <2>1, <1>1, <1>3, BetweenCalls
<1> QED
  BY <1>1, <1>2, <1>3

(* The power goes: what was in memory is gone.                              *)
LEMMA PowerLossKeeps == ASSUME IInv, PowerLoss PROVE IInv'
<1>1. /\ fat' = fat /\ data' = data /\ call' = Idle
      /\ handles' = [h \in Handles |-> Closed]
  BY DEF PowerLoss
<1>2. HandlesOK(handles')
  BY <1>1 DEF HandlesOK
<1> QED
  BY <1>1, <1>2, BetweenCalls

(* A step that leaves the disk, the handles and the call alone.             *)
LEMMA AloneKeeps ==
  ASSUME IInv, fat' = fat, data' = data, handles' = handles, call' = call
  PROVE  IInv'
  BY DEF IInv

-----------------------------------------------------------------------------
(* The theorem                                                              *)

(* An empty volume, or one with a directory in it.                          *)
LEMMA Initial == Init => IInv
<1> SUFFICES ASSUME Init PROVE IInv
  OBVIOUS
<1>1. PICK dirs \in {<<>>} \cup DirPaths : Volume(dirs)
  BY DEF Init
<1>2. PICK n : n = Len(dirs)
  OBVIOUS
<1>3. n \in 0 .. 1
  BY <1>1, <1>2, VolumeAssumption
<1>4. totalClusters \in Nat /\ totalClusters >= 2 /\ ClusterSize \in Nat /\ ClusterSize >= 2
  BY ClustersCounted, VolumeAssumption
<1>5. fat = [c \in Cluster |-> IF c - 2 <= n THEN EndOfChain ELSE FreeCluster]
  BY <1>1, <1>2 DEF Volume
<1>6. FatOK(fat)
  BY <1>5 DEF FatOK
<1>7. \A c \in Cluster : fat[c] \notin Cluster
  <2>1. EndOfChain \notin Cluster /\ FreeCluster \notin Cluster
    BY ClustersCounted DEF EndOfChain, FreeCluster
  <2> QED
    BY <2>1, <1>5
<1>8. EndsEverywhere(fat)
  <2> SUFFICES ASSUME NEW c \in Cluster
               PROVE  Walk(fat, c, totalClusters) \notin Cluster
    BY DEF EndsEverywhere
  <2>1. /\ Walk(fat, c, 0) = c
        /\ Walk(fat, c, 0 + 1) = Follow(fat, Walk(fat, c, 0))
    BY WalkNext
  <2>2. Walk(fat, c, 1) \notin Cluster
    BY <2>1, <1>7 DEF Follow
  <2>3. Walk(fat, c, totalClusters) = Walk(fat, c, 1)
    BY <2>2, <1>4, MarkStays
  <2> QED
    BY <2>2, <2>3
<1>9. DataOK(data)
  <2>1. data = [c \in Cluster |->
           IF c = rootCluster
           THEN [i \in 1 .. ClusterSize |->
                   IF i <= n THEN Entry(dirs[i], TRUE, i + 2, 0) ELSE Zero]
           ELSE IF c - 2 <= n THEN DotCells(c, rootCluster)
           ELSE ZeroCells]
    BY <1>1, <1>2 DEF Volume
  <2>2. CellsOK([i \in 1 .. ClusterSize |->
                   IF i <= n THEN Entry(dirs[i], TRUE, i + 2, 0) ELSE Zero])
    <3> DEFINE cells == [i \in 1 .. ClusterSize |->
                           IF i <= n THEN Entry(dirs[i], TRUE, i + 2, 0) ELSE Zero]
    <3>1. ASSUME NEW i \in 1 .. ClusterSize PROVE CellOK(cells[i])
      <4>1. CASE i <= n
        <5>1. i + 2 \in Link /\ 0 \in Nat
          BY <4>1, <1>3, <1>4 DEF Link, Cluster
        <5>2. \A dir : CellOK(Entry(dirs[i], dir, i + 2, 0))
          BY <5>1, EntryIsOK
        <5>3. cells[i] = Entry(dirs[i], TRUE, i + 2, 0)
          BY <4>1
        <5> QED
          BY <5>2, <5>3
      <4>2. CASE ~(i <= n)
        BY <4>2, NoEntryCells
      <4> QED
        BY <4>1, <4>2
    <3>2. cells = [i \in 1 .. ClusterSize |-> cells[i]]
      OBVIOUS
    <3> HIDE DEF cells
    <3>3. CellsOK(cells)
      BY <3>1, <3>2 DEF CellsOK
    <3> QED
      BY <3>3 DEF cells
  <2>3. CellsOK(ZeroCells)
    <3>1. ZeroCells = [i \in 1 .. ClusterSize |-> ZeroCells[i]]
      BY DEF ZeroCells
    <3>2. \A i \in 1 .. ClusterSize : CellOK(ZeroCells[i])
      BY NoEntryCells DEF ZeroCells
    <3> QED
      BY <3>1, <3>2 DEF CellsOK
  <2>4. \A c \in Cluster : CellsOK(DotCells(c, rootCluster))
    <3> TAKE c \in Cluster
    <3>1. rootCluster \in Link /\ c \in Link
      BY ClustersCounted DEF Link
    <3>2. \A i \in 1 .. ClusterSize : CellOK(DotCells(c, rootCluster)[i])
      BY <3>1, DotsAreCells
    <3>3. DotCells(c, rootCluster)
            = [i \in 1 .. ClusterSize |-> DotCells(c, rootCluster)[i]]
      BY DEF DotCells, ZeroCells
    <3> QED
      BY <3>2, <3>3 DEF CellsOK
  <2> QED
    BY <2>1, <2>2, <2>3, <2>4 DEF DataOK
<1>10. HandlesOK(handles)
  BY DEF Init, HandlesOK
<1>11. CallOK(call, fat, data, handles)
  BY IdleIsOK DEF Init
<1> QED
  BY <1>6, <1>8, <1>9, <1>10, <1>11 DEF IInv

(* Each step of a call.                                                     *)
LEMMA StepKeeps == ASSUME IInv, Step PROVE IInv'
<1>1. CASE AllocateClaim        BY <1>1, ClaimKeeps
<1>2. CASE zeroCluster          BY <1>2, ZeroKeeps
<1>3. CASE AllocateUndo         BY <1>3, UndoKeeps
<1>4. CASE syncFSInfo           BY <1>4, SyncKeeps
<1>5. CASE freeClusterChain     BY <1>5, FreeKeeps
<1>6. CASE ExtendLink           BY <1>6, LinkKeeps
<1>7. CASE CreateDots           BY <1>7, DotsKeeps
<1>8. CASE CreateEntry          BY <1>8, EntryKeeps
<1>9. CASE OpenClear            BY <1>9, ClearKeeps
<1>10. CASE OpenHandle          BY <1>10, OpenHandleKeeps
<1>11. CASE getClusterForOffset BY <1>11, LocateKeeps
<1>12. CASE setFirstCluster     BY <1>12, FirstKeeps
<1>13. CASE WriteChunk          BY <1>13, ChunkKeeps
<1>14. CASE TruncateCut         BY <1>14, CutKeeps
<1>15. CASE TruncateAll         BY <1>15, EmptiedKeeps
<1>16. CASE flush               BY <1>16, FlushKeeps
<1>17. CASE EraseEntry          BY <1>17, EraseKeeps
<1>18. CASE RenameInPlace       BY <1>18, InPlaceKeeps
<1>19. CASE RenameUpdate        BY <1>19, UpdateKeeps
<1>20. CASE RenameRollback      BY <1>20, RollbackKeeps
<1> QED
  BY <1>1, <1>2, <1>3, <1>4, <1>5, <1>6, <1>7, <1>8, <1>9, <1>10, <1>11, <1>12,
     <1>13, <1>14, <1>15, <1>16, <1>17, <1>18, <1>19, <1>20 DEF Step

(* Each step of the driver.                                                 *)
LEMMA Inductive == IInv /\ [Next]_vars => IInv'
<1> SUFFICES ASSUME IInv, [Next]_vars PROVE IInv'
  OBVIOUS
<1>1. CASE Step
  BY <1>1, StepKeeps
<1>2. ASSUME NEW p \in FilePaths, createFile(p) PROVE IInv'
  <2>1. \E dir : Create("createFile", p, dir)
    BY <1>2 DEF createFile
  <2> QED
    BY <2>1, CreateKeeps
<1>3. ASSUME NEW p \in DirPaths, createDirectory(p) PROVE IInv'
  <2>1. \E dir : Create("createDirectory", p, dir)
    BY <1>3 DEF createDirectory
  <2> QED
    BY <2>1, CreateKeeps
<1>4. ASSUME NEW p \in FilePaths, NEW m \in SUBSET Modes, NEW h \in Handles, open(p, m, h)
      PROVE  IInv'
  BY <1>4, OpenKeeps
<1>5. ASSUME NEW p \in FilePaths \cup DirPaths, remove(p) PROVE IInv'
  BY <1>5, RemoveKeeps
<1>6. ASSUME NEW p, NEW q, rename(p, q) PROVE IInv'
  BY <1>6, RenameKeeps
<1>15. ASSUME NEW p, NEW q, renameBelowFile(p, q) PROVE IInv'
  BY <1>15, RenameBelowKeeps
<1>7. ASSUME NEW h \in Handles, NEW n \in Marks \ {0}, write(h, n) \/ read(h, n)
      PROVE  IInv'
  BY <1>7, WriteKeeps, ReadKeeps
<1>8. ASSUME NEW h \in Handles, NEW n \in Marks, truncate(h, n) \/ seek(h, n)
      PROVE  IInv'
  BY <1>8, TruncateKeeps, SeekKeeps
<1>9. ASSUME NEW h \in Handles, Flush(h) PROVE IInv'
  BY <1>9, FlushBegins DEF Flush
<1>10. ASSUME NEW h \in Handles, close(h) PROVE IInv'
  BY <1>10, CloseKeeps
<1>11. CASE mount
  BY <1>11, AloneKeeps DEF mount
<1>12. CASE unmount
  BY <1>12, AloneKeeps DEF unmount
<1>13. CASE PowerLoss
  BY <1>13, PowerLossKeeps
<1>14. CASE UNCHANGED vars
  BY <1>14, AloneKeeps DEF vars
<1> QED
  BY <1>1, <1>2, <1>3, <1>4, <1>5, <1>6, <1>7, <1>8, <1>9, <1>10, <1>11, <1>12,
     <1>13, <1>14, <1>15 DEF Next, CarefulNext

(* Whichever write fails and wherever the power goes, no cluster chain on   *)
(* the disk becomes a loop: getClusterForOffset, readDirectory and          *)
(* freeClusterChain come to the end of every chain they follow.             *)
THEOREM ChainsEnd == Spec => []NoLoops
<1>1. IInv => NoLoops
  <2> SUFFICES ASSUME IInv, NEW c \in Cluster PROVE EndMark(c) \notin Cluster
    BY DEF NoLoops
  <2>1. EndMark(c) = Walk(fat, c, totalClusters)
    BY ChainsWalk
  <2> QED
    BY <2>1, Parts DEF EndsEverywhere
<1> QED
  BY <1>1, Initial, Inductive, PTL DEF Spec

-----------------------------------------------------------------------------
(* Ranges: sizes, offsets and the counters                                  *)

(* An entry is no longer than MaxLength.                                    *)
Sized(cell) == cell.kind = "entry" => cell.size <= MaxLength

SizesOK(cells) == \A c \in Cluster, i \in 1 .. ClusterSize : Sized(cells[c][i])

(* Neither is an open file, nor does its offset go beyond.                  *)
LengthsOK(files) ==
  \A h \in Handles : files[h] # Closed =>
    files[h].offset <= MaxLength /\ files[h].ent.size <= MaxLength

(* What a call has been asked for.                                          *)
RequestOK(c, files) ==
  /\ c.ent.size <= MaxLength /\ c.was.size <= MaxLength /\ c.n <= MaxLength
  /\ c.op = "write" => files[c.handle].offset + c.n <= MaxLength

(* The counters of FSInfo, on disk or in memory.                            *)
CountersOK(i) ==
  i \in [freeClusterCount : Nat \cup {Unknown}, nextFreeCluster : Cluster]

(* What TypeOK says of numbers, with what calls have asked for.             *)
Ranges ==
  /\ SizesOK(data)
  /\ LengthsOK(handles)
  /\ RequestOK(call, handles)
  /\ CountersOK(info) /\ CountersOK(fsInfo)
  /\ mounted \in BOOLEAN /\ leaked \subseteq Cluster /\ faults \in 0 .. MaxFaults

(* Two calls that ask for the same.                                         *)
SameRequest(c, d) ==
  /\ d.op = c.op /\ d.handle = c.handle /\ d.n = c.n /\ d.ent = c.ent /\ d.was = c.was

(* What a call asks for stays in range while the call goes on.              *)
LEMMA RequestStays ==
  ASSUME NEW c, NEW d, SameRequest(c, d) \/ d = Idle, NEW files, RequestOK(c, files)
  PROVE  RequestOK(d, files)
<1>1. CASE SameRequest(c, d)
  BY <1>1 DEF SameRequest, RequestOK
<1>2. CASE d = Idle
  <2>1. MaxLength \in Nat
    BY VolumeAssumption
  <2>2. d.op = "idle" /\ d.n = 0 /\ d.ent.size = 0 /\ d.was.size = 0
    BY <1>2, NoEntryCells DEF Idle
  <2> QED
    BY <2>1, <2>2 DEF RequestOK
<1> QED
  BY <1>1, <1>2

(* Where a call goes on does not change what it was asked for.              *)
LEMMA RequestMoves ==
  ASSUME NEW c, CallForm(c), NEW label, NEW x, NEW y
  PROVE  /\ SameRequest(c, [c EXCEPT !.at = label])
         /\ SameRequest(c, [c EXCEPT !.at = label, !.cluster = x])
         /\ SameRequest(c, [c EXCEPT !.cluster = x])
         /\ SameRequest(c, [c EXCEPT !.head = x])
         /\ SameRequest(c, [c EXCEPT !.slot = x])
         /\ SameRequest(c, Jump(c, label)) \/ Jump(c, label) = Idle
         /\ SameRequest(c, Freeing(c, x, y)) \/ Freeing(c, x, y) = Idle
         /\ SameRequest(c, Allocating(c, x))
         /\ SameRequest(c, WithSlot(c, x))
  BY DEF CallForm, CallFields, SameRequest, Jump, Freeing, Allocating, WithSlot

(* No step of a call changes what it asks for.                              *)
LEMMA RequestGoesOn ==
  ASSUME NEW c, CallForm(c), NEW d,
         \/ d = Idle
         \/ \E label : d = Jump(c, label)
         \/ \E first, next : d = Freeing(c, first, next)
  PROVE  SameRequest(c, d) \/ d = Idle
<1>1. ASSUME NEW label PROVE SameRequest(c, Jump(c, label)) \/ Jump(c, label) = Idle
  BY RequestMoves, Zenon
<1>2. ASSUME NEW first, NEW next
      PROVE  SameRequest(c, Freeing(c, first, next)) \/ Freeing(c, first, next) = Idle
  BY RequestMoves, Zenon
<1> QED
  BY <1>1, <1>2

(* Nor does the search for a place for the entry it makes.                  *)
LEMMA RequestCreates ==
  ASSUME NEW c, CallForm(c), NEW head
  PROVE  SameRequest(c, Creating(c, head))
<1> DEFINE d == [c EXCEPT !.head = head]
<1>1. CallForm(d) /\ SameRequest(c, d)
  BY DEF CallForm, CallFields, SameRequest
<1>2. SameRequest(d, WithSlot(d, FirstReusable(head)))
  BY <1>1, RequestMoves, Zenon
<1>3. SameRequest(d, Allocating(d, "link"))
  BY <1>1, RequestMoves, Zenon
<1>4. Creating(c, head) \in {WithSlot(d, FirstReusable(head)), Allocating(d, "link")}
  BY DEF Creating
<1> QED
  BY <1>1, <1>2, <1>3, <1>4 DEF SameRequest

(* Writing cells of files that are not too long.                            *)
LEMMA SizesWritten ==
  ASSUME DataOK(data), SizesOK(data), NEW c, NEW cells, NEW ok,
         c \in Cluster => \A i \in 1 .. ClusterSize : Sized(cells[i]),
         writeCluster(c, cells, ok)
  PROVE  SizesOK(data')
<1>1. PICK k : data' = [data EXCEPT ![c] =
                  [i \in 1 .. ClusterSize |-> IF i <= k THEN cells[i] ELSE data[c][i]]]
  BY DEF writeCluster
<1> SUFFICES ASSUME NEW d \in Cluster, NEW i \in 1 .. ClusterSize
             PROVE  Sized(data'[d][i])
  BY DEF SizesOK
<1>2. Sized(data[d][i])
  BY DEF SizesOK
<1>3. data'[d][i] = IF d = c /\ i <= k THEN cells[i] ELSE data[d][i]
  BY <1>1 DEF DataOK
<1> QED
  BY <1>2, <1>3

(* writeSlot of a cell that is not too long.                                *)
LEMMA SlotSizesWritten ==
  ASSUME DataOK(data), SizesOK(data), NEW slot, NEW cell, Sized(cell), NEW ok,
         writeSlot(slot, cell, ok)
  PROVE  SizesOK(data')
<1> DEFINE c == slot[1]
           cells == [data[c] EXCEPT ![slot[2]] = cell]
<1>1. ASSUME c \in Cluster PROVE \A i \in 1 .. ClusterSize : Sized(cells[i])
  <2> TAKE i \in 1 .. ClusterSize
  <2>1. cells[i] = cell \/ cells[i] = data[c][i]
    BY <1>1 DEF DataOK, CellsOK
  <2> QED
    BY <2>1, <1>1 DEF SizesOK
<1>2. writeCluster(c, cells, ok)
  BY DEF writeSlot
<1> HIDE DEF c, cells
<1> QED
  BY <1>1, <1>2, SizesWritten

(* updateDirectoryEntry with a size that is not too long.                   *)
LEMMA UpdatedIsSized ==
  ASSUME DataOK(data), SizesOK(data), NEW slot, SlotOK(slot),
         NEW ent, ent.size <= MaxLength
  PROVE  Sized(Updated(slot, ent))
<1>1. CellOK(Cell(slot)) /\ Sized(Cell(slot))
  BY CellRead DEF SizesOK, Cell, SlotOK
<1>2. CASE Cell(slot).kind = "entry"
  <2>1. EntOK(Cell(slot))
    BY <1>1, <1>2 DEF CellOK
  <2>2. Updated(slot, ent).size = ent.size
    BY <2>1, <1>2 DEF Updated, EntOK, EntryFields
  <2> QED
    BY <2>2 DEF Sized
<1>3. CASE Cell(slot).kind # "entry"
  BY <1>1, <1>3 DEF Updated
<1> QED
  BY <1>2, <1>3

(* What the steps that write nothing but cells leave alone.                 *)
LEMMA RangesOfCall ==
  ASSUME Ranges, SizesOK(data'), handles' = handles, info' = info, fsInfo' = fsInfo,
         mounted' \in BOOLEAN, leaked' = leaked, faults' \in 0 .. MaxFaults,
         RequestOK(call', handles)
  PROVE  Ranges'
  BY DEF Ranges

(* Faults are counted up to their bound.                                    *)
LEMMA FaultsCounted ==
  ASSUME faults \in 0 .. MaxFaults, NEW ok \in Outcomes, Count(ok)
  PROVE  faults' \in 0 .. MaxFaults
<1>1. MaxFaults \in Nat
  BY VolumeAssumption
<1>2. CASE faults < MaxFaults
  BY <1>1, <1>2 DEF Count
<1>3. CASE ~(faults < MaxFaults)
  <2>1. ok
    BY <1>3 DEF Outcomes
  <2> QED
    BY <2>1 DEF Count
<1> QED
  BY <1>2, <1>3

(* The parts of Ranges, by name.                                            *)
LEMMA RangeParts ==
  Ranges => /\ SizesOK(data) /\ LengthsOK(handles) /\ RequestOK(call, handles)
            /\ CountersOK(info) /\ CountersOK(fsInfo)
            /\ mounted \in BOOLEAN /\ leaked \subseteq Cluster /\ faults \in 0 .. MaxFaults
  BY DEF Ranges

(* The steps that write the table or the counters only.                     *)
LEMMA TableStepRanges ==
  ASSUME IInv, Ranges,
         AllocateClaim \/ AllocateUndo \/ syncFSInfo \/ freeClusterChain \/ ExtendLink
  PROVE  Ranges'
<1>1. data' = data /\ handles' = handles /\ mounted' = mounted /\ leaked' = leaked
  BY Zenon DEF AllocateClaim, AllocateUndo, syncFSInfo, freeClusterChain, ExtendLink
<1>2. faults' \in 0 .. MaxFaults
  <2>1. faults' = faults \/ \E ok \in Outcomes : Count(ok)
    BY Zenon DEF AllocateClaim, AllocateUndo, syncFSInfo, freeClusterChain, ExtendLink,
           writeFATEntry, writeInfo
  <2> QED
    BY <2>1, RangeParts, FaultsCounted
<1>3. SameRequest(call, call') \/ call' = Idle
  <2>1. CallForm(call)
    BY Parts
  <2>2. CASE AllocateClaim
    <3>1. \/ call' = Idle
          \/ \E c : call' = [call EXCEPT !.at = "zero", !.cluster = c]
      BY <2>2, Zenon DEF AllocateClaim
    <3>2. \A c : SameRequest(call, [call EXCEPT !.at = "zero", !.cluster = c])
      BY <2>1, RequestMoves, Zenon
    <3> QED
      BY <3>1, <3>2, Zenon
  <2>3. CASE AllocateUndo
    BY <2>3 DEF AllocateUndo
  <2>4. CASE syncFSInfo
    BY <2>1, <2>4, RequestMoves, Zenon DEF syncFSInfo, Goto
  <2>5. CASE freeClusterChain
    <3>1. \/ call' = Idle
          \/ \E c : call' = [call EXCEPT !.cluster = c]
          \/ call' = Jump(call, "sync")
      BY <2>5 DEF freeClusterChain, Goto
    <3>2. \A c : SameRequest(call, [call EXCEPT !.cluster = c])
      BY <2>1, RequestMoves, Zenon
    <3>3. SameRequest(call, Jump(call, "sync")) \/ Jump(call, "sync") = Idle
      BY <2>1, RequestMoves, Zenon
    <3> QED
      BY <3>1, <3>2, <3>3
  <2>6. CASE ExtendLink
    <3>1. \/ call' = Idle
          \/ call' = Jump(call, "locate")
          \/ call' = WithSlot(call, <<call.cluster, 1>>)
      BY <2>6 DEF ExtendLink, Goto
    <3> QED
      BY <3>1, <2>1, RequestMoves, Zenon
  <2> QED
    BY <2>2, <2>3, <2>4, <2>5, <2>6
<1>4. RequestOK(call', handles)
  BY <1>3, RangeParts, RequestStays
<1>5. CountersOK(info') /\ CountersOK(fsInfo')
  <2>1. CASE UNCHANGED <<info, fsInfo>>
    BY <2>1, RangeParts
  <2>2. CASE syncFSInfo
    BY <2>2, RangeParts DEF syncFSInfo, writeInfo
  <2>3. CASE freeClusterChain
    <3>1. /\ info' = info
          /\ \/ fsInfo' = fsInfo
             \/ /\ fsInfo.freeClusterCount # Unknown
                /\ fsInfo' = [fsInfo EXCEPT !.freeClusterCount = @ + 1]
      BY <2>3 DEF freeClusterChain
    <3> QED
      BY <3>1, RangeParts DEF CountersOK
  <2> QED
    BY <2>1, <2>2, <2>3, Zenon DEF AllocateClaim, AllocateUndo, ExtendLink
<1> QED
  BY <1>1, <1>2, <1>4, <1>5 DEF Ranges

(* zeroCluster counts the cluster it has taken.                             *)
LEMMA ZeroRanges == ASSUME IInv, Ranges, zeroCluster PROVE Ranges'
<1>1. PICK ok \in Outcomes :
        /\ writeCluster(call.cluster, ZeroCells, ok)
        /\ fsInfo' = IF ok THEN Taken(call.cluster) ELSE fsInfo
        /\ call' = Goto(IF ok THEN "sync" ELSE "undo")
  BY DEF zeroCluster
<1>2. SizesOK(data')
  <2>1. \A i \in 1 .. ClusterSize : Sized(ZeroCells[i])
    BY DEF ZeroCells, Zero, Sized
  <2> QED
    BY <2>1, <1>1, Parts, RangeParts, SizesWritten
<1>3. faults' \in 0 .. MaxFaults
  BY <1>1, RangeParts, FaultsCounted DEF writeCluster
<1>4. RequestOK(call', handles)
  <2>1. SameRequest(call, call') \/ call' = Idle
    BY <1>1, Parts, RequestMoves, Zenon DEF Goto
  <2> QED
    BY <2>1, RangeParts, RequestStays
<1>5. CountersOK(fsInfo')
  <2>1. CASE ~ok
    BY <2>1, <1>1, RangeParts
  <2>2. CASE ok
    <3>1. call.cluster \in Cluster
      BY Parts DEF Allocated, zeroCluster, At, InView
    <3>2. fsInfo' = Taken(call.cluster)
      BY <2>2, <1>1
    <3>3. totalClusters \in Nat /\ totalClusters >= 2
      BY ClustersCounted
    <3>4. (IF call.cluster + 1 >= totalClusters + 2 THEN 2 ELSE call.cluster + 1) \in Cluster
      BY <3>1, <3>3 DEF Cluster
    <3>5. fsInfo.freeClusterCount \in Nat \cup {Unknown}
      BY RangeParts DEF CountersOK
    <3>6. (IF fsInfo.freeClusterCount > 0 THEN fsInfo.freeClusterCount - 1
           ELSE fsInfo.freeClusterCount) \in Nat \cup {Unknown}
      BY <3>5 DEF Unknown
    <3> QED
      BY <3>2, <3>4, <3>6 DEF Taken, CountersOK
  <2> QED
    BY <2>1, <2>2
<1>6. /\ handles' = handles /\ info' = info /\ mounted' = mounted /\ leaked' = leaked
  BY DEF zeroCluster
<1> QED
  BY <1>2, <1>3, <1>4, <1>5, <1>6, RangeParts DEF Ranges

(* CreateDots writes directory entries, and enters its cluster.             *)
LEMMA DotsRanges == ASSUME IInv, Ranges, CreateDots PROVE Ranges'
<1>1. PICK ok \in Outcomes :
        /\ writeCluster(call.cluster, DotCells(call.cluster, call.head), ok)
        /\ call' = IF ok
                   THEN [call EXCEPT !.at = "entry", !.ent.firstCluster = call.cluster]
                   ELSE Freeing(call, call.cluster, "idle")
  BY DEF CreateDots
<1>2. SizesOK(data')
  <2>1. ASSUME NEW i \in 1 .. ClusterSize
        PROVE  Sized(DotCells(call.cluster, call.head)[i])
    <3>1. MaxLength \in Nat
      BY VolumeAssumption
    <3>2. DotCells(call.cluster, call.head)[i] \in
            {Zero, Entry(".", TRUE, call.cluster, 0), Entry("..", TRUE, call.head, 0)}
      BY DEF DotCells, ZeroCells
    <3> QED
      BY <3>1, <3>2 DEF Sized, Entry, Zero
  <2> QED
    BY <2>1, <1>1, Parts, RangeParts, SizesWritten
<1>3. faults' \in 0 .. MaxFaults
  BY <1>1, RangeParts, FaultsCounted DEF writeCluster
<1>4. RequestOK(call', handles)
  <2>1. CASE ok
    <3>1. InView(call) = "dots" /\ call.cluster \in Cluster
      BY Parts DEF Allocated, CreateDots, At, InView
    <3>2. EntOK(call.ent) /\ call.cluster \in Link
      BY <3>1, Parts DEF Prepared, HasEntry, Link
    <3>3. PICK x : x = call.cluster
      OBVIOUS
    <3>4. PICK d : d = [call EXCEPT !.at = "entry", !.ent.firstCluster = x]
      OBVIOUS
    <3>5. Is(d, call.op, "entry", call.next, call.handle, call.n, call.head, call.cluster,
             call.slot, [call.ent EXCEPT !.firstCluster = x], call.was)
      BY <3>2, <3>3, <3>4, Parts, MoveEntry, Zenon
    <3>6. [call.ent EXCEPT !.firstCluster = x].size = call.ent.size
      BY <3>2 DEF EntOK, EntryFields
    <3>7. call' = d
      BY <3>3, <3>4, <2>1, <1>1
    <3> QED
      BY <3>5, <3>6, <3>7, RangeParts DEF Is, RequestOK
  <2>2. CASE ~ok
    <3>1. call' = Freeing(call, call.cluster, "idle")
      BY <2>2, <1>1
    <3>2. SameRequest(call, Freeing(call, call.cluster, "idle"))
            \/ Freeing(call, call.cluster, "idle") = Idle
      BY Parts, RequestMoves, Zenon
    <3> QED
      BY <3>1, <3>2, RangeParts, RequestStays
  <2> QED
    BY <2>1, <2>2
<1>5. /\ handles' = handles /\ info' = info /\ fsInfo' = fsInfo /\ mounted' = mounted
      /\ leaked' = leaked
  BY DEF CreateDots
<1> QED
  BY <1>2, <1>3, <1>4, <1>5, RangeParts, RangesOfCall

(* The steps that write one slot.                                           *)
LEMMA SlotStepRanges ==
  ASSUME IInv, Ranges, NEW slot, NEW cell, Sized(cell), NEW ok \in Outcomes,
         writeSlot(slot, cell, ok), SameRequest(call, call') \/ call' = Idle,
         UNCHANGED <<handles, info, fsInfo, mounted, leaked>>
  PROVE  Ranges'
<1>1. SizesOK(data')
  BY Parts, RangeParts, SlotSizesWritten
<1>2. faults' \in 0 .. MaxFaults
  BY RangeParts, FaultsCounted DEF writeSlot, writeCluster
<1>3. RequestOK(call', handles)
  BY RangeParts, RequestStays
<1> QED
  BY <1>1, <1>2, <1>3, RangeParts, RangesOfCall

(* A new entry is empty.                                                    *)
LEMMA NewEntryRanges == ASSUME IInv, Ranges, CreateEntry PROVE Ranges'
<1>1. PICK ok \in Outcomes :
        /\ writeSlot(call.slot, call.ent, ok)
        /\ call' = IF ok THEN Goto(Entered)
                   ELSE IF call.ent.firstCluster \in Cluster
                   THEN Freeing(call, call.ent.firstCluster, "idle")
                   ELSE Idle
  BY DEF CreateEntry
<1>2. Sized(call.ent)
  BY RangeParts DEF RequestOK, Sized
<1>3. SameRequest(call, call') \/ call' = Idle
  <2>1. \/ call' = Idle
        \/ call' = Jump(call, Entered)
        \/ call' = Freeing(call, call.ent.firstCluster, "idle")
    BY <1>1 DEF Goto
  <2> QED
    BY <2>1, Parts, RequestGoesOn
<1> QED
  BY <1>1, <1>2, <1>3, SlotStepRanges DEF CreateEntry

(* open with Truncate leaves a size of nothing.                             *)
LEMMA ClearRanges == ASSUME IInv, Ranges, OpenClear PROVE Ranges'
<1>1. PICK ok \in Outcomes :
        /\ writeSlot(call.slot, Updated(call.slot, NoEntry), ok)
        /\ call' = GotoIf(ok, "opened")
  BY DEF OpenClear
<1>2. Sized(Updated(call.slot, NoEntry))
  <2>1. SlotOK(call.slot)
    BY Parts DEF Prepared, InView, OpenClear, At
  <2>2. NoEntry.size <= MaxLength
    BY VolumeAssumption, NoEntryCells
  <2> QED
    BY <2>1, <2>2, Parts, RangeParts, UpdatedIsSized
<1>3. SameRequest(call, call') \/ call' = Idle
  BY <1>1, Parts, RequestMoves, Zenon DEF GotoIf, Goto
<1> QED
  BY <1>1, <1>2, <1>3, SlotStepRanges DEF OpenClear

(* remove marks an entry as deleted.                                        *)
LEMMA EraseRanges == ASSUME IInv, Ranges, EraseEntry PROVE Ranges'
<1>1. PICK ok, slot :
        /\ ok \in Outcomes
        /\ writeSlot(slot, Deleted, ok)
        /\ call' = IF call.op = "rename" THEN Goto(IF ok THEN "idle" ELSE "rollback")
                   ELSE IF ok THEN Freeing(call, Cell(slot).firstCluster, "idle")
                   ELSE Idle
  BY DEF EraseEntry
<1>2. Sized(Deleted)
  BY DEF Sized, Deleted
<1>3. SameRequest(call, call') \/ call' = Idle
  <2>1. \/ call' = Idle
        \/ \E label : call' = Jump(call, label)
        \/ call' = Freeing(call, Cell(slot).firstCluster, "idle")
    BY <1>1 DEF Goto
  <2> QED
    BY <2>1, Parts, RequestGoesOn
<1> QED
  BY <1>1, <1>2, <1>3, SlotStepRanges DEF EraseEntry

(* rename writes the size its entry had.                                    *)
LEMMA RenameRanges == ASSUME IInv, Ranges, RenameInPlace \/ RenameUpdate PROVE Ranges'
<1>1. CASE RenameInPlace
  <2>1. PICK ok \in Outcomes : writeSlot(call.slot, call.ent, ok)
    BY <1>1 DEF RenameInPlace
  <2>2. Sized(call.ent)
    BY RangeParts DEF RequestOK, Sized
  <2> QED
    BY <2>1, <2>2, <1>1, SlotStepRanges DEF RenameInPlace
<1>2. CASE RenameUpdate
  <2>1. PICK ok \in Outcomes :
          /\ writeSlot(call.slot, Updated(call.slot, call.was), ok)
          /\ call' = GotoIf(ok, "erase")
    BY <1>2 DEF RenameUpdate
  <2>2. Sized(Updated(call.slot, call.was))
    <3>1. SlotOK(call.slot)
      BY <1>2, Parts DEF Prepared, InView, RenameUpdate, At
    <3> QED
      BY <3>1, Parts, RangeParts, UpdatedIsSized DEF RequestOK
  <2>3. SameRequest(call, call') \/ call' = Idle
    BY <2>1, Parts, RequestMoves, Zenon DEF GotoIf, Goto
  <2> QED
    BY <2>1, <2>2, <2>3, <1>2, SlotStepRanges DEF RenameUpdate
<1> QED
  BY <1>1, <1>2

(* Taking a rename back writes that size again.                             *)
LEMMA RollbackRanges == ASSUME IInv, Ranges, RenameRollback PROVE Ranges'
<1>1. PICK ent : ent = [Cell(call.slot) EXCEPT !.firstCluster = 0]
  OBVIOUS
<1>2. PICK ok \in Outcomes : writeSlot(call.slot, Updated(call.slot, ent), ok)
  BY <1>1 DEF RenameRollback
<1>3. SlotOK(call.slot)
  BY Parts DEF Prepared, InView, RenameRollback, At
<1>4. CellOK(Cell(call.slot)) /\ Sized(Cell(call.slot))
  BY <1>3, Parts, RangeParts, CellRead DEF SizesOK, Cell, SlotOK
<1>5. Sized(Updated(call.slot, ent))
  <2>1. CASE Cell(call.slot).kind = "entry"
    <3>1. ent.size <= MaxLength
      BY <2>1, <1>1, <1>4 DEF CellOK, EntOK, EntryFields, Sized
    <3> QED
      BY <3>1, <1>3, Parts, RangeParts, UpdatedIsSized
  <2>2. CASE Cell(call.slot).kind # "entry"
    BY <2>2, <1>4 DEF Updated
  <2> QED
    BY <2>1, <2>2
<1>6. SizesOK(data') /\ faults' \in 0 .. MaxFaults
  <2>1. SizesOK(data')
    BY <1>2, <1>5, Parts, RangeParts, SlotSizesWritten
  <2> QED
    BY <2>1, <1>2, RangeParts, FaultsCounted DEF writeSlot, writeCluster
<1>7. PICK d : d = [call EXCEPT !.op = "remove", !.at = "erase"]
  OBVIOUS
<1>8. Is(d, "remove", "erase", call.next, call.handle, call.n, call.head, call.cluster,
         call.slot, call.ent, call.was)
  BY <1>7, Parts, Moves, Zenon
<1>9. call' = d \/ call' = Idle
  BY <1>7 DEF RenameRollback
<1>10. RequestOK(call', handles)
  <2>1. RequestOK(d, handles)
    BY <1>8, RangeParts DEF Is, RequestOK
  <2>2. RequestOK(Idle, handles)
    BY <2>1, RequestStays
  <2> QED
    BY <2>1, <2>2, <1>9
<1>11. UNCHANGED <<handles, info, fsInfo, mounted, leaked>>
  BY DEF RenameRollback
<1> QED
  BY <1>6, <1>10, <1>11, RangeParts, RangesOfCall

-----------------------------------------------------------------------------
(* Open files                                                               *)

(* The fields of an open file.                                              *)
FileIs(f, slot, ent, offset, dirty) ==
  /\ f # Closed
  /\ f.slot = slot /\ f.ent = ent /\ f.offset = offset /\ f.dirty = dirty

(* An entry for another chain, of another size.                             *)
Resized(ent, first, size) == [ent EXCEPT !.firstCluster = first, !.size = size]

(* Each field of a handle that has moved.                                   *)
LEMMA ResizedIs ==
  ASSUME NEW e, EntOK(e), NEW x, NEW y
  PROVE  /\ Resized(e, x, y).kind = "entry"
         /\ Resized(e, x, y).name = e.name /\ Resized(e, x, y).dir = e.dir
         /\ Resized(e, x, y).firstCluster = x /\ Resized(e, x, y).size = y
  BY DEF EntOK, EntryFields, Resized

(* What the assignments to a handle make of it.                             *)
LEMMA FileBecomes ==
  ASSUME NEW f, FileOK(f), NEW b, NEW x, NEW y, NEW z
  PROVE  /\ FileIs([f EXCEPT !.ent.firstCluster = x, !.dirty = b],
                   f.slot, Resized(f.ent, x, f.ent.size), f.offset, b)
         /\ FileIs([f EXCEPT !.offset = y, !.dirty = b, !.ent.size = z],
                   f.slot, Resized(f.ent, f.ent.firstCluster, z), y, b)
         /\ FileIs([f EXCEPT !.ent.size = z, !.dirty = b, !.offset = y],
                   f.slot, Resized(f.ent, f.ent.firstCluster, z), y, b)
         /\ FileIs([f EXCEPT !.ent.firstCluster = x, !.ent.size = z,
                             !.offset = y, !.dirty = b],
                   f.slot, Resized(f.ent, x, z), y, b)
         /\ FileIs([f EXCEPT !.dirty = b], f.slot, f.ent, f.offset, b)
         /\ FileIs([f EXCEPT !.offset = y], f.slot, f.ent, y, f.dirty)
<1>1. f = [i \in FileFields |-> f[i]] /\ EntOK(f.ent) /\ f.open
  BY DEF FileOK
<1>2. \A g : g.open => g # Closed
  BY DEF Closed
<1>3. /\ [f.ent EXCEPT !.firstCluster = x] = Resized(f.ent, x, f.ent.size)
      /\ [f.ent EXCEPT !.size = z] = Resized(f.ent, f.ent.firstCluster, z)
  BY <1>1 DEF Resized, EntOK, EntryFields
<1> QED
  BY <1>1, <1>2, <1>3 DEF FileIs, Resized, FileFields

(* The handles, one of them with another file or none.                      *)
SetTo(files, new, h, file) ==
  \A k \in Handles : new[k] = IF k = h THEN file ELSE files[k]

(* One handle is set and the others are left alone.                         *)
LEMMA HandleIsSet ==
  ASSUME HandlesOK(handles), NEW h, NEW file, handles' = [handles EXCEPT ![h] = file]
  PROVE  SetTo(handles, handles', h, file)
  BY DEF HandlesOK, SetTo

(* A file of a permitted length.                                            *)
LengthOK(file) ==
  file # Closed => file.offset <= MaxLength /\ file.ent.size <= MaxLength

(* So all of them stay in range.                                            *)
LEMMA LengthsSet ==
  ASSUME NEW files, LengthsOK(files), NEW new, NEW h, NEW file, LengthOK(file),
         SetTo(files, new, h, file)
  PROVE  LengthsOK(new)
  BY DEF SetTo, LengthsOK, LengthOK

(* The length of the file of a call.                                        *)
LEMMA TheLength ==
  ASSUME IInv, Ranges, NEW f, f = File, HasFile(call, handles)
  PROVE  f.offset <= MaxLength /\ f.ent.size <= MaxLength
  BY RangeParts DEF LengthsOK, HasFile, File

(* A handle starts at nothing, or at the size of its entry.                 *)
LEMMA OpenRanges == ASSUME IInv, Ranges, OpenHandle PROVE Ranges'
<1>1. InView(call) = "opened"
  BY DEF OpenHandle, At, InView
<1>2. SlotOK(call.slot) /\ Cell(call.slot).kind = "entry"
  BY <1>1, Parts DEF Prepared, Cell
<1>3. PICK ent : ent = Cell(call.slot)
  OBVIOUS
<1>4. EntOK(ent) /\ ent.size <= MaxLength
  <2>1. CellOK(Cell(call.slot)) /\ Sized(Cell(call.slot))
    BY <1>2, Parts, RangeParts, CellRead DEF SizesOK, Cell, SlotOK
  <2> QED
    BY <2>1, <1>2, <1>3 DEF CellOK, Sized
<1>5. PICK file : file = [open |-> TRUE, slot |-> call.slot, ent |-> ent,
                          offset |-> IF "Append" \in call.mode THEN ent.size ELSE 0,
                          dirty |-> FALSE]
  OBVIOUS
<1>6. LengthOK(file)
  BY <1>4, <1>5, VolumeAssumption DEF LengthOK
<1>7. handles' = [handles EXCEPT ![call.handle] = file]
  BY <1>3, <1>5 DEF OpenHandle, SetFile
<1>8. LengthsOK(handles')
  BY <1>6, <1>7, Parts, RangeParts, HandleIsSet, LengthsSet
<1>9. call' = Idle /\ UNCHANGED <<data, info, fsInfo, mounted, leaked, faults>>
  BY DEF OpenHandle
<1>10. RequestOK(Idle, handles')
  BY VolumeAssumption, NoEntryCells DEF Idle, RequestOK
<1> QED
  BY <1>8, <1>9, <1>10 DEF Ranges

(* Looking for a cluster moves no handle.                                   *)
LEMMA LocateRanges == ASSUME IInv, Ranges, getClusterForOffset PROVE Ranges'
<1>1. UNCHANGED <<fat, data, info, fsInfo, mounted, handles, leaked, faults>>
  BY DEF getClusterForOffset
<1>2. SameRequest(call, call') \/ call' = Idle
  <2> DEFINE first == File.ent.firstCluster
             c == Nth(first, Wanted \div ClusterSize)
  <2>1. call' = IF first = 0 THEN Allocating(call, "first")
                ELSE IF c \in Cluster THEN Located(c)
                ELSE IF c = EndOfChain
                THEN Allocating([call EXCEPT !.head = first], "link")
                ELSE Idle
    BY DEF getClusterForOffset
  <2> HIDE DEF first, c
  <2>2. \A x : CallForm([call EXCEPT !.head = x]) /\ SameRequest(call, [call EXCEPT !.head = x])
    BY Parts DEF CallForm, CallFields, SameRequest
  <2>3. SameRequest(call, Allocating(call, "first"))
    BY Parts, RequestMoves, Zenon
  <2>4. PICK d : d = [call EXCEPT !.head = first]
    OBVIOUS
  <2>5. SameRequest(call, Allocating(d, "link"))
    <3>1. CallForm(d) /\ SameRequest(call, d)
      BY <2>2, <2>4
    <3>2. SameRequest(d, Allocating(d, "link"))
      BY <3>1, RequestMoves, Zenon
    <3> QED
      BY <3>1, <3>2 DEF SameRequest
  <2>6. SameRequest(call, Located(c)) \/ Located(c) = Idle
    <3>1. PICK e : e = [call EXCEPT !.head = c]
      OBVIOUS
    <3>2. CallForm(e) /\ SameRequest(call, e)
      BY <2>2, <3>1
    <3>3. SameRequest(e, Freeing(e, fat[c], "cut")) \/ Freeing(e, fat[c], "cut") = Idle
      BY <3>2, RequestMoves, Zenon
    <3>4. SameRequest(call, [call EXCEPT !.at = "chunk", !.cluster = c])
      BY Parts, RequestMoves, Zenon
    <3>5. Located(c) \in {[call EXCEPT !.at = "chunk", !.cluster = c], Freeing(e, fat[c], "cut")}
      BY <3>1 DEF Located
    <3> QED
      BY <3>2, <3>3, <3>4, <3>5 DEF SameRequest
  <2> QED
    BY <2>1, <2>3, <2>4, <2>5, <2>6
<1>3. RequestOK(call', handles)
  BY <1>2, RangeParts, RequestStays
<1> QED
  BY <1>1, <1>3 DEF Ranges

(* Giving a file its first cluster leaves its size alone.                   *)
LEMMA FirstRanges == ASSUME IInv, Ranges, setFirstCluster PROVE Ranges'
<1>1. HasFile(call, handles)
  BY Parts DEF Prepared, InView, setFirstCluster, At
<1>2. PICK f, x, b : /\ f = File /\ x = call.cluster
                     /\ b = ((call.op = "write") \/ File.dirty)
  OBVIOUS
<1>3. FileOK(f) /\ f.offset <= MaxLength /\ f.ent.size <= MaxLength
  BY <1>1, <1>2, Parts, TheFile, TheLength
<1>4. PICK file : file = [f EXCEPT !.ent.firstCluster = x, !.dirty = b]
  OBVIOUS
<1>5. file.offset = f.offset /\ file.ent.size = f.ent.size
  <2>1. FileIs(file, f.slot, Resized(f.ent, x, f.ent.size), f.offset, b)
    BY <1>3, <1>4, FileBecomes, Zenon
  <2> QED
    BY <2>1, <1>3, ResizedIs DEF FileIs, FileOK
<1>6. handles' = [handles EXCEPT ![call.handle] = file]
  BY <1>2, <1>4 DEF setFirstCluster, SetFile
<1>7. SetTo(handles, handles', call.handle, file)
  BY <1>6, Parts, HandleIsSet
<1>8. LengthsOK(handles')
  BY <1>3, <1>5, <1>7, RangeParts, LengthsSet DEF LengthOK
<1>9. RequestOK(call', handles')
  <2>1. RequestOK(call, handles')
    <3>1. handles'[call.handle].offset = handles[call.handle].offset
      BY <1>1, <1>2, <1>5, <1>7 DEF SetTo, HasFile, File
    <3> QED
      BY <3>1, RangeParts DEF RequestOK
  <2>2. SameRequest(call, call') \/ call' = Idle
    BY Parts, RequestMoves, Zenon DEF setFirstCluster, Goto
  <2>3. \A files : RequestOK(call, files) => RequestOK(call', files)
    BY <2>2, RequestStays
  <2> QED
    BY <2>1, <2>3
<1>10. UNCHANGED <<data, info, fsInfo, mounted, leaked, faults>>
  BY DEF setFirstCluster
<1> QED
  BY <1>8, <1>9, <1>10 DEF Ranges

(* A chunk does not go beyond what was asked for.                           *)
LEMMA ChunkFits ==
  ASSUME IInv, NEW f, f = File, FileOK(f), call.n \in Nat,
         f.offset + call.n <= MaxLength, f.ent.size <= MaxLength
  PROVE  /\ f.offset + Chunk <= MaxLength
         /\ Grown(f.offset + Chunk) <= MaxLength
         /\ (f.offset + Chunk) + (call.n - Chunk) = f.offset + call.n
         /\ call.n - Chunk <= call.n
<1>1. PICK k, o, n : k = Chunk /\ o = f.offset /\ n = call.n
  OBVIOUS
<1>2. k \in Nat /\ n - k \in Nat /\ o \in Nat /\ n \in Nat /\ MaxLength \in Nat
  BY <1>1, ChunkIsPart, VolumeAssumption DEF FileOK
<1>3. o + k <= MaxLength /\ (o + k) + (n - k) = o + n /\ n - k <= n
  BY <1>1, <1>2
<1>4. Grown(o + k) <= MaxLength
  BY <1>3 DEF Grown
<1> QED
  BY <1>1, <1>3, <1>4

(* Writing leaves a file no longer than the end of the write.               *)
LEMMA ChunkRanges == ASSUME IInv, Ranges, WriteChunk PROVE Ranges'
<1>1. PICK ok \in Outcomes :
        /\ writeCluster(call.cluster, Written, ok)
        /\ IF ok
           THEN /\ SetFile([File EXCEPT !.offset = @ + Chunk, !.dirty = TRUE,
                                        !.ent.size = Grown(File.offset + Chunk)])
                /\ call' = IF Chunk = call.n THEN Idle
                           ELSE [call EXCEPT !.at = "locate", !.n = @ - Chunk]
           ELSE call' = Idle /\ UNCHANGED handles
  BY DEF WriteChunk
<1>2. HasFile(call, handles) /\ call.op = "write"
  BY Parts DEF Prepared, InView, WriteChunk, At
<1>3. PICK f : f = File
  OBVIOUS
<1>4. /\ FileOK(f) /\ call.handle \in Handles /\ call.n \in Nat
      /\ f.offset <= MaxLength /\ f.ent.size <= MaxLength
  BY <1>2, <1>3, Parts, TheFile, TheLength DEF HasFile
<1>5. f.offset + call.n <= MaxLength
  BY <1>2, <1>3, RangeParts DEF RequestOK, File
<1>6. SizesOK(data') /\ faults' \in 0 .. MaxFaults
  <2>1. ASSUME NEW i \in 1 .. ClusterSize, call.cluster \in Cluster PROVE Sized(Written[i])
    <3>1. Sized(data[call.cluster][i])
      BY <2>1, RangeParts DEF SizesOK
    <3>2. \/ \E k : Written[i] = Unit(k)
          \/ Written[i] = data[call.cluster][i]
      BY DEF Written
    <3>3. \A k : Sized(Unit(k))
      BY DEF Sized, Unit
    <3> QED
      BY <3>1, <3>2, <3>3
  <2>2. SizesOK(data')
    BY <2>1, <1>1, Parts, RangeParts, SizesWritten
  <2> QED
    BY <2>2, <1>1, RangeParts, FaultsCounted DEF writeCluster
<1>7. UNCHANGED <<info, fsInfo, mounted, leaked>>
  BY DEF WriteChunk
<1>8. CASE ok
  <2>1. PICK y, z, k : y = f.offset + Chunk /\ z = Grown(f.offset + Chunk) /\ k = call.n - Chunk
    OBVIOUS
  <2>2. y <= MaxLength /\ z <= MaxLength /\ y + k <= MaxLength /\ k <= MaxLength
    <3>1. call.n <= MaxLength
      BY RangeParts DEF RequestOK
    <3>2. /\ y <= MaxLength /\ z <= MaxLength
          /\ y + k = f.offset + call.n /\ k <= call.n
      BY <1>3, <1>4, <1>5, <2>1, ChunkFits
    <3>3. MaxLength \in Nat /\ k \in Nat /\ call.n \in Nat
      BY <1>3, <1>4, <2>1, VolumeAssumption, ChunkIsPart
    <3> QED
      BY <3>1, <3>2, <3>3, <1>5
  <2>3. PICK file : file = [f EXCEPT !.offset = y, !.dirty = TRUE, !.ent.size = z]
    OBVIOUS
  <2>4. file.offset = y /\ file.ent.size = z
    <3>1. \A b : FileIs([f EXCEPT !.offset = y, !.dirty = b, !.ent.size = z],
                        f.slot, Resized(f.ent, f.ent.firstCluster, z), y, b)
      BY <1>4, FileBecomes, Zenon
    <3>2. FileIs(file, f.slot, Resized(f.ent, f.ent.firstCluster, z), y, TRUE)
      BY <3>1, <2>3, Zenon
    <3> QED
      BY <3>2, <1>4, ResizedIs DEF FileIs, FileOK
  <2>5. file = [f EXCEPT !.offset = @ + Chunk, !.dirty = TRUE,
                         !.ent.size = Grown(f.offset + Chunk)]
    BY <2>1, <2>3
  <2>6. handles' = [handles EXCEPT ![call.handle] = file]
    BY <2>5, <1>1, <1>3, <1>8 DEF SetFile
  <2>7. SetTo(handles, handles', call.handle, file)
    BY <2>6, Parts, HandleIsSet
  <2>8. LengthsOK(handles')
    BY <2>2, <2>4, <2>7, RangeParts, LengthsSet DEF LengthOK
  <2>9. RequestOK(call', handles')
    <3>1. CASE Chunk = call.n
      <4>1. call' = Idle
        BY <3>1, <1>1, <1>8
      <4> QED
        BY <4>1, VolumeAssumption, NoEntryCells DEF Idle, RequestOK
    <3>2. CASE Chunk # call.n
      <4>1. PICK d : d = [call EXCEPT !.at = "locate", !.n = k]
        OBVIOUS
      <4>2. Is(d, call.op, "locate", call.next, call.handle, k, call.head, call.cluster,
               call.slot, call.ent, call.was)
        BY <4>1, Parts, Moves, Zenon
      <4>3. call' = d
        BY <4>1, <2>1, <3>2, <1>1, <1>8
      <4>4. handles'[call.handle].offset = y
        BY <2>4, <2>7, <1>4 DEF SetTo
      <4> QED
        BY <4>2, <4>3, <4>4, <2>2, RangeParts DEF Is, RequestOK
    <3> QED
      BY <3>1, <3>2
  <2> QED
    BY <2>8, <2>9, <1>6, <1>7, RangeParts DEF Ranges
<1>9. CASE ~ok
  <2>1. call' = Idle /\ handles' = handles
    BY <1>1, <1>9
  <2>2. RequestOK(Idle, handles)
    BY VolumeAssumption, NoEntryCells DEF Idle, RequestOK
  <2> QED
    BY <2>1, <2>2, <1>6, <1>7, RangeParts DEF Ranges
<1> QED
  BY <1>1, <1>8, <1>9 DEF Outcomes

(* The steps that set the open file of a call, write cells and go on.       *)
LEMMA FileStepRanges ==
  ASSUME IInv, Ranges, SizesOK(data'), faults' \in 0 .. MaxFaults,
         NEW file, LengthOK(file), handles' = [handles EXCEPT ![call.handle] = file],
         call.op # "write" \/ call' = Idle, SameRequest(call, call') \/ call' = Idle,
         UNCHANGED <<info, fsInfo, mounted, leaked>>
  PROVE  Ranges'
<1>1. LengthsOK(handles')
  BY Parts, RangeParts, HandleIsSet, LengthsSet
<1>2. RequestOK(call', handles')
  <2>1. CASE call' = Idle
    BY <2>1, VolumeAssumption, NoEntryCells DEF Idle, RequestOK
  <2>2. CASE call.op # "write" /\ SameRequest(call, call')
    BY <2>2, RangeParts DEF SameRequest, RequestOK
  <2> QED
    BY <2>1, <2>2
<1> QED
  BY <1>1, <1>2, RangeParts DEF Ranges

(* truncate sets the size it was asked for.                                 *)
LEMMA CutRanges == ASSUME IInv, Ranges, TruncateCut PROVE Ranges'
<1>1. PICK ok \in Outcomes :
        /\ writeFATEntry(call.head, EndOfChain, ok)
        /\ call' = GotoIf(ok, "flush")
        /\ IF ok
           THEN SetFile([File EXCEPT !.ent.size = call.n, !.dirty = TRUE,
                                     !.offset = IF @ > call.n THEN call.n ELSE @])
           ELSE UNCHANGED handles
  BY DEF TruncateCut
<1>2. HasFile(call, handles) /\ call.op = "truncate"
  BY Parts DEF Prepared, InView, TruncateCut, At
<1>3. PICK f, n : f = File /\ n = call.n
  OBVIOUS
<1>4. FileOK(f) /\ f.offset <= MaxLength /\ n <= MaxLength /\ n \in Nat
  BY <1>2, <1>3, Parts, RangeParts, TheFile, TheLength DEF RequestOK, HasFile
<1>5. /\ data' = data /\ UNCHANGED <<info, fsInfo, mounted, leaked>>
      /\ faults' \in 0 .. MaxFaults
  BY <1>1, RangeParts, FaultsCounted DEF TruncateCut, writeFATEntry
<1>6. SameRequest(call, call') \/ call' = Idle
  BY <1>1, Parts, RequestMoves, Zenon DEF GotoIf, Goto
<1>7. CASE ok
  <2>1. PICK y : y = IF f.offset > n THEN n ELSE f.offset
    OBVIOUS
  <2>2. PICK file : file = [f EXCEPT !.ent.size = n, !.dirty = TRUE, !.offset = y]
    OBVIOUS
  <2>3. LengthOK(file)
    <3>1. \A b : FileIs([f EXCEPT !.ent.size = n, !.dirty = b, !.offset = y],
                        f.slot, Resized(f.ent, f.ent.firstCluster, n), y, b)
      BY <1>4, FileBecomes, Zenon
    <3>2. FileIs(file, f.slot, Resized(f.ent, f.ent.firstCluster, n), y, TRUE)
      BY <2>2, <3>1, Zenon
    <3>3. y <= MaxLength
      BY <1>4, <2>1 DEF FileOK
    <3> QED
      BY <3>2, <3>3, <1>4, ResizedIs DEF FileIs, FileOK, LengthOK
  <2>4. file = [f EXCEPT !.ent.size = n, !.dirty = TRUE,
                         !.offset = IF @ > n THEN n ELSE @]
    BY <2>1, <2>2
  <2>5. handles' = [handles EXCEPT ![call.handle] = file]
    BY <2>4, <1>1, <1>3, <1>7 DEF SetFile
  <2> QED
    BY <2>3, <2>5, <1>2, <1>5, <1>6, RangeParts, FileStepRanges
<1>8. CASE ~ok
  <2>1. handles' = handles
    BY <1>1, <1>8
  <2> QED
    BY <2>1, <1>5, <1>6, RangeParts, RequestStays DEF Ranges
<1> QED
  BY <1>7, <1>8 DEF Outcomes

(* truncate to nothing sets a size of nothing.                              *)
LEMMA EmptiedRanges == ASSUME IInv, Ranges, TruncateAll PROVE Ranges'
<1>1. HasFile(call, handles) /\ call.op = "truncate"
  BY Parts DEF Prepared, InView, TruncateAll, At
<1>2. PICK f : f = File
  OBVIOUS
<1>3. FileOK(f)
  BY <1>1, <1>2, Parts, TheFile
<1>4. PICK file : file = [f EXCEPT !.ent.firstCluster = 0, !.ent.size = 0,
                                   !.offset = 0, !.dirty = TRUE]
  OBVIOUS
<1>5. LengthOK(file)
  <2>1. \A b : FileIs([f EXCEPT !.ent.firstCluster = 0, !.ent.size = 0,
                               !.offset = 0, !.dirty = b],
                      f.slot, Resized(f.ent, 0, 0), 0, b)
    BY <1>3, FileBecomes, Zenon
  <2>2. FileIs(file, f.slot, Resized(f.ent, 0, 0), 0, TRUE)
    BY <2>1, <1>4, Zenon
  <2> QED
    BY <2>2, <1>3, VolumeAssumption, ResizedIs DEF FileIs, FileOK, LengthOK
<1>6. handles' = [handles EXCEPT ![call.handle] = file]
  BY <1>2, <1>4 DEF TruncateAll, SetFile
<1>7. SameRequest(call, call') \/ call' = Idle
  BY Parts, RequestMoves, Zenon DEF TruncateAll, Goto
<1>8. UNCHANGED <<data, info, fsInfo, mounted, leaked, faults>>
  BY DEF TruncateAll
<1> QED
  BY <1>1, <1>5, <1>6, <1>7, <1>8, RangeParts, FileStepRanges

(* flush writes the size of the handle.                                     *)
LEMMA FlushRanges == ASSUME IInv, Ranges, flush PROVE Ranges'
<1>1. PICK ok \in Outcomes :
        /\ writeSlot(File.slot, Updated(File.slot, File.ent), ok)
        /\ SetFile(IF call.op = "close" THEN Closed
                   ELSE [File EXCEPT !.dirty = ~ok])
  BY DEF flush
<1>2. HasFile(call, handles)
  BY Parts DEF Prepared, InView, flush, At
<1>3. PICK f, b : f = File /\ b = ~ok
  OBVIOUS
<1>4. FileOK(f) /\ f.offset <= MaxLength /\ f.ent.size <= MaxLength
  BY <1>2, <1>3, Parts, RangeParts, TheFile, TheLength
<1>5. SizesOK(data') /\ faults' \in 0 .. MaxFaults
  <2>1. Sized(Updated(f.slot, f.ent))
    BY <1>4, Parts, RangeParts, UpdatedIsSized DEF FileOK
  <2>2. SizesOK(data')
    BY <2>1, <1>1, <1>3, Parts, RangeParts, SlotSizesWritten
  <2> QED
    BY <2>2, <1>1, RangeParts, FaultsCounted DEF writeSlot, writeCluster
<1>6. PICK file : file = IF call.op = "close" THEN Closed ELSE [f EXCEPT !.dirty = b]
  BY Zenon
<1>7. LengthOK(file)
  <2>1. FileIs([f EXCEPT !.dirty = b], f.slot, f.ent, f.offset, b)
    BY <1>4, FileBecomes, Zenon
  <2> QED
    BY <2>1, <1>4, <1>6 DEF FileIs, LengthOK
<1>8. handles' = [handles EXCEPT ![call.handle] = file]
  BY <1>1, <1>3, <1>6 DEF SetFile
<1>9. call' = Idle /\ UNCHANGED <<info, fsInfo, mounted, leaked>>
  BY DEF flush
<1> QED
  BY <1>5, <1>7, <1>8, <1>9, FileStepRanges

(* A call that only begins.                                                 *)
LEMMA StartRanges ==
  ASSUME Ranges, RequestOK(call', handles),
         UNCHANGED <<data, info, fsInfo, mounted, handles, leaked, faults>>
  PROVE  Ranges'
  BY DEF Ranges

(* A call that has been asked for entries of a permitted size.              *)
LEMMA EntryRequest ==
  ASSUME NEW c, CallForm(c), NEW op, op # "write", NEW at, NEW handle, NEW slot,
         NEW ent, ent.size <= MaxLength, NEW was, was.size <= MaxLength,
         Is(c, op, at, "idle", handle, 0, 0, 0, slot, ent, was), NEW files
  PROVE  /\ RequestOK(c, files)
         /\ \A head : RequestOK(Creating(c, head), files)
         /\ \A first, next : RequestOK(Freeing(c, first, next), files)
         /\ \A label : RequestOK([c EXCEPT !.at = label], files)
<1>1. RequestOK(c, files)
  <2>1. 0 <= MaxLength
    BY VolumeAssumption
  <2> QED
    BY <2>1 DEF Is, RequestOK
<1>2. ASSUME NEW head PROVE RequestOK(Creating(c, head), files)
  BY <1>1, RequestCreates, RequestStays
<1>3. ASSUME NEW first, NEW next PROVE RequestOK(Freeing(c, first, next), files)
  BY <1>1, RequestMoves, RequestStays, Zenon
<1>4. ASSUME NEW label PROVE RequestOK([c EXCEPT !.at = label], files)
  BY <1>1, RequestMoves, RequestStays, Zenon
<1> QED
  BY <1>1, <1>2, <1>3, <1>4

(* An entry that is not there yet has size 0.                               *)
LEMMA EntrySizes ==
  /\ \A name, dir, first : Entry(name, dir, first, 0).size <= MaxLength
  /\ NoEntry.size <= MaxLength
  BY VolumeAssumption DEF Entry, NoEntry

(* createFile and createDirectory ask for nothing but a name.               *)
LEMMA CreateRanges ==
  ASSUME IInv, Ranges, NEW op \in {"createFile", "createDirectory"}, NEW path, NEW dir,
         Create(op, path, dir)
  PROVE  Ranges'
<1>1. PICK e, c : /\ e = Entry(basenameOf(path), dir, 0, 0)
                  /\ c = [Begin(op) EXCEPT !.ent = e]
  BY Zenon
<1>2. Is(c, op, "idle", "idle", 0, 0, 0, 0, Nowhere, e, NoEntry)
  BY <1>1, Begins, Zenon
<1>3. call' = Creating(c, parentOf(path))
  BY <1>1 DEF Create
<1>4. CallForm(c) /\ op # "write" /\ e.size <= MaxLength /\ NoEntry.size <= MaxLength
  BY <1>1, <1>2, EntrySizes DEF Is
<1>5. RequestOK(call', handles)
  BY <1>2, <1>3, <1>4, EntryRequest
<1> QED
  BY <1>5, StartRanges DEF Create

(* open asks for the entry it found.                                        *)
LEMMA OpensRanges ==
  ASSUME IInv, Ranges, NEW path, NEW mode, NEW h \in Handles, open(path, mode, h)
  PROVE  Ranges'
<1>1. PICK slot, e, c :
        /\ slot = findEntry(path)
        /\ c = [Begin("open") EXCEPT !.handle = h, !.mode = mode, !.slot = slot]
        /\ e = Entry(basenameOf(path), FALSE, 0, 0)
  BY Zenon
<1>2. Is(c, "open", "idle", "idle", h, 0, 0, 0, slot, NoEntry, NoEntry)
  BY <1>1, Begins, Zenon
<1>3. PICK d : d = [c EXCEPT !.ent = e]
  OBVIOUS
<1>4. Is(d, "open", "idle", "idle", h, 0, 0, 0, slot, e, NoEntry)
  BY <1>3, <1>2 DEF Is, CallForm, CallFields
<1>5. /\ CallForm(c) /\ CallForm(d) /\ NoEntry.size <= MaxLength /\ e.size <= MaxLength
  <2>1. \A dir : Entry(basenameOf(path), dir, 0, 0).size <= MaxLength
    BY EntrySizes
  <2> QED
    BY <2>1, <1>1, <1>2, <1>4, EntrySizes DEF Is
<1>6. call' \in {Freeing(c, Cell(slot).firstCluster, "clear"), [c EXCEPT !.at = "opened"],
                 Creating(d, parentOf(path))}
  BY <1>1, <1>3 DEF open
<1>7. "open" # "write"
  OBVIOUS
<1>8. /\ \A first, next : RequestOK(Freeing(c, first, next), handles)
      /\ \A label : RequestOK([c EXCEPT !.at = label], handles)
  BY <1>2, <1>5, <1>7, EntryRequest
<1>9. \A head : RequestOK(Creating(d, head), handles)
  BY <1>4, <1>5, <1>7, EntryRequest
<1>10. RequestOK(call', handles)
  BY <1>6, <1>8, <1>9
<1> QED
  BY <1>10, StartRanges DEF open

(* remove asks for the entry it found.                                      *)
LEMMA RemoveRanges == ASSUME IInv, Ranges, NEW path, remove(path) PROVE Ranges'
<1>1. Is(call', "remove", "erase", "idle", 0, 0, 0, 0, findEntry(path), NoEntry, NoEntry)
  BY Begins, Zenon DEF remove
<1>2. NoEntry.size <= MaxLength
  BY EntrySizes
<1>3. \A c, files : Is(c, "remove", "erase", "idle", 0, 0, 0, 0, findEntry(path), NoEntry,
                       NoEntry) => RequestOK(c, files)
  BY <1>2, EntryRequest DEF Is
<1> QED
  BY <1>1, <1>3, StartRanges DEF remove

(* rename asks for the entry it found.                                      *)
LEMMA RenamesRanges ==
  ASSUME IInv, Ranges, NEW path, NEW to, rename(path, to) PROVE Ranges'
<1>1. PICK slot, e, p : slot = findEntry(path) /\ e = Cell(slot) /\ p = parentOf(to)
  OBVIOUS
<1>2. EntOK(e) /\ e.size <= MaxLength
  <2>1. SlotOK(slot) /\ Cell(slot).kind = "entry" /\ EntOK(Cell(slot))
    BY <1>1, Parts, FoundPath DEF rename
  <2> QED
    BY <2>1, <1>1, RangeParts DEF SizesOK, Sized, SlotOK, Cell
<1>3. PICK f, d : /\ f = Entry(basenameOf(to), e.dir, 0, 0)
                  /\ d = [Begin("rename") EXCEPT !.old = slot, !.was = e, !.ent = f]
  BY Zenon
<1>4. PICK n, c : /\ n = [e EXCEPT !.name = basenameOf(to)]
                  /\ c = [Begin("rename") EXCEPT !.at = "rename", !.slot = slot, !.ent = n]
  BY Zenon
<1>5. call' = c \/ call' = Creating(d, p)
  BY <1>1, <1>3, <1>4 DEF rename
<1>6. /\ Is(d, "rename", "idle", "idle", 0, 0, 0, 0, Nowhere, f, e)
      /\ Is(c, "rename", "rename", "idle", 0, 0, 0, 0, slot, n, NoEntry)
  BY <1>3, <1>4, Begins, Zenon
<1>7. /\ f.size <= MaxLength /\ n.size <= MaxLength /\ NoEntry.size <= MaxLength
      /\ CallForm(d) /\ CallForm(c) /\ "rename" # "write"
  BY <1>2, <1>3, <1>4, <1>6, EntrySizes DEF EntOK, EntryFields, Is
<1>8. RequestOK(c, handles)
  BY <1>6, <1>7, EntryRequest
<1>9. RequestOK(Creating(d, p), handles)
  BY <1>2, <1>6, <1>7, EntryRequest
<1>10. RequestOK(call', handles)
  BY <1>5, <1>8, <1>9
<1> QED
  BY <1>10, StartRanges DEF rename

(* rename below a regular file asks for it as well.                         *)
LEMMA RenamesBelowRanges ==
  ASSUME IInv, Ranges, NEW path, NEW to, renameBelowFile(path, to) PROVE Ranges'
<1>1. PICK slot, e, head : /\ slot = findEntry(path) /\ e = Cell(slot)
                           /\ head = Cell(InDirectory(rootCluster, to[1])).firstCluster
  BY Zenon
<1>2. EntOK(e) /\ e.size <= MaxLength
  <2>1. SlotOK(slot) /\ Cell(slot).kind = "entry" /\ EntOK(Cell(slot))
    BY <1>1, Parts, FoundPath DEF renameBelowFile
  <2> QED
    BY <2>1, <1>1, RangeParts DEF SizesOK, Sized, SlotOK, Cell
<1>3. PICK f, n, c, d, x :
        /\ f = Entry(basenameOf(to), FALSE, 0, 0)
        /\ n = [e EXCEPT !.name = basenameOf(to)]
        /\ c = [Begin("rename") EXCEPT !.at = "rename", !.slot = slot, !.ent = n]
        /\ d = [Begin("rename") EXCEPT !.old = slot, !.was = e, !.ent = f]
        /\ x = [d EXCEPT !.head = head]
  BY Zenon
<1>4. \/ call' = c
      \/ \E p \in MayLookFree(head) : call' = WithSlot(x, SlotAt(head, p))
      \/ call' = Allocating(x, "link")
  BY <1>1, <1>3 DEF renameBelowFile
<1>5. /\ Is(d, "rename", "idle", "idle", 0, 0, 0, 0, Nowhere, f, e)
      /\ Is(c, "rename", "rename", "idle", 0, 0, 0, 0, slot, n, NoEntry)
  BY <1>3, Begins, Zenon
<1>6. /\ f.size <= MaxLength /\ n.size <= MaxLength /\ NoEntry.size <= MaxLength
      /\ CallForm(d) /\ CallForm(c) /\ "rename" # "write"
  BY <1>2, <1>3, <1>5, EntrySizes DEF EntOK, EntryFields, Is
<1>7. RequestOK(c, handles) /\ RequestOK(d, handles)
  BY <1>2, <1>5, <1>6, EntryRequest
<1>8. CallForm(x) /\ SameRequest(d, x)
  BY <1>3, <1>6 DEF CallForm, CallFields, SameRequest
<1>9. RequestOK(x, handles)
  BY <1>7, <1>8, RequestStays
<1>10. ASSUME NEW s PROVE RequestOK(WithSlot(x, s), handles)
  BY <1>8, <1>9, RequestMoves, RequestStays, Zenon
<1>11. RequestOK(Allocating(x, "link"), handles)
  BY <1>8, <1>9, RequestMoves, RequestStays, Zenon
<1>12. RequestOK(call', handles)
  BY <1>4, <1>7, <1>10, <1>11
<1> QED
  BY <1>12, StartRanges DEF renameBelowFile

(* write, truncate, flush and close.                                        *)
LEMMA FileCallRanges ==
  ASSUME IInv, Ranges, NEW h \in Handles, IsOpen(h), NEW op, NEW n \in Nat,
         n <= MaxLength, op = "write" => handles[h].offset + n <= MaxLength,
         UNCHANGED <<data, info, fsInfo, mounted, handles, leaked, faults>>,
         \/ \E label : call' = [BeginFile(op, h, n) EXCEPT !.at = label]
         \/ \E first, next : call' = Freeing(BeginFile(op, h, n), first, next)
  PROVE  Ranges'
<1>1. PICK c : c = BeginFile(op, h, n)
  OBVIOUS
<1>2. CallForm(c) /\ Is(c, op, "idle", "idle", h, n, 0, 0, Nowhere, NoEntry, NoEntry)
  BY <1>1, Parts, FileCallBegins
<1>3. RequestOK(c, handles)
  BY <1>2, EntrySizes DEF Is, RequestOK
<1>4. ASSUME NEW label PROVE RequestOK([c EXCEPT !.at = label], handles)
  BY <1>2, <1>3, RequestMoves, RequestStays, Zenon
<1>5. ASSUME NEW first, NEW next PROVE RequestOK(Freeing(c, first, next), handles)
  BY <1>2, <1>3, RequestMoves, RequestStays, Zenon
<1>6. RequestOK(call', handles)
  BY <1>1, <1>4, <1>5
<1> QED
  BY <1>6, StartRanges

(* seek, read and a close without a write: between calls.                   *)
LEMMA AtRestRanges ==
  ASSUME IInv, Ranges, call' = Idle, NEW file, LengthOK(file), NEW h,
         handles' = [handles EXCEPT ![h] = file],
         leaked' \subseteq Cluster, UNCHANGED <<data, info, fsInfo, mounted, faults>>
  PROVE  Ranges'
<1>1. LengthsOK(handles')
  BY Parts, RangeParts, HandleIsSet, LengthsSet
<1>2. RequestOK(call', handles')
  BY VolumeAssumption, NoEntryCells DEF Idle, RequestOK
<1> QED
  BY <1>1, <1>2, RangeParts DEF Ranges

(* seek to a mark.                                                          *)
LEMMA OffsetRanges ==
  ASSUME IInv, Ranges, call' = Idle, NEW h \in Handles, IsOpen(h),
         NEW y \in Nat, y <= MaxLength,
         handles' = [handles EXCEPT ![h].offset = y],
         UNCHANGED <<data, info, fsInfo, mounted, leaked, faults>>
  PROVE  Ranges'
<1>1. PICK f, file : f = handles[h] /\ file = [f EXCEPT !.offset = y]
  OBVIOUS
<1>2. FileOK(f) /\ f.ent.size <= MaxLength
  BY <1>1, Parts, RangeParts DEF HandlesOK, IsOpen, LengthsOK
<1>3. FileIs(file, f.slot, f.ent, y, f.dirty)
  BY <1>1, <1>2, FileBecomes, Zenon
<1>4. LengthOK(file)
  BY <1>2, <1>3 DEF FileIs, LengthOK
<1>5. handles' = [handles EXCEPT ![h] = file]
  BY <1>1
<1> QED
  BY <1>4, <1>5, RangeParts, AtRestRanges

(* read asks for no more than the file holds.                               *)
LEMMA ReadRanges ==
  ASSUME IInv, Ranges, NEW h \in Handles, NEW n \in Marks, read(h, n) PROVE Ranges'
<1>1. PICK k \in Got(handles[h], n) : handles' = [handles EXCEPT ![h].offset = @ + k]
  BY DEF read
<1>2. PICK f, y : f = handles[h] /\ y = f.offset + k
  OBVIOUS
<1>3. FileOK(f) /\ f.ent.size <= MaxLength /\ f.offset <= MaxLength
  BY <1>2, Parts, RangeParts DEF HandlesOK, IsOpen, LengthsOK, read
<1>4. f.offset \in Nat /\ f.ent.size \in Nat /\ MaxLength \in Nat
  BY <1>3, VolumeAssumption DEF FileOK, EntOK
<1>5. k \in Nat
  <2>1. k \in 0 .. n
    BY DEF Got
  <2> QED
    BY <2>1, MarksAreNumbers
<1>6. y <= MaxLength
  <2>1. CASE k = 0
    BY <2>1, <1>2, <1>3, <1>4
  <2>2. CASE k # 0
    <3>1. \A j \in f.offset .. f.offset + k - 1 : j < f.ent.size
      BY <1>2 DEF Got
    <3>2. f.offset + k - 1 \in f.offset .. f.offset + k - 1
      BY <2>2, <1>4, <1>5
    <3>3. f.offset + k - 1 < f.ent.size
      BY <3>1, <3>2
    <3> QED
      BY <3>3, <1>2, <1>3, <1>4, <1>5
  <2> QED
    BY <2>1, <2>2
<1>7. handles' = [handles EXCEPT ![h].offset = y] /\ y \in Nat
  BY <1>1, <1>2, <1>4, <1>5
<1> QED
  BY <1>6, <1>7, OffsetRanges DEF read, Client

(* flush and close ask for the size of the handle.                          *)
LEMMA FlushCallRanges ==
  ASSUME IInv, Ranges, NEW h \in Handles, IsOpen(h), NEW op \in {"flush", "close"},
         UNCHANGED <<data, info, fsInfo, mounted, handles, leaked, faults>>,
         call' = [BeginFile(op, h, 0) EXCEPT !.at = "flush"]
  PROVE  Ranges'
<1>1. 0 \in Nat /\ 0 <= MaxLength /\ op # "write"
  BY VolumeAssumption
<1>2. \E label : call' = [BeginFile(op, h, 0) EXCEPT !.at = label]
  OBVIOUS
<1> QED
  BY <1>1, <1>2, FileCallRanges

(* A closed handle holds nothing.                                           *)
LEMMA CloseRanges == ASSUME IInv, Ranges, NEW h \in Handles, close(h) PROVE Ranges'
<1>1. CASE UNCHANGED <<handles, leaked>>
  <2>1. /\ call' = [BeginFile("close", h, 0) EXCEPT !.at = "flush"] \/ call' = call
        /\ UNCHANGED <<data, info, fsInfo, mounted, handles, leaked, faults>>
    BY <1>1 DEF close
  <2>2. CASE call' = call
    BY <2>1, <2>2 DEF Ranges
  <2>3. CASE call' = [BeginFile("close", h, 0) EXCEPT !.at = "flush"]
    BY <2>1, <2>3, FlushCallRanges DEF close
  <2> QED
    BY <2>1, <2>2, <2>3
<1>2. CASE handles' = [handles EXCEPT ![h] = Closed] /\ call' = call
  <2>1. leaked' \subseteq Cluster
    BY RangeParts DEF close, Chain
  <2>2. call' = Idle /\ UNCHANGED <<data, info, fsInfo, mounted, faults>>
    BY <1>2 DEF close, Client
  <2>3. LengthOK(Closed)
    BY DEF LengthOK
  <2> QED
    BY <1>2, <2>1, <2>2, <2>3, AtRestRanges
<1> QED
  BY <1>1, <1>2 DEF close

(* mount, unmount and the loss of power.                                    *)
LEMMA MountRanges == ASSUME IInv, Ranges, mount \/ unmount \/ PowerLoss PROVE Ranges'
<1>1. CountersOK(NoInfo)
  BY ClustersCounted DEF CountersOK, NoInfo, Unknown, rootCluster
<1>2. CASE mount
  <2>1. PICK ok \in Outcomes : Count(ok) /\ fsInfo' = IF ok THEN info ELSE NoInfo
    BY <1>2 DEF mount
  <2> QED
    BY <1>1, <1>2, <2>1, RangeParts, FaultsCounted DEF mount, Ranges
<1>3. CASE unmount
  <2>1. PICK ok \in Outcomes : Count(ok) /\ info' \in {info, fsInfo}
    BY <1>3 DEF unmount, writeInfo
  <2> QED
    BY <1>3, <2>1, RangeParts, FaultsCounted DEF unmount, Ranges
<1>4. CASE PowerLoss
  <2>1. faults' \in 0 .. MaxFaults
    BY <1>4, RangeParts, VolumeAssumption DEF PowerLoss, Count
  <2>2. LengthsOK(handles')
    BY <1>4 DEF PowerLoss, LengthsOK
  <2>3. \A files : RequestOK(Idle, files)
    BY VolumeAssumption, NoEntryCells DEF Idle, RequestOK
  <2>4. /\ mounted' = FALSE /\ call' = Idle
        /\ UNCHANGED <<data, info, fsInfo, leaked>>
    BY <1>4 DEF PowerLoss
  <2>5. RequestOK(call', handles')
    BY <2>3, <2>4
  <2> QED
    BY <2>1, <2>2, <2>4, <2>5, RangeParts DEF Ranges
<1> QED
  BY <1>2, <1>3, <1>4

-----------------------------------------------------------------------------

(* A volume is made in range.                                               *)
LEMMA InitialRanges == Init => Ranges
<1> SUFFICES ASSUME Init PROVE Ranges
  OBVIOUS
<1>1. PICK dirs \in {<<>>} \cup DirPaths : Volume(dirs)
  BY DEF Init
<1>2. PICK n : n = Len(dirs)
  OBVIOUS
<1>3. n \in 0 .. 1
  BY <1>1, <1>2, VolumeAssumption
<1>4. totalClusters \in Nat /\ totalClusters >= 2 /\ rootCluster \in Cluster
  BY ClustersCounted
<1>5. SizesOK(data)
  <2>1. data = [c \in Cluster |->
           IF c = rootCluster
           THEN [i \in 1 .. ClusterSize |->
                   IF i <= n THEN Entry(dirs[i], TRUE, i + 2, 0) ELSE Zero]
           ELSE IF c - 2 <= n THEN DotCells(c, rootCluster)
           ELSE ZeroCells]
    BY <1>1, <1>2 DEF Volume
  <2>2. \A name, dir, first : Sized(Entry(name, dir, first, 0))
    BY EntrySizes DEF Sized
  <2>3. Sized(Zero)
    BY DEF Sized, Zero
  <2>4. \A i \in 1 .. ClusterSize : Sized(ZeroCells[i])
    BY <2>3 DEF ZeroCells
  <2>5. ASSUME NEW c \in Cluster, NEW i \in 1 .. ClusterSize
        PROVE  Sized(DotCells(c, rootCluster)[i])
    <3>1. DotCells(c, rootCluster)[i] \in
            {Zero, Entry(".", TRUE, c, 0), Entry("..", TRUE, rootCluster, 0)}
      BY DEF DotCells, ZeroCells
    <3> QED
      BY <3>1, <2>2, <2>3
  <2>6. ASSUME NEW i \in 1 .. ClusterSize, NEW row,
               row = [j \in 1 .. ClusterSize |->
                        IF j <= n THEN Entry(dirs[j], TRUE, j + 2, 0) ELSE Zero]
        PROVE  Sized(row[i])
    <3>1. row[i] = Entry(dirs[i], TRUE, i + 2, 0) \/ row[i] = Zero
      BY <2>6
    <3> QED
      BY <3>1, <2>2, <2>3
  <2>7. ASSUME NEW c \in Cluster, NEW i \in 1 .. ClusterSize PROVE Sized(data[c][i])
    BY <2>1, <2>4, <2>5, <2>6
  <2> QED
    BY <2>7 DEF SizesOK
<1>6. CountersOK(info)
  <2>1. totalClusters - 1 - n \in Nat
    BY <1>3, <1>4
  <2> QED
    BY <1>1, <1>2, <1>4, <2>1 DEF Volume, CountersOK
<1>7. CountersOK(NoInfo)
  BY ClustersCounted DEF CountersOK, NoInfo, Unknown, rootCluster
<1>8. LengthsOK(handles)
  BY DEF Init, LengthsOK
<1>9. RequestOK(call, handles)
  BY VolumeAssumption, NoEntryCells DEF Init, Idle, RequestOK
<1>10. mounted \in BOOLEAN
  <2>1. mounted = FALSE
    BY DEF Init
  <2> QED
    BY <2>1
<1>11. leaked \subseteq Cluster
  <2>1. leaked = {}
    BY DEF Init
  <2> QED
    BY <2>1
<1>12. faults \in 0 .. MaxFaults
  <2>1. faults = 0 /\ MaxFaults \in Nat
    BY VolumeAssumption DEF Init
  <2> QED
    BY <2>1
<1>13. CountersOK(fsInfo)
  <2>1. fsInfo = NoInfo
    BY DEF Init
  <2> QED
    BY <1>7, <2>1
<1> QED
  BY <1>5, <1>6, <1>8, <1>9, <1>10, <1>11, <1>12, <1>13 DEF Ranges

(* Each step of a call stays in range.                                      *)
LEMMA StepRanges == ASSUME IInv, Ranges, Step PROVE Ranges'
<1>1. CASE AllocateClaim \/ AllocateUndo \/ syncFSInfo \/ freeClusterChain \/ ExtendLink
  BY <1>1, TableStepRanges
<1>2. CASE zeroCluster          BY <1>2, ZeroRanges
<1>3. CASE CreateDots           BY <1>3, DotsRanges
<1>4. CASE CreateEntry          BY <1>4, NewEntryRanges
<1>5. CASE OpenClear            BY <1>5, ClearRanges
<1>6. CASE OpenHandle           BY <1>6, OpenRanges
<1>7. CASE getClusterForOffset  BY <1>7, LocateRanges
<1>8. CASE setFirstCluster      BY <1>8, FirstRanges
<1>9. CASE WriteChunk           BY <1>9, ChunkRanges
<1>10. CASE TruncateCut         BY <1>10, CutRanges
<1>11. CASE TruncateAll         BY <1>11, EmptiedRanges
<1>12. CASE flush               BY <1>12, FlushRanges
<1>13. CASE EraseEntry          BY <1>13, EraseRanges
<1>14. CASE RenameInPlace \/ RenameUpdate  BY <1>14, RenameRanges
<1>15. CASE RenameRollback      BY <1>15, RollbackRanges
<1> QED
  BY <1>1, <1>2, <1>3, <1>4, <1>5, <1>6, <1>7, <1>8, <1>9, <1>10, <1>11, <1>12,
     <1>13, <1>14, <1>15 DEF Step

(* Each step of the driver stays in range.                                  *)
LEMMA InRange == IInv /\ Ranges /\ [Next]_vars => Ranges'
<1> SUFFICES ASSUME IInv, Ranges, [Next]_vars PROVE Ranges'
  OBVIOUS
<1> USE VolumeAssumption
<1>1. CASE Step
  BY <1>1, StepRanges
<1>2. ASSUME NEW p \in FilePaths, createFile(p) PROVE Ranges'
  BY <1>2, CreateRanges DEF createFile
<1>3. ASSUME NEW p \in DirPaths, createDirectory(p) PROVE Ranges'
  BY <1>3, CreateRanges DEF createDirectory
<1>4. ASSUME NEW p \in FilePaths, NEW m \in SUBSET Modes, NEW h \in Handles, open(p, m, h)
      PROVE  Ranges'
  BY <1>4, OpensRanges
<1>5. ASSUME NEW p \in FilePaths \cup DirPaths, remove(p) PROVE Ranges'
  BY <1>5, RemoveRanges
<1>6. ASSUME NEW p, NEW q, rename(p, q) PROVE Ranges'
  BY <1>6, RenamesRanges
<1>16. ASSUME NEW p, NEW q, renameBelowFile(p, q) PROVE Ranges'
  BY <1>16, RenamesBelowRanges
<1>7. \A n \in Marks : n \in Nat /\ n <= MaxLength
  BY MarksAreNumbers
<1>8. ASSUME NEW h \in Handles, NEW n \in Marks, write(h, n) PROVE Ranges'
  <2>1. /\ IsOpen(h) /\ n \in Nat /\ n <= MaxLength
        /\ "write" = "write" => handles[h].offset + n <= MaxLength
        /\ UNCHANGED <<data, info, fsInfo, mounted, handles, leaked, faults>>
    BY <1>7, <1>8 DEF write
  <2>2. \E label : call' = [BeginFile("write", h, n) EXCEPT !.at = label]
    BY <1>8 DEF write
  <2> QED
    BY <2>1, <2>2, FileCallRanges
<1>9. ASSUME NEW h \in Handles, NEW n \in Marks, read(h, n) PROVE Ranges'
  BY <1>9, ReadRanges
<1>10. ASSUME NEW h \in Handles, NEW n \in Marks, truncate(h, n) PROVE Ranges'
  <2>1. /\ IsOpen(h) /\ n \in Nat /\ n <= MaxLength /\ "truncate" # "write"
        /\ UNCHANGED <<data, info, fsInfo, mounted, handles, leaked, faults>>
    BY <1>7, <1>10 DEF truncate
  <2>2. \/ \E label : call' = [BeginFile("truncate", h, n) EXCEPT !.at = label]
        \/ \E first, next : call' = Freeing(BeginFile("truncate", h, n), first, next)
    BY <1>10 DEF truncate
  <2> QED
    BY <2>1, <2>2, FileCallRanges
<1>11. ASSUME NEW h \in Handles, NEW n \in Marks, seek(h, n) PROVE Ranges'
  <2>1. /\ IsOpen(h) /\ call' = Idle /\ handles' = [handles EXCEPT ![h].offset = n]
        /\ UNCHANGED <<data, info, fsInfo, mounted, leaked, faults>>
    BY <1>11 DEF seek, Client
  <2> QED
    BY <2>1, <1>7, OffsetRanges
<1>12. ASSUME NEW h \in Handles, Flush(h) PROVE Ranges'
  BY <1>12, FlushCallRanges DEF Flush
<1>13. ASSUME NEW h \in Handles, close(h) PROVE Ranges'
  BY <1>13, CloseRanges
<1>14. CASE mount \/ unmount \/ PowerLoss
  BY <1>14, MountRanges
<1>15. CASE UNCHANGED vars
  BY <1>15, RangeParts DEF vars, Ranges
<1> QED
  BY <1>1, <1>2, <1>3, <1>4, <1>5, <1>6, <1>8, <1>9, <1>10, <1>11, <1>12,
     <1>13, <1>14, <1>15, <1>16 DEF Next, CarefulNext

(* A call is at a label.                                                    *)
LEMMA Labelled == IInv => call.at \in Label
<1> SUFFICES ASSUME IInv PROVE call.at \in Label
  OBVIOUS
<1>1. InView(call) \in Later
  BY Parts DEF Prepared
<1> QED
  BY <1>1 DEF InView, Later, Label

(* The invariant and the ranges are the type invariant.                     *)
LEMMA Types == IInv /\ Ranges => TypeOK
<1> SUFFICES ASSUME IInv, Ranges PROVE TypeOK
  OBVIOUS
<1>1. \A c \in Cluster : DOMAIN data[c] = 1 .. ClusterSize
  BY Parts DEF DataOK, CellsOK
<1>2. ASSUME NEW i \in {info, fsInfo}
      PROVE  i.freeClusterCount \in {Unknown} \cup Nat /\ i.nextFreeCluster \in Cluster
  BY RangeParts DEF CountersOK
<1>3. ASSUME NEW h \in Handles, IsOpen(h)
      PROVE  /\ handles[h].slot \in Cluster \X (1 .. ClusterSize)
             /\ handles[h].offset \in 0 .. MaxLength
             /\ handles[h].ent.size \in 0 .. MaxLength
  <2>1. FileOK(handles[h]) /\ LengthOK(handles[h])
    BY <1>3, Parts, RangeParts DEF HandlesOK, LengthsOK, LengthOK, IsOpen
  <2>2. handles[h].offset \in Nat /\ handles[h].ent.size \in Nat /\ MaxLength \in Nat
    BY <2>1, VolumeAssumption DEF FileOK, EntOK
  <2> QED
    BY <1>3, <2>1, <2>2 DEF FileOK, SlotOK, LengthOK, IsOpen
<1> QED
  BY <1>1, <1>2, <1>3, Parts, RangeParts, Labelled DEF TypeOK, FatOK

(* Whichever write fails and wherever the power goes, the table, the cells, *)
(* the handles, the call and the counters of FSInfo keep their types: a     *)
(* handle's slot is a cell of the volume, and no size or offset passes      *)
(* MaxLength.                                                               *)
THEOREM TypeCorrect == Spec => []TypeOK
<1>1. IInv /\ Ranges => TypeOK
  BY Types
<1>2. IInv /\ Ranges /\ [Next]_vars => IInv' /\ Ranges'
  BY Inductive, InRange
<1> QED
  BY <1>1, <1>2, Initial, InitialRanges, PTL DEF Spec

-----------------------------------------------------------------------------
(* Volumes labelled with an owner and a place for every cluster *)

(* Owners: a slot owns the chain of its entry, Nowhere that of the root.    *)
(* Mine is the call in progress, which owns a cluster that nothing names    *)
(* yet; Lost owns the clusters in use that nothing names any more; NoOwner  *)
(* the free ones.                                                           *)
Mine == <<0, 1>>
Lost == <<0, 2>>
NoOwner == <<0, 3>>

(* The names of the two entries that every directory starts with.           *)
Dots == {".", ".."}

(* A slot is a cell of the volume; In is what it holds.                     *)
SlotSet == Cluster \X (1 .. ClusterSize)
In(cells, s) == cells[s[1]][s[2]]

(* A slot with an entry, of a directory or of a file.                       *)
Live(cells, s) ==
  s \in SlotSet /\ In(cells, s).kind = "entry" /\ In(cells, s).name \notin Dots
IsDirectory(cells, o) == o = Nowhere \/ (Live(cells, o) /\ In(cells, o).dir)
IsFile(cells, o) == Live(cells, o) /\ ~In(cells, o).dir

(* The cells with x in slot s.                                              *)
Put(cells, s, x) ==
  [c \in Cluster |-> [i \in 1 .. ClusterSize |->
     IF c = s[1] /\ i = s[2] THEN x ELSE cells[c][i]]]

(* What handles know of files.  While a truncate is in progress the handle  *)
(* already has its new size, and no cluster if nothing is to remain.        *)
Opened(slot, first, size) == [slot |-> slot, first |-> first, size |-> size]
View(files, c) ==
  [h \in Handles |->
     IF files[h] = Closed THEN Closed
     ELSE IF h = c.handle /\ InView(c) = "emptied" THEN Opened(files[h].slot, 0, 0)
     ELSE IF h = c.handle /\ InView(c) = "cut"
     THEN Opened(files[h].slot, files[h].ent.firstCluster, c.n)
     ELSE Opened(files[h].slot, files[h].ent.firstCluster, files[h].ent.size)]

(* The table and the cells as they will be once the call has written what it*)
(* owes the disk: the end of a chain that is cut short, the size and first  *)
(* cluster of a file, the old entry of a rename.                            *)
TableDue(g, c) ==
  IF InView(c) = "cut" THEN [g EXCEPT ![c.head] = EndOfChain] ELSE g
CellsDue(cells, view, c) ==
  IF InView(c) = "clear" THEN Put(cells, c.slot, Resized(In(cells, c.slot), 0, 0))
  ELSE IF InView(c) \in {"cut", "emptied", "flush"}
  THEN LET f == view[c.handle]
       IN  Put(cells, f.slot, Resized(In(cells, f.slot), f.first, f.size))
  ELSE IF c.at = "erase" /\ c.op = "rename" THEN Put(cells, c.old, Deleted)
  ELSE cells

(* The cluster that the call owns, or 0.                                    *)
Private(c) ==
  IF c.at \in {"zero", "free", "link", "dots", "first"}
     \/ (c.at = "sync" /\ c.next \in {"link", "dots", "first"}) THEN c.cluster
  ELSE IF c.at = "entry" THEN c.ent.firstCluster ELSE 0


(* A handle is open on a slot; nobody has the slot open.                    *)
Opens(view, h, s) == view[h] # Closed /\ view[h].slot = s
Unused(view, s) == \A h \in Handles : ~Opens(view, h, s)

(* The labels follow the table: free clusters have no owner; a link leads to*)
(* the next place of the same owner; an owner has one cluster at a place;   *)
(* and but for the first each is linked to by one of the same owner.        *)
Labels(own, pos, g) ==
  /\ \A c \in Cluster : pos[c] \in Nat
  /\ \A c \in Cluster : own[c] = NoOwner <=> g[c] = FreeCluster
  /\ \A c \in Cluster : own[c] # NoOwner =>
       \/ g[c] = EndOfChain
       \/ g[c] \in Cluster /\ own[g[c]] = own[c] /\ pos[g[c]] = pos[c] + 1
  /\ \A c, d \in Cluster :
       own[c] \notin {NoOwner, Lost} /\ own[d] = own[c] /\ pos[d] = pos[c] => c = d
  /\ \A c \in Cluster : own[c] \notin {NoOwner, Lost} /\ pos[c] # 0 =>
       \E d \in Cluster : own[d] = own[c] /\ g[d] = c

(* The first cluster of an owner.                                           *)
HeadOf(own, pos, o, k) == k \in Cluster /\ own[k] = o /\ pos[k] = 0

(* Those who may own clusters.                                              *)
HasChain(cells, view, m, o) ==
  \/ o = Nowhere
  \/ o = Mine /\ m # 0
  \/ /\ Live(cells, o)
     /\ \/ In(cells, o).firstCluster # 0
        \/ \E h \in Handles : Opens(view, h, o) /\ view[h].first # 0

(* A file is no longer than the chain of its owner.                         *)
Fits(own, pos, o, first, size) ==
  size # 0 => first # 0 /\ \E c \in Cluster : own[c] = o /\ pos[c] = (size - 1) \div ClusterSize

(* Who owns clusters has a chain; the root and the cluster of the call are  *)
(* first clusters.                                                          *)
Names(own, pos, cells, view, m) ==
  /\ \A c \in Cluster : own[c] \in {NoOwner, Lost} \/ HasChain(cells, view, m, own[c])
  /\ HeadOf(own, pos, Nowhere, rootCluster)
  /\ m # 0 => HeadOf(own, pos, Mine, m)

(* An entry stands in a directory and names the chain of its slot; only the *)
(* root has directories, and they have a cluster.                           *)
EntryHolds(own, pos, cells, s, e) ==
  /\ IsDirectory(cells, own[s[1]])
  /\ e.firstCluster # 0 => HeadOf(own, pos, s, e.firstCluster)
  /\ e.dir => own[s[1]] = Nowhere /\ e.firstCluster # 0 /\ e.size = 0
  /\ Fits(own, pos, s, e.firstCluster, e.size)

(* All entries of the volume.                                               *)
EntriesHold(own, pos, cells) ==
  \A s \in SlotSet : Live(cells, s) => EntryHolds(own, pos, cells, s, In(cells, s))

(* An open file is a file of the volume, whose entry has no cluster yet or  *)
(* the same one, and the file fits its chain.                               *)
FileHolds(own, pos, cells, f) ==
  /\ IsFile(cells, f.slot)
  /\ f.first # 0 => HeadOf(own, pos, f.slot, f.first)
  /\ In(cells, f.slot).firstCluster \in {0, f.first}
  /\ Fits(own, pos, f.slot, f.first, f.size)

(* All open files, and no two handles on one of them.                       *)
FilesHold(own, pos, cells, view) ==
  \A h \in Handles : view[h] # Closed =>
    /\ FileHolds(own, pos, cells, view[h])
    /\ \A k \in Handles : Opens(view, k, view[h].slot) => k = h

(* The order of the slots of a directory: by place in its chain, then in the*)
(* cluster.                                                                 *)
Before(n, i, k, j) == n < k \/ (n = k /\ i < j)

(* A directory holds entries, deleted ones and, after the first cell that   *)
(* was never used, nothing else.                                            *)
DirectoriesHold(own, pos, cells) ==
  \A c \in Cluster : IsDirectory(cells, own[c]) =>
    \A i \in 1 .. ClusterSize :
      /\ cells[c][i] \in {Zero, Deleted} \/ cells[c][i].kind = "entry"
      /\ cells[c][i] = Zero =>
           \A d \in Cluster, j \in 1 .. ClusterSize :
              own[d] = own[c] /\ Before(pos[c], i, pos[d], j) => cells[d][j] = Zero

(* A file holds units written for their place.                              *)
UnitsHold(own, pos, cells) ==
  \A c \in Cluster : IsFile(cells, own[c]) =>
    \A i \in 1 .. ClusterSize : cells[c][i] \in {Zero, Unit(ClusterSize * pos[c] + i - 1)}

(* The lost clusters.                                                       *)
LeaksHold(own, leak) == \A c \in Cluster : own[c] = Lost <=> c \in leak

(* A sound volume, as labelled.                                             *)
Vol(own, pos, g, cells, view, m, leak) ==
  /\ Labels(own, pos, g)
  /\ Names(own, pos, cells, view, m)
  /\ EntriesHold(own, pos, cells)
  /\ FilesHold(own, pos, cells, view)
  /\ DirectoriesHold(own, pos, cells)
  /\ UnitsHold(own, pos, cells)
  /\ LeaksHold(own, leak)

(* A directory, by its first cluster.                                       *)
DirHead(own, pos, cells, d) ==
  d \in Cluster /\ pos[d] = 0 /\ IsDirectory(cells, own[d])

(* A directory without a slot to use again; and a slot for a new entry,     *)
(* which leaves no gap before it.                                           *)
NoReuse(own, cells, d) ==
  \A c \in Cluster, i \in 1 .. ClusterSize : own[c] = own[d] => cells[c][i].kind = "entry"
SlotReady(own, pos, cells, d, s) ==
  /\ s \in SlotSet /\ own[s[1]] = own[d]
  /\ In(cells, s) \in {Zero, Deleted}
  /\ \A c \in Cluster, i \in 1 .. ClusterSize :
       own[c] = own[d] /\ Before(pos[c], i, pos[s[1]], s[2]) => cells[c][i] # Zero

(* An entry on the way into a directory.                                    *)
NewEntry(own, pos, cells, view, c) ==
  /\ DirHead(own, pos, cells, c.head)
  /\ c.ent.kind = "entry" /\ c.ent.name \notin Dots /\ c.ent.size = 0
  /\ c.ent.dir => c.head = rootCluster
  /\ c.op \in {"createFile", "createDirectory", "open", "rename"}
  /\ c.op \in {"open", "rename"} => ~c.ent.dir
  /\ c.op = "open" => view[c.handle] = Closed
  /\ c.op = "rename" =>
       IsFile(cells, c.old) /\ c.was = In(cells, c.old) /\ Unused(view, c.old)

(* The calls that allocate for an open file.                                *)
Writes(c) == c.op \in {"write", "truncate"}

(* What the stages of a call owe to each other. *)
StageHolds(g, cells, files, c) ==
  LET m == Private(c) IN
  /\ c.at \in {"zero", "sync", "link", "dots", "first", "entry"} /\ m # 0 => g[m] = EndOfChain
  /\ InView(c) \in {"link", "first"} /\ c.at \in {"sync", "link", "first"} =>
       cells[c.cluster] = ZeroCells
  /\ c.at = "entry" =>
       IF c.ent.dir
       THEN m \in Cluster /\ cells[m] = DotCells(m, c.head)
       ELSE m = 0
  /\ c.at = "free" => m \in Cluster
  /\ c.at = "sync" =>
       c.next \in {"idle", "clear", "cut", "emptied", "link", "dots", "first"}
  /\ InView(c) \in {"cut", "emptied", "flush"} =>
       In(cells, files[c.handle].slot).kind = "entry"
  /\ InView(c) = "cut" => g[c.head] # FreeCluster
  /\ InView(c) \notin {"undo", "rollback"}

(* What a call is about, while v is the step it has in view.                *)
RequestHolds(own, pos, cells, view, files, c, v) ==
  LET f == files[c.handle] IN
  /\ v = "link" =>
       IF Writes(c) THEN c.head = f.ent.firstCluster
       ELSE /\ NewEntry(own, pos, cells, view, c) /\ NoReuse(own, cells, c.head)
            /\ c.ent.firstCluster = 0
  /\ v = "dots" => /\ NewEntry(own, pos, cells, view, c) /\ c.ent.dir
                   /\ SlotReady(own, pos, cells, c.head, c.slot)
  /\ v = "entry" => /\ NewEntry(own, pos, cells, view, c)
                    /\ SlotReady(own, pos, cells, c.head, c.slot)
  /\ v \in {"clear", "opened"} =>
       IsFile(cells, c.slot) /\ Unused(view, c.slot) /\ view[c.handle] = Closed
  /\ v = "rename" =>
       /\ Live(cells, c.slot) /\ Unused(view, c.slot)
       /\ c.ent = [In(cells, c.slot) EXCEPT !.name = c.ent.name] /\ c.ent.name \notin Dots
  /\ v = "update" =>
       /\ IsFile(cells, c.slot) /\ IsFile(cells, c.old) /\ c.slot # c.old
       /\ Unused(view, c.slot) /\ Unused(view, c.old)
       /\ In(cells, c.slot).firstCluster = 0
       /\ c.was = In(cells, c.old)
       /\ c.op = "rename"
  /\ v = "erase" /\ c.op # "rename" =>
       /\ c.op = "remove"
       /\ Live(cells, c.slot) /\ Unused(view, c.slot)
       /\ In(cells, c.slot).dir =>
            \A s \in SlotSet : Live(cells, s) => own[s[1]] # c.slot
  /\ v = "erase" /\ c.op = "rename" => c.old \in SlotSet
  /\ v = "first" => f.ent.firstCluster = 0
  /\ v = "chunk" => /\ own[c.cluster] = f.slot
                    /\ pos[c.cluster] = f.offset \div ClusterSize
  /\ v \in {"locate", "link", "first", "chunk"} /\ Writes(c) => c.n # 0
  /\ v = "cut" => /\ c.n # 0 /\ c.head \in Cluster /\ own[c.head] = f.slot
                  /\ pos[c.head] = (c.n - 1) \div ClusterSize

(* A volume with a call in progress: sound once the call has written what it*)
(* owes, with the facts its next steps need.                                *)
Held(own, pos, g, cells, files, c, leak) ==
  LET view == View(files, c)
      due == CellsDue(cells, view, c)
  IN  /\ Vol(own, pos, TableDue(g, c), due, view, Private(c), leak)
      /\ StageHolds(g, cells, files, c)
      /\ RequestHolds(own, pos, due, view, files, c, InView(c))

(* What handles know when nothing is in progress.                           *)
Rest(files) ==
  [h \in Handles |->
     IF files[h] = Closed THEN Closed
     ELSE Opened(files[h].slot, files[h].ent.firstCluster, files[h].ent.size)]


-----------------------------------------------------------------------------
(* Labels and walks *)

(* The owners that are no slots.                                            *)
Tag == {Nowhere, Mine, Lost, NoOwner}

(* The owners that are no slots are told apart from those that are.         *)
LEMMA Tags ==
  /\ Nowhere # Mine /\ Nowhere # Lost /\ Nowhere # NoOwner
  /\ Mine # Lost /\ Mine # NoOwner /\ Lost # NoOwner
  /\ Tag \cap SlotSet = {}
  /\ \A s \in SlotSet : SlotOK(s) /\ s[1] \in Cluster /\ s[2] \in 1 .. ClusterSize
<1>1. 0 \notin Cluster
  BY ClustersCounted
<1>2. \A s \in SlotSet : SlotOK(s) /\ s[1] \in Cluster /\ s[2] \in 1 .. ClusterSize
  BY DEF SlotSet, SlotOK
<1>3. \A s \in Tag : s[1] = 0
  BY DEF Tag, Nowhere, Mine, Lost, NoOwner
<1> QED
  BY <1>1, <1>2, <1>3 DEF Nowhere, Mine, Lost, NoOwner

(* What a walk meets has the labels it should.                              *)
LEMMA WalkIsLabelled ==
  ASSUME NEW own, NEW pos, NEW g, Labels(own, pos, g), NEW o, o \notin {NoOwner, Lost},
         NEW k, HeadOf(own, pos, o, k)
  PROVE  \A n \in Nat :
           \/ Walk(g, k, n) = EndOfChain
           \/ /\ Walk(g, k, n) \in Cluster
              /\ own[Walk(g, k, n)] = o /\ pos[Walk(g, k, n)] = n
<1> DEFINE Good(x, n) == x = EndOfChain \/ (x \in Cluster /\ own[x] = o /\ pos[x] = n)
           S == {n \in Nat : Good(Walk(g, k, n), n)}
<1>1. 0 \in S
  BY WalkNext DEF HeadOf
<1>2. ASSUME NEW n \in Nat, n \in S PROVE n + 1 \in S
  <2>1. PICK x, y : x = Walk(g, k, n) /\ y = Walk(g, k, n + 1)
    OBVIOUS
  <2>2. y = Follow(g, x) /\ Good(x, n)
    BY <2>1, <1>2, WalkNext
  <2>3. EndOfChain \notin Cluster
    BY ClustersCounted DEF EndOfChain
  <2>4. Good(y, n + 1)
    <3>1. CASE x = EndOfChain
      BY <3>1, <2>2, <2>3 DEF Follow
    <3>2. CASE x \in Cluster /\ own[x] = o /\ pos[x] = n
      BY <3>2, <2>2 DEF Follow, Labels
    <3> QED
      BY <3>1, <3>2, <2>2
  <2> QED
    BY <2>1, <2>4
<1> HIDE DEF S
<1>3. Nat \subseteq S
  BY <1>1, <1>2, SetInduction
<1> QED
  BY <1>3 DEF S

(* And it meets every cluster of its owner, where the label says.           *)
LEMMA LabelIsWalked ==
  ASSUME NEW own, NEW pos, NEW g, Labels(own, pos, g), NEW o, o \notin {NoOwner, Lost},
         NEW k, HeadOf(own, pos, o, k)
  PROVE  \A c \in Cluster : own[c] = o => Walk(g, k, pos[c]) = c
<1> DEFINE S == {n \in Nat : \A c \in Cluster :
                               own[c] = o /\ pos[c] = n => Walk(g, k, n) = c}
<1>1. 0 \in S
  BY WalkNext DEF HeadOf, Labels
<1>2. ASSUME NEW n \in Nat, n \in S PROVE n + 1 \in S
  <2> SUFFICES ASSUME NEW c \in Cluster, own[c] = o, pos[c] = n + 1
               PROVE  Walk(g, k, n + 1) = c
    OBVIOUS
  <2>1. PICK d \in Cluster : own[d] = o /\ g[d] = c
    BY DEF Labels
  <2>2. pos[c] = pos[d] + 1 /\ pos[d] \in Nat
    <3>1. own[d] # NoOwner /\ g[d] # EndOfChain
      BY <2>1, ClustersCounted DEF EndOfChain
    <3> QED
      BY <3>1, <2>1 DEF Labels
  <2>3. pos[d] = n
    BY <2>2
  <2>4. Walk(g, k, n) = d
    BY <2>1, <2>3, <1>2
  <2> QED
    BY <2>1, <2>4, WalkNext DEF Follow
<1> HIDE DEF S
<1>3. Nat \subseteq S
  BY <1>1, <1>2, SetInduction
<1> QED
  BY <1>3 DEF S, Labels

(* A chain is the clusters of its owner, and ends as it should.             *)
LEMMA ChainIsOwned ==
  ASSUME NEW own, NEW pos, NEW g, Labels(own, pos, g), EndsEverywhere(g),
         NEW o, o \notin {NoOwner, Lost}, NEW k, HeadOf(own, pos, o, k)
  PROVE  /\ ChainOf(g, k) = {c \in Cluster : own[c] = o}
         /\ Walk(g, k, totalClusters) = EndOfChain
         /\ \A n \in Nat : Walk(g, k, n) \in Cluster => n < totalClusters
<1> DEFINE T == totalClusters
<1>0. T \in Nat
  BY ClustersCounted
<1> HIDE DEF T
<1>1. \A n \in Nat :
           \/ Walk(g, k, n) = EndOfChain
           \/ /\ Walk(g, k, n) \in Cluster
              /\ own[Walk(g, k, n)] = o /\ pos[Walk(g, k, n)] = n
  BY WalkIsLabelled
<1>2. \A n \in Nat : n >= T => Walk(g, k, n) \notin Cluster
  BY AnyWalkEnds DEF T
<1>3. \A n \in Nat : Walk(g, k, n) \in Cluster => n < T
  BY <1>0, <1>2
<1>4. Walk(g, k, T) = EndOfChain
  BY <1>0, <1>1, <1>2
<1>5. ASSUME NEW c \in Cluster, own[c] = o PROVE c \in ChainOf(g, k)
  <2>1. Walk(g, k, pos[c]) = c /\ pos[c] \in Nat
    BY <1>5, LabelIsWalked DEF Labels
  <2>2. pos[c] \in 0 .. T - 1
    BY <2>1, <1>0, <1>3
  <2> QED
    BY <2>1, <2>2 DEF ChainOf, T
<1>6. ASSUME NEW c \in ChainOf(g, k) PROVE c \in Cluster /\ own[c] = o
  <2>1. c \in Cluster /\ EndOfChain \notin Cluster
    BY ClustersCounted DEF ChainOf, EndOfChain
  <2>2. PICK n \in 0 .. T - 1 : c = Walk(g, k, n)
    BY DEF ChainOf, T
  <2>3. n \in Nat
    BY <1>0
  <2> QED
    BY <2>1, <2>2, <2>3, <1>1
<1> QED
  BY <1>3, <1>4, <1>5, <1>6 DEF T

(* A chain has a place for every cluster of its owner.                      *)
LEMMA ChainLength ==
  ASSUME NEW own, NEW pos, NEW g, Labels(own, pos, g), EndsEverywhere(g),
         NEW o, o \notin {NoOwner, Lost}, NEW k, HeadOf(own, pos, o, k)
  PROVE  /\ Cardinality(ChainOf(g, k)) \in Nat
         /\ \A n \in Nat : n < Cardinality(ChainOf(g, k)) <=>
              \E c \in Cluster : own[c] = o /\ pos[c] = n
<1> DEFINE C == ChainOf(g, k)
           N == Cardinality(C)
<1>1. IsFiniteSet(C) /\ N \in Nat
  <2>1. C \in SUBSET Cluster
    BY DEF ChainOf
  <2>2. IsFiniteSet(C)
    BY <2>1, ClustersCounted, FS_Subset
  <2> QED
    BY <2>2, FS_CardinalityType
<1>2. \A n \in Nat :
           \/ Walk(g, k, n) = EndOfChain
           \/ /\ Walk(g, k, n) \in Cluster
              /\ own[Walk(g, k, n)] = o /\ pos[Walk(g, k, n)] = n
  BY WalkIsLabelled
<1>3. EndOfChain \notin Cluster
  BY ClustersCounted DEF EndOfChain
<1>4. ASSUME NEW n \in Nat, n < N PROVE \E c \in Cluster : own[c] = o /\ pos[c] = n
  <2>1. Walk(g, k, n) \in Cluster
    BY <1>4, PlacesLieInChain
  <2> QED
    BY <2>1, <1>2, <1>3
<1>5. ASSUME NEW n \in Nat, NEW c \in Cluster, own[c] = o, pos[c] = n PROVE n < N
  <2>1. Walk(g, k, n) = c
    BY <1>5, LabelIsWalked
  <2>2. \A i \in 0 .. n : Walk(g, k, i) \in Cluster
    <3> SUFFICES ASSUME NEW i \in 0 .. n, Walk(g, k, i) \notin Cluster PROVE FALSE
      OBVIOUS
    <3>1. Walk(g, k, n) = Walk(g, k, i)
      BY MarkStays
    <3> QED
      BY <3>1, <2>1
  <2> DEFINE f == [i \in 0 .. n |-> Walk(g, k, i)]
  <2>3. \A i \in 0 .. n : Walk(g, k, i) \in C /\ pos[Walk(g, k, i)] = i
    <3> TAKE i \in 0 .. n
    <3>1. Walk(g, k, i) \in Cluster /\ i \in Nat
      BY <2>2
    <3>2. own[Walk(g, k, i)] = o /\ pos[Walk(g, k, i)] = i
      BY <3>1, <1>2, <1>3
    <3>3. C = {d \in Cluster : own[d] = o}
      BY ChainIsOwned
    <3> HIDE DEF C
    <3> QED
      BY <3>1, <3>2, <3>3
  <2>4. f \in Injection(0 .. n, C)
    <3> HIDE DEF C, N
    <3>1. f \in [0 .. n -> C]
      BY <2>3
    <3>2. \A i, j \in 0 .. n : f[i] = f[j] => i = j
      <4> TAKE i, j \in 0 .. n
      <4>1. f[i] = Walk(g, k, i) /\ f[j] = Walk(g, k, j)
        OBVIOUS
      <4> QED
        BY <4>1, <2>3
    <3> HIDE DEF f
    <3> QED
      BY <3>1, <3>2 DEF Injection, IsInjective
  <2>5. Cardinality(0 .. n) = n + 1
    <3>1. 0 \in Int /\ n \in Int
      OBVIOUS
    <3>2. Cardinality(0 .. n) = IF 0 > n THEN 0 ELSE n - 0 + 1
      BY <3>1, FS_Interval
    <3> QED
      BY <3>2
  <2> HIDE DEF f, C, N
  <2>6. Cardinality(0 .. n) <= Cardinality(C)
    BY <2>4, <1>1, FS_Injection
  <2> QED
    BY <2>5, <2>6, <1>1 DEF N
<1> QED
  BY <1>1, <1>4, <1>5

(* The last cluster of a chain is the one furthest from its head.           *)
LEMMA LastIsFurthest ==
  ASSUME NEW own, NEW pos, NEW g, Labels(own, pos, g), NEW o, o \notin {NoOwner, Lost},
         NEW k, HeadOf(own, pos, o, k),
         NEW d \in Cluster, own[d] = o, g[d] = EndOfChain
  PROVE  \A c \in Cluster : own[c] = o => pos[c] <= pos[d]
<1> SUFFICES ASSUME NEW c \in Cluster, own[c] = o, ~(pos[c] <= pos[d]) PROVE FALSE
  OBVIOUS
<1>1. pos[c] \in Nat /\ pos[d] \in Nat /\ pos[d] + 1 <= pos[c]
  BY DEF Labels
<1>2. Walk(g, k, pos[c]) = c /\ Walk(g, k, pos[d]) = d
  BY LabelIsWalked
<1>3. Walk(g, k, pos[d] + 1) = EndOfChain
  <2>1. Walk(g, k, pos[d] + 1) = Follow(g, Walk(g, k, pos[d]))
    BY <1>1, WalkNext
  <2> QED
    BY <2>1, <1>2 DEF Follow
<1>4. EndOfChain \notin Cluster
  BY ClustersCounted DEF EndOfChain
<1>5. Walk(g, k, pos[c]) = EndOfChain
  <2>1. pos[d] + 1 \in Nat
    BY <1>1
  <2> QED
    BY <2>1, <1>1, <1>3, <1>4, MarkStays
<1> QED
  BY <1>2, <1>4, <1>5

(* Positions of slots, and their order.                                     *)
LEMMA PlaceOrder ==
  ASSUME NEW a \in Nat, NEW b \in Nat,
         NEW i \in 1 .. ClusterSize, NEW j \in 1 .. ClusterSize
  PROVE  /\ ClusterSize * a + i - 1 < ClusterSize * b + j - 1 <=> Before(a, i, b, j)
         /\ ClusterSize * a + i - 1 \in Nat
<1>1. ClusterSize \in Nat /\ ClusterSize >= 2
  BY VolumeAssumption
<1>2. PICK s \in Nat : s = ClusterSize
  BY <1>1
<1>3. ASSUME NEW x \in Nat, NEW y \in Nat, x < y PROVE s * x + s <= s * y
  <2>1. y - x - 1 \in Nat /\ y = x + 1 + (y - x - 1)
    BY <1>3
  <2>2. PICK d \in Nat : y = x + 1 + d
    BY <2>1
  <2>3. s * y = s * x + s + s * d
    BY <2>2
  <2>4. s * d \in Nat /\ s * x \in Nat
    OBVIOUS
  <2> QED
    BY <2>3, <2>4
<1>4. PICK p \in Nat, q \in Nat : p = s * a /\ q = s * b
  OBVIOUS
<1>5. (a < b => p + s <= q) /\ (b < a => q + s <= p) /\ (a = b => p = q)
  BY <1>3, <1>4
<1>6. i \in 1 .. s /\ j \in 1 .. s
  BY <1>2
<1>7. p + i - 1 < q + j - 1 <=> Before(a, i, b, j)
  BY <1>5, <1>6 DEF Before
<1> QED
  BY <1>2, <1>4, <1>6, <1>7

(* A position is a cluster of the chain and a cell in it.                   *)
LEMMA PlaceSplits ==
  ASSUME NEW p \in Nat
  PROVE  /\ p \div ClusterSize \in Nat /\ (p % ClusterSize) + 1 \in 1 .. ClusterSize
         /\ p = ClusterSize * (p \div ClusterSize) + ((p % ClusterSize) + 1) - 1
<1>1. ClusterSize \in Nat /\ ClusterSize >= 2
  BY VolumeAssumption
<1>2. PICK s \in Nat : s = ClusterSize /\ s >= 2
  BY <1>1
<1>3. PICK q, r : q = p \div s /\ r = p % s
  OBVIOUS
<1>4. q \in Nat /\ r \in 0 .. s - 1 /\ p = s * q + r
  BY <1>2, <1>3
<1>5. PICK t \in Nat : t = s * q
  BY <1>4
<1>6. r + 1 \in 1 .. s /\ p = t + (r + 1) - 1
  BY <1>4, <1>5
<1>7. p = s * q + (r + 1) - 1 /\ q \in Nat /\ r + 1 \in 1 .. s
  BY <1>4, <1>5, <1>6
<1> QED
  BY <1>2, <1>3, <1>7, Zenon

-----------------------------------------------------------------------------
(* Reading directories *)

(* Where a cell lies in the chain of its owner.                             *)
Rank(pos, s) == ClusterSize * pos[s[1]] + s[2] - 1

(* The positions of a directory are the cells of its clusters.              *)
LEMMA SlotsAreOwned ==
  ASSUME NEW own, NEW pos, Labels(own, pos, fat), EndsEverywhere(fat),
         NEW o, o \notin {NoOwner, Lost}, NEW head, HeadOf(own, pos, o, head)
  PROVE  /\ Slots(head) \subseteq Nat
         /\ \A p \in Slots(head) : \A q \in 0 .. p : q \in Slots(head)
         /\ \A p \in Slots(head) :
              /\ SlotAt(head, p) \in SlotSet /\ own[SlotAt(head, p)[1]] = o
              /\ p = Rank(pos, SlotAt(head, p))
         /\ \A s \in SlotSet : own[s[1]] = o =>
              Rank(pos, s) \in Slots(head) /\ SlotAt(head, Rank(pos, s)) = s
<1> DEFINE N == Cardinality(ChainOf(fat, head))
<1>1. /\ N \in Nat
      /\ \A n \in Nat : n < N <=> \E c \in Cluster : own[c] = o /\ pos[c] = n
  BY ChainLength
<1>2. ClusterSize \in Nat /\ ClusterSize >= 2
  BY VolumeAssumption
<1>3. Slots(head) = 0 .. ClusterSize * N - 1
  BY ChainsWalk DEF Slots
<1>4. \A n \in Nat : Nth(head, n) = Walk(fat, head, n)
  BY NthWalks
<1> HIDE DEF N
<1>5. PICK K \in Nat : K = ClusterSize * N
  BY <1>1, <1>2
<1>6. Slots(head) = {p \in Nat : p < K}
  BY <1>3, <1>5
<1>7. ASSUME NEW p \in Slots(head)
      PROVE  /\ SlotAt(head, p) \in SlotSet /\ own[SlotAt(head, p)[1]] = o
             /\ p = Rank(pos, SlotAt(head, p))
  <2>1. p \in Nat /\ p < ClusterSize * N
    BY <1>5, <1>6
  <2>2. PICK q, i : q = p \div ClusterSize /\ i = (p % ClusterSize) + 1
    OBVIOUS
  <2>3. q \in Nat /\ i \in 1 .. ClusterSize /\ p = ClusterSize * q + i - 1 /\ q < N
    BY <2>1, <2>2, <1>1, PlaceInCluster, PlaceSplits
  <2>4. PICK c \in Cluster : own[c] = o /\ pos[c] = q
    BY <1>1, <2>3
  <2>5. Walk(fat, head, q) = c
    BY <2>4, LabelIsWalked
  <2>6. SlotAt(head, p) = <<c, i>>
    BY <2>2, <2>3, <2>5, <1>4 DEF SlotAt
  <2> QED
    BY <2>3, <2>4, <2>6 DEF SlotSet, Rank
<1>8. ASSUME NEW s \in SlotSet, own[s[1]] = o
      PROVE  Rank(pos, s) \in Slots(head) /\ SlotAt(head, Rank(pos, s)) = s
  <2>1. PICK c \in Cluster, i \in 1 .. ClusterSize : s = <<c, i>>
    BY DEF SlotSet
  <2>2. own[c] = o /\ Walk(fat, head, pos[c]) = c /\ pos[c] \in Nat
    BY <2>1, <1>8, LabelIsWalked DEF Labels
  <2>3. PICK a, p : a = pos[c] /\ p = Rank(pos, s)
    OBVIOUS
  <2>4. p = ClusterSize * a + i - 1 /\ a \in Nat /\ p \in Nat
    BY <2>1, <2>2, <2>3, PlaceOrder DEF Rank
  <2>5. p \div ClusterSize = a /\ (p % ClusterSize) + 1 = i
    <3>1. PICK q, r : q = p \div ClusterSize /\ r = (p % ClusterSize) + 1
      OBVIOUS
    <3>2. q \in Nat /\ r \in 1 .. ClusterSize /\ p = ClusterSize * q + r - 1
      BY <3>1, <2>4, PlaceSplits
    <3>3. ~Before(a, i, q, r) /\ ~Before(q, r, a, i)
      <4>1. ~(ClusterSize * a + i - 1 < ClusterSize * q + r - 1)
        BY <3>2, <2>4
      <4>2. ~(ClusterSize * q + r - 1 < ClusterSize * a + i - 1)
        BY <3>2, <2>4
      <4> QED
        BY <4>1, <4>2, <3>2, <2>4, PlaceOrder
    <3>4. q = a /\ r = i
      BY <3>2, <3>3, <2>4, <1>2 DEF Before
    <3> QED
      BY <3>1, <3>4
  <2>6. p < K
    <3>1. a < N
      BY <1>1, <2>2, <2>3, <2>4
    <3>2. PICK s0 \in Nat, t \in Nat : s0 = ClusterSize /\ t = s0 * a
      BY <1>2, <2>4
    <3>3. PICK d \in Nat : N = a + 1 + d
      <4>1. N - a - 1 \in Nat /\ N = a + 1 + (N - a - 1)
        BY <3>1, <2>4, <1>1
      <4> QED
        BY <4>1
    <3>4. K = s0 * a + s0 + s0 * d /\ s0 * d \in Nat
      BY <3>2, <3>3, <1>5, <2>4
    <3> QED
      BY <3>2, <3>4, <2>4
  <2>7. SlotAt(head, p) = <<c, i>>
    BY <2>2, <2>3, <2>4, <2>5, <1>4 DEF SlotAt
  <2> QED
    BY <2>1, <2>3, <2>4, <2>6, <2>7, <1>6
<1> QED
  BY <1>6, <1>7, <1>8

(* The order of positions is that of clusters and cells.                    *)
LEMMA RankOrder ==
  ASSUME NEW pos, \A c \in Cluster : pos[c] \in Nat, NEW s \in SlotSet, NEW t \in SlotSet
  PROVE  Rank(pos, s) < Rank(pos, t) <=> Before(pos[s[1]], s[2], pos[t[1]], t[2])
  BY PlaceOrder DEF Rank, SlotSet

(* readDirectory comes to every cell of a directory that was ever used.     *)
LEMMA DirectoryIsRead ==
  ASSUME NEW own, NEW pos, Labels(own, pos, fat), EndsEverywhere(fat),
         DirectoriesHold(own, pos, data),
         NEW o, IsDirectory(data, o), NEW head, HeadOf(own, pos, o, head)
  PROVE  /\ readDirectory(head) = {s \in SlotSet : own[s[1]] = o /\ Cell(s) # Zero}
         /\ Readable(head)
<1>1. o \notin {NoOwner, Lost}
  BY Tags DEF IsDirectory, Live, Tag
<1>2. /\ Slots(head) \subseteq Nat
      /\ \A p \in Slots(head) :
           /\ SlotAt(head, p) \in SlotSet /\ own[SlotAt(head, p)[1]] = o
           /\ p = Rank(pos, SlotAt(head, p))
      /\ \A s \in SlotSet : own[s[1]] = o =>
           Rank(pos, s) \in Slots(head) /\ SlotAt(head, Rank(pos, s)) = s
  BY <1>1, SlotsAreOwned
<1>3. ASSUME NEW p \in Slots(head), NEW q \in 0 .. p,
             Cell(SlotAt(head, q)) = Zero, q \in Slots(head)
      PROVE  Cell(SlotAt(head, p)) = Zero
  <2>1. PICK s \in SlotSet, t \in SlotSet : s = SlotAt(head, q) /\ t = SlotAt(head, p)
    BY <1>2, <1>3
  <2>2. own[s[1]] = o /\ own[t[1]] = o /\ q = Rank(pos, s) /\ p = Rank(pos, t)
    BY <1>2, <1>3, <2>1
  <2>3. CASE q = p
    BY <2>3, <1>3
  <2>4. CASE q < p
    <3>1. Before(pos[s[1]], s[2], pos[t[1]], t[2])
      BY <2>2, <2>4, RankOrder DEF Labels
    <3>2. PICK c \in Cluster, i \in 1 .. ClusterSize : c = s[1] /\ i = s[2]
      BY Tags
    <3>3. PICK d \in Cluster, j \in 1 .. ClusterSize : d = t[1] /\ j = t[2]
      BY Tags
    <3>4. data[c][i] = Zero
      BY <2>1, <3>2, <1>3 DEF Cell
    <3>5. data[d][j] = Zero
      BY <2>2, <3>1, <3>2, <3>3, <3>4 DEF DirectoriesHold
    <3> QED
      BY <2>1, <3>3, <3>5 DEF Cell
  <2> QED
    BY <2>3, <2>4, <1>2, <1>3
<1>4. \A p \in Slots(head) : \A q \in 0 .. p : q \in Slots(head)
  BY <1>1, SlotsAreOwned
<1>5. \A p \in Slots(head) :
        Cell(SlotAt(head, p)) # Zero => \A q \in 0 .. p : Cell(SlotAt(head, q)) # Zero
  BY <1>3, <1>4
<1>6. \A p \in Slots(head) : p \in 0 .. p
  BY <1>2
<1>7. readDirectory(head) = {SlotAt(head, p) : p \in {p \in Slots(head) : Cell(SlotAt(head, p)) # Zero}}
  BY <1>5, <1>6 DEF readDirectory
<1>8. readDirectory(head) = {s \in SlotSet : own[s[1]] = o /\ Cell(s) # Zero}
  BY <1>2, <1>7
<1>9. EndMark(head) = EndOfChain
  BY <1>1, ChainIsOwned, ChainsWalk
<1> QED
  BY <1>8, <1>9 DEF Readable

(* A cluster that heads a directory's chain.                                *)
LEMMA HeadOfDirectory ==
  ASSUME NEW own, NEW pos, NEW cells, NEW d, DirHead(own, pos, cells, d)
  PROVE  HeadOf(own, pos, own[d], d) /\ own[d] \notin {NoOwner, Lost, Mine}
  BY Tags DEF DirHead, HeadOf, IsDirectory, Live, Tag

(* The root is a directory, and so is what an entry for one names.          *)
LEMMA RootIsDirectory ==
  ASSUME NEW own, NEW pos, NEW cells, NEW view, NEW m, Names(own, pos, cells, view, m)
  PROVE  DirHead(own, pos, cells, rootCluster) /\ own[rootCluster] = Nowhere
  BY DEF Names, HeadOf, DirHead, IsDirectory

(* The entry of a directory names its first cluster.                        *)
LEMMA EntryIsDirectory ==
  ASSUME NEW own, NEW pos, NEW cells, EntriesHold(own, pos, cells),
         NEW s, Live(cells, s), In(cells, s).dir
  PROVE  /\ DirHead(own, pos, cells, In(cells, s).firstCluster)
         /\ own[In(cells, s).firstCluster] = s
  BY DEF EntriesHold, EntryHolds, HeadOf, DirHead, IsDirectory, Live

(* The volume between calls, labelled.                                      *)
AtRest(own, pos, view) ==
  /\ EndsEverywhere(fat)
  /\ Vol(own, pos, fat, data, view, 0, leaked)

(* A lookup finds an entry of the directory.                                *)
LEMMA FoundIsLive ==
  ASSUME NEW own, NEW pos, NEW view, AtRest(own, pos, view),
         NEW d, DirHead(own, pos, data, d), NEW name, name \notin Dots,
         NEW s, s = InDirectory(d, name), s # Nowhere
  PROVE  Live(data, s) /\ own[s[1]] = own[d] /\ In(data, s).name = name
<1>1. s \in Matches(d, name)
  BY DEF InDirectory
<1>2. readDirectory(d) = {t \in SlotSet : own[t[1]] = own[d] /\ Cell(t) # Zero}
  BY HeadOfDirectory, DirectoryIsRead DEF AtRest, Vol, DirHead
<1> QED
  BY <1>1, <1>2 DEF Matches, Live, In, Cell

(* The walk to the parent of a path comes to a directory or to nothing.     *)
LEMMA ParentIsDirectory ==
  ASSUME NEW own, NEW pos, NEW view, AtRest(own, pos, view),
         NEW path \in FilePaths \cup DirPaths
  PROVE  /\ parentOf(path) = 0 \/ DirHead(own, pos, data, parentOf(path))
         /\ Len(path) = 1 => parentOf(path) = rootCluster
<1>1. Len(path) \in 1 .. 2
  BY VolumeAssumption
<1>2. CASE Len(path) = 1
  BY <1>2, RootIsDirectory DEF parentOf, AtRest, Vol
<1>3. CASE Len(path) # 1
  <2>1. path[1] \notin Dots
    BY <1>1, NameAssumption DEF Dots
  <2>2. PICK s : s = InDirectory(rootCluster, path[1])
    OBVIOUS
  <2>3. CASE s # Nowhere /\ Cell(s).dir
    <3>1. Live(data, s)
      BY <2>1, <2>2, <2>3, RootIsDirectory, FoundIsLive DEF AtRest, Vol
    <3>2. parentOf(path) = In(data, s).firstCluster /\ In(data, s).dir
      BY <2>2, <2>3, <1>3 DEF parentOf, In, Cell
    <3> QED
      BY <3>1, <3>2, <1>3, EntryIsDirectory DEF AtRest, Vol
  <2>4. CASE ~(s # Nowhere /\ Cell(s).dir)
    BY <2>2, <2>4, <1>3 DEF parentOf
  <2> QED
    BY <2>3, <2>4
<1> QED
  BY <1>2, <1>3

(* There is nothing in no directory.                                        *)
LEMMA NothingIsNowhere ==
  /\ Slots(0) = {} /\ ~Readable(0) /\ ~CanCreate(0)
  /\ \A name : InDirectory(0, name) = Nowhere
<1>1. 0 \notin Cluster /\ totalClusters \in Nat
  BY ClustersCounted
<1>2. \A n \in Nat : Walk(fat, 0, n) = 0
  <2> TAKE n \in Nat
  <2>1. Walk(fat, 0, 0) = 0
    BY WalkNext
  <2> QED
    BY <2>1, <1>1, MarkStays
<1>3. Chain(0) = {}
  <2>1. \A n \in 0 .. totalClusters - 1 : Walk(fat, 0, n) \notin Cluster
    BY <1>1, <1>2
  <2> QED
    BY <2>1, ChainsWalk DEF ChainOf
<1>4. Slots(0) = {}
  <2>1. Cardinality(Chain(0)) = 0
    BY <1>3, FS_EmptySet
  <2>2. ClusterSize * 0 - 1 = -1
    BY VolumeAssumption
  <2> QED
    BY <2>1, <2>2 DEF Slots
<1>5. EndMark(0) # EndOfChain
  BY <1>1, <1>2, ChainsWalk DEF EndOfChain
<1> QED
  BY <1>4, <1>5 DEF Readable, CanCreate, Reusable, InDirectory

(* A path that is found is an entry of the directory its parent leads to.   *)
LEMMA PathIsLive ==
  ASSUME NEW own, NEW pos, NEW view, AtRest(own, pos, view),
         NEW path \in FilePaths \cup DirPaths, NEW s, s = findEntry(path), s # Nowhere
  PROVE  /\ Live(data, s)
         /\ DirHead(own, pos, data, parentOf(path))
         /\ own[s[1]] = own[parentOf(path)]
<1>1. basenameOf(path) \notin Dots
  <2>1. Len(path) \in 1 .. Len(path)
    BY VolumeAssumption
  <2> QED
    BY <2>1, NameAssumption DEF basenameOf, Dots
<1>2. DirHead(own, pos, data, parentOf(path))
  BY ParentIsDirectory, NothingIsNowhere DEF findEntry
<1> QED
  BY <1>1, <1>2, FoundIsLive DEF findEntry

(* The slot that findFreeDirectoryEntry finds is ready for an entry; if it  *)
(* finds none, all are taken.                                               *)
LEMMA ReusableIsReady ==
  ASSUME NEW own, NEW pos, NEW view, AtRest(own, pos, view),
         NEW d, DirHead(own, pos, data, d)
  PROVE  /\ Reusable(d) # {} => SlotReady(own, pos, data, d, FirstReusable(d))
         /\ Reusable(d) = {} => NoReuse(own, data, d)
<1> DEFINE o == own[d]
<1>0. o \notin {NoOwner, Lost} /\ HeadOf(own, pos, o, d) /\ IsDirectory(data, o)
  BY HeadOfDirectory DEF DirHead
<1>1. /\ Slots(d) \subseteq Nat
      /\ \A p \in Slots(d) :
           /\ SlotAt(d, p) \in SlotSet /\ own[SlotAt(d, p)[1]] = o
           /\ p = Rank(pos, SlotAt(d, p))
      /\ \A s \in SlotSet : own[s[1]] = o =>
           Rank(pos, s) \in Slots(d) /\ SlotAt(d, Rank(pos, s)) = s
  BY <1>0, SlotsAreOwned DEF AtRest, Vol
<1>2. \A s \in SlotSet : own[s[1]] = o =>
        In(data, s) \in {Zero, Deleted} \/ In(data, s).kind = "entry"
  BY <1>0, Tags DEF AtRest, Vol, DirectoriesHold, In
<1>3. \A s : In(data, s) = Cell(s)
  BY DEF In, Cell
<1>4. Zero.kind = "zero" /\ Deleted.kind = "deleted"
  BY DEF Zero, Deleted
<1> HIDE DEF o
<1>5. ASSUME Reusable(d) # {} PROVE SlotReady(own, pos, data, d, FirstReusable(d))
  <2>1. Reusable(d) \subseteq Nat /\ Reusable(d) \subseteq Slots(d)
    BY <1>1 DEF Reusable
  <2>2. \E p \in Reusable(d) : \A q \in Reusable(d) : p <= q
    BY <1>5, <2>1, LeastNumber
  <2>3. PICK p \in Reusable(d) : /\ FirstReusable(d) = SlotAt(d, p)
                                 /\ \A q \in Reusable(d) : p <= q
    BY <2>2 DEF FirstReusable
  <2>4. PICK s : s = SlotAt(d, p)
    OBVIOUS
  <2>5. s \in SlotSet /\ own[s[1]] = o /\ p = Rank(pos, s)
    BY <2>1, <2>3, <2>4, <1>1
  <2>6. In(data, s) \in {Zero, Deleted}
    BY <2>3, <2>4, <2>5, <1>2, <1>3, <1>4 DEF Reusable
  <2>7. ASSUME NEW c \in Cluster, NEW i \in 1 .. ClusterSize, own[c] = o,
               Before(pos[c], i, pos[s[1]], s[2])
        PROVE  data[c][i] # Zero
    <3>1. PICK t : t = <<c, i>>
      OBVIOUS
    <3>2. t \in SlotSet /\ t[1] = c /\ t[2] = i
      BY <3>1 DEF SlotSet
    <3>3. PICK q : q = Rank(pos, t)
      OBVIOUS
    <3>4. q \in Slots(d) /\ SlotAt(d, q) = t /\ q \in Nat /\ p \in Nat
      BY <3>2, <3>3, <2>1, <2>3, <2>7, <1>1
    <3>5. q < p
      BY <3>2, <3>3, <2>5, <2>7, RankOrder DEF AtRest, Vol, Labels
    <3>6. q \notin Reusable(d)
      BY <2>3, <3>4, <3>5
    <3>7. Cell(t).kind \notin {"zero", "deleted"}
      BY <3>4, <3>6 DEF Reusable
    <3> QED
      BY <3>2, <3>7, <1>4 DEF Cell
  <2> QED
    BY <2>3, <2>4, <2>5, <2>6, <2>7 DEF SlotReady, o
<1>6. ASSUME Reusable(d) = {} PROVE NoReuse(own, data, d)
  <2> SUFFICES ASSUME NEW c \in Cluster, NEW i \in 1 .. ClusterSize, own[c] = o
               PROVE  data[c][i].kind = "entry"
    BY DEF NoReuse, o
  <2>1. PICK t : t = <<c, i>>
    OBVIOUS
  <2>2. t \in SlotSet /\ t[1] = c /\ t[2] = i
    BY <2>1 DEF SlotSet
  <2>3. Cell(t).kind \notin {"zero", "deleted"}
    BY <2>2, <1>1, <1>6 DEF Reusable
  <2> QED
    BY <2>2, <2>3, <1>2, <1>3, <1>4 DEF Cell
<1> QED
  BY <1>5, <1>6

-----------------------------------------------------------------------------
(* What the labels say of the volume between calls                          *)

(* The fields of what a handle knows.                                       *)
LEMMA OpenedIs ==
  ASSUME NEW s, NEW x, NEW y
  PROVE  /\ Opened(s, x, y) # Closed /\ Opened(s, x, y).slot = s
         /\ Opened(s, x, y).first = x /\ Opened(s, x, y).size = y
  BY DEF Opened, Closed

(* The entries a directory shows.                                           *)
LEMMA VisibleIsLive ==
  ASSUME NEW own, NEW pos, NEW view, AtRest(own, pos, view),
         NEW d, DirHead(own, pos, data, d)
  PROVE  Visible(d) = {s \in SlotSet : own[s[1]] = own[d] /\ Live(data, s)}
<1>1. readDirectory(d) = {t \in SlotSet : own[t[1]] = own[d] /\ Cell(t) # Zero}
  BY HeadOfDirectory, DirectoryIsRead DEF AtRest, Vol, DirHead
<1>2. Zero.kind # "entry"
  BY DEF Zero
<1> QED
  BY <1>1, <1>2 DEF Visible, Live, Dots, In, Cell

(* Every entry on the disk can be reached from the root.                    *)
LEMMA EntriesAreLive ==
  ASSUME NEW own, NEW pos, NEW view, AtRest(own, pos, view)
  PROVE  Entries = {s \in SlotSet : Live(data, s)}
<1>0. /\ Names(own, pos, data, view, 0) /\ EntriesHold(own, pos, data)
      /\ DirHead(own, pos, data, rootCluster) /\ own[rootCluster] = Nowhere
  BY RootIsDirectory DEF AtRest, Vol
<1>1. Visible(rootCluster) = {s \in SlotSet : own[s[1]] = Nowhere /\ Live(data, s)}
  BY <1>0, VisibleIsLive
<1>2. ASSUME NEW t \in Visible(rootCluster), Cell(t).dir
      PROVE  Visible(Cell(t).firstCluster) = {s \in SlotSet : own[s[1]] = t /\ Live(data, s)}
  <2>1. Live(data, t) /\ In(data, t).dir /\ Cell(t) = In(data, t)
    BY <1>1, <1>2 DEF In, Cell
  <2>2. DirHead(own, pos, data, Cell(t).firstCluster) /\ own[Cell(t).firstCluster] = t
    BY <1>0, <2>1, EntryIsDirectory
  <2> QED
    BY <2>2, VisibleIsLive
<1>3. Entries \subseteq {s \in SlotSet : Live(data, s)}
  BY <1>1, <1>2 DEF Entries
<1>4. ASSUME NEW s \in SlotSet, Live(data, s) PROVE s \in Entries
  <2>1. IsDirectory(data, own[s[1]])
    BY <1>0, <1>4 DEF EntriesHold, EntryHolds
  <2>2. CASE own[s[1]] = Nowhere
    BY <2>2, <1>1, <1>4 DEF Entries
  <2>3. CASE own[s[1]] # Nowhere
    <3>1. PICK t : t = own[s[1]]
      OBVIOUS
    <3>2. Live(data, t) /\ In(data, t).dir /\ t \in SlotSet
      BY <2>1, <2>3, <3>1 DEF IsDirectory, Live
    <3>3. own[t[1]] = Nowhere
      BY <1>0, <3>2 DEF EntriesHold, EntryHolds
    <3>4. t \in Visible(rootCluster) /\ Cell(t).dir
      BY <1>1, <3>2, <3>3 DEF In, Cell
    <3>5. s \in Visible(Cell(t).firstCluster)
      BY <1>2, <1>4, <3>1, <3>4
    <3> QED
      BY <3>4, <3>5 DEF Entries
  <2> QED
    BY <2>2, <2>3
<1> QED
  BY <1>3, <1>4

(* What is known of a file heads its chain, and is no longer than that.     *)
LEMMA ViewsFit ==
  ASSUME NEW own, NEW pos, AtRest(own, pos, Rest(handles)), DataOK(data), HandlesOK(handles),
         NEW s, Live(data, s), NEW v \in Views(s)
  PROVE  /\ EntOK(v)
         /\ v.firstCluster # 0 => HeadOf(own, pos, s, v.firstCluster)
         /\ Fits(own, pos, s, v.firstCluster, v.size)
         /\ v.size # 0 => IsFile(data, s)
<1>1. CASE v = Cell(s)
  <2>1. SlotOK(s) /\ s \in SlotSet
    BY Tags DEF Live
  <2>2. EntOK(v)
    BY <1>1, <2>1, CellRead DEF CellOK, Live, In, Cell
  <2>3. v = In(data, s)
    BY <1>1 DEF In, Cell
  <2> QED
    BY <2>1, <2>2, <2>3 DEF AtRest, Vol, EntriesHold, EntryHolds, IsFile
<1>2. ASSUME NEW h \in Handles, IsOpen(h), handles[h].slot = s, v = handles[h].ent
      PROVE  /\ EntOK(v)
             /\ v.firstCluster # 0 => HeadOf(own, pos, s, v.firstCluster)
             /\ Fits(own, pos, s, v.firstCluster, v.size)
             /\ IsFile(data, s)
  <2>1. EntOK(v)
    BY <1>2 DEF HandlesOK, FileOK, IsOpen
  <2>2. Rest(handles)[h] = Opened(s, v.firstCluster, v.size)
    BY <1>2 DEF Rest, IsOpen
  <2>3. PICK f : f = Rest(handles)[h]
    OBVIOUS
  <2>4. f # Closed /\ f.slot = s /\ f.first = v.firstCluster /\ f.size = v.size
    BY <2>2, <2>3, OpenedIs
  <2> QED
    BY <2>1, <2>3, <2>4 DEF AtRest, Vol, FilesHold, FileHolds
<1> QED
  BY <1>1, <1>2 DEF Views

(* The heads of an entry or of the root head the chain labelled with it.    *)
LEMMA HeadsAreHeads ==
  ASSUME NEW own, NEW pos, AtRest(own, pos, Rest(handles)), DataOK(data), HandlesOK(handles),
         NEW s, s = Nowhere \/ Live(data, s)
  PROVE  /\ \A k \in Heads(s) : HeadOf(own, pos, s, k)
         /\ (\E c \in Cluster : own[c] = s) => Heads(s) # {}
<1>1. CASE s = Nowhere
  BY <1>1 DEF Heads, AtRest, Vol, Names
<1>2. CASE Live(data, s)
  <2>1. s \notin Tag /\ s # Nowhere /\ s # Mine /\ s # NoOwner /\ s # Lost
    BY <1>2, Tags DEF Live, Tag
  <2>2. \A k \in Heads(s) : HeadOf(own, pos, s, k)
    BY <1>2, <2>1, ViewsFit DEF Heads
  <2>3. ASSUME NEW c \in Cluster, own[c] = s PROVE Heads(s) # {}
    <3>1. HasChain(data, Rest(handles), 0, s)
      BY <2>1, <2>3 DEF AtRest, Vol, Names
    <3>2. CASE In(data, s).firstCluster # 0
      BY <2>1, <3>2 DEF Heads, Views, In, Cell
    <3>3. ASSUME NEW h \in Handles, Opens(Rest(handles), h, s), Rest(handles)[h].first # 0
          PROVE  Heads(s) # {}
      <4>1. handles[h] # Closed
        BY <3>3 DEF Opens, Rest
      <4>2. Rest(handles)[h] = Opened(handles[h].slot, handles[h].ent.firstCluster, handles[h].ent.size)
        BY <4>1 DEF Rest
      <4>3. handles[h].slot = s /\ handles[h].ent.firstCluster # 0
        BY <4>2, <3>3, OpenedIs DEF Opens
      <4>4. handles[h].ent \in Views(s)
        BY <4>1, <4>3 DEF Views, IsOpen
      <4> QED
        BY <2>1, <4>3, <4>4 DEF Heads
    <3> QED
      BY <2>1, <3>1, <3>2, <3>3 DEF HasChain
  <2> QED
    BY <2>2, <2>3
<1> QED
  BY <1>1, <1>2

(* Owned is what the labels say is owned.                                   *)
LEMMA OwnedIsLabelled ==
  ASSUME NEW own, NEW pos, AtRest(own, pos, Rest(handles)), DataOK(data), HandlesOK(handles),
         NEW s, s = Nowhere \/ Live(data, s)
  PROVE  /\ Owned(s) = {c \in Cluster : own[c] = s}
         /\ \A k \in Heads(s) : EndMark(k) = EndOfChain /\ Chain(k) = {c \in Cluster : own[c] = s}
<1>1. s \notin {NoOwner, Lost}
  BY Tags DEF Live, Tag
<1>2. \A k \in Heads(s) : HeadOf(own, pos, s, k)
  BY HeadsAreHeads
<1>3. \A k \in Heads(s) : EndMark(k) = EndOfChain /\ Chain(k) = {c \in Cluster : own[c] = s}
  <2>1. Labels(own, pos, fat) /\ EndsEverywhere(fat)
    BY DEF AtRest, Vol
  <2>2. ASSUME NEW k \in Heads(s)
        PROVE  EndMark(k) = EndOfChain /\ Chain(k) = {c \in Cluster : own[c] = s}
    <3>1. HeadOf(own, pos, s, k)
      BY <1>2
    <3>2. /\ ChainOf(fat, k) = {c \in Cluster : own[c] = s}
          /\ Walk(fat, k, totalClusters) = EndOfChain
      BY <1>1, <2>1, <3>1, ChainIsOwned
    <3> QED
      BY <3>2, ChainsWalk
  <2> QED
    BY <2>2
<1>4. (\E c \in Cluster : own[c] = s) => Heads(s) # {}
  BY HeadsAreHeads
<1> QED
  BY <1>3, <1>4 DEF Owned

(* No file is longer than its chain.                                        *)
LEMMA SizeFits ==
  ASSUME NEW own, NEW pos, AtRest(own, pos, Rest(handles)), DataOK(data), HandlesOK(handles),
         NEW s, Live(data, s), NEW v \in Views(s)
  PROVE  v.size <= ClusterSize * Cardinality(Chain(v.firstCluster))
<1> DEFINE N == Cardinality(Chain(v.firstCluster))
<1>0. Labels(own, pos, fat) /\ EndsEverywhere(fat)
  BY DEF AtRest, Vol
<1>1. /\ v.size \in Nat
      /\ v.firstCluster # 0 => HeadOf(own, pos, s, v.firstCluster)
      /\ Fits(own, pos, s, v.firstCluster, v.size)
  BY ViewsFit DEF EntOK
<1>2. s \notin {NoOwner, Lost}
  BY Tags DEF Live, Tag
<1>3. ASSUME v.size # 0 PROVE v.size <= ClusterSize * N
  <2>1. v.firstCluster # 0
    BY <1>1, <1>3 DEF Fits
  <2>2. PICK c \in Cluster : own[c] = s /\ pos[c] = (v.size - 1) \div ClusterSize
    BY <1>1, <1>3 DEF Fits
  <2>3. /\ Cardinality(ChainOf(fat, v.firstCluster)) \in Nat
        /\ \A n \in Nat : n < Cardinality(ChainOf(fat, v.firstCluster)) <=>
             \E d \in Cluster : own[d] = s /\ pos[d] = n
    BY <1>0, <1>1, <1>2, <2>1, ChainLength
  <2>4. Chain(v.firstCluster) = ChainOf(fat, v.firstCluster)
    BY ChainsWalk
  <2>5. PICK q : q = (v.size - 1) \div ClusterSize
    OBVIOUS
  <2>6. v.size - 1 \in Nat
    BY <1>1, <1>3
  <2>7. q \in Nat
    BY <2>5, <2>6, PlaceSplits
  <2>8. N \in Nat /\ q < N
    BY <2>2, <2>3, <2>4, <2>5, <2>7
  <2>9. PICK r : r = ((v.size - 1) % ClusterSize) + 1
    OBVIOUS
  <2>10. r \in 1 .. ClusterSize /\ v.size - 1 = ClusterSize * q + r - 1
    BY <2>5, <2>6, <2>9, PlaceSplits
  <2> HIDE DEF N
  <2>11. ClusterSize \in Nat
    BY VolumeAssumption
  <2>12. ClusterSize * q + ClusterSize <= ClusterSize * N
    <3>1. PICK d \in Nat : N = q + 1 + d
      <4>1. N - q - 1 \in Nat
        BY <2>7, <2>8
      <4> QED
        BY <4>1, <2>7, <2>8
    <3>2. ClusterSize * N = ClusterSize * q + ClusterSize + ClusterSize * d
      BY <3>1, <2>7, <2>11
    <3>3. PICK x, y \in Nat : x = ClusterSize * d /\ y = ClusterSize * q
      <4>1. ClusterSize * d \in Nat /\ ClusterSize * q \in Nat
        BY <2>7, <2>11
      <4> QED
        BY <4>1
    <3> QED
      BY <3>2, <3>3, <2>11
  <2>13. PICK x, y \in Nat : x = ClusterSize * q /\ y = ClusterSize * N
    <3>1. ClusterSize * N \in Nat /\ ClusterSize * q \in Nat
      BY <2>7, <2>8, <2>11
    <3> QED
      BY <3>1
  <2> QED
    BY <2>10, <2>11, <2>12, <2>13, <1>1
<1>4. CASE v.size = 0
  <2>1. N \in Nat
    <3>1. IsFiniteSet(Chain(v.firstCluster))
      BY ClustersCounted, FS_Subset DEF Chain
    <3> QED
      BY <3>1, FS_CardinalityType
  <2> HIDE DEF N
  <2>2. ClusterSize \in Nat
    BY VolumeAssumption
  <2>3. ClusterSize * N >= 0
    BY <2>1, <2>2
  <2> QED
    BY <2>3, <1>4 DEF N
<1> QED
  BY <1>3, <1>4

(* The labels tell clusters of different files and directories apart.       *)
LEMMA LabelsMakeSound ==
  ASSUME NEW own, NEW pos, AtRest(own, pos, Rest(handles)), DataOK(data), HandlesOK(handles)
  PROVE  Sound
<1> DEFINE slots == Entries \cup {Nowhere}
<1>1. \A s \in slots : s = Nowhere \/ Live(data, s)
  BY EntriesAreLive
<1>2. \A s \in slots : Owned(s) = {c \in Cluster : own[c] = s}
  BY <1>1, OwnedIsLabelled
<1>3. \A s, t \in slots : s # t => Owned(s) \cap Owned(t) = {}
  BY <1>2
<1>4. ASSUME NEW s \in slots PROVE Cardinality(Heads(s)) <= 1
  <2>1. \A k \in Heads(s) : HeadOf(own, pos, s, k)
    BY <1>1, <1>4, HeadsAreHeads
  <2>2. s \notin {NoOwner, Lost}
    BY <1>1, <1>4, Tags DEF Live, Tag
  <2>3. \A j, k \in Heads(s) : j = k
    BY <2>1, <2>2 DEF AtRest, Vol, Labels, HeadOf
  <2>4. CASE Heads(s) = {}
    BY <2>4, FS_EmptySet
  <2>5. ASSUME NEW k \in Heads(s) PROVE Cardinality(Heads(s)) <= 1
    <3>1. Heads(s) = {k}
      BY <2>3, <2>5
    <3>2. Cardinality({k}) = 1
      BY FS_Singleton
    <3> QED
      BY <3>1, <3>2
  <2> QED
    BY <2>4, <2>5
<1>5. \A s \in slots : \A c \in Heads(s) : EndMark(c) = EndOfChain
  BY <1>1, OwnedIsLabelled
<1>6. \A s \in Entries : \A v \in Views(s) :
        v.size <= ClusterSize * Cardinality(Chain(v.firstCluster))
  BY EntriesAreLive, SizeFits
<1> QED
  BY <1>3, <1>4, <1>5, <1>6 DEF Sound

(* And they keep every unit where it was written for.                       *)
LEMMA LabelsMakeInPlace ==
  ASSUME NEW own, NEW pos, AtRest(own, pos, Rest(handles)), DataOK(data), HandlesOK(handles)
  PROVE  InPlace
<1>0. /\ Labels(own, pos, fat) /\ EndsEverywhere(fat) /\ Names(own, pos, data, Rest(handles), 0)
      /\ EntriesHold(own, pos, data) /\ DirectoriesHold(own, pos, data)
      /\ UnitsHold(own, pos, data)
  BY DEF AtRest, Vol
<1>1. Entries = {s \in SlotSet : Live(data, s)}
  BY EntriesAreLive
<1>2. ASSUME NEW s \in Entries, NEW v \in Views(s), NEW k \in 0 .. v.size - 1
      PROVE  Cell(<<Nth(v.firstCluster, k \div ClusterSize), (k % ClusterSize) + 1>>)
               \in {Unit(k), Zero}
  <2>1. Live(data, s)
    BY <1>1, <1>2
  <2>2. /\ v.size \in Nat
        /\ v.firstCluster # 0 => HeadOf(own, pos, s, v.firstCluster)
        /\ Fits(own, pos, s, v.firstCluster, v.size)
        /\ v.size # 0 => IsFile(data, s)
    BY <1>2, <2>1, ViewsFit DEF EntOK
  <2>3. v.size # 0 /\ k \in Nat /\ k <= v.size - 1 /\ v.size - 1 \in Nat
    BY <1>2, <2>2
  <2>4. HeadOf(own, pos, s, v.firstCluster) /\ IsFile(data, s)
    BY <2>2, <2>3 DEF Fits
  <2>5. s \notin {NoOwner, Lost}
    BY <2>1, Tags DEF Live, Tag
  <2>6. PICK d \in Cluster : own[d] = s /\ pos[d] = (v.size - 1) \div ClusterSize
    BY <2>2, <2>3 DEF Fits
  <2>7. PICK q, i : q = k \div ClusterSize /\ i = (k % ClusterSize) + 1
    OBVIOUS
  <2>8. q \in Nat /\ i \in 1 .. ClusterSize /\ k = ClusterSize * q + i - 1
    BY <2>3, <2>7, PlaceSplits
  <2>9. PICK p, j : p = (v.size - 1) \div ClusterSize /\ j = ((v.size - 1) % ClusterSize) + 1
    OBVIOUS
  <2>10. p \in Nat /\ j \in 1 .. ClusterSize /\ v.size - 1 = ClusterSize * p + j - 1
    BY <2>3, <2>9, PlaceSplits
  <2>11. q <= p
    <3>1. ClusterSize * p + j - 1 < ClusterSize * q + i - 1 <=> Before(p, j, q, i)
      BY <2>8, <2>10, PlaceOrder
    <3>2. ~(ClusterSize * p + j - 1 < ClusterSize * q + i - 1)
      <4>1. PICK a, b : a = ClusterSize * p + j - 1 /\ b = ClusterSize * q + i - 1
        OBVIOUS
      <4>2. a = v.size - 1 /\ b = k
        BY <4>1, <2>8, <2>10
      <4>3. ~(a < b)
        BY <4>2, <2>3
      <4> QED
        BY <4>1, <4>3
    <3> QED
      BY <3>1, <3>2, <2>8, <2>10 DEF Before
  <2>12. PICK x : x = Walk(fat, v.firstCluster, q)
    OBVIOUS
  <2>13. x = EndOfChain \/ (x \in Cluster /\ own[x] = s /\ pos[x] = q)
    BY <1>0, <2>4, <2>5, <2>8, <2>12, WalkIsLabelled
  <2>14. x # EndOfChain
    <3> SUFFICES ASSUME x = EndOfChain PROVE FALSE
      OBVIOUS
    <3>1. x \notin Cluster
      BY ClustersCounted DEF EndOfChain
    <3>2. Walk(fat, v.firstCluster, p) = x
      BY <3>1, <2>8, <2>10, <2>11, <2>12, MarkStays
    <3>3. Walk(fat, v.firstCluster, p) = d
      BY <1>0, <2>4, <2>5, <2>6, <2>9, LabelIsWalked
    <3> QED
      BY <3>1, <3>2, <3>3
  <2>15. data[x][i] \in {Zero, Unit(ClusterSize * pos[x] + i - 1)}
    BY <1>0, <2>4, <2>8, <2>13, <2>14 DEF UnitsHold
  <2>16. Unit(ClusterSize * pos[x] + i - 1) = Unit(k)
    BY <2>8, <2>13, <2>14
  <2>17. Nth(v.firstCluster, k \div ClusterSize) = x
    BY <2>7, <2>12, NthWalks
  <2> QED
    BY <2>7, <2>15, <2>16, <2>17 DEF Cell
<1>3. ASSUME NEW head, DirHead(own, pos, data, head), NEW s \in readDirectory(head)
      PROVE  Cell(s).kind \in {"entry", "deleted"}
  <2>1. /\ HeadOf(own, pos, own[head], head) /\ own[head] \notin {NoOwner, Lost, Mine}
        /\ IsDirectory(data, own[head])
    BY <1>3, HeadOfDirectory DEF DirHead
  <2>2. s \in SlotSet /\ own[s[1]] = own[head] /\ Cell(s) # Zero
    BY <1>0, <1>3, <2>1, DirectoryIsRead
  <2>3. Cell(s) \in {Zero, Deleted} \/ Cell(s).kind = "entry"
    BY <1>0, <2>1, <2>2, Tags DEF DirectoriesHold, Cell
  <2> QED
    BY <2>2, <2>3 DEF Deleted
<1>4. DirHead(own, pos, data, rootCluster)
  BY <1>0, RootIsDirectory
<1>5. \A s \in Entries : Cell(s).dir => DirHead(own, pos, data, Cell(s).firstCluster)
  BY <1>0, <1>1, EntryIsDirectory DEF In, Cell
<1> QED
  BY <1>2, <1>3, <1>4, <1>5 DEF InPlace

(* Every cluster that is not free is labelled with who has it.              *)
LEMMA LabelsAccount ==
  ASSUME NEW own, NEW pos, AtRest(own, pos, Rest(handles)), DataOK(data), HandlesOK(handles)
  PROVE  {c \in Cluster : fat[c] # FreeCluster} =
           (leaked \cap Cluster) \cup UNION {Owned(s) : s \in Entries \cup {Nowhere}}
<1>0. /\ Labels(own, pos, fat) /\ Names(own, pos, data, Rest(handles), 0) /\ LeaksHold(own, leaked)
  BY DEF AtRest, Vol
<1>1. Entries = {s \in SlotSet : Live(data, s)}
  BY EntriesAreLive
<1>2. \A s \in Entries \cup {Nowhere} :
        /\ Owned(s) = {c \in Cluster : own[c] = s}
        /\ s \notin {NoOwner, Lost}
  BY <1>1, OwnedIsLabelled, Tags DEF Live, Tag
<1>3. \A c \in Cluster : fat[c] # FreeCluster <=> own[c] # NoOwner
  BY <1>0 DEF Labels
<1>4. \A c \in Cluster : own[c] \in {NoOwner, Lost} \/ own[c] \in Entries \cup {Nowhere}
  <2> TAKE c \in Cluster
  <2>1. own[c] \in {NoOwner, Lost} \/ HasChain(data, Rest(handles), 0, own[c])
    BY <1>0 DEF Names
  <2> QED
    BY <2>1, <1>1 DEF HasChain, Live
<1>5. \A c \in Cluster : own[c] = Lost <=> c \in leaked
  BY <1>0 DEF LeaksHold
<1> QED
  BY <1>2, <1>3, <1>4, <1>5, Tags

-----------------------------------------------------------------------------
(* What stays when part of the volume changes                               *)

(* A cell written into a volume.                                            *)
LEMMA PutIs ==
  ASSUME NEW cells, NEW s \in SlotSet, NEW x
  PROVE  /\ In(Put(cells, s, x), s) = x
         /\ \A t \in SlotSet : t # s => In(Put(cells, s, x), t) = In(cells, t)
         /\ \A c \in Cluster, i \in 1 .. ClusterSize :
              Put(cells, s, x)[c][i] = IF c = s[1] /\ i = s[2] THEN x ELSE cells[c][i]
<1>1. \A c \in Cluster, i \in 1 .. ClusterSize :
        Put(cells, s, x)[c][i] = IF c = s[1] /\ i = s[2] THEN x ELSE cells[c][i]
  BY DEF Put
<1>2. In(Put(cells, s, x), s) = x
  BY <1>1, Tags DEF In
<1>3. ASSUME NEW t \in SlotSet, t # s PROVE In(Put(cells, s, x), t) = In(cells, t)
  <2>1. PICK c \in Cluster, i \in 1 .. ClusterSize : t = <<c, i>>
    BY DEF SlotSet
  <2>2. PICK d \in Cluster, j \in 1 .. ClusterSize : s = <<d, j>>
    BY DEF SlotSet
  <2>3. ~(c = d /\ i = j)
    BY <2>1, <2>2, <1>3
  <2> QED
    BY <1>1, <2>1, <2>2, <2>3 DEF In
<1> QED
  BY <1>1, <1>2, <1>3

(* A slot holds what was put into it. *)
LEMMA PutBack ==
  ASSUME NEW cells, NEW s \in SlotSet, NEW e
  PROVE  In(Put(cells, s, e), s) = e
<1>1. PICK c \in Cluster, i \in 1 .. ClusterSize : s = <<c, i>>
  BY DEF SlotSet
<1>2. Put(cells, s, e)[c][i] = e
  BY <1>1, Zenon DEF Put
<1> QED
  BY <1>1, <1>2 DEF In

(* A slot that no step has touched, and what it owns.                       *)
Stays(own, pos, cells, own2, pos2, cells2, s) ==
  /\ Live(cells, s) /\ In(cells2, s) = In(cells, s)
  /\ \A c \in Cluster : own[c] = s => own2[c] = s /\ pos2[c] = pos[c]
  /\ own2[s[1]] = own[s[1]] /\ IsDirectory(cells2, own[s[1]])

(* An owner whose clusters keep their labels keeps its chain.               *)
LEMMA OwnerStays ==
  ASSUME NEW own, NEW pos, NEW own2, NEW pos2, NEW s,
         \A c \in Cluster : own[c] = s => own2[c] = s /\ pos2[c] = pos[c]
  PROVE  /\ \A k : HeadOf(own, pos, s, k) => HeadOf(own2, pos2, s, k)
         /\ \A first, size : Fits(own, pos, s, first, size) => Fits(own2, pos2, s, first, size)
  BY DEF HeadOf, Fits

(* Entries hold if each has stayed or holds anew.                           *)
LEMMA EntriesStay ==
  ASSUME NEW own, NEW pos, NEW cells, NEW own2, NEW pos2, NEW cells2,
         EntriesHold(own, pos, cells),
         \A s \in SlotSet : Live(cells2, s) =>
           \/ Stays(own, pos, cells, own2, pos2, cells2, s)
           \/ EntryHolds(own2, pos2, cells2, s, In(cells2, s))
  PROVE  EntriesHold(own2, pos2, cells2)
<1> SUFFICES ASSUME NEW s \in SlotSet, Live(cells2, s), Stays(own, pos, cells, own2, pos2, cells2, s)
             PROVE  EntryHolds(own2, pos2, cells2, s, In(cells2, s))
  BY DEF EntriesHold
<1>1. EntryHolds(own, pos, cells, s, In(cells, s))
  BY DEF Stays, EntriesHold
<1>2. /\ \A k : HeadOf(own, pos, s, k) => HeadOf(own2, pos2, s, k)
      /\ \A first, size : Fits(own, pos, s, first, size) => Fits(own2, pos2, s, first, size)
  BY OwnerStays DEF Stays
<1> QED
  BY <1>1, <1>2 DEF EntryHolds, Stays

(* An open file holds if its clusters keep their labels.                    *)
LEMMA FileStays ==
  ASSUME NEW own, NEW pos, NEW cells, NEW own2, NEW pos2, NEW cells2, NEW f,
         FileHolds(own, pos, cells, f), IsFile(cells2, f.slot),
         In(cells2, f.slot).firstCluster \in {0, f.first},
         \A c \in Cluster : own[c] = f.slot => own2[c] = f.slot /\ pos2[c] = pos[c]
  PROVE  FileHolds(own2, pos2, cells2, f)
<1>1. /\ \A k : HeadOf(own, pos, f.slot, k) => HeadOf(own2, pos2, f.slot, k)
      /\ \A first, size : Fits(own, pos, f.slot, first, size) => Fits(own2, pos2, f.slot, first, size)
  BY OwnerStays
<1> QED
  BY <1>1 DEF FileHolds

(* Directories whose cells are used as before.                              *)
LEMMA DirectoriesStay ==
  ASSUME NEW own, NEW pos, NEW cells, NEW own2, NEW pos2, NEW cells2,
         DirectoriesHold(own, pos, cells),
         \A c \in Cluster : IsDirectory(cells2, own2[c]) =>
           /\ IsDirectory(cells, own[c])
           /\ own2[c] = own[c] /\ pos2[c] = pos[c]
           /\ \A i \in 1 .. ClusterSize :
                /\ cells2[c][i] = Zero <=> cells[c][i] = Zero
                /\ cells2[c][i] \in {cells[c][i], Deleted} \/ cells2[c][i].kind = "entry"
  PROVE  DirectoriesHold(own2, pos2, cells2)
<1> SUFFICES ASSUME NEW c \in Cluster, IsDirectory(cells2, own2[c]), NEW i \in 1 .. ClusterSize
             PROVE  /\ cells2[c][i] \in {Zero, Deleted} \/ cells2[c][i].kind = "entry"
                    /\ cells2[c][i] = Zero =>
                         \A d \in Cluster, j \in 1 .. ClusterSize :
                           own2[d] = own2[c] /\ Before(pos2[c], i, pos2[d], j) => cells2[d][j] = Zero
  BY DEF DirectoriesHold
<1>1. IsDirectory(cells, own[c]) /\ own2[c] = own[c] /\ pos2[c] = pos[c]
  OBVIOUS
<1>2. cells2[c][i] \in {Zero, Deleted} \/ cells2[c][i].kind = "entry"
  BY <1>1 DEF DirectoriesHold
<1>3. ASSUME cells2[c][i] = Zero, NEW d \in Cluster, NEW j \in 1 .. ClusterSize,
             own2[d] = own2[c], Before(pos2[c], i, pos2[d], j)
      PROVE  cells2[d][j] = Zero
  <2>1. IsDirectory(cells2, own2[d])
    BY <1>3
  <2>2. own2[d] = own[d] /\ pos2[d] = pos[d] /\ (cells2[d][j] = Zero <=> cells[d][j] = Zero)
    BY <2>1
  <2> QED
    BY <1>1, <1>3, <2>2 DEF DirectoriesHold
<1> QED
  BY <1>2, <1>3

(* Files whose clusters keep their place and their units.                   *)
LEMMA UnitsStay ==
  ASSUME NEW own, NEW pos, NEW cells, NEW own2, NEW pos2, NEW cells2,
         UnitsHold(own, pos, cells),
         \A c \in Cluster : IsFile(cells2, own2[c]) =>
           \/ /\ IsFile(cells, own[c]) /\ pos2[c] = pos[c]
              /\ \A i \in 1 .. ClusterSize : cells2[c][i] = cells[c][i]
           \/ \A i \in 1 .. ClusterSize :
                cells2[c][i] \in {Zero, Unit(ClusterSize * pos2[c] + i - 1)}
  PROVE  UnitsHold(own2, pos2, cells2)
<1> SUFFICES ASSUME NEW c \in Cluster, IsFile(cells2, own2[c])
             PROVE  \A i \in 1 .. ClusterSize :
                      cells2[c][i] \in {Zero, Unit(ClusterSize * pos2[c] + i - 1)}
  BY DEF UnitsHold
<1> QED
  BY DEF UnitsHold

-----------------------------------------------------------------------------
(* One step of a call on a labelled volume                                  *)

(* Who owns clusters is no tag but the ones that are meant.                 *)
LEMMA OwnersAre ==
  ASSUME NEW cells, NEW o, IsDirectory(cells, o) \/ IsFile(cells, o) \/ Live(cells, o)
  PROVE  /\ o \notin {NoOwner, Lost, Mine}
         /\ IsFile(cells, o) => ~IsDirectory(cells, o) /\ o # Nowhere
         /\ Live(cells, o) => o \in SlotSet /\ o # Nowhere
  BY Tags DEF IsDirectory, IsFile, Live, Tag

(* A call without a cluster owns none.                                      *)
LEMMA NoneIsMine ==
  ASSUME NEW own, NEW pos, NEW cells, NEW view, Names(own, pos, cells, view, 0)
  PROVE  \A c \in Cluster : own[c] # Mine
<1> SUFFICES ASSUME NEW c \in Cluster, own[c] = Mine PROVE FALSE
  OBVIOUS
<1>1. HasChain(cells, view, 0, Mine)
  BY Tags DEF Names
<1> QED
  BY <1>1, Tags DEF HasChain, Live, Tag

(* Files and directories that keep their clusters keep what is said of them.*)
LEMMA ClientsStay ==
  ASSUME NEW own, NEW pos, NEW cells, NEW view, NEW own2, NEW pos2,
         EntriesHold(own, pos, cells), FilesHold(own, pos, cells, view),
         DirectoriesHold(own, pos, cells), UnitsHold(own, pos, cells),
         \A c \in Cluster : own[c] \notin {NoOwner, Mine, Lost} =>
           own2[c] = own[c] /\ pos2[c] = pos[c],
         \A c \in Cluster : own2[c] \notin {NoOwner, Mine, Lost} => own2[c] = own[c]
  PROVE  /\ EntriesHold(own2, pos2, cells) /\ FilesHold(own2, pos2, cells, view)
         /\ DirectoriesHold(own2, pos2, cells) /\ UnitsHold(own2, pos2, cells)
<1>1. \A o : o \notin {NoOwner, Mine, Lost} =>
        \A c \in Cluster : own[c] = o => own2[c] = o /\ pos2[c] = pos[c]
  OBVIOUS
<1>2. \A c \in Cluster : IsDirectory(cells, own2[c]) \/ IsFile(cells, own2[c]) =>
        own2[c] = own[c] /\ pos2[c] = pos[c]
  BY OwnersAre
<1>3. EntriesHold(own2, pos2, cells)
  <2> SUFFICES ASSUME NEW s \in SlotSet, Live(cells, s)
               PROVE  Stays(own, pos, cells, own2, pos2, cells, s)
    BY EntriesStay
  <2>1. IsDirectory(cells, own[s[1]]) /\ s[1] \in Cluster
    BY Tags DEF EntriesHold, EntryHolds
  <2> QED
    BY <2>1, <1>1, OwnersAre DEF Stays
<1>4. FilesHold(own2, pos2, cells, view)
  <2> SUFFICES ASSUME NEW k \in Handles, view[k] # Closed
               PROVE  FileHolds(own2, pos2, cells, view[k])
    BY DEF FilesHold
  <2>1. PICK f : f = view[k]
    OBVIOUS
  <2>2. FileHolds(own, pos, cells, f)
    BY <2>1 DEF FilesHold
  <2>3. IsFile(cells, f.slot) /\ f.slot \notin {NoOwner, Mine, Lost}
    BY <2>2, OwnersAre DEF FileHolds
  <2>4. FileHolds(own2, pos2, cells, f)
    BY <2>2, <2>3, <1>1, FileStays DEF FileHolds
  <2> QED
    BY <2>1, <2>4
<1>5. DirectoriesHold(own2, pos2, cells)
  <2>1. \A c \in Cluster : IsDirectory(cells, own2[c]) =>
           /\ IsDirectory(cells, own[c])
           /\ own2[c] = own[c] /\ pos2[c] = pos[c]
           /\ \A i \in 1 .. ClusterSize :
                /\ cells[c][i] = Zero <=> cells[c][i] = Zero
                /\ cells[c][i] \in {cells[c][i], Deleted} \/ cells[c][i].kind = "entry"
    BY <1>2
  <2> QED
    BY <2>1, DirectoriesStay
<1>6. UnitsHold(own2, pos2, cells)
  BY <1>2 DEF UnitsHold
<1> QED
  BY <1>3, <1>4, <1>5, <1>6

(* A free cluster is taken.                                                 *)
LEMMA ClaimLabels ==
  ASSUME NEW own, NEW pos, NEW g, NEW cells, NEW view, NEW leak,
         Vol(own, pos, g, cells, view, 0, leak),
         NEW m \in Cluster, g[m] = FreeCluster,
         NEW h, Changed(g, m, EndOfChain, h),
         NEW own2, Changed(own, m, Mine, own2), NEW pos2, Changed(pos, m, 0, pos2)
  PROVE  Vol(own2, pos2, h, cells, view, m, leak)
<1>0. /\ Labels(own, pos, g) /\ Names(own, pos, cells, view, 0) /\ EntriesHold(own, pos, cells)
      /\ FilesHold(own, pos, cells, view) /\ DirectoriesHold(own, pos, cells)
      /\ UnitsHold(own, pos, cells) /\ LeaksHold(own, leak)
  BY DEF Vol
<1>1. \A c \in Cluster : own[c] # Mine
  BY <1>0, NoneIsMine
<1>2. own[m] = NoOwner
  BY <1>0 DEF Labels
<1>3. /\ own2[m] = Mine /\ pos2[m] = 0 /\ h[m] = EndOfChain
      /\ \A c \in Cluster : c # m => own2[c] = own[c] /\ pos2[c] = pos[c] /\ h[c] = g[c]
  BY DEF Changed
<1>4. FreeCluster # EndOfChain /\ 0 \notin Cluster /\ EndOfChain \notin Cluster
  BY ClustersCounted DEF FreeCluster, EndOfChain
<1>5. Labels(own2, pos2, h)
  <2>1. \A c \in Cluster : pos2[c] \in Nat
    BY <1>0, <1>3 DEF Labels
  <2>2. \A c \in Cluster : own2[c] = NoOwner <=> h[c] = FreeCluster
    BY <1>0, <1>3, <1>4, Tags DEF Labels
  <2>3. ASSUME NEW c \in Cluster, own2[c] # NoOwner
        PROVE  h[c] = EndOfChain \/ (h[c] \in Cluster /\ own2[h[c]] = own2[c] /\ pos2[h[c]] = pos2[c] + 1)
    BY <2>3, <1>0, <1>2, <1>3 DEF Labels
  <2>4. \A c, d \in Cluster : own2[c] \notin {NoOwner, Lost} /\ own2[d] = own2[c] /\ pos2[d] = pos2[c] => c = d
    BY <1>0, <1>1, <1>2, <1>3 DEF Labels
  <2>5. ASSUME NEW c \in Cluster, own2[c] \notin {NoOwner, Lost}, pos2[c] # 0
        PROVE  \E d \in Cluster : own2[d] = own2[c] /\ h[d] = c
    <3>1. c # m
      BY <2>5, <1>3
    <3>2. PICK d \in Cluster : own[d] = own[c] /\ g[d] = c
      BY <2>5, <3>1, <1>0, <1>3 DEF Labels
    <3>3. d # m
      BY <2>5, <3>1, <3>2, <1>2, <1>3
    <3> QED
      BY <3>1, <3>2, <3>3, <1>3
  <2> QED
    BY <2>1, <2>2, <2>3, <2>4, <2>5 DEF Labels
<1>6. Names(own2, pos2, cells, view, m)
  <2>1. rootCluster \in Cluster /\ rootCluster # m
    BY <1>0, <1>2, Tags DEF Names, HeadOf
  <2>2. m # 0
    BY <1>4
  <2>3. \A c \in Cluster : own2[c] \in {NoOwner, Lost} \/ HasChain(cells, view, m, own2[c])
    BY <1>0, <1>1, <1>3, <2>2 DEF Names, HasChain
  <2> QED
    BY <2>1, <2>3, <1>0, <1>3 DEF Names, HeadOf
<1>7. /\ EntriesHold(own2, pos2, cells) /\ FilesHold(own2, pos2, cells, view)
      /\ DirectoriesHold(own2, pos2, cells) /\ UnitsHold(own2, pos2, cells)
  <2>1. \A c \in Cluster : own[c] \notin {NoOwner, Mine, Lost} => own2[c] = own[c] /\ pos2[c] = pos[c]
    BY <1>1, <1>2, <1>3
  <2>2. \A c \in Cluster : own2[c] \notin {NoOwner, Mine, Lost} => own2[c] = own[c]
    BY <1>1, <1>2, <1>3
  <2> QED
    BY <1>0, <2>1, <2>2, ClientsStay
<1>8. LeaksHold(own2, leak)
  BY <1>0, <1>2, <1>3, Tags DEF LeaksHold
<1> QED
  BY <1>5, <1>6, <1>7, <1>8 DEF Vol

(* The cells of a cluster that no entry names yet are written.              *)
LEMMA PrivateRowWritten ==
  ASSUME NEW own, NEW pos, NEW g, NEW cells, NEW view, NEW leak, NEW m \in Cluster,
         Vol(own, pos, g, cells, view, m, leak),
         NEW cells2, \A c \in Cluster : c # m => cells2[c] = cells[c],
         \A i \in 1 .. ClusterSize : cells2[m][i].kind = "entry" => cells2[m][i].name \in Dots
  PROVE  /\ Vol(own, pos, g, cells2, view, m, leak)
         /\ \A s : Live(cells2, s) <=> Live(cells, s)
         /\ \A s : Live(cells, s) => In(cells2, s) = In(cells, s)
         /\ own[m] = Mine
<1>0. /\ Labels(own, pos, g) /\ Names(own, pos, cells, view, m) /\ EntriesHold(own, pos, cells)
      /\ FilesHold(own, pos, cells, view) /\ DirectoriesHold(own, pos, cells)
      /\ UnitsHold(own, pos, cells) /\ LeaksHold(own, leak)
  BY DEF Vol
<1>1. own[m] = Mine
  BY <1>0, ClustersCounted DEF Names, HeadOf
<1>2. \A s : Live(cells, s) => s \in SlotSet /\ s[1] \in Cluster /\ s[1] # m
  <2> SUFFICES ASSUME NEW s, Live(cells, s) PROVE s \in SlotSet /\ s[1] \in Cluster /\ s[1] # m
    OBVIOUS
  <2>1. s \in SlotSet /\ s[1] \in Cluster
    BY Tags DEF Live
  <2>2. IsDirectory(cells, own[s[1]])
    BY <1>0, <2>1 DEF EntriesHold, EntryHolds
  <2> QED
    BY <2>1, <2>2, <1>1, OwnersAre
<1>3. \A s \in SlotSet : s[1] # m => In(cells2, s) = In(cells, s)
  BY Tags DEF In
<1>4. \A s \in SlotSet : s[1] = m => ~Live(cells2, s)
  BY Tags DEF In, Live
<1>5. \A s : Live(cells2, s) <=> Live(cells, s)
  BY <1>2, <1>3, <1>4 DEF Live
<1>6. \A s : Live(cells, s) => In(cells2, s) = In(cells, s)
  BY <1>2, <1>3
<1>7. \A o : /\ IsDirectory(cells2, o) <=> IsDirectory(cells, o)
             /\ IsFile(cells2, o) <=> IsFile(cells, o)
  BY <1>5, <1>6 DEF IsDirectory, IsFile
<1>8. \A c \in Cluster : IsDirectory(cells, own[c]) \/ IsFile(cells, own[c]) => c # m
  BY <1>1, OwnersAre
<1>9. Names(own, pos, cells2, view, m)
  BY <1>0, <1>5, <1>6 DEF Names, HasChain
<1>10. EntriesHold(own, pos, cells2)
  <2> SUFFICES ASSUME NEW s \in SlotSet, Live(cells2, s)
               PROVE  Stays(own, pos, cells, own, pos, cells2, s)
    BY <1>0, EntriesStay
  <2>1. IsDirectory(cells, own[s[1]])
    BY <1>0, <1>5 DEF EntriesHold, EntryHolds
  <2> QED
    BY <2>1, <1>5, <1>6, <1>7 DEF Stays
<1>11. FilesHold(own, pos, cells2, view)
  <2> SUFFICES ASSUME NEW k \in Handles, view[k] # Closed
               PROVE  FileHolds(own, pos, cells2, view[k])
    BY <1>0 DEF FilesHold
  <2>1. PICK f : f = view[k]
    OBVIOUS
  <2>2. FileHolds(own, pos, cells, f)
    BY <1>0, <2>1 DEF FilesHold
  <2>3. IsFile(cells2, f.slot) /\ In(cells2, f.slot).firstCluster \in {0, f.first}
    BY <2>2, <1>6, <1>7 DEF FileHolds, IsFile
  <2>4. FileHolds(own, pos, cells2, f)
    BY <2>2, <2>3, FileStays
  <2> QED
    BY <2>1, <2>4
<1>12. DirectoriesHold(own, pos, cells2)
  <2>1. \A c \in Cluster : IsDirectory(cells2, own[c]) =>
           /\ IsDirectory(cells, own[c])
           /\ own[c] = own[c] /\ pos[c] = pos[c]
           /\ \A i \in 1 .. ClusterSize :
                /\ cells2[c][i] = Zero <=> cells[c][i] = Zero
                /\ cells2[c][i] \in {cells[c][i], Deleted} \/ cells2[c][i].kind = "entry"
    BY <1>7, <1>8
  <2> QED
    BY <2>1, <1>0, DirectoriesStay
<1>13. UnitsHold(own, pos, cells2)
  BY <1>0, <1>7, <1>8 DEF UnitsHold
<1> QED
  BY <1>0, <1>1, <1>5, <1>6, <1>9, <1>10, <1>11, <1>12, <1>13 DEF Vol

(* The first cluster of a chain that no entry names any more is freed.      *)
LEMMA HeadFreed ==
  ASSUME NEW own, NEW pos, NEW g, NEW cells, NEW view, NEW leak, NEW m \in Cluster,
         Vol(own, pos, g, cells, view, m, leak),
         NEW h, Changed(g, m, FreeCluster, h), NEW own2, Changed(own, m, NoOwner, own2),
         NEW pos2, \A c \in Cluster : pos2[c] = IF own[c] = Mine /\ c # m THEN pos[c] - 1 ELSE pos[c]
  PROVE  Vol(own2, pos2, h, cells, view, IF g[m] \in Cluster THEN g[m] ELSE 0, leak)
<1>0. /\ Labels(own, pos, g) /\ Names(own, pos, cells, view, m) /\ EntriesHold(own, pos, cells)
      /\ FilesHold(own, pos, cells, view) /\ DirectoriesHold(own, pos, cells)
      /\ UnitsHold(own, pos, cells) /\ LeaksHold(own, leak)
  BY DEF Vol
<1>1. own[m] = Mine /\ pos[m] = 0
  BY <1>0, ClustersCounted DEF Names, HeadOf
<1>2. /\ own2[m] = NoOwner /\ pos2[m] = 0 /\ h[m] = FreeCluster
      /\ \A c \in Cluster : c # m => own2[c] = own[c] /\ h[c] = g[c]
      /\ \A c \in Cluster : own[c] # Mine => pos2[c] = pos[c]
      /\ \A c \in Cluster : own[c] = Mine /\ c # m =>
           pos[c] # 0 /\ pos2[c] = pos[c] - 1 /\ pos[c] \in Nat /\ pos2[c] \in Nat
  <2>1. \A c \in Cluster : own[c] = Mine /\ c # m => pos[c] # 0 /\ pos[c] \in Nat
    BY <1>0, <1>1, Tags DEF Labels
  <2> QED
    BY <2>1, <1>1 DEF Changed
<1>3. g[m] = EndOfChain \/ (g[m] \in Cluster /\ own[g[m]] = Mine /\ pos[g[m]] = 1)
  BY <1>0, <1>1, Tags DEF Labels
<1>4. FreeCluster # EndOfChain /\ 0 \notin Cluster /\ EndOfChain \notin Cluster
  BY ClustersCounted DEF FreeCluster, EndOfChain
<1>5. Labels(own2, pos2, h)
  <2>1. \A c \in Cluster : pos2[c] \in Nat
    BY <1>0, <1>2 DEF Labels
  <2>2. \A c \in Cluster : own2[c] = NoOwner <=> h[c] = FreeCluster
    BY <1>0, <1>2 DEF Labels
  <2>3. ASSUME NEW c \in Cluster, own2[c] # NoOwner
        PROVE  h[c] = EndOfChain \/ (h[c] \in Cluster /\ own2[h[c]] = own2[c] /\ pos2[h[c]] = pos2[c] + 1)
    <3>1. c # m /\ own2[c] = own[c] /\ h[c] = g[c] /\ pos[c] \in Nat
      BY <2>3, <1>2, <1>0 DEF Labels
    <3>2. g[c] = EndOfChain \/ (g[c] \in Cluster /\ own[g[c]] = own[c] /\ pos[g[c]] = pos[c] + 1)
      BY <3>1, <2>3, <1>0 DEF Labels
    <3>3. ASSUME g[c] \in Cluster PROVE g[c] # m
      BY <3>1, <3>2, <3>3, <1>1, <1>4
    <3> QED
      BY <3>1, <3>2, <3>3, <1>2
  <2>4. ASSUME NEW c \in Cluster, NEW d \in Cluster,
               own2[c] \notin {NoOwner, Lost}, own2[d] = own2[c], pos2[d] = pos2[c]
        PROVE  c = d
    <3>1. c # m /\ d # m /\ own[c] = own[d] /\ own[c] \notin {NoOwner, Lost}
      BY <2>4, <1>2
    <3>2. pos[c] = pos[d]
      BY <2>4, <3>1, <1>2
    <3> QED
      BY <3>1, <3>2, <1>0 DEF Labels
  <2>5. ASSUME NEW c \in Cluster, own2[c] \notin {NoOwner, Lost}, pos2[c] # 0
        PROVE  \E d \in Cluster : own2[d] = own2[c] /\ h[d] = c
    <3>1. c # m /\ own2[c] = own[c] /\ pos[c] # 0
      BY <2>5, <1>2
    <3>2. PICK d \in Cluster : own[d] = own[c] /\ g[d] = c
      BY <2>5, <3>1, <1>0 DEF Labels
    <3>3. d # m
      BY <2>5, <3>1, <3>2, <1>1, <1>2, <1>3, <1>4
    <3> QED
      BY <3>1, <3>2, <3>3, <1>2
  <2> QED
    BY <2>1, <2>2, <2>3, <2>4, <2>5 DEF Labels
<1>6. Names(own2, pos2, cells, view, IF g[m] \in Cluster THEN g[m] ELSE 0)
  <2>1. rootCluster \in Cluster /\ rootCluster # m
    BY <1>0, <1>1, Tags DEF Names, HeadOf
  <2>2. HeadOf(own2, pos2, Nowhere, rootCluster)
    BY <2>1, <1>0, <1>2, Tags DEF Names, HeadOf
  <2>3. CASE g[m] \in Cluster
    <3>1. g[m] # m
      BY <2>3, <1>1, <1>3, <1>4
    <3>2. HeadOf(own2, pos2, Mine, g[m])
      BY <2>3, <3>1, <1>2, <1>3, <1>4 DEF HeadOf
    <3>3. \A c \in Cluster : own2[c] \in {NoOwner, Lost} \/ HasChain(cells, view, g[m], own2[c])
      BY <2>3, <1>0, <1>2, <1>4 DEF Names, HasChain
    <3> QED
      BY <2>2, <2>3, <3>2, <3>3 DEF Names
  <2>4. CASE g[m] \notin Cluster
    <3>1. g[m] = EndOfChain
      BY <2>4, <1>3
    <3>2. \A c \in Cluster : own[c] = Mine => pos[c] <= pos[m]
      BY <3>1, <1>0, <1>1, Tags, LastIsFurthest DEF HeadOf
    <3>3. \A c \in Cluster : own2[c] # Mine
      BY <3>2, <1>1, <1>2, Tags
    <3>4. \A c \in Cluster : own2[c] \in {NoOwner, Lost} \/ HasChain(cells, view, 0, own2[c])
      BY <3>3, <1>0, <1>2 DEF Names, HasChain
    <3> QED
      BY <2>2, <2>4, <3>4 DEF Names
  <2> QED
    BY <2>3, <2>4
<1>7. /\ EntriesHold(own2, pos2, cells) /\ FilesHold(own2, pos2, cells, view)
      /\ DirectoriesHold(own2, pos2, cells) /\ UnitsHold(own2, pos2, cells)
  <2>1. \A c \in Cluster : own[c] \notin {NoOwner, Mine, Lost} => own2[c] = own[c] /\ pos2[c] = pos[c]
    BY <1>1, <1>2, Tags
  <2>2. \A c \in Cluster : own2[c] \notin {NoOwner, Mine, Lost} => own2[c] = own[c]
    BY <1>1, <1>2, Tags
  <2> QED
    BY <1>0, <2>1, <2>2, ClientsStay
<1>8. LeaksHold(own2, leak)
  BY <1>0, <1>1, <1>2, Tags DEF LeaksHold
<1> QED
  BY <1>5, <1>6, <1>7, <1>8 DEF Vol

(* A chain that no entry names yet, of one cluster, has that cluster only.  *)
LEMMA OnlyOneIsMine ==
  ASSUME NEW own, NEW pos, NEW g, NEW cells, NEW view, NEW m \in Cluster,
         Labels(own, pos, g), Names(own, pos, cells, view, m), g[m] = EndOfChain
  PROVE  /\ own[m] = Mine /\ pos[m] = 0
         /\ \A c \in Cluster : own[c] = Mine => c = m
         /\ \A c \in Cluster : g[c] # m \/ own[c] = NoOwner
<1>1. own[m] = Mine /\ pos[m] = 0
  BY ClustersCounted DEF Names, HeadOf
<1>2. \A c \in Cluster : own[c] = Mine => pos[c] <= pos[m]
  BY <1>1, Tags, LastIsFurthest DEF HeadOf
<1>3. ASSUME NEW c \in Cluster, own[c] = Mine PROVE c = m
  <2>1. pos[c] \in Nat /\ pos[c] <= 0
    BY <1>1, <1>2, <1>3 DEF Labels
  <2>2. pos[c] = pos[m]
    BY <2>1, <1>1
  <2> QED
    BY <2>2, <1>1, <1>3, Tags DEF Labels
<1>4. ASSUME NEW c \in Cluster, g[c] = m, own[c] # NoOwner PROVE FALSE
  <2>1. pos[m] = pos[c] + 1 /\ pos[c] \in Nat
    BY <1>4, ClustersCounted DEF Labels, EndOfChain
  <2> QED
    BY <2>1, <1>1
<1> QED
  BY <1>1, <1>3, <1>4

(* The cluster that was taken is linked to the end of a chain.              *)
LEMMA LinkLabels ==
  ASSUME NEW own, NEW pos, NEW g, NEW cells, NEW view, NEW leak, NEW m \in Cluster,
         Vol(own, pos, g, cells, view, m, leak), g[m] = EndOfChain,
         \A i \in 1 .. ClusterSize : cells[m][i] = Zero,
         NEW o, IsDirectory(cells, o) \/ IsFile(cells, o), NEW k, HeadOf(own, pos, o, k),
         IsDirectory(cells, o) =>
           \A c \in Cluster, i \in 1 .. ClusterSize : own[c] = o => cells[c][i] # Zero,
         NEW d \in Cluster, own[d] = o, g[d] = EndOfChain,
         NEW h, Changed(g, d, m, h),
         NEW own2, Changed(own, m, o, own2), NEW pos2, Changed(pos, m, pos[d] + 1, pos2)
  PROVE  Vol(own2, pos2, h, cells, view, 0, leak)
<1>0. /\ Labels(own, pos, g) /\ Names(own, pos, cells, view, m) /\ EntriesHold(own, pos, cells)
      /\ FilesHold(own, pos, cells, view) /\ DirectoriesHold(own, pos, cells)
      /\ UnitsHold(own, pos, cells) /\ LeaksHold(own, leak)
  BY DEF Vol
<1>1. /\ own[m] = Mine /\ pos[m] = 0
      /\ \A c \in Cluster : own[c] = Mine => c = m
      /\ \A c \in Cluster : g[c] # m \/ own[c] = NoOwner
  BY <1>0, OnlyOneIsMine
<1>2. o \notin {NoOwner, Lost, Mine}
  BY OwnersAre
<1>3. \A c \in Cluster : own[c] = o => pos[c] <= pos[d] /\ pos[c] \in Nat
  BY <1>0, <1>2, LastIsFurthest DEF Labels
<1>4. /\ d # m /\ h[d] = m /\ h[m] = EndOfChain /\ own2[m] = o /\ pos2[m] = pos[d] + 1
      /\ \A c \in Cluster : c # m => own2[c] = own[c] /\ pos2[c] = pos[c]
      /\ \A c \in Cluster : c # d => h[c] = g[c]
  BY <1>1, <1>2 DEF Changed
<1>5. FreeCluster # EndOfChain /\ 0 \notin Cluster /\ EndOfChain \notin Cluster
  BY ClustersCounted DEF FreeCluster, EndOfChain
<1>6. Labels(own2, pos2, h)
  <2>1. \A c \in Cluster : pos2[c] \in Nat
    BY <1>0, <1>3, <1>4 DEF Labels
  <2>2. \A c \in Cluster : own2[c] = NoOwner <=> h[c] = FreeCluster
    BY <1>0, <1>1, <1>2, <1>4, <1>5, Tags DEF Labels, FreeCluster
  <2>3. ASSUME NEW c \in Cluster, own2[c] # NoOwner
        PROVE  h[c] = EndOfChain \/ (h[c] \in Cluster /\ own2[h[c]] = own2[c] /\ pos2[h[c]] = pos2[c] + 1)
    <3>1. CASE c = m
      BY <3>1, <1>4
    <3>2. CASE c = d
      BY <3>2, <1>4
    <3>3. CASE c # m /\ c # d
      BY <3>3, <2>3, <1>0, <1>1, <1>4 DEF Labels
    <3> QED
      BY <3>1, <3>2, <3>3
  <2>4. ASSUME NEW c \in Cluster, NEW e \in Cluster,
               own2[c] \notin {NoOwner, Lost}, own2[e] = own2[c], pos2[e] = pos2[c]
        PROVE  c = e
    <3>1. CASE c # m /\ e # m
      BY <3>1, <2>4, <1>0, <1>4 DEF Labels
    <3>2. ASSUME NEW x \in Cluster, x # m, own2[x] = o PROVE pos2[x] # pos2[m]
      <4>1. pos2[x] = pos[x] /\ pos[x] <= pos[d] /\ pos[x] \in Nat /\ pos[d] \in Nat
        BY <3>2, <1>3, <1>4
      <4> QED
        BY <4>1, <1>4
    <3> QED
      BY <3>1, <3>2, <2>4, <1>4
  <2>5. ASSUME NEW c \in Cluster, own2[c] \notin {NoOwner, Lost}, pos2[c] # 0
        PROVE  \E e \in Cluster : own2[e] = own2[c] /\ h[e] = c
    <3>1. CASE c = m
      BY <3>1, <1>4
    <3>2. CASE c # m
      <4>1. PICK e \in Cluster : own[e] = own[c] /\ g[e] = c
        BY <2>5, <3>2, <1>0, <1>4 DEF Labels
      <4>2. e # d /\ e # m
        BY <4>1, <2>5, <3>2, <1>1, <1>4, <1>5
      <4> QED
        BY <4>1, <4>2, <3>2, <1>4
    <3> QED
      BY <3>1, <3>2
  <2> QED
    BY <2>1, <2>2, <2>3, <2>4, <2>5 DEF Labels
<1>7. Names(own2, pos2, cells, view, 0)
  <2>1. rootCluster \in Cluster /\ rootCluster # m
    BY <1>0, <1>1, Tags DEF Names, HeadOf
  <2>2. HeadOf(own2, pos2, Nowhere, rootCluster)
    BY <2>1, <1>0, <1>4 DEF Names, HeadOf
  <2>3. HasChain(cells, view, m, o)
    BY <1>0, <1>2 DEF Names
  <2>4. ASSUME NEW c \in Cluster
        PROVE  own2[c] \in {NoOwner, Lost} \/ HasChain(cells, view, 0, own2[c])
    <3>1. (HasChain(cells, view, m, own2[c]) /\ own2[c] # Mine) \/ own2[c] \in {NoOwner, Lost}
      BY <2>3, <1>0, <1>1, <1>2, <1>4 DEF Names
    <3> QED
      BY <3>1 DEF HasChain
  <2> QED
    BY <2>2, <2>4 DEF Names
<1>8. \A x : x # Mine => \A c \in Cluster : own[c] = x => own2[c] = x /\ pos2[c] = pos[c]
  BY <1>1, <1>4
<1>9. EntriesHold(own2, pos2, cells)
  <2> SUFFICES ASSUME NEW s \in SlotSet, Live(cells, s)
               PROVE  Stays(own, pos, cells, own2, pos2, cells, s)
    BY <1>0, EntriesStay
  <2>1. IsDirectory(cells, own[s[1]]) /\ s[1] \in Cluster
    BY <1>0, Tags DEF EntriesHold, EntryHolds
  <2> QED
    BY <2>1, <1>8, OwnersAre DEF Stays
<1>10. FilesHold(own2, pos2, cells, view)
  <2> SUFFICES ASSUME NEW j \in Handles, view[j] # Closed
               PROVE  FileHolds(own2, pos2, cells, view[j])
    BY <1>0 DEF FilesHold
  <2>1. PICK f : f = view[j]
    OBVIOUS
  <2>2. FileHolds(own, pos, cells, f)
    BY <1>0, <2>1 DEF FilesHold
  <2>3. IsFile(cells, f.slot) /\ f.slot # Mine /\ In(cells, f.slot).firstCluster \in {0, f.first}
    BY <2>2, OwnersAre DEF FileHolds
  <2>4. FileHolds(own2, pos2, cells, f)
    BY <2>2, <2>3, <1>8, FileStays
  <2> QED
    BY <2>1, <2>4
<1>11. DirectoriesHold(own2, pos2, cells)
  <2> SUFFICES ASSUME NEW c \in Cluster, IsDirectory(cells, own2[c]), NEW i \in 1 .. ClusterSize
               PROVE  /\ cells[c][i] \in {Zero, Deleted} \/ cells[c][i].kind = "entry"
                      /\ cells[c][i] = Zero =>
                           \A e \in Cluster, j \in 1 .. ClusterSize :
                             own2[e] = own2[c] /\ Before(pos2[c], i, pos2[e], j) => cells[e][j] = Zero
    BY DEF DirectoriesHold
  <2>1. CASE c = m
    <3>1. ASSUME NEW e \in Cluster, NEW j \in 1 .. ClusterSize,
                 own2[e] = own2[c], Before(pos2[c], i, pos2[e], j)
          PROVE  e = m
      <4> SUFFICES ASSUME e # m PROVE FALSE
        OBVIOUS
      <4>1. pos2[e] = pos[e] /\ pos[e] <= pos[d] /\ pos[e] \in Nat /\ pos[d] \in Nat
        BY <2>1, <3>1, <1>3, <1>4
      <4> QED
        BY <4>1, <2>1, <3>1, <1>4 DEF Before
    <3> QED
      BY <2>1, <3>1
  <2>2. CASE c # m
    <3>1. own2[c] = own[c] /\ pos2[c] = pos[c] /\ IsDirectory(cells, own[c])
      BY <2>2, <1>4
    <3>2. ASSUME cells[c][i] = Zero, NEW e \in Cluster, NEW j \in 1 .. ClusterSize,
                 own2[e] = own2[c], Before(pos2[c], i, pos2[e], j)
          PROVE  cells[e][j] = Zero
      BY <3>1, <3>2, <1>0, <1>4 DEF DirectoriesHold
    <3>3. cells[c][i] \in {Zero, Deleted} \/ cells[c][i].kind = "entry"
      BY <3>1, <1>0 DEF DirectoriesHold
    <3> QED
      BY <3>2, <3>3
  <2> QED
    BY <2>1, <2>2
<1>12. UnitsHold(own2, pos2, cells)
  BY <1>0, <1>4 DEF UnitsHold
<1>13. LeaksHold(own2, leak)
  BY <1>0, <1>1, <1>2, <1>4, Tags DEF LeaksHold
<1> QED
  BY <1>6, <1>7, <1>9, <1>10, <1>11, <1>12, <1>13 DEF Vol

(* The clusters of one owner are handed on to another.                      *)
Renamed(own, a, b, own2) ==
  \A c \in Cluster : own2[c] = IF own[c] = a THEN b ELSE own[c]

(* An owner whose chain passes to another, who had none or has lost it.     *)
LEMMA LabelsRenamed ==
  ASSUME NEW own, NEW pos, NEW g, Labels(own, pos, g),
         NEW a, a \notin {NoOwner, Lost}, NEW b, b # NoOwner,
         b = Lost \/ \A c \in Cluster : own[c] # b,
         NEW own2, Renamed(own, a, b, own2)
  PROVE  Labels(own2, pos, g)
<1>1. /\ \A c \in Cluster : own[c] = a => own2[c] = b
      /\ \A c \in Cluster : own[c] # a => own2[c] = own[c]
  BY DEF Renamed
<1>2. \A c \in Cluster : own2[c] = NoOwner <=> g[c] = FreeCluster
  BY <1>1 DEF Labels
<1>3. ASSUME NEW c \in Cluster, own2[c] # NoOwner
      PROVE  g[c] = EndOfChain \/ (g[c] \in Cluster /\ own2[g[c]] = own2[c] /\ pos[g[c]] = pos[c] + 1)
  <2>1. own[c] # NoOwner
    BY <1>1, <1>3
  <2>2. g[c] = EndOfChain \/ (g[c] \in Cluster /\ own[g[c]] = own[c] /\ pos[g[c]] = pos[c] + 1)
    BY <2>1 DEF Labels
  <2> QED
    BY <2>2, <1>1
<1>4. ASSUME NEW c \in Cluster, NEW d \in Cluster,
             own2[c] \notin {NoOwner, Lost}, own2[d] = own2[c], pos[d] = pos[c]
      PROVE  c = d
  <2>1. own[c] \notin {NoOwner, Lost} /\ own[d] = own[c]
    BY <1>1, <1>4
  <2> QED
    BY <2>1, <1>4 DEF Labels
<1>5. ASSUME NEW c \in Cluster, own2[c] \notin {NoOwner, Lost}, pos[c] # 0
      PROVE  \E d \in Cluster : own2[d] = own2[c] /\ g[d] = c
  <2>1. own[c] \notin {NoOwner, Lost}
    BY <1>1, <1>5
  <2>2. PICK d \in Cluster : own[d] = own[c] /\ g[d] = c
    BY <2>1, <1>5 DEF Labels
  <2> QED
    BY <2>2, <1>1
<1> QED
  BY <1>2, <1>3, <1>4, <1>5 DEF Labels

(* An entry is written into a slot that is ready for it, and takes over the *)
(* chain that was made for it.                                              *)
LEMMA EntryLabels ==
  ASSUME NEW own, NEW pos, NEW g, NEW cells, NEW view, NEW leak, NEW m,
         Vol(own, pos, g, cells, view, m, leak),
         NEW s \in SlotSet, IsDirectory(cells, own[s[1]]), In(cells, s) \in {Zero, Deleted},
         \A c \in Cluster, i \in 1 .. ClusterSize :
           own[c] = own[s[1]] /\ Before(pos[c], i, pos[s[1]], s[2]) => cells[c][i] # Zero,
         NEW e, e.kind = "entry", e.name \notin Dots, e.size = 0, e.firstCluster = m,
         IF e.dir THEN /\ m \in Cluster /\ own[s[1]] = Nowhere /\ g[m] = EndOfChain
                       /\ \A i \in 1 .. ClusterSize :
                            /\ cells[m][i] = Zero \/ cells[m][i].kind = "entry"
                            /\ cells[m][i] = Zero =>
                                 \A j \in 1 .. ClusterSize : i < j => cells[m][j] = Zero
         ELSE m = 0,
         NEW own2, Renamed(own, Mine, s, own2)
  PROVE  /\ Vol(own2, pos, g, Put(cells, s, e), view, 0, leak)
         /\ \A t : Live(Put(cells, s, e), t) <=> t = s \/ Live(cells, t)
         /\ \A t : Live(cells, t) => In(Put(cells, s, e), t) = In(cells, t)
         /\ ~Live(cells, s)
<1>0. /\ Labels(own, pos, g) /\ Names(own, pos, cells, view, m) /\ EntriesHold(own, pos, cells)
      /\ FilesHold(own, pos, cells, view) /\ DirectoriesHold(own, pos, cells)
      /\ UnitsHold(own, pos, cells) /\ LeaksHold(own, leak)
  BY DEF Vol
<1>1. PICK cells2 : cells2 = Put(cells, s, e)
  OBVIOUS
<1>2. /\ In(cells2, s) = e
      /\ \A t \in SlotSet : t # s => In(cells2, t) = In(cells, t)
      /\ \A c \in Cluster, i \in 1 .. ClusterSize :
           cells2[c][i] = IF c = s[1] /\ i = s[2] THEN e ELSE cells[c][i]
  BY <1>1, PutIs
<1>3. ~Live(cells, s)
  BY DEF Live, Zero, Deleted
<1>4. \A t : Live(cells2, t) <=> t = s \/ Live(cells, t)
  BY <1>2 DEF Live
<1>5. \A t : Live(cells, t) => t # s /\ In(cells2, t) = In(cells, t)
  BY <1>2, <1>3 DEF Live
<1>6. /\ \A o : IsDirectory(cells, o) => IsDirectory(cells2, o)
      /\ \A o : IsFile(cells, o) => IsFile(cells2, o)
      /\ \A o : o # s /\ IsDirectory(cells2, o) => IsDirectory(cells, o)
      /\ \A o : o # s /\ IsFile(cells2, o) => IsFile(cells, o)
  BY <1>4, <1>5 DEF IsDirectory, IsFile
<1>7. s \notin {Nowhere, NoOwner, Lost, Mine} /\ s[1] \in Cluster /\ s[2] \in 1 .. ClusterSize
  BY Tags DEF Tag
<1>8. \A c \in Cluster : own[c] # s
  <2> SUFFICES ASSUME NEW c \in Cluster, own[c] = s PROVE FALSE
    OBVIOUS
  <2>1. HasChain(cells, view, m, s)
    BY <1>0, <1>7 DEF Names
  <2> QED
    BY <2>1, <1>3, <1>7 DEF HasChain
<1>9. /\ \A c \in Cluster : own[c] = Mine => own2[c] = s
      /\ \A c \in Cluster : own[c] # Mine => own2[c] = own[c]
      /\ \A c \in Cluster : own2[c] = s => own[c] = Mine
  BY <1>8 DEF Renamed
<1>10. m = 0 => \A c \in Cluster : own[c] # Mine
  BY <1>0, NoneIsMine
<1>11. m # 0 => m \in Cluster /\ own[m] = Mine /\ pos[m] = 0 /\ e.dir
  BY <1>0 DEF Names, HeadOf
<1>12. m # 0 => \A c \in Cluster : own[c] = Mine => c = m
  BY <1>0, <1>11, OnlyOneIsMine
<1>13. Labels(own2, pos, g)
  BY <1>0, <1>7, <1>8, Tags, LabelsRenamed
<1>14. Names(own2, pos, cells2, view, 0)
  <2>1. HeadOf(own2, pos, Nowhere, rootCluster)
    BY <1>0, <1>9, Tags DEF Names, HeadOf
  <2>2. ASSUME NEW c \in Cluster
        PROVE  own2[c] \in {NoOwner, Lost} \/ HasChain(cells2, view, 0, own2[c])
    <3>1. CASE own[c] = Mine
      <4>1. own2[c] = s /\ m # 0
        BY <3>1, <1>9, <1>10
      <4>2. HasChain(cells2, view, 0, s)
        BY <4>1, <1>2, <1>4 DEF HasChain
      <4> QED
        BY <4>1, <4>2
    <3>2. CASE own[c] # Mine
      <4>1. own2[c] = own[c]
        BY <3>2, <1>9
      <4>2. own[c] \in {NoOwner, Lost} \/ HasChain(cells, view, m, own[c])
        BY <1>0 DEF Names
      <4>3. HasChain(cells, view, m, own[c]) => HasChain(cells2, view, 0, own[c])
        BY <3>2, <1>4, <1>5 DEF HasChain
      <4> QED
        BY <4>1, <4>2, <4>3
    <3> QED
      BY <3>1, <3>2
  <2> QED
    BY <2>1, <2>2 DEF Names
<1>15. EntriesHold(own2, pos, cells2)
  <2> SUFFICES ASSUME NEW t \in SlotSet, Live(cells2, t)
               PROVE  \/ Stays(own, pos, cells, own2, pos, cells2, t)
                      \/ EntryHolds(own2, pos, cells2, t, In(cells2, t))
    BY <1>0, EntriesStay
  <2>1. CASE t = s
    <3>1. own2[s[1]] = own[s[1]]
      BY <1>7, <1>9, OwnersAre
    <3>2. m # 0 => HeadOf(own2, pos, s, m)
      BY <1>9, <1>11 DEF HeadOf
    <3>3. e.dir => m # 0 /\ own[s[1]] = Nowhere
      BY ClustersCounted
    <3>4. Fits(own2, pos, s, e.firstCluster, e.size)
      BY DEF Fits
    <3> QED
      BY <2>1, <3>1, <3>2, <3>3, <3>4, <1>2, <1>6 DEF EntryHolds
  <2>2. CASE t # s
    <3>1. Live(cells, t)
      BY <2>2, <1>4
    <3>2. IsDirectory(cells, own[t[1]]) /\ t[1] \in Cluster
      BY <3>1, <1>0, Tags DEF EntriesHold, EntryHolds
    <3>3. t # Mine
      BY <3>1, OwnersAre
    <3> QED
      BY <3>1, <3>2, <3>3, <1>5, <1>6, <1>9, OwnersAre DEF Stays
  <2> QED
    BY <2>1, <2>2
<1>16. FilesHold(own2, pos, cells2, view)
  <2> SUFFICES ASSUME NEW j \in Handles, view[j] # Closed
               PROVE  FileHolds(own2, pos, cells2, view[j])
    BY <1>0 DEF FilesHold
  <2>1. PICK f : f = view[j]
    OBVIOUS
  <2>2. FileHolds(own, pos, cells, f)
    BY <1>0, <2>1 DEF FilesHold
  <2>3. IsFile(cells, f.slot) /\ Live(cells, f.slot) /\ In(cells, f.slot).firstCluster \in {0, f.first}
    BY <2>2 DEF FileHolds, IsFile
  <2>4. f.slot # Mine /\ IsFile(cells2, f.slot) /\ In(cells2, f.slot).firstCluster \in {0, f.first}
    BY <2>3, <1>5, <1>6, OwnersAre
  <2>5. FileHolds(own2, pos, cells2, f)
    BY <2>2, <2>4, <1>9, FileStays
  <2> QED
    BY <2>1, <2>5
<1>17. DirectoriesHold(own2, pos, cells2)
  <2> SUFFICES ASSUME NEW c \in Cluster, IsDirectory(cells2, own2[c]), NEW i \in 1 .. ClusterSize
               PROVE  /\ cells2[c][i] \in {Zero, Deleted} \/ cells2[c][i].kind = "entry"
                      /\ cells2[c][i] = Zero =>
                           \A d \in Cluster, j \in 1 .. ClusterSize :
                             own2[d] = own2[c] /\ Before(pos[c], i, pos[d], j) => cells2[d][j] = Zero
    BY DEF DirectoriesHold
  <2>1. CASE own2[c] = s
    <3>1. own[c] = Mine /\ m # 0 /\ c = m /\ s[1] # m
      BY <2>1, <1>7, <1>9, <1>10, <1>12, OwnersAre
    <3>2. \A j \in 1 .. ClusterSize : cells2[m][j] = cells[m][j]
      BY <3>1, <1>2
    <3>3. \A d \in Cluster : own2[d] = s => d = m
      BY <3>1, <1>9, <1>12
    <3>4. \A j \in 1 .. ClusterSize : Before(pos[m], i, pos[m], j) => i < j
      BY <1>11, <3>1 DEF Before
    <3> QED
      BY <2>1, <3>1, <3>2, <3>3, <3>4, <1>11
  <2>2. CASE own2[c] # s
    <3>1. own2[c] = own[c] /\ IsDirectory(cells, own[c])
      BY <2>2, <1>6, <1>9
    <3>2. cells2[c][i] = e \/ (cells2[c][i] = cells[c][i] /\ ~(c = s[1] /\ i = s[2]))
      BY <1>2
    <3>3. e # Zero
      BY DEF Zero
    <3>4. ASSUME cells2[c][i] = Zero, NEW d \in Cluster, NEW j \in 1 .. ClusterSize,
                 own2[d] = own2[c], Before(pos[c], i, pos[d], j)
          PROVE  cells2[d][j] = Zero
      <4>1. cells[c][i] = Zero /\ own[d] = own[c]
        BY <2>2, <3>1, <3>2, <3>3, <3>4, <1>9
      <4>2. cells[d][j] = Zero
        BY <3>1, <3>4, <4>1, <1>0 DEF DirectoriesHold
      <4>3. ~(d = s[1] /\ j = s[2])
        BY <3>4, <4>1
      <4> QED
        BY <4>2, <4>3, <1>2
    <3>5. cells[c][i] \in {Zero, Deleted} \/ cells[c][i].kind = "entry"
      BY <3>1, <1>0 DEF DirectoriesHold
    <3> QED
      BY <3>2, <3>4, <3>5
  <2> QED
    BY <2>1, <2>2
<1>18. UnitsHold(own2, pos, cells2)
  <2> SUFFICES ASSUME NEW c \in Cluster, IsFile(cells2, own2[c])
               PROVE  /\ IsFile(cells, own[c])
                      /\ \A i \in 1 .. ClusterSize : cells2[c][i] = cells[c][i]
    BY <1>0, UnitsStay
  <2>1. own2[c] # s
    <3> SUFFICES ASSUME own2[c] = s PROVE FALSE
      OBVIOUS
    <3>1. m # 0 /\ e.dir
      BY <1>9, <1>10, <1>11
    <3> QED
      BY <3>1, <1>2 DEF IsFile
  <2>2. own2[c] = own[c] /\ IsFile(cells, own[c])
    BY <2>1, <1>6, <1>9
  <2>3. c # s[1]
    BY <2>2, OwnersAre
  <2> QED
    BY <2>2, <2>3, <1>2
<1>19. LeaksHold(own2, leak)
  BY <1>0, <1>7, <1>9, Tags DEF LeaksHold
<1>20. Vol(own2, pos, g, cells2, view, 0, leak)
  BY <1>13, <1>14, <1>15, <1>16, <1>17, <1>18, <1>19 DEF Vol
<1> QED
  BY <1>1, <1>3, <1>4, <1>5, <1>20

(* A file is opened.                                                        *)
LEMMA OpenLabels ==
  ASSUME NEW own, NEW pos, NEW g, NEW cells, NEW view, NEW leak, NEW m,
         Vol(own, pos, g, cells, view, m, leak),
         NEW s, IsFile(cells, s), Unused(view, s), NEW h, view[h] = Closed,
         NEW f, f # Closed, f.slot = s, f.first = In(cells, s).firstCluster,
         f.size = In(cells, s).size,
         NEW view2, \A k \in Handles : view2[k] = IF k = h THEN f ELSE view[k]
  PROVE  Vol(own, pos, g, cells, view2, m, leak)
<1>0. /\ Labels(own, pos, g) /\ Names(own, pos, cells, view, m) /\ EntriesHold(own, pos, cells)
      /\ FilesHold(own, pos, cells, view) /\ DirectoriesHold(own, pos, cells)
      /\ UnitsHold(own, pos, cells) /\ LeaksHold(own, leak)
  BY DEF Vol
<1>1. \A o : HasChain(cells, view, m, o) => HasChain(cells, view2, m, o)
  BY DEF HasChain, Opens
<1>2. Names(own, pos, cells, view2, m)
  BY <1>0, <1>1 DEF Names
<1>3. s \in SlotSet /\ Live(cells, s)
  BY DEF IsFile, Live
<1>4. EntryHolds(own, pos, cells, s, In(cells, s))
  BY <1>0, <1>3 DEF EntriesHold
<1>5. FileHolds(own, pos, cells, f)
  BY <1>4 DEF EntryHolds, FileHolds
<1>6. FilesHold(own, pos, cells, view2)
  <2> SUFFICES ASSUME NEW j \in Handles, view2[j] # Closed
               PROVE  /\ FileHolds(own, pos, cells, view2[j])
                      /\ \A k \in Handles : Opens(view2, k, view2[j].slot) => k = j
    BY DEF FilesHold
  <2>1. CASE j = h
    <3>1. \A k \in Handles : Opens(view2, k, s) => k = h
      BY DEF Unused, Opens
    <3> QED
      BY <2>1, <3>1, <1>5
  <2>2. CASE j # h
    <3>1. view2[j] = view[j] /\ view[j] # Closed /\ view[j].slot # s
      BY <2>2 DEF Unused, Opens
    <3>2. FileHolds(own, pos, cells, view[j])
      BY <3>1, <1>0 DEF FilesHold
    <3>3. \A k \in Handles : Opens(view2, k, view[j].slot) => Opens(view, k, view[j].slot)
      BY <3>1 DEF Opens
    <3>4. \A k \in Handles : Opens(view, k, view[j].slot) => k = j
      BY <3>1, <1>0 DEF FilesHold
    <3> QED
      BY <3>1, <3>2, <3>3, <3>4
  <2> QED
    BY <2>1, <2>2
<1> QED
  BY <1>0, <1>2, <1>6 DEF Vol

(* An open file whose entry names its chain is closed.                      *)
LEMMA CloseLabels ==
  ASSUME NEW own, NEW pos, NEW g, NEW cells, NEW view, NEW leak, NEW m,
         Vol(own, pos, g, cells, view, m, leak),
         NEW h \in Handles, view[h] # Closed,
         In(cells, view[h].slot).firstCluster = view[h].first,
         NEW view2, \A k \in Handles : view2[k] = IF k = h THEN Closed ELSE view[k]
  PROVE  Vol(own, pos, g, cells, view2, m, leak)
<1>0. /\ Labels(own, pos, g) /\ Names(own, pos, cells, view, m) /\ EntriesHold(own, pos, cells)
      /\ FilesHold(own, pos, cells, view) /\ DirectoriesHold(own, pos, cells)
      /\ UnitsHold(own, pos, cells) /\ LeaksHold(own, leak)
  BY DEF Vol
<1>1. \A o : HasChain(cells, view, m, o) => HasChain(cells, view2, m, o)
  BY DEF HasChain, Opens
<1>2. Names(own, pos, cells, view2, m)
  BY <1>0, <1>1 DEF Names
<1>3. FilesHold(own, pos, cells, view2)
  BY <1>0 DEF FilesHold, Opens
<1> QED
  BY <1>0, <1>2, <1>3 DEF Vol

(* One whose entry names none takes its clusters along.                     *)
LEMMA LeakLabels ==
  ASSUME NEW own, NEW pos, NEW g, NEW cells, NEW view, NEW leak,
         Vol(own, pos, g, cells, view, 0, leak),
         NEW h \in Handles, view[h] # Closed,
         In(cells, view[h].slot).firstCluster # view[h].first,
         NEW view2, \A k \in Handles : view2[k] = IF k = h THEN Closed ELSE view[k],
         NEW own2, Renamed(own, view[h].slot, Lost, own2),
         NEW leak2, \A c \in Cluster : c \in leak2 <=> c \in leak \/ own[c] = view[h].slot
  PROVE  Vol(own2, pos, g, cells, view2, 0, leak2)
<1>0. /\ Labels(own, pos, g) /\ Names(own, pos, cells, view, 0) /\ EntriesHold(own, pos, cells)
      /\ FilesHold(own, pos, cells, view) /\ DirectoriesHold(own, pos, cells)
      /\ UnitsHold(own, pos, cells) /\ LeaksHold(own, leak)
  BY DEF Vol
<1>1. PICK s : s = view[h].slot
  OBVIOUS
<1>2. /\ IsFile(cells, s) /\ Live(cells, s) /\ s \in SlotSet
      /\ In(cells, s).firstCluster = 0
      /\ \A k \in Handles : Opens(view, k, s) => k = h
  BY <1>0, <1>1 DEF FilesHold, FileHolds, IsFile, Live
<1>3. s \notin {Nowhere, NoOwner, Lost, Mine}
  BY <1>2, OwnersAre
<1>4. /\ \A c \in Cluster : own[c] = s => own2[c] = Lost
      /\ \A c \in Cluster : own[c] # s => own2[c] = own[c]
      /\ \A c \in Cluster : own2[c] # Lost => own2[c] = own[c]
  BY <1>1 DEF Renamed
<1>5. Labels(own2, pos, g)
  BY <1>0, <1>1, <1>3, Tags, LabelsRenamed
<1>6. Names(own2, pos, cells, view2, 0)
  <2>1. HeadOf(own2, pos, Nowhere, rootCluster)
    BY <1>0, <1>3, <1>4 DEF Names, HeadOf
  <2>2. \A o : o # s /\ HasChain(cells, view, 0, o) => HasChain(cells, view2, 0, o)
    BY <1>1 DEF HasChain, Opens
  <2>3. \A c \in Cluster : own2[c] \in {NoOwner, Lost} \/ HasChain(cells, view2, 0, own2[c])
    BY <2>2, <1>0, <1>4 DEF Names
  <2> QED
    BY <2>1, <2>3 DEF Names
<1>7. EntriesHold(own2, pos, cells)
  <2> SUFFICES ASSUME NEW t \in SlotSet, Live(cells, t)
               PROVE  \/ Stays(own, pos, cells, own2, pos, cells, t)
                      \/ EntryHolds(own2, pos, cells, t, In(cells, t))
    BY <1>0, EntriesStay
  <2>1. EntryHolds(own, pos, cells, t, In(cells, t)) /\ t[1] \in Cluster
    BY <1>0, Tags DEF EntriesHold
  <2>2. own2[t[1]] = own[t[1]]
    BY <2>1, <1>2, <1>4, OwnersAre DEF EntryHolds
  <2>3. CASE t = s
    BY <2>1, <2>2, <2>3, <1>2 DEF EntryHolds, Fits, IsFile
  <2>4. CASE t # s
    BY <2>1, <2>2, <2>4, <1>4 DEF Stays, EntryHolds
  <2> QED
    BY <2>3, <2>4
<1>8. FilesHold(own2, pos, cells, view2)
  <2> SUFFICES ASSUME NEW j \in Handles, view2[j] # Closed
               PROVE  /\ FileHolds(own2, pos, cells, view2[j])
                      /\ \A k \in Handles : Opens(view2, k, view2[j].slot) => k = j
    BY DEF FilesHold
  <2>1. PICK f : f = view2[j]
    OBVIOUS
  <2>2. j # h /\ f = view[j] /\ view[j] # Closed
    BY <2>1
  <2>3. FileHolds(own, pos, cells, f)
    BY <2>2, <1>0 DEF FilesHold
  <2>4. f.slot # s /\ IsFile(cells, f.slot) /\ In(cells, f.slot).firstCluster \in {0, f.first}
    BY <2>2, <2>3, <1>2 DEF Opens, FileHolds
  <2>5. FileHolds(own2, pos, cells, f)
    BY <2>3, <2>4, <1>4, FileStays
  <2>6. \A k \in Handles : Opens(view2, k, f.slot) => Opens(view, k, f.slot)
    BY DEF Opens
  <2>7. \A k \in Handles : Opens(view, k, f.slot) => k = j
    BY <2>2, <1>0 DEF FilesHold
  <2> QED
    BY <2>1, <2>5, <2>6, <2>7
<1>9. \A c \in Cluster : IsDirectory(cells, own2[c]) \/ IsFile(cells, own2[c]) => own2[c] = own[c]
  BY <1>4, OwnersAre
<1>10. DirectoriesHold(own2, pos, cells)
  <2>1. \A c \in Cluster : IsDirectory(cells, own2[c]) =>
           /\ IsDirectory(cells, own[c])
           /\ own2[c] = own[c] /\ pos[c] = pos[c]
           /\ \A i \in 1 .. ClusterSize :
                /\ cells[c][i] = Zero <=> cells[c][i] = Zero
                /\ cells[c][i] \in {cells[c][i], Deleted} \/ cells[c][i].kind = "entry"
    BY <1>9
  <2> QED
    BY <2>1, <1>0, DirectoriesStay
<1>11. UnitsHold(own2, pos, cells)
  BY <1>0, <1>9 DEF UnitsHold
<1>12. LeaksHold(own2, leak2)
  BY <1>0, <1>1, <1>4 DEF LeaksHold
<1> QED
  BY <1>5, <1>6, <1>7, <1>8, <1>10, <1>11, <1>12 DEF Vol

(* An open file without clusters gets its first one.                        *)
LEMMA FirstLabels ==
  ASSUME NEW own, NEW pos, NEW g, NEW cells, NEW view, NEW leak, NEW m \in Cluster,
         Vol(own, pos, g, cells, view, m, leak), g[m] = EndOfChain,
         \A i \in 1 .. ClusterSize : cells[m][i] = Zero,
         NEW h \in Handles, view[h] # Closed, view[h].first = 0,
         NEW f, f # Closed, f.slot = view[h].slot, f.first = m, f.size = view[h].size,
         NEW view2, \A k \in Handles : view2[k] = IF k = h THEN f ELSE view[k],
         NEW own2, Renamed(own, Mine, f.slot, own2)
  PROVE  Vol(own2, pos, g, cells, view2, 0, leak)
<1>0. /\ Labels(own, pos, g) /\ Names(own, pos, cells, view, m) /\ EntriesHold(own, pos, cells)
      /\ FilesHold(own, pos, cells, view) /\ DirectoriesHold(own, pos, cells)
      /\ UnitsHold(own, pos, cells) /\ LeaksHold(own, leak)
  BY DEF Vol
<1>1. PICK s : s = view[h].slot
  OBVIOUS
<1>2. /\ IsFile(cells, s) /\ Live(cells, s) /\ s \in SlotSet
      /\ In(cells, s).firstCluster = 0 /\ f.size = 0
      /\ \A k \in Handles : Opens(view, k, s) => k = h
  BY <1>0, <1>1 DEF FilesHold, FileHolds, IsFile, Live, Fits
<1>3. s \notin {Nowhere, NoOwner, Lost, Mine}
  BY <1>2, OwnersAre
<1>4. /\ own[m] = Mine /\ pos[m] = 0
      /\ \A c \in Cluster : own[c] = Mine => c = m
  BY <1>0, OnlyOneIsMine
<1>5. \A c \in Cluster : own[c] # s
  <2> SUFFICES ASSUME NEW c \in Cluster, own[c] = s PROVE FALSE
    OBVIOUS
  <2>1. HasChain(cells, view, m, s)
    BY <1>0, <1>3 DEF Names
  <2> QED
    BY <2>1, <1>1, <1>2, <1>3 DEF HasChain
<1>6. /\ own2[m] = s
      /\ \A c \in Cluster : c # m => own2[c] = own[c] /\ own[c] # Mine
  BY <1>1, <1>4 DEF Renamed
<1>7. Labels(own2, pos, g)
  BY <1>0, <1>1, <1>3, <1>5, Tags, LabelsRenamed
<1>8. Names(own2, pos, cells, view2, 0)
  <2>1. HeadOf(own2, pos, Nowhere, rootCluster)
    BY <1>0, <1>4, <1>6, Tags DEF Names, HeadOf
  <2>2. \A o : o \notin {s, Mine} /\ HasChain(cells, view, m, o) => HasChain(cells, view2, 0, o)
    BY <1>1 DEF HasChain, Opens
  <2>3. HasChain(cells, view2, 0, s)
    <3>1. Opens(view2, h, s) /\ view2[h].first # 0
      BY <1>1, ClustersCounted DEF Opens
    <3> QED
      BY <3>1, <1>2 DEF HasChain
  <2>4. \A c \in Cluster : own2[c] \in {NoOwner, Lost} \/ HasChain(cells, view2, 0, own2[c])
    BY <2>2, <2>3, <1>0, <1>5, <1>6 DEF Names
  <2> QED
    BY <2>1, <2>4 DEF Names
<1>9. \A x : x # Mine => \A c \in Cluster : own[c] = x => own2[c] = x /\ pos[c] = pos[c]
  BY <1>4, <1>6
<1>10. EntriesHold(own2, pos, cells)
  <2> SUFFICES ASSUME NEW t \in SlotSet, Live(cells, t)
               PROVE  Stays(own, pos, cells, own2, pos, cells, t)
    BY <1>0, EntriesStay
  <2>1. IsDirectory(cells, own[t[1]]) /\ t[1] \in Cluster
    BY <1>0, Tags DEF EntriesHold, EntryHolds
  <2> QED
    BY <2>1, <1>9, OwnersAre DEF Stays
<1>11. FilesHold(own2, pos, cells, view2)
  <2> SUFFICES ASSUME NEW j \in Handles, view2[j] # Closed
               PROVE  /\ FileHolds(own2, pos, cells, view2[j])
                      /\ \A k \in Handles : Opens(view2, k, view2[j].slot) => k = j
    BY DEF FilesHold
  <2>1. \A k \in Handles : \A t : Opens(view2, k, t) <=> Opens(view, k, t)
    BY DEF Opens
  <2>2. \A k \in Handles : Opens(view2, k, view2[j].slot) => k = j
    BY <2>1, <1>0 DEF FilesHold
  <2>3. PICK x : x = view2[j]
    OBVIOUS
  <2>4. CASE j = h
    <3>1. x = f
      BY <2>3, <2>4
    <3>2. HeadOf(own2, pos, s, m)
      BY <1>4, <1>6 DEF HeadOf
    <3>3. FileHolds(own2, pos, cells, f)
      BY <3>2, <1>1, <1>2 DEF FileHolds, Fits
    <3> QED
      BY <2>2, <2>3, <3>1, <3>3
  <2>5. CASE j # h
    <3>1. x = view[j] /\ FileHolds(own, pos, cells, x)
      BY <2>3, <2>5, <1>0 DEF FilesHold
    <3>2. IsFile(cells, x.slot) /\ x.slot # Mine /\ In(cells, x.slot).firstCluster \in {0, x.first}
      BY <3>1, OwnersAre DEF FileHolds
    <3>3. FileHolds(own2, pos, cells, x)
      BY <3>1, <3>2, <1>9, FileStays
    <3> QED
      BY <2>2, <2>3, <3>3
  <2> QED
    BY <2>4, <2>5
<1>12. DirectoriesHold(own2, pos, cells)
  <2>1. \A c \in Cluster : IsDirectory(cells, own2[c]) =>
           /\ IsDirectory(cells, own[c])
           /\ own2[c] = own[c] /\ pos[c] = pos[c]
           /\ \A i \in 1 .. ClusterSize :
                /\ cells[c][i] = Zero <=> cells[c][i] = Zero
                /\ cells[c][i] \in {cells[c][i], Deleted} \/ cells[c][i].kind = "entry"
    BY <1>2, <1>6, OwnersAre
  <2> QED
    BY <2>1, <1>0, DirectoriesStay
<1>13. UnitsHold(own2, pos, cells)
  BY <1>0, <1>6 DEF UnitsHold
<1>14. LeaksHold(own2, leak)
  BY <1>0, <1>3, <1>4, <1>6, Tags DEF LeaksHold
<1> QED
  BY <1>7, <1>8, <1>10, <1>11, <1>12, <1>13, <1>14 DEF Vol

(* Units are written into a cluster of an open file, which may get longer.  *)
LEMMA UnitsLabels ==
  ASSUME NEW own, NEW pos, NEW g, NEW cells, NEW view, NEW leak, NEW m,
         Vol(own, pos, g, cells, view, m, leak),
         NEW h \in Handles, view[h] # Closed, NEW x \in Cluster, own[x] = view[h].slot,
         NEW cells2, \A c \in Cluster : c # x => cells2[c] = cells[c],
         \A i \in 1 .. ClusterSize : cells2[x][i] \in {Zero, Unit(ClusterSize * pos[x] + i - 1)},
         NEW f, f # Closed, f.slot = view[h].slot, f.first = view[h].first,
         Fits(own, pos, f.slot, f.first, f.size),
         NEW view2, \A k \in Handles : view2[k] = IF k = h THEN f ELSE view[k]
  PROVE  Vol(own, pos, g, cells2, view2, m, leak)
<1>0. /\ Labels(own, pos, g) /\ Names(own, pos, cells, view, m) /\ EntriesHold(own, pos, cells)
      /\ FilesHold(own, pos, cells, view) /\ DirectoriesHold(own, pos, cells)
      /\ UnitsHold(own, pos, cells) /\ LeaksHold(own, leak)
  BY DEF Vol
<1>1. FileHolds(own, pos, cells, view[h]) /\ IsFile(cells, own[x])
  BY <1>0 DEF FilesHold, FileHolds
<1>2. \A s : Live(cells, s) => s \in SlotSet /\ s[1] \in Cluster /\ s[1] # x
  <2> SUFFICES ASSUME NEW s, Live(cells, s) PROVE s \in SlotSet /\ s[1] \in Cluster /\ s[1] # x
    OBVIOUS
  <2>1. s \in SlotSet /\ s[1] \in Cluster
    BY Tags DEF Live
  <2>2. IsDirectory(cells, own[s[1]])
    BY <1>0, <2>1 DEF EntriesHold, EntryHolds
  <2> QED
    BY <2>1, <2>2, <1>1, OwnersAre
<1>3. \A s \in SlotSet : s[1] # x => In(cells2, s) = In(cells, s)
  BY Tags DEF In
<1>4. \A s \in SlotSet : s[1] = x => ~Live(cells2, s)
  <2> SUFFICES ASSUME NEW s \in SlotSet, s[1] = x PROVE In(cells2, s).kind # "entry"
    BY DEF Live
  <2>1. PICK u : In(cells2, s) \in {Zero, Unit(u)}
    BY Tags DEF In
  <2> QED
    BY <2>1 DEF Zero, Unit
<1>5. \A s : Live(cells2, s) <=> Live(cells, s)
  BY <1>2, <1>3, <1>4 DEF Live
<1>6. \A s : Live(cells, s) => In(cells2, s) = In(cells, s)
  BY <1>2, <1>3
<1>7. \A o : /\ IsDirectory(cells2, o) <=> IsDirectory(cells, o)
             /\ IsFile(cells2, o) <=> IsFile(cells, o)
  BY <1>5, <1>6 DEF IsDirectory, IsFile
<1>8. \A k \in Handles : \A t : Opens(view2, k, t) <=> Opens(view, k, t)
  BY DEF Opens
<1>9. Names(own, pos, cells2, view2, m)
  <2>1. \A k \in Handles : view[k] # Closed => view2[k].first = view[k].first
    OBVIOUS
  <2>2. \A o : HasChain(cells, view, m, o) => HasChain(cells2, view2, m, o)
    BY <2>1, <1>5, <1>6, <1>8 DEF HasChain, Opens
  <2> QED
    BY <2>2, <1>0 DEF Names
<1>10. EntriesHold(own, pos, cells2)
  <2> SUFFICES ASSUME NEW s \in SlotSet, Live(cells2, s)
               PROVE  Stays(own, pos, cells, own, pos, cells2, s)
    BY <1>0, EntriesStay
  <2>1. IsDirectory(cells, own[s[1]])
    BY <1>0, <1>5 DEF EntriesHold, EntryHolds
  <2> QED
    BY <2>1, <1>5, <1>6, <1>7 DEF Stays
<1>11. FilesHold(own, pos, cells2, view2)
  <2> SUFFICES ASSUME NEW j \in Handles, view2[j] # Closed
               PROVE  /\ FileHolds(own, pos, cells2, view2[j])
                      /\ \A k \in Handles : Opens(view2, k, view2[j].slot) => k = j
    BY DEF FilesHold
  <2>1. \A k \in Handles : Opens(view2, k, view2[j].slot) => k = j
    BY <1>0, <1>8 DEF FilesHold
  <2>2. PICK y : y = view2[j]
    OBVIOUS
  <2>3. FileHolds(own, pos, cells, y)
    BY <2>2, <1>0, <1>1 DEF FilesHold, FileHolds
  <2>4. IsFile(cells2, y.slot) /\ In(cells2, y.slot).firstCluster \in {0, y.first}
    BY <2>3, <1>6, <1>7 DEF FileHolds, IsFile
  <2>5. FileHolds(own, pos, cells2, y)
    BY <2>3, <2>4, FileStays
  <2> QED
    BY <2>1, <2>2, <2>5
<1>12. DirectoriesHold(own, pos, cells2)
  <2>1. \A c \in Cluster : IsDirectory(cells2, own[c]) =>
           /\ IsDirectory(cells, own[c])
           /\ own[c] = own[c] /\ pos[c] = pos[c]
           /\ \A i \in 1 .. ClusterSize :
                /\ cells2[c][i] = Zero <=> cells[c][i] = Zero
                /\ cells2[c][i] \in {cells[c][i], Deleted} \/ cells2[c][i].kind = "entry"
    BY <1>1, <1>7, OwnersAre
  <2> QED
    BY <2>1, <1>0, DirectoriesStay
<1>13. UnitsHold(own, pos, cells2)
  BY <1>0, <1>7 DEF UnitsHold
<1> QED
  BY <1>0, <1>9, <1>10, <1>11, <1>12, <1>13 DEF Vol

(* An entry is replaced by one of the same kind.                            *)
Replaces(cells, s, e) ==
  /\ Live(cells, s)
  /\ e.kind = "entry" /\ e.name \notin Dots /\ e.dir = In(cells, s).dir

(* A changed entry leaves every slot what it was.                           *)
LEMMA EntryReplaced ==
  ASSUME NEW cells, NEW s, NEW e, Replaces(cells, s, e)
  PROVE  /\ s \in SlotSet /\ In(Put(cells, s, e), s) = e
         /\ \A t : Live(Put(cells, s, e), t) <=> Live(cells, t)
         /\ \A t : Live(cells, t) /\ t # s => In(Put(cells, s, e), t) = In(cells, t)
         /\ \A o : IsDirectory(Put(cells, s, e), o) <=> IsDirectory(cells, o)
         /\ \A o : IsFile(Put(cells, s, e), o) <=> IsFile(cells, o)
<1>1. PICK cells2 : cells2 = Put(cells, s, e)
  OBVIOUS
<1>2. s \in SlotSet
  BY DEF Replaces, Live
<1>3. In(cells2, s) = e /\ \A t \in SlotSet : t # s => In(cells2, t) = In(cells, t)
  <2>1. /\ In(Put(cells, s, e), s) = e
        /\ \A t \in SlotSet : t # s => In(Put(cells, s, e), t) = In(cells, t)
    BY <1>2, PutIs
  <2> QED
    BY <2>1, <1>1
<1>4. \A t : Live(cells2, t) <=> Live(cells, t)
  BY <1>3 DEF Live, Replaces
<1>5. \A t : Live(cells, t) /\ t # s => In(cells2, t) = In(cells, t)
  BY <1>3 DEF Live
<1>6. \A t : Live(cells, t) => In(cells2, t).dir = In(cells, t).dir
  BY <1>3, <1>5 DEF Replaces
<1>7. /\ \A o : IsDirectory(cells2, o) <=> IsDirectory(cells, o)
      /\ \A o : IsFile(cells2, o) <=> IsFile(cells, o)
  BY <1>4, <1>6 DEF IsDirectory, IsFile
<1> QED
  BY <1>1, <1>2, <1>3, <1>4, <1>5, <1>7

(* A changed entry leaves directories and units as they were.               *)
LEMMA RestReplaced ==
  ASSUME NEW own, NEW pos, NEW cells, NEW own2, NEW pos2, NEW s, NEW e, Replaces(cells, s, e),
         EntriesHold(own, pos, cells), DirectoriesHold(own, pos, cells), UnitsHold(own, pos, cells),
         \A c \in Cluster : IsDirectory(cells, own2[c]) \/ IsFile(cells, own2[c]) =>
           own2[c] = own[c] /\ pos2[c] = pos[c]
  PROVE  DirectoriesHold(own2, pos2, Put(cells, s, e)) /\ UnitsHold(own2, pos2, Put(cells, s, e))
<1>1. PICK cells2 : cells2 = Put(cells, s, e)
  OBVIOUS
<1>2. /\ s \in SlotSet
      /\ \A o : IsDirectory(cells2, o) <=> IsDirectory(cells, o)
      /\ \A o : IsFile(cells2, o) <=> IsFile(cells, o)
  BY <1>1, EntryReplaced
<1>3. \A c \in Cluster, i \in 1 .. ClusterSize :
        cells2[c][i] = IF c = s[1] /\ i = s[2] THEN e ELSE cells[c][i]
  <2>1. \A c \in Cluster, i \in 1 .. ClusterSize :
          Put(cells, s, e)[c][i] = IF c = s[1] /\ i = s[2] THEN e ELSE cells[c][i]
    BY <1>2, PutIs
  <2> QED
    BY <2>1, <1>1
<1>4. cells[s[1]][s[2]].kind = "entry" /\ e.kind = "entry" /\ Zero.kind # "entry"
  BY DEF Replaces, Live, In, Zero
<1>5. IsDirectory(cells, own[s[1]])
  BY <1>2 DEF Replaces, EntriesHold, EntryHolds
<1>6. DirectoriesHold(own2, pos2, cells2)
  <2>1. \A c \in Cluster : IsDirectory(cells2, own2[c]) =>
           /\ IsDirectory(cells, own[c])
           /\ own2[c] = own[c] /\ pos2[c] = pos[c]
           /\ \A i \in 1 .. ClusterSize :
                /\ cells2[c][i] = Zero <=> cells[c][i] = Zero
                /\ cells2[c][i] \in {cells[c][i], Deleted} \/ cells2[c][i].kind = "entry"
    BY <1>2, <1>3, <1>4
  <2> QED
    BY <2>1, DirectoriesStay
<1>7. UnitsHold(own2, pos2, cells2)
  <2> SUFFICES ASSUME NEW c \in Cluster, IsFile(cells2, own2[c])
               PROVE  /\ IsFile(cells, own[c]) /\ pos2[c] = pos[c]
                      /\ \A i \in 1 .. ClusterSize : cells2[c][i] = cells[c][i]
    BY UnitsStay
  <2>1. IsFile(cells, own[c]) /\ pos2[c] = pos[c]
    BY <1>2
  <2>2. c # s[1]
    BY <2>1, <1>5, OwnersAre
  <2> QED
    BY <2>1, <2>2, <1>3
<1> QED
  BY <1>1, <1>6, <1>7

(* An entry is replaced by one that names the same chain, as far as it is   *)
(* known: what flush writes, and what rename does.                          *)
LEMMA ReplaceLabels ==
  ASSUME NEW own, NEW pos, NEW g, NEW cells, NEW view, NEW leak, NEW m,
         Vol(own, pos, g, cells, view, m, leak),
         NEW s, NEW e, Replaces(cells, s, e), EntryHolds(own, pos, cells, s, e),
         In(cells, s).firstCluster # 0 => e.firstCluster # 0,
         \A h \in Handles : Opens(view, h, s) => e.firstCluster \in {0, view[h].first}
  PROVE  Vol(own, pos, g, Put(cells, s, e), view, m, leak)
<1>0. /\ Labels(own, pos, g) /\ Names(own, pos, cells, view, m) /\ EntriesHold(own, pos, cells)
      /\ FilesHold(own, pos, cells, view) /\ DirectoriesHold(own, pos, cells)
      /\ UnitsHold(own, pos, cells) /\ LeaksHold(own, leak)
  BY DEF Vol
<1>1. PICK cells2 : cells2 = Put(cells, s, e)
  OBVIOUS
<1>2. /\ s \in SlotSet /\ In(cells2, s) = e
      /\ \A t : Live(cells2, t) <=> Live(cells, t)
      /\ \A t : Live(cells, t) /\ t # s => In(cells2, t) = In(cells, t)
      /\ \A o : IsDirectory(cells2, o) <=> IsDirectory(cells, o)
      /\ \A o : IsFile(cells2, o) <=> IsFile(cells, o)
  BY <1>1, EntryReplaced
<1>3. Names(own, pos, cells2, view, m)
  <2>1. \A o : HasChain(cells, view, m, o) => HasChain(cells2, view, m, o)
    BY <1>2 DEF HasChain
  <2> QED
    BY <2>1, <1>0 DEF Names
<1>4. EntriesHold(own, pos, cells2)
  <2> SUFFICES ASSUME NEW t \in SlotSet, Live(cells2, t)
               PROVE  \/ Stays(own, pos, cells, own, pos, cells2, t)
                      \/ EntryHolds(own, pos, cells2, t, In(cells2, t))
    BY <1>0, EntriesStay
  <2>1. EntryHolds(own, pos, cells, t, In(cells, t))
    BY <1>0, <1>2 DEF EntriesHold
  <2>2. CASE t = s
    BY <2>2, <1>2 DEF EntryHolds
  <2>3. CASE t # s
    BY <2>1, <2>3, <1>2 DEF EntryHolds, Stays
  <2> QED
    BY <2>2, <2>3
<1>5. FilesHold(own, pos, cells2, view)
  <2> SUFFICES ASSUME NEW j \in Handles, view[j] # Closed
               PROVE  FileHolds(own, pos, cells2, view[j])
    BY <1>0 DEF FilesHold
  <2>1. PICK f : f = view[j]
    OBVIOUS
  <2>2. FileHolds(own, pos, cells, f)
    BY <1>0, <2>1 DEF FilesHold
  <2>3. IsFile(cells, f.slot) /\ Live(cells, f.slot) /\ In(cells, f.slot).firstCluster \in {0, f.first}
    BY <2>2 DEF FileHolds, IsFile
  <2>4. In(cells2, f.slot).firstCluster \in {0, f.first}
    BY <2>1, <2>3, <1>2 DEF Opens
  <2>5. FileHolds(own, pos, cells2, f)
    BY <2>2, <2>3, <2>4, <1>2, FileStays
  <2> QED
    BY <2>1, <2>5
<1>6. DirectoriesHold(own, pos, cells2) /\ UnitsHold(own, pos, cells2)
  BY <1>0, <1>1, RestReplaced
<1> QED
  BY <1>0, <1>1, <1>3, <1>4, <1>5, <1>6 DEF Vol

(* A chain is cut behind the last cluster that its file needs.              *)
LEMMA CutLabels ==
  ASSUME NEW own, NEW pos, NEW g, NEW cells, NEW view, NEW leak,
         Vol(own, pos, g, cells, view, 0, leak),
         NEW s, IsFile(cells, s), NEW k, HeadOf(own, pos, s, k),
         NEW x \in Cluster, own[x] = s,
         In(cells, s).size # 0 => (In(cells, s).size - 1) \div ClusterSize = pos[x],
         \A j \in Handles : Opens(view, j, s) /\ view[j].size # 0 =>
           (view[j].size - 1) \div ClusterSize = pos[x],
         NEW h, Changed(g, x, EndOfChain, h), NEW own2, NEW pos2,
         \A c \in Cluster :
           IF own[c] = s /\ pos[c] > pos[x] THEN own2[c] = Mine /\ pos2[c] = pos[c] - (pos[x] + 1)
           ELSE own2[c] = own[c] /\ pos2[c] = pos[c]
  PROVE  Vol(own2, pos2, h, cells, view, IF g[x] \in Cluster THEN g[x] ELSE 0, leak)
<1>0. /\ Labels(own, pos, g) /\ Names(own, pos, cells, view, 0) /\ EntriesHold(own, pos, cells)
      /\ FilesHold(own, pos, cells, view) /\ DirectoriesHold(own, pos, cells)
      /\ UnitsHold(own, pos, cells) /\ LeaksHold(own, leak)
  BY DEF Vol
<1>1. s \notin {Nowhere, NoOwner, Lost, Mine} /\ s \in SlotSet /\ Live(cells, s)
  BY OwnersAre DEF IsFile
<1>2. /\ \A c \in Cluster : own[c] # Mine
      /\ \A c \in Cluster : pos[c] \in Nat
  BY <1>0, NoneIsMine DEF Labels
<1>3. h[x] = EndOfChain /\ \A c \in Cluster : c # x => h[c] = g[c]
  BY DEF Changed
<1>4. FreeCluster # EndOfChain /\ 0 \notin Cluster /\ EndOfChain \notin Cluster
  BY ClustersCounted DEF FreeCluster, EndOfChain
<1>5. ASSUME NEW c \in Cluster, NEW d \in Cluster, g[c] = d, own[c] # NoOwner
      PROVE  own[d] = own[c] /\ pos[d] = pos[c] + 1
  BY <1>0, <1>4, <1>5 DEF Labels
<1>6. Labels(own2, pos2, h)
  <2>1. \A c \in Cluster : pos2[c] \in Nat
    BY <1>2
  <2>2. \A c \in Cluster : own2[c] = NoOwner <=> h[c] = FreeCluster
    BY <1>0, <1>1, <1>3, <1>4, Tags DEF Labels
  <2>3. ASSUME NEW c \in Cluster, own2[c] # NoOwner
        PROVE  h[c] = EndOfChain \/ (h[c] \in Cluster /\ own2[h[c]] = own2[c] /\ pos2[h[c]] = pos2[c] + 1)
    <3>1. CASE c = x
      BY <3>1, <1>3
    <3>2. CASE c # x
      <4>1. own[c] # NoOwner /\ h[c] = g[c]
        BY <2>3, <3>2, <1>1, <1>3
      <4>2. g[c] = EndOfChain \/ g[c] \in Cluster
        BY <4>1, <1>0 DEF Labels
      <4>3. ASSUME NEW d \in Cluster, d = g[c]
            PROVE  own2[d] = own2[c] /\ pos2[d] = pos2[c] + 1
        <5>1. own[d] = own[c] /\ pos[d] = pos[c] + 1
          BY <4>1, <4>3, <1>5
        <5>2. own[c] = s => pos[c] # pos[x]
          BY <3>2, <1>0, <1>1 DEF Labels
        <5>3. CASE own[c] = s /\ pos[c] > pos[x]
          BY <5>1, <5>3, <1>2
        <5>4. CASE own[c] = s /\ ~(pos[c] > pos[x])
          BY <5>1, <5>2, <5>4, <1>2
        <5>5. CASE own[c] # s
          BY <5>1, <5>5
        <5> QED
          BY <5>3, <5>4, <5>5
      <4> QED
        BY <4>1, <4>2, <4>3
    <3> QED
      BY <3>1, <3>2
  <2>4. ASSUME NEW c \in Cluster, NEW d \in Cluster,
               own2[c] \notin {NoOwner, Lost}, own2[d] = own2[c], pos2[d] = pos2[c]
        PROVE  c = d
    <3>1. own[c] = own[d] /\ own[c] \notin {NoOwner, Lost}
      BY <2>4, <1>1, <1>2
    <3>2. pos[c] = pos[d]
      BY <2>4, <3>1, <1>1, <1>2
    <3> QED
      BY <3>1, <3>2, <1>0 DEF Labels
  <2>5. ASSUME NEW c \in Cluster, own2[c] \notin {NoOwner, Lost}, pos2[c] # 0
        PROVE  \E d \in Cluster : own2[d] = own2[c] /\ h[d] = c
    <3>1. own[c] \notin {NoOwner, Lost} /\ pos[c] # 0
      BY <2>5, <1>1, <1>2
    <3>2. PICK d \in Cluster : own[d] = own[c] /\ g[d] = c
      BY <3>1, <1>0 DEF Labels
    <3>3. pos[c] = pos[d] + 1
      BY <3>1, <3>2, <1>5
    <3>4. CASE own[c] = s /\ pos[c] > pos[x]
      <4>1. pos[d] # pos[x]
        BY <2>5, <3>3, <3>4, <1>2
      <4>2. pos[d] > pos[x] /\ d # x
        BY <3>3, <3>4, <4>1, <1>2
      <4> QED
        BY <3>2, <3>4, <4>2, <1>3
    <3>5. CASE own[c] = s /\ ~(pos[c] > pos[x])
      <4>1. ~(pos[d] > pos[x]) /\ d # x
        BY <3>3, <3>5, <1>2
      <4> QED
        BY <3>2, <3>5, <4>1, <1>3
    <3>6. CASE own[c] # s
      BY <3>2, <3>6, <1>3
    <3> QED
      BY <3>4, <3>5, <3>6
  <2> QED
    BY <2>1, <2>2, <2>3, <2>4, <2>5 DEF Labels
<1>7. Names(own2, pos2, cells, view, IF g[x] \in Cluster THEN g[x] ELSE 0)
  <2>1. HeadOf(own2, pos2, Nowhere, rootCluster)
    BY <1>0, <1>1 DEF Names, HeadOf
  <2>2. CASE g[x] \in Cluster
    <3>1. own[g[x]] = s /\ pos[g[x]] = pos[x] + 1
      BY <2>2, <1>1, <1>5
    <3>2. HeadOf(own2, pos2, Mine, g[x])
      BY <2>2, <3>1, <1>2 DEF HeadOf
    <3>3. \A c \in Cluster : own2[c] \in {NoOwner, Lost} \/ HasChain(cells, view, g[x], own2[c])
      BY <2>2, <1>0, <1>4 DEF Names, HasChain
    <3> QED
      BY <2>1, <2>2, <3>2, <3>3 DEF Names
  <2>3. CASE g[x] \notin Cluster
    <3>1. g[x] = EndOfChain
      BY <2>3, <1>0, <1>1 DEF Labels
    <3>2. \A c \in Cluster : own[c] = s => pos[c] <= pos[x]
      BY <3>1, <1>0, <1>1, LastIsFurthest
    <3>3. \A c \in Cluster : own2[c] = own[c]
      BY <3>2, <1>2
    <3> QED
      BY <2>1, <2>3, <3>3, <1>0 DEF Names
  <2> QED
    BY <2>2, <2>3
<1>8. \A o : o # s => \A c \in Cluster : own[c] = o => own2[c] = o /\ pos2[c] = pos[c]
  OBVIOUS
<1>9. /\ \A j : HeadOf(own, pos, s, j) => HeadOf(own2, pos2, s, j)
      /\ own2[x] = s /\ pos2[x] = pos[x]
  BY <1>2 DEF HeadOf
<1>10. EntriesHold(own2, pos2, cells)
  <2> SUFFICES ASSUME NEW t \in SlotSet, Live(cells, t)
               PROVE  \/ Stays(own, pos, cells, own2, pos2, cells, t)
                      \/ EntryHolds(own2, pos2, cells, t, In(cells, t))
    BY <1>0, EntriesStay
  <2>1. EntryHolds(own, pos, cells, t, In(cells, t)) /\ t[1] \in Cluster
    BY <1>0, Tags DEF EntriesHold
  <2>2. own[t[1]] # s
    BY <2>1, OwnersAre DEF EntryHolds
  <2>3. CASE t = s
    <3>1. Fits(own2, pos2, s, In(cells, s).firstCluster, In(cells, s).size)
      BY <2>1, <2>3, <1>9 DEF EntryHolds, Fits
    <3> QED
      BY <2>1, <2>2, <2>3, <3>1, <1>9 DEF EntryHolds, IsFile
  <2>4. CASE t # s
    BY <2>1, <2>2, <2>4, <1>8 DEF Stays, EntryHolds
  <2> QED
    BY <2>3, <2>4
<1>11. FilesHold(own2, pos2, cells, view)
  <2> SUFFICES ASSUME NEW j \in Handles, view[j] # Closed
               PROVE  FileHolds(own2, pos2, cells, view[j])
    BY <1>0 DEF FilesHold
  <2>1. PICK f : f = view[j]
    OBVIOUS
  <2>2. FileHolds(own, pos, cells, f)
    BY <1>0, <2>1 DEF FilesHold
  <2>3. CASE f.slot = s
    <3>1. Fits(own2, pos2, s, f.first, f.size)
      BY <2>1, <2>2, <2>3, <1>9 DEF FileHolds, Fits, Opens
    <3> QED
      BY <2>1, <2>2, <2>3, <3>1, <1>9 DEF FileHolds
  <2>4. CASE f.slot # s
    <3>1. IsFile(cells, f.slot) /\ In(cells, f.slot).firstCluster \in {0, f.first}
      BY <2>2 DEF FileHolds
    <3>2. FileHolds(own2, pos2, cells, f)
      BY <2>2, <2>4, <3>1, <1>8, FileStays
    <3> QED
      BY <2>1, <3>2
  <2> QED
    BY <2>3, <2>4
<1>12. \A c \in Cluster : IsDirectory(cells, own2[c]) \/ IsFile(cells, own2[c]) =>
         own2[c] = own[c] /\ pos2[c] = pos[c]
  BY OwnersAre
<1>13. DirectoriesHold(own2, pos2, cells)
  <2>1. \A c \in Cluster : IsDirectory(cells, own2[c]) =>
           /\ IsDirectory(cells, own[c])
           /\ own2[c] = own[c] /\ pos2[c] = pos[c]
           /\ \A i \in 1 .. ClusterSize :
                /\ cells[c][i] = Zero <=> cells[c][i] = Zero
                /\ cells[c][i] \in {cells[c][i], Deleted} \/ cells[c][i].kind = "entry"
    BY <1>12
  <2> QED
    BY <2>1, <1>0, DirectoriesStay
<1>14. UnitsHold(own2, pos2, cells)
  BY <1>0, <1>12 DEF UnitsHold
<1>15. LeaksHold(own2, leak)
  BY <1>0, <1>1, Tags DEF LeaksHold
<1> QED
  BY <1>6, <1>7, <1>10, <1>11, <1>13, <1>14, <1>15 DEF Vol

(* A file is emptied: its clusters are about to be freed.                   *)
LEMMA EmptyLabels ==
  ASSUME NEW own, NEW pos, NEW g, NEW cells, NEW view, NEW leak,
         Vol(own, pos, g, cells, view, 0, leak),
         NEW s, IsFile(cells, s), NEW e, Replaces(cells, s, e), e.firstCluster = 0, e.size = 0,
         NEW k, IF k = 0 THEN \A c \in Cluster : own[c] # s ELSE HeadOf(own, pos, s, k),
         NEW view2, \A h \in Handles :
           IF Opens(view, h, s) THEN Opens(view2, h, s) /\ view2[h].first = 0 /\ view2[h].size = 0
           ELSE view2[h] = view[h],
         NEW own2, Renamed(own, s, Mine, own2)
  PROVE  Vol(own2, pos, g, Put(cells, s, e), view2, k, leak)
<1>0. /\ Labels(own, pos, g) /\ Names(own, pos, cells, view, 0) /\ EntriesHold(own, pos, cells)
      /\ FilesHold(own, pos, cells, view) /\ DirectoriesHold(own, pos, cells)
      /\ UnitsHold(own, pos, cells) /\ LeaksHold(own, leak)
  BY DEF Vol
<1>1. PICK cells2 : cells2 = Put(cells, s, e)
  OBVIOUS
<1>2. /\ s \in SlotSet /\ In(cells2, s) = e
      /\ \A t : Live(cells2, t) <=> Live(cells, t)
      /\ \A t : Live(cells, t) /\ t # s => In(cells2, t) = In(cells, t)
      /\ \A o : IsDirectory(cells2, o) <=> IsDirectory(cells, o)
      /\ \A o : IsFile(cells2, o) <=> IsFile(cells, o)
  BY <1>1, EntryReplaced
<1>3. s \notin {Nowhere, NoOwner, Lost, Mine} /\ Live(cells, s)
  BY OwnersAre DEF IsFile
<1>4. \A c \in Cluster : own[c] # Mine
  BY <1>0, NoneIsMine
<1>5. /\ \A c \in Cluster : own[c] = s => own2[c] = Mine
      /\ \A c \in Cluster : own[c] # s => own2[c] = own[c]
  BY DEF Renamed
<1>6. Labels(own2, pos, g)
  BY <1>0, <1>3, <1>4, Tags, LabelsRenamed
<1>7. Names(own2, pos, cells2, view2, k)
  <2>1. HeadOf(own2, pos, Nowhere, rootCluster)
    BY <1>0, <1>3, <1>5 DEF Names, HeadOf
  <2>2. k # 0 => HeadOf(own2, pos, Mine, k)
    BY <1>5 DEF HeadOf
  <2>3. \A o : o \notin {s, Mine} /\ HasChain(cells, view, 0, o) => HasChain(cells2, view2, k, o)
    <3> SUFFICES ASSUME NEW o, o \notin {s, Mine}, HasChain(cells, view, 0, o)
                 PROVE  HasChain(cells2, view2, k, o)
      OBVIOUS
    <3>1. \A h \in Handles : Opens(view, h, o) => view2[h] = view[h]
      BY DEF Opens
    <3> QED
      BY <3>1, <1>2 DEF HasChain, Opens
  <2>4. ASSUME NEW c \in Cluster
        PROVE  own2[c] \in {NoOwner, Lost} \/ HasChain(cells2, view2, k, own2[c])
    <3>1. CASE own[c] = s
      BY <3>1, <1>5 DEF HasChain
    <3>2. CASE own[c] # s
      BY <3>2, <2>3, <1>0, <1>4, <1>5 DEF Names
    <3> QED
      BY <3>1, <3>2
  <2> QED
    BY <2>1, <2>2, <2>4 DEF Names
<1>8. \A o : o # s => \A c \in Cluster : own[c] = o => own2[c] = o /\ pos[c] = pos[c]
  BY <1>5
<1>9. EntriesHold(own2, pos, cells2)
  <2> SUFFICES ASSUME NEW t \in SlotSet, Live(cells2, t)
               PROVE  \/ Stays(own, pos, cells, own2, pos, cells2, t)
                      \/ EntryHolds(own2, pos, cells2, t, In(cells2, t))
    BY <1>0, EntriesStay
  <2>1. EntryHolds(own, pos, cells, t, In(cells, t)) /\ t[1] \in Cluster
    BY <1>0, <1>2, Tags DEF EntriesHold
  <2>2. own2[t[1]] = own[t[1]]
    BY <2>1, <1>5, OwnersAre DEF EntryHolds
  <2>3. CASE t = s
    <3>1. ~e.dir
      BY DEF Replaces, IsFile
    <3> QED
      BY <2>1, <2>2, <2>3, <3>1, <1>2 DEF EntryHolds, Fits
  <2>4. CASE t # s
    BY <2>1, <2>2, <2>4, <1>2, <1>8 DEF Stays, EntryHolds
  <2> QED
    BY <2>3, <2>4
<1>10. FilesHold(own2, pos, cells2, view2)
  <2> SUFFICES ASSUME NEW j \in Handles, view2[j] # Closed
               PROVE  /\ FileHolds(own2, pos, cells2, view2[j])
                      /\ \A h \in Handles : Opens(view2, h, view2[j].slot) => h = j
    BY DEF FilesHold
  <2>1. PICK f : f = view2[j]
    OBVIOUS
  <2>2. \A h \in Handles : \A t : Opens(view2, h, t) => Opens(view, h, t)
    BY DEF Opens
  <2>3. Opens(view, j, f.slot)
    BY <2>1, <2>2 DEF Opens
  <2>4. \A h \in Handles : Opens(view2, h, f.slot) => h = j
    BY <2>2, <2>3, <1>0 DEF FilesHold, Opens
  <2>5. CASE f.slot = s
    <3>1. f.first = 0 /\ f.size = 0
      BY <2>1, <2>3, <2>5
    <3> QED
      BY <2>1, <2>4, <2>5, <3>1, <1>2 DEF FileHolds, Fits
  <2>6. CASE f.slot # s
    <3>1. f = view[j] /\ FileHolds(own, pos, cells, f)
      BY <2>1, <2>3, <2>6, <1>0 DEF FilesHold, Opens
    <3>2. IsFile(cells2, f.slot) /\ Live(cells, f.slot)
      BY <3>1, <1>2 DEF FileHolds, IsFile
    <3>3. In(cells2, f.slot).firstCluster \in {0, f.first}
      BY <2>6, <3>1, <3>2, <1>2 DEF FileHolds
    <3>4. FileHolds(own2, pos, cells2, f)
      BY <2>6, <3>1, <3>2, <3>3, <1>8, FileStays
    <3> QED
      BY <2>1, <2>4, <3>4
  <2> QED
    BY <2>5, <2>6
<1>11. DirectoriesHold(own2, pos, cells2) /\ UnitsHold(own2, pos, cells2)
  <2>1. \A c \in Cluster : IsDirectory(cells, own2[c]) \/ IsFile(cells, own2[c]) =>
          own2[c] = own[c] /\ pos[c] = pos[c]
    BY <1>5, OwnersAre
  <2> QED
    BY <2>1, <1>0, <1>1, RestReplaced
<1>12. LeaksHold(own2, leak)
  BY <1>0, <1>3, <1>5, Tags DEF LeaksHold
<1> QED
  BY <1>1, <1>6, <1>7, <1>9, <1>10, <1>11, <1>12 DEF Vol

(* An entry is marked deleted.                                              *)
LEMMA DeletedIs ==
  ASSUME NEW cells, NEW s, Live(cells, s)
  PROVE  /\ s \in SlotSet
         /\ \A t : Live(Put(cells, s, Deleted), t) <=> Live(cells, t) /\ t # s
         /\ \A t : Live(cells, t) /\ t # s => In(Put(cells, s, Deleted), t) = In(cells, t)
         /\ \A o : IsDirectory(Put(cells, s, Deleted), o) <=> IsDirectory(cells, o) /\ o # s
         /\ \A o : IsFile(Put(cells, s, Deleted), o) <=> IsFile(cells, o) /\ o # s
<1>1. PICK cells2 : cells2 = Put(cells, s, Deleted)
  OBVIOUS
<1>2. s \in SlotSet
  BY DEF Live
<1>3. In(cells2, s) = Deleted /\ \A t \in SlotSet : t # s => In(cells2, t) = In(cells, t)
  <2>1. \A x : In(Put(cells, s, x), s) = x
    BY <1>2, PutIs
  <2>2. ASSUME NEW x
        PROVE  \A t \in SlotSet : t # s => In(Put(cells, s, x), t) = In(cells, t)
    <3>1. /\ In(Put(cells, s, x), s) = x
          /\ \A t \in SlotSet : t # s => In(Put(cells, s, x), t) = In(cells, t)
          /\ \A c \in Cluster, i \in 1 .. ClusterSize :
               Put(cells, s, x)[c][i] = IF c = s[1] /\ i = s[2] THEN x ELSE cells[c][i]
      BY <1>2, PutIs
    <3> QED
      BY <3>1
  <2> QED
    BY <2>1, <2>2, <1>1
<1>4. \A t : Live(cells2, t) <=> Live(cells, t) /\ t # s
  BY <1>3 DEF Live, Deleted
<1>5. \A t : Live(cells, t) /\ t # s => In(cells2, t) = In(cells, t)
  BY <1>3 DEF Live
<1>6. s # Nowhere
  BY OwnersAre
<1>7. /\ \A o : IsDirectory(cells2, o) <=> IsDirectory(cells, o) /\ o # s
      /\ \A o : IsFile(cells2, o) <=> IsFile(cells, o) /\ o # s
  BY <1>4, <1>5, <1>6 DEF IsDirectory, IsFile
<1> QED
  BY <1>1, <1>2, <1>4, <1>5, <1>7

(* A closed file, or an empty directory, is removed: its clusters are about *)
(* to be freed.                                                             *)
LEMMA EraseLabels ==
  ASSUME NEW own, NEW pos, NEW g, NEW cells, NEW view, NEW leak,
         Vol(own, pos, g, cells, view, 0, leak),
         NEW s, Live(cells, s), Unused(view, s),
         \A t \in SlotSet : Live(cells, t) => own[t[1]] # s,
         NEW own2, Renamed(own, s, Mine, own2)
  PROVE  Vol(own2, pos, g, Put(cells, s, Deleted), view, In(cells, s).firstCluster, leak)
<1>0. /\ Labels(own, pos, g) /\ Names(own, pos, cells, view, 0) /\ EntriesHold(own, pos, cells)
      /\ FilesHold(own, pos, cells, view) /\ DirectoriesHold(own, pos, cells)
      /\ UnitsHold(own, pos, cells) /\ LeaksHold(own, leak)
  BY DEF Vol
<1>1. PICK cells2, k : cells2 = Put(cells, s, Deleted) /\ k = In(cells, s).firstCluster
  OBVIOUS
<1>2. /\ s \in SlotSet
      /\ \A t : Live(cells2, t) <=> Live(cells, t) /\ t # s
      /\ \A t : Live(cells, t) /\ t # s => In(cells2, t) = In(cells, t)
      /\ \A o : IsDirectory(cells2, o) <=> IsDirectory(cells, o) /\ o # s
      /\ \A o : IsFile(cells2, o) <=> IsFile(cells, o) /\ o # s
  BY <1>1, DeletedIs
<1>3. s \notin {Nowhere, NoOwner, Lost, Mine}
  BY OwnersAre
<1>4. \A c \in Cluster : own[c] # Mine
  BY <1>0, NoneIsMine
<1>5. /\ \A c \in Cluster : own[c] = s => own2[c] = Mine
      /\ \A c \in Cluster : own[c] # s => own2[c] = own[c]
  BY DEF Renamed
<1>6. Labels(own2, pos, g)
  BY <1>0, <1>3, <1>4, Tags, LabelsRenamed
<1>7. Names(own2, pos, cells2, view, k)
  <2>1. HeadOf(own2, pos, Nowhere, rootCluster)
    BY <1>0, <1>3, <1>5 DEF Names, HeadOf
  <2>2. k # 0 => HeadOf(own2, pos, Mine, k)
    BY <1>0, <1>1, <1>2, <1>5 DEF HeadOf, EntriesHold, EntryHolds
  <2>3. \A o : o \notin {s, Mine} /\ HasChain(cells, view, 0, o) => HasChain(cells2, view, k, o)
    BY <1>2 DEF HasChain
  <2>4. ASSUME NEW c \in Cluster
        PROVE  own2[c] \in {NoOwner, Lost} \/ HasChain(cells2, view, k, own2[c])
    <3>1. CASE own[c] = s
      <4>1. HasChain(cells, view, 0, s)
        BY <3>1, <1>0, <1>3 DEF Names
      <4>2. k # 0
        BY <4>1, <1>1, <1>3 DEF HasChain, Unused
      <4> QED
        BY <3>1, <4>2, <1>5 DEF HasChain
    <3>2. CASE own[c] # s
      BY <3>2, <2>3, <1>0, <1>4, <1>5 DEF Names
    <3> QED
      BY <3>1, <3>2
  <2> QED
    BY <2>1, <2>2, <2>4 DEF Names
<1>8. \A o : o # s => \A c \in Cluster : own[c] = o => own2[c] = o /\ pos[c] = pos[c]
  BY <1>5
<1>9. EntriesHold(own2, pos, cells2)
  <2> SUFFICES ASSUME NEW t \in SlotSet, Live(cells2, t)
               PROVE  Stays(own, pos, cells, own2, pos, cells2, t)
    BY <1>0, EntriesStay
  <2>1. EntryHolds(own, pos, cells, t, In(cells, t)) /\ t[1] \in Cluster /\ t # s
    BY <1>0, <1>2, Tags DEF EntriesHold
  <2>2. own[t[1]] # s
    BY <1>2
  <2> QED
    BY <2>1, <2>2, <1>2, <1>8 DEF Stays, EntryHolds
<1>10. FilesHold(own2, pos, cells2, view)
  <2> SUFFICES ASSUME NEW j \in Handles, view[j] # Closed
               PROVE  FileHolds(own2, pos, cells2, view[j])
    BY <1>0 DEF FilesHold
  <2>1. PICK f : f = view[j]
    OBVIOUS
  <2>2. FileHolds(own, pos, cells, f)
    BY <1>0, <2>1 DEF FilesHold
  <2>3. f.slot # s
    BY <2>1 DEF Unused, Opens
  <2>4. IsFile(cells2, f.slot) /\ Live(cells, f.slot)
    BY <2>2, <2>3, <1>2 DEF FileHolds, IsFile
  <2>5. In(cells2, f.slot).firstCluster \in {0, f.first}
    BY <2>2, <2>3, <2>4, <1>2 DEF FileHolds
  <2>6. FileHolds(own2, pos, cells2, f)
    BY <2>2, <2>3, <2>4, <2>5, <1>8, FileStays
  <2> QED
    BY <2>1, <2>6
<1>11. \A c \in Cluster, i \in 1 .. ClusterSize :
         cells2[c][i] = IF c = s[1] /\ i = s[2] THEN Deleted ELSE cells[c][i]
  <2>1. \A x : \A c \in Cluster, i \in 1 .. ClusterSize :
          Put(cells, s, x)[c][i] = IF c = s[1] /\ i = s[2] THEN x ELSE cells[c][i]
    BY <1>2, PutIs
  <2> QED
    BY <2>1, <1>1
<1>12. cells[s[1]][s[2]] # Zero /\ Deleted # Zero /\ IsDirectory(cells, own[s[1]])
  BY <1>0, <1>2 DEF Live, In, Zero, Deleted, EntriesHold, EntryHolds
<1>13. \A c \in Cluster : own2[c] # Mine => own2[c] = own[c]
  BY <1>5
<1>14. DirectoriesHold(own2, pos, cells2)
  <2> SUFFICES ASSUME NEW c \in Cluster, IsDirectory(cells2, own2[c])
               PROVE  /\ IsDirectory(cells, own[c])
                      /\ own2[c] = own[c] /\ pos[c] = pos[c]
                      /\ \A i \in 1 .. ClusterSize :
                           /\ cells2[c][i] = Zero <=> cells[c][i] = Zero
                           /\ cells2[c][i] \in {cells[c][i], Deleted} \/ cells2[c][i].kind = "entry"
    BY <1>0, DirectoriesStay
  <2>1. own2[c] = own[c] /\ IsDirectory(cells, own[c])
    BY <1>2, <1>13, OwnersAre
  <2> QED
    BY <2>1, <1>11, <1>12
<1>15. UnitsHold(own2, pos, cells2)
  <2> SUFFICES ASSUME NEW c \in Cluster, IsFile(cells2, own2[c])
               PROVE  /\ IsFile(cells, own[c]) /\ pos[c] = pos[c]
                      /\ \A i \in 1 .. ClusterSize : cells2[c][i] = cells[c][i]
    BY <1>0, UnitsStay
  <2>1. own2[c] = own[c] /\ IsFile(cells, own[c])
    BY <1>2, <1>13, OwnersAre
  <2>2. c # s[1]
    BY <2>1, <1>12, OwnersAre
  <2> QED
    BY <2>1, <2>2, <1>11
<1>16. LeaksHold(own2, leak)
  BY <1>0, <1>3, <1>5, Tags DEF LeaksHold
<1> QED
  BY <1>1, <1>6, <1>7, <1>9, <1>10, <1>14, <1>15, <1>16 DEF Vol

(* An entry takes over the chain of another, which is deleted.              *)
LEMMA MoveLabels ==
  ASSUME NEW own, NEW pos, NEW g, NEW cells, NEW view, NEW leak,
         Vol(own, pos, g, cells, view, 0, leak),
         NEW s, IsFile(cells, s), Unused(view, s), In(cells, s).firstCluster = 0,
         NEW t, IsFile(cells, t), Unused(view, t), s # t,
         NEW e, Replaces(cells, s, e),
         e.firstCluster = In(cells, t).firstCluster, e.size = In(cells, t).size,
         NEW own2, Renamed(own, t, s, own2)
  PROVE  Vol(own2, pos, g, Put(Put(cells, s, e), t, Deleted), view, 0, leak)
<1>0. /\ Labels(own, pos, g) /\ Names(own, pos, cells, view, 0) /\ EntriesHold(own, pos, cells)
      /\ FilesHold(own, pos, cells, view) /\ DirectoriesHold(own, pos, cells)
      /\ UnitsHold(own, pos, cells) /\ LeaksHold(own, leak)
  BY DEF Vol
<1>1. PICK mid, cells2 : mid = Put(cells, s, e) /\ cells2 = Put(mid, t, Deleted)
  OBVIOUS
<1>2. /\ s \in SlotSet /\ In(mid, s) = e
      /\ \A x : Live(mid, x) <=> Live(cells, x)
      /\ \A x : Live(cells, x) /\ x # s => In(mid, x) = In(cells, x)
      /\ \A o : IsDirectory(mid, o) <=> IsDirectory(cells, o)
      /\ \A o : IsFile(mid, o) <=> IsFile(cells, o)
  BY <1>1, EntryReplaced
<1>3. Live(cells, s) /\ Live(cells, t) /\ Live(mid, t)
  BY <1>2 DEF IsFile
<1>4. /\ t \in SlotSet
      /\ \A x : Live(cells2, x) <=> Live(mid, x) /\ x # t
      /\ \A x : Live(mid, x) /\ x # t => In(cells2, x) = In(mid, x)
      /\ \A o : IsDirectory(cells2, o) <=> IsDirectory(mid, o) /\ o # t
      /\ \A o : IsFile(cells2, o) <=> IsFile(mid, o) /\ o # t
  BY <1>1, <1>3, DeletedIs
<1>5. s \notin {Nowhere, NoOwner, Lost, Mine} /\ t \notin {Nowhere, NoOwner, Lost, Mine}
  BY <1>3, OwnersAre
<1>6. \A c \in Cluster : own[c] # s
  <2> SUFFICES ASSUME NEW c \in Cluster, own[c] = s PROVE FALSE
    OBVIOUS
  <2>1. HasChain(cells, view, 0, s)
    BY <1>0, <1>5 DEF Names
  <2> QED
    BY <2>1, <1>5 DEF HasChain, Unused
<1>7. /\ \A c \in Cluster : own[c] = t => own2[c] = s
      /\ \A c \in Cluster : own[c] # t => own2[c] = own[c]
      /\ \A c \in Cluster : own2[c] = s => own[c] = t
      /\ \A c \in Cluster : own2[c] # s => own2[c] = own[c]
  BY <1>6 DEF Renamed
<1>8. Labels(own2, pos, g)
  BY <1>0, <1>5, <1>6, Tags, LabelsRenamed
<1>9. /\ In(cells2, s) = e /\ Live(cells2, s)
      /\ \A x : Live(cells, x) /\ x \notin {s, t} => Live(cells2, x) /\ In(cells2, x) = In(cells, x)
  BY <1>2, <1>3, <1>4
<1>10. Names(own2, pos, cells2, view, 0)
  <2>1. HeadOf(own2, pos, Nowhere, rootCluster)
    BY <1>0, <1>5, <1>7 DEF Names, HeadOf
  <2>2. \A o : o \notin {s, t} /\ HasChain(cells, view, 0, o) => HasChain(cells2, view, 0, o)
    BY <1>9 DEF HasChain
  <2>3. ASSUME NEW c \in Cluster
        PROVE  own2[c] \in {NoOwner, Lost} \/ HasChain(cells2, view, 0, own2[c])
    <3>1. CASE own[c] = t
      <4>1. HasChain(cells, view, 0, t)
        BY <3>1, <1>0, <1>5 DEF Names
      <4>2. In(cells, t).firstCluster # 0
        BY <4>1, <1>5 DEF HasChain, Unused
      <4> QED
        BY <3>1, <4>2, <1>7, <1>9 DEF HasChain
    <3>2. CASE own[c] # t
      BY <3>2, <2>2, <1>0, <1>6, <1>7 DEF Names
    <3> QED
      BY <3>1, <3>2
  <2> QED
    BY <2>1, <2>3 DEF Names
<1>11. \A o : o # t => \A c \in Cluster : own[c] = o => own2[c] = o /\ pos[c] = pos[c]
  BY <1>7
<1>12. EntriesHold(own2, pos, cells2)
  <2> SUFFICES ASSUME NEW x \in SlotSet, Live(cells2, x)
               PROVE  \/ Stays(own, pos, cells, own2, pos, cells2, x)
                      \/ EntryHolds(own2, pos, cells2, x, In(cells2, x))
    BY <1>0, EntriesStay
  <2>1. Live(cells, x) /\ x # t /\ EntryHolds(own, pos, cells, x, In(cells, x)) /\ x[1] \in Cluster
    BY <1>0, <1>2, <1>4, Tags DEF EntriesHold
  <2>2. own2[x[1]] = own[x[1]] /\ IsDirectory(cells2, own[x[1]])
    <3>1. IsDirectory(cells, own[x[1]]) /\ own[x[1]] # t
      BY <2>1, OwnersAre DEF EntryHolds
    <3> QED
      BY <2>1, <3>1, <1>2, <1>4, <1>7
  <2>3. CASE x = s
    <3>1. EntryHolds(own, pos, cells, t, In(cells, t))
      BY <1>0, <1>3, <1>4 DEF EntriesHold
    <3>2. \A k : HeadOf(own, pos, t, k) => HeadOf(own2, pos, s, k)
      BY <1>7 DEF HeadOf
    <3>3. Fits(own2, pos, s, e.firstCluster, e.size)
      BY <3>1, <1>7 DEF EntryHolds, Fits
    <3>4. ~e.dir
      BY DEF Replaces, IsFile
    <3> QED
      BY <2>2, <2>3, <3>1, <3>2, <3>3, <3>4, <1>9 DEF EntryHolds
  <2>4. CASE x # s
    BY <2>1, <2>2, <2>4, <1>9, <1>11 DEF Stays
  <2> QED
    BY <2>3, <2>4
<1>13. FilesHold(own2, pos, cells2, view)
  <2> SUFFICES ASSUME NEW j \in Handles, view[j] # Closed
               PROVE  FileHolds(own2, pos, cells2, view[j])
    BY <1>0 DEF FilesHold
  <2>1. PICK f : f = view[j]
    OBVIOUS
  <2>2. FileHolds(own, pos, cells, f)
    BY <1>0, <2>1 DEF FilesHold
  <2>3. f.slot \notin {s, t}
    BY <2>1 DEF Unused, Opens
  <2>4. IsFile(cells2, f.slot) /\ Live(cells, f.slot)
    BY <2>2, <2>3, <1>2, <1>4 DEF FileHolds, IsFile
  <2>5. In(cells2, f.slot).firstCluster \in {0, f.first}
    BY <2>2, <2>3, <2>4, <1>9 DEF FileHolds
  <2>6. FileHolds(own2, pos, cells2, f)
    BY <2>2, <2>3, <2>4, <2>5, <1>11, FileStays
  <2> QED
    BY <2>1, <2>6
<1>14. \A c \in Cluster, i \in 1 .. ClusterSize :
         cells2[c][i] = IF c = t[1] /\ i = t[2] THEN Deleted
                        ELSE IF c = s[1] /\ i = s[2] THEN e ELSE cells[c][i]
  <2>1. \A x : \A c \in Cluster, i \in 1 .. ClusterSize :
          Put(mid, t, x)[c][i] = IF c = t[1] /\ i = t[2] THEN x ELSE mid[c][i]
    BY <1>4, PutIs
  <2>2. \A c \in Cluster, i \in 1 .. ClusterSize :
          Put(cells, s, e)[c][i] = IF c = s[1] /\ i = s[2] THEN e ELSE cells[c][i]
    BY <1>2, PutIs
  <2> QED
    BY <2>1, <2>2, <1>1
<1>15. /\ cells[s[1]][s[2]] # Zero /\ cells[t[1]][t[2]] # Zero /\ Deleted # Zero
       /\ e.kind = "entry" /\ e # Zero
       /\ IsDirectory(cells, own[s[1]]) /\ IsDirectory(cells, own[t[1]])
  <2>1. \A x : Live(cells, x) => cells[x[1]][x[2]] # Zero
    BY DEF Live, In, Zero
  <2>2. \A x : Live(cells, x) => IsDirectory(cells, own[x[1]])
    BY <1>0 DEF Live, EntriesHold, EntryHolds
  <2>3. e.kind = "entry" /\ e # Zero /\ Deleted # Zero
    BY DEF Replaces, Zero, Deleted
  <2> QED
    BY <2>1, <2>2, <2>3, <1>3
<1>16. DirectoriesHold(own2, pos, cells2)
  <2> SUFFICES ASSUME NEW c \in Cluster, IsDirectory(cells2, own2[c])
               PROVE  /\ IsDirectory(cells, own[c])
                      /\ own2[c] = own[c] /\ pos[c] = pos[c]
                      /\ \A i \in 1 .. ClusterSize :
                           /\ cells2[c][i] = Zero <=> cells[c][i] = Zero
                           /\ cells2[c][i] \in {cells[c][i], Deleted} \/ cells2[c][i].kind = "entry"
    BY <1>0, DirectoriesStay
  <2>1. IsDirectory(cells, own2[c]) /\ own2[c] # s
    BY <1>2, <1>4, OwnersAre
  <2>2. own2[c] = own[c]
    BY <2>1, <1>7
  <2> QED
    BY <2>1, <2>2, <1>14, <1>15
<1>17. UnitsHold(own2, pos, cells2)
  <2> SUFFICES ASSUME NEW c \in Cluster, IsFile(cells2, own2[c])
               PROVE  /\ IsFile(cells, own[c]) /\ pos[c] = pos[c]
                      /\ \A i \in 1 .. ClusterSize : cells2[c][i] = cells[c][i]
    BY <1>0, UnitsStay
  <2>1. IsFile(cells, own[c])
    BY <1>2, <1>4, <1>7
  <2>2. c # s[1] /\ c # t[1]
    BY <2>1, <1>15, OwnersAre
  <2> QED
    BY <2>1, <2>2, <1>14
<1>18. LeaksHold(own2, leak)
  BY <1>0, <1>5, <1>7, Tags DEF LeaksHold
<1> QED
  BY <1>1, <1>8, <1>10, <1>12, <1>13, <1>16, <1>17, <1>18 DEF Vol
=============================================================================
