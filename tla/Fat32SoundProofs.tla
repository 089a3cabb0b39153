-------------------------- MODULE Fat32SoundProofs --------------------------
(***************************************************************************)
(* On a disk that works the volume is sound between calls, and each cluster*)
(* is accounted for: for every size of volume, whatever clients do, but for*)
(* renaming below a regular file.                                          *)
(*                                                                         *)
(* Soundness is not inductive: a call in progress has changed half of what *)
(* it is going to.  The invariant is that the clusters can be labelled with*)
(* owners and places so that the volume is sound but for the cluster that  *)
(* the call has for itself and the writes it still owes the disk (Held).   *)
(***************************************************************************)
EXTENDS Fat32Proofs

-----------------------------------------------------------------------------
(* Calls and what they owe *)

(* A call that owes the disk nothing: what it has done so far is there.     *)
Plain(c) ==
  /\ InView(c) \notin {"clear", "cut", "emptied", "flush"}
  /\ ~(c.at = "erase" /\ c.op = "rename")

(* Such a call sees the handles, the table and the cells as they are.       *)
LEMMA PlainIs ==
  ASSUME NEW c, Plain(c), NEW files, NEW g, NEW cells
  PROVE  /\ View(files, c) = Rest(files)
         /\ TableDue(g, c) = g
         /\ \A view : CellsDue(cells, view, c) = cells
<1>1. View(files, c) = Rest(files)
  BY DEF View, Rest, Plain
<1> QED
  BY <1>1 DEF Plain, TableDue, CellsDue

(* And holds to its labels as they are.                                     *)
LEMMA PlainHeld ==
  ASSUME NEW c, Plain(c), NEW own, NEW pos, NEW g, NEW cells, NEW files, NEW leak
  PROVE  Held(own, pos, g, cells, files, c, leak) <=>
           /\ Vol(own, pos, g, cells, Rest(files), Private(c), leak)
           /\ StageHolds(g, cells, files, c)
           /\ RequestHolds(own, pos, cells, Rest(files), files, c, InView(c))
<1>1. PICK view : view = View(files, c)
  OBVIOUS
<1>2. view = Rest(files) /\ TableDue(g, c) = g /\ CellsDue(cells, view, c) = cells
  BY <1>1, PlainIs
<1>3. Held(own, pos, g, cells, files, c, leak) <=>
        /\ Vol(own, pos, TableDue(g, c), CellsDue(cells, view, c), view, Private(c), leak)
        /\ StageHolds(g, cells, files, c)
        /\ RequestHolds(own, pos, CellsDue(cells, view, c), view, files, c, InView(c))
  BY <1>1 DEF Held
<1> QED
  BY <1>2, <1>3

(* Between calls nothing is owed.                                           *)
LEMMA IdleIs ==
  /\ Plain(Idle) /\ Private(Idle) = 0 /\ InView(Idle) = "idle"
  /\ \A g, cells, files : StageHolds(g, cells, files, Idle)
  /\ \A own, pos, cells, view, files : RequestHolds(own, pos, cells, view, files, Idle, "idle")
<1>1. PICK c : c = Idle
  OBVIOUS
<1>2. c.at = "idle" /\ c.op = "idle"
  BY <1>1 DEF Idle
<1>3. Plain(c) /\ Private(c) = 0 /\ InView(c) = "idle"
  BY <1>2 DEF Plain, Private, InView
<1>4. \A g, cells, files : StageHolds(g, cells, files, c)
  BY <1>2, <1>3 DEF StageHolds
<1>5. \A own, pos, cells, view, files : RequestHolds(own, pos, cells, view, files, c, "idle")
  BY DEF RequestHolds
<1> QED
  BY <1>1, <1>3, <1>4, <1>5

(* Without a call the labelled volume is all there is.                      *)
LEMMA IdleHeld ==
  ASSUME NEW own, NEW pos, NEW g, NEW cells, NEW files, NEW leak
  PROVE  Held(own, pos, g, cells, files, Idle, leak) <=>
           Vol(own, pos, g, cells, Rest(files), 0, leak)
<1>1. PICK c : c = Idle
  OBVIOUS
<1>2. /\ Plain(c) /\ Private(c) = 0 /\ InView(c) = "idle" /\ StageHolds(g, cells, files, c)
      /\ RequestHolds(own, pos, cells, Rest(files), files, c, "idle")
  BY <1>1, IdleIs
<1>3. Held(own, pos, g, cells, files, c, leak) <=>
           /\ Vol(own, pos, g, cells, Rest(files), Private(c), leak)
           /\ StageHolds(g, cells, files, c)
           /\ RequestHolds(own, pos, cells, Rest(files), files, c, InView(c))
  BY <1>2, PlainHeld
<1> QED
  BY <1>1, <1>2, <1>3

(* A call that goes on: where it is and which cluster it has in hand move,  *)
(* what it is about does not.                                               *)
Same(c, d) ==
  /\ CallForm(d)
  /\ d.op = c.op /\ d.handle = c.handle /\ d.n = c.n /\ d.head = c.head
  /\ d.slot = c.slot /\ d.old = c.old /\ d.ent = c.ent /\ d.was = c.was

(* While it has the same step in view, a call owes the same.                *)
LEMMA SameDue ==
  ASSUME NEW c, NEW d, Same(c, d), InView(c) = InView(d), c.at # "erase", d.at # "erase",
         NEW files, NEW cells, NEW view, NEW g
  PROVE  /\ View(files, c) = View(files, d)
         /\ CellsDue(cells, view, c) = CellsDue(cells, view, d)
         /\ TableDue(g, c) = TableDue(g, d)
<1>1. View(files, c) = View(files, d)
  BY DEF Same, View
<1>2. CellsDue(cells, view, c) = CellsDue(cells, view, d)
  BY DEF Same, CellsDue
<1>3. TableDue(g, c) = TableDue(g, d)
  BY DEF Same, TableDue
<1> QED
  BY <1>1, <1>2, <1>3

(* What a call asks for is about files and directories: clusters that       *)
(* belong to nobody, or to the call, may change hands and contents.         *)
LEMMA RequestCarries ==
  ASSUME NEW own, NEW pos, NEW cells, NEW view, NEW own2, NEW pos2, NEW cells2,
         NEW files, NEW c, NEW d, NEW v, Same(c, d), v # "chunk",
         RequestHolds(own, pos, cells, view, files, c, v),
         v = "cut" => SlotOK(files[c.handle].slot),
         \A x \in Cluster : own[x] \notin {NoOwner, Mine, Lost} =>
           own2[x] = own[x] /\ pos2[x] = pos[x] /\ cells2[x] = cells[x],
         \A x \in Cluster : own2[x] \notin {NoOwner, Mine, Lost} => own2[x] = own[x],
         \A s : Live(cells2, s) <=> Live(cells, s),
         \A s : Live(cells, s) => In(cells2, s) = In(cells, s)
  PROVE  RequestHolds(own2, pos2, cells2, view, files, d, v)
<1> DEFINE Kept(o) == o \notin {NoOwner, Mine, Lost}
<1>0. /\ d.op = c.op /\ d.handle = c.handle /\ d.n = c.n /\ d.head = c.head
      /\ d.slot = c.slot /\ d.old = c.old /\ d.ent = c.ent /\ d.was = c.was
  BY DEF Same
<1>1. /\ \A o : IsFile(cells2, o) <=> IsFile(cells, o)
      /\ \A o : IsDirectory(cells2, o) <=> IsDirectory(cells, o)
  BY DEF IsFile, IsDirectory
<1>2. /\ \A x \in Cluster : Kept(own[x]) =>
           own2[x] = own[x] /\ pos2[x] = pos[x] /\ cells2[x] = cells[x]
      /\ \A x \in Cluster : Kept(own2[x]) => own2[x] = own[x]
  OBVIOUS
<1>3. /\ \A o : IsDirectory(cells, o) \/ Live(cells, o) => Kept(o)
      /\ \A s : SlotOK(s) => Kept(s)
  BY OwnersAre, Tags DEF SlotOK, SlotSet, Tag
<1> HIDE DEF Kept
<1>4. ASSUME NEW x, DirHead(own, pos, cells, x)
      PROVE  /\ DirHead(own2, pos2, cells2, x) /\ x \in Cluster
             /\ Kept(own[x]) /\ own2[x] = own[x]
  BY <1>1, <1>2, <1>3, <1>4 DEF DirHead
<1>5. NewEntry(own, pos, cells, view, c) => NewEntry(own2, pos2, cells2, view, d)
  <2> SUFFICES ASSUME NewEntry(own, pos, cells, view, c)
               PROVE  NewEntry(own2, pos2, cells2, view, d)
    OBVIOUS
  <2>1. DirHead(own2, pos2, cells2, d.head)
    BY <1>0, <1>4 DEF NewEntry
  <2>2. c.op = "rename" =>
          IsFile(cells2, d.old) /\ d.was = In(cells2, d.old) /\ Unused(view, d.old)
    BY <1>0, <1>1 DEF NewEntry, IsFile
  <2> QED
    BY <1>0, <2>1, <2>2 DEF NewEntry
<1>6. ASSUME NewEntry(own, pos, cells, view, c), NoReuse(own, cells, c.head)
      PROVE  NoReuse(own2, cells2, d.head)
  <2>1. Kept(own[c.head]) /\ own2[c.head] = own[c.head]
    BY <1>4, <1>6 DEF NewEntry
  <2> QED
    BY <2>1, <1>0, <1>2, <1>6 DEF NoReuse
<1>7. ASSUME NewEntry(own, pos, cells, view, c), SlotReady(own, pos, cells, c.head, c.slot)
      PROVE  SlotReady(own2, pos2, cells2, d.head, d.slot)
  <2>1. Kept(own[c.head]) /\ own2[c.head] = own[c.head]
    BY <1>4, <1>7 DEF NewEntry
  <2>2. PICK s : s = c.slot
    OBVIOUS
  <2>3. s \in SlotSet /\ own[s[1]] = own[c.head] /\ s[1] \in Cluster
    BY <2>2, <1>7, Tags DEF SlotReady
  <2>4. own2[s[1]] = own2[c.head] /\ In(cells2, s) = In(cells, s) /\ pos2[s[1]] = pos[s[1]]
    BY <2>1, <2>3, <1>2 DEF In
  <2>5. ASSUME NEW x \in Cluster, NEW i \in 1 .. ClusterSize,
               own2[x] = own2[c.head] /\ Before(pos2[x], i, pos2[s[1]], s[2])
        PROVE  cells2[x][i] # Zero
    <3>1. own[x] = own[c.head] /\ Kept(own[x])
      BY <2>1, <2>5, <1>2
    <3>2. pos2[x] = pos[x] /\ cells2[x] = cells[x]
      BY <3>1, <1>2
    <3>3. Before(pos[x], i, pos[s[1]], s[2])
      BY <2>4, <2>5, <3>2
    <3> QED
      BY <3>1, <3>2, <3>3, <2>2, <1>7 DEF SlotReady
  <2> QED
    BY <1>0, <1>7, <2>2, <2>3, <2>4, <2>5 DEF SlotReady
<1>8. ASSUME v = "erase", c.op # "rename"
      PROVE  /\ d.op = "remove" /\ Live(cells2, d.slot) /\ Unused(view, d.slot)
             /\ In(cells2, d.slot).dir =>
                  \A s \in SlotSet : Live(cells2, s) => own2[s[1]] # d.slot
  <2>1. /\ c.op = "remove" /\ Live(cells, c.slot) /\ Unused(view, c.slot)
        /\ In(cells, c.slot).dir =>
             \A s \in SlotSet : Live(cells, s) => own[s[1]] # c.slot
    BY <1>8 DEF RequestHolds
  <2>2. Kept(c.slot)
    BY <2>1, <1>3
  <2>3. \A s \in SlotSet : own2[s[1]] = c.slot => own[s[1]] = c.slot
    BY <2>2, <1>2, Tags
  <2> QED
    BY <2>1, <2>3, <1>0
<1>9. ASSUME v = "cut"
      PROVE  /\ d.n # 0 /\ d.head \in Cluster /\ own2[d.head] = files[d.handle].slot
             /\ pos2[d.head] = (d.n - 1) \div ClusterSize
  <2>1. /\ c.n # 0 /\ c.head \in Cluster /\ own[c.head] = files[c.handle].slot
        /\ pos[c.head] = (c.n - 1) \div ClusterSize
    BY <1>9 DEF RequestHolds
  <2>2. Kept(own[c.head])
    BY <2>1, <1>3, <1>9
  <2> QED
    BY <2>1, <2>2, <1>0, <1>2
<1>10. v = "link" =>
       IF Writes(d) THEN d.head = files[d.handle].ent.firstCluster
       ELSE /\ NewEntry(own2, pos2, cells2, view, d) /\ NoReuse(own2, cells2, d.head)
            /\ d.ent.firstCluster = 0
  BY <1>0, <1>5, <1>6 DEF RequestHolds, Writes
<1>11. /\ v = "dots" => /\ NewEntry(own2, pos2, cells2, view, d) /\ d.ent.dir
                        /\ SlotReady(own2, pos2, cells2, d.head, d.slot)
       /\ v = "entry" => /\ NewEntry(own2, pos2, cells2, view, d)
                         /\ SlotReady(own2, pos2, cells2, d.head, d.slot)
  BY <1>0, <1>5, <1>7 DEF RequestHolds
<1>12. /\ v \in {"clear", "opened"} =>
            IsFile(cells2, d.slot) /\ Unused(view, d.slot) /\ view[d.handle] = Closed
       /\ v = "rename" =>
            /\ Live(cells2, d.slot) /\ Unused(view, d.slot)
            /\ d.ent = [In(cells2, d.slot) EXCEPT !.name = d.ent.name] /\ d.ent.name \notin Dots
  BY <1>0, <1>1 DEF RequestHolds
<1>13. v = "update" =>
       /\ IsFile(cells2, d.slot) /\ IsFile(cells2, d.old) /\ d.slot # d.old
       /\ Unused(view, d.slot) /\ Unused(view, d.old)
       /\ In(cells2, d.slot).firstCluster = 0
       /\ d.was = In(cells2, d.old)
       /\ d.op = "rename"
  BY <1>0, <1>1 DEF RequestHolds, IsFile
<1>14. /\ v = "erase" /\ d.op = "rename" => d.old \in SlotSet
       /\ v = "first" => files[d.handle].ent.firstCluster = 0
       /\ v \in {"locate", "link", "first", "chunk"} /\ Writes(d) => d.n # 0
  BY <1>0 DEF RequestHolds, Writes
<1> QED
  BY <1>0, <1>8, <1>9, <1>10, <1>11, <1>12, <1>13, <1>14 DEF RequestHolds

-----------------------------------------------------------------------------
(* A disk that works *)

(* What holds at every step beside the labels.                              *)
Working == MaxFaults = 0 /\ IInv /\ Ranges

(* No write fails.                                                          *)
LEMMA NothingFails == ASSUME Working PROVE \A ok \in Outcomes : ok = TRUE
<1>1. faults \in 0 .. MaxFaults /\ MaxFaults = 0
  BY RangeParts DEF Working
<1>2. ~(faults < MaxFaults)
  BY <1>1
<1> QED
  BY <1>2 DEF Outcomes

(* What is written is there.                                                *)
LEMMA TableIsWritten ==
  ASSUME Working, NEW c, NEW v, NEW ok \in Outcomes, writeFATEntry(c, v, ok)
  PROVE  ok /\ Changed(fat, c, v, fat')
<1>1. ok = TRUE
  BY NothingFails
<1>2. fat' = [fat EXCEPT ![c] = v]
  BY <1>1 DEF writeFATEntry
<1> QED
  BY <1>1, <1>2, Parts DEF Working, FatOK, Changed

(* writeCluster writes the cells of a cluster.                              *)
LEMMA RowIsWritten ==
  ASSUME Working, NEW c \in Cluster, NEW cells, NEW ok \in Outcomes, writeCluster(c, cells, ok)
  PROVE  /\ ok
         /\ \A x \in Cluster : x # c => data'[x] = data[x]
         /\ data'[c] = [i \in 1 .. ClusterSize |-> cells[i]]
         /\ data' = [x \in Cluster |-> data'[x]]
<1>1. ok = TRUE /\ ClusterSize \in Nat
  BY NothingFails, VolumeAssumption
<1>2. PICK row : row = [i \in 1 .. ClusterSize |->
                          IF i <= ClusterSize THEN cells[i] ELSE data[c][i]]
  OBVIOUS
<1>3. data' = [data EXCEPT ![c] = row]
  BY <1>1, <1>2 DEF writeCluster
<1>4. row = [i \in 1 .. ClusterSize |-> cells[i]]
  <2>1. \A i \in 1 .. ClusterSize : i <= ClusterSize
    BY <1>1
  <2> QED
    BY <1>2, <2>1
<1>5. data = [x \in Cluster |-> data[x]]
  BY Parts DEF Working, DataOK
<1> QED
  BY <1>1, <1>3, <1>4, <1>5

(* writeSlot writes a slot.                                                 *)
LEMMA SlotIsWritten ==
  ASSUME Working, NEW s \in SlotSet, NEW x, NEW ok \in Outcomes, writeSlot(s, x, ok)
  PROVE  ok /\ data' = Put(data, s, x)
<1>1. s[1] \in Cluster /\ s[2] \in 1 .. ClusterSize
  BY Tags
<1>2. PICK row : row = [data[s[1]] EXCEPT ![s[2]] = x]
  OBVIOUS
<1>3. writeCluster(s[1], row, ok)
  BY <1>2 DEF writeSlot
<1>4. /\ ok
      /\ \A y \in Cluster : y # s[1] => data'[y] = data[y]
      /\ data'[s[1]] = [i \in 1 .. ClusterSize |-> row[i]]
      /\ data' = [y \in Cluster |-> data'[y]]
  BY <1>1, <1>3, RowIsWritten
<1>5. /\ \A y \in Cluster : data[y] = [i \in 1 .. ClusterSize |-> data[y][i]]
  BY Parts DEF Working, DataOK, CellsOK
<1>6. \A i \in 1 .. ClusterSize : row[i] = IF i = s[2] THEN x ELSE data[s[1]][i]
  BY <1>1, <1>2, <1>5
<1>7. ASSUME NEW y \in Cluster
      PROVE  data'[y] = [i \in 1 .. ClusterSize |->
                           IF y = s[1] /\ i = s[2] THEN x ELSE data[y][i]]
  <2>1. CASE y = s[1]
    BY <2>1, <1>4, <1>6
  <2>2. CASE y # s[1]
    BY <2>2, <1>4, <1>5
  <2> QED
    BY <2>1, <2>2
<1>8. Put(data, s, x) = [y \in Cluster |-> data'[y]]
  BY <1>7 DEF Put
<1> QED
  BY <1>4, <1>8

(* A cell that holds what is put there stays.                               *)
LEMMA PutSame ==
  ASSUME NEW cells, DataOK(cells), NEW s \in SlotSet, NEW x, x = In(cells, s)
  PROVE  Put(cells, s, x) = cells
<1>1. cells = [y \in Cluster |-> cells[y]]
  BY DEF DataOK
<1>2. ASSUME NEW y \in Cluster
      PROVE  [i \in 1 .. ClusterSize |-> IF y = s[1] /\ i = s[2] THEN x ELSE cells[y][i]]
               = cells[y]
  <2>1. cells[y] = [i \in 1 .. ClusterSize |-> cells[y][i]]
    BY DEF DataOK, CellsOK
  <2>2. \A i \in 1 .. ClusterSize :
          (IF y = s[1] /\ i = s[2] THEN x ELSE cells[y][i]) = cells[y][i]
    BY DEF In
  <2>3. PICK row : row = cells[y]
    OBVIOUS
  <2> QED
    BY <2>1, <2>2, <2>3
<1> QED
  BY <1>1, <1>2 DEF Put

-----------------------------------------------------------------------------
(* The steps of allocateCluster and freeClusterChain *)

(* The labels of the state at hand, and of the one that follows.            *)
Holds(own, pos) == Held(own, pos, fat, data, handles, call, leaked)

(* The state that follows has labels.                                       *)
Goes == \E own, pos : Held(own, pos, fat', data', handles', call', leaked')

(* A cluster gets another label.                                            *)
LEMMA Relabels ==
  ASSUME NEW f, NEW x, NEW v
  PROVE  \E f2 : Changed(f, x, v, f2)
<1>1. Changed(f, x, v, [c \in Cluster |-> IF c = x THEN v ELSE f[c]])
  BY DEF Changed
<1> QED
  BY <1>1

(* Labels may pass from one owner to another.                               *)
LEMMA Renames ==
  ASSUME NEW own, NEW a, NEW b
  PROVE  \E own2 : Renamed(own, a, b, own2)
<1>1. Renamed(own, a, b, [c \in Cluster |-> IF own[c] = a THEN b ELSE own[c]])
  BY DEF Renamed
<1> QED
  BY <1>1

(* The call has found a free cluster, and has it for itself.                *)
LEMMA ClaimHolds ==
  ASSUME Working, NEW own, NEW pos, Holds(own, pos), AllocateClaim
  PROVE  Goes
<1>0. /\ call.at = "alloc" /\ data' = data /\ handles' = handles /\ leaked' = leaked
      /\ CallForm(call) /\ call.next \in {"link", "dots", "first"}
  BY Parts, Zenon DEF AllocateClaim, At, Working, Allocated
<1>1. InView(call) = call.next /\ Plain(call) /\ Private(call) = 0
  BY <1>0 DEF InView, Plain, Private
<1>2. PICK view : view = Rest(handles)
  OBVIOUS
<1>3. /\ Vol(own, pos, fat, data, view, 0, leaked)
      /\ RequestHolds(own, pos, data, view, handles, call, call.next)
  BY <1>1, <1>2, PlainHeld DEF Holds
<1>4. CASE call' = Idle /\ fat' = fat
  <2>1. Held(own, pos, fat, data, handles, Idle, leaked)
    BY <1>2, <1>3, IdleHeld
  <2> QED
    BY <2>1, <1>0, <1>4 DEF Goes
<1>5. ASSUME NEW m \in Cluster, NEW ok \in Outcomes, IsNextFree(m),
             writeFATEntry(m, EndOfChain, ok),
             call' = IF ok THEN [call EXCEPT !.at = "zero", !.cluster = m] ELSE Idle
      PROVE  Goes
  <2>1. ok /\ Changed(fat, m, EndOfChain, fat') /\ fat[m] = FreeCluster
    BY <1>5, TableIsWritten DEF IsNextFree
  <2>2. PICK own2 : Changed(own, m, Mine, own2)
    BY Relabels
  <2>3. PICK pos2 : Changed(pos, m, 0, pos2)
    BY Relabels
  <2>4. PICK d : d = call'
    OBVIOUS
  <2>5. Same(call, d) /\ d.at = "zero" /\ d.next = call.next /\ d.cluster = m
    BY <2>1, <2>4, <1>0, <1>5 DEF CallForm, CallFields, Same
  <2>6. InView(d) = call.next /\ Plain(d) /\ Private(d) = m
    BY <2>5, <1>0 DEF InView, Plain, Private
  <2>7. Vol(own2, pos2, fat', data, view, m, leaked)
    BY <2>1, <2>2, <2>3, <1>3, ClaimLabels
  <2>8. StageHolds(fat', data, handles, d)
    <3>1. fat'[m] = EndOfChain
      BY <2>1 DEF Changed
    <3> QED
      BY <3>1, <2>5, <2>6, <1>0 DEF StageHolds
  <2>9. RequestHolds(own2, pos2, data, view, handles, d, call.next)
    <3>1. own[m] = NoOwner
      BY <2>1, <1>3 DEF Vol, Labels
    <3>2. \A x \in Cluster : own[x] \notin {NoOwner, Mine, Lost} =>
            own2[x] = own[x] /\ pos2[x] = pos[x] /\ data[x] = data[x]
      BY <3>1, <2>2, <2>3 DEF Changed
    <3>3. \A x \in Cluster : own2[x] \notin {NoOwner, Mine, Lost} => own2[x] = own[x]
      BY <2>2 DEF Changed
    <3>4. call.next # "chunk" /\ call.next # "cut"
      BY <1>0
    <3>5. /\ \A s : Live(data, s) <=> Live(data, s)
          /\ \A s : Live(data, s) => In(data, s) = In(data, s)
      OBVIOUS
    <3> QED
      BY <3>2, <3>3, <3>4, <3>5, <2>5, <1>3, RequestCarries
  <2>10. Held(own2, pos2, fat', data, handles, d, leaked)
    BY <2>6, <2>7, <2>8, <2>9, <1>2, PlainHeld
  <2> QED
    BY <2>10, <2>4, <1>0 DEF Goes
<1> QED
  BY <1>4, <1>5, Zenon DEF AllocateClaim

(* The cluster is cleared.                                                  *)
LEMMA ZeroHolds ==
  ASSUME Working, NEW own, NEW pos, Holds(own, pos), zeroCluster
  PROVE  Goes
<1>0. /\ call.at = "zero" /\ fat' = fat /\ handles' = handles /\ leaked' = leaked
      /\ CallForm(call) /\ call.next \in {"link", "dots", "first"} /\ call.cluster \in Cluster
  BY Parts DEF zeroCluster, At, Working, Allocated, InView
<1>1. InView(call) = call.next /\ Plain(call) /\ Private(call) = call.cluster
  BY <1>0 DEF InView, Plain, Private
<1>2. PICK view, m : view = Rest(handles) /\ m = call.cluster
  OBVIOUS
<1>3. /\ Vol(own, pos, fat, data, view, m, leaked) /\ StageHolds(fat, data, handles, call)
      /\ RequestHolds(own, pos, data, view, handles, call, call.next)
  BY <1>1, <1>2, PlainHeld DEF Holds
<1>4. m \in Cluster /\ fat[m] = EndOfChain /\ 0 \notin Cluster
  BY <1>0, <1>1, <1>2, <1>3, ClustersCounted DEF StageHolds
<1>5. PICK ok \in Outcomes :
        /\ writeCluster(m, ZeroCells, ok)
        /\ call' = Goto(IF ok THEN "sync" ELSE "undo")
  BY <1>2 DEF zeroCluster
<1>6. ok /\ (\A x \in Cluster : x # m => data'[x] = data[x]) /\ data'[m] = ZeroCells
  <2>1. /\ ok /\ \A x \in Cluster : x # m => data'[x] = data[x]
        /\ data'[m] = [i \in 1 .. ClusterSize |-> ZeroCells[i]]
    BY <1>4, <1>5, RowIsWritten
  <2> QED
    BY <2>1 DEF ZeroCells
<1>7. /\ Vol(own, pos, fat, data', view, m, leaked)
      /\ \A s : Live(data', s) <=> Live(data, s)
      /\ \A s : Live(data, s) => In(data', s) = In(data, s)
      /\ own[m] = Mine
  <2>1. \A i \in 1 .. ClusterSize : data'[m][i].kind = "entry" => data'[m][i].name \in Dots
    BY <1>6 DEF ZeroCells, Zero
  <2> QED
    BY <2>1, <1>3, <1>4, <1>6, PrivateRowWritten
<1>8. PICK d : d = call'
  OBVIOUS
<1>9. Same(call, d) /\ d.at = "sync" /\ d.next = call.next /\ d.cluster = m
  <2>1. d = [call EXCEPT !.at = "sync"]
    BY <1>5, <1>6, <1>8 DEF Goto, Jump
  <2> QED
    BY <2>1, <1>0, <1>2 DEF CallForm, CallFields, Same
<1>10. InView(d) = call.next /\ Plain(d) /\ Private(d) = m
  BY <1>9, <1>0 DEF InView, Plain, Private
<1>11. StageHolds(fat, data', handles, d)
  BY <1>4, <1>6, <1>9, <1>10, <1>0 DEF StageHolds
<1>12. RequestHolds(own, pos, data', view, handles, d, call.next)
  <2>1. \A x \in Cluster : own[x] \notin {NoOwner, Mine, Lost} =>
          own[x] = own[x] /\ pos[x] = pos[x] /\ data'[x] = data[x]
    BY <1>6, <1>7
  <2>2. call.next # "chunk" /\ call.next # "cut"
    BY <1>0
  <2> QED
    BY <2>1, <2>2, <1>3, <1>7, <1>9, RequestCarries
<1>13. Held(own, pos, fat, data', handles, d, leaked)
  BY <1>7, <1>10, <1>11, <1>12, <1>2, PlainHeld
<1> QED
  BY <1>13, <1>8, <1>0 DEF Goes

(* The counters are on disk.                                                *)
LEMMA SyncHolds ==
  ASSUME Working, NEW own, NEW pos, Holds(own, pos), syncFSInfo
  PROVE  Goes
<1>0. /\ call.at = "sync" /\ fat' = fat /\ data' = data /\ handles' = handles
      /\ leaked' = leaked /\ CallForm(call) /\ call' = Goto(call.next)
  BY Parts DEF syncFSInfo, At, Working
<1>1. InView(call) = call.next
  BY <1>0 DEF InView
<1>2. PICK view, due, g : /\ view = View(handles, call) /\ due = CellsDue(data, view, call)
                          /\ g = TableDue(fat, call)
  OBVIOUS
<1>3. /\ Vol(own, pos, g, due, view, Private(call), leaked)
      /\ StageHolds(fat, data, handles, call)
      /\ RequestHolds(own, pos, due, view, handles, call, call.next)
  BY <1>1, <1>2 DEF Holds, Held
<1>4. call.next \in {"idle", "clear", "cut", "emptied", "link", "dots", "first"}
  BY <1>0, <1>3 DEF StageHolds
<1>5. CASE call.next = "idle"
  <2>1. Plain(call) /\ Private(call) = 0
    BY <1>0, <1>1, <1>5 DEF Plain, Private
  <2>2. Vol(own, pos, fat, data, Rest(handles), 0, leaked)
    BY <2>1, PlainHeld DEF Holds
  <2>3. call' = Idle
    BY <1>0, <1>5 DEF Goto, Jump
  <2>4. Held(own, pos, fat, data, handles, Idle, leaked)
    BY <2>2, IdleHeld
  <2> QED
    BY <2>3, <2>4, <1>0 DEF Goes
<1>6. CASE call.next # "idle"
  <2>1. PICK d : d = call'
    OBVIOUS
  <2>2. Same(call, d) /\ d.at = call.next /\ d.next = call.next /\ d.cluster = call.cluster
    <3>1. d = [call EXCEPT !.at = call.next]
      BY <2>1, <1>0, <1>6 DEF Goto, Jump
    <3> QED
      BY <3>1, <1>0 DEF CallForm, CallFields, Same
  <2>3. InView(d) = call.next /\ Private(d) = Private(call)
    <3>1. InView(d) = call.next
      BY <2>2, <1>4, <1>6 DEF InView
    <3>2. Private(d) = Private(call)
      BY <2>2, <1>0, <1>4, <1>6 DEF Private
    <3> QED
      BY <3>1, <3>2
  <2>4. /\ view = View(handles, d) /\ due = CellsDue(data, view, d) /\ g = TableDue(fat, d)
    BY <2>2, <2>3, <1>0, <1>1, <1>2, <1>4, SameDue
  <2>5. StageHolds(fat, data, handles, d)
    BY <2>2, <2>3, <1>0, <1>1, <1>3, <1>4, <1>6 DEF StageHolds, Same
  <2>6. RequestHolds(own, pos, due, view, handles, d, call.next)
    <3>1. call.next # "chunk" /\ (call.next = "cut" => SlotOK(handles[call.handle].slot))
      <4>1. call.next = "cut" => HasFile(call, handles)
        BY <1>1, Parts DEF Working, Prepared
      <4> QED
        BY <4>1, <1>4, Parts DEF Working, HasFile, HandlesOK, FileOK
    <3> QED
      BY <3>1, <2>2, <1>3, RequestCarries
  <2>7. Held(own, pos, fat, data, handles, d, leaked)
    BY <2>3, <2>4, <2>5, <2>6, <1>3 DEF Held
  <2> QED
    BY <2>1, <2>7, <1>0 DEF Goes
<1> QED
  BY <1>5, <1>6

(* A cluster of the chain is free.                                          *)
LEMMA FreeHolds ==
  ASSUME Working, NEW own, NEW pos, Holds(own, pos), freeClusterChain
  PROVE  Goes
<1>0. /\ call.at = "free" /\ data' = data /\ handles' = handles /\ leaked' = leaked
      /\ CallForm(call) /\ call.next \in {"idle", "clear", "cut", "emptied"}
  BY Parts DEF freeClusterChain, At, Working, Allocated
<1>1. InView(call) = call.next /\ Private(call) = call.cluster
  BY <1>0 DEF InView, Private
<1>2. PICK view, due, g, m :
        /\ view = View(handles, call) /\ due = CellsDue(data, view, call)
        /\ g = TableDue(fat, call) /\ m = call.cluster
  OBVIOUS
<1>3. /\ Vol(own, pos, g, due, view, m, leaked)
      /\ StageHolds(fat, data, handles, call)
      /\ RequestHolds(own, pos, due, view, handles, call, call.next)
  BY <1>1, <1>2 DEF Holds, Held
<1>4. m \in Cluster
  BY <1>0, <1>1, <1>2, <1>3 DEF StageHolds
<1>file. call.next = "cut" => SlotOK(handles[call.handle].slot)
  <2>1. call.next = "cut" => HasFile(call, handles)
    BY <1>1, Parts DEF Working, Prepared
  <2> QED
    BY <2>1, Parts DEF Working, HasFile, HandlesOK, FileOK
<1>5. own[m] = Mine
  BY <1>3, <1>4, ClustersCounted DEF Vol, Names, HeadOf
<1>6. call.next = "cut" => own[call.head] # Mine
  <2> SUFFICES ASSUME call.next = "cut" PROVE own[call.head] # Mine
    OBVIOUS
  <2>1. own[call.head] = handles[call.handle].slot
    BY <1>3 DEF RequestHolds
  <2> QED
    BY <2>1, <1>file, Tags DEF SlotOK, SlotSet, Tag
<1>7. PICK ok \in Outcomes :
        /\ writeFATEntry(m, FreeCluster, ok)
        /\ call' = IF ~ok THEN Idle
                   ELSE IF fat[m] \in Cluster THEN [call EXCEPT !.cluster = fat[m]]
                   ELSE Goto("sync")
  BY <1>2 DEF freeClusterChain
<1>8. ok /\ Changed(fat, m, FreeCluster, fat')
  BY <1>7, TableIsWritten
<1>9. PICK n : n = IF fat[m] \in Cluster THEN fat[m] ELSE 0
  OBVIOUS
<1>10. PICK d : d = call'
  OBVIOUS
<1>11. /\ Same(call, d) /\ d.next = call.next
       /\ \/ n # 0 /\ d.at = "free" /\ d.cluster = n /\ n \in Cluster
          \/ n = 0 /\ d.at = "sync"
  <2>1. CASE fat[m] \in Cluster
    <3>1. d = [call EXCEPT !.cluster = fat[m]] /\ n = fat[m] /\ n # 0
      BY <2>1, <1>7, <1>8, <1>9, <1>10, ClustersCounted
    <3>2. Same(call, d) /\ d.at = call.at /\ d.next = call.next /\ d.cluster = fat[m]
      BY <3>1, <1>0 DEF CallForm, CallFields, Same
    <3> QED
      BY <3>1, <3>2, <2>1, <1>0
  <2>2. CASE fat[m] \notin Cluster
    <3>1. d = [call EXCEPT !.at = "sync"] /\ n = 0
      BY <2>2, <1>7, <1>8, <1>9, <1>10 DEF Goto, Jump
    <3>2. Same(call, d) /\ d.at = "sync" /\ d.next = call.next
      BY <3>1, <1>0 DEF CallForm, CallFields, Same
    <3> QED
      BY <3>1, <3>2
  <2> QED
    BY <2>1, <2>2
<1>12. InView(d) = call.next /\ Private(d) = n
  <2>1. InView(d) = call.next
    BY <1>11 DEF InView
  <2>2. CASE n # 0
    <3>1. Private(d) = n
      BY <2>2, <1>11 DEF Private
    <3> QED
      BY <3>1, <2>1
  <2>3. CASE n = 0
    <3>1. d.at = "sync" /\ d.next \notin {"link", "dots", "first"}
      BY <2>3, <1>0, <1>11
    <3>2. Private(d) = 0
      BY <3>1 DEF Private
    <3> QED
      BY <3>2, <2>1, <2>3
  <2> QED
    BY <2>2, <2>3
<1>13. PICK h : h = TableDue(fat', d)
  OBVIOUS
<1>14. /\ view = View(handles, d) /\ due = CellsDue(data, view, d) /\ h = TableDue(fat', call)
  BY <1>0, <1>1, <1>2, <1>11, <1>12, <1>13, SameDue
<1>15. Changed(g, m, FreeCluster, h) /\ g[m] = fat[m]
  <2>1. CASE call.next # "cut"
    <3>1. g = fat /\ h = fat'
      BY <2>1, <1>1, <1>2, <1>14 DEF TableDue
    <3> QED
      BY <3>1, <1>8
  <2>2. CASE call.next = "cut"
    <3>1. PICK k : k = call.head
      OBVIOUS
    <3>2. g = [fat EXCEPT ![k] = EndOfChain] /\ h = [fat' EXCEPT ![k] = EndOfChain]
      BY <2>2, <3>1, <1>1, <1>2, <1>14 DEF TableDue
    <3>3. k # m
      BY <2>2, <3>1, <1>5, <1>6
    <3>4. DOMAIN fat = Cluster /\ DOMAIN fat' = Cluster
      BY <1>4, <1>7, <1>8, Parts DEF Working, FatOK, writeFATEntry
    <3>5. \A c \in Cluster : /\ g[c] = IF c = k THEN EndOfChain ELSE fat[c]
                             /\ h[c] = IF c = k THEN EndOfChain ELSE fat'[c]
      BY <3>2, <3>4
    <3> QED
      BY <3>3, <3>5, <1>4, <1>8 DEF Changed
  <2> QED
    BY <2>1, <2>2
<1>16. PICK own2 : Changed(own, m, NoOwner, own2)
  BY Relabels
<1>17. PICK pos2 : \A c \in Cluster : pos2[c] = IF own[c] = Mine /\ c # m THEN pos[c] - 1 ELSE pos[c]
  <2>1. \A c \in Cluster : [x \in Cluster |-> IF own[x] = Mine /\ x # m THEN pos[x] - 1 ELSE pos[x]][c]
          = IF own[c] = Mine /\ c # m THEN pos[c] - 1 ELSE pos[c]
    OBVIOUS
  <2> QED
    BY <2>1
<1>18. Vol(own2, pos2, h, due, view, n, leaked)
  <2>1. Vol(own2, pos2, h, due, view, IF g[m] \in Cluster THEN g[m] ELSE 0, leaked)
    BY <1>3, <1>4, <1>15, <1>16, <1>17, HeadFreed
  <2> QED
    BY <2>1, <1>9, <1>15
<1>19. StageHolds(fat', data, handles, d)
  <2>1. d.handle = call.handle /\ d.head = call.head
    BY <1>11 DEF Same
  <2>2. call.next = "cut" => fat'[d.head] # FreeCluster
    <3>1. call.next = "cut" => call.head \in Cluster /\ call.head # m
      BY <1>3, <1>5, <1>6 DEF RequestHolds
    <3> QED
      BY <3>1, <2>1, <1>1, <1>3, <1>8 DEF StageHolds, Changed
  <2> QED
    BY <2>1, <2>2, <1>0, <1>1, <1>3, <1>11, <1>12 DEF StageHolds
<1>20. RequestHolds(own2, pos2, due, view, handles, d, call.next)
  <2>1. \A x \in Cluster : own[x] \notin {NoOwner, Mine, Lost} =>
          own2[x] = own[x] /\ pos2[x] = pos[x] /\ due[x] = due[x]
    BY <1>5, <1>16, <1>17 DEF Changed
  <2>2. \A x \in Cluster : own2[x] \notin {NoOwner, Mine, Lost} => own2[x] = own[x]
    BY <1>16 DEF Changed
  <2>3. call.next # "chunk"
    BY <1>0
  <2>4. /\ \A s : Live(due, s) <=> Live(due, s)
        /\ \A s : Live(due, s) => In(due, s) = In(due, s)
    OBVIOUS
  <2> QED
    BY <2>1, <2>2, <2>3, <2>4, <1>3, <1>11, <1>file, RequestCarries
<1>21. Held(own2, pos2, fat', data, handles, d, leaked)
  BY <1>12, <1>13, <1>14, <1>18, <1>19, <1>20 DEF Held
<1> QED
  BY <1>21, <1>10, <1>0 DEF Goes

-----------------------------------------------------------------------------
(* The steps of createDirectoryEntry *)

(* What WithSlot makes of a call: at "alloc", or at "entry".                *)
LEMMA WithSlotIs ==
  ASSUME NEW c, CallForm(c), NEW s
  PROVE  \E d : /\ d = WithSlot(c, s)
                /\ CallForm(d) /\ d.op = c.op /\ d.handle = c.handle /\ d.n = c.n
                /\ d.head = c.head /\ d.slot = s /\ d.old = c.old /\ d.ent = c.ent
                /\ d.was = c.was
                /\ IF c.ent.dir THEN d.at = "alloc" /\ d.next = "dots" ELSE d.at = "entry"
<1>1. PICK b : b = [c EXCEPT !.slot = s]
  OBVIOUS
<1>2. /\ CallForm(b) /\ b.op = c.op /\ b.handle = c.handle /\ b.n = c.n /\ b.head = c.head
      /\ b.slot = s /\ b.old = c.old /\ b.ent = c.ent /\ b.was = c.was
  BY <1>1 DEF CallForm, CallFields
<1>3. PICK d : d = WithSlot(c, s)
  OBVIOUS
<1>4. d = IF b.ent.dir \/ c.ent.dir THEN [b EXCEPT !.at = "alloc", !.next = "dots"]
          ELSE [b EXCEPT !.at = "entry"]
  BY <1>1, <1>2, <1>3 DEF WithSlot, Allocating
<1>5. CASE c.ent.dir
  <2>1. d = [b EXCEPT !.at = "alloc", !.next = "dots"]
    BY <1>4, <1>5
  <2>2. /\ CallForm(d) /\ d.op = b.op /\ d.handle = b.handle /\ d.n = b.n /\ d.head = b.head
        /\ d.slot = b.slot /\ d.old = b.old /\ d.ent = b.ent /\ d.was = b.was
        /\ d.at = "alloc" /\ d.next = "dots"
    BY <2>1, <1>2 DEF CallForm, CallFields
  <2> QED
    BY <2>2, <1>2, <1>3, <1>5
<1>6. CASE ~c.ent.dir
  <2>1. d = [b EXCEPT !.at = "entry"]
    BY <1>2, <1>4, <1>6
  <2>2. /\ CallForm(d) /\ d.op = b.op /\ d.handle = b.handle /\ d.n = b.n /\ d.head = b.head
        /\ d.slot = b.slot /\ d.old = b.old /\ d.ent = b.ent /\ d.was = b.was
        /\ d.at = "entry"
    BY <2>1, <1>2 DEF CallForm, CallFields
  <2> QED
    BY <2>2, <1>2, <1>3, <1>6
<1> QED
  BY <1>5, <1>6

(* A call with a new entry and a place for it goes on to write it.          *)
LEMMA WithSlotHolds ==
  ASSUME NEW own, NEW pos, NEW g, NEW cells, NEW files, NEW leak,
         Vol(own, pos, g, cells, Rest(files), 0, leak),
         NEW c, CallForm(c), NewEntry(own, pos, cells, Rest(files), c), c.ent.firstCluster = 0,
         NEW s, SlotReady(own, pos, cells, c.head, s)
  PROVE  Held(own, pos, g, cells, files, WithSlot(c, s), leak)
<1>1. PICK d :
        /\ d = WithSlot(c, s)
        /\ CallForm(d) /\ d.op = c.op /\ d.handle = c.handle /\ d.n = c.n
        /\ d.head = c.head /\ d.slot = s /\ d.old = c.old /\ d.ent = c.ent
        /\ d.was = c.was
        /\ IF c.ent.dir THEN d.at = "alloc" /\ d.next = "dots" ELSE d.at = "entry"
  BY WithSlotIs
<1>2. PICK view : view = Rest(files)
  OBVIOUS
<1>3. NewEntry(own, pos, cells, view, d) /\ SlotReady(own, pos, cells, d.head, d.slot)
  BY <1>1, <1>2 DEF NewEntry
<1>4. CASE c.ent.dir
  <2>1. InView(d) = "dots" /\ Plain(d) /\ Private(d) = 0
    BY <1>1, <1>4 DEF InView, Plain, Private
  <2>2. StageHolds(g, cells, files, d)
    BY <2>1, <1>1, <1>4 DEF StageHolds
  <2>3. RequestHolds(own, pos, cells, view, files, d, "dots")
    BY <1>1, <1>3, <1>4 DEF RequestHolds
  <2>4. Held(own, pos, g, cells, files, d, leak)
    BY <2>1, <2>2, <2>3, <1>2, PlainHeld
  <2> QED
    BY <2>4, <1>1
<1>5. CASE ~c.ent.dir
  <2>1. InView(d) = "entry" /\ Plain(d) /\ Private(d) = 0
    BY <1>1, <1>5 DEF InView, Plain, Private
  <2>2. StageHolds(g, cells, files, d)
    BY <2>1, <1>1, <1>5 DEF StageHolds
  <2>3. RequestHolds(own, pos, cells, view, files, d, "entry")
    BY <1>1, <1>3, <1>5 DEF RequestHolds
  <2>4. Held(own, pos, g, cells, files, d, leak)
    BY <2>1, <2>2, <2>3, <1>2, PlainHeld
  <2> QED
    BY <2>4, <1>1
<1> QED
  BY <1>4, <1>5

(* The last cluster of a chain is one of its owner's.                       *)
LEMMA LastIsLabelled ==
  ASSUME Working, NEW own, NEW pos, Labels(own, pos, fat),
         NEW o, o \notin {NoOwner, Lost}, NEW k, HeadOf(own, pos, o, k)
  PROVE  LastOf(k) \in Cluster /\ own[LastOf(k)] = o /\ fat[LastOf(k)] = EndOfChain
<1>0. EndsEverywhere(fat)
  BY Parts DEF Working
<1>1. /\ ChainOf(fat, k) = {c \in Cluster : own[c] = o}
      /\ Walk(fat, k, totalClusters) = EndOfChain
      /\ \A n \in Nat : Walk(fat, k, n) \in Cluster => n < totalClusters
  BY <1>0, ChainIsOwned
<1>2. EndOfChain \notin Cluster
  BY ClustersCounted DEF EndOfChain
<1>3. PICK m \in 0 .. totalClusters - 1 :
        /\ Walk(fat, k, m) \in Cluster
        /\ fat[Walk(fat, k, m)] = EndOfChain
  BY <1>1, <1>2, LastExists DEF HeadOf
<1>4. Walk(fat, k, m) \in Chain(k)
  BY <1>3, ChainsWalk DEF ChainOf
<1>5. \E d \in Chain(k) : fat[d] = EndOfChain
  BY <1>3, <1>4
<1>6. LastOf(k) \in Chain(k) /\ fat[LastOf(k)] = EndOfChain
  BY <1>5 DEF LastOf
<1>7. Chain(k) = ChainOf(fat, k)
  BY ChainsWalk
<1> QED
  BY <1>1, <1>6, <1>7

(* The chain has a cluster more at its end.                                 *)
LEMMA LinkHolds ==
  ASSUME Working, NEW own, NEW pos, Holds(own, pos), ExtendLink
  PROVE  Goes
<1>0. /\ call.at = "link" /\ data' = data /\ handles' = handles /\ leaked' = leaked
      /\ CallForm(call) /\ call.cluster \in Cluster /\ call.head \in Cluster
  BY Parts DEF ExtendLink, At, Working, Allocated, Linkable, InView
<1>1. InView(call) = "link" /\ Plain(call) /\ Private(call) = call.cluster
  BY <1>0 DEF InView, Plain, Private
<1>2. PICK view, m, k : view = Rest(handles) /\ m = call.cluster /\ k = call.head
  OBVIOUS
<1>3. /\ Vol(own, pos, fat, data, view, m, leaked) /\ StageHolds(fat, data, handles, call)
      /\ RequestHolds(own, pos, data, view, handles, call, "link")
  BY <1>1, <1>2, PlainHeld DEF Holds
<1>4. m \in Cluster /\ fat[m] = EndOfChain /\ 0 \notin Cluster /\ data[m] = ZeroCells
  BY <1>0, <1>1, <1>2, <1>3, ClustersCounted DEF StageHolds
<1>5. PICK ok \in Outcomes :
        /\ writeFATEntry(LastOf(k), m, ok)
        /\ call' = IF ~ok THEN Idle
                   ELSE IF call.op \in {"write", "truncate"} THEN Goto("locate")
                   ELSE WithSlot(call, <<m, 1>>)
  BY <1>2 DEF ExtendLink
<1>6. PICK e : e = LastOf(k)
  OBVIOUS
<1>7. ok /\ Changed(fat, e, m, fat')
  BY <1>5, <1>6, TableIsWritten
<1>8. own[m] = Mine /\ Labels(own, pos, fat)
  BY <1>3, <1>4 DEF Vol, Names, HeadOf
<1>zero. \A i \in 1 .. ClusterSize : data[m][i] = Zero
  BY <1>4 DEF ZeroCells
<1>9. CASE Writes(call)
  <2>1. PICK h : h = call.handle
    OBVIOUS
  <2>2. h \in Handles /\ handles[h] # Closed
    BY <2>1, <1>1, <1>9, Parts DEF Working, Prepared, HasFile, Writes
  <2>3. PICK f, o : f = view[h] /\ o = handles[h].slot
    OBVIOUS
  <2>4. f = Opened(o, handles[h].ent.firstCluster, handles[h].ent.size)
    BY <2>2, <2>3, <1>2 DEF Rest
  <2>5. f # Closed /\ f.slot = o /\ f.first = k
    BY <2>1, <2>4, <1>2, <1>3, <1>9, OpenedIs DEF RequestHolds
  <2>6. IsFile(data, o) /\ HeadOf(own, pos, o, k)
    BY <2>2, <2>3, <2>5, <1>0, <1>2, <1>3, <1>4 DEF Vol, FilesHold, FileHolds
  <2>7. ~IsDirectory(data, o) /\ o \notin {NoOwner, Lost, Mine}
    BY <2>6, OwnersAre
  <2>8. e \in Cluster /\ own[e] = o /\ fat[e] = EndOfChain
    BY <2>6, <2>7, <1>6, <1>8, LastIsLabelled
  <2>9. PICK own2 : Changed(own, m, o, own2)
    BY Relabels
  <2>10. PICK pos2 : Changed(pos, m, pos[e] + 1, pos2)
    BY Relabels
  <2>11. Vol(own2, pos2, fat', data, view, 0, leaked)
    <3>1. IsDirectory(data, o) =>
            \A c \in Cluster, i \in 1 .. ClusterSize : own[c] = o => data[c][i] # Zero
      BY <2>7
    <3> QED
      BY <3>1, <2>6, <2>8, <2>9, <2>10, <1>3, <1>4, <1>7, <1>zero, LinkLabels
  <2>12. PICK d : d = call'
    OBVIOUS
  <2>13. Same(call, d) /\ d.at = "locate"
    <3>1. d = [call EXCEPT !.at = "locate"]
      BY <2>12, <1>5, <1>7, <1>9 DEF Goto, Jump, Writes
    <3> QED
      BY <3>1, <1>0 DEF CallForm, CallFields, Same
  <2>14. InView(d) = "locate" /\ Plain(d) /\ Private(d) = 0
    BY <2>13 DEF InView, Plain, Private
  <2>15. StageHolds(fat', data, handles, d)
    BY <2>13, <2>14 DEF StageHolds
  <2>16. RequestHolds(own2, pos2, data, view, handles, d, "locate")
    <3>1. d.n # 0
      BY <2>13, <1>3, <1>9 DEF RequestHolds, Same
    <3> QED
      BY <3>1 DEF RequestHolds
  <2>17. Held(own2, pos2, fat', data, handles, d, leaked)
    BY <2>11, <2>14, <2>15, <2>16, <1>2, PlainHeld
  <2> QED
    BY <2>17, <2>12, <1>0 DEF Goes
<1>10. CASE ~Writes(call)
  <2>1. PICK o : o = own[k]
    OBVIOUS
  <2>2. /\ NewEntry(own, pos, data, view, call) /\ NoReuse(own, data, k)
        /\ call.ent.firstCluster = 0 /\ DirHead(own, pos, data, k)
    BY <1>2, <1>3, <1>10 DEF RequestHolds, NewEntry
  <2>3. HeadOf(own, pos, o, k) /\ o \notin {NoOwner, Lost, Mine} /\ IsDirectory(data, o)
    BY <2>1, <2>2, HeadOfDirectory DEF DirHead
  <2>4. e \in Cluster /\ own[e] = o /\ fat[e] = EndOfChain
    BY <2>3, <1>6, <1>8, LastIsLabelled
  <2>5. PICK own2 : Changed(own, m, o, own2)
    BY Relabels
  <2>6. PICK p : p = pos[e] + 1
    OBVIOUS
  <2>7. PICK pos2 : Changed(pos, m, p, pos2)
    BY Relabels
  <2>full. \A c \in Cluster, i \in 1 .. ClusterSize : own[c] = o => data[c][i] # Zero
    <3>1. \A c \in Cluster, i \in 1 .. ClusterSize : own[c] = o => data[c][i].kind = "entry"
      BY <2>1, <2>2 DEF NoReuse
    <3>2. Zero.kind # "entry"
      BY DEF Zero
    <3> QED
      BY <3>1, <3>2
  <2>8. Vol(own2, pos2, fat', data, view, 0, leaked)
    BY <2>3, <2>4, <2>5, <2>6, <2>7, <2>full, <1>3, <1>4, <1>7, <1>zero, LinkLabels
  <2>9. \A c \in Cluster : own[c] = o => pos[c] < p
    <3>1. \A c \in Cluster : own[c] = o => pos[c] <= pos[e]
      BY <2>3, <2>4, <1>8, LastIsFurthest
    <3>2. \A c \in Cluster : pos[c] \in Nat
      BY <1>8 DEF Labels
    <3> QED
      BY <3>1, <3>2, <2>4, <2>6
  <2>10. k # m /\ own2[k] = o /\ own2[m] = o /\ pos2[m] = p /\ k \in Cluster
    BY <2>1, <2>3, <2>5, <2>7, <1>0, <1>2, <1>4, <1>8 DEF Changed
  <2>11. DirHead(own2, pos2, data, k)
    <3>1. pos2[k] = pos[k]
      BY <2>7, <2>10 DEF Changed
    <3> QED
      BY <3>1, <2>2, <2>3, <2>10 DEF DirHead
  <2>12. NewEntry(own2, pos2, data, view, call)
    BY <2>2, <2>11, <1>2 DEF NewEntry
  <2>13. PICK s : s = <<m, 1>>
    OBVIOUS
  <2>14. SlotReady(own2, pos2, data, k, s)
    <3>1. ClusterSize \in Nat /\ ClusterSize >= 2
      BY VolumeAssumption
    <3>2. s \in SlotSet /\ s[1] = m /\ s[2] = 1 /\ 1 \in 1 .. ClusterSize
      BY <3>1, <2>13, <1>4 DEF SlotSet
    <3>3. In(data, s) = Zero
      BY <3>2, <1>zero DEF In
    <3>4. ASSUME NEW c \in Cluster, NEW i \in 1 .. ClusterSize,
                 own2[c] = o, Before(pos2[c], i, p, 1)
          PROVE  data[c][i] # Zero
      <4>1. c # m
        <5> SUFFICES ASSUME c = m PROVE FALSE
          OBVIOUS
        <5>1. pos2[c] = p /\ pos[e] \in Nat
          BY <2>4, <2>10, <1>8 DEF Labels
        <5> QED
          BY <5>1, <3>1, <3>4, <2>6 DEF Before
      <4>2. own[c] = o
        BY <4>1, <3>4, <2>5 DEF Changed
      <4> QED
        BY <4>2, <2>full
    <3> QED
      BY <3>2, <3>3, <3>4, <2>10 DEF SlotReady
  <2>15. Held(own2, pos2, fat', data, handles, WithSlot(call, s), leaked)
    BY <2>2, <2>8, <2>12, <2>14, <1>0, <1>2, WithSlotHolds
  <2>16. call' = WithSlot(call, s)
    BY <2>13, <1>5, <1>7, <1>10 DEF Writes
  <2> QED
    BY <2>15, <2>16, <1>0 DEF Goes
<1> QED
  BY <1>9, <1>10

(* The cells of a new directory.                                            *)
LEMMA DotsAre ==
  ASSUME NEW c, NEW p
  PROVE  /\ \A i \in 1 .. ClusterSize :
              DotCells(c, p)[i] = IF i = 1 THEN Entry(".", TRUE, c, 0)
                                  ELSE IF i = 2 THEN Entry("..", TRUE, p, 0) ELSE Zero
         /\ DotCells(c, p) = [i \in 1 .. ClusterSize |-> DotCells(c, p)[i]]
         /\ \A i \in 1 .. ClusterSize :
              /\ DotCells(c, p)[i].kind = "entry" => DotCells(c, p)[i].name \in Dots
              /\ DotCells(c, p)[i] = Zero \/ DotCells(c, p)[i].kind = "entry"
              /\ DotCells(c, p)[i] = Zero =>
                   \A j \in 1 .. ClusterSize : i < j => DotCells(c, p)[j] = Zero
<1>1. PICK x : x = Entry(".", TRUE, c, 0)
  OBVIOUS
<1>2. PICK y : y = Entry("..", TRUE, p, 0)
  OBVIOUS
<1>3. /\ x.kind = "entry" /\ x.name \in Dots /\ y.kind = "entry" /\ y.name \in Dots
      /\ Zero.kind # "entry"
  BY <1>1, <1>2 DEF Entry, Dots, Zero
<1>4. PICK row : row = DotCells(c, p)
  OBVIOUS
<1>5. row = [[i \in 1 .. ClusterSize |-> Zero] EXCEPT ![1] = x, ![2] = y]
  BY <1>1, <1>2, <1>4 DEF DotCells, ZeroCells
<1>6. /\ \A i \in 1 .. ClusterSize : row[i] = IF i = 1 THEN x ELSE IF i = 2 THEN y ELSE Zero
      /\ row = [i \in 1 .. ClusterSize |-> row[i]]
  <2>1. PICK z : z = [i \in 1 .. ClusterSize |-> Zero]
    OBVIOUS
  <2>2. PICK w : w = [z EXCEPT ![1] = x]
    OBVIOUS
  <2>3. row = [w EXCEPT ![2] = y]
    BY <1>5, <2>1, <2>2
  <2>4. /\ \A i \in 1 .. ClusterSize : w[i] = IF i = 1 THEN x ELSE Zero
        /\ w = [i \in 1 .. ClusterSize |-> w[i]]
    BY <2>1, <2>2
  <2>5. \A i \in 1 .. ClusterSize : row[i] = IF i = 2 THEN y ELSE w[i]
    BY <2>3, <2>4
  <2>6. row = [i \in 1 .. ClusterSize |-> row[i]]
    BY <2>3, <2>4
  <2>7. 1 # 2
    OBVIOUS
  <2> QED
    BY <2>4, <2>5, <2>6, <2>7
<1>7. ASSUME NEW i \in 1 .. ClusterSize
      PROVE  /\ row[i].kind = "entry" => row[i].name \in Dots
             /\ row[i] = Zero \/ row[i].kind = "entry"
  BY <1>3, <1>6
<1>8. ASSUME NEW i \in 1 .. ClusterSize, row[i] = Zero, NEW j \in 1 .. ClusterSize, i < j
      PROVE  row[j] = Zero
  <2>1. ClusterSize \in Nat /\ i # 1 /\ i # 2
    BY <1>3, <1>6, <1>8, VolumeAssumption
  <2>2. j # 1 /\ j # 2
    BY <2>1, <1>8
  <2> QED
    BY <2>2, <1>6
<1> QED
  BY <1>1, <1>2, <1>4, <1>6, <1>7, <1>8

(* The cluster of a new directory has its dot entries.                      *)
LEMMA DotsHolds ==
  ASSUME Working, NEW own, NEW pos, Holds(own, pos), CreateDots
  PROVE  Goes
<1>0. /\ call.at = "dots" /\ fat' = fat /\ handles' = handles /\ leaked' = leaked
      /\ CallForm(call) /\ call.cluster \in Cluster /\ EntOK(call.ent)
  BY Parts DEF CreateDots, At, Working, Allocated, InView, Prepared, HasEntry
<1>1. InView(call) = "dots" /\ Plain(call) /\ Private(call) = call.cluster
  BY <1>0 DEF InView, Plain, Private
<1>2. PICK view, m, k : view = Rest(handles) /\ m = call.cluster /\ k = call.head
  OBVIOUS
<1>3. /\ Vol(own, pos, fat, data, view, m, leaked) /\ StageHolds(fat, data, handles, call)
      /\ RequestHolds(own, pos, data, view, handles, call, "dots")
  BY <1>1, <1>2, PlainHeld DEF Holds
<1>4. m \in Cluster /\ fat[m] = EndOfChain /\ 0 \notin Cluster /\ m \in Link
  BY <1>0, <1>1, <1>2, <1>3, ClustersCounted DEF StageHolds, Link
<1>5. PICK ok \in Outcomes :
        /\ writeCluster(m, DotCells(m, k), ok)
        /\ call' = IF ok THEN [call EXCEPT !.at = "entry", !.ent.firstCluster = m]
                   ELSE Freeing(call, m, "idle")
  BY <1>2 DEF CreateDots
<1>dots. PICK row :
        /\ row = DotCells(m, k)
        /\ row = [i \in 1 .. ClusterSize |-> row[i]]
        /\ \A i \in 1 .. ClusterSize : row[i].kind = "entry" => row[i].name \in Dots
  BY DotsAre
<1>6. ok /\ (\A x \in Cluster : x # m => data'[x] = data[x]) /\ data'[m] = row
  <2>1. /\ ok /\ \A x \in Cluster : x # m => data'[x] = data[x]
        /\ data'[m] = [i \in 1 .. ClusterSize |-> row[i]]
    <3>1. writeCluster(m, row, ok)
      BY <1>5, <1>dots
    <3> QED
      BY <3>1, <1>4, RowIsWritten
  <2> QED
    BY <2>1, <1>dots
<1>7. /\ Vol(own, pos, fat, data', view, m, leaked)
      /\ \A s : Live(data', s) <=> Live(data, s)
      /\ \A s : Live(data, s) => In(data', s) = In(data, s)
      /\ own[m] = Mine
  <2>1. \A i \in 1 .. ClusterSize : data'[m][i].kind = "entry" => data'[m][i].name \in Dots
    BY <1>6, <1>dots
  <2> QED
    BY <2>1, <1>3, <1>4, <1>6, PrivateRowWritten
<1>8. PICK d : d = call'
  OBVIOUS
<1>9. d = [call EXCEPT !.at = "entry", !.ent.firstCluster = m]
  BY <1>5, <1>6, <1>8
<1>10. /\ CallForm(d) /\ d.op = call.op /\ d.at = "entry" /\ d.handle = call.handle
       /\ d.n = call.n /\ d.head = k /\ d.slot = call.slot /\ d.old = call.old
       /\ d.ent = [call.ent EXCEPT !.firstCluster = m] /\ d.was = call.was
  BY <1>0, <1>2, <1>9 DEF CallForm, CallFields
<1>11. /\ d.ent.firstCluster = m /\ d.ent.kind = "entry" /\ d.ent.name = call.ent.name
       /\ d.ent.dir = call.ent.dir /\ d.ent.size = call.ent.size
  BY <1>0, <1>10 DEF EntOK, EntryFields
<1>12. InView(d) = "entry" /\ Plain(d) /\ Private(d) = m
  BY <1>10, <1>11 DEF InView, Plain, Private
<1>13. RequestHolds(own, pos, data', view, handles, call, "dots")
  <2>1. \A x \in Cluster : own[x] \notin {NoOwner, Mine, Lost} =>
          own[x] = own[x] /\ pos[x] = pos[x] /\ data'[x] = data[x]
    BY <1>6, <1>7
  <2>2. Same(call, call)
    BY <1>0 DEF Same
  <2> QED
    BY <2>1, <2>2, <1>3, <1>7, RequestCarries
<1>14. /\ NewEntry(own, pos, data', view, call) /\ call.ent.dir
       /\ SlotReady(own, pos, data', k, call.slot)
  BY <1>2, <1>13 DEF RequestHolds
<1>15. NewEntry(own, pos, data', view, d)
  BY <1>2, <1>10, <1>11, <1>14 DEF NewEntry
<1>16. RequestHolds(own, pos, data', view, handles, d, "entry")
  BY <1>10, <1>14, <1>15 DEF RequestHolds
<1>17. StageHolds(fat, data', handles, d)
  <2>1. data'[m] = DotCells(m, d.head) /\ d.ent.dir
    BY <1>6, <1>10, <1>11, <1>14, <1>dots
  <2> QED
    BY <2>1, <1>4, <1>10, <1>12 DEF StageHolds
<1>18. Held(own, pos, fat, data', handles, d, leaked)
  BY <1>7, <1>12, <1>16, <1>17, <1>2, PlainHeld
<1> QED
  BY <1>18, <1>8, <1>0 DEF Goes

(* A call that opens a file with Truncate owes it an entry for nothing.     *)
LEMMA ClearHeld ==
  ASSUME NEW c, InView(c) = "clear", NEW cells, NEW due,
         due = Put(cells, c.slot, Resized(In(cells, c.slot), 0, 0)),
         NEW own, NEW pos, NEW g, NEW files, NEW leak
  PROVE  Held(own, pos, g, cells, files, c, leak) <=>
           /\ Vol(own, pos, g, due, Rest(files), Private(c), leak)
           /\ StageHolds(g, cells, files, c)
           /\ RequestHolds(own, pos, due, Rest(files), files, c, "clear")
<1>1. PICK view : view = View(files, c)
  OBVIOUS
<1>2. view = Rest(files)
  BY <1>1 DEF View, Rest
<1>3. TableDue(g, c) = g /\ CellsDue(cells, view, c) = due
  BY DEF TableDue, CellsDue
<1>4. Held(own, pos, g, cells, files, c, leak) <=>
        /\ Vol(own, pos, TableDue(g, c), CellsDue(cells, view, c), view, Private(c), leak)
        /\ StageHolds(g, cells, files, c)
        /\ RequestHolds(own, pos, CellsDue(cells, view, c), view, files, c, InView(c))
  BY <1>1 DEF Held
<1> QED
  BY <1>2, <1>3, <1>4

(* The file that Entered a directory, with its entry on disk.               *)
LEMMA EnterHolds ==
  ASSUME Working, NEW own, NEW pos, Holds(own, pos), CreateEntry
  PROVE  Goes
<1>0. /\ call.at = "entry" /\ fat' = fat /\ handles' = handles /\ leaked' = leaked
      /\ CallForm(call) /\ EntOK(call.ent)
  BY Parts DEF CreateEntry, At, Working, InView, Prepared, HasEntry
<1>1. InView(call) = "entry" /\ Plain(call) /\ Private(call) = call.ent.firstCluster
  BY <1>0 DEF InView, Plain, Private
<1>2. PICK view, m, k, s, e : /\ view = Rest(handles) /\ m = call.ent.firstCluster
                              /\ k = call.head /\ s = call.slot /\ e = call.ent
  OBVIOUS
<1>3. /\ Vol(own, pos, fat, data, view, m, leaked) /\ StageHolds(fat, data, handles, call)
      /\ RequestHolds(own, pos, data, view, handles, call, "entry")
  BY <1>1, <1>2, PlainHeld DEF Holds
<1>4. /\ NewEntry(own, pos, data, view, call) /\ SlotReady(own, pos, data, k, s)
      /\ s \in SlotSet
  BY <1>2, <1>3 DEF RequestHolds, SlotReady
<1>5. PICK ok \in Outcomes :
        /\ writeSlot(s, e, ok)
        /\ call' = IF ok THEN Goto(Entered)
                   ELSE IF m \in Cluster THEN Freeing(call, m, "idle") ELSE Idle
  BY <1>2 DEF CreateEntry
<1>6. ok /\ data' = Put(data, s, e)
  BY <1>4, <1>5, SlotIsWritten
<1>7. PICK own2 : Renamed(own, Mine, s, own2)
  BY Renames
<1>8. /\ IsDirectory(data, own[s[1]]) /\ In(data, s) \in {Zero, Deleted}
      /\ \A c \in Cluster, i \in 1 .. ClusterSize :
           own[c] = own[s[1]] /\ Before(pos[c], i, pos[s[1]], s[2]) => data[c][i] # Zero
      /\ own[s[1]] = own[k]
  BY <1>2, <1>4 DEF SlotReady, NewEntry, DirHead
<1>9. e.kind = "entry" /\ e.name \notin Dots /\ e.size = 0 /\ e.firstCluster = m
  BY <1>2, <1>4 DEF NewEntry
<1>10. IF e.dir THEN /\ m \in Cluster /\ own[s[1]] = Nowhere /\ fat[m] = EndOfChain
                     /\ \A i \in 1 .. ClusterSize :
                          /\ data[m][i] = Zero \/ data[m][i].kind = "entry"
                          /\ data[m][i] = Zero =>
                               \A j \in 1 .. ClusterSize : i < j => data[m][j] = Zero
       ELSE m = 0
  <2>1. CASE ~e.dir
    BY <2>1, <1>0, <1>1, <1>2, <1>3 DEF StageHolds
  <2>2. CASE e.dir
    <3>1. m \in Cluster /\ data[m] = DotCells(m, k) /\ fat[m] = EndOfChain
      BY <2>2, <1>0, <1>1, <1>2, <1>3, ClustersCounted DEF StageHolds
    <3>2. own[k] = Nowhere
      BY <2>2, <1>2, <1>3, <1>4 DEF NewEntry, Vol, Names, HeadOf
    <3>3. PICK row : row = DotCells(m, k)
      OBVIOUS
    <3>4. \A i \in 1 .. ClusterSize :
            /\ row[i] = Zero \/ row[i].kind = "entry"
            /\ row[i] = Zero => \A j \in 1 .. ClusterSize : i < j => row[j] = Zero
      <4>1. \A i \in 1 .. ClusterSize :
              /\ DotCells(m, k)[i].kind = "entry" => DotCells(m, k)[i].name \in Dots
              /\ DotCells(m, k)[i] = Zero \/ DotCells(m, k)[i].kind = "entry"
              /\ DotCells(m, k)[i] = Zero =>
                   \A j \in 1 .. ClusterSize : i < j => DotCells(m, k)[j] = Zero
        BY DotsAre
      <4> QED
        BY <3>3, <4>1
    <3>5. data[m] = row
      BY <3>1, <3>3
    <3> QED
      BY <3>1, <3>2, <3>4, <3>5, <2>2, <1>8
  <2> QED
    BY <2>1, <2>2
<1>11. PICK cells : cells = Put(data, s, e)
  OBVIOUS
<1>12. /\ Vol(own2, pos, fat, cells, view, 0, leaked)
       /\ \A t : Live(cells, t) <=> t = s \/ Live(data, t)
       /\ \A t : Live(data, t) => In(cells, t) = In(data, t)
       /\ ~Live(data, s)
  <2>1. /\ Vol(own2, pos, fat, Put(data, s, e), view, 0, leaked)
        /\ \A t : Live(Put(data, s, e), t) <=> t = s \/ Live(data, t)
        /\ \A t : Live(data, t) => In(Put(data, s, e), t) = In(data, t)
        /\ ~Live(data, s)
    BY <1>3, <1>4, <1>7, <1>8, <1>9, <1>10, EntryLabels
  <2> QED
    BY <2>1, <1>11
<1>13. In(cells, s) = e
  <2>1. s \in SlotSet
    BY <1>4
  <2>2. In(Put(data, s, e), s) = e
    BY <2>1, PutBack
  <2> QED
    BY <2>2, <1>11
<1>14. Unused(view, s)
  <2> SUFFICES ASSUME NEW h \in Handles, Opens(view, h, s) PROVE FALSE
    BY DEF Unused
  <2>1. IsFile(data, s)
    BY <1>3 DEF Opens, Vol, FilesHold, FileHolds
  <2> QED
    BY <2>1, <1>12 DEF IsFile
<1>15. PICK d : d = call'
  OBVIOUS
<1>16. ASSUME NEW label, Entered = label, label # "idle"
       PROVE  Same(call, d) /\ d.at = label
  <2>1. d = [call EXCEPT !.at = label]
    BY <1>5, <1>6, <1>15, <1>16 DEF Goto, Jump
  <2> QED
    BY <2>1, <1>0 DEF CallForm, CallFields, Same
<1>17. CASE call.op \notin {"rename", "open"}
  <2>1. d = Idle
    BY <1>5, <1>6, <1>15, <1>17 DEF Goto, Jump, Entered
  <2>2. Held(own2, pos, fat, cells, handles, d, leaked)
    BY <2>1, <1>2, <1>12, IdleHeld
  <2> QED
    BY <2>2, <1>0, <1>6, <1>11, <1>15 DEF Goes
<1>18. CASE call.op = "rename"
  <2>1. ~e.dir /\ m = 0 /\ e.firstCluster = 0
    BY <1>2, <1>4, <1>9, <1>10, <1>18 DEF NewEntry
  <2>2. Same(call, d) /\ d.at = "update"
    BY <1>16, <1>18 DEF Entered
  <2>3. InView(d) = "update" /\ Plain(d) /\ Private(d) = 0
    BY <2>2 DEF InView, Plain, Private
  <2>4. StageHolds(fat, cells, handles, d)
    BY <2>2, <2>3 DEF StageHolds
  <2>5. /\ d.slot = s /\ d.old = call.old /\ d.was = call.was /\ d.op = "rename"
        /\ IsFile(data, d.old) /\ d.was = In(data, d.old) /\ Unused(view, d.old)
    BY <2>2, <1>2, <1>4, <1>18 DEF Same, NewEntry
  <2>6. /\ IsFile(cells, d.old) /\ d.was = In(cells, d.old) /\ d.old # s
        /\ IsFile(cells, s) /\ In(cells, s).firstCluster = 0
    BY <2>1, <2>5, <1>12, <1>13 DEF IsFile
  <2>7. RequestHolds(own2, pos, cells, view, handles, d, "update")
    BY <2>5, <2>6, <1>14 DEF RequestHolds
  <2>8. Held(own2, pos, fat, cells, handles, d, leaked)
    BY <2>3, <2>4, <2>7, <1>2, <1>12, PlainHeld
  <2> QED
    BY <2>8, <1>0, <1>6, <1>11, <1>15 DEF Goes
<1>19. CASE call.op = "open"
  <2>1. ~e.dir /\ m = 0 /\ e.firstCluster = 0 /\ view[call.handle] = Closed
    BY <1>2, <1>4, <1>9, <1>10, <1>19 DEF NewEntry
  <2>2. Entered \in {"clear", "opened"}
    BY <1>19 DEF Entered
  <2>3. Same(call, d) /\ d.at \in {"clear", "opened"} /\ d.slot = s /\ d.handle = call.handle
    BY <2>2, <1>2, <1>16 DEF Same
  <2>4. InView(d) = d.at /\ Private(d) = 0
    BY <2>3 DEF InView, Private
  <2>5. StageHolds(fat, cells, handles, d)
    BY <2>3, <2>4 DEF StageHolds
  <2>6. RequestHolds(own2, pos, cells, view, handles, d, d.at)
    <3>1. IsFile(cells, s)
      BY <2>1, <1>12, <1>13 DEF IsFile
    <3> QED
      BY <3>1, <2>1, <2>3, <1>14 DEF RequestHolds
  <2>7. Held(own2, pos, fat, cells, handles, d, leaked)
    <3>1. CASE d.at = "opened"
      <4>1. Plain(d)
        BY <2>4, <3>1 DEF Plain
      <4> QED
        BY <4>1, <2>4, <2>5, <2>6, <1>2, <1>12, PlainHeld
    <3>2. CASE d.at = "clear"
      <4>1. Resized(e, 0, 0) = e
        BY <2>1, <1>0, <1>2, <1>9 DEF Resized, EntOK, EntryFields
      <4>2. DataOK(cells)
        <5>1. IInv'
          BY EntryKeeps DEF Working
        <5>2. DataOK(data')
          BY <5>1 DEF IInv
        <5> QED
          BY <5>2, <1>6, <1>11
      <4>3. cells = Put(cells, s, Resized(In(cells, s), 0, 0))
        BY <4>1, <4>2, <1>4, <1>13, PutSame
      <4>4. cells = Put(cells, d.slot, Resized(In(cells, d.slot), 0, 0)) /\ InView(d) = "clear"
        BY <4>3, <3>2, <2>3, <2>4
      <4> QED
        BY <4>4, <3>2, <2>4, <2>5, <2>6, <1>2, <1>12, ClearHeld
    <3> QED
      BY <3>1, <3>2, <2>3
  <2> QED
    BY <2>7, <1>0, <1>6, <1>11, <1>15 DEF Goes
<1> QED
  BY <1>17, <1>18, <1>19

-----------------------------------------------------------------------------
(* The steps of open *)

(* updateDirectoryEntry, of an entry, resizes it.                           *)
LEMMA UpdatedIs ==
  ASSUME NEW s, In(data, s).kind = "entry", NEW e
  PROVE  Updated(s, e) = Resized(In(data, s), e.firstCluster, e.size)
  BY DEF Updated, Resized, In, Cell

(* The entry of a file opened with Truncate is for nothing.                 *)
LEMMA ClearHolds ==
  ASSUME Working, NEW own, NEW pos, Holds(own, pos), OpenClear
  PROVE  Goes
<1>0. /\ call.at = "clear" /\ fat' = fat /\ handles' = handles /\ leaked' = leaked
      /\ CallForm(call)
  BY Parts DEF OpenClear, At, Working
<1>1. InView(call) = "clear" /\ Private(call) = 0
  BY <1>0 DEF InView, Private
<1>2. PICK view, s : view = Rest(handles) /\ s = call.slot
  OBVIOUS
<1>3. s \in SlotSet /\ In(data, s).kind = "entry"
  BY <1>1, <1>2, Parts DEF Working, Prepared, SlotOK, SlotSet, In
<1>4. PICK due : due = Put(data, s, Resized(In(data, s), 0, 0))
  OBVIOUS
<1>5. /\ Vol(own, pos, fat, due, view, 0, leaked)
      /\ StageHolds(fat, data, handles, call)
      /\ RequestHolds(own, pos, due, view, handles, call, "clear")
  BY <1>1, <1>2, <1>4, ClearHeld DEF Holds
<1>6. PICK ok \in Outcomes :
        /\ writeSlot(s, Updated(s, NoEntry), ok)
        /\ call' = GotoIf(ok, "opened")
  BY <1>2 DEF OpenClear
<1>7. Updated(s, NoEntry) = Resized(In(data, s), 0, 0)
  BY <1>3, UpdatedIs, NoEntryCells
<1>8. ok /\ data' = due
  BY <1>3, <1>4, <1>6, <1>7, SlotIsWritten
<1>9. PICK d : d = call'
  OBVIOUS
<1>10. Same(call, d) /\ d.at = "opened"
  <2>1. d = [call EXCEPT !.at = "opened"]
    BY <1>6, <1>8, <1>9 DEF GotoIf, Goto, Jump
  <2> QED
    BY <2>1, <1>0 DEF CallForm, CallFields, Same
<1>11. InView(d) = "opened" /\ Plain(d) /\ Private(d) = 0
  BY <1>10 DEF InView, Plain, Private
<1>12. StageHolds(fat, due, handles, d)
  BY <1>10, <1>11 DEF StageHolds
<1>13. RequestHolds(own, pos, due, view, handles, d, "opened")
  BY <1>5, <1>10 DEF RequestHolds, Same
<1>14. Held(own, pos, fat, due, handles, d, leaked)
  BY <1>2, <1>5, <1>11, <1>12, <1>13, PlainHeld
<1> QED
  BY <1>14, <1>8, <1>9, <1>0 DEF Goes

(* What the handles show once one of them is set.                           *)
LEMMA RestSet ==
  ASSUME NEW files, NEW new, NEW h, NEW file, SetTo(files, new, h, file)
  PROVE  \A k \in Handles : Rest(new)[k] =
           IF k # h THEN Rest(files)[k]
           ELSE IF file = Closed THEN Closed
           ELSE Opened(file.slot, file.ent.firstCluster, file.ent.size)
<1> SUFFICES ASSUME NEW k \in Handles
             PROVE  Rest(new)[k] =
                      IF k # h THEN Rest(files)[k]
                      ELSE IF file = Closed THEN Closed
                      ELSE Opened(file.slot, file.ent.firstCluster, file.ent.size)
  OBVIOUS
<1>1. new[k] = IF k = h THEN file ELSE files[k]
  BY DEF SetTo
<1> QED
  BY <1>1 DEF Rest

(* A file is open.                                                          *)
LEMMA OpenHolds ==
  ASSUME Working, NEW own, NEW pos, Holds(own, pos), OpenHandle
  PROVE  Goes
<1>0. /\ call.at = "opened" /\ fat' = fat /\ data' = data /\ leaked' = leaked
      /\ call' = Idle
  BY DEF OpenHandle, At
<1>1. InView(call) = "opened" /\ Plain(call) /\ Private(call) = 0
  BY <1>0 DEF InView, Plain, Private
<1>2. PICK view, s, h : view = Rest(handles) /\ s = call.slot /\ h = call.handle
  OBVIOUS
<1>3. /\ Vol(own, pos, fat, data, view, 0, leaked)
      /\ RequestHolds(own, pos, data, view, handles, call, "opened")
  BY <1>1, <1>2, PlainHeld DEF Holds
<1>4. IsFile(data, s) /\ Unused(view, s) /\ view[h] = Closed
  BY <1>2, <1>3 DEF RequestHolds
<1>5. PICK file :
        /\ file.slot = s /\ file.ent = In(data, s) /\ file # Closed
        /\ handles' = [handles EXCEPT ![h] = file]
  <2>1. PICK file : file = [open   |-> TRUE,
                            slot   |-> call.slot,
                            ent    |-> Cell(call.slot),
                            offset |-> IF "Append" \in call.mode THEN Cell(call.slot).size ELSE 0,
                            dirty  |-> FALSE]
    OBVIOUS
  <2>2. handles' = [handles EXCEPT ![h] = file]
    BY <2>1, <1>2 DEF OpenHandle, SetFile
  <2>3. file.slot = s /\ file.ent = In(data, s) /\ file # Closed
    BY <2>1, <1>2 DEF In, Cell, Closed
  <2> QED
    BY <2>2, <2>3
<1>6. SetTo(handles, handles', h, file)
  BY <1>5, Parts, HandleIsSet DEF Working
<1>7. PICK new, view2 : new = handles' /\ view2 = Rest(new)
  OBVIOUS
<1>8. PICK f : f = Opened(s, In(data, s).firstCluster, In(data, s).size)
  OBVIOUS
<1>9. \A k \in Handles : view2[k] = IF k = h THEN f ELSE view[k]
  BY <1>2, <1>5, <1>6, <1>7, <1>8, RestSet
<1>10. /\ f # Closed /\ f.slot = s /\ f.first = In(data, s).firstCluster
       /\ f.size = In(data, s).size
  BY <1>8, OpenedIs
<1>11. Vol(own, pos, fat, data, view2, 0, leaked)
  BY <1>3, <1>4, <1>9, <1>10, OpenLabels
<1>12. Held(own, pos, fat, data, new, Idle, leaked)
  BY <1>7, <1>11, IdleHeld
<1> QED
  BY <1>12, <1>0, <1>7 DEF Goes

-----------------------------------------------------------------------------
(* The steps of write and truncate *)

(* The file that a call works on: its entry, its chain and its handle.      *)
LEMMA FileHeld ==
  ASSUME HandlesOK(handles), NEW own, NEW pos, NEW g, NEW cells, NEW m, NEW leak,
         Vol(own, pos, g, cells, Rest(handles), m, leak),
         NEW h \in Handles, handles[h] # Closed
  PROVE  LET o == handles[h].slot
             e == handles[h].ent
         IN  /\ FileOK(handles[h]) /\ o \in SlotSet
             /\ Rest(handles)[h] = Opened(o, e.firstCluster, e.size)
             /\ IsFile(cells, o) /\ Live(cells, o) /\ In(cells, o).kind = "entry"
             /\ o \notin {NoOwner, Lost, Mine}
             /\ e.firstCluster # 0 => HeadOf(own, pos, o, e.firstCluster)
             /\ In(cells, o).firstCluster \in {0, e.firstCluster}
             /\ Fits(own, pos, o, e.firstCluster, e.size)
             /\ \A k \in Handles : Opens(Rest(handles), k, o) => k = h
<1>1. PICK o, e : o = handles[h].slot /\ e = handles[h].ent
  OBVIOUS
<1>2. PICK view, f : view = Rest(handles) /\ f = view[h]
  OBVIOUS
<1>3. FileOK(handles[h]) /\ o \in SlotSet
  BY <1>1 DEF HandlesOK, FileOK, SlotOK, SlotSet
<1>4. f = Opened(o, e.firstCluster, e.size)
  BY <1>1, <1>2 DEF Rest
<1>5. f # Closed /\ f.slot = o /\ f.first = e.firstCluster /\ f.size = e.size
  BY <1>4, OpenedIs
<1>6. FileHolds(own, pos, cells, f) /\ \A k \in Handles : Opens(view, k, o) => k = h
  BY <1>2, <1>5 DEF Vol, FilesHold
<1>7. IsFile(cells, o) /\ Live(cells, o) /\ In(cells, o).kind = "entry"
  BY <1>5, <1>6 DEF FileHolds, IsFile, Live
<1>8. o \notin {NoOwner, Lost, Mine}
  BY <1>7, OwnersAre
<1>9. /\ e.firstCluster # 0 => HeadOf(own, pos, o, e.firstCluster)
      /\ In(cells, o).firstCluster \in {0, e.firstCluster}
      /\ Fits(own, pos, o, e.firstCluster, e.size)
  BY <1>5, <1>6 DEF FileHolds
<1> QED
  BY <1>1, <1>2, <1>3, <1>4, <1>6, <1>7, <1>8, <1>9

(* truncate has found the cluster that is to be the last.                   *)
LEMMA CutBegins ==
  ASSUME Working, NEW own, NEW pos, Vol(own, pos, fat, data, Rest(handles), 0, leaked),
         NEW c, CallForm(c), c.op = "truncate", HasFile(c, handles), c.n # 0,
         NEW first, first = handles[c.handle].ent.firstCluster, first # 0,
         c.head \in Cluster, own[c.head] = handles[c.handle].slot,
         pos[c.head] = (c.n - 1) \div ClusterSize,
         NEW d, d = Freeing(c, fat[c.head], "cut")
  PROVE  \E own2, pos2 : Held(own2, pos2, fat, data, handles, d, leaked)
<1>1. PICK view, h, o, n, x :
        view = Rest(handles) /\ h = c.handle /\ o = handles[h].slot /\ n = c.n /\ x = c.head
  OBVIOUS
<1>2. h \in Handles /\ handles[h] # Closed /\ n \in Nat /\ n # 0 /\ x \in Cluster
  BY <1>1 DEF HasFile
<1>3. /\ o \in SlotSet /\ IsFile(data, o) /\ Live(data, o) /\ In(data, o).kind = "entry"
      /\ o \notin {NoOwner, Lost, Mine}
      /\ HeadOf(own, pos, o, first) /\ In(data, o).firstCluster \in {0, first}
      /\ \A k \in Handles : Opens(view, k, o) => k = h
      /\ view[h] = Opened(o, first, handles[h].ent.size)
  BY <1>1, <1>2, Parts, FileHeld DEF Working
<1>4. view[h] # Closed /\ view[h].slot = o /\ view[h].first = first
  BY <1>3, OpenedIs
<1>5. own[x] = o /\ pos[x] = (n - 1) \div ClusterSize
  BY <1>1
<1>6. Fits(own, pos, o, first, n)
  BY <1>2, <1>5 DEF Fits
<1>7. PICK f : f = Opened(o, first, n)
  OBVIOUS
<1>8. f # Closed /\ f.slot = o /\ f.first = first /\ f.size = n
  BY <1>7, OpenedIs
<1>9. PICK view2 : view2 = [k \in Handles |-> IF k = h THEN f ELSE view[k]]
  OBVIOUS
<1>10. Vol(own, pos, fat, data, view2, 0, leaked)
  <2>1. \A i \in 1 .. ClusterSize : data[x][i] \in {Zero, Unit(ClusterSize * pos[x] + i - 1)}
    BY <1>2, <1>3, <1>5, <1>1 DEF Vol, UnitsHold
  <2>2. \A y \in Cluster : y # x => data[y] = data[y]
    OBVIOUS
  <2>3. \A k \in Handles : view2[k] = IF k = h THEN f ELSE view[k]
    BY <1>9
  <2>4. f.slot = view[h].slot /\ f.first = view[h].first /\ own[x] = view[h].slot
    BY <1>4, <1>5, <1>8
  <2>5. Fits(own, pos, f.slot, f.first, f.size)
    BY <1>6, <1>8
  <2> QED
    BY <2>1, <2>2, <2>3, <2>4, <2>5, <1>1, <1>2, <1>4, <1>8, UnitsLabels
<1>11. PICK e : e = Resized(In(data, o), first, n)
  OBVIOUS
<1>12. /\ e.kind = "entry" /\ e.name = In(data, o).name /\ e.dir = In(data, o).dir
       /\ e.firstCluster = first /\ e.size = n
  <2>1. EntOK(In(data, o))
    BY <1>3, Parts, Tags DEF Working, DataOK, CellsOK, CellOK, In
  <2> QED
    BY <2>1, <1>11, ResizedIs
<1>13. Replaces(data, o, e) /\ ~e.dir
  BY <1>3, <1>12 DEF Replaces, Live, IsFile
<1>14. PICK due : due = Put(data, o, e)
  OBVIOUS
<1>15. Vol(own, pos, fat, due, view2, 0, leaked)
  <2>1. EntryHolds(own, pos, data, o, e)
    <3>1. IsDirectory(data, own[o[1]])
      BY <1>3, <1>10 DEF Vol, EntriesHold, EntryHolds
    <3> QED
      BY <3>1, <1>3, <1>6, <1>12, <1>13 DEF EntryHolds
  <2>2. \A k \in Handles : Opens(view2, k, o) => e.firstCluster \in {0, view2[k].first}
    <3> SUFFICES ASSUME NEW k \in Handles, Opens(view2, k, o)
                 PROVE  e.firstCluster \in {0, view2[k].first}
      OBVIOUS
    <3>1. k = h
      BY <1>3, <1>9 DEF Opens
    <3> QED
      BY <3>1, <1>8, <1>9, <1>12
  <2>3. In(data, o).firstCluster # 0 => e.firstCluster # 0
    BY <1>12
  <2> QED
    BY <2>1, <2>2, <2>3, <1>10, <1>13, <1>14, ReplaceLabels
<1>16. /\ IsFile(due, o) /\ In(due, o) = e
  <2>1. In(Put(data, o, e), o) = e /\ (IsFile(Put(data, o, e), o) <=> IsFile(data, o))
    BY <1>13, EntryReplaced
  <2> QED
    BY <2>1, <1>3, <1>14
<1>17. PICK g : g = [fat EXCEPT ![x] = EndOfChain]
  OBVIOUS
<1>18. Changed(fat, x, EndOfChain, g)
  BY <1>17, Parts DEF Working, FatOK, Changed
<1>19. PICK own2 : own2 = [y \in Cluster |-> IF own[y] = o /\ pos[y] > pos[x] THEN Mine ELSE own[y]]
  OBVIOUS
<1>20. PICK pos2 : pos2 = [y \in Cluster |-> IF own[y] = o /\ pos[y] > pos[x]
                                            THEN pos[y] - (pos[x] + 1) ELSE pos[y]]
  OBVIOUS
<1>21. PICK m : m = IF fat[x] \in Cluster THEN fat[x] ELSE 0
  OBVIOUS
<1>22. Vol(own2, pos2, g, due, view2, m, leaked)
  <2>1. In(due, o).size # 0 => (In(due, o).size - 1) \div ClusterSize = pos[x]
    BY <1>5, <1>12, <1>16
  <2>2. \A j \in Handles : Opens(view2, j, o) /\ view2[j].size # 0 =>
           (view2[j].size - 1) \div ClusterSize = pos[x]
    <3> SUFFICES ASSUME NEW j \in Handles, Opens(view2, j, o)
                 PROVE  (view2[j].size - 1) \div ClusterSize = pos[x]
      OBVIOUS
    <3>1. j = h
      BY <1>3, <1>9 DEF Opens
    <3>2. view2[j].size = n
      BY <3>1, <1>8, <1>9
    <3> QED
      BY <3>2, <1>5
  <2>3. \A y \in Cluster :
          IF own[y] = o /\ pos[y] > pos[x] THEN own2[y] = Mine /\ pos2[y] = pos[y] - (pos[x] + 1)
          ELSE own2[y] = own[y] /\ pos2[y] = pos[y]
    BY <1>19, <1>20
  <2>4. Vol(own2, pos2, g, due, view2, IF fat[x] \in Cluster THEN fat[x] ELSE 0, leaked)
    BY <2>1, <2>2, <2>3, <1>2, <1>3, <1>5, <1>15, <1>16, <1>18, CutLabels
  <2> QED
    BY <2>4, <1>21
<1>23. /\ CallForm(d) /\ d.op = c.op /\ d.handle = h /\ d.n = n /\ d.head = x
       /\ \/ m # 0 /\ m \in Cluster /\ d.at = "free" /\ d.next = "cut" /\ d.cluster = m
          \/ m = 0 /\ d.at = "cut"
  <2>1. CASE fat[x] \in Cluster
    <3>1. d = [c EXCEPT !.at = "free", !.cluster = fat[x], !.next = "cut"]
      BY <2>1, <1>1 DEF Freeing
    <3>2. m = fat[x] /\ m # 0
      BY <2>1, <1>21, ClustersCounted
    <3> QED
      BY <3>1, <3>2, <2>1, <1>1 DEF CallForm, CallFields
  <2>2. CASE fat[x] \notin Cluster
    <3>1. d = [c EXCEPT !.at = "cut"] /\ m = 0
      BY <2>2, <1>1, <1>21 DEF Freeing, Jump
    <3> QED
      BY <3>1, <1>1 DEF CallForm, CallFields
  <2> QED
    BY <2>1, <2>2
<1>24. InView(d) = "cut" /\ Private(d) = m
  <2>1. InView(d) = "cut"
    BY <1>23 DEF InView
  <2>2. Private(d) = m
    BY <1>23 DEF Private
  <2> QED
    BY <2>1, <2>2
<1>25. View(handles, d) = view2
  <2>1. \A k \in Handles : view[k] =
          IF handles[k] = Closed THEN Closed
          ELSE Opened(handles[k].slot, handles[k].ent.firstCluster, handles[k].ent.size)
    BY <1>1 DEF Rest
  <2>2. f = Opened(handles[h].slot, handles[h].ent.firstCluster, d.n)
    BY <1>1, <1>7, <1>23
  <2>3. \A k \in Handles : view2[k] = IF handles[k] = Closed THEN Closed
     ELSE IF k = d.handle
     THEN Opened(handles[k].slot, handles[k].ent.firstCluster, d.n)
     ELSE Opened(handles[k].slot, handles[k].ent.firstCluster, handles[k].ent.size)
    BY <2>1, <2>2, <1>2, <1>9, <1>23
  <2>4. view2 = [k \in Handles |-> IF handles[k] = Closed THEN Closed
     ELSE IF k = d.handle
     THEN Opened(handles[k].slot, handles[k].ent.firstCluster, d.n)
     ELSE Opened(handles[k].slot, handles[k].ent.firstCluster, handles[k].ent.size)]
    BY <2>3, <1>9
  <2>5. InView(d) = "cut" /\ InView(d) # "emptied"
    BY <1>24
  <2> QED
    BY <2>4, <2>5 DEF View
<1>26. TableDue(fat, d) = g /\ CellsDue(data, view2, d) = due
  <2>1. TableDue(fat, d) = g
    BY <1>17, <1>23, <1>24 DEF TableDue
  <2>2. view2[d.handle] = f
    BY <1>2, <1>9, <1>23
  <2>3. CellsDue(data, view2, d) = Put(data, f.slot, Resized(In(data, f.slot), f.first, f.size))
    BY <2>2, <1>24 DEF CellsDue
  <2> QED
    BY <2>1, <2>3, <1>8, <1>11, <1>14
<1>27. StageHolds(fat, data, handles, d)
  <2>1. In(data, handles[d.handle].slot).kind = "entry"
    BY <1>1, <1>3, <1>23
  <2>2. fat[d.head] # FreeCluster
    BY <1>2, <1>3, <1>5, <1>10, <1>23 DEF Vol, Labels
  <2> QED
    BY <2>1, <2>2, <1>23, <1>24 DEF StageHolds
<1>28. RequestHolds(own2, pos2, due, view2, handles, d, "cut")
  <2>1. own2[x] = o /\ pos2[x] = pos[x]
    <3>1. pos[x] \in Nat
      BY <1>2, <1>15 DEF Vol, Labels
    <3> QED
      BY <3>1, <1>2, <1>5, <1>19, <1>20
  <2> QED
    BY <2>1, <1>1, <1>2, <1>5, <1>23 DEF RequestHolds
<1> QED
  BY <1>22, <1>24, <1>25, <1>26, <1>27, <1>28 DEF Held

(* The cluster of the unit that a call comes to, or the next step to it.    *)
LEMMA LocateHolds ==
  ASSUME Working, NEW own, NEW pos, Holds(own, pos), getClusterForOffset
  PROVE  Goes
<1>0. /\ call.at = "locate" /\ fat' = fat /\ data' = data /\ handles' = handles
      /\ leaked' = leaked /\ CallForm(call)
  BY Parts DEF getClusterForOffset, At, Working
<1>1. InView(call) = "locate" /\ Plain(call) /\ Private(call) = 0
  BY <1>0 DEF InView, Plain, Private
<1>2. /\ HasFile(call, handles) /\ Locating(call) /\ Writes(call)
      /\ call.handle \in Handles /\ handles[call.handle] # Closed
  BY <1>1, Parts DEF Working, Prepared, Locating, Writes, HasFile
<1>3. PICK view, h, o, first :
        /\ view = Rest(handles) /\ h = call.handle /\ o = handles[h].slot
        /\ first = handles[h].ent.firstCluster
  OBVIOUS
<1>4. /\ Vol(own, pos, fat, data, view, 0, leaked)
      /\ RequestHolds(own, pos, data, view, handles, call, "locate")
  BY <1>1, <1>3, PlainHeld DEF Holds
<1>5. call.n # 0
  BY <1>2, <1>4 DEF RequestHolds
<1>6. PICK n : n = Wanted \div ClusterSize
  OBVIOUS
<1>7. n \in Nat
  BY <1>2, <1>6, Parts, WantedIsPlace DEF Working
<1>8. PICK c : c = Nth(first, n)
  OBVIOUS
<1>9. PICK d : d = call'
  OBVIOUS
<1>10. d = IF first = 0 THEN Allocating(call, "first")
           ELSE IF c \in Cluster THEN Located(c)
           ELSE IF c = EndOfChain
           THEN Allocating([call EXCEPT !.head = first], "link")
           ELSE Idle
  BY <1>3, <1>6, <1>8, <1>9 DEF getClusterForOffset, File
<1>held. ASSUME InView(d) # "cut", InView(d) \in {"first", "chunk", "link"}, Private(d) = 0,
              d.at \in {"alloc", "chunk"},
              RequestHolds(own, pos, data, view, handles, d, InView(d))
       PROVE  Goes
  <2>1. Plain(d)
    BY <1>held DEF Plain
  <2>2. StageHolds(fat, data, handles, d)
    BY <1>held DEF StageHolds
  <2>3. Held(own, pos, fat, data, handles, d, leaked)
    BY <2>1, <2>2, <1>held, <1>3, <1>4, PlainHeld
  <2> QED
    BY <2>3, <1>9, <1>0 DEF Goes
<1>11. CASE first = 0
  <2>1. d = [call EXCEPT !.at = "alloc", !.next = "first"]
    BY <1>10, <1>11 DEF Allocating
  <2>2. Same(call, d) /\ d.at = "alloc" /\ d.next = "first"
    BY <2>1, <1>0 DEF CallForm, CallFields, Same
  <2>3. InView(d) = "first" /\ Private(d) = 0
    BY <2>2 DEF InView, Private
  <2>4. RequestHolds(own, pos, data, view, handles, d, "first")
    <3>1. handles[d.handle].ent.firstCluster = 0 /\ d.n # 0
      BY <2>2, <1>3, <1>5, <1>11 DEF Same
    <3> QED
      BY <3>1 DEF RequestHolds
  <2> QED
    BY <2>2, <2>3, <2>4, <1>held
<1>12. CASE first # 0 /\ c \in Cluster
  <2>1. /\ o \in SlotSet /\ IsFile(data, o) /\ o \notin {NoOwner, Lost, Mine}
        /\ HeadOf(own, pos, o, first) /\ FileOK(handles[h])
    BY <1>2, <1>3, <1>4, <1>12, Parts, FileHeld DEF Working
  <2>2. c = Walk(fat, first, n) /\ EndOfChain \notin Cluster
    BY <1>8, NthWalks, ClustersCounted DEF EndOfChain
  <2>3. own[c] = o /\ pos[c] = n
    BY <2>1, <2>2, <1>4, <1>7, <1>12, WalkIsLabelled DEF Vol
  <2>4. CASE call.op = "write"
    <3>1. d = [call EXCEPT !.at = "chunk", !.cluster = c]
      BY <2>4, <1>10, <1>12 DEF Located
    <3>2. Same(call, d) /\ d.at = "chunk" /\ d.cluster = c
      BY <3>1, <1>0 DEF CallForm, CallFields, Same
    <3>3. InView(d) = "chunk" /\ Private(d) = 0
      BY <3>2 DEF InView, Private
    <3>4. RequestHolds(own, pos, data, view, handles, d, "chunk")
      <4>1. n = handles[h].offset \div ClusterSize
        BY <2>4, <1>3, <1>6 DEF Wanted, File
      <4> QED
        BY <4>1, <3>2, <2>3, <1>3, <1>5 DEF RequestHolds, Same
    <3> QED
      BY <3>2, <3>3, <3>4, <1>held
  <2>5. CASE call.op # "write"
    <3>1. PICK b : b = [call EXCEPT !.head = c]
      OBVIOUS
    <3>2. /\ CallForm(b) /\ b.op = "truncate" /\ b.handle = h /\ b.n = call.n /\ b.head = c
      BY <3>1, <2>5, <1>0, <1>2, <1>3 DEF CallForm, CallFields, Locating
    <3>3. n = (b.n - 1) \div ClusterSize
      BY <3>2, <2>5, <1>6 DEF Wanted
    <3>4. d = Freeing(b, fat[c], "cut")
      BY <3>1, <2>5, <1>10, <1>12 DEF Located
    <3>5. HasFile(b, handles)
      BY <3>2, <1>2, <1>3 DEF HasFile
    <3>6. d = Freeing(b, fat[b.head], "cut") /\ first = handles[b.handle].ent.firstCluster
      BY <3>2, <3>4, <1>3
    <3>7. own[b.head] = handles[b.handle].slot /\ pos[b.head] = (b.n - 1) \div ClusterSize
      BY <3>2, <3>3, <2>3, <1>3
    <3>8. b.n # 0 /\ b.head \in Cluster /\ Vol(own, pos, fat, data, Rest(handles), 0, leaked)
      BY <3>2, <1>3, <1>4, <1>5, <1>12
    <3>9. \E own2, pos2 : Held(own2, pos2, fat, data, handles, d, leaked)
      BY <3>2, <3>5, <3>6, <3>7, <3>8, <1>12, CutBegins
    <3> QED
      BY <3>9, <1>9, <1>0 DEF Goes
  <2> QED
    BY <2>4, <2>5
<1>13. CASE first # 0 /\ c \notin Cluster /\ c = EndOfChain
  <2>1. d = [[call EXCEPT !.head = first] EXCEPT !.at = "alloc", !.next = "link"]
    BY <1>10, <1>13 DEF Allocating
  <2>2. PICK b : b = [call EXCEPT !.head = first]
    OBVIOUS
  <2>3. CallForm(b) /\ b.op = call.op /\ b.handle = h /\ b.n = call.n /\ b.head = first
    BY <2>2, <1>0, <1>3 DEF CallForm, CallFields
  <2>4. d = [b EXCEPT !.at = "alloc", !.next = "link"]
    BY <2>1, <2>2
  <2>5. /\ d.op = call.op /\ d.handle = h /\ d.n = call.n /\ d.head = first
        /\ d.at = "alloc" /\ d.next = "link"
    BY <2>3, <2>4 DEF CallForm, CallFields
  <2>6. InView(d) = "link" /\ Private(d) = 0
    BY <2>5 DEF InView, Private
  <2>7. RequestHolds(own, pos, data, view, handles, d, "link")
    BY <2>5, <1>2, <1>3, <1>5 DEF RequestHolds, Writes
  <2> QED
    BY <2>5, <2>6, <2>7, <1>held
<1>14. CASE first # 0 /\ c \notin Cluster /\ c # EndOfChain
  <2>1. d = Idle
    BY <1>10, <1>14
  <2>2. Held(own, pos, fat, data, handles, d, leaked)
    BY <2>1, <1>3, <1>4, IdleHeld
  <2> QED
    BY <2>2, <1>9, <1>0 DEF Goes
<1> QED
  BY <1>11, <1>12, <1>13, <1>14

(* A file has got its first cluster.                                        *)
LEMMA FirstHolds ==
  ASSUME Working, NEW own, NEW pos, Holds(own, pos), setFirstCluster
  PROVE  Goes
<1>0. /\ call.at = "first" /\ fat' = fat /\ data' = data /\ leaked' = leaked
      /\ CallForm(call) /\ call.cluster \in Cluster /\ call' = Goto("locate")
  BY Parts DEF setFirstCluster, At, Working, Allocated, InView
<1>1. InView(call) = "first" /\ Plain(call) /\ Private(call) = call.cluster
  BY <1>0 DEF InView, Plain, Private
<1>2. /\ HasFile(call, handles) /\ Locating(call) /\ Writes(call)
      /\ call.handle \in Handles /\ handles[call.handle] # Closed
  BY <1>1, Parts DEF Working, Prepared, Locating, Writes, HasFile
<1>3. PICK view, m, h, o, ent :
        /\ view = Rest(handles) /\ m = call.cluster /\ h = call.handle
        /\ o = handles[h].slot /\ ent = handles[h].ent
  OBVIOUS
<1>4. /\ Vol(own, pos, fat, data, view, m, leaked) /\ StageHolds(fat, data, handles, call)
      /\ RequestHolds(own, pos, data, view, handles, call, "first")
  BY <1>1, <1>3, PlainHeld DEF Holds
<1>5. /\ m \in Cluster /\ fat[m] = EndOfChain /\ data[m] = ZeroCells
      /\ ent.firstCluster = 0 /\ call.n # 0
  BY <1>0, <1>1, <1>2, <1>3, <1>4, ClustersCounted DEF StageHolds, RequestHolds
<1>6. /\ FileOK(handles[h]) /\ view[h] = Opened(o, 0, ent.size)
  <2>1. /\ FileOK(handles[h]) /\ view[h] = Opened(o, ent.firstCluster, ent.size)
    BY <1>2, <1>3, <1>4, Parts, FileHeld DEF Working
  <2> QED
    BY <2>1, <1>5
<1>7. view[h] # Closed /\ view[h].slot = o /\ view[h].first = 0 /\ view[h].size = ent.size
  BY <1>6, OpenedIs
<1>8. PICK file :
        /\ file.slot = o /\ file.ent = Resized(ent, m, ent.size) /\ file # Closed
        /\ handles' = [handles EXCEPT ![h] = file]
  <2>1. PICK was : was = handles[h]
    OBVIOUS
  <2>2. PICK b : b = ((call.op = "write") \/ was.dirty)
    OBVIOUS
  <2>3. PICK file : file = [was EXCEPT !.ent.firstCluster = m, !.dirty = b]
    OBVIOUS
  <2>4. handles' = [handles EXCEPT ![h] = file]
    BY <2>1, <2>2, <2>3, <1>3 DEF setFirstCluster, SetFile, File
  <2>5. FileOK(was)
    BY <2>1, <1>6
  <2>6. FileIs([was EXCEPT !.ent.firstCluster = m, !.dirty = b],
               was.slot, Resized(was.ent, m, was.ent.size), was.offset, b)
    BY <2>5, FileBecomes, Zenon
  <2> QED
    BY <2>1, <2>3, <2>4, <2>6, <1>3 DEF FileIs
<1>9. SetTo(handles, handles', h, file)
  BY <1>8, Parts, HandleIsSet DEF Working
<1>10. file.ent.firstCluster = m /\ file.ent.size = ent.size
  <2>1. EntOK(ent)
    BY <1>3, <1>6 DEF FileOK
  <2> QED
    BY <2>1, <1>8, ResizedIs
<1>11. PICK new, view2 : new = handles' /\ view2 = Rest(new)
  OBVIOUS
<1>12. PICK f : f = Opened(o, m, ent.size)
  OBVIOUS
<1>13. \A k \in Handles : view2[k] = IF k = h THEN f ELSE view[k]
  BY <1>3, <1>8, <1>9, <1>10, <1>11, <1>12, RestSet
<1>14. f # Closed /\ f.slot = o /\ f.first = m /\ f.size = ent.size
  BY <1>12, OpenedIs
<1>15. PICK own2 : Renamed(own, Mine, o, own2)
  BY Renames
<1>16. Vol(own2, pos, fat, data, view2, 0, leaked)
  <2>1. \A i \in 1 .. ClusterSize : data[m][i] = Zero
    BY <1>5 DEF ZeroCells
  <2>2. f.slot = view[h].slot /\ f.size = view[h].size /\ Renamed(own, Mine, f.slot, own2)
    BY <1>7, <1>14, <1>15
  <2>3. h \in Handles /\ view[h] # Closed /\ view[h].first = 0
    BY <1>2, <1>3, <1>7
  <2> QED
    BY <2>1, <2>2, <2>3, <1>4, <1>5, <1>13, <1>14, FirstLabels
<1>17. PICK d : d = call'
  OBVIOUS
<1>18. Same(call, d) /\ d.at = "locate"
  <2>1. d = [call EXCEPT !.at = "locate"]
    BY <1>17, <1>0 DEF Goto, Jump
  <2> QED
    BY <2>1, <1>0 DEF CallForm, CallFields, Same
<1>19. InView(d) = "locate" /\ Plain(d) /\ Private(d) = 0
  BY <1>18 DEF InView, Plain, Private
<1>20. StageHolds(fat, data, new, d)
  BY <1>18, <1>19 DEF StageHolds
<1>21. RequestHolds(own2, pos, data, view2, new, d, "locate")
  <2>1. d.n # 0
    BY <1>5, <1>18 DEF Same
  <2> QED
    BY <2>1 DEF RequestHolds
<1>22. Held(own2, pos, fat, data, new, d, leaked)
  BY <1>11, <1>16, <1>19, <1>20, <1>21, PlainHeld
<1> QED
  BY <1>22, <1>11, <1>17, <1>0 DEF Goes

(* The units of one turn of the loop of write lie in one cluster.           *)
LEMMA SameCluster ==
  ASSUME NEW p \in Nat, NEW k \in Nat, k # 0, k <= ClusterSize - (p % ClusterSize)
  PROVE  /\ (p + k - 1) \div ClusterSize = p \div ClusterSize
         /\ \A i \in 1 .. ClusterSize :
              p + (i - 1 - (p % ClusterSize)) = ClusterSize * (p \div ClusterSize) + i - 1
<1>0. ClusterSize \in Nat /\ ClusterSize >= 2
  BY VolumeAssumption
<1>1. PICK q, r : q = p \div ClusterSize /\ r = p % ClusterSize
  OBVIOUS
<1>2. PICK a, b : /\ a = (p + k - 1) \div ClusterSize
                  /\ b = (p + k - 1) % ClusterSize
  OBVIOUS
<1>3. /\ q \in Nat /\ r + 1 \in 1 .. ClusterSize /\ p = ClusterSize * q + (r + 1) - 1
  BY <1>1, PlaceSplits
<1>4. r \in Int /\ r >= 0
  BY <1>0, <1>1
<1>5. p + k - 1 \in Nat
  OBVIOUS
<1>6. PICK t : t = p + k - 1
  OBVIOUS
<1>7. /\ a \in Nat /\ b + 1 \in 1 .. ClusterSize /\ t = ClusterSize * a + (b + 1) - 1
  BY <1>2, <1>5, <1>6, PlaceSplits
<1>8. r + k \in 1 .. ClusterSize
  BY <1>0, <1>1, <1>4
<1>9. PICK x, y : x = ClusterSize * q /\ y = ClusterSize * a
  OBVIOUS
<1>10. x \in Nat /\ y \in Nat /\ p = x + r /\ t = x + (r + k) - 1 /\ t = y + (b + 1) - 1
  <2>1. x \in Nat /\ y \in Nat
    BY <1>0, <1>3, <1>7, <1>9
  <2>2. p = x + (r + 1) - 1 /\ t = y + (b + 1) - 1
    BY <1>3, <1>7, <1>9
  <2> QED
    BY <2>1, <2>2, <1>4, <1>6
<1>11. a = q
  <2>1. x + (r + k) - 1 < y + (b + 1) - 1 <=> Before(q, r + k, a, b + 1)
    BY <1>3, <1>7, <1>8, <1>9, PlaceOrder
  <2>2. y + (b + 1) - 1 < x + (r + k) - 1 <=> Before(a, b + 1, q, r + k)
    BY <1>3, <1>7, <1>8, <1>9, PlaceOrder
  <2>3. t \in Nat
    BY <1>5, <1>6
  <2>4. ~(q < a) /\ ~(a < q)
    BY <2>1, <2>2, <2>3, <1>10 DEF Before
  <2> QED
    BY <2>4, <1>3, <1>7
<1>12. ASSUME NEW i \in 1 .. ClusterSize PROVE p + (i - 1 - r) = x + i - 1
  BY <1>4, <1>10, <1>0
<1> QED
  BY <1>1, <1>2, <1>9, <1>11, <1>12

(* One turn of the loop of write.                                           *)
LEMMA ChunkHolds ==
  ASSUME Working, NEW own, NEW pos, Holds(own, pos), WriteChunk
  PROVE  Goes
<1>0. /\ call.at = "chunk" /\ fat' = fat /\ leaked' = leaked
      /\ CallForm(call) /\ call.cluster \in Cluster
  BY Parts DEF WriteChunk, At, Working, Allocated, InView
<1>1. InView(call) = "chunk" /\ Plain(call) /\ Private(call) = 0
  BY <1>0 DEF InView, Plain, Private
<1>2. /\ HasFile(call, handles) /\ Locating(call) /\ Writes(call) /\ call.op = "write"
      /\ call.handle \in Handles /\ handles[call.handle] # Closed /\ call.n \in Nat
  BY <1>1, Parts DEF Working, Prepared, Locating, Writes, HasFile
<1>3. PICK view, x, h, was, o, ent, p :
        /\ view = Rest(handles) /\ x = call.cluster /\ h = call.handle /\ was = handles[h]
        /\ o = was.slot /\ ent = was.ent /\ p = was.offset
  OBVIOUS
<1>4. /\ Vol(own, pos, fat, data, view, 0, leaked)
      /\ RequestHolds(own, pos, data, view, handles, call, "chunk")
  BY <1>1, <1>3, PlainHeld DEF Holds
<1>5. own[x] = o /\ pos[x] = p \div ClusterSize /\ call.n # 0 /\ x \in Cluster
  BY <1>0, <1>2, <1>3, <1>4 DEF RequestHolds
<1>6. /\ FileOK(was) /\ o \in SlotSet /\ view[h] = Opened(o, ent.firstCluster, ent.size)
      /\ IsFile(data, o) /\ Live(data, o) /\ o \notin {NoOwner, Lost, Mine}
      /\ In(data, o).firstCluster \in {0, ent.firstCluster}
      /\ Fits(own, pos, o, ent.firstCluster, ent.size)
      /\ \A k \in Handles : Opens(view, k, o) => k = h
  BY <1>2, <1>3, <1>4, Parts, FileHeld DEF Working
<1>7. /\ view[h] # Closed /\ view[h].slot = o /\ view[h].first = ent.firstCluster
      /\ view[h].size = ent.size
  BY <1>6, OpenedIs
<1>8. p \in Nat /\ EntOK(ent) /\ ent.size \in Nat
  BY <1>3, <1>6, Zenon DEF FileOK, EntOK
<1>9. PICK k : k = Chunk
  OBVIOUS
<1>10. was = File
  BY <1>3 DEF File
<1>11. k \in Nat /\ k # 0 /\ k <= ClusterSize - (p % ClusterSize) /\ call.n - k \in Nat
  <2>1. k \in Nat /\ call.n - k \in Nat
    BY <1>2, <1>6, <1>9, <1>10, ChunkIsPart
  <2>2. PICK room : room = ClusterSize - (p % ClusterSize)
    OBVIOUS
  <2>3. room \in Nat /\ room # 0
    BY <2>2, <1>8, VolumeAssumption
  <2>4. k = IF room <= call.n THEN room ELSE call.n
    BY <2>2, <1>3, <1>9, <1>10 DEF Chunk
  <2> QED
    BY <2>1, <2>2, <2>3, <2>4, <1>2, <1>5
<1>12. /\ (p + k - 1) \div ClusterSize = pos[x]
       /\ \A i \in 1 .. ClusterSize :
            p + (i - 1 - (p % ClusterSize)) = ClusterSize * pos[x] + i - 1
  BY <1>5, <1>8, <1>11, SameCluster
<1>13. PICK ok \in Outcomes :
        /\ writeCluster(x, Written, ok)
        /\ IF ok
           THEN /\ SetFile([File EXCEPT !.offset = @ + Chunk, !.dirty = TRUE,
                                        !.ent.size = Grown(File.offset + Chunk)])
                /\ call' = IF Chunk = call.n THEN Idle
                           ELSE [call EXCEPT !.at = "locate", !.n = @ - Chunk]
           ELSE call' = Idle /\ UNCHANGED handles
  BY <1>3 DEF WriteChunk
<1>14. PICK row : row = Written
  OBVIOUS
<1>15. /\ ok /\ \A y \in Cluster : y # x => data'[y] = data[y]
       /\ \A i \in 1 .. ClusterSize : data'[x][i] = row[i]
  <2>1. writeCluster(x, row, ok)
    BY <1>13, <1>14
  <2>2. /\ ok /\ \A y \in Cluster : y # x => data'[y] = data[y]
        /\ data'[x] = [i \in 1 .. ClusterSize |-> row[i]]
    BY <2>1, <1>5, RowIsWritten
  <2> QED
    BY <2>2
<1>16. \A i \in 1 .. ClusterSize : row[i] \in {Zero, Unit(ClusterSize * pos[x] + i - 1)}
  <2> SUFFICES ASSUME NEW i \in 1 .. ClusterSize
               PROVE  row[i] \in {Zero, Unit(ClusterSize * pos[x] + i - 1)}
    OBVIOUS
  <2>1. \/ row[i] = Unit(p + (i - 1 - (p % ClusterSize)))
        \/ row[i] = data[x][i]
    BY <1>3, <1>10, <1>14 DEF Written
  <2>2. data[x][i] \in {Zero, Unit(ClusterSize * pos[x] + i - 1)}
    BY <1>4, <1>5, <1>6 DEF Vol, UnitsHold
  <2> QED
    BY <2>1, <2>2, <1>12
<1>17. PICK z : z = Grown(p + k)
  OBVIOUS
<1>18. z \in {p + k, ent.size}
  BY <1>3, <1>10, <1>17 DEF Grown
<1>19. Fits(own, pos, o, ent.firstCluster, z)
  <2>1. CASE z = ent.size
    BY <2>1, <1>6
  <2>2. CASE z = p + k
    <3>1. (z - 1) \div ClusterSize = pos[x]
      <4>1. z - 1 = p + k - 1
        BY <2>2, <1>8, <1>11
      <4> QED
        BY <4>1, <1>12
    <3>2. ent.firstCluster # 0
      <4>1. HasChain(data, view, 0, o)
        BY <1>4, <1>5, <1>6 DEF Vol, Names
      <4>2. o # Nowhere
        BY <1>6, Tags DEF Tag
      <4> QED
        BY <4>1, <4>2, <1>6, <1>7 DEF HasChain
    <3> QED
      BY <3>1, <3>2, <1>5 DEF Fits
  <2> QED
    BY <2>1, <2>2, <1>18
<1>20. PICK file :
        /\ file.slot = o /\ file.ent = Resized(ent, ent.firstCluster, z) /\ file # Closed
        /\ handles' = [handles EXCEPT ![h] = file]
  <2>1. PICK y : y = p + k
    OBVIOUS
  <2>2. PICK file : file = [was EXCEPT !.offset = y, !.dirty = TRUE, !.ent.size = z]
    OBVIOUS
  <2>3. file = [was EXCEPT !.offset = @ + Chunk, !.dirty = TRUE,
                           !.ent.size = Grown(was.offset + Chunk)]
    BY <2>1, <2>2, <1>3, <1>9, <1>17
  <2>4. handles' = [handles EXCEPT ![h] = file]
    BY <2>3, <1>3, <1>10, <1>13, <1>15 DEF SetFile
  <2>5. \A b : FileIs([was EXCEPT !.offset = y, !.dirty = b, !.ent.size = z],
               was.slot, Resized(was.ent, was.ent.firstCluster, z), y, b)
    BY <1>6, FileBecomes, Zenon
  <2>6. FileIs(file, was.slot, Resized(was.ent, was.ent.firstCluster, z), y, TRUE)
    BY <2>2, <2>5, Zenon
  <2> QED
    BY <2>4, <2>6, <1>3 DEF FileIs
<1>21. SetTo(handles, handles', h, file)
  BY <1>20, Parts, HandleIsSet DEF Working
<1>22. file.ent.firstCluster = ent.firstCluster /\ file.ent.size = z
  BY <1>8, <1>20, ResizedIs
<1>23. PICK new, view2 : new = handles' /\ view2 = Rest(new)
  OBVIOUS
<1>24. PICK f : f = Opened(o, ent.firstCluster, z)
  OBVIOUS
<1>25. \A j \in Handles : view2[j] = IF j = h THEN f ELSE view[j]
  BY <1>3, <1>20, <1>21, <1>22, <1>23, <1>24, RestSet
<1>26. f # Closed /\ f.slot = o /\ f.first = ent.firstCluster /\ f.size = z
  BY <1>24, OpenedIs
<1>27. PICK cells : cells = data'
  OBVIOUS
<1>28. Vol(own, pos, fat, cells, view2, 0, leaked)
  <2>1. \A y \in Cluster : y # x => cells[y] = data[y]
    BY <1>15, <1>27
  <2>2. \A i \in 1 .. ClusterSize : cells[x][i] \in {Zero, Unit(ClusterSize * pos[x] + i - 1)}
    BY <1>15, <1>16, <1>27
  <2>3. f.slot = view[h].slot /\ f.first = view[h].first /\ own[x] = view[h].slot
    BY <1>5, <1>7, <1>26
  <2>4. Fits(own, pos, f.slot, f.first, f.size)
    BY <1>19, <1>26
  <2>5. h \in Handles /\ view[h] # Closed /\ x \in Cluster /\ f # Closed
    BY <1>2, <1>3, <1>5, <1>7, <1>26
  <2> QED
    BY <2>1, <2>2, <2>3, <2>4, <2>5, <1>4, <1>25, UnitsLabels
<1>29. PICK d : d = call'
  OBVIOUS
<1>30. CASE k = call.n
  <2>1. d = Idle
    BY <1>9, <1>13, <1>15, <1>29, <1>30
  <2>2. Held(own, pos, fat, cells, new, d, leaked)
    BY <2>1, <1>23, <1>28, IdleHeld
  <2> QED
    BY <2>2, <1>0, <1>23, <1>27, <1>29 DEF Goes
<1>31. CASE k # call.n
  <2>1. PICK n : n = call.n - k
    OBVIOUS
  <2>2. d = [call EXCEPT !.at = "locate", !.n = n]
    BY <2>1, <1>9, <1>13, <1>15, <1>29, <1>31
  <2>3. d.at = "locate" /\ d.n = n
    BY <2>2, <1>0 DEF CallForm, CallFields
  <2>4. d.n # 0
    BY <2>1, <2>3, <1>2, <1>11, <1>31
  <2>5. InView(d) = "locate" /\ Plain(d) /\ Private(d) = 0
    BY <2>3 DEF InView, Plain, Private
  <2>6. StageHolds(fat, cells, new, d) /\ RequestHolds(own, pos, cells, view2, new, d, "locate")
    <3>1. StageHolds(fat, cells, new, d)
      BY <2>3, <2>5 DEF StageHolds
    <3>2. RequestHolds(own, pos, cells, view2, new, d, "locate")
      BY <2>4 DEF RequestHolds
    <3> QED
      BY <3>1, <3>2
  <2>7. Held(own, pos, fat, cells, new, d, leaked)
    BY <2>5, <2>6, <1>23, <1>28, PlainHeld
  <2> QED
    BY <2>7, <1>0, <1>23, <1>27, <1>29 DEF Goes
<1> QED
  BY <1>30, <1>31

(* A handle that agrees with what the truncate of its file has made of it   *)
(* still owes its entry.                                                    *)
LEMMA FlushOwed ==
  ASSUME HandlesOK(handles), CallForm(call), call.at \in {"cut", "emptied"},
         NEW view, view = View(handles, call), NEW own, NEW pos, NEW g,
         Vol(own, pos, g, CellsDue(data, view, call), view, 0, leaked),
         StageHolds(fat, data, handles, call),
         NEW h, h = call.handle, h \in Handles, handles[h] # Closed,
         NEW file, file # Closed, file.slot = handles[h].slot,
         Opened(file.slot, file.ent.firstCluster, file.ent.size) = view[h],
         NEW new, SetTo(handles, new, h, file),
         NEW d, d = [call EXCEPT !.at = "flush"]
  PROVE  Held(own, pos, g, data, new, d, leaked)
<1>1. CallForm(d) /\ d.at = "flush" /\ d.handle = h /\ d.op = call.op
  BY DEF CallForm, CallFields
<1>2. InView(d) = "flush" /\ Private(d) = 0 /\ InView(call) \in {"cut", "emptied"}
  BY <1>1 DEF InView, Private
<1>3. View(new, d) = view
  <2>1. \A k \in Handles : view[k] =
          IF handles[k] = Closed THEN Closed
          ELSE IF k = h THEN view[h]
          ELSE Opened(handles[k].slot, handles[k].ent.firstCluster, handles[k].ent.size)
    <3> SUFFICES ASSUME NEW k \in Handles, k # h
                 PROVE  view[k] = IF handles[k] = Closed THEN Closed
                          ELSE Opened(handles[k].slot, handles[k].ent.firstCluster,
                                      handles[k].ent.size)
      OBVIOUS
    <3> QED
      BY DEF View
  <2>2. \A k \in Handles : view[k] =
          IF new[k] = Closed THEN Closed
          ELSE Opened(new[k].slot, new[k].ent.firstCluster, new[k].ent.size)
    <3> SUFFICES ASSUME NEW k \in Handles
                 PROVE  view[k] = IF new[k] = Closed THEN Closed
                          ELSE Opened(new[k].slot, new[k].ent.firstCluster, new[k].ent.size)
      OBVIOUS
    <3>1. new[k] = IF k = h THEN file ELSE handles[k]
      BY DEF SetTo
    <3>2. CASE k = h
      BY <3>1, <3>2
    <3>3. CASE k # h
      BY <3>1, <3>3, <2>1
    <3> QED
      BY <3>2, <3>3
  <2>3. view = [k \in Handles |-> IF new[k] = Closed THEN Closed
          ELSE Opened(new[k].slot, new[k].ent.firstCluster, new[k].ent.size)]
    <3>1. view = [k \in Handles |-> view[k]]
      BY DEF View
    <3> QED
      BY <3>1, <2>2
  <2>4. InView(d) # "cut" /\ InView(d) # "emptied"
    BY <1>2
  <2> QED
    BY <2>3, <2>4 DEF View
<1>4. CellsDue(data, view, d) = CellsDue(data, view, call)
  BY <1>1, <1>2 DEF CellsDue
<1>5. TableDue(g, d) = g
  BY <1>2 DEF TableDue
<1>6. StageHolds(g, data, new, d)
  <2>1. new[d.handle] = file
    BY <1>1 DEF SetTo
  <2>2. In(data, handles[call.handle].slot).kind = "entry"
    BY <1>2 DEF StageHolds
  <2>3. In(data, new[d.handle].slot).kind = "entry"
    BY <2>1, <2>2
  <2> QED
    BY <2>3, <1>1, <1>2 DEF StageHolds
<1>7. RequestHolds(own, pos, CellsDue(data, view, d), view, new, d, "flush")
  BY DEF RequestHolds
<1> QED
  BY <1>2, <1>3, <1>4, <1>5, <1>6, <1>7 DEF Held

(* The last cluster that stays is marked.                                   *)
LEMMA CutHolds ==
  ASSUME Working, NEW own, NEW pos, Holds(own, pos), TruncateCut
  PROVE  Goes
<1>0. call.at = "cut" /\ data' = data /\ leaked' = leaked /\ CallForm(call)
  BY Parts DEF TruncateCut, At, Working
<1>1. InView(call) = "cut" /\ Private(call) = 0
  BY <1>0 DEF InView, Private
<1>2. /\ HasFile(call, handles) /\ call.handle \in Handles /\ handles[call.handle] # Closed
      /\ call.n \in Nat
  BY <1>1, Parts DEF Working, Prepared, HasFile
<1>3. PICK view, due, g, h, was :
        /\ view = View(handles, call) /\ due = CellsDue(data, view, call)
        /\ g = TableDue(fat, call) /\ h = call.handle /\ was = handles[h]
  OBVIOUS
<1>4. /\ Vol(own, pos, g, due, view, 0, leaked) /\ StageHolds(fat, data, handles, call)
      /\ RequestHolds(own, pos, due, view, handles, call, "cut")
  BY <1>1, <1>3 DEF Holds, Held
<1>5. g = [fat EXCEPT ![call.head] = EndOfChain]
  BY <1>1, <1>3 DEF TableDue
<1>6. PICK ok \in Outcomes :
        /\ writeFATEntry(call.head, EndOfChain, ok)
        /\ call' = GotoIf(ok, "flush")
        /\ IF ok
           THEN SetFile([File EXCEPT !.ent.size = call.n, !.dirty = TRUE,
                                     !.offset = IF @ > call.n THEN call.n ELSE @])
           ELSE UNCHANGED handles
  BY DEF TruncateCut
<1>7. ok /\ fat' = g
  BY <1>5, <1>6, NothingFails DEF writeFATEntry
<1>8. FileOK(was) /\ was = File
  BY <1>2, <1>3, Parts DEF Working, HandlesOK, File
<1>9. PICK file :
        /\ file.slot = was.slot /\ file.ent = Resized(was.ent, was.ent.firstCluster, call.n)
        /\ file # Closed /\ handles' = [handles EXCEPT ![h] = file]
  <2>1. PICK y : y = IF was.offset > call.n THEN call.n ELSE was.offset
    OBVIOUS
  <2>2. PICK file : file = [was EXCEPT !.ent.size = call.n, !.dirty = TRUE, !.offset = y]
    OBVIOUS
  <2>3. file = [was EXCEPT !.ent.size = call.n, !.dirty = TRUE,
                           !.offset = IF @ > call.n THEN call.n ELSE @]
    BY <2>1, <2>2
  <2>4. handles' = [handles EXCEPT ![h] = file]
    BY <2>3, <1>3, <1>6, <1>7, <1>8 DEF SetFile
  <2>5. \A b : FileIs([was EXCEPT !.ent.size = call.n, !.dirty = b, !.offset = y],
               was.slot, Resized(was.ent, was.ent.firstCluster, call.n), y, b)
    BY <1>8, FileBecomes, Zenon
  <2>6. FileIs(file, was.slot, Resized(was.ent, was.ent.firstCluster, call.n), y, TRUE)
    BY <2>2, <2>5, Zenon
  <2> QED
    BY <2>4, <2>6 DEF FileIs
<1>10. SetTo(handles, handles', h, file)
  BY <1>9, Parts, HandleIsSet DEF Working
<1>11. file.ent.firstCluster = was.ent.firstCluster /\ file.ent.size = call.n
  <2>1. EntOK(was.ent)
    BY <1>8 DEF FileOK
  <2> QED
    BY <2>1, <1>9, ResizedIs
<1>12. view[h] = Opened(was.slot, was.ent.firstCluster, call.n)
  BY <1>1, <1>2, <1>3 DEF View
<1>13. PICK new, d : new = handles' /\ d = call'
  OBVIOUS
<1>14. d = [call EXCEPT !.at = "flush"]
  BY <1>6, <1>7, <1>13 DEF GotoIf, Goto, Jump
<1>15. Held(own, pos, g, data, new, d, leaked)
  <2>1. Vol(own, pos, g, CellsDue(data, view, call), view, 0, leaked)
    BY <1>3, <1>4
  <2>2. Opened(file.slot, file.ent.firstCluster, file.ent.size) = view[h]
    BY <1>9, <1>11, <1>12
  <2>3. file.slot = handles[h].slot /\ h = call.handle /\ h \in Handles /\ handles[h] # Closed
    BY <1>2, <1>3, <1>9
  <2>4. SetTo(handles, new, h, file)
    BY <1>10, <1>13
  <2>5. HandlesOK(handles) /\ call.at \in {"cut", "emptied"}
    BY <1>0, Parts DEF Working
  <2> QED
    BY <2>1, <2>2, <2>3, <2>4, <2>5, <1>0, <1>3, <1>4, <1>9, <1>14, FlushOwed
<1> QED
  BY <1>15, <1>13, <1>7, <1>0 DEF Goes

(* The handle of a file that is truncated to nothing knows.                 *)
LEMMA EmptiedHolds ==
  ASSUME Working, NEW own, NEW pos, Holds(own, pos), TruncateAll
  PROVE  Goes
<1>0. /\ call.at = "emptied" /\ fat' = fat /\ data' = data /\ leaked' = leaked
      /\ CallForm(call) /\ call' = Goto("flush")
  BY Parts DEF TruncateAll, At, Working
<1>1. InView(call) = "emptied" /\ Private(call) = 0
  BY <1>0 DEF InView, Private
<1>2. HasFile(call, handles) /\ call.handle \in Handles /\ handles[call.handle] # Closed
  BY <1>1, Parts DEF Working, Prepared, HasFile
<1>3. PICK view, due, h, was :
        /\ view = View(handles, call) /\ due = CellsDue(data, view, call)
        /\ h = call.handle /\ was = handles[h]
  OBVIOUS
<1>4. Vol(own, pos, fat, due, view, 0, leaked) /\ StageHolds(fat, data, handles, call)
  BY <1>1, <1>3 DEF Holds, Held, TableDue
<1>5. FileOK(was) /\ was = File
  BY <1>2, <1>3, Parts DEF Working, HandlesOK, File
<1>6. PICK file :
        /\ file.slot = was.slot /\ file.ent = Resized(was.ent, 0, 0)
        /\ file # Closed /\ handles' = [handles EXCEPT ![h] = file]
  <2>1. PICK file : file = [was EXCEPT !.ent.firstCluster = 0, !.ent.size = 0,
                                       !.offset = 0, !.dirty = TRUE]
    OBVIOUS
  <2>2. handles' = [handles EXCEPT ![h] = file]
    BY <2>1, <1>3, <1>5 DEF TruncateAll, SetFile
  <2>3. \A b, x, y, z : FileIs([was EXCEPT !.ent.firstCluster = x, !.ent.size = z,
                      !.offset = y, !.dirty = b],
               was.slot, Resized(was.ent, x, z), y, b)
    BY <1>5, FileBecomes, Zenon
  <2>4. FileIs(file, was.slot, Resized(was.ent, 0, 0), 0, TRUE)
    BY <2>1, <2>3, Zenon
  <2> QED
    BY <2>2, <2>4, Zenon DEF FileIs
<1>7. SetTo(handles, handles', h, file)
  BY <1>6, Parts, HandleIsSet DEF Working
<1>8. file.ent.firstCluster = 0 /\ file.ent.size = 0
  <2>1. EntOK(was.ent)
    BY <1>5 DEF FileOK
  <2> QED
    BY <2>1, <1>6, ResizedIs
<1>9. view[h] = Opened(was.slot, 0, 0)
  BY <1>1, <1>2, <1>3 DEF View
<1>10. PICK new, d : new = handles' /\ d = call'
  OBVIOUS
<1>11. d = [call EXCEPT !.at = "flush"]
  BY <1>0, <1>10 DEF Goto, Jump
<1>12. Held(own, pos, fat, data, new, d, leaked)
  <2>1. Vol(own, pos, fat, CellsDue(data, view, call), view, 0, leaked)
    BY <1>3, <1>4
  <2>2. Opened(file.slot, file.ent.firstCluster, file.ent.size) = view[h]
    BY <1>6, <1>8, <1>9
  <2>3. file.slot = handles[h].slot /\ h = call.handle /\ h \in Handles /\ handles[h] # Closed
    BY <1>2, <1>3, <1>6
  <2>4. SetTo(handles, new, h, file)
    BY <1>7, <1>10
  <2>5. HandlesOK(handles) /\ call.at \in {"cut", "emptied"}
    BY <1>0, Parts DEF Working
  <2> QED
    BY <2>1, <2>2, <2>3, <2>4, <2>5, <1>0, <1>3, <1>4, <1>6, <1>11, FlushOwed
<1> QED
  BY <1>12, <1>10, <1>0 DEF Goes

(* What a call that is about to flush owes: the entry of its file.          *)
LEMMA FlushHeld ==
  ASSUME NEW c, InView(c) = "flush", NEW cells, NEW files, NEW f, f = Rest(files)[c.handle],
         NEW due, due = Put(cells, f.slot, Resized(In(cells, f.slot), f.first, f.size)),
         NEW own, NEW pos, NEW g, NEW leak
  PROVE  Held(own, pos, g, cells, files, c, leak) <=>
           /\ Vol(own, pos, g, due, Rest(files), Private(c), leak)
           /\ StageHolds(g, cells, files, c)
           /\ RequestHolds(own, pos, due, Rest(files), files, c, "flush")
<1>1. PICK view : view = View(files, c)
  OBVIOUS
<1>2. view = Rest(files)
  BY <1>1 DEF View, Rest
<1>3. TableDue(g, c) = g /\ CellsDue(cells, view, c) = due
  BY <1>2 DEF TableDue, CellsDue
<1>4. Held(own, pos, g, cells, files, c, leak) <=>
        /\ Vol(own, pos, TableDue(g, c), CellsDue(cells, view, c), view, Private(c), leak)
        /\ StageHolds(g, cells, files, c)
        /\ RequestHolds(own, pos, CellsDue(cells, view, c), view, files, c, InView(c))
  BY <1>1 DEF Held
<1> QED
  BY <1>2, <1>3, <1>4

(* The entry of the file is what its handle says.                           *)
LEMMA FlushHolds ==
  ASSUME Working, NEW own, NEW pos, Holds(own, pos), flush
  PROVE  Goes
<1>0. /\ call.at = "flush" /\ fat' = fat /\ leaked' = leaked /\ CallForm(call)
      /\ call' = Idle
  BY Parts DEF flush, At, Working
<1>1. InView(call) = "flush" /\ Private(call) = 0
  BY <1>0 DEF InView, Private
<1>2. HasFile(call, handles) /\ call.handle \in Handles /\ handles[call.handle] # Closed
  BY <1>1, Parts DEF Working, Prepared, HasFile
<1>3. PICK view, h, was, o, f :
        /\ view = Rest(handles) /\ h = call.handle /\ was = handles[h] /\ o = was.slot
        /\ f = view[h]
  OBVIOUS
<1>4. FileOK(was) /\ was = File /\ o \in SlotSet
  BY <1>2, <1>3, Parts DEF Working, HandlesOK, File, FileOK, SlotOK, SlotSet
<1>5. f = Opened(o, was.ent.firstCluster, was.ent.size)
  BY <1>2, <1>3 DEF Rest
<1>6. /\ f # Closed /\ f.slot = o /\ f.first = was.ent.firstCluster /\ f.size = was.ent.size
  BY <1>5, OpenedIs
<1>7. PICK e, due : e = Resized(In(data, o), f.first, f.size) /\ due = Put(data, o, e)
  OBVIOUS
<1>8. /\ Vol(own, pos, fat, due, view, 0, leaked) /\ StageHolds(fat, data, handles, call)
  BY <1>1, <1>3, <1>6, <1>7, FlushHeld DEF Holds
<1>9. In(data, o).kind = "entry"
  BY <1>1, <1>3, <1>8 DEF StageHolds
<1>10. e.firstCluster = f.first /\ In(due, o) = e
  <2>1. EntOK(In(data, o))
    BY <1>4, <1>9, Parts, Tags DEF Working, DataOK, CellsOK, CellOK, In
  <2>2. In(Put(data, o, e), o) = e
    BY <1>4, PutBack
  <2> QED
    BY <2>1, <2>2, <1>7, ResizedIs
<1>11. PICK ok \in Outcomes :
        /\ writeSlot(o, Updated(o, was.ent), ok)
        /\ SetFile(IF call.op = "close" THEN Closed ELSE [was EXCEPT !.dirty = ~ok])
  BY <1>3, <1>4 DEF flush
<1>12. ok /\ data' = due
  <2>1. Updated(o, was.ent) = e
    BY <1>6, <1>7, <1>9, UpdatedIs
  <2> QED
    BY <2>1, <1>4, <1>7, <1>11, SlotIsWritten
<1>13. PICK file : file = IF call.op = "close" THEN Closed ELSE [was EXCEPT !.dirty = ~ok]
  OBVIOUS
<1>14. SetTo(handles, handles', h, file)
  <2>1. handles' = [handles EXCEPT ![h] = file]
    BY <1>3, <1>11, <1>13 DEF SetFile
  <2> QED
    BY <2>1, Parts, HandleIsSet DEF Working
<1>15. PICK new, view2 : new = handles' /\ view2 = Rest(new)
  OBVIOUS
<1>16. CASE call.op = "close"
  <2>1. \A k \in Handles : view2[k] = IF k = h THEN Closed ELSE view[k]
    BY <1>3, <1>13, <1>14, <1>15, <1>16, RestSet
  <2>2. In(due, view[h].slot).firstCluster = view[h].first /\ view[h] # Closed
    BY <1>3, <1>6, <1>10
  <2>3. Vol(own, pos, fat, due, view2, 0, leaked)
    BY <2>1, <2>2, <1>2, <1>3, <1>8, CloseLabels
  <2>4. Held(own, pos, fat, due, new, Idle, leaked)
    BY <2>3, <1>15, IdleHeld
  <2> QED
    BY <2>4, <1>0, <1>12, <1>15 DEF Goes
<1>17. CASE call.op # "close"
  <2>1. file # Closed /\ file.slot = o /\ file.ent = was.ent
    <3>1. \A b : FileIs([was EXCEPT !.dirty = b], was.slot, was.ent, was.offset, b)
      BY <1>4, FileBecomes, Zenon
    <3> QED
      BY <3>1, <1>3, <1>13, <1>17 DEF FileIs
  <2>2. \A k \in Handles : view2[k] = IF k = h THEN f ELSE view[k]
    BY <2>1, <1>3, <1>5, <1>14, <1>15, RestSet
  <2>3. view2 = view
    <3>1. \A k \in Handles : view2[k] = view[k]
      BY <2>2, <1>3
    <3>2. view2 = [k \in Handles |-> view2[k]] /\ view = [k \in Handles |-> view[k]]
      BY <1>3, <1>15 DEF Rest
    <3> QED
      BY <3>1, <3>2
  <2>4. Held(own, pos, fat, due, new, Idle, leaked)
    BY <2>3, <1>8, <1>15, IdleHeld
  <2> QED
    BY <2>4, <1>0, <1>12, <1>15 DEF Goes
<1> QED
  BY <1>16, <1>17

-----------------------------------------------------------------------------
(* The steps of remove and rename *)

(* An entry is erased, of a file or directory removed or of a file that has *)
(* moved.                                                                   *)
LEMMA EraseHolds ==
  ASSUME Working, NEW own, NEW pos, Holds(own, pos), EraseEntry
  PROVE  Goes
<1>0. /\ call.at = "erase" /\ fat' = fat /\ handles' = handles /\ leaked' = leaked
      /\ CallForm(call)
  BY Parts DEF EraseEntry, At, Working
<1>1. InView(call) = "erase" /\ Private(call) = 0
  BY <1>0 DEF InView, Private
<1>2. PICK view, s : view = Rest(handles) /\ s = IF call.op = "rename" THEN call.old ELSE call.slot
  OBVIOUS
<1>3. PICK ok \in Outcomes :
        /\ writeSlot(s, Deleted, ok)
        /\ call' = IF call.op = "rename" THEN Goto(IF ok THEN "idle" ELSE "rollback")
                   ELSE IF ok THEN Freeing(call, Cell(s).firstCluster, "idle")
                   ELSE Idle
  BY <1>2 DEF EraseEntry
<1>4. CASE call.op = "rename"
  <2>1. PICK due : due = Put(data, s, Deleted)
    OBVIOUS
  <2>2. View(handles, call) = view
    BY <1>1, <1>2 DEF View, Rest
  <2>3. TableDue(fat, call) = fat /\ CellsDue(data, view, call) = due
    BY <2>1, <1>0, <1>1, <1>2, <1>4 DEF TableDue, CellsDue
  <2>4. Vol(own, pos, fat, due, view, 0, leaked)
        /\ RequestHolds(own, pos, due, view, handles, call, "erase")
    BY <2>2, <2>3, <1>1 DEF Holds, Held
  <2>5. s \in SlotSet
    BY <2>4, <1>2, <1>4 DEF RequestHolds
  <2>6. ok /\ data' = due
    BY <2>1, <2>5, <1>3, SlotIsWritten
  <2>7. call' = Idle
    BY <2>6, <1>3, <1>4 DEF Goto, Jump
  <2>8. Held(own, pos, fat, due, handles, Idle, leaked)
    BY <2>4, <1>2, IdleHeld
  <2> QED
    BY <2>6, <2>7, <2>8, <1>0 DEF Goes
<1>5. CASE call.op # "rename"
  <2>1. Plain(call)
    BY <1>1, <1>5 DEF Plain
  <2>2. /\ Vol(own, pos, fat, data, view, 0, leaked)
        /\ RequestHolds(own, pos, data, view, handles, call, "erase")
    BY <2>1, <1>1, <1>2, PlainHeld DEF Holds
  <2>3. /\ Live(data, s) /\ Unused(view, s) /\ s \in SlotSet
        /\ In(data, s).dir => \A t \in SlotSet : Live(data, t) => own[t[1]] # s
    BY <2>2, <1>2, <1>5 DEF RequestHolds, Live
  <2>4. \A t \in SlotSet : Live(data, t) => own[t[1]] # s
    <3> SUFFICES ASSUME NEW t \in SlotSet, Live(data, t), own[t[1]] = s, ~In(data, s).dir
                 PROVE  FALSE
      BY <2>3
    <3>1. IsDirectory(data, s)
      BY <2>2 DEF Vol, EntriesHold, EntryHolds
    <3>2. IsFile(data, s)
      BY <2>3 DEF IsFile
    <3> QED
      BY <3>1, <3>2, OwnersAre
  <2>5. PICK own2, k : Renamed(own, s, Mine, own2) /\ k = In(data, s).firstCluster
    BY Renames
  <2>6. PICK cells : cells = Put(data, s, Deleted)
    OBVIOUS
  <2>7. Vol(own2, pos, fat, cells, view, k, leaked)
    BY <2>2, <2>3, <2>4, <2>5, <2>6, EraseLabels
  <2>8. ok /\ data' = cells
    BY <2>3, <2>6, <1>3, SlotIsWritten
  <2>9. k \in Link
    BY <2>3, <2>5, Parts, Tags DEF Working, DataOK, CellsOK, CellOK, EntOK, In, Live
  <2>10. PICK d : d = call'
    OBVIOUS
  <2>11. d = Freeing(call, k, "idle")
    BY <2>5, <2>8, <2>10, <1>3, <1>5 DEF Cell, In
  <2>12. CASE k \in Cluster
    <3>1. d = [call EXCEPT !.at = "free", !.cluster = k, !.next = "idle"]
      BY <2>11, <2>12 DEF Freeing
    <3>2. d.at = "free" /\ d.cluster = k /\ d.next = "idle"
      BY <3>1, <1>0 DEF CallForm, CallFields
    <3>3. InView(d) = "idle" /\ Plain(d) /\ Private(d) = k
      BY <3>2 DEF InView, Plain, Private
    <3>4. StageHolds(fat, cells, handles, d)
      BY <3>2, <3>3, <2>12 DEF StageHolds
    <3>5. RequestHolds(own2, pos, cells, view, handles, d, "idle")
      BY DEF RequestHolds
    <3>6. Held(own2, pos, fat, cells, handles, d, leaked)
      BY <3>3, <3>4, <3>5, <2>7, <1>2, PlainHeld
    <3> QED
      BY <3>6, <2>8, <2>10, <1>0 DEF Goes
  <2>13. CASE k \notin Cluster
    <3>1. d = Idle
      BY <2>11, <2>13 DEF Freeing, Jump
    <3>2. k = 0
      BY <2>9, <2>13 DEF Link
    <3>3. Held(own2, pos, fat, cells, handles, d, leaked)
      BY <3>1, <3>2, <2>7, <1>2, IdleHeld
    <3> QED
      BY <3>3, <2>8, <2>10, <1>0 DEF Goes
  <2> QED
    BY <2>12, <2>13
<1> QED
  BY <1>4, <1>5

(* A file or directory has another name.                                    *)
LEMMA InPlaceHolds ==
  ASSUME Working, NEW own, NEW pos, Holds(own, pos), RenameInPlace
  PROVE  Goes
<1>0. /\ call.at = "rename" /\ fat' = fat /\ handles' = handles /\ leaked' = leaked
      /\ call' = Idle
  BY DEF RenameInPlace, At
<1>1. InView(call) = "rename" /\ Plain(call) /\ Private(call) = 0
  BY <1>0 DEF InView, Plain, Private
<1>2. PICK view, s, e, was : view = Rest(handles) /\ s = call.slot /\ e = call.ent
                             /\ was = In(data, s)
  OBVIOUS
<1>3. /\ Vol(own, pos, fat, data, view, 0, leaked)
      /\ RequestHolds(own, pos, data, view, handles, call, "rename")
  BY <1>1, <1>2, PlainHeld DEF Holds
<1>4. /\ Live(data, s) /\ Unused(view, s) /\ s \in SlotSet
      /\ e = [was EXCEPT !.name = e.name] /\ e.name \notin Dots
  BY <1>2, <1>3 DEF RequestHolds, Live
<1>5. EntOK(was) /\ was.kind = "entry"
  BY <1>2, <1>4, Parts, Tags DEF Working, DataOK, CellsOK, CellOK, In, Live
<1>6. /\ e.kind = "entry" /\ e.dir = was.dir /\ e.firstCluster = was.firstCluster
      /\ e.size = was.size
  BY <1>4, <1>5 DEF EntOK, EntryFields
<1>7. Replaces(data, s, e)
  BY <1>2, <1>4, <1>6 DEF Replaces
<1>8. EntryHolds(own, pos, data, s, e)
  <2>1. EntryHolds(own, pos, data, s, was)
    BY <1>2, <1>3, <1>4 DEF Vol, EntriesHold
  <2> QED
    BY <2>1, <1>6 DEF EntryHolds
<1>9. PICK cells : cells = Put(data, s, e)
  OBVIOUS
<1>10. Vol(own, pos, fat, cells, view, 0, leaked)
  <2>1. In(data, s).firstCluster # 0 => e.firstCluster # 0
    BY <1>2, <1>6
  <2>2. \A h \in Handles : Opens(view, h, s) => e.firstCluster \in {0, view[h].first}
    BY <1>4 DEF Unused
  <2> QED
    BY <2>1, <2>2, <1>3, <1>7, <1>8, <1>9, ReplaceLabels
<1>11. PICK ok \in Outcomes : writeSlot(s, e, ok)
  BY <1>2 DEF RenameInPlace
<1>12. data' = cells
  BY <1>4, <1>9, <1>11, SlotIsWritten
<1>13. Held(own, pos, fat, cells, handles, Idle, leaked)
  BY <1>2, <1>10, IdleHeld
<1> QED
  BY <1>13, <1>12, <1>0 DEF Goes

(* The new entry of a file has its chain, and the old one is to go.         *)
LEMMA UpdateHolds ==
  ASSUME Working, NEW own, NEW pos, Holds(own, pos), RenameUpdate
  PROVE  Goes
<1>0. /\ call.at = "update" /\ fat' = fat /\ handles' = handles /\ leaked' = leaked
      /\ CallForm(call)
  BY Parts DEF RenameUpdate, At, Working
<1>1. InView(call) = "update" /\ Plain(call) /\ Private(call) = 0
  BY <1>0 DEF InView, Plain, Private
<1>2. PICK view, s, t, was : view = Rest(handles) /\ s = call.slot /\ t = call.old
                             /\ was = call.was
  OBVIOUS
<1>3. /\ Vol(own, pos, fat, data, view, 0, leaked)
      /\ RequestHolds(own, pos, data, view, handles, call, "update")
  BY <1>1, <1>2, PlainHeld DEF Holds
<1>4. /\ IsFile(data, s) /\ IsFile(data, t) /\ s # t /\ Unused(view, s) /\ Unused(view, t)
      /\ In(data, s).firstCluster = 0 /\ was = In(data, t) /\ call.op = "rename"
      /\ s \in SlotSet /\ t \in SlotSet /\ Live(data, s)
  BY <1>2, <1>3 DEF RequestHolds, IsFile, Live
<1>5. PICK e : e = Resized(In(data, s), was.firstCluster, was.size)
  OBVIOUS
<1>6. /\ e.kind = "entry" /\ e.name = In(data, s).name /\ e.dir = In(data, s).dir
      /\ e.firstCluster = was.firstCluster /\ e.size = was.size
  <2>1. EntOK(In(data, s))
    BY <1>4, Parts, Tags DEF Working, DataOK, CellsOK, CellOK, In, Live
  <2> QED
    BY <2>1, <1>5, ResizedIs
<1>7. Replaces(data, s, e)
  BY <1>4, <1>6 DEF Replaces, Live
<1>8. PICK cells, due : cells = Put(data, s, e) /\ due = Put(cells, t, Deleted)
  OBVIOUS
<1>9. PICK own2 : Renamed(own, t, s, own2)
  BY Renames
<1>10. Vol(own2, pos, fat, due, view, 0, leaked)
  <2>1. e.firstCluster = In(data, t).firstCluster /\ e.size = In(data, t).size
    BY <1>4, <1>6
  <2>2. Vol(own2, pos, fat, Put(Put(data, s, e), t, Deleted), view, 0, leaked)
    BY <2>1, <1>3, <1>4, <1>7, <1>9, MoveLabels
  <2> QED
    BY <2>2, <1>8
<1>11. PICK ok \in Outcomes :
         /\ writeSlot(s, Updated(s, was), ok)
         /\ call' = GotoIf(ok, "erase")
  BY <1>2 DEF RenameUpdate
<1>12. ok /\ data' = cells
  <2>1. Updated(s, was) = e
    BY <1>4, <1>5, UpdatedIs DEF Live
  <2> QED
    BY <2>1, <1>4, <1>8, <1>11, SlotIsWritten
<1>13. PICK d : d = call'
  OBVIOUS
<1>14. Same(call, d) /\ d.at = "erase" /\ d.op = "rename" /\ d.old = t
  <2>1. d = [call EXCEPT !.at = "erase"]
    BY <1>11, <1>12, <1>13 DEF GotoIf, Goto, Jump
  <2> QED
    BY <2>1, <1>0, <1>2, <1>4 DEF CallForm, CallFields, Same
<1>15. InView(d) = "erase" /\ Private(d) = 0
  BY <1>14 DEF InView, Private
<1>16. View(handles, d) = view
  BY <1>2, <1>15 DEF View, Rest
<1>17. TableDue(fat, d) = fat /\ CellsDue(cells, view, d) = due
  BY <1>8, <1>14, <1>15 DEF TableDue, CellsDue
<1>18. StageHolds(fat, cells, handles, d)
  BY <1>14, <1>15 DEF StageHolds
<1>19. RequestHolds(own2, pos, due, view, handles, d, "erase")
  BY <1>4, <1>14 DEF RequestHolds
<1>20. Held(own2, pos, fat, cells, handles, d, leaked)
  BY <1>10, <1>15, <1>16, <1>17, <1>18, <1>19 DEF Held
<1> QED
  BY <1>20, <1>12, <1>13, <1>0 DEF Goes

-----------------------------------------------------------------------------
(* The calls begin *)

(* Between calls the volume is labelled as it is.                           *)
LEMMA RestHolds ==
  ASSUME Working, NEW own, NEW pos, Holds(own, pos), call = Idle
  PROVE  /\ Vol(own, pos, fat, data, Rest(handles), 0, leaked)
         /\ AtRest(own, pos, Rest(handles))
<1>1. Held(own, pos, fat, data, handles, Idle, leaked)
  BY DEF Holds
<1>2. Vol(own, pos, fat, data, Rest(handles), 0, leaked)
  BY <1>1, IdleHeld
<1> QED
  BY <1>2, Parts DEF AtRest, Working

(* A call that enters a file into a directory takes a slot, or extends it.  *)
LEMMA CreatingHolds ==
  ASSUME NEW own, NEW pos, AtRest(own, pos, Rest(handles)),
         NEW c, CallForm(c), NEW k, DirHead(own, pos, data, k),
         c.ent.kind = "entry", c.ent.name \notin Dots, c.ent.size = 0,
         c.ent.firstCluster = 0, c.ent.dir => k = rootCluster,
         c.op \in {"createFile", "createDirectory", "open", "rename"},
         c.op \in {"open", "rename"} => ~c.ent.dir,
         c.op = "open" => Rest(handles)[c.handle] = Closed,
         c.op = "rename" =>
           IsFile(data, c.old) /\ c.was = In(data, c.old) /\ Unused(Rest(handles), c.old)
  PROVE  Held(own, pos, fat, data, handles, Creating(c, k), leaked)
<1>1. PICK view : view = Rest(handles)
  OBVIOUS
<1>2. Vol(own, pos, fat, data, view, 0, leaked)
  BY <1>1 DEF AtRest
<1>3. PICK b : b = [c EXCEPT !.head = k]
  OBVIOUS
<1>4. /\ CallForm(b) /\ b.head = k /\ b.op = c.op /\ b.handle = c.handle /\ b.ent = c.ent
      /\ b.old = c.old /\ b.was = c.was /\ b.n = c.n /\ b.slot = c.slot
  BY <1>3 DEF CallForm, CallFields
<1>5. NewEntry(own, pos, data, view, b)
  BY <1>1, <1>4 DEF NewEntry
<1>6. CASE Reusable(k) # {}
  <2>1. PICK s : s = FirstReusable(k)
    OBVIOUS
  <2>2. SlotReady(own, pos, data, k, s)
    BY <2>1, <1>6, ReusableIsReady
  <2>3. Creating(c, k) = WithSlot(b, s)
    BY <2>1, <1>3, <1>6 DEF Creating
  <2>4. Held(own, pos, fat, data, handles, WithSlot(b, s), leaked)
    BY <2>2, <1>1, <1>2, <1>4, <1>5, WithSlotHolds
  <2> QED
    BY <2>3, <2>4
<1>7. CASE Reusable(k) = {}
  <2>1. NoReuse(own, data, k)
    BY <1>7, ReusableIsReady
  <2>2. PICK d : d = [b EXCEPT !.at = "alloc", !.next = "link"]
    OBVIOUS
  <2>3. Same(b, d) /\ d.at = "alloc" /\ d.next = "link"
    BY <2>2, <1>4 DEF CallForm, CallFields, Same
  <2>4. Creating(c, k) = d
    BY <2>2, <1>3, <1>7 DEF Creating, Allocating
  <2>5. InView(d) = "link" /\ Plain(d) /\ Private(d) = 0
    BY <2>3 DEF InView, Plain, Private
  <2>6. StageHolds(fat, data, handles, d)
    BY <2>3, <2>5 DEF StageHolds
  <2>7. RequestHolds(own, pos, data, view, handles, d, "link")
    <3>1. ~Writes(d) /\ d.ent.firstCluster = 0
      BY <2>3, <1>4 DEF Same, Writes
    <3>2. NewEntry(own, pos, data, view, d) /\ NoReuse(own, data, d.head)
      BY <2>1, <2>3, <1>4, <1>5 DEF Same, NewEntry
    <3> QED
      BY <3>1, <3>2 DEF RequestHolds
  <2>8. Held(own, pos, fat, data, handles, d, leaked)
    BY <2>5, <2>6, <2>7, <1>1, <1>2, PlainHeld
  <2> QED
    BY <2>4, <2>8
<1> QED
  BY <1>6, <1>7

(* Where a file can be created there is a directory, and its name is none   *)
(* of the dot entries.                                                      *)
LEMMA ParentFound ==
  ASSUME NEW own, NEW pos, NEW view, AtRest(own, pos, view),
         NEW path \in FilePaths \cup DirPaths, CanCreate(parentOf(path))
  PROVE  /\ DirHead(own, pos, data, parentOf(path))
         /\ basenameOf(path) \notin Dots
         /\ Len(path) = 1 => parentOf(path) = rootCluster
<1>1. basenameOf(path) \notin Dots
  <2>1. Len(path) \in 1 .. Len(path)
    BY VolumeAssumption
  <2> QED
    BY <2>1, NameAssumption DEF basenameOf, Dots
<1> QED
  BY <1>1, ParentIsDirectory, NothingIsNowhere

(* createFile and createDirectory.                                          *)
LEMMA CreateHolds ==
  ASSUME Working, NEW own, NEW pos, Holds(own, pos),
         NEW op \in {"createFile", "createDirectory"}, NEW path \in FilePaths \cup DirPaths,
         NEW dir \in BOOLEAN, dir => Len(path) = 1, Create(op, path, dir)
  PROVE  Goes
<1>0. /\ fat' = fat /\ data' = data /\ handles' = handles /\ leaked' = leaked
      /\ call = Idle /\ CanCreate(parentOf(path))
  BY DEF Create, Client
<1>1. AtRest(own, pos, Rest(handles))
  BY <1>0, RestHolds
<1>2. PICK k, e : k = parentOf(path) /\ e = Entry(basenameOf(path), dir, 0, 0)
  OBVIOUS
<1>3. /\ DirHead(own, pos, data, k) /\ basenameOf(path) \notin Dots
      /\ Len(path) = 1 => k = rootCluster
  BY <1>0, <1>1, <1>2, ParentFound
<1>4. /\ e.kind = "entry" /\ e.name \notin Dots /\ e.size = 0 /\ e.firstCluster = 0
      /\ e.dir = dir
  BY <1>2, <1>3 DEF Entry
<1>5. PICK c : c = [Begin(op) EXCEPT !.ent = e]
  BY Zenon
<1>6. CallForm(c) /\ c.op = op /\ c.ent = e
  <2>1. Is([Begin(op) EXCEPT !.ent = e], op, "idle", "idle", 0, 0, 0, 0, Nowhere, e, NoEntry)
    BY Begins, Zenon
  <2> QED
    BY <2>1, <1>5 DEF Is
<1>7. call' = Creating(c, k)
  BY <1>2, <1>5 DEF Create
<1>8. Held(own, pos, fat, data, handles, Creating(c, k), leaked)
  <2>1. c.ent.dir => k = rootCluster
    BY <1>3, <1>4, <1>6
  <2>2. c.op \in {"createFile", "createDirectory", "open", "rename"} /\ c.op # "open"
        /\ c.op # "rename"
    BY <1>6
  <2> QED
    BY <2>1, <2>2, <1>1, <1>3, <1>4, <1>6, CreatingHolds
<1> QED
  BY <1>7, <1>8, <1>0 DEF Goes

(* A file that no one knows a cluster of has none.                          *)
LEMMA NoneOwned ==
  ASSUME NEW own, NEW pos, NEW g, NEW cells, NEW view, NEW leak,
         Vol(own, pos, g, cells, view, 0, leak), NEW s, IsFile(cells, s),
         In(cells, s).firstCluster = 0,
         \A h \in Handles : Opens(view, h, s) => view[h].first = 0
  PROVE  \A c \in Cluster : own[c] # s
<1> SUFFICES ASSUME NEW c \in Cluster, own[c] = s PROVE FALSE
  OBVIOUS
<1>1. s \notin {NoOwner, Lost, Mine} /\ s # Nowhere
  BY OwnersAre
<1>2. HasChain(cells, view, 0, s)
  BY <1>1 DEF Vol, Names
<1> QED
  BY <1>1, <1>2 DEF HasChain

(* open of a file that is there, with Truncate or without.                  *)
LEMMA OpenFoundHolds ==
  ASSUME Working, NEW own, NEW pos, Holds(own, pos), NEW path \in FilePaths, NEW mode,
         NEW h \in Handles, open(path, mode, h), findEntry(path) # Nowhere
  PROVE  Goes
<1>1. PICK view, s : view = Rest(handles) /\ s = findEntry(path)
  OBVIOUS
<1>2. PICK c : c = [Begin("open") EXCEPT !.handle = h, !.mode = mode, !.slot = s]
  OBVIOUS
<1>0. /\ fat' = fat /\ data' = data /\ handles' = handles /\ leaked' = leaked /\ call = Idle
      /\ handles[h] = Closed /\ Unopened(s) /\ ~Cell(s).dir
      /\ call' = IF "Truncate" \in mode THEN Freeing(c, Cell(s).firstCluster, "clear")
                 ELSE [c EXCEPT !.at = "opened"]
  BY <1>1, <1>2 DEF open, Client, IsOpen
<1>3. Vol(own, pos, fat, data, view, 0, leaked) /\ AtRest(own, pos, view)
  BY <1>0, <1>1, RestHolds
<1>4. Live(data, s) /\ s \in SlotSet
  BY <1>1, <1>3, PathIsLive DEF Live
<1>5. PICK was : was = In(data, s)
  OBVIOUS
<1>6. IsFile(data, s) /\ Cell(s) = was
  BY <1>0, <1>4, <1>5 DEF IsFile, Cell, In
<1>7. Unused(view, s) /\ view[h] = Closed
  BY <1>0, <1>1, OpenedIs DEF Unopened, IsOpen, Unused, Opens, Rest
<1>8. EntOK(was) /\ was.kind = "entry"
  BY <1>4, <1>5, Parts, Tags DEF Working, DataOK, CellsOK, CellOK, In, Live
<1>9. CallForm(c) /\ c.op = "open" /\ c.handle = h /\ c.slot = s
  <2>1. Is([Begin("open") EXCEPT !.handle = h, !.mode = mode, !.slot = s],
           "open", "idle", "idle", h, 0, 0, 0, s, NoEntry, NoEntry)
    BY Begins, Zenon
  <2> QED
    BY <2>1, <1>2 DEF Is
<1>10. PICK d : d = call'
  OBVIOUS
<1>11. CASE "Truncate" \notin mode
  <2>1. d = [c EXCEPT !.at = "opened"]
    BY <1>0, <1>10, <1>11
  <2>2. d.at = "opened" /\ d.slot = s /\ d.handle = h
    BY <2>1, <1>9 DEF CallForm, CallFields
  <2>3. InView(d) = "opened" /\ Plain(d) /\ Private(d) = 0
    BY <2>2 DEF InView, Plain, Private
  <2>4. StageHolds(fat, data, handles, d)
    BY <2>2, <2>3 DEF StageHolds
  <2>5. RequestHolds(own, pos, data, view, handles, d, "opened")
    BY <2>2, <1>6, <1>7 DEF RequestHolds
  <2>6. Held(own, pos, fat, data, handles, d, leaked)
    BY <2>3, <2>4, <2>5, <1>1, <1>3, PlainHeld
  <2> QED
    BY <2>6, <1>10, <1>0 DEF Goes
<1>12. CASE "Truncate" \in mode
  <2>1. PICK e, k : e = Resized(was, 0, 0) /\ k = was.firstCluster
    OBVIOUS
  <2>2. /\ e.kind = "entry" /\ e.name = was.name /\ e.dir = was.dir
        /\ e.firstCluster = 0 /\ e.size = 0
    BY <2>1, <1>8, ResizedIs
  <2>3. Replaces(data, s, e)
    BY <2>2, <1>4, <1>5 DEF Replaces, Live
  <2>4. PICK own2 : Renamed(own, s, Mine, own2)
    BY Renames
  <2>5. PICK due : due = Put(data, s, e)
    OBVIOUS
  <2>6. Vol(own2, pos, fat, due, view, k, leaked)
    <3>1. IF k = 0 THEN \A x \in Cluster : own[x] # s ELSE HeadOf(own, pos, s, k)
      <4>1. CASE k = 0
        <5>1. \A j \in Handles : Opens(view, j, s) => view[j].first = 0
          BY <1>7 DEF Unused
        <5>2. In(data, s).firstCluster = 0
          BY <4>1, <2>1, <1>5
        <5>3. \A x \in Cluster : own[x] # s
          BY <5>1, <5>2, <1>3, <1>6, NoneOwned
        <5> QED
          BY <5>3, <4>1
      <4>2. CASE k # 0
        BY <4>2, <2>1, <1>3, <1>4, <1>5 DEF Vol, EntriesHold, EntryHolds
      <4> QED
        BY <4>1, <4>2
    <3>2. \A j \in Handles :
            IF Opens(view, j, s) THEN Opens(view, j, s) /\ view[j].first = 0 /\ view[j].size = 0
            ELSE view[j] = view[j]
      BY <1>7 DEF Unused
    <3> QED
      BY <3>1, <3>2, <2>2, <2>3, <2>4, <2>5, <1>3, <1>6, EmptyLabels
  <2>7. d = Freeing(c, k, "clear")
    BY <2>1, <1>0, <1>6, <1>10, <1>12
  <2>8. /\ d.slot = s /\ d.handle = h /\ InView(d) = "clear" /\ Private(d) = k
        /\ StageHolds(fat, data, handles, d)
    <3>1. CASE k \in Cluster
      <4>1. d = [c EXCEPT !.at = "free", !.cluster = k, !.next = "clear"]
        BY <3>1, <2>7 DEF Freeing
      <4>2. d.at = "free" /\ d.cluster = k /\ d.next = "clear" /\ d.slot = s /\ d.handle = h
        BY <4>1, <1>9 DEF CallForm, CallFields
      <4>3. InView(d) = "clear" /\ Private(d) = k
        BY <4>2 DEF InView, Private
      <4> QED
        BY <4>2, <4>3, <3>1 DEF StageHolds
    <3>2. CASE k \notin Cluster
      <4>1. k = 0
        BY <3>2, <2>1, <1>8 DEF EntOK, Link
      <4>2. d = [c EXCEPT !.at = "clear"]
        BY <3>2, <2>7 DEF Freeing, Jump
      <4>3. d.at = "clear" /\ d.slot = s /\ d.handle = h
        BY <4>2, <1>9 DEF CallForm, CallFields
      <4>4. InView(d) = "clear" /\ Private(d) = 0
        BY <4>3 DEF InView, Private
      <4> QED
        BY <4>1, <4>3, <4>4 DEF StageHolds
    <3> QED
      BY <3>1, <3>2
  <2>9. due = Put(data, d.slot, Resized(In(data, d.slot), 0, 0))
    BY <2>1, <2>5, <2>8, <1>5
  <2>10. IsFile(due, s)
    BY <2>3, <2>5, <1>6, EntryReplaced
  <2>11. RequestHolds(own2, pos, due, view, handles, d, "clear")
    BY <2>8, <2>10, <1>7 DEF RequestHolds
  <2>12. Held(own2, pos, fat, data, handles, d, leaked)
    BY <2>6, <2>8, <2>9, <2>11, <1>1, ClearHeld
  <2> QED
    BY <2>12, <1>10, <1>0 DEF Goes
<1> QED
  BY <1>11, <1>12

(* open of a file that is not there, with Create.                           *)
LEMMA OpenNewHolds ==
  ASSUME Working, NEW own, NEW pos, Holds(own, pos), NEW path \in FilePaths, NEW mode,
         NEW h \in Handles, open(path, mode, h), findEntry(path) = Nowhere
  PROVE  Goes
<1>1. PICK k, e, s : /\ k = parentOf(path) /\ e = Entry(basenameOf(path), FALSE, 0, 0)
                     /\ s = findEntry(path)
  OBVIOUS
<1>2. PICK b, c : /\ b = [Begin("open") EXCEPT !.handle = h, !.mode = mode, !.slot = s]
                  /\ c = [b EXCEPT !.ent = e]
  OBVIOUS
<1>0. /\ fat' = fat /\ data' = data /\ handles' = handles /\ leaked' = leaked /\ call = Idle
      /\ handles[h] = Closed /\ CanCreate(k) /\ call' = Creating(c, k)
  BY <1>1, <1>2 DEF open, Client, IsOpen
<1>3. AtRest(own, pos, Rest(handles))
  BY <1>0, RestHolds
<1>4. DirHead(own, pos, data, k) /\ basenameOf(path) \notin Dots
  BY <1>0, <1>1, <1>3, ParentFound
<1>5. /\ e.kind = "entry" /\ e.name \notin Dots /\ e.size = 0 /\ e.firstCluster = 0 /\ ~e.dir
  BY <1>1, <1>4 DEF Entry
<1>6. CallForm(b) /\ b.op = "open" /\ b.handle = h
  <2>1. Is([Begin("open") EXCEPT !.handle = h, !.mode = mode, !.slot = s],
           "open", "idle", "idle", h, 0, 0, 0, s, NoEntry, NoEntry)
    BY Begins, Zenon
  <2> QED
    BY <2>1, <1>2 DEF Is
<1>7. CallForm(c) /\ c.op = "open" /\ c.handle = h /\ c.ent = e
  BY <1>2, <1>6 DEF CallForm, CallFields
<1>8. Rest(handles)[h] = Closed
  BY <1>0 DEF Rest
<1>9. Held(own, pos, fat, data, handles, Creating(c, k), leaked)
  BY <1>3, <1>4, <1>5, <1>7, <1>8, CreatingHolds
<1> QED
  BY <1>9, <1>0 DEF Goes

(* remove: a directory is empty before it goes.                             *)
LEMMA RemoveHolds ==
  ASSUME Working, NEW own, NEW pos, Holds(own, pos), NEW path \in FilePaths \cup DirPaths,
         remove(path)
  PROVE  Goes
<1>1. PICK view, s, d : /\ view = Rest(handles) /\ s = findEntry(path)
                        /\ d = [Begin("remove") EXCEPT !.at = "erase", !.slot = s]
  BY Zenon
<1>0. /\ fat' = fat /\ data' = data /\ handles' = handles /\ leaked' = leaked /\ call = Idle
      /\ s # Nowhere /\ Unopened(s) /\ (Cell(s).dir => IsEmpty(Cell(s).firstCluster))
      /\ call' = d
  BY <1>1 DEF remove, Client
<1>2. Vol(own, pos, fat, data, view, 0, leaked) /\ AtRest(own, pos, view)
  BY <1>0, <1>1, RestHolds
<1>3. Live(data, s) /\ s \in SlotSet
  BY <1>0, <1>1, <1>2, PathIsLive DEF Live
<1>4. Unused(view, s)
  BY <1>0, <1>1, OpenedIs DEF Unopened, IsOpen, Unused, Opens, Rest
<1>5. ASSUME In(data, s).dir, NEW t \in SlotSet, Live(data, t), own[t[1]] = s PROVE FALSE
  <2>1. PICK k : k = In(data, s).firstCluster
    OBVIOUS
  <2>2. IsEmpty(k)
    BY <2>1, <1>0, <1>5 DEF Cell, In
  <2>3. DirHead(own, pos, data, k) /\ own[k] = s
    BY <2>1, <1>2, <1>3, <1>5, EntryIsDirectory DEF Vol
  <2>4. t \in Visible(k)
    BY <2>3, <1>2, <1>5, VisibleIsLive
  <2> QED
    BY <2>2, <2>4 DEF IsEmpty, Visible
<1>6. d.op = "remove" /\ d.at = "erase" /\ d.slot = s
  <2>1. Is([Begin("remove") EXCEPT !.at = "erase", !.slot = s],
           "remove", "erase", "idle", 0, 0, 0, 0, s, NoEntry, NoEntry)
    BY Begins, Zenon
  <2> QED
    BY <2>1, <1>1 DEF Is
<1>7. InView(d) = "erase" /\ Plain(d) /\ Private(d) = 0
  BY <1>6 DEF InView, Plain, Private
<1>8. StageHolds(fat, data, handles, d)
  BY <1>6, <1>7 DEF StageHolds
<1>9. RequestHolds(own, pos, data, view, handles, d, "erase")
  BY <1>3, <1>4, <1>5, <1>6 DEF RequestHolds
<1>10. Held(own, pos, fat, data, handles, d, leaked)
  BY <1>1, <1>2, <1>7, <1>8, <1>9, PlainHeld
<1> QED
  BY <1>10, <1>0 DEF Goes

(* rename: in its directory, or into another one.                           *)
LEMMA RenameHolds ==
  ASSUME Working, NEW own, NEW pos, Holds(own, pos), NEW path \in FilePaths \cup DirPaths,
         NEW to \in FilePaths \cup DirPaths, rename(path, to)
  PROVE  Goes
<1>1. PICK view, s, ent, k : /\ view = Rest(handles) /\ s = findEntry(path)
                             /\ ent = Cell(s) /\ k = parentOf(to)
  OBVIOUS
<1>0. /\ fat' = fat /\ data' = data /\ handles' = handles /\ leaked' = leaked /\ call = Idle
      /\ s # Nowhere /\ Unopened(s)
      /\ \/ call' = [Begin("rename") EXCEPT !.at = "rename", !.slot = s,
                                            !.ent = [ent EXCEPT !.name = basenameOf(to)]]
         \/ /\ ~ent.dir /\ CanCreate(k)
            /\ call' = Creating([Begin("rename") EXCEPT !.old = s, !.was = ent,
                                   !.ent = Entry(basenameOf(to), ent.dir, 0, 0)], k)
  BY <1>1 DEF rename, Client
<1>2. Vol(own, pos, fat, data, view, 0, leaked) /\ AtRest(own, pos, view)
  BY <1>0, <1>1, RestHolds
<1>3. Live(data, s) /\ s \in SlotSet /\ ent = In(data, s)
  BY <1>0, <1>1, <1>2, PathIsLive DEF Live, Cell, In
<1>4. Unused(view, s)
  BY <1>0, <1>1, OpenedIs DEF Unopened, IsOpen, Unused, Opens, Rest
<1>5. PICK name : name = basenameOf(to)
  OBVIOUS
<1>6. name \notin Dots
  <2>1. Len(to) \in 1 .. Len(to)
    BY VolumeAssumption
  <2> QED
    BY <2>1, <1>5, NameAssumption DEF basenameOf, Dots
<1>7. CASE call' = [Begin("rename") EXCEPT !.at = "rename", !.slot = s,
                                           !.ent = [ent EXCEPT !.name = name]]
  <2>1. PICK e, d : /\ e = [ent EXCEPT !.name = name]
                    /\ d = [Begin("rename") EXCEPT !.at = "rename", !.slot = s, !.ent = e]
    BY Zenon
  <2>2. d.op = "rename" /\ d.at = "rename" /\ d.slot = s /\ d.ent = e
    <3>1. Is([Begin("rename") EXCEPT !.at = "rename", !.slot = s, !.ent = e],
             "rename", "rename", "idle", 0, 0, 0, 0, s, e, NoEntry)
      BY Begins, Zenon
    <3> QED
      BY <3>1, <2>1 DEF Is
  <2>3. EntOK(ent)
    BY <1>3, Parts, Tags DEF Working, DataOK, CellsOK, CellOK, In, Live
  <2>4. e.name = name
    BY <2>1, <2>3 DEF EntOK, EntryFields
  <2>5. InView(d) = "rename" /\ Plain(d) /\ Private(d) = 0
    BY <2>2 DEF InView, Plain, Private
  <2>6. StageHolds(fat, data, handles, d)
    BY <2>2, <2>5 DEF StageHolds
  <2>7. RequestHolds(own, pos, data, view, handles, d, "rename")
    BY <2>1, <2>2, <2>4, <1>3, <1>4, <1>6 DEF RequestHolds
  <2>8. Held(own, pos, fat, data, handles, d, leaked)
    BY <2>5, <2>6, <2>7, <1>1, <1>2, PlainHeld
  <2>9. call' = d
    BY <2>1, <1>7
  <2> QED
    BY <2>8, <2>9, <1>0 DEF Goes
<1>8. CASE /\ ~ent.dir /\ CanCreate(k)
           /\ call' = Creating([Begin("rename") EXCEPT !.old = s, !.was = ent,
                                  !.ent = Entry(name, ent.dir, 0, 0)], k)
  <2>1. PICK e, c : /\ e = Entry(name, ent.dir, 0, 0)
                    /\ c = [Begin("rename") EXCEPT !.old = s, !.was = ent, !.ent = e]
    BY Zenon
  <2>2. CallForm(c) /\ c.op = "rename" /\ c.ent = e /\ c.was = ent
    <3>1. Is([Begin("rename") EXCEPT !.old = s, !.was = ent, !.ent = e],
             "rename", "idle", "idle", 0, 0, 0, 0, Nowhere, e, ent)
      BY Begins, Zenon
    <3> QED
      BY <3>1, <2>1 DEF Is
  <2>3. c.old = s
    <3>1. Is(Begin("rename"), "rename", "idle", "idle", 0, 0, 0, 0, Nowhere, NoEntry, NoEntry)
      BY DEF Begin, Idle, Is, CallForm, CallFields
    <3>2. PICK b : b = Begin("rename") /\ CallForm(b)
      BY <3>1 DEF Is
    <3>3. c = [b EXCEPT !.old = s, !.was = ent, !.ent = e]
      BY <2>1, <3>2
    <3> QED
      BY <3>2, <3>3 DEF CallForm, CallFields
  <2>4. /\ e.kind = "entry" /\ e.name \notin Dots /\ e.size = 0 /\ e.firstCluster = 0 /\ ~e.dir
    BY <2>1, <1>6, <1>8 DEF Entry
  <2>5. DirHead(own, pos, data, k)
    BY <1>1, <1>2, <1>8, ParentFound
  <2>6. IsFile(data, s)
    BY <1>3, <1>8 DEF IsFile
  <2>7. Held(own, pos, fat, data, handles, Creating(c, k), leaked)
    <3>1. c.ent.dir => k = rootCluster
      BY <2>2, <2>4
    <3>2. c.op \in {"createFile", "createDirectory", "open", "rename"} /\ c.op # "open" /\ ~c.ent.dir
      BY <2>2, <2>4
    <3>3. IsFile(data, c.old) /\ c.was = In(data, c.old) /\ Unused(Rest(handles), c.old)
      BY <2>2, <2>3, <2>6, <1>1, <1>3, <1>4
    <3> QED
      BY <3>1, <3>2, <3>3, <2>2, <2>4, <2>5, <1>1, <1>2, CreatingHolds
  <2>8. call' = Creating(c, k)
    BY <2>1, <1>8
  <2> QED
    BY <2>7, <2>8, <1>0 DEF Goes
<1> QED
  BY <1>0, <1>5, <1>7, <1>8

(* write has its first cluster to find.                                     *)
LEMMA WriteHolds ==
  ASSUME Working, NEW own, NEW pos, Holds(own, pos), NEW h \in Handles, NEW n \in Marks,
         n # 0, write(h, n)
  PROVE  Goes
<1>1. PICK c, d : c = BeginFile("write", h, n) /\ d = [c EXCEPT !.at = "locate"]
  OBVIOUS
<1>0. /\ fat' = fat /\ data' = data /\ handles' = handles /\ leaked' = leaked /\ call = Idle
      /\ IsOpen(h) /\ call' = d
  BY <1>1 DEF write, Client
<1>2. Vol(own, pos, fat, data, Rest(handles), 0, leaked)
  BY <1>0, RestHolds
<1>3. CallForm(c) /\ c.op = "write" /\ c.n = n
  <2>1. n \in Nat /\ HandlesOK(handles)
    BY MarksAreNumbers, Parts DEF Working
  <2> QED
    BY <2>1, <1>0, <1>1, FileCallBegins
<1>4. d.at = "locate" /\ d.op = "write" /\ d.n = n
  BY <1>1, <1>3 DEF CallForm, CallFields
<1>5. InView(d) = "locate" /\ Plain(d) /\ Private(d) = 0
  BY <1>4 DEF InView, Plain, Private
<1>6. StageHolds(fat, data, handles, d)
  BY <1>4, <1>5 DEF StageHolds
<1>7. RequestHolds(own, pos, data, Rest(handles), handles, d, "locate")
  BY <1>4 DEF RequestHolds
<1>8. Held(own, pos, fat, data, handles, d, leaked)
  BY <1>2, <1>5, <1>6, <1>7, PlainHeld
<1> QED
  BY <1>8, <1>0 DEF Goes

(* truncate finds the last cluster that it keeps, or frees them all.        *)
LEMMA TruncateHolds ==
  ASSUME Working, NEW own, NEW pos, Holds(own, pos), NEW h \in Handles, NEW n \in Marks,
         truncate(h, n)
  PROVE  Goes
<1>1. PICK c, k : c = BeginFile("truncate", h, n) /\ k = handles[h].ent.firstCluster
  OBVIOUS
<1>0. /\ fat' = fat /\ data' = data /\ handles' = handles /\ leaked' = leaked /\ call = Idle
      /\ IsOpen(h)
      /\ call' = IF n = 0 THEN Freeing(c, k, "emptied") ELSE [c EXCEPT !.at = "locate"]
  BY <1>1 DEF truncate, Client
<1>2. PICK view : view = Rest(handles)
  OBVIOUS
<1>3. Vol(own, pos, fat, data, view, 0, leaked) /\ HandlesOK(handles)
  BY <1>0, <1>2, RestHolds, Parts DEF Working
<1>4. CallForm(c) /\ c.op = "truncate" /\ c.n = n /\ c.handle = h
  <2>1. n \in Nat
    BY MarksAreNumbers
  <2>2. Is(c, "truncate", "idle", "idle", h, n, 0, 0, Nowhere, NoEntry, NoEntry)
    BY <2>1, <1>0, <1>1, <1>3, FileCallBegins
  <2> QED
    BY <2>2 DEF Is
<1>5. PICK d : d = call'
  OBVIOUS
<1>6. CASE n # 0
  <2>1. d = [c EXCEPT !.at = "locate"]
    BY <1>0, <1>5, <1>6
  <2>2. d.at = "locate" /\ d.op = "truncate" /\ d.n = n
    BY <2>1, <1>4 DEF CallForm, CallFields
  <2>3. InView(d) = "locate" /\ Plain(d) /\ Private(d) = 0
    BY <2>2 DEF InView, Plain, Private
  <2>4. StageHolds(fat, data, handles, d)
    BY <2>2, <2>3 DEF StageHolds
  <2>5. RequestHolds(own, pos, data, view, handles, d, "locate")
    BY <2>2, <1>6 DEF RequestHolds
  <2>6. Held(own, pos, fat, data, handles, d, leaked)
    BY <2>3, <2>4, <2>5, <1>2, <1>3, PlainHeld
  <2> QED
    BY <2>6, <1>5, <1>0 DEF Goes
<1>7. CASE n = 0
  <2>1. PICK o, was, e : o = handles[h].slot /\ was = In(data, o) /\ e = Resized(was, 0, 0)
    OBVIOUS
  <2>2. /\ FileOK(handles[h]) /\ o \in SlotSet /\ handles[h] # Closed
        /\ view[h] = Opened(o, k, handles[h].ent.size)
        /\ IsFile(data, o) /\ Live(data, o) /\ was.kind = "entry"
        /\ k # 0 => HeadOf(own, pos, o, k)
        /\ was.firstCluster \in {0, k}
        /\ \A j \in Handles : Opens(view, j, o) => j = h
    BY <2>1, <1>0, <1>1, <1>2, <1>3, FileHeld DEF IsOpen
  <2>3. EntOK(was) /\ k \in Link
    <3>1. EntOK(was)
      BY <2>1, <2>2, Parts, Tags DEF Working, DataOK, CellsOK, CellOK, In
    <3>2. k \in Link
      BY <2>2, <1>1 DEF FileOK, EntOK
    <3> QED
      BY <3>1, <3>2
  <2>4. /\ e.kind = "entry" /\ e.name = was.name /\ e.dir = was.dir
        /\ e.firstCluster = 0 /\ e.size = 0
    BY <2>1, <2>3, ResizedIs
  <2>5. Replaces(data, o, e)
    BY <2>1, <2>2, <2>4 DEF Replaces, Live
  <2>6. PICK own2, due, view2 :
          /\ Renamed(own, o, Mine, own2) /\ due = Put(data, o, e)
          /\ view2 = [j \in Handles |-> IF j = h THEN Opened(o, 0, 0) ELSE view[j]]
    <3>1. \E own2 : Renamed(own, o, Mine, own2)
      BY Renames
    <3> QED
      BY <3>1
  <2>7. Vol(own2, pos, fat, due, view2, k, leaked)
    <3>1. IF k = 0 THEN \A x \in Cluster : own[x] # o ELSE HeadOf(own, pos, o, k)
      <4>1. CASE k = 0
        <5>1. \A j \in Handles : Opens(view, j, o) => view[j].first = 0
          BY <4>1, <2>2, OpenedIs
        <5>2. In(data, o).firstCluster = 0
          BY <4>1, <2>1, <2>2
        <5>3. \A x \in Cluster : own[x] # o
          BY <5>1, <5>2, <1>3, <2>2, NoneOwned
        <5> QED
          BY <5>3, <4>1
      <4>2. CASE k # 0
        BY <4>2, <2>2
      <4> QED
        BY <4>1, <4>2
    <3>2. \A j \in Handles :
            IF Opens(view, j, o)
            THEN Opens(view2, j, o) /\ view2[j].first = 0 /\ view2[j].size = 0
            ELSE view2[j] = view[j]
      <4>1. Opens(view, h, o)
        BY <2>2, OpenedIs DEF Opens
      <4>2. Opens(view2, h, o) /\ view2[h].first = 0 /\ view2[h].size = 0
        BY <2>6, OpenedIs DEF Opens
      <4> QED
        BY <4>1, <4>2, <2>2, <2>6
    <3> QED
      BY <3>1, <3>2, <2>2, <2>4, <2>5, <2>6, <1>3, EmptyLabels
  <2>8. d = Freeing(c, k, "emptied")
    BY <1>0, <1>5, <1>7
  <2>9. d.handle = h /\ InView(d) = "emptied" /\ Private(d) = k
        /\ (d.at = "free" => k \in Cluster) /\ d.at \in {"free", "emptied"}
    <3>1. CASE k \in Cluster
      <4>1. d = [c EXCEPT !.at = "free", !.cluster = k, !.next = "emptied"]
        BY <3>1, <2>8 DEF Freeing
      <4>2. d.at = "free" /\ d.cluster = k /\ d.next = "emptied" /\ d.handle = h
        BY <4>1, <1>4 DEF CallForm, CallFields
      <4> QED
        BY <4>2, <3>1 DEF InView, Private
    <3>2. CASE k \notin Cluster
      <4>1. k = 0
        BY <3>2, <2>3 DEF Link
      <4>2. d = [c EXCEPT !.at = "emptied"]
        BY <3>2, <2>8 DEF Freeing, Jump
      <4>3. d.at = "emptied" /\ d.handle = h
        BY <4>2, <1>4 DEF CallForm, CallFields
      <4> QED
        BY <4>1, <4>3 DEF InView, Private
    <3> QED
      BY <3>1, <3>2
  <2>10. StageHolds(fat, data, handles, d)
    BY <2>1, <2>2, <2>9 DEF StageHolds
  <2>11. View(handles, d) = view2
    BY <2>1, <2>2, <2>6, <2>9, <1>2 DEF View, Rest
  <2>12. TableDue(fat, d) = fat /\ CellsDue(data, view2, d) = due
    <3>1. view2[h].slot = o /\ view2[h].first = 0 /\ view2[h].size = 0
      BY <2>6, OpenedIs
    <3> QED
      BY <3>1, <2>1, <2>6, <2>9 DEF TableDue, CellsDue
  <2>13. RequestHolds(own2, pos, due, view2, handles, d, "emptied")
    BY DEF RequestHolds
  <2>14. Held(own2, pos, fat, data, handles, d, leaked)
    BY <2>7, <2>9, <2>10, <2>11, <2>12, <2>13 DEF Held
  <2> QED
    BY <2>14, <1>5, <1>0 DEF Goes
<1> QED
  BY <1>6, <1>7

(* flush and close owe the disk the entry of the file.                      *)
LEMMA FlushCallHolds ==
  ASSUME Working, NEW own, NEW pos, Holds(own, pos), call = Idle,
         NEW h \in Handles, IsOpen(h), NEW op,
         fat' = fat, data' = data, handles' = handles, leaked' = leaked,
         call' = [BeginFile(op, h, 0) EXCEPT !.at = "flush"]
  PROVE  Goes
<1>1. PICK c, d, k, o, n, was, e, view :
        /\ c = BeginFile(op, h, 0) /\ d = [c EXCEPT !.at = "flush"]
        /\ k = handles[h].ent.firstCluster /\ o = handles[h].slot /\ n = handles[h].ent.size
        /\ was = In(data, o) /\ e = Resized(was, k, n) /\ view = Rest(handles)
  OBVIOUS
<1>2. Vol(own, pos, fat, data, view, 0, leaked) /\ HandlesOK(handles)
  BY <1>1, RestHolds, Parts DEF Working
<1>3. /\ o \in SlotSet /\ view[h] = Opened(o, k, n)
      /\ IsFile(data, o) /\ Live(data, o) /\ was.kind = "entry"
      /\ k # 0 => HeadOf(own, pos, o, k)
      /\ was.firstCluster \in {0, k}
      /\ Fits(own, pos, o, k, n)
      /\ \A j \in Handles : Opens(view, j, o) => j = h
  BY <1>1, <1>2, FileHeld DEF IsOpen
<1>4. EntOK(was)
  BY <1>1, <1>3, Parts, Tags, Zenon DEF Working, DataOK, CellsOK, CellOK, In
<1>5. /\ e.kind = "entry" /\ e.name = was.name /\ e.dir = was.dir
      /\ e.firstCluster = k /\ e.size = n
  BY <1>1, <1>4, ResizedIs
<1>6. Replaces(data, o, e)
  BY <1>1, <1>3, <1>5 DEF Replaces, Live
<1>7. PICK due : due = Put(data, o, e)
  OBVIOUS
<1>8. Vol(own, pos, fat, due, view, 0, leaked)
  <2>1. EntryHolds(own, pos, data, o, e)
    <3>1. EntryHolds(own, pos, data, o, was)
      BY <1>1, <1>2, <1>3 DEF Vol, EntriesHold
    <3>2. ~e.dir
      BY <1>1, <1>3, <1>5 DEF IsFile
    <3> QED
      BY <3>1, <3>2, <1>3, <1>5 DEF EntryHolds
  <2>2. In(data, o).firstCluster # 0 => e.firstCluster # 0
    BY <1>1, <1>3, <1>5
  <2>3. \A j \in Handles : Opens(view, j, o) => e.firstCluster \in {0, view[j].first}
    BY <1>3, <1>5, OpenedIs
  <2> QED
    BY <2>1, <2>2, <2>3, <1>2, <1>6, <1>7, ReplaceLabels
<1>9. d.at = "flush" /\ d.handle = h
  <2>1. Is(c, op, "idle", "idle", h, 0, 0, 0, Nowhere, NoEntry, NoEntry)
    BY <1>1, Begins, Zenon
  <2>2. CallForm(c) /\ c.handle = h
    BY <2>1 DEF Is
  <2> QED
    BY <2>2, <1>1 DEF CallForm, CallFields
<1>10. InView(d) = "flush" /\ Private(d) = 0
  BY <1>9 DEF InView, Private
<1>11. StageHolds(fat, data, handles, d)
  BY <1>1, <1>3, <1>9, <1>10 DEF StageHolds
<1>12. RequestHolds(own, pos, due, view, handles, d, "flush")
  BY <1>9 DEF RequestHolds
<1>13. Held(own, pos, fat, data, handles, d, leaked)
  <2>1. PICK f : f = view[d.handle]
    OBVIOUS
  <2>2. f.slot = o /\ f.first = k /\ f.size = n
    BY <2>1, <1>3, <1>9, OpenedIs
  <2>3. due = Put(data, f.slot, Resized(In(data, f.slot), f.first, f.size))
    BY <2>2, <1>1, <1>7
  <2>4. f = Rest(handles)[d.handle]
    BY <2>1, <1>1
  <2>5. /\ Vol(own, pos, fat, due, Rest(handles), Private(d), leaked)
        /\ RequestHolds(own, pos, due, Rest(handles), handles, d, "flush")
    BY <1>1, <1>8, <1>10, <1>12
  <2> QED
    BY <2>3, <2>4, <2>5, <1>10, <1>11, FlushHeld
<1>14. call' = d
  BY <1>1
<1> QED
  BY <1>13, <1>14 DEF Goes

(* A handle is closed: the chain is the entry's, or no one's.               *)
LEMMA CloseHolds ==
  ASSUME Working, NEW own, NEW pos, Holds(own, pos), NEW h \in Handles, close(h)
  PROVE  Goes
<1>0. /\ fat' = fat /\ data' = data /\ call = Idle /\ IsOpen(h) /\ handles[h] # Closed
  BY DEF close, Client, IsOpen
<1>1. CASE handles[h].dirty
  <2>1. /\ call' = [BeginFile("close", h, 0) EXCEPT !.at = "flush"]
        /\ handles' = handles /\ leaked' = leaked
    BY <1>1 DEF close
  <2> QED
    BY <2>1, <1>0, FlushCallHolds
<1>2. CASE ~handles[h].dirty
  <2>1. /\ handles' = [handles EXCEPT ![h] = Closed] /\ call' = Idle
        /\ leaked' = leaked \cup
             IF Recorded(h) THEN {} ELSE Chain(handles[h].ent.firstCluster)
    BY <1>0, <1>2 DEF close
  <2>2. PICK view, view2, new, leak2, o, k :
          /\ view = Rest(handles) /\ view2 = Rest(new) /\ new = handles' /\ leak2 = leaked'
          /\ o = handles[h].slot /\ k = handles[h].ent.firstCluster
    OBVIOUS
  <2>3. Vol(own, pos, fat, data, view, 0, leaked) /\ AtRest(own, pos, view) /\ HandlesOK(handles)
    BY <2>2, <1>0, RestHolds, Parts DEF Working
  <2>4. SetTo(handles, new, h, Closed)
    BY <2>1, <2>2, <2>3, HandleIsSet
  <2>5. \A j \in Handles : view2[j] = IF j = h THEN Closed ELSE view[j]
    BY <2>2, <2>4, RestSet
  <2>6. /\ view[h] = Opened(o, k, handles[h].ent.size) /\ In(data, o).kind = "entry"
        /\ Live(data, o) /\ o \notin {NoOwner, Lost, Mine}
        /\ k # 0 => HeadOf(own, pos, o, k)
        /\ In(data, o).firstCluster \in {0, k}
    BY <2>2, <2>3, <1>0, FileHeld
  <2>7. view[h] # Closed /\ view[h].slot = o /\ view[h].first = k
    BY <2>6, OpenedIs
  <2>8. Recorded(h) <=> In(data, o).firstCluster = k
    BY <2>2, <2>6 DEF Recorded, Cell, In
  <2>9. CASE In(data, o).firstCluster = k
    <3>1. leak2 = leaked
      BY <2>1, <2>2, <2>8, <2>9
    <3>2. Vol(own, pos, fat, data, view2, 0, leaked)
      BY <2>3, <2>5, <2>7, <2>9, CloseLabels
    <3>3. Held(own, pos, fat, data, new, Idle, leak2)
      BY <3>1, <3>2, <2>2, IdleHeld
    <3> QED
      BY <3>3, <2>1, <2>2, <1>0 DEF Goes
  <2>10. CASE In(data, o).firstCluster # k
    <3>1. k # 0 /\ HeadOf(own, pos, o, k)
      BY <2>6, <2>10
    <3>2. Chain(k) = {c \in Cluster : own[c] = o}
      <4>1. Labels(own, pos, fat) /\ EndsEverywhere(fat)
        BY <2>3, Parts DEF Working, Vol
      <4>2. o \notin {NoOwner, Lost}
        BY <2>6
      <4>3. ChainOf(fat, k) = {c \in Cluster : own[c] = o}
        BY <4>1, <4>2, <3>1, ChainIsOwned
      <4> QED
        BY <4>3, ChainsWalk
    <3>3. leak2 = leaked \cup Chain(k)
      BY <2>1, <2>2, <2>8, <2>10
    <3>4. \A c \in Cluster : c \in leak2 <=> c \in leaked \/ own[c] = o
      BY <3>2, <3>3
    <3>5. PICK own2 : Renamed(own, o, Lost, own2)
      BY Renames
    <3>6. Vol(own2, pos, fat, data, view2, 0, leak2)
      BY <3>4, <3>5, <2>3, <2>5, <2>7, <2>10, LeakLabels
    <3>7. Held(own2, pos, fat, data, new, Idle, leak2)
      BY <3>6, <2>2, IdleHeld
    <3> QED
      BY <3>7, <2>1, <2>2, <1>0 DEF Goes
  <2> QED
    BY <2>9, <2>10
<1> QED
  BY <1>1, <1>2

(* seek and read move the offset of a handle, and nothing else.             *)
LEMMA OffsetHolds ==
  ASSUME Working, NEW own, NEW pos, Holds(own, pos), call = Idle,
         NEW h \in Handles, IsOpen(h), NEW x, handles' = [handles EXCEPT ![h].offset = x],
         fat' = fat, data' = data, leaked' = leaked, call' = call
  PROVE  Goes
<1>1. PICK f, file : f = handles[h] /\ file = [f EXCEPT !.offset = x]
  BY Zenon
<1>2. HandlesOK(handles) /\ FileOK(f) /\ f # Closed
  BY <1>1, Parts DEF Working, HandlesOK, IsOpen
<1>3. file # Closed /\ file.slot = f.slot /\ file.ent = f.ent
  <2>1. \A y : FileIs([f EXCEPT !.offset = y], f.slot, f.ent, y, f.dirty)
    BY <1>2, FileBecomes, Zenon
  <2> QED
    BY <2>1, <1>1 DEF FileIs
<1>4. handles' = [handles EXCEPT ![h] = file]
  BY <1>1
<1>5. PICK new : new = handles'
  OBVIOUS
<1>6. SetTo(handles, new, h, file)
  BY <1>2, <1>4, <1>5, HandleIsSet
<1>7. \A j \in Handles : Rest(new)[j] = Rest(handles)[j]
  <2>1. \A j \in Handles : Rest(new)[j] =
          IF j # h THEN Rest(handles)[j]
          ELSE IF file = Closed THEN Closed
          ELSE Opened(file.slot, file.ent.firstCluster, file.ent.size)
    BY <1>6, RestSet
  <2>2. Rest(handles)[h] = Opened(f.slot, f.ent.firstCluster, f.ent.size)
    BY <1>1, <1>2 DEF Rest
  <2> QED
    BY <2>1, <2>2, <1>3
<1>8. Rest(new) = Rest(handles)
  BY <1>7 DEF Rest
<1>9. Vol(own, pos, fat, data, Rest(handles), 0, leaked)
  BY RestHolds
<1>10. Held(own, pos, fat, data, new, Idle, leaked)
  BY <1>8, <1>9, IdleHeld
<1> QED
  BY <1>10, <1>5 DEF Goes

(* Nothing on the volume changes, nor the call.                             *)
LEMMA AloneHolds ==
  ASSUME NEW own, NEW pos, Holds(own, pos),
         fat' = fat, data' = data, handles' = handles, call' = call, leaked' = leaked
  PROVE  Goes
  BY DEF Holds, Goes

(* The volume that there is at first: its root directory, and the one       *)
(* directory in it.                                                         *)
LEMMA LabelledAtFirst == Init => \E own, pos : Holds(own, pos)
<1> SUFFICES ASSUME Init PROVE \E own, pos : Holds(own, pos)
  OBVIOUS
<1>1. PICK dirs \in {<<>>} \cup DirPaths : Volume(dirs)
  BY DEF Init
<1>2. PICK n, name : n = Len(dirs) /\ name = dirs[1]
  OBVIOUS
<1>3. n \in 0 .. 1 /\ (n = 1 => name \notin Dots)
  <2>1. CASE dirs = <<>>
    BY <2>1, <1>2
  <2>2. CASE dirs \in DirPaths
    <3>1. Len(dirs) = 1 /\ 1 \in 1 .. Len(dirs)
      BY <2>2, VolumeAssumption
    <3> QED
      BY <3>1, <2>2, <1>2, NameAssumption DEF Dots
  <2> QED
    BY <2>1, <2>2, <1>1
<1>4. /\ totalClusters \in Nat /\ totalClusters >= 2 /\ ClusterSize \in Nat /\ ClusterSize >= 2
      /\ Cluster = 2 .. totalClusters + 1 /\ rootCluster = 2 /\ rootCluster \in Cluster
      /\ 3 \in Cluster /\ 1 \in 1 .. ClusterSize
  BY ClustersCounted, VolumeAssumption DEF Cluster, rootCluster
<1>5. \A c \in Cluster : fat[c] = IF c - 2 <= n THEN EndOfChain ELSE FreeCluster
  BY <1>1, <1>2 DEF Volume
<1>6. PICK e : e = Entry(name, TRUE, 3, 0)
  OBVIOUS
<1>7. /\ e.kind = "entry" /\ e.name = name /\ e.dir /\ e.firstCluster = 3 /\ e.size = 0
      /\ e # Zero /\ Zero.kind # "entry"
  BY <1>6 DEF Entry, Zero
<1>8. /\ \A i \in 1 .. ClusterSize : data[2][i] = IF i <= n THEN e ELSE Zero
      /\ n = 1 => data[3] = DotCells(3, 2)
      /\ \A c \in Cluster : c # 2 /\ ~(c = 3 /\ n = 1) => data[c] = ZeroCells
  <2>1. data = [c \in Cluster |->
           IF c = rootCluster
           THEN [i \in 1 .. ClusterSize |->
                   IF i <= n THEN Entry(dirs[i], TRUE, i + 2, 0) ELSE Zero]
           ELSE IF c - 2 <= n THEN DotCells(c, rootCluster)
           ELSE ZeroCells]
    BY <1>1, <1>2 DEF Volume
  <2>2. data[2] = [i \in 1 .. ClusterSize |->
                     IF i <= n THEN Entry(dirs[i], TRUE, i + 2, 0) ELSE Zero]
    BY <2>1, <1>4
  <2>3. \A i \in 1 .. ClusterSize : i <= n => i = 1 /\ i + 2 = 3
    BY <1>3, <1>4
  <2>4. \A i \in 1 .. ClusterSize : data[2][i] = IF i <= n THEN e ELSE Zero
    BY <2>2, <2>3, <1>2, <1>6
  <2>5. n = 1 => data[3] = DotCells(3, 2)
    BY <2>1, <1>4
  <2>6. \A c \in Cluster : c # 2 /\ ~(c = 3 /\ n = 1) => ~(c - 2 <= n)
    BY <1>3, <1>4
  <2> QED
    BY <2>1, <2>4, <2>5, <2>6, <1>4
<1>9. \A i \in 1 .. ClusterSize : ZeroCells[i] = Zero
  BY DEF ZeroCells
<1>10. PICK s : s = <<2, 1>>
  OBVIOUS
<1>11. s \in SlotSet /\ s \notin {Nowhere, Mine, Lost, NoOwner} /\ s[1] = 2 /\ s[2] = 1
       /\ Nowhere \notin {Mine, Lost, NoOwner} /\ NoOwner \notin {Mine, Lost}
  BY <1>4, <1>10 DEF SlotSet, Nowhere, Mine, Lost, NoOwner
<1>12. PICK own, pos :
         /\ \A c \in Cluster : own[c] = IF c = 2 THEN Nowhere
                                        ELSE IF c = 3 /\ n = 1 THEN s ELSE NoOwner
         /\ \A c \in Cluster : pos[c] = 0
  <2> DEFINE a == [c \in Cluster |-> IF c = 2 THEN Nowhere
                                     ELSE IF c = 3 /\ n = 1 THEN s ELSE NoOwner]
             b == [c \in Cluster |-> 0]
  <2>1. /\ \A c \in Cluster : a[c] = IF c = 2 THEN Nowhere
                                     ELSE IF c = 3 /\ n = 1 THEN s ELSE NoOwner
        /\ \A c \in Cluster : b[c] = 0
    OBVIOUS
  <2> HIDE DEF a, b
  <2> QED
    BY <2>1
<1>13. \A t : Live(data, t) <=> t = s /\ n = 1
  <2>1. ASSUME n = 1 PROVE Live(data, s)
    BY <2>1, <1>3, <1>4, <1>7, <1>8, <1>11 DEF Live, In
  <2>2. ASSUME NEW t, Live(data, t) PROVE t = s /\ n = 1
    <3>1. PICK c, i : c = t[1] /\ i = t[2] /\ t = <<c, i>> /\ c \in Cluster /\ i \in 1 .. ClusterSize
      BY <2>2 DEF Live, SlotSet
    <3>2. data[c][i].kind = "entry" /\ data[c][i].name \notin Dots
      BY <2>2, <3>1 DEF Live, In
    <3>3. c = 2 \/ (c = 3 /\ n = 1)
      BY <3>1, <3>2, <1>7, <1>8, <1>9
    <3>4. ~(c = 3 /\ n = 1)
      <4>1. \A j \in 1 .. ClusterSize :
              DotCells(3, 2)[j].kind = "entry" => DotCells(3, 2)[j].name \in Dots
        BY DotsAre
      <4> QED
        BY <4>1, <3>1, <3>2, <1>8
    <3>5. c = 2 /\ i <= n
      BY <3>1, <3>2, <3>3, <3>4, <1>7, <1>8
    <3> QED
      BY <3>1, <3>5, <1>3, <1>10
  <2> QED
    BY <2>1, <2>2
<1>14. In(data, s) = e \/ n # 1
  BY <1>4, <1>8, <1>11 DEF In
<1>15. /\ \A o : IsDirectory(data, o) <=> o = Nowhere \/ (o = s /\ n = 1)
       /\ \A o : ~IsFile(data, o)
  BY <1>7, <1>13, <1>14 DEF IsDirectory, IsFile
<1>16. Labels(own, pos, fat)
  <2>1. EndOfChain # FreeCluster
    BY DEF EndOfChain, FreeCluster
  <2>2. \A c \in Cluster : c - 2 <= n <=> c = 2 \/ (c = 3 /\ n = 1)
    BY <1>3, <1>4
  <2>3. \A c \in Cluster : own[c] = NoOwner <=> fat[c] = FreeCluster
    BY <2>1, <2>2, <1>5, <1>11, <1>12
  <2>4. \A c \in Cluster : own[c] # NoOwner => fat[c] = EndOfChain
    BY <2>2, <1>5, <1>12
  <2>5. \A c, d \in Cluster : own[c] # NoOwner /\ own[d] = own[c] => c = d
    BY <1>11, <1>12
  <2> QED
    BY <2>3, <2>4, <2>5, <1>12 DEF Labels
<1>17. PICK view : view = Rest(handles) /\ \A h \in Handles : view[h] = Closed
  BY DEF Init, Rest
<1>18. Names(own, pos, data, view, 0)
  <2>1. n = 1 => HasChain(data, view, 0, s)
    BY <1>7, <1>13, <1>14 DEF HasChain
  <2>2. HasChain(data, view, 0, Nowhere)
    BY DEF HasChain
  <2>3. HeadOf(own, pos, Nowhere, rootCluster)
    BY <1>4, <1>12 DEF HeadOf
  <2> QED
    BY <2>1, <2>2, <2>3, <1>12 DEF Names
<1>19. EntriesHold(own, pos, data)
  <2>1. ASSUME n = 1 PROVE EntryHolds(own, pos, data, s, e)
    <3>1. IsDirectory(data, own[s[1]]) /\ own[s[1]] = Nowhere
      BY <1>4, <1>11, <1>12, <1>15
    <3>2. HeadOf(own, pos, s, 3)
      BY <2>1, <1>4, <1>12 DEF HeadOf
    <3> QED
      BY <3>1, <3>2, <1>7 DEF EntryHolds, Fits
  <2> QED
    BY <2>1, <1>13, <1>14 DEF EntriesHold
<1>20. FilesHold(own, pos, data, view)
  BY <1>17 DEF FilesHold
<1>21. DirectoriesHold(own, pos, data)
  <2>1. ASSUME NEW c \in Cluster, IsDirectory(data, own[c])
        PROVE  c = 2 \/ (c = 3 /\ n = 1)
    BY <2>1, <1>11, <1>12, <1>15
  <2>2. ASSUME NEW c \in Cluster, c = 2 \/ (c = 3 /\ n = 1), NEW i \in 1 .. ClusterSize
        PROVE  /\ data[c][i] \in {Zero, Deleted} \/ data[c][i].kind = "entry"
               /\ data[c][i] = Zero => \A j \in 1 .. ClusterSize : i < j => data[c][j] = Zero
    <3>1. CASE c = 2
      <4>1. \A j \in 1 .. ClusterSize : i < j /\ j <= n => i <= n
        BY <1>3, <1>4
      <4> QED
        BY <4>1, <3>1, <1>7, <1>8
    <3>2. CASE c = 3 /\ n = 1
      <4>1. /\ DotCells(3, 2)[i] = Zero \/ DotCells(3, 2)[i].kind = "entry"
            /\ DotCells(3, 2)[i] = Zero =>
                 \A j \in 1 .. ClusterSize : i < j => DotCells(3, 2)[j] = Zero
        <5>1. PICK row : row = DotCells(3, 2)
          OBVIOUS
        <5>2. \A k \in 1 .. ClusterSize :
                /\ row[k].kind = "entry" => row[k].name \in Dots
                /\ row[k] = Zero \/ row[k].kind = "entry"
                /\ row[k] = Zero => \A j \in 1 .. ClusterSize : k < j => row[j] = Zero
          <6>1. \A x, q : \A k \in 1 .. ClusterSize :
                  /\ DotCells(x, q)[k].kind = "entry" => DotCells(x, q)[k].name \in Dots
                  /\ DotCells(x, q)[k] = Zero \/ DotCells(x, q)[k].kind = "entry"
                  /\ DotCells(x, q)[k] = Zero =>
                       \A j \in 1 .. ClusterSize : k < j => DotCells(x, q)[j] = Zero
            BY DotsAre
          <6> QED
            BY <6>1, <5>1
        <5> QED
          BY <5>1, <5>2
      <4> QED
        BY <4>1, <3>2, <1>8
    <3> QED
      BY <2>2, <3>1, <3>2
  <2>3. \A c, d \in Cluster : own[c] # NoOwner /\ own[d] = own[c] => c = d
    BY <1>11, <1>12
  <2>4. ASSUME NEW c \in Cluster, IsDirectory(data, own[c]), NEW i \in 1 .. ClusterSize,
               data[c][i] = Zero, NEW d \in Cluster, NEW j \in 1 .. ClusterSize,
               own[d] = own[c], Before(pos[c], i, pos[d], j)
        PROVE  data[d][j] = Zero
    <3>1. own[c] # NoOwner
      BY <2>4, <1>11, <1>15
    <3>2. d = c
      BY <3>1, <2>3, <2>4
    <3>3. i < j
      BY <2>4, <1>12 DEF Before
    <3> QED
      BY <3>2, <3>3, <2>1, <2>2, <2>4
  <2> QED
    BY <2>1, <2>2, <2>4 DEF DirectoriesHold
<1>22. UnitsHold(own, pos, data)
  BY <1>15 DEF UnitsHold
<1>23. LeaksHold(own, leaked)
  BY <1>11, <1>12 DEF LeaksHold, Init
<1>24. Vol(own, pos, fat, data, view, 0, leaked)
  BY <1>16, <1>18, <1>19, <1>20, <1>21, <1>22, <1>23 DEF Vol
<1>25. Held(own, pos, fat, data, handles, Idle, leaked)
  BY <1>17, <1>24, IdleHeld
<1>26. call = Idle
  BY DEF Init
<1> QED
  BY <1>25, <1>26 DEF Holds

(* Each step of a call, of which a disk that works takes no undo.           *)
LEMMA StepHolds ==
  ASSUME Working, NEW own, NEW pos, Holds(own, pos), Step
  PROVE  Goes
<1>1. InView(call) \notin {"undo", "rollback"}
  BY DEF Holds, Held, StageHolds
<1>2. ~AllocateUndo /\ ~RenameRollback
  BY <1>1 DEF AllocateUndo, RenameRollback, At, InView
<1>3. CASE AllocateClaim \/ zeroCluster \/ syncFSInfo \/ freeClusterChain \/ ExtendLink
  BY <1>3, ClaimHolds, ZeroHolds, SyncHolds, FreeHolds, LinkHolds
<1>4. CASE CreateDots \/ CreateEntry \/ OpenClear \/ OpenHandle
  BY <1>4, DotsHolds, EnterHolds, ClearHolds, OpenHolds
<1>5. CASE getClusterForOffset \/ setFirstCluster \/ WriteChunk \/ TruncateCut \/ TruncateAll
  BY <1>5, LocateHolds, FirstHolds, ChunkHolds, CutHolds, EmptiedHolds
<1>6. CASE flush \/ EraseEntry \/ RenameInPlace \/ RenameUpdate
  BY <1>6, FlushHolds, EraseHolds, InPlaceHolds, UpdateHolds
<1> QED
  BY <1>2, <1>3, <1>4, <1>5, <1>6 DEF Step

(* Whatever clients do, on a disk that works the labels hold.               *)
LEMMA LabelsHold ==
  ASSUME Working, NEW own, NEW pos, Holds(own, pos), [CarefulNext]_vars
  PROVE  Goes
<1> USE VolumeAssumption
<1>1. CASE Step
  BY <1>1, StepHolds
<1>2. ASSUME NEW p \in FilePaths, createFile(p) PROVE Goes
  <2>1. Create("createFile", p, FALSE)
    BY <1>2 DEF createFile
  <2> QED
    BY <2>1, CreateHolds
<1>3. ASSUME NEW p \in DirPaths, createDirectory(p) PROVE Goes
  <2>1. Create("createDirectory", p, TRUE) /\ Len(p) = 1
    BY <1>3 DEF createDirectory
  <2> QED
    BY <2>1, CreateHolds
<1>4. ASSUME NEW p \in FilePaths, NEW m \in SUBSET Modes, NEW h \in Handles, open(p, m, h)
      PROVE  Goes
  BY <1>4, OpenFoundHolds, OpenNewHolds
<1>5. ASSUME NEW p \in FilePaths \cup DirPaths, remove(p) PROVE Goes
  BY <1>5, RemoveHolds
<1>6. ASSUME NEW p \in FilePaths \cup DirPaths, NEW q \in FilePaths \cup DirPaths, rename(p, q)
      PROVE  Goes
  BY <1>6, RenameHolds
<1>7. ASSUME NEW h \in Handles, NEW n \in Marks, n # 0, write(h, n) PROVE Goes
  BY <1>7, WriteHolds
<1>8. ASSUME NEW h \in Handles, NEW n \in Marks, truncate(h, n) PROVE Goes
  BY <1>8, TruncateHolds
<1>9. ASSUME NEW h \in Handles, NEW n, seek(h, n) PROVE Goes
  <2>1. /\ call = Idle /\ IsOpen(h) /\ handles' = [handles EXCEPT ![h].offset = n]
        /\ fat' = fat /\ data' = data /\ leaked' = leaked /\ call' = call
    BY <1>9 DEF seek, Client
  <2> QED
    BY <2>1, OffsetHolds
<1>10. ASSUME NEW h \in Handles, NEW n, read(h, n) PROVE Goes
  <2>1. PICK k : handles' = [handles EXCEPT ![h].offset = @ + k]
    BY <1>10 DEF read
  <2>2. PICK x : x = handles[h].offset + k
    OBVIOUS
  <2>3. handles' = [handles EXCEPT ![h].offset = x]
    BY <2>1, <2>2
  <2>4. /\ call = Idle /\ IsOpen(h)
        /\ fat' = fat /\ data' = data /\ leaked' = leaked /\ call' = call
    BY <1>10 DEF read, Client
  <2> QED
    BY <2>3, <2>4, OffsetHolds
<1>11. ASSUME NEW h \in Handles, Flush(h) PROVE Goes
  <2>1. /\ call = Idle /\ IsOpen(h) /\ call' = [BeginFile("flush", h, 0) EXCEPT !.at = "flush"]
        /\ fat' = fat /\ data' = data /\ handles' = handles /\ leaked' = leaked
    BY <1>11 DEF Flush, Client
  <2> QED
    BY <2>1, FlushCallHolds
<1>12. ASSUME NEW h \in Handles, close(h) PROVE Goes
  BY <1>12, CloseHolds
<1>13. CASE mount \/ unmount \/ UNCHANGED vars
  BY <1>13, AloneHolds DEF mount, unmount, vars
<1>14. ~PowerLoss
  <2>1. faults \in 0 .. 0
    BY RangeParts DEF Working
  <2> QED
    BY <2>1 DEF PowerLoss, Working
<1> QED
  BY <1>1, <1>2, <1>3, <1>4, <1>5, <1>6, <1>7, <1>8, <1>9, <1>10, <1>11, <1>12, <1>13, <1>14
     DEF CarefulNext

-----------------------------------------------------------------------------
(* What the labels are for                                                  *)

(* The invariant of a disk that works: the volume can be labelled.          *)
LInv == \E own, pos : Holds(own, pos)

(* Between calls on a disk that works, no two files or directories share a  *)
(* cluster, every chain ends properly, no file is longer than its chain, and*)
(* no unit of another file or place shows up in a file or a directory: for  *)
(* every mix of creating, writing, truncating, removing and renaming that   *)
(* clients may choose, on a volume of any size, as long as they rename      *)
(* nothing to a path below a regular file, which rename does not refuse.    *)
THEOREM SoundBetweenCalls ==
  ASSUME MaxFaults = 0
  PROVE  CarefulSpec => []SoundAtRest
<1>1. Init => LInv
  BY LabelledAtFirst DEF LInv
<1>2. IInv /\ Ranges /\ LInv /\ [CarefulNext]_vars => LInv'
  <2> SUFFICES ASSUME IInv, Ranges, LInv, [CarefulNext]_vars PROVE LInv'
    OBVIOUS
  <2>1. PICK own, pos : Holds(own, pos)
    BY DEF LInv
  <2>2. Working
    BY DEF Working
  <2>3. Goes
    BY <2>1, <2>2, LabelsHold
  <2> QED
    BY <2>3 DEF Goes, LInv, Holds
<1>3. IInv /\ Ranges /\ LInv => SoundAtRest
  <2> SUFFICES ASSUME IInv, Ranges, LInv, call = Idle PROVE Sound /\ InPlace
    BY Types DEF SoundAtRest
  <2>1. PICK own, pos : Holds(own, pos)
    BY DEF LInv
  <2>2. AtRest(own, pos, Rest(handles)) /\ DataOK(data) /\ HandlesOK(handles)
    BY <2>1, RestHolds, Parts DEF Working
  <2> QED
    BY <2>2, LabelsMakeSound, LabelsMakeInPlace
<1>4. IInv /\ Ranges /\ [CarefulNext]_vars => IInv' /\ Ranges'
  <2>1. [CarefulNext]_vars => [Next]_vars
    BY DEF Next
  <2> QED
    BY <2>1, Inductive, InRange
<1> QED
  BY <1>1, <1>2, <1>3, <1>4, Initial, InitialRanges, PTL DEF CarefulSpec

-----------------------------------------------------------------------------
(* Counting the free clusters                                               *)

(* The number of free clusters of a table.                                  *)
FreeSet(g) == {c \in Cluster : g[c] = FreeCluster}

(* The number of them.                                                      *)
Free(g) == Cardinality(FreeSet(g))

(* It is a number.                                                          *)
LEMMA FreeIsNumber ==
  ASSUME NEW g
  PROVE  IsFiniteSet(FreeSet(g)) /\ Free(g) \in Nat
<1>1. IsFiniteSet(Cluster) /\ FreeSet(g) \in SUBSET Cluster
  BY ClustersCounted DEF FreeSet
<1>2. IsFiniteSet(FreeSet(g))
  BY <1>1, FS_Subset
<1> QED
  BY <1>2, FS_CardinalityType DEF Free

(* One entry of the table changes.                                          *)
LEMMA FreeChanges ==
  ASSUME NEW g, NEW c \in Cluster, NEW v, NEW h, Changed(g, c, v, h)
  PROVE  /\ g[c] = FreeCluster /\ v # FreeCluster => Free(h) = Free(g) - 1
         /\ g[c] # FreeCluster /\ v = FreeCluster => Free(h) = Free(g) + 1
         /\ g[c] # FreeCluster /\ v # FreeCluster => Free(h) = Free(g)
<1>1. IsFiniteSet(FreeSet(g))
  BY FreeIsNumber
<1>2. CASE g[c] = FreeCluster /\ v # FreeCluster
  <2>1. FreeSet(h) = FreeSet(g) \ {c} /\ c \in FreeSet(g)
    BY <1>2 DEF FreeSet, Changed
  <2> QED
    BY <2>1, <1>1, <1>2, FS_RemoveElement DEF Free
<1>3. CASE g[c] # FreeCluster /\ v = FreeCluster
  <2>1. FreeSet(h) = FreeSet(g) \cup {c} /\ c \notin FreeSet(g)
    BY <1>3 DEF FreeSet, Changed
  <2> QED
    BY <2>1, <1>1, <1>3, FS_AddElement DEF Free
<1>4. CASE g[c] # FreeCluster /\ v # FreeCluster
  <2>1. FreeSet(h) = FreeSet(g)
    BY <1>4 DEF FreeSet, Changed
  <2> QED
    BY <2>1, <1>4 DEF Free
<1> QED
  BY <1>2, <1>3, <1>4

(* A cluster that is claimed is taken off the count once it is cleared.     *)
Claimed(c) == IF c.at = "zero" THEN 1 ELSE 0

(* The counter in memory is right, and the one on disk while it is not      *)
(* mounted, or they are unknown.                                            *)
Counted(g, count, c) == count \in {Unknown, Free(g) + Claimed(c)}

(* The counter that is in use is right, but for what the call in progress   *)
(* has claimed.                                                             *)
CInv ==
  /\ mounted => Counted(fat, fsInfo.freeClusterCount, call)
  /\ ~mounted => call = Idle /\ Counted(fat, info.freeClusterCount, Idle)

(* Calls run on a mounted volume.                                           *)
LEMMA StepsAreMounted == ASSUME CInv, Step PROVE mounted /\ mounted' = mounted
<1>1. call.at # "idle"
  BY Zenon DEF Step, AllocateClaim, zeroCluster, AllocateUndo, syncFSInfo, freeClusterChain, ExtendLink,
         CreateDots, CreateEntry, OpenClear, OpenHandle, getClusterForOffset, setFirstCluster,
         WriteChunk, TruncateCut, TruncateAll, flush, EraseEntry, RenameInPlace, RenameUpdate,
         RenameRollback, At
<1>2. Idle.at = "idle"
  BY DEF Idle
<1>3. mounted' = mounted
  BY Zenon DEF Step, AllocateClaim, zeroCluster, AllocateUndo, syncFSInfo, freeClusterChain, ExtendLink,
         CreateDots, CreateEntry, OpenClear, OpenHandle, getClusterForOffset, setFirstCluster,
         WriteChunk, TruncateCut, TruncateAll, flush, EraseEntry, RenameInPlace, RenameUpdate,
         RenameRollback
<1> QED
  BY <1>1, <1>2, <1>3 DEF CInv

(* Only AllocateClaim leads to a cluster that is to be cleared.             *)
LEMMA NotClaimed ==
  ASSUME NEW c, CallForm(c), NEW label, label # "zero", NEW x
  PROVE  /\ Idle.at # "zero"
         /\ [c EXCEPT !.at = label].at # "zero"
         /\ Jump(c, label).at # "zero"
         /\ Freeing(c, x, label).at # "zero"
         /\ Allocating(c, x).at # "zero"
         /\ WithSlot(c, x).at # "zero"
         /\ Creating(c, x).at # "zero"
<1>1. Idle.at # "zero"
  BY DEF Idle
<1>2. [c EXCEPT !.at = label].at # "zero"
  BY DEF CallForm, CallFields
<1>3. Jump(c, label).at # "zero"
  BY <1>1, <1>2 DEF Jump
<1>4. Freeing(c, x, label).at # "zero"
  <2>1. [c EXCEPT !.at = "free", !.cluster = x, !.next = label].at # "zero"
    BY DEF CallForm, CallFields
  <2> QED
    BY <2>1, <1>3 DEF Freeing
<1>5. \A b, y : CallForm(b) => Allocating(b, y).at # "zero"
  BY DEF Allocating, CallForm, CallFields
<1>6. \A b, s : CallForm(b) => WithSlot(b, s).at # "zero"
  BY WithSlotIs
<1>7. Creating(c, x).at # "zero"
  <2>1. PICK b : b = [c EXCEPT !.head = x] /\ CallForm(b)
    BY DEF CallForm, CallFields
  <2> QED
    BY <2>1, <1>5, <1>6 DEF Creating
<1> QED
  BY <1>1, <1>2, <1>3, <1>4, <1>5, <1>6, <1>7

(* A step that neither takes nor frees a cluster.                           *)
LEMMA CountStays ==
  ASSUME CInv, mounted, mounted' = mounted, Free(fat') = Free(fat), fsInfo' = fsInfo,
         call.at # "zero", call'.at # "zero"
  PROVE  CInv'
<1>1. Claimed(call) = 0 /\ Claimed(call') = 0
  BY DEF Claimed
<1>2. Counted(fat, fsInfo.freeClusterCount, call)
  BY DEF CInv
<1>3. Counted(fat', fsInfo'.freeClusterCount, call')
  BY <1>1, <1>2 DEF Counted
<1>4. mounted'
  OBVIOUS
<1> QED
  BY <1>3, <1>4 DEF CInv

(* allocateCluster takes one, and takes it off the count.                   *)
LEMMA ClaimCounts ==
  ASSUME Working, CInv, mounted, AllocateClaim
  PROVE  CInv'
<1>0. call.at = "alloc" /\ fsInfo' = fsInfo /\ mounted' = mounted /\ CallForm(call)
  BY Parts, Zenon DEF AllocateClaim, At, Working
<1>1. CASE call' = Idle /\ fat' = fat
  <2>1. call.at # "zero" /\ call'.at # "zero" /\ Free(fat') = Free(fat)
    BY <1>0, <1>1 DEF Idle
  <2> QED
    BY <2>1, <1>0, CountStays
<1>2. ASSUME NEW c \in Cluster, NEW ok \in Outcomes, IsNextFree(c),
             writeFATEntry(c, EndOfChain, ok),
             call' = IF ok THEN [call EXCEPT !.at = "zero", !.cluster = c] ELSE Idle
      PROVE  CInv'
  <2>1. ok /\ Changed(fat, c, EndOfChain, fat') /\ fat[c] = FreeCluster
    BY <1>2, TableIsWritten DEF IsNextFree
  <2>2. EndOfChain # FreeCluster
    BY DEF EndOfChain, FreeCluster
  <2>3. Free(fat') = Free(fat) - 1 /\ Free(fat) \in Nat
    BY <2>1, <2>2, FreeChanges, FreeIsNumber
  <2>4. PICK d : d = call'
    OBVIOUS
  <2>5. d.at = "zero"
    BY <2>1, <2>4, <1>0, <1>2 DEF CallForm, CallFields
  <2>6. Claimed(call) = 0 /\ Claimed(call') = 1
    BY <2>4, <2>5, <1>0 DEF Claimed
  <2>7. Counted(fat, fsInfo.freeClusterCount, call)
    BY DEF CInv
  <2>8. Counted(fat', fsInfo'.freeClusterCount, call')
    BY <2>3, <2>6, <2>7, <1>0 DEF Counted
  <2>9. mounted'
    BY <1>0
  <2> QED
    BY <2>8, <2>9 DEF CInv
<1> QED
  BY <1>1, <1>2, Zenon DEF AllocateClaim

(* Once the cluster is cleared the count has it.                            *)
LEMMA ZeroCounts ==
  ASSUME Working, CInv, mounted, zeroCluster
  PROVE  CInv'
<1>0. call.at = "zero" /\ fat' = fat /\ mounted' = mounted /\ CallForm(call)
  BY Parts DEF zeroCluster, At, Working
<1>1. PICK n, f : n = fsInfo.freeClusterCount /\ f = Free(fat) /\ f \in Nat
  BY FreeIsNumber
<1>2. n \in {Unknown, f + 1}
  BY <1>0, <1>1 DEF CInv, Counted, Claimed
<1>3. fsInfo' = Taken(call.cluster) /\ call' = Goto("sync")
  BY NothingFails DEF zeroCluster
<1>4. fsInfo'.freeClusterCount = IF n > 0 THEN n - 1 ELSE n
  <2>1. \A c : Taken(c).freeClusterCount = IF n > 0 THEN n - 1 ELSE n
    BY <1>1 DEF Taken
  <2> QED
    BY <2>1, <1>3
<1>5. fsInfo'.freeClusterCount \in {Unknown, f}
  BY <1>1, <1>2, <1>4 DEF Unknown
<1>6. call'.at # "zero"
  BY <1>0, <1>3, NotClaimed DEF Goto
<1>7. Claimed(call') = 0
  BY <1>6 DEF Claimed
<1>8. Counted(fat', fsInfo'.freeClusterCount, call')
  BY <1>0, <1>1, <1>5, <1>7 DEF Counted
<1>9. mounted'
  BY <1>0
<1> QED
  BY <1>8, <1>9 DEF CInv

(* freeClusterChain adds each cluster that it frees.                        *)
LEMMA FreeCounts ==
  ASSUME Working, NEW own, NEW pos, Holds(own, pos), CInv, mounted, freeClusterChain
  PROVE  CInv'
<1>0. call.at = "free" /\ mounted' = mounted /\ CallForm(call) /\ FatOK(fat)
  BY Parts DEF freeClusterChain, At, Working
<1>1. PICK c, k, g : c = call.cluster /\ k = call.head /\ g = TableDue(fat, call)
  OBVIOUS
<1>2. PICK ok \in Outcomes :
        /\ writeFATEntry(c, FreeCluster, ok)
        /\ fsInfo' = IF ok /\ fsInfo.freeClusterCount # Unknown
                     THEN [fsInfo EXCEPT !.freeClusterCount = @ + 1]
                     ELSE fsInfo
        /\ call' = IF ~ok THEN Idle
                   ELSE IF fat[c] \in Cluster THEN [call EXCEPT !.cluster = fat[c]]
                   ELSE Goto("sync")
  BY <1>1 DEF freeClusterChain
<1>3. ok /\ Changed(fat, c, FreeCluster, fat')
  BY <1>2, TableIsWritten
<1>4. PICK view, due : view = View(handles, call) /\ due = CellsDue(data, view, call)
  OBVIOUS
<1>5. /\ Vol(own, pos, g, due, view, Private(call), leaked)
      /\ StageHolds(fat, data, handles, call)
      /\ RequestHolds(own, pos, due, view, handles, call, InView(call))
  BY <1>1, <1>4 DEF Holds, Held
<1>6. c \in Cluster /\ Private(call) = c /\ own[c] = Mine
  <2>1. Private(call) = c
    BY <1>0, <1>1 DEF Private
  <2>2. c \in Cluster
    BY <2>1, <1>0, <1>5 DEF StageHolds
  <2> QED
    BY <2>1, <2>2, <1>5, ClustersCounted DEF Vol, Names, HeadOf
<1>7. g[c] # FreeCluster
  BY <1>5, <1>6, Tags DEF Vol, Labels
<1>8. fat[c] # FreeCluster
  <2>1. CASE InView(call) # "cut"
    BY <2>1, <1>1, <1>7 DEF TableDue
  <2>2. CASE InView(call) = "cut"
    <3>1. fat[k] # FreeCluster
      BY <2>2, <1>1, <1>5 DEF StageHolds
    <3>2. g = [fat EXCEPT ![k] = EndOfChain]
      BY <2>2, <1>1 DEF TableDue
    <3>3. c # k => g[c] = fat[c]
      BY <3>2, <1>0, <1>6 DEF FatOK
    <3> QED
      BY <3>1, <3>3, <1>7
  <2> QED
    BY <2>1, <2>2
<1>9. Free(fat') = Free(fat) + 1 /\ Free(fat) \in Nat
  BY <1>3, <1>6, <1>8, FreeChanges, FreeIsNumber
<1>10. Counted(fat, fsInfo.freeClusterCount, call) /\ Claimed(call) = 0
  BY <1>0 DEF CInv, Claimed
<1>11. call'.at # "zero"
  <2>1. [call EXCEPT !.cluster = fat[c]].at = call.at
    BY <1>0 DEF CallForm, CallFields
  <2>2. Goto("sync").at # "zero" /\ Idle.at # "zero"
    BY <1>0, NotClaimed DEF Goto
  <2> QED
    BY <2>1, <2>2, <1>0, <1>2
<1>12. fsInfo'.freeClusterCount =
         IF fsInfo.freeClusterCount # Unknown THEN fsInfo.freeClusterCount + 1 ELSE Unknown
  BY <1>2, <1>3, RangeParts DEF Working, CountersOK
<1>13. Counted(fat', fsInfo'.freeClusterCount, call')
  BY <1>9, <1>10, <1>11, <1>12 DEF Counted, Claimed
<1>14. mounted'
  BY <1>0
<1> QED
  BY <1>13, <1>14 DEF CInv

(* The steps that change an entry of the table which is not free.           *)
LEMMA LinkCounts ==
  ASSUME Working, CInv, mounted, ExtendLink
  PROVE  CInv'
<1>0. /\ call.at = "link" /\ mounted' = mounted /\ fsInfo' = fsInfo /\ CallForm(call)
      /\ call.cluster \in Cluster /\ call.head \in Cluster
      /\ Walk(fat, call.head, totalClusters) = EndOfChain
  BY Parts DEF ExtendLink, At, Working, Allocated, Linkable, InView
<1>1. PICK e, m, k : e = LastOf(call.head) /\ m = call.cluster /\ k = call.head
  OBVIOUS
<1>2. PICK ok \in Outcomes :
        /\ writeFATEntry(e, m, ok)
        /\ call' = IF ~ok THEN Idle
                   ELSE IF call.op \in {"write", "truncate"} THEN Goto("locate")
                   ELSE WithSlot(call, <<m, 1>>)
  BY <1>1 DEF ExtendLink
<1>3. ok /\ Changed(fat, e, m, fat')
  BY <1>2, TableIsWritten
<1>4. e \in Cluster /\ fat[e] = EndOfChain
  <2>1. EndOfChain \notin Cluster
    BY ClustersCounted DEF EndOfChain
  <2>2. \E n \in 0 .. totalClusters - 1 :
          Walk(fat, k, n) \in Cluster /\ fat[Walk(fat, k, n)] = EndOfChain
    BY <2>1, <1>0, <1>1, LastExists
  <2>3. \E d \in Chain(k) : fat[d] = EndOfChain
    BY <2>2, ChainsWalk DEF ChainOf
  <2>4. e \in Chain(k) /\ fat[e] = EndOfChain
    BY <2>3, <1>1 DEF LastOf
  <2> QED
    BY <2>4 DEF Chain
<1>5. Free(fat') = Free(fat)
  <2>1. EndOfChain # FreeCluster /\ m # FreeCluster
    BY <1>0, <1>1, ClustersCounted DEF EndOfChain, FreeCluster
  <2> QED
    BY <2>1, <1>3, <1>4, FreeChanges
<1>6. call.at # "zero" /\ call'.at # "zero"
  BY <1>0, <1>2, NotClaimed DEF Goto
<1> QED
  BY <1>0, <1>5, <1>6, CountStays

(* A chain is cut at a cluster that is not free.                            *)
LEMMA CutCounts ==
  ASSUME Working, NEW own, NEW pos, Holds(own, pos), CInv, mounted, TruncateCut
  PROVE  CInv'
<1>0. call.at = "cut" /\ mounted' = mounted /\ fsInfo' = fsInfo /\ CallForm(call)
  BY Parts DEF TruncateCut, At, Working
<1>1. PICK k : k = call.head
  OBVIOUS
<1>2. InView(call) = "cut"
  BY <1>0 DEF InView
<1>3. fat[k] # FreeCluster /\ k \in Cluster
  BY <1>1, <1>2 DEF Holds, Held, StageHolds, RequestHolds
<1>4. PICK ok \in Outcomes : writeFATEntry(k, EndOfChain, ok) /\ call' = GotoIf(ok, "flush")
  BY <1>1 DEF TruncateCut
<1>5. ok /\ Changed(fat, k, EndOfChain, fat')
  BY <1>4, TableIsWritten
<1>6. Free(fat') = Free(fat)
  <2>1. EndOfChain # FreeCluster
    BY DEF EndOfChain, FreeCluster
  <2> QED
    BY <2>1, <1>3, <1>5, FreeChanges
<1>7. call.at # "zero" /\ call'.at # "zero"
  BY <1>0, <1>4, NotClaimed DEF Goto, GotoIf
<1> QED
  BY <1>0, <1>6, <1>7, CountStays

(* The other steps leave the table alone, and lead to no cluster that is to *)
(* be cleared.                                                              *)
LEMMA OthersCount ==
  ASSUME Working, NEW own, NEW pos, Holds(own, pos), CInv, mounted,
         \/ syncFSInfo \/ CreateDots \/ CreateEntry \/ OpenClear \/ OpenHandle
         \/ getClusterForOffset \/ setFirstCluster \/ WriteChunk \/ TruncateAll \/ flush
         \/ EraseEntry \/ RenameInPlace \/ RenameUpdate
  PROVE  CInv'
<1>0. /\ fat' = fat /\ fsInfo' = fsInfo /\ mounted' = mounted /\ call.at # "zero"
  BY DEF syncFSInfo, CreateDots, CreateEntry, OpenClear, OpenHandle, getClusterForOffset,
         setFirstCluster, WriteChunk, TruncateAll, flush, EraseEntry, RenameInPlace, RenameUpdate, At
<1>1. CallForm(call)
  BY Parts DEF Working
<1>3. Idle.at # "zero"
  BY DEF Idle
<1>4. \A label : label # "zero" => Goto(label).at # "zero"
  BY <1>1, NotClaimed DEF Goto
<1>5. \A x : Freeing(call, x, "idle").at # "zero"
  BY <1>1, NotClaimed
<1>2. call'.at # "zero"
  <2>1. CASE syncFSInfo
    <3>1. call.next # "zero" /\ call' = Goto(call.next)
      BY <2>1 DEF syncFSInfo, At, Holds, Held, StageHolds
    <3> QED
      BY <3>1, <1>4
  <2>2. CASE CreateDots
    <3>1. PICK x : x = call.cluster
      OBVIOUS
    <3>2. \/ call' = [call EXCEPT !.at = "entry", !.ent.firstCluster = x]
          \/ call' = Freeing(call, x, "idle")
      BY <2>2, <3>1 DEF CreateDots
    <3>3. [call EXCEPT !.at = "entry", !.ent.firstCluster = x].at # "zero"
      BY <1>1 DEF CallForm, CallFields
    <3> QED
      BY <3>2, <3>3, <1>5
  <2>3. CASE CreateEntry
    <3>1. Entered # "zero"
      BY DEF Entered
    <3>2. call' = Goto(Entered) \/ call' = Idle \/ \E x : call' = Freeing(call, x, "idle")
      BY <2>3 DEF CreateEntry
    <3> QED
      BY <3>1, <3>2, <1>3, <1>4, <1>5
  <2>4. CASE OpenClear \/ setFirstCluster \/ TruncateAll \/ RenameUpdate
    <3>1. \/ call' = Idle
          \/ \E label \in {"opened", "locate", "flush", "erase"} : call' = Goto(label)
      BY <2>4 DEF OpenClear, setFirstCluster, TruncateAll, RenameUpdate, GotoIf
    <3> QED
      BY <3>1, <1>3, <1>4
  <2>5. CASE OpenHandle \/ flush \/ RenameInPlace
    BY <2>5, <1>3 DEF OpenHandle, flush, RenameInPlace
  <2>6. CASE getClusterForOffset
    <3>1. PICK x, y : x = File.ent.firstCluster /\ y = Nth(x, Wanted \div ClusterSize)
      OBVIOUS
    <3>2. call' = IF x = 0 THEN Allocating(call, "first")
                  ELSE IF y \in Cluster THEN Located(y)
                  ELSE IF y = EndOfChain THEN Allocating([call EXCEPT !.head = x], "link")
                  ELSE Idle
      BY <2>6, <3>1 DEF getClusterForOffset
    <3>3. PICK b : b = [call EXCEPT !.head = y] /\ CallForm(b)
      BY <1>1 DEF CallForm, CallFields
    <3>4. PICK d : d = [call EXCEPT !.head = x] /\ CallForm(d)
      BY <1>1 DEF CallForm, CallFields
    <3>5. [call EXCEPT !.at = "chunk", !.cluster = y].at # "zero"
      BY <1>1 DEF CallForm, CallFields
    <3>6. \A z : Freeing(b, z, "cut").at # "zero"
      BY <3>3, NotClaimed
    <3>7. Located(y).at # "zero"
      BY <3>3, <3>5, <3>6 DEF Located
    <3>8. \A c, next : CallForm(c) => Allocating(c, next).at # "zero"
      BY DEF Allocating, CallForm, CallFields
    <3> QED
      BY <3>2, <3>4, <3>7, <3>8, <1>1, <1>3
  <2>7. CASE WriteChunk
    <3>1. call' = Idle \/ call' = [call EXCEPT !.at = "locate", !.n = @ - Chunk]
      BY <2>7 DEF WriteChunk
    <3>2. \A n : [call EXCEPT !.at = "locate", !.n = n].at # "zero"
      BY <1>1 DEF CallForm, CallFields
    <3>3. Idle.at # "zero"
      BY DEF Idle
    <3> QED
      BY <3>1, <3>2, <3>3
  <2>8. CASE EraseEntry
    <3>1. \/ call' = Idle \/ call' = Goto("idle") \/ call' = Goto("rollback")
          \/ \E x : call' = Freeing(call, x, "idle")
      BY <2>8 DEF EraseEntry
    <3> QED
      BY <3>1, <1>3, <1>4, <1>5
  <2> QED
    BY <2>1, <2>2, <2>3, <2>4, <2>5, <2>6, <2>7, <2>8
<1> QED
  BY <1>0, <1>2, CountStays

(* Each step of a call.                                                     *)
LEMMA StepCounts ==
  ASSUME Working, NEW own, NEW pos, Holds(own, pos), CInv, Step
  PROVE  CInv'
<1>1. mounted
  BY StepsAreMounted
<1>2. InView(call) \notin {"undo", "rollback"}
  BY DEF Holds, Held, StageHolds
<1>3. ~AllocateUndo /\ ~RenameRollback
  BY <1>2 DEF AllocateUndo, RenameRollback, At, InView
<1>4. CASE AllocateClaim
  BY <1>1, <1>4, ClaimCounts
<1>5. CASE zeroCluster
  BY <1>1, <1>5, ZeroCounts
<1>6. CASE freeClusterChain
  BY <1>1, <1>6, FreeCounts
<1>7. CASE ExtendLink
  BY <1>1, <1>7, LinkCounts
<1>8. CASE TruncateCut
  BY <1>1, <1>8, CutCounts
<1>9. CASE \/ syncFSInfo \/ CreateDots \/ CreateEntry \/ OpenClear \/ OpenHandle
           \/ getClusterForOffset \/ setFirstCluster \/ WriteChunk \/ TruncateAll \/ flush
           \/ EraseEntry \/ RenameInPlace \/ RenameUpdate
  BY <1>1, <1>9, OthersCount
<1> QED
  BY <1>3, <1>4, <1>5, <1>6, <1>7, <1>8, <1>9 DEF Step

(* A call begins, or is over at once.                                       *)
LEMMA BegunCounts ==
  ASSUME CInv, mounted, mounted' = mounted, call = Idle, fat' = fat, fsInfo' = fsInfo,
         call'.at # "zero"
  PROVE  CInv'
<1>1. call.at # "zero" /\ Free(fat') = Free(fat)
  BY DEF Idle
<1> QED
  BY <1>1, CountStays

(* The calls that begin with a request, by the forms that they begin with.  *)
LEMMA CallsCount ==
  ASSUME CInv,
         \/ \E op, p, dir : Create(op, p, dir)
         \/ \E p, m, h : open(p, m, h)
         \/ \E p : remove(p)
         \/ \E p, q : rename(p, q)
         \/ \E h, n : write(h, n) \/ read(h, n) \/ truncate(h, n) \/ seek(h, n)
         \/ \E h : Flush(h) \/ close(h)
  PROVE  CInv'
<1>0. /\ mounted /\ mounted' = mounted /\ call = Idle /\ fat' = fat /\ fsInfo' = fsInfo
  BY Zenon DEF Create, open, remove, rename, write, read, truncate, seek, Flush, close, Client
<1>1. Idle.at # "zero"
  BY DEF Idle
<1>2. \A c, k : CallForm(c) => Creating(c, k).at # "zero"
  <2> TAKE c, k
  <2>1. CallForm(c) => Creating(c, k).at # "zero"
    BY NotClaimed
  <2> QED
    BY <2>1
<1>3. \A c, label : CallForm(c) /\ label # "zero" => [c EXCEPT !.at = label].at # "zero"
  BY DEF CallForm, CallFields
<1>4. \A c, k, label : CallForm(c) /\ label # "zero" => Freeing(c, k, label).at # "zero"
  <2> TAKE c, k, label
  <2>1. CallForm(c) /\ label # "zero" => Freeing(c, k, label).at # "zero"
    BY NotClaimed
  <2> QED
    BY <2>1
<1>5. \A op, h, n : CallForm(BeginFile(op, h, n))
  BY Begins, Zenon DEF Is
<1>6. call'.at # "zero"
  <2>1. ASSUME NEW op, NEW p, NEW dir, Create(op, p, dir) PROVE call'.at # "zero"
    <3>1. PICK e, k : call' = Creating([Begin(op) EXCEPT !.ent = e], k)
      BY <2>1, Zenon DEF Create
    <3>2. CallForm([Begin(op) EXCEPT !.ent = e])
      <4>1. Is([Begin(op) EXCEPT !.ent = e],
               op, "idle", "idle", 0, 0, 0, 0, Nowhere, e, NoEntry)
        BY Begins, Zenon
      <4> QED
        BY <4>1 DEF Is
    <3> QED
      BY <3>1, <3>2, <1>2
  <2>2. ASSUME NEW p, NEW m, NEW h, open(p, m, h) PROVE call'.at # "zero"
    <3>1. PICK s : s = findEntry(p)
      OBVIOUS
    <3>10. PICK c : c = [Begin("open") EXCEPT !.handle = h, !.mode = m, !.slot = s]
      OBVIOUS
    <3>2. CallForm(c)
      <4>1. Is([Begin("open") EXCEPT !.handle = h, !.mode = m, !.slot = s],
               "open", "idle", "idle", h, 0, 0, 0, s, NoEntry, NoEntry)
        BY Begins, Zenon
      <4> QED
        BY <4>1, <3>10 DEF Is
    <3>3. \/ \E k : call' = Freeing(c, k, "clear")
          \/ call' = [c EXCEPT !.at = "opened"]
          \/ \E e, k : call' = Creating([c EXCEPT !.ent = e], k)
      BY <2>2, <3>1, <3>10, Zenon DEF open
    <3>4. \A e : CallForm([c EXCEPT !.ent = e])
      BY <3>2 DEF CallForm, CallFields
    <3> QED
      BY <3>2, <3>3, <3>4, <1>2, <1>3, <1>4
  <2>3. ASSUME NEW p, remove(p) PROVE call'.at # "zero"
    <3>1. PICK s : call' = [Begin("remove") EXCEPT !.at = "erase", !.slot = s]
      BY <2>3, Zenon DEF remove
    <3>2. [Begin("remove") EXCEPT !.at = "erase", !.slot = s].at = "erase"
      <4>1. Is([Begin("remove") EXCEPT !.at = "erase", !.slot = s],
               "remove", "erase", "idle", 0, 0, 0, 0, s, NoEntry, NoEntry)
        BY Begins, Zenon
      <4> QED
        BY <4>1 DEF Is
    <3> QED
      BY <3>1, <3>2
  <2>4. ASSUME NEW p, NEW q, rename(p, q) PROVE call'.at # "zero"
    <3>1. \/ \E s, e : call' = [Begin("rename") EXCEPT !.at = "rename", !.slot = s, !.ent = e]
          \/ \E s, w, e, k :
               call' = Creating([Begin("rename") EXCEPT !.old = s, !.was = w, !.ent = e], k)
      BY <2>4, Zenon DEF rename
    <3>2. \A s, e : [Begin("rename") EXCEPT !.at = "rename", !.slot = s, !.ent = e].at = "rename"
      <4> TAKE s, e
      <4>1. Is([Begin("rename") EXCEPT !.at = "rename", !.slot = s, !.ent = e],
               "rename", "rename", "idle", 0, 0, 0, 0, s, e, NoEntry)
        BY Begins, Zenon
      <4> QED
        BY <4>1 DEF Is
    <3>3. \A s, w, e : CallForm([Begin("rename") EXCEPT !.old = s, !.was = w, !.ent = e])
      <4> TAKE s, w, e
      <4>1. Is([Begin("rename") EXCEPT !.old = s, !.was = w, !.ent = e],
               "rename", "idle", "idle", 0, 0, 0, 0, Nowhere, e, w)
        BY Begins, Zenon
      <4> QED
        BY <4>1 DEF Is
    <3>4. CASE \E s, e : call' = [Begin("rename") EXCEPT !.at = "rename", !.slot = s, !.ent = e]
      <4>1. PICK s, e : call' = [Begin("rename") EXCEPT !.at = "rename", !.slot = s, !.ent = e]
        BY <3>4, Zenon
      <4>2. [Begin("rename") EXCEPT !.at = "rename", !.slot = s, !.ent = e].at = "rename"
        BY <3>2
      <4> QED
        BY <4>1, <4>2
    <3>5. CASE \E s, w, e, k :
                 call' = Creating([Begin("rename") EXCEPT !.old = s, !.was = w, !.ent = e], k)
      <4>1. PICK s, w, e, k :
              call' = Creating([Begin("rename") EXCEPT !.old = s, !.was = w, !.ent = e], k)
        BY <3>5, Zenon
      <4>2. PICK d : d = [Begin("rename") EXCEPT !.old = s, !.was = w, !.ent = e]
        OBVIOUS
      <4>3. CallForm(d)
        BY <3>3, <4>2, Zenon
      <4> QED
        BY <4>1, <4>2, <4>3, <1>2
    <3> QED
      BY <3>1, <3>4, <3>5, Zenon
  <2>5. ASSUME NEW h, NEW n, write(h, n) \/ truncate(h, n) PROVE call'.at # "zero"
    <3>1. \E op : \/ call' = [BeginFile(op, h, n) EXCEPT !.at = "locate"]
                  \/ \E k : call' = Freeing(BeginFile(op, h, n), k, "emptied")
      BY <2>5 DEF write, truncate
    <3> QED
      BY <3>1, <1>3, <1>4, <1>5
  <2>6. ASSUME NEW h, NEW n, read(h, n) \/ seek(h, n) PROVE call'.at # "zero"
    BY <2>6, <1>0, <1>1 DEF read, seek
  <2>7. ASSUME NEW h, Flush(h) \/ close(h) PROVE call'.at # "zero"
    <3>1. call' = Idle \/ \E op : call' = [BeginFile(op, h, 0) EXCEPT !.at = "flush"]
      BY <2>7, <1>0 DEF Flush, close
    <3> QED
      BY <3>1, <1>1, <1>3, <1>5
  <2> QED
    BY <2>1, <2>2, <2>3, <2>4, <2>5, <2>6, <2>7
<1> QED
  BY <1>0, <1>6, BegunCounts

(* The counter is right after every step, on a disk that works.             *)
LEMMA CountsHold ==
  ASSUME Working, NEW own, NEW pos, Holds(own, pos), CInv, [CarefulNext]_vars
  PROVE  CInv'
<1>0. Claimed(Idle) = 0
  BY DEF Claimed, Idle
<1>1. CASE Step
  BY <1>1, StepCounts
<1>2. CASE (\E p \in FilePaths : createFile(p)) \/ (\E p \in DirPaths : createDirectory(p))
  <2>1. \E op, p, dir : Create(op, p, dir)
    BY <1>2 DEF createFile, createDirectory
  <2> QED
    BY <2>1, CallsCount
<1>3. CASE \E p \in FilePaths, m \in SUBSET Modes, h \in Handles : open(p, m, h)
  <2>1. \E p, m, h : open(p, m, h)
    BY <1>3
  <2> QED
    BY <2>1, CallsCount
<1>4. CASE \E p \in FilePaths \cup DirPaths : remove(p)
  <2>1. \E p : remove(p)
    BY <1>4
  <2> QED
    BY <2>1, CallsCount
<1>5. CASE (\E p, q \in FilePaths : rename(p, q)) \/ (\E p, q \in DirPaths : rename(p, q))
  <2>1. \E p, q : rename(p, q)
    BY <1>5
  <2> QED
    BY <2>1, CallsCount
<1>6. CASE \/ \E h \in Handles, n \in Marks \ {0} : write(h, n) \/ read(h, n)
           \/ \E h \in Handles, n \in Marks : truncate(h, n) \/ seek(h, n)
  <2>1. \E h, n : write(h, n) \/ read(h, n) \/ truncate(h, n) \/ seek(h, n)
    BY <1>6
  <2> QED
    BY <2>1, CallsCount
<1>7. CASE \E h \in Handles : Flush(h) \/ close(h)
  <2>1. \E h : Flush(h) \/ close(h)
    BY <1>7
  <2> QED
    BY <2>1, CallsCount
<1>8. CASE mount
  <2>1. PICK ok \in Outcomes : fsInfo' = IF ok THEN info ELSE NoInfo
    BY <1>8 DEF mount
  <2>2. fsInfo' = info
    BY <2>1, NothingFails
  <2>3. /\ ~mounted /\ mounted' = TRUE /\ fat' = fat /\ call' = call
    BY <1>8 DEF mount
  <2>4. call = Idle /\ Counted(fat, info.freeClusterCount, Idle)
    BY <2>3 DEF CInv
  <2> QED
    BY <2>2, <2>3, <2>4 DEF CInv
<1>9. CASE unmount
  <2>1. PICK ok \in Outcomes : info' \in IF ok THEN {fsInfo} ELSE {info, fsInfo}
    BY <1>9 DEF unmount, writeInfo
  <2>2. info' = fsInfo
    BY <2>1, NothingFails
  <2>3. call = Idle /\ mounted /\ mounted' = FALSE /\ fat' = fat /\ call' = call
    BY <1>9 DEF unmount, Client
  <2>4. Counted(fat, fsInfo.freeClusterCount, Idle)
    BY <2>3 DEF CInv
  <2> QED
    BY <2>2, <2>3, <2>4 DEF CInv
<1>10. CASE UNCHANGED vars
  BY <1>10 DEF vars, CInv, Counted, Free, FreeSet
<1>11. ~PowerLoss
  <2>1. faults \in 0 .. 0
    BY RangeParts DEF Working
  <2> QED
    BY <2>1 DEF PowerLoss, Working
<1> QED
  BY <1>1, <1>2, <1>3, <1>4, <1>5, <1>6, <1>7, <1>8, <1>9, <1>10, <1>11 DEF CarefulNext

(* A volume that was just made counts its clusters.                         *)
LEMMA CountedAtFirst == Init => CInv
<1> SUFFICES ASSUME Init PROVE CInv
  OBVIOUS
<1>1. PICK dirs \in {<<>>} \cup DirPaths : Volume(dirs)
  BY DEF Init
<1>2. PICK n : n = Len(dirs)
  OBVIOUS
<1>3. n \in 0 .. 1
  <2>1. CASE dirs = <<>>
    <3>1. Len(<<>>) = 0
      OBVIOUS
    <3> QED
      BY <2>1, <3>1, <1>2
  <2>2. CASE dirs \in DirPaths
    <3>1. Len(dirs) = 1
      BY <2>2, VolumeAssumption
    <3> QED
      BY <3>1, <1>2
  <2> QED
    BY <2>1, <2>2, <1>1
<1>4. totalClusters \in Nat /\ totalClusters >= 2 /\ Cluster = 2 .. totalClusters + 1
  BY ClustersCounted, VolumeAssumption DEF Cluster
<1>5. \A c \in Cluster : fat[c] = IF c - 2 <= n THEN EndOfChain ELSE FreeCluster
  BY <1>1, <1>2 DEF Volume
<1>6. EndOfChain # FreeCluster
  BY DEF EndOfChain, FreeCluster
<1>7. FreeSet(fat) = (n + 3) .. (totalClusters + 1)
  <2>1. \A c \in Cluster : fat[c] = FreeCluster <=> c >= n + 3
    BY <1>3, <1>4, <1>5, <1>6
  <2> QED
    BY <2>1, <1>3, <1>4 DEF FreeSet
<1>8. Free(fat) = totalClusters - 1 - n
  <2>1. n + 3 \in Int /\ totalClusters + 1 \in Int
    BY <1>3, <1>4
  <2>2. Cardinality((n + 3) .. (totalClusters + 1)) =
          IF n + 3 > totalClusters + 1 THEN 0 ELSE (totalClusters + 1) - (n + 3) + 1
    BY <2>1, FS_Interval
  <2> QED
    BY <2>2, <1>3, <1>4, <1>7 DEF Free
<1>9. info.freeClusterCount = totalClusters - 1 - n
  BY <1>1, <1>2 DEF Volume
<1>10. Claimed(Idle) = 0
  BY DEF Claimed, Idle
<1>11. Counted(fat, info.freeClusterCount, Idle)
  BY <1>3, <1>4, <1>8, <1>9, <1>10 DEF Counted
<1>12. mounted = FALSE /\ call = Idle
  BY DEF Init
<1> QED
  BY <1>11, <1>12 DEF CInv

(* Between calls on a disk that works every cluster is free, in the chain   *)
(* of a file or directory, or was left behind by a truncate without space;  *)
(* and the counter of free clusters is right, or unknown: no call loses a   *)
(* cluster, hands one out twice, or counts one twice, as long as nothing is *)
(* renamed below a regular file.                                            *)
THEOREM AccountedBetweenCalls ==
  ASSUME MaxFaults = 0
  PROVE  CarefulSpec => []ClustersAccounted
<1>1. Init => LInv /\ CInv
  BY LabelledAtFirst, CountedAtFirst DEF LInv
<1>2. IInv /\ Ranges /\ LInv /\ CInv /\ [CarefulNext]_vars => LInv' /\ CInv'
  <2> SUFFICES ASSUME IInv, Ranges, LInv, CInv, [CarefulNext]_vars PROVE LInv' /\ CInv'
    OBVIOUS
  <2>1. PICK own, pos : Holds(own, pos)
    BY DEF LInv
  <2>2. Working
    BY DEF Working
  <2>3. Goes
    BY <2>1, <2>2, LabelsHold
  <2>4. LInv'
    BY <2>3 DEF Goes, LInv, Holds
  <2>5. CInv'
    BY <2>1, <2>2, CountsHold
  <2> QED
    BY <2>4, <2>5
<1>3. IInv /\ Ranges /\ LInv /\ CInv => ClustersAccounted
  <2> SUFFICES ASSUME IInv, Ranges, LInv, CInv, call = Idle
               PROVE  /\ {c \in Cluster : fat[c] # FreeCluster} =
                           leaked \cup UNION {Owned(s) : s \in Entries \cup {Nowhere}}
                      /\ mounted => fsInfo.freeClusterCount \in
                           {Unknown, Cardinality({c \in Cluster : fat[c] = FreeCluster})}
    BY DEF ClustersAccounted
  <2>1. PICK own, pos : Holds(own, pos)
    BY DEF LInv
  <2>2. AtRest(own, pos, Rest(handles)) /\ DataOK(data) /\ HandlesOK(handles)
    BY <2>1, RestHolds, Parts DEF Working
  <2>3. {c \in Cluster : fat[c] # FreeCluster} =
          (leaked \cap Cluster) \cup UNION {Owned(s) : s \in Entries \cup {Nowhere}}
    BY <2>2, LabelsAccount
  <2>4. leaked \cap Cluster = leaked
    BY RangeParts
  <2>5. mounted => fsInfo.freeClusterCount \in {Unknown, Free(fat)}
    <3>1. Claimed(call) = 0
      BY DEF Claimed, Idle
    <3> QED
      BY <3>1, FreeIsNumber DEF CInv, Counted
  <2> QED
    BY <2>3, <2>4, <2>5 DEF Free, FreeSet
<1>4. IInv /\ Ranges /\ [CarefulNext]_vars => IInv' /\ Ranges'
  <2>1. [CarefulNext]_vars => [Next]_vars
    BY DEF Next
  <2> QED
    BY <2>1, Inductive, InRange
<1> QED
  BY <1>1, <1>2, <1>3, <1>4, Initial, InitialRanges, PTL DEF CarefulSpec
=============================================================================
