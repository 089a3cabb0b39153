------------------------------ MODULE VfsProofs ------------------------------
(***************************************************************************)
(* The mount table of Vfs, for any set of file systems, devices and paths. *)
(***************************************************************************)
EXTENDS Vfs, WellFoundedInduction, TLAPS

(* What the proofs need of the types; they do not look at dispatch.         *)
TableType ==
  /\ mounts \in Seq([path : MountPaths, fs : FileSystems])
  /\ volume \in [FileSystems -> BlockDevices \cup {NONE}]

IInv == TableType /\ OneMountEach

(* The entries after one is removed are the others, under new indices.      *)
LEMMA RemoveAtEntries ==
  ASSUME NEW S, NEW s \in Seq(S), NEW i \in DOMAIN s
  PROVE  /\ RemoveAt(s, i) \in Seq(S)
         /\ Len(RemoveAt(s, i)) = Len(s) - 1
         /\ \A j \in DOMAIN RemoveAt(s, i) :
              RemoveAt(s, i)[j] = s[IF j < i THEN j ELSE j + 1]
<1> DEFINE A == SubSeq(s, 1, i - 1)
           B == SubSeq(s, i + 1, Len(s))
<1>1. i \in 1 .. Len(s) /\ Len(s) \in Nat
  OBVIOUS
<1>2. /\ A \in Seq(S) /\ Len(A) = i - 1
      /\ \A j \in 1 .. i - 1 : A[j] = s[j]
  BY <1>1
<1>3. /\ B \in Seq(S) /\ Len(B) = Len(s) - i
      /\ \A j \in 1 .. Len(s) - i : B[j] = s[i + j]
  BY <1>1
<1>4. RemoveAt(s, i) = A \o B
  BY DEF RemoveAt
<1> HIDE DEF A, B
<1>5. /\ A \o B \in Seq(S)
      /\ Len(A \o B) = Len(s) - 1
      /\ DOMAIN (A \o B) = 1 .. Len(s) - 1
  BY <1>1, <1>2, <1>3
<1>6. \A j \in 1 .. Len(s) - 1 : (A \o B)[j] = s[IF j < i THEN j ELSE j + 1]
  <2> TAKE j \in 1 .. Len(s) - 1
  <2>1. CASE j < i
    <3>1. (A \o B)[j] = A[j]
      BY <2>1, <1>1, <1>2, <1>3
    <3> QED
      BY <3>1, <2>1, <1>1, <1>2
  <2>2. CASE j >= i
    <3>1. (A \o B)[j] = B[j - (i - 1)] /\ j - (i - 1) \in 1 .. Len(s) - i
      BY <2>2, <1>1, <1>2, <1>3
    <3>2. B[j - (i - 1)] = s[i + (j - (i - 1))] /\ i + (j - (i - 1)) = j + 1
      BY <3>1, <1>3, <1>1
    <3> QED
      BY <3>1, <3>2, <2>2, <1>1
  <2>3. j < i \/ j >= i
    BY <1>1
  <2> QED
    BY <2>1, <2>2, <2>3, Zenon
<1> QED
  BY <1>4, <1>5, <1>6

(* A step of the table: a mount of a file system that has no volume, at a   *)
(* path that is free, keeps the table and the volumes in agreement.         *)
LEMMA AddKeeps ==
  ASSUME IInv, NEW path \in MountPaths, NEW fs \in FileSystems,
         NEW device \in BlockDevices, AddMount(path, fs, device),
         \A i \in DOMAIN mounts : mounts[i].path # path
  PROVE  IInv'
<1> DEFINE m == [path |-> path, fs |-> fs]
           E == [path : MountPaths, fs : FileSystems]
<1>1. /\ volume[fs] = NONE
      /\ volume' = [volume EXCEPT ![fs] = device]
      /\ mounts' = Append(mounts, m)
  BY DEF AddMount
<1>2. mounts \in Seq(E) /\ volume \in [FileSystems -> BlockDevices \cup {NONE}]
  BY DEF IInv, TableType
<1>3. m \in E
  OBVIOUS
<1>4. mounts' \in Seq(E)
  BY <1>1, <1>2, <1>3
<1>5. volume' \in [FileSystems -> BlockDevices \cup {NONE}]
  BY <1>1, <1>2
<1>6. Len(mounts') = Len(mounts) + 1 /\ mounts'[Len(mounts) + 1] = m
  BY <1>1, <1>2, <1>3
<1>7. \A i \in DOMAIN mounts : mounts'[i] = mounts[i]
  BY <1>1, <1>2, <1>3
<1>8. DOMAIN mounts' = DOMAIN mounts \cup {Len(mounts) + 1} /\ Len(mounts) + 1 \notin DOMAIN mounts
  BY <1>1, <1>2, <1>3, <1>4, <1>6
<1>9. \A i \in DOMAIN mounts : mounts[i].fs # fs
  <2>1. {g \in FileSystems : volume[g] # NONE} = {mounts[i].fs : i \in DOMAIN mounts}
    BY DEF IInv, OneMountEach
  <2> QED
    BY <2>1, <1>1
<1>10. \A i, j \in DOMAIN mounts' :
         i # j => mounts'[i].path # mounts'[j].path /\ mounts'[i].fs # mounts'[j].fs
  <2>1. \A i, j \in DOMAIN mounts :
          i # j => mounts[i].path # mounts[j].path /\ mounts[i].fs # mounts[j].fs
    BY DEF IInv, OneMountEach
  <2>2. m.path = path /\ m.fs = fs
    OBVIOUS
  <2> QED
    BY <2>1, <2>2, <1>6, <1>7, <1>8, <1>9
<1>11. {g \in FileSystems : volume'[g] # NONE} = {mounts'[i].fs : i \in DOMAIN mounts'}
  <2>1. {g \in FileSystems : volume[g] # NONE} = {mounts[i].fs : i \in DOMAIN mounts}
    BY DEF IInv, OneMountEach
  <2>2. device # NONE
    BY NoneAssumption
  <2>3. {g \in FileSystems : volume'[g] # NONE} =
          {g \in FileSystems : volume[g] # NONE} \cup {fs}
    BY <1>1, <1>2, <2>2
  <2>4. {mounts'[i].fs : i \in DOMAIN mounts'} =
          {mounts[i].fs : i \in DOMAIN mounts} \cup {fs}
    BY <1>6, <1>7, <1>8
  <2> QED
    BY <2>1, <2>3, <2>4
<1> QED
  BY <1>4, <1>5, <1>10, <1>11 DEF IInv, TableType, OneMountEach

(* unmount takes away the one entry of the file system it releases.         *)
LEMMA UnmountKeeps ==
  ASSUME IInv, NEW path \in MountPaths, unmount(path)
  PROVE  IInv'
<1> DEFINE E == [path : MountPaths, fs : FileSystems]
<1>1. PICK i \in DOMAIN mounts :
        /\ volume' = [volume EXCEPT ![mounts[i].fs] = NONE]
        /\ mounts' = RemoveAt(mounts, i)
  BY DEF unmount
<1>2. mounts \in Seq(E) /\ volume \in [FileSystems -> BlockDevices \cup {NONE}]
  BY DEF IInv, TableType
<1> DEFINE at(j) == IF j < i THEN j ELSE j + 1
<1>3. /\ mounts' \in Seq(E)
      /\ Len(mounts') = Len(mounts) - 1
      /\ \A j \in DOMAIN mounts' : mounts'[j] = mounts[at(j)]
  BY <1>1, <1>2, RemoveAtEntries
<1>4. i \in 1 .. Len(mounts) /\ Len(mounts) \in Nat
  BY <1>2
<1>5. DOMAIN mounts' = 1 .. Len(mounts) - 1 /\ DOMAIN mounts = 1 .. Len(mounts)
  BY <1>2, <1>3
<1>6. \A j \in DOMAIN mounts' : at(j) \in DOMAIN mounts \ {i}
  BY <1>4, <1>5
<1>7. \A j, k \in DOMAIN mounts' : j # k => at(j) # at(k)
  BY <1>4, <1>5
<1>8. \A k \in DOMAIN mounts \ {i} : \E j \in DOMAIN mounts' : at(j) = k
  <2> TAKE k \in DOMAIN mounts \ {i}
  <2>1. CASE k < i
    <3>1. k \in DOMAIN mounts'
      BY <2>1, <1>4, <1>5
    <3> QED
      BY <3>1, <2>1
  <2>2. CASE k > i
    <3>1. k - 1 \in DOMAIN mounts'
      BY <2>2, <1>4, <1>5
    <3>2. at(k - 1) = k
      BY <2>2, <1>4, <1>5
    <3> QED
      BY <3>1, <3>2
  <2> QED
    BY <2>1, <2>2, <1>4, <1>5
<1>9. volume' \in [FileSystems -> BlockDevices \cup {NONE}]
  BY <1>1, <1>2
<1>10. \A j, k \in DOMAIN mounts :
         j # k => mounts[j].path # mounts[k].path /\ mounts[j].fs # mounts[k].fs
  BY DEF IInv, OneMountEach
<1>11. \A j, k \in DOMAIN mounts' :
         j # k => mounts'[j].path # mounts'[k].path /\ mounts'[j].fs # mounts'[k].fs
  <2> HIDE DEF at
  <2> QED BY <1>3, <1>6, <1>7, <1>10
<1>12. {g \in FileSystems : volume'[g] # NONE} = {mounts'[j].fs : j \in DOMAIN mounts'}
  <2>1. {g \in FileSystems : volume[g] # NONE} = {mounts[j].fs : j \in DOMAIN mounts}
    BY DEF IInv, OneMountEach
  <2>2. {g \in FileSystems : volume'[g] # NONE} =
          {g \in FileSystems : volume[g] # NONE} \ {mounts[i].fs}
    BY <1>1, <1>2
  <2>3. {mounts[j].fs : j \in DOMAIN mounts} \ {mounts[i].fs} =
          {mounts[j].fs : j \in DOMAIN mounts \ {i}}
    BY <1>10
  <2> HIDE DEF at
  <2>4. {mounts'[j].fs : j \in DOMAIN mounts'} =
          {mounts[j].fs : j \in DOMAIN mounts \ {i}}
    BY <1>3, <1>6, <1>8
  <2> QED
    BY <2>1, <2>2, <2>3, <2>4
<1> QED
  BY <1>3, <1>9, <1>11, <1>12 DEF IInv, TableType, OneMountEach

(* Before mountRoot nothing is mounted, so it finds the root free.          *)
EmptyAtBoot == ~booted => mounts = <<>>

(* Only mountRoot, mount and unmount touch the table, and each keeps it.    *)
LEMMA Inductive == IInv /\ EmptyAtBoot /\ [Next]_vars => (IInv /\ EmptyAtBoot)'
<1> SUFFICES ASSUME IInv, EmptyAtBoot, [Next]_vars
             PROVE  IInv' /\ EmptyAtBoot'
  OBVIOUS
<1> DEFINE Same == UNCHANGED <<booted, mounts, volume>>
<1>same. ASSUME Same PROVE IInv' /\ EmptyAtBoot'
  BY <1>same DEF IInv, TableType, OneMountEach, EmptyAtBoot
<1>1. CASE \E fs \in FileSystems : mountRoot(fs)
  <2> PICK fs \in FileSystems : mountRoot(fs)
    BY <1>1
  <2>1. booted' /\ ~booted
    BY DEF mountRoot
  <2>2. CASE \E device \in BlockDevices : AddMount(Root, fs, device)
    <3>1. Root \in MountPaths /\ DOMAIN mounts = {}
      BY <2>1, PathAssumption DEF EmptyAtBoot
    <3>2. IInv'
      BY <2>2, <3>1, AddKeeps
    <3> QED
      BY <2>1, <3>2 DEF EmptyAtBoot
  <2>3. CASE UNCHANGED <<mounts, volume>>
    BY <2>1, <2>3 DEF IInv, TableType, OneMountEach, EmptyAtBoot
  <2> QED
    BY <2>2, <2>3 DEF mountRoot
<1>2. CASE \E path \in MountPaths, fs \in FileSystems, device \in BlockDevices :
             mount(path, fs, device)
  <2> PICK path \in MountPaths, fs \in FileSystems, device \in BlockDevices :
             mount(path, fs, device)
    BY <1>2
  <2>1. /\ AddMount(path, fs, device)
        /\ \A i \in DOMAIN mounts : mounts[i].path # path
        /\ booted /\ booted' = booted
    BY DEF mount, Ready
  <2>2. IInv'
    BY <2>1, AddKeeps
  <2> QED
    BY <2>1, <2>2 DEF EmptyAtBoot
<1>3. CASE \E path \in MountPaths : unmount(path)
  <2> PICK path \in MountPaths : unmount(path)
    BY <1>3
  <2>1. booted /\ booted' = booted
    BY DEF unmount, Ready
  <2>2. IInv'
    BY UnmountKeeps
  <2> QED
    BY <2>1, <2>2 DEF EmptyAtBoot
<1>4. CASE \E path \in Paths, op \in Asserting : Lookup(op, path)
  BY <1>4, <1>same DEF Lookup
<1>5. CASE \E path \in Paths, op \in Refusing : Change(op, path)
  BY <1>5, <1>same DEF Change
<1>6. CASE \E old, new \in Paths : rename(old, new)
  BY <1>6, <1>same DEF rename
<1>7. CASE Halted \/ UNCHANGED vars
  BY <1>7, <1>same DEF Halted, vars
<1> QED
  BY <1>1, <1>2, <1>3, <1>4, <1>5, <1>6, <1>7 DEF Next

(* The kernel boots with an empty table and no volume mounted.              *)
LEMMA Initial == Init => IInv /\ EmptyAtBoot
<1> SUFFICES ASSUME Init PROVE IInv /\ EmptyAtBoot
  OBVIOUS
<1>1. mounts = <<>> /\ volume = [fs \in FileSystems |-> NONE]
  BY DEF Init
<1>2. TableType
  BY <1>1 DEF TableType
<1>3. OneMountEach
  BY <1>1 DEF OneMountEach
<1> QED
  BY <1>1, <1>2, <1>3 DEF IInv, EmptyAtBoot

(* vfs.cpp mounts a file system at one place at most and gives no place to  *)
(* two, and a file system has a volume exactly while it is in the table, for*)
(* every order of mounting and unmounting.                                  *)
THEOREM MountedOnce == Spec => []OneMountEach
<1>1. IInv => OneMountEach
  BY DEF IInv
<1> QED
  BY <1>1, Initial, Inductive, PTL DEF Spec

-----------------------------------------------------------------------------
(* Dispatch: the loop through the table finds the deepest mount             *)

(* Induction over the numbers, for a set of them.                           *)
LEMMA SetInduction ==
  ASSUME NEW S, 0 \in S, \A n \in Nat : n \in S => n + 1 \in S
  PROVE  Nat \subseteq S
<1> DEFINE T == {n \in Nat : n \notin S}
<1> SUFFICES ASSUME T # {} PROVE FALSE
  OBVIOUS
<1>1. IsWellFoundedOn(OpToRel(<, Nat), Nat)
  BY NatLessThanWellFounded, Zenon
<1>2. PICK m \in T : \A k \in T : ~(<<k, m>> \in OpToRel(<, Nat))
  BY <1>1, WFMin, Zenon
<1>3. \A k \in Nat : k < m => k \in S
  BY <1>2 DEF OpToRel
<1> QED
  BY <1>3

NoMount == [path |-> Root, fs |-> NONE]

(* What the loop has in its hands after each of the first n entries.        *)
Loop(path, b, n) ==
  b = [k \in 0 .. n |-> IF k = 0 THEN NoMount
                        ELSE Better(path, b[k - 1], mounts[k])]

(* The loop has a value after every number of entries.                      *)
LEMMA LoopRuns ==
  ASSUME NEW path
  PROVE  \A n \in Nat : \E b : Loop(path, b, n)
<1> DEFINE S == {n \in Nat : \E b : Loop(path, b, n)}
<1>1. 0 \in S
  <2> DEFINE b == [k \in 0 .. 0 |-> NoMount]
  <2>1. b = [k \in 0 .. 0 |-> IF k = 0 THEN NoMount
                              ELSE Better(path, b[k - 1], mounts[k])]
    <3>1. \A k \in 0 .. 0 : k = 0
      OBVIOUS
    <3> QED
      BY <3>1
  <2>2. Loop(path, b, 0)
    BY <2>1, Zenon DEF Loop
  <2> QED
    BY <2>2
<1>2. ASSUME NEW n \in Nat, n \in S PROVE n + 1 \in S
  <2>1. PICK b : Loop(path, b, n)
    BY <1>2
  <2> DEFINE c == [k \in 0 .. n + 1 |->
                     IF k = n + 1 THEN Better(path, b[n], mounts[n + 1]) ELSE b[k]]
             Step(f, k) == IF k = 0 THEN NoMount ELSE Better(path, f[k - 1], mounts[k])
  <2>2. \A k \in 0 .. n : b[k] = Step(b, k)
    BY <2>1 DEF Loop
  <2>3. \A k \in 0 .. n + 1 : c[k] = Step(c, k)
    <3> TAKE k \in 0 .. n + 1
    <3>1. CASE k = n + 1
      <4>1. c[k] = Better(path, b[n], mounts[n + 1])
        BY <3>1
      <4>2. k - 1 = n /\ k # 0 /\ n \in 0 .. n + 1 /\ n # n + 1
        BY <3>1
      <4>3. c[k - 1] = b[n]
        BY <4>2
      <4> QED
        BY <4>1, <4>2, <4>3, <3>1
    <3>2. CASE k \in 0 .. n
      <4>1. k # n + 1 /\ c[k] = b[k]
        BY <3>2
      <4>2. CASE k = 0
        BY <4>1, <4>2, <2>2, <3>2
      <4>3. CASE k # 0
        <5>1. k - 1 \in 0 .. n + 1 /\ k - 1 # n + 1
          BY <4>3, <3>2
        <5>2. c[k - 1] = b[k - 1]
          BY <5>1
        <5> QED
          BY <4>1, <4>3, <5>2, <2>2, <3>2
      <4> QED
        BY <4>2, <4>3
    <3> QED
      BY <3>1, <3>2
  <2> DEFINE d == [k \in 0 .. n + 1 |-> Step(c, k)]
  <2>4. c = d
    <3> HIDE DEF Step
    <3> QED
      BY <2>3
  <2>5. Loop(path, c, n + 1)
    <3> HIDE DEF c
    <3> QED
      BY <2>4, Zenon DEF Loop
  <2> QED
    BY <2>5
<1> HIDE DEF S
<1>3. Nat \subseteq S
  BY <1>1, <1>2, SetInduction
<1> QED
  BY <1>3 DEF S

(* Best is what the loop holds at the end of the table.                     *)
LEMMA BestIsTheLoop ==
  ASSUME TableType, NEW path
  PROVE  \E b : Loop(path, b, Len(mounts)) /\ Best(path) = b[Len(mounts)]
<1> DEFINE b == CHOOSE f : Loop(path, f, Len(mounts))
<1>1. Len(mounts) \in Nat
  BY DEF TableType
<1>2. Loop(path, b, Len(mounts))
  BY <1>1, LoopRuns, Zenon
<1>3. Best(path) = b[Len(mounts)]
  BY DEF Best, Loop, NoMount
<1> QED
  BY <1>2, <1>3

(* A mount point is found at the start of a path just when it is one of the *)
(* directories that the path lies in.                                       *)
LEMMA StartsWithIsAbove ==
  ASSUME NEW path \in Paths, NEW m \in MountPaths
  PROVE  pathStartsWithMount(path, m) <=> m \in Ancestors(path)
<1>1. path \in Seq(Characters) /\ m \in Seq(Characters)
  BY PathAssumption
<1>2. m # <<>> /\ m[1] = Slash
  BY PathAssumption DEF IsAbsolute
<1>3. Len(m) \in Nat /\ Len(m) >= 1 /\ Len(path) \in Nat
  BY <1>1, <1>2
<1>4. m = SubSeq(m, 1, Len(m))
  BY <1>1
<1> DEFINE N == {n \in 1 .. Len(path) : n = Len(path) \/ path[n + 1] = Slash}
<1>5. Len(Root) = 1 /\ Root[1] = Slash /\ Root \in Seq(Characters)
  BY PathAssumption DEF Root
<1>6. ASSUME pathStartsWithMount(path, m) PROVE m \in Ancestors(path)
  <2>1. Len(m) <= Len(path) /\ m = SubSeq(path, 1, Len(m))
    BY <1>6, <1>4 DEF pathStartsWithMount, IsPrefix
  <2>2. path[1] = m[1]
    BY <2>1, <1>1, <1>3
  <2>3. IsAbsolute(path)
    BY <2>2, <2>1, <1>1, <1>2, <1>3 DEF IsAbsolute
  <2>4. CASE m = Root
    BY <2>3, <2>4 DEF Ancestors
  <2>5. CASE m # Root
    <3>1. Len(m) \in N
      BY <1>6, <2>5, <2>1, <1>3 DEF pathStartsWithMount
    <3>2. m \in {SubSeq(path, 1, n) : n \in N}
      BY <3>1, <2>1
    <3> QED
      BY <3>2, <2>3 DEF Ancestors
  <2> QED
    BY <2>4, <2>5
<1>7. ASSUME m \in Ancestors(path) PROVE pathStartsWithMount(path, m)
  <2>1. IsAbsolute(path) /\ (m = Root \/ \E n \in N : m = SubSeq(path, 1, n))
    BY <1>7 DEF Ancestors
  <2>2. Len(path) >= 1 /\ path[1] = Slash
    BY <2>1, <1>1 DEF IsAbsolute
  <2>3. CASE m = Root
    <3>1. SubSeq(path, 1, 1) = Root
      <4>1. /\ SubSeq(path, 1, 1) \in Seq(Characters)
            /\ Len(SubSeq(path, 1, 1)) = 1
            /\ SubSeq(path, 1, 1)[1] = Slash
        BY <2>2, <1>1
      <4>2. \A s, t \in Seq(Characters) :
              Len(s) = 1 /\ Len(t) = 1 /\ s[1] = t[1] => s = t
        OBVIOUS
      <4> QED
        BY <4>1, <4>2, <1>5, Zenon
    <3>2. SubSeq(Root, 1, 1) = Root
      BY <1>4, <1>5, <2>3
    <3> QED
      BY <3>1, <3>2, <2>2, <2>3, <1>5, <1>3 DEF pathStartsWithMount, IsPrefix
  <2>4. CASE \E n \in N : m = SubSeq(path, 1, n)
    <3>1. PICK n \in N : m = SubSeq(path, 1, n)
      BY <2>4
    <3>2. Len(m) = n /\ n <= Len(path)
      BY <3>1, <1>1
    <3>3. IsPrefix(m, path)
      BY <3>1, <3>2, <1>4, <1>3 DEF IsPrefix
    <3> QED
      BY <3>1, <3>2, <3>3 DEF pathStartsWithMount
  <2> QED
    BY <2>1, <2>3, <2>4
<1> QED
  BY <1>6, <1>7

(* Every entry is a mount point with its file system.                       *)
LEMMA EntriesTyped ==
  ASSUME TableType
  PROVE  /\ Len(mounts) \in Nat
         /\ DOMAIN mounts = 1 .. Len(mounts)
         /\ \A j \in 1 .. Len(mounts) :
              mounts[j].path \in MountPaths /\ mounts[j].fs \in FileSystems
<1> DEFINE E == [path : MountPaths, fs : FileSystems]
<1>1. mounts \in Seq(E)
  BY DEF TableType
<1>2. \A e \in E : e.path \in MountPaths /\ e.fs \in FileSystems
  OBVIOUS
<1> HIDE DEF E
<1>3. \A j \in 1 .. Len(mounts) : mounts[j] \in E
  BY <1>1
<1> QED
  BY <1>1, <1>2, <1>3

(* What the loop may hold after n entries: nothing while none of them is    *)
(* above the path, else one of them that is and is as long as any that is.  *)
Deepest(path, n, best) ==
  \/ /\ best = NoMount
     /\ \A j \in 1 .. n : mounts[j].path \notin Ancestors(path)
  \/ \E i \in 1 .. n :
       /\ best = mounts[i]
       /\ mounts[i].path \in Ancestors(path)
       /\ \A j \in 1 .. n : mounts[j].path \in Ancestors(path) =>
                              Len(mounts[j].path) <= Len(mounts[i].path)

(* One more entry keeps the deepest.                                        *)
LEMMA BetterIsDeeper ==
  ASSUME TableType, NEW path \in Paths, NEW n \in Nat, n + 1 <= Len(mounts),
         NEW best, Deepest(path, n, best)
  PROVE  Deepest(path, n + 1, Better(path, best, mounts[n + 1]))
<1> DEFINE m == mounts[n + 1]
           p(j) == mounts[j].path
           above(j) == p(j) \in Ancestors(path)
<1>1. Len(mounts) \in Nat /\ \A j \in 1 .. Len(mounts) :
        mounts[j].path \in MountPaths /\ mounts[j].fs \in FileSystems
  BY EntriesTyped
<1>2. \A j \in 1 .. Len(mounts) : Len(p(j)) \in Nat /\ Len(p(j)) >= 1
  <2> TAKE j \in 1 .. Len(mounts)
  <2>1. p(j) \in Seq(Characters) /\ p(j) # <<>>
    BY <1>1, PathAssumption DEF IsAbsolute
  <2> QED
    BY <2>1
<1>3. \A j \in 1 .. Len(mounts) :
        mountMatchLength(path, p(j)) = IF above(j) THEN Len(p(j)) ELSE 0
  BY <1>1, StartsWithIsAbove DEF mountMatchLength
<1>4. \A j \in 1 .. Len(mounts) : mounts[j].fs # NONE
  BY <1>1, NoneAssumption
<1>5. n + 1 \in 1 .. Len(mounts)
  BY <1>1
<1>6. 1 .. n + 1 = (1 .. n) \cup {n + 1} /\ 1 .. n \subseteq 1 .. Len(mounts)
  BY <1>1
<1> DEFINE length == IF best.fs = NONE THEN 0 ELSE Len(best.path)
<1>7. Better(path, best, m) =
        IF mountMatchLength(path, m.path) > length THEN m ELSE best
  BY DEF Better
<1>8. CASE /\ best = NoMount
           /\ \A j \in 1 .. n : ~above(j)
  <2>1. length = 0
    BY <1>8 DEF NoMount
  <2>2. CASE above(n + 1)
    <3>1. mountMatchLength(path, m.path) = Len(m.path) /\ Len(m.path) >= 1 /\ Len(m.path) \in Nat
      BY <1>3, <1>5, <2>2, <1>2
    <3>2. Better(path, best, m) = m
      BY <3>1, <2>1, <1>7
    <3>3. \A j \in 1 .. n + 1 : above(j) => Len(p(j)) <= Len(p(n + 1))
      BY <1>8, <1>6, <3>1
    <3> QED
      BY <3>2, <3>3, <2>2, <1>6 DEF Deepest
  <2>3. CASE ~above(n + 1)
    <3>1. mountMatchLength(path, m.path) = 0
      BY <1>3, <1>5, <2>3
    <3>2. Better(path, best, m) = best
      BY <3>1, <2>1, <1>7
    <3> QED
      BY <3>2, <2>3, <1>8, <1>6 DEF Deepest
  <2> QED
    BY <2>2, <2>3
<1>9. CASE \E i \in 1 .. n :
             /\ best = mounts[i]
             /\ above(i)
             /\ \A j \in 1 .. n : above(j) => Len(p(j)) <= Len(p(i))
  <2>1. PICK i \in 1 .. n :
             /\ best = mounts[i]
             /\ above(i)
             /\ \A j \in 1 .. n : above(j) => Len(p(j)) <= Len(p(i))
    BY <1>9
  <2>2. i \in 1 .. Len(mounts) /\ i \in 1 .. n + 1
    BY <1>6
  <2>3. length = Len(p(i)) /\ Len(p(i)) \in Nat /\ Len(p(i)) >= 1
    BY <2>1, <2>2, <1>4, <1>2
  <2>4. CASE above(n + 1) /\ Len(p(n + 1)) > Len(p(i))
    <3>1. mountMatchLength(path, m.path) = Len(p(n + 1))
      BY <1>3, <1>5, <2>4
    <3>2. Better(path, best, m) = m
      BY <3>1, <2>4, <2>3, <1>7
    <3>3. \A j \in 1 .. n + 1 : above(j) => Len(p(j)) <= Len(p(n + 1))
      <4> TAKE j \in 1 .. n + 1
      <4>1. j \in 1 .. n \/ j = n + 1
        BY <1>6
      <4>2. j \in 1 .. Len(mounts)
        BY <1>6, <1>5
      <4>3. Len(p(j)) \in Nat /\ Len(p(n + 1)) \in Nat /\ Len(p(i)) \in Nat
        BY <4>2, <1>2, <1>5, <2>2
      <4> HIDE DEF p
      <4> QED
        BY <4>1, <4>3, <2>1, <2>4
    <3> QED
      BY <3>2, <3>3, <2>4, <1>6 DEF Deepest
  <2>5. CASE ~(above(n + 1) /\ Len(p(n + 1)) > Len(p(i)))
    <3>1. Len(p(n + 1)) \in Nat
      BY <1>5, <1>2
    <3>2. ~(mountMatchLength(path, m.path) > length)
      BY <1>3, <1>5, <2>5, <2>3, <3>1
    <3>3. Better(path, best, m) = best
      BY <3>2, <1>7
    <3>4. \A j \in 1 .. n + 1 : above(j) => Len(p(j)) <= Len(p(i))
      <4> HIDE DEF p
      <4> QED
        BY <2>1, <2>5, <3>1, <2>3, <1>6
    <3> QED
      BY <3>3, <3>4, <2>1, <2>2 DEF Deepest
  <2> QED
    BY <2>4, <2>5
<1> QED
  BY <1>8, <1>9 DEF Deepest

(* The loop ends with the deepest mount of the whole table.                 *)
LEMMA BestIsDeepest ==
  ASSUME TableType, NEW path \in Paths
  PROVE  Deepest(path, Len(mounts), Best(path))
<1>1. PICK b : Loop(path, b, Len(mounts)) /\ Best(path) = b[Len(mounts)]
  BY BestIsTheLoop
<1>2. Len(mounts) \in Nat
  BY DEF TableType
<1> DEFINE S == {n \in Nat : n <= Len(mounts) => Deepest(path, n, b[n])}
<1>3. b[0] = NoMount /\ \A n \in Nat : n + 1 <= Len(mounts) =>
        b[n + 1] = Better(path, b[n], mounts[n + 1])
  <2>1. \A k \in 0 .. Len(mounts) :
          b[k] = IF k = 0 THEN NoMount ELSE Better(path, b[k - 1], mounts[k])
    BY <1>1 DEF Loop
  <2>2. b[0] = NoMount
    BY <2>1, <1>2
  <2>3. ASSUME NEW n \in Nat, n + 1 <= Len(mounts)
        PROVE  b[n + 1] = Better(path, b[n], mounts[n + 1])
    <3>1. n + 1 \in 0 .. Len(mounts) /\ n + 1 # 0 /\ (n + 1) - 1 = n
      BY <2>3, <1>2
    <3> QED
      BY <3>1, <2>1
  <2> QED
    BY <2>2, <2>3
<1>4. 0 \in S
  BY <1>3 DEF Deepest
<1>5. ASSUME NEW n \in Nat, n \in S PROVE n + 1 \in S
  <2> SUFFICES ASSUME n + 1 <= Len(mounts) PROVE Deepest(path, n + 1, b[n + 1])
    OBVIOUS
  <2>1. Deepest(path, n, b[n])
    BY <1>5, <1>2
  <2>2. Deepest(path, n + 1, Better(path, b[n], mounts[n + 1]))
    BY <2>1, BetterIsDeeper
  <2> QED
    BY <2>2, <1>3
<1> HIDE DEF S
<1>6. Nat \subseteq S
  BY <1>4, <1>5, SetInduction
<1>7. Len(mounts) \in S
  BY <1>6, <1>2
<1>8. Deepest(path, Len(mounts), b[Len(mounts)])
  BY <1>7, <1>2 DEF S
<1> QED
  BY <1>8, <1>1

(* The path of a mount above a path, and what the mount is given, are the   *)
(* path again; what it is given is absolute.                                *)
LEMMA RelativeIsTheRest ==
  ASSUME NEW path \in Paths, NEW m \in MountPaths, m \in Ancestors(path),
         NEW r, r = relativePathForMount(path, m)
  PROVE  /\ IsAbsolute(r)
         /\ IF m = Root THEN r = path
            ELSE m \o r = path \/ (path = m /\ r = Root)
<1>1. path \in Seq(Characters) /\ m \in Seq(Characters)
  BY PathAssumption
<1>2. m # <<>> /\ Len(m) \in Nat /\ Len(m) >= 1 /\ Len(path) \in Nat
  BY <1>1, PathAssumption DEF IsAbsolute
<1>3. pathStartsWithMount(path, m)
  BY StartsWithIsAbove
<1>4. Len(m) <= Len(path) /\ m = SubSeq(path, 1, Len(m))
  BY <1>3, <1>1 DEF pathStartsWithMount, IsPrefix
<1>5. IsAbsolute(path)
  BY DEF Ancestors
<1>6. IsAbsolute(Root)
  BY PathAssumption
<1>7. CASE m = Root
  BY <1>7, <1>5 DEF relativePathForMount
<1>8. CASE m # Root /\ Len(path) = Len(m)
  <2>1. path = m
    BY <1>8, <1>4, <1>1
  <2>2. r = Root
    BY <1>8, <1>3 DEF relativePathForMount
  <2> QED
    BY <2>1, <2>2, <1>6, <1>8
<1>9. CASE m # Root /\ Len(path) # Len(m)
  <2> DEFINE rest == SubSeq(path, Len(m) + 1, Len(path))
  <2>1. r = rest
    BY <1>9, <1>3 DEF relativePathForMount
  <2>2. path[Len(m) + 1] = Slash
    BY <1>9, <1>3 DEF pathStartsWithMount
  <2>3. rest \in Seq(Characters) /\ Len(rest) = Len(path) - Len(m) /\ rest[1] = path[Len(m) + 1]
    BY <1>1, <1>2, <1>4, <1>9
  <2>4. IsAbsolute(rest)
    BY <2>2, <2>3, <1>2, <1>4, <1>9 DEF IsAbsolute
  <2>5. m \o rest = path
    <3> DEFINE pre == SubSeq(path, 1, Len(m))
    <3>1. pre \o rest = path
      BY <1>1, <1>2, <1>4
    <3> QED
      BY <3>1, <1>4
  <2> QED
    BY <2>1, <2>4, <2>5, <1>9
<1> QED
  BY <1>7, <1>8, <1>9

(* A path that is dispatched reaches a file system as an absolute path.     *)
LEMMA DispatchedWell ==
  ASSUME TableType, NEW path \in Paths, fileSystemForPath(path) # NONE
  PROVE  fileSystemForPath(path) \in FileSystems /\ IsAbsolute(Relative(path))
<1>1. Deepest(path, Len(mounts), Best(path))
  BY BestIsDeepest
<1>2. Best(path) # NoMount
  BY DEF fileSystemForPath, NoMount
<1>3. PICK i \in 1 .. Len(mounts) :
        Best(path) = mounts[i] /\ mounts[i].path \in Ancestors(path)
  BY <1>1, <1>2 DEF Deepest
<1>4. mounts[i].path \in MountPaths /\ mounts[i].fs \in FileSystems
  BY EntriesTyped
<1>5. IsAbsolute(relativePathForMount(path, mounts[i].path))
  BY <1>3, <1>4, RelativeIsTheRest
<1> QED
  BY <1>3, <1>4, <1>5 DEF fileSystemForPath, Relative

(* What the requests need for their types.                                  *)
RequestType ==
  /\ booted \in BOOLEAN
  /\ request # NONE =>
       /\ request.fs \in FileSystems
       /\ \A i \in DOMAIN request.paths : IsAbsolute(request.paths[i])
  /\ panicked \in BOOLEAN

(* What is forwarded has its type.                                          *)
LEMMA ForwardTyped ==
  ASSUME NEW op, NEW fs \in FileSystems, NEW paths,
         \A i \in DOMAIN paths : IsAbsolute(paths[i]), Forward(op, fs, paths)
  PROVE  /\ request'.fs \in FileSystems
         /\ \A i \in DOMAIN request'.paths : IsAbsolute(request'.paths[i])
  BY DEF Forward

(* Every step leaves a request of its type.                                 *)
LEMMA RequestsKeepType ==
  IInv /\ RequestType /\ [Next]_vars => RequestType'
<1> SUFFICES ASSUME IInv, RequestType, [Next]_vars
             PROVE  RequestType'
  OBVIOUS
<1> DEFINE Typed == /\ request.fs \in FileSystems
                    /\ \A i \in DOMAIN request.paths : IsAbsolute(request.paths[i])
<1>type. TableType
  BY DEF IInv
<1>1. ASSUME NEW path \in Paths, NEW op, fileSystemForPath(path) # NONE,
             Forward(op, fileSystemForPath(path), <<Relative(path)>>)
      PROVE  Typed'
  <2>1. fileSystemForPath(path) \in FileSystems /\ IsAbsolute(Relative(path))
    BY <1>1, <1>type, DispatchedWell
  <2>2. \A i \in DOMAIN <<Relative(path)>> : IsAbsolute(<<Relative(path)>>[i])
    <3> DEFINE q == Relative(path)
    <3>1. DOMAIN <<q>> = {1} /\ <<q>>[1] = q
      OBVIOUS
    <3> QED
      BY <3>1, <2>1
  <2> QED
    BY <2>1, <2>2, <1>1, ForwardTyped
<1>2. CASE \E fs \in FileSystems : mountRoot(fs)
  BY <1>2 DEF mountRoot, RequestType
<1>3. CASE \E path \in MountPaths, fs \in FileSystems, device \in BlockDevices :
             mount(path, fs, device)
  BY <1>3 DEF mount, RequestType
<1>4. CASE \E path \in MountPaths : unmount(path)
  BY <1>4 DEF unmount, RequestType
<1>5. CASE \E path \in Paths, op \in Asserting : Lookup(op, path)
  <2> PICK path \in Paths, op \in Asserting : Lookup(op, path)
    BY <1>5
  <2>1. CASE /\ fileSystemForPath(path) # NONE
             /\ Forward(op, fileSystemForPath(path), <<Relative(path)>>)
             /\ UNCHANGED panicked
    <3>1. Typed'
      BY <1>1, <2>1
    <3> QED
      BY <3>1, <2>1 DEF RequestType, Lookup
  <2>2. CASE panicked' = TRUE /\ UNCHANGED request
    BY <2>2 DEF RequestType, Lookup
  <2> QED
    BY <2>1, <2>2 DEF Lookup
<1>6. CASE \E path \in Paths, op \in Refusing : Change(op, path)
  <2> PICK path \in Paths, op \in Refusing : Change(op, path)
    BY <1>6
  <2>1. Typed'
    BY <1>1 DEF Change
  <2> QED
    BY <2>1 DEF Change, RequestType
<1>7. CASE \E old, new \in Paths : rename(old, new)
  <2> PICK old \in Paths, new \in Paths : rename(old, new)
    BY <1>7
  <2>1. /\ fileSystemForPath(old) \in FileSystems
        /\ IsAbsolute(Relative(old)) /\ IsAbsolute(Relative(new))
    BY <1>type, DispatchedWell DEF rename
  <2> DEFINE p == Relative(old)
             q == Relative(new)
  <2>2. \A i \in DOMAIN <<p, q>> : IsAbsolute(<<p, q>>[i])
    <3> HIDE DEF p, q
    <3>1. DOMAIN <<p, q>> = {1, 2} /\ <<p, q>>[1] = p /\ <<p, q>>[2] = q
      OBVIOUS
    <3>2. IsAbsolute(p) /\ IsAbsolute(q)
      BY <2>1 DEF p, q
    <3> QED
      BY <3>1, <3>2
  <2>3. Forward("rename", fileSystemForPath(old), <<p, q>>)
    BY DEF rename
  <2>4. Typed'
    BY <2>1, <2>2, <2>3, ForwardTyped
  <2> QED
    BY <2>4 DEF rename, RequestType
<1>8. CASE Halted \/ UNCHANGED vars
  BY <1>8 DEF Halted, vars, RequestType
<1> QED
  BY <1>2, <1>3, <1>4, <1>5, <1>6, <1>7, <1>8 DEF Next

(* fileSystemForPath gives every path to the deepest mount among the        *)
(* directories it lies in, whatever was mounted first, and what it passes on*)
(* is the rest of the path: for every table that mounts and unmounts make.  *)
THEOREM DispatchFindsTheDeepest == Spec => []DispatchIsDeepest
<1>1. Init => RequestType
  BY DEF Init, RequestType
<1>2. IInv /\ RequestType => DispatchIsDeepest
  <2> SUFFICES ASSUME IInv, RequestType PROVE DispatchIsDeepest
    OBVIOUS
  <2>type. TableType
    BY DEF IInv
  <2>1. TypeOK
    BY <2>type DEF TableType, RequestType, TypeOK
  <2>2. ASSUME NEW path \in Paths
        PROVE  IF MountsAbove(path) = {} THEN fileSystemForPath(path) = NONE
               ELSE \E i \in MountsAbove(path) :
                      /\ \A j \in MountsAbove(path) : Len(mounts[j].path) <= Len(mounts[i].path)
                      /\ fileSystemForPath(path) = mounts[i].fs
                      /\ IF mounts[i].path = Root THEN Relative(path) = path
                         ELSE \/ mounts[i].path \o Relative(path) = path
                              \/ path = mounts[i].path /\ Relative(path) = Root
    <3>1. Deepest(path, Len(mounts), Best(path))
      BY <2>type, BestIsDeepest
    <3>2. DOMAIN mounts = 1 .. Len(mounts)
      BY <2>type, EntriesTyped
    <3>3. CASE Best(path) = NoMount /\ \A j \in 1 .. Len(mounts) : mounts[j].path \notin Ancestors(path)
      BY <3>3, <3>2 DEF MountsAbove, fileSystemForPath, NoMount
    <3>4. CASE \E i \in 1 .. Len(mounts) :
                 /\ Best(path) = mounts[i]
                 /\ mounts[i].path \in Ancestors(path)
                 /\ \A j \in 1 .. Len(mounts) : mounts[j].path \in Ancestors(path) =>
                                        Len(mounts[j].path) <= Len(mounts[i].path)
      <4>1. PICK i \in 1 .. Len(mounts) :
                 /\ Best(path) = mounts[i]
                 /\ mounts[i].path \in Ancestors(path)
                 /\ \A j \in 1 .. Len(mounts) : mounts[j].path \in Ancestors(path) =>
                                        Len(mounts[j].path) <= Len(mounts[i].path)
        BY <3>4
      <4>2. i \in MountsAbove(path)
        BY <4>1, <3>2 DEF MountsAbove
      <4>3. \A j \in MountsAbove(path) : Len(mounts[j].path) <= Len(mounts[i].path)
        BY <4>1, <3>2 DEF MountsAbove
      <4>4. fileSystemForPath(path) = mounts[i].fs
        BY <4>1 DEF fileSystemForPath
      <4>5. mounts[i].path \in MountPaths
        BY <2>type, EntriesTyped
      <4>6. Relative(path) = relativePathForMount(path, mounts[i].path)
        BY <4>1 DEF Relative
      <4>7. IF mounts[i].path = Root THEN Relative(path) = path
            ELSE \/ mounts[i].path \o Relative(path) = path
                 \/ path = mounts[i].path /\ Relative(path) = Root
        BY <4>1, <4>5, <4>6, RelativeIsTheRest
      <4> QED
        BY <4>2, <4>3, <4>4, <4>7, Zenon
    <3> QED
      BY <3>1, <3>3, <3>4 DEF Deepest
  <2> QED
    BY <2>1, <2>2 DEF DispatchIsDeepest
<1> QED
  BY <1>1, <1>2, Initial, Inductive, RequestsKeepType, PTL DEF Spec

-----------------------------------------------------------------------------
(* Locality: a mount or an unmount moves only the paths below it            *)

Table == {mounts[i] : i \in DOMAIN mounts}

OnePlaceEach(table) == \A m, k \in table : m.path = k.path => m = k

(* The file system that a table has for a path.                             *)
Chooses(table, path, fs) ==
  \/ fs = NONE /\ \A m \in table : m.path \notin Ancestors(path)
  \/ \E m \in table :
       /\ fs = m.fs
       /\ m.path \in Ancestors(path)
       /\ \A k \in table : k.path \in Ancestors(path) => Len(k.path) <= Len(m.path)

Dispatches ==
  /\ OnePlaceEach(Table)
  /\ \A m \in Table : m.path \in MountPaths
  /\ \A path \in Paths : Chooses(Table, path, fileSystemForPath(path))

(* Two mounts above the same path and equally deep are at the same place.   *)
LEMMA DepthIsPlace ==
  ASSUME NEW path \in Paths, NEW p \in MountPaths, NEW q \in MountPaths,
         p \in Ancestors(path), q \in Ancestors(path), Len(p) = Len(q)
  PROVE  p = q
<1>1. path \in Seq(Characters) /\ p \in Seq(Characters) /\ q \in Seq(Characters)
  BY PathAssumption
<1>2. IsPrefix(p, path) /\ IsPrefix(q, path)
  BY StartsWithIsAbove DEF pathStartsWithMount
<1>3. SubSeq(p, 1, Len(p)) = SubSeq(q, 1, Len(q))
  BY <1>2 DEF IsPrefix
<1> QED
  BY <1>1, <1>3

(* If two tables agree on every place they both have, and on which of the   *)
(* directories of a path are places, they have one file system for it.      *)
LEMMA SameChoice ==
  ASSUME NEW T, NEW U, NEW path \in Paths, NEW f, NEW g,
         \A m \in T \cup U : m.path \in MountPaths,
         \A m \in T, k \in U : m.path = k.path => m = k,
         Chooses(T, path, f), Chooses(U, path, g),
         \A m \in T : m.path \in Ancestors(path) => \E k \in U : k.path = m.path,
         \A k \in U : k.path \in Ancestors(path) => \E m \in T : m.path = k.path
  PROVE  f = g
<1>1. CASE \A m \in T : m.path \notin Ancestors(path)
  BY <1>1 DEF Chooses
<1>2. CASE \A m \in U : m.path \notin Ancestors(path)
  BY <1>2 DEF Chooses
<1>3. CASE /\ \E m \in T :
                /\ f = m.fs /\ m.path \in Ancestors(path)
                /\ \A k \in T : k.path \in Ancestors(path) => Len(k.path) <= Len(m.path)
           /\ \E m \in U :
                /\ g = m.fs /\ m.path \in Ancestors(path)
                /\ \A k \in U : k.path \in Ancestors(path) => Len(k.path) <= Len(m.path)
  <2>1. PICK m \in T :
                /\ f = m.fs /\ m.path \in Ancestors(path)
                /\ \A k \in T : k.path \in Ancestors(path) => Len(k.path) <= Len(m.path)
    BY <1>3
  <2>2. PICK n \in U :
                /\ g = n.fs /\ n.path \in Ancestors(path)
                /\ \A k \in U : k.path \in Ancestors(path) => Len(k.path) <= Len(n.path)
    BY <1>3
  <2>3. Len(m.path) <= Len(n.path) /\ Len(n.path) <= Len(m.path)
    BY <2>1, <2>2
  <2>4. m.path \in MountPaths /\ n.path \in MountPaths
    OBVIOUS
  <2>5. Len(m.path) \in Nat /\ Len(n.path) \in Nat
    <3>1. m.path \in Seq(Characters) /\ n.path \in Seq(Characters)
      BY <2>4, PathAssumption
    <3> QED
      BY <3>1
  <2>6. Len(m.path) = Len(n.path)
    BY <2>3, <2>5
  <2>7. m.path = n.path
    BY <2>1, <2>2, <2>4, <2>6, DepthIsPlace
  <2> QED
    BY <2>1, <2>2, <2>7
<1> QED
  BY <1>1, <1>2, <1>3 DEF Chooses

(* Every table of the invariant dispatches by its deepest mounts.           *)
LEMMA TableDispatches == IInv => Dispatches
<1> SUFFICES ASSUME IInv PROVE Dispatches
  OBVIOUS
<1>type. TableType
  BY DEF IInv
<1>1. /\ DOMAIN mounts = 1 .. Len(mounts)
      /\ \A j \in 1 .. Len(mounts) : mounts[j].path \in MountPaths
  BY <1>type, EntriesTyped
<1>2. OnePlaceEach(Table)
  BY DEF IInv, OneMountEach, OnePlaceEach, Table
<1>3. \A m \in Table : m.path \in MountPaths
  BY <1>1 DEF Table
<1>4. ASSUME NEW path \in Paths
      PROVE  Chooses(Table, path, fileSystemForPath(path))
  <2>1. Deepest(path, Len(mounts), Best(path))
    BY <1>type, BestIsDeepest
  <2>2. fileSystemForPath(path) = Best(path).fs /\ NoMount.fs = NONE
    BY DEF fileSystemForPath, NoMount
  <2>3. /\ \A j \in 1 .. Len(mounts) : mounts[j] \in Table
        /\ \A m \in Table : \E j \in 1 .. Len(mounts) : m = mounts[j]
    BY <1>1 DEF Table
  <2>4. CASE /\ Best(path) = NoMount
             /\ \A j \in 1 .. Len(mounts) : mounts[j].path \notin Ancestors(path)
    BY <2>2, <2>3, <2>4 DEF Chooses
  <2>5. CASE \E i \in 1 .. Len(mounts) :
               /\ Best(path) = mounts[i]
               /\ mounts[i].path \in Ancestors(path)
               /\ \A j \in 1 .. Len(mounts) : mounts[j].path \in Ancestors(path) =>
                                                Len(mounts[j].path) <= Len(mounts[i].path)
    <3>1. PICK i \in 1 .. Len(mounts) :
               /\ Best(path) = mounts[i]
               /\ mounts[i].path \in Ancestors(path)
               /\ \A j \in 1 .. Len(mounts) : mounts[j].path \in Ancestors(path) =>
                                                Len(mounts[j].path) <= Len(mounts[i].path)
      BY <2>5
    <3>2. \A m \in Table : m.path \in Ancestors(path) => Len(m.path) <= Len(mounts[i].path)
      BY <2>3, <3>1
    <3> QED
      BY <2>2, <2>3, <3>1, <3>2, Zenon DEF Chooses
  <2> QED
    BY <2>1, <2>4, <2>5 DEF Deepest
<1> QED
  BY <1>2, <1>3, <1>4 DEF Dispatches

(* A step leaves the places that stay with the file systems they had.       *)
LEMMA PlacesKeepTheirs ==
  ASSUME IInv, EmptyAtBoot, [Next]_vars
  PROVE  \A m \in Table, k \in Table' : m.path = k.path => m = k
<1>type. TableType
  BY DEF IInv
<1>dom. DOMAIN mounts = 1 .. Len(mounts) /\ Len(mounts) \in Nat
  BY <1>type, EntriesTyped
<1>one. OnePlaceEach(Table)
  BY DEF IInv, OneMountEach, OnePlaceEach, Table
<1>same. ASSUME mounts' = mounts
         PROVE  \A m \in Table, k \in Table' : m.path = k.path => m = k
  BY <1>same, <1>one DEF OnePlaceEach, Table
<1>1. CASE \E fs \in FileSystems : mountRoot(fs)
  <2>1. Table = {}
    BY <1>1 DEF mountRoot, EmptyAtBoot, Table
  <2> QED
    BY <2>1
<1>2. CASE \E path \in MountPaths, fs \in FileSystems, device \in BlockDevices :
             mount(path, fs, device)
  <2> PICK path \in MountPaths, fs \in FileSystems, device \in BlockDevices :
             mount(path, fs, device)
    BY <1>2
  <2> DEFINE e == [path |-> path, fs |-> fs]
  <2>1. mounts' = Append(mounts, e) /\ \A i \in DOMAIN mounts : mounts[i].path # path
    BY DEF mount, AddMount
  <2>2. \A k \in Table' : k \in Table \/ k = e
    <3>1. mounts \in Seq([path : MountPaths, fs : FileSystems]) /\ e \in [path : MountPaths, fs : FileSystems]
      BY <1>type DEF TableType
    <3>2. /\ DOMAIN mounts' = 1 .. Len(mounts) + 1
          /\ \A i \in 1 .. Len(mounts) : mounts'[i] = mounts[i]
          /\ mounts'[Len(mounts) + 1] = e
      BY <2>1, <3>1
    <3>3. \A i \in 1 .. Len(mounts) + 1 : i \in 1 .. Len(mounts) \/ i = Len(mounts) + 1
      BY <1>dom
    <3> HIDE DEF e
    <3> QED
      BY <3>2, <3>3, <1>dom DEF Table
  <2>3. \A m \in Table : m.path # e.path
    BY <2>1 DEF Table
  <2> HIDE DEF e
  <2> QED
    BY <2>2, <2>3, <1>one DEF OnePlaceEach
<1>3. CASE \E path \in MountPaths : unmount(path)
  <2>1. PICK i \in DOMAIN mounts : mounts' = RemoveAt(mounts, i)
    BY <1>3 DEF unmount
  <2>2. \A k \in Table' : k \in Table
    <3>1. mounts \in Seq([path : MountPaths, fs : FileSystems])
      BY <1>type DEF TableType
    <3>2. /\ Len(mounts') = Len(mounts) - 1
          /\ mounts' \in Seq([path : MountPaths, fs : FileSystems])
          /\ \A j \in DOMAIN mounts' : mounts'[j] = mounts[IF j < i THEN j ELSE j + 1]
      BY <2>1, <3>1, RemoveAtEntries
    <3>3. \A j \in DOMAIN mounts' : (IF j < i THEN j ELSE j + 1) \in DOMAIN mounts
      BY <3>2, <1>dom
    <3> QED
      BY <3>2, <3>3 DEF Table
  <2> QED
    BY <2>2, <1>one DEF OnePlaceEach
<1>4. CASE \E path \in Paths, op \in Asserting : Lookup(op, path)
  BY <1>4, <1>same DEF Lookup
<1>5. CASE \E path \in Paths, op \in Refusing : Change(op, path)
  BY <1>5, <1>same DEF Change
<1>6. CASE \E old, new \in Paths : rename(old, new)
  BY <1>6, <1>same DEF rename
<1>7. CASE Halted \/ UNCHANGED vars
  BY <1>7, <1>same DEF Halted, vars
<1> QED
  BY <1>1, <1>2, <1>3, <1>4, <1>5, <1>6, <1>7 DEF Next

(* vfs.cpp changes the file system of a path only by a mount or an unmount  *)
(* at a directory the path lies in: /ab is not concerned by /a, and no order*)
(* of the table lets a mount elsewhere take a path over.                    *)
THEOREM MountsStayLocal == Spec => MountsAreLocal
<1> DEFINE Local ==
      \A path \in Paths :
        fileSystemForPath(path)' # fileSystemForPath(path) =>
          \E p \in MountedPaths \cup MountedPaths' :
            /\ ~(p \in MountedPaths /\ p \in MountedPaths')
            /\ p \in Ancestors(path)
<1>1. ASSUME IInv, EmptyAtBoot, Dispatches, Dispatches', [Next]_vars
      PROVE  Local
  <2> SUFFICES ASSUME NEW path \in Paths,
                      \A p \in MountedPaths \cup MountedPaths' :
                        p \in Ancestors(path) => p \in MountedPaths /\ p \in MountedPaths'
               PROVE  fileSystemForPath(path)' = fileSystemForPath(path)
    OBVIOUS
  <2>1. \A m \in Table, k \in Table' : m.path = k.path => m = k
    BY <1>1, PlacesKeepTheirs
  <2>2. \A p : p \in MountedPaths <=> \E m \in Table : m.path = p
    BY DEF MountedPaths, Table
  <2>3. \A p : p \in MountedPaths' <=> \E m \in Table' : m.path = p
    BY DEF MountedPaths, Table
  <2>4. /\ Chooses(Table, path, fileSystemForPath(path))
        /\ \A m \in Table : m.path \in MountPaths
    BY <1>1 DEF Dispatches
  <2>5. /\ Chooses(Table', path, fileSystemForPath(path)')
        /\ \A m \in Table' : m.path \in MountPaths
    BY <1>1 DEF Dispatches
  <2>6. \A m \in Table : m.path \in Ancestors(path) => \E k \in Table' : k.path = m.path
    BY <2>2, <2>3
  <2>7. \A k \in Table' : k.path \in Ancestors(path) => \E m \in Table : m.path = k.path
    BY <2>2, <2>3
  <2>8. \A m \in Table \cup Table' : m.path \in MountPaths
    BY <2>4, <2>5
  <2>9. Chooses(Table, path, fileSystemForPath(path))
    BY <2>4
  <2>10. Chooses(Table', path, fileSystemForPath(path)')
    BY <2>5
  <2> QED
    BY <2>1, <2>6, <2>7, <2>8, <2>9, <2>10, SameChoice
<1>2. IInv /\ EmptyAtBoot /\ Dispatches /\ Dispatches' /\ [Next]_vars => [Local]_vars
  BY <1>1
<1> HIDE DEF Local
<1>3. Spec => [][Local]_vars
  BY <1>2, Initial, Inductive, TableDispatches, PTL DEF Spec
<1> QED
  BY <1>3 DEF MountsAreLocal, Local
=============================================================================
