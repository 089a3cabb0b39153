---------------------------- MODULE DeviceProofs ----------------------------
(***************************************************************************)
(* The devices, for any of them of which one is a timer and one a keyboard,*)
(* any lists and any order of calls: the handlers follow the bindings and  *)
(* no device misses its driver; an ATA channel under any polling answers   *)
(* the caller that asked; enumeration finds each PCI function of any       *)
(* machine once and leaves its registers as they were; an interrupt is     *)
(* acknowledged wherever it went, so that the keyboard stays heard; and a  *)
(* console of any size and any font shows what was printed on it.          *)
(***************************************************************************)
EXTENDS Drivers, AtaPio, Pci, Interrupts, Console, WellFoundedInduction,
        TLAPS

-----------------------------------------------------------------------------
(* Drivers and their devices *)

(* What is bound to a driver that handles an interrupt passed its probe.    *)
Probed ==
  \A d \in Devices :
    /\ driver[d] = "time" => d \in Timers
    /\ driver[d] = "keyboard" => d \in Inputs

DInv ==
  /\ driver \in [Devices -> Drivers \cup {NULL}]
  /\ Probed
  /\ HandlersFollowBindings

(* Before the first device is found.                                        *)
LEMMA DInitOK == Init => DInv
<1> SUFFICES ASSUME Init PROVE DInv
  OBVIOUS
<1>1. driver = [d \in Devices |-> NULL] /\ irqs = {} /\ NULL \notin Drivers
  BY LimitAssumption DEF Init
<1> QED
  BY <1>1 DEF DInv, Probed, HandlersFollowBindings, Irq, Drivers, Devices

(* A driver that starts on a device it probed.                              *)
LEMMA OfferKeeps ==
  ASSUME DInv, NEW r, NEW d, Offer(r, d)
  PROVE  DInv'
<1> USE LimitAssumption, KindAssumption DEF DInv
<1>1. CASE UNCHANGED <<driver, irqs>>
  BY <1>1 DEF Probed, HandlersFollowBindings
<1>2. CASE probe(r, d) /\ d \notin IDEs /\ StartsIrq(r, d)
  <2>1. /\ d \in Permanent /\ d \in Devices /\ r \in {"time", "keyboard"}
        /\ r = "time" => d \in Timers
        /\ r = "keyboard" => d \in Inputs
    BY <1>2 DEF probe, Permanent, Devices
  <2>2. driver' = [driver EXCEPT ![d] = r] /\ irqs' = irqs \cup Irq(r)
    BY <1>2 DEF StartsIrq
  <2>3. driver' \in [Devices -> Drivers \cup {NULL}] /\ Probed'
    BY <2>1, <2>2 DEF Probed, Drivers
  <2>4. HandlersFollowBindings'
    <3>1. \A e \in Permanent : e \in Devices
      BY DEF Devices
    <3>2. driver'[d] = r /\ \A e \in Devices \ {d} : driver'[e] = driver[e]
      BY <2>1, <2>2
    <3>3. \A q \in {"time", "keyboard"} : q # r =>
            /\ Irq(q) \subseteq irqs' <=> Irq(q) \subseteq irqs
            /\ driver[d] # q
      BY <2>1, <2>2 DEF Irq, Probed
    <3>4. \A q \in {"time", "keyboard"} : q # r =>
            ((\E e \in Permanent : driver'[e] = q) <=> \E e \in Permanent : driver[e] = q)
      BY <2>1, <3>1, <3>2, <3>3
    <3>5. Irq(r) \subseteq irqs' /\ \E e \in Permanent : driver'[e] = r
      BY <2>1, <2>2, <3>2
    <3> QED
      BY <3>3, <3>4, <3>5 DEF HandlersFollowBindings
  <2> QED
    BY <2>3, <2>4
<1>3. CASE probe(r, d) /\ d \in IDEs /\ StartsDisks(r, d)
  <2>1. r = "ata" /\ d \in Devices
    BY <1>3 DEF probe, Permanent, Devices
  <2>2. PICK at \in AnsweringDrives :
          driver' = [e \in Devices |->
             IF e \in Disks \cap Listed(Found(d, at)) \/ (e = d /\ Found(d, at) # <<>>) THEN r
             ELSE driver[e]]
    BY <1>3 DEF StartsDisks
  <2>3. \A e \in Devices :
          driver'[e] = driver[e] \/ (driver'[e] = "ata" /\ e \in Disks \cup IDEs)
    BY <1>3, <2>1, <2>2
  <2>4. driver' \in [Devices -> Drivers \cup {NULL}]
    BY <2>1, <2>2 DEF Drivers
  <2>5. \A e \in Disks \cup IDEs : driver[e] # "time" /\ driver[e] # "keyboard"
    BY DEF Probed, Devices, Permanent
  <2>6. Probed'
    BY <2>3 DEF Probed
  <2>7. \A q \in {"time", "keyboard"}, e \in Devices : driver'[e] = q <=> driver[e] = q
    BY <2>3, <2>5
  <2>8. irqs' = irqs /\ \A e \in Permanent : e \in Devices
    BY <1>3 DEF StartsDisks, Devices
  <2> QED
    BY <2>4, <2>6, <2>7, <2>8 DEF HandlersFollowBindings
<1> QED
  BY <1>1, <1>2, <1>3 DEF Offer

(* Devices that are stopped: the only ones of their kind.                   *)
LEMMA UnbindKeeps ==
  ASSUME DInv, NEW S \in SUBSET Devices, \A d \in S : driver[d] # NULL, unbind(S)
  PROVE  DInv'
<1> USE LimitAssumption, KindAssumption DEF DInv
<1>1. /\ driver' = [d \in Devices |-> IF d \in S THEN NULL ELSE driver[d]]
      /\ irqs' = irqs \ UNION {Irq(driver[d]) : d \in S}
  BY DEF unbind, Stopped
<1>2. driver' \in [Devices -> Drivers \cup {NULL}]
  BY <1>1
<1>3. NULL \notin Drivers
  OBVIOUS
<1>4. Probed'
  BY <1>1, <1>3 DEF Probed, Drivers
<1>5. ASSUME NEW q \in {"time", "keyboard"}
      PROVE  Irq(q) \subseteq irqs' <=> \E d \in Permanent : driver'[d] = q
  <2>1. CASE \E d \in S : driver[d] = q
    <3>1. PICK d \in S : driver[d] = q
      BY <2>1
    <3>2. \A e \in Devices : driver[e] = q => e = d
      BY <3>1 DEF Probed
    <3>3. ~(\E e \in Permanent : driver'[e] = q)
      BY <1>1, <1>3, <3>1, <3>2 DEF Devices, Drivers
    <3>4. ~(Irq(q) \subseteq irqs')
      <4>1. Irq(q) # {} /\ Irq(q) \subseteq UNION {Irq(driver[e]) : e \in S}
        BY <3>1 DEF Irq
      <4> QED
        BY <4>1, <1>1
    <3> QED
      BY <3>3, <3>4
  <2>2. CASE ~(\E d \in S : driver[d] = q)
    <3>1. \A d \in S : Irq(driver[d]) \cap Irq(q) = {}
      BY <2>2 DEF Irq
    <3>2. Irq(q) \subseteq irqs' <=> Irq(q) \subseteq irqs
      BY <3>1, <1>1
    <3>3. \A e \in Permanent : driver'[e] = q <=> driver[e] = q
      BY <1>1, <1>3, <2>2 DEF Devices, Drivers
    <3> QED
      BY <3>2, <3>3 DEF HandlersFollowBindings
  <2> QED
    BY <2>1, <2>2
<1> QED
  BY <1>2, <1>4, <1>5 DEF HandlersFollowBindings

(* Every call of the driver framework, one case per action.                 *)
LEMMA DStepOK == DInv /\ [Next]_vars => DInv'
<1> SUFFICES ASSUME DInv, [Next]_vars
             PROVE  DInv'
  OBVIOUS
<1>1. CASE UNCHANGED <<driver, irqs>>
  BY <1>1 DEF DInv, Probed, HandlersFollowBindings
<1>2. CASE tryBind
  BY <1>1, <1>2, OfferKeeps DEF tryBind, TryDriver, TryDevice, Done
<1>3. CASE (\E d \in Permanent : registerDevice(d)) \/ (\E r \in Drivers : registerDriver(r))
  BY <1>1, <1>3 DEF registerDevice, registerDriver
<1>4. ASSUME NEW d \in Devices, unregisterDevice(d)
      PROVE  DInv'
  BY <1>4, UnbindKeeps DEF unregisterDevice
<1>5. ASSUME NEW r \in Drivers, unregisterDriver(r)
      PROVE  DInv'
  <2>1. /\ unbind(BoundTo(r))
        /\ BoundTo(r) \in SUBSET Devices
        /\ \A d \in BoundTo(r) : driver[d] # NULL
    BY <1>5, LimitAssumption DEF unregisterDriver, BoundTo
  <2> QED
    BY <2>1, UnbindKeeps
<1> QED
  BY <1>1, <1>2, <1>3, <1>4, <1>5 DEF Next, vars

(* An interrupt has its handler exactly while a device is bound to the      *)
(* driver that handles it (pit.cpp, keyboard.cpp and drivers.cpp:23-206).   *)
THEOREM HandlersFollow == Spec => []HandlersFollowBindings
<1>1. DInv => HandlersFollowBindings
  BY DEF DInv
<1> QED
  BY <1>1, DInitOK, DStepOK, PTL DEF Spec

-----------------------------------------------------------------------------
(* No device misses its driver *)

ListsOK ==
  /\ devices \in Seq(Devices) /\ Len(devices) <= MaxDevices
  /\ \A i, j \in DOMAIN devices :
       devices[i] \in Permanent /\ devices[i] = devices[j] => i = j
  /\ drivers \in Seq(Drivers)
  /\ \A i, j \in DOMAIN drivers : drivers[i] = drivers[j] => i = j

(* A device has the driver that its probe says.                             *)
Bound ==
  /\ driver \in [Devices -> Drivers \cup {NULL}]
  /\ starts \in 0 .. MaxStarts
  /\ \A d \in Permanent : driver[d] # NULL => probe(driver[d], d)

Settled(r, d) == driver[d] = r \/ [driver |-> r, device |-> d] \in refused

(* The walk in progress has yet to come to the pair.                        *)
Waits(r, d) ==
  \/ /\ call.op = "device" /\ call.subject = d
     /\ \E j \in DOMAIN drivers : call.i <= j /\ drivers[j] = r
  \/ /\ call.op = "driver" /\ call.subject = r
     /\ \E j \in DOMAIN devices : call.i <= j /\ devices[j] = d

WalkOK ==
  /\ call = Idle \/ (call.op \in {"device", "driver"} /\ 1 <= call.i)
  /\ call \in [op : {"idle", "device", "driver"}, subject : Permanent \cup Drivers \cup {NULL},
               i : Nat]
  /\ call.op = "device" => call.subject \in Permanent /\ driver[call.subject] = NULL
  /\ call.op = "driver" => call.subject \in Drivers

NoneForgotten ==
  \A d \in Permanent, r \in Drivers :
    d \in Listed(devices) /\ r \in Listed(drivers) /\ probe(r, d)
      => Settled(r, d) \/ Waits(r, d)

MissInv == ListsOK /\ Bound /\ WalkOK /\ NoneForgotten

(* Only one driver takes a kind of device, and none takes a disk.           *)
LEMMA ProbesAreExclusive ==
  ASSUME NEW d, NEW q, NEW r, probe(q, d)
  PROVE  /\ d \in Permanent /\ d \notin Disks /\ q \in Drivers
         /\ probe(r, d) => r = q
BY KindAssumption DEF probe, Permanent, Drivers

(* The entries after one is removed are the others, under new indices.      *)
LEMMA RemoveAtEntries ==
  ASSUME NEW S, NEW s \in Seq(S), NEW i \in DOMAIN s
  PROVE  /\ RemoveAt(s, i) \in Seq(S)
         /\ Len(RemoveAt(s, i)) = Len(s) - 1
         /\ \A j \in DOMAIN RemoveAt(s, i) :
              RemoveAt(s, i)[j] = s[IF j < i THEN j ELSE j + 1]
<1> DEFINE A == SubSeq(s, 1, i - 1)
           B == SubSeq(s, i + 1, Len(s))
<1>1. i \in 1 .. Len(s) /\ Len(s) \in Nat
  OBVIOUS
<1>2. /\ A \in Seq(S) /\ Len(A) = i - 1
      /\ \A j \in 1 .. i - 1 : A[j] = s[j]
  BY <1>1
<1>3. /\ B \in Seq(S) /\ Len(B) = Len(s) - i
      /\ \A j \in 1 .. Len(s) - i : B[j] = s[i + j]
  BY <1>1
<1>4. RemoveAt(s, i) = A \o B
  BY DEF RemoveAt
<1> HIDE DEF A, B
<1>5. /\ A \o B \in Seq(S)
      /\ Len(A \o B) = Len(s) - 1
      /\ DOMAIN (A \o B) = 1 .. Len(s) - 1
  BY <1>1, <1>2, <1>3
<1>6. \A j \in 1 .. Len(s) - 1 : (A \o B)[j] = s[IF j < i THEN j ELSE j + 1]
  <2> TAKE j \in 1 .. Len(s) - 1
  <2>1. CASE j < i
    <3>1. (A \o B)[j] = A[j]
      BY <2>1, <1>1, <1>2, <1>3
    <3> QED
      BY <3>1, <2>1, <1>1, <1>2
  <2>2. CASE j >= i
    <3>1. (A \o B)[j] = B[j - (i - 1)] /\ j - (i - 1) \in 1 .. Len(s) - i
      BY <2>2, <1>1, <1>2, <1>3
    <3>2. B[j - (i - 1)] = s[i + (j - (i - 1))] /\ i + (j - (i - 1)) = j + 1
      BY <3>1, <1>3, <1>1
    <3> QED
      BY <3>1, <3>2, <2>2, <1>1
  <2>3. j < i \/ j >= i
    BY <1>1
  <2> QED
    BY <2>1, <2>2, <2>3, Zenon
<1> QED
  BY <1>4, <1>5, <1>6

(* A list without one entry names the others, and that one no more unless   *)
(* it was there twice.                                                      *)
LEMMA RemoveListed ==
  ASSUME NEW S, NEW s \in Seq(S), NEW i \in DOMAIN s,
         NEW t, t = RemoveAt(s, i)
  PROVE  /\ t \in Seq(S) /\ Len(t) <= Len(s)
         /\ Listed(t) \subseteq Listed(s)
         /\ (\A j \in DOMAIN s : s[j] = s[i] => j = i) => s[i] \notin Listed(t)
         /\ \A k, l \in DOMAIN t : k # l =>
              \E m, n \in DOMAIN s : m # n /\ s[m] = t[k] /\ s[n] = t[l]
<1>1. /\ t \in Seq(S) /\ Len(t) = Len(s) - 1
      /\ \A j \in DOMAIN t : t[j] = s[IF j < i THEN j ELSE j + 1]
  BY RemoveAtEntries
<1>2. i \in 1 .. Len(s) /\ Len(s) \in Nat /\ DOMAIN t = 1 .. Len(s) - 1 /\ DOMAIN s = 1 .. Len(s)
  BY <1>1
<1>3. \A j \in DOMAIN t : \E k \in DOMAIN s : t[j] = s[k] /\ k # i
  <2> TAKE j \in DOMAIN t
  <2>1. CASE j < i
    BY <1>1, <1>2, <2>1
  <2>2. CASE j >= i
    <3>1. j + 1 \in DOMAIN s /\ j + 1 # i /\ ~(j < i)
      BY <1>2, <2>2
    <3> QED
      BY <1>1, <3>1
  <2> QED
    BY <1>2, <2>1, <2>2
<1>4. \A k, l \in DOMAIN t : k # l =>
        \E m, n \in DOMAIN s : m # n /\ s[m] = t[k] /\ s[n] = t[l]
  <2> SUFFICES ASSUME NEW k \in DOMAIN t, NEW l \in DOMAIN t, k # l
               PROVE  \E m, n \in DOMAIN s : m # n /\ s[m] = t[k] /\ s[n] = t[l]
    OBVIOUS
  <2> DEFINE m == IF k < i THEN k ELSE k + 1
             n == IF l < i THEN l ELSE l + 1
  <2>1. m \in DOMAIN s /\ n \in DOMAIN s /\ m # n
    BY <1>2
  <2>2. s[m] = t[k] /\ s[n] = t[l]
    BY <1>1
  <2> QED
    BY <2>1, <2>2
<1>5. /\ Listed(t) \subseteq Listed(s)
      /\ (\A j \in DOMAIN s : s[j] = s[i] => j = i) => s[i] \notin Listed(t)
  BY <1>3 DEF Listed
<1> QED
  BY <1>1, <1>2, <1>4, <1>5

(* What an offer does to the lists and the settled pairs.                   *)
OfferDone(r, d) ==
  /\ Bound'
  /\ devices' \in Seq(Devices) /\ Len(devices') <= MaxDevices /\ Len(devices) <= Len(devices')
  /\ \A i \in DOMAIN devices : devices'[i] = devices[i]
  /\ \A i \in DOMAIN devices' : i \notin DOMAIN devices => devices'[i] \in Disks
  /\ probe(r, d) => Settled(r, d)'
  /\ \A e \in Permanent \ {d} : driver'[e] = driver[e]
  /\ refused \subseteq refused'

(* The disks found are new entries behind those there were.                 *)
LEMMA WithDisksFacts ==
  ASSUME devices \in Seq(Devices), Len(devices) <= MaxDevices,
         NEW found \in Seq(Disks), NEW t, t = WithDisks(found)
  PROVE  /\ t \in Seq(Devices) /\ Len(t) <= MaxDevices /\ Len(devices) <= Len(t)
         /\ \A i \in DOMAIN devices : t[i] = devices[i]
         /\ \A i \in DOMAIN t : i \notin DOMAIN devices => t[i] \in Disks
<1> DEFINE all == devices \o found
           n == IF Len(all) <= MaxDevices THEN Len(all) ELSE MaxDevices
<1>1. found \in Seq(Devices) /\ MaxDevices \in Nat
  BY LimitAssumption DEF Devices
<1>2. /\ all \in Seq(Devices) /\ Len(all) = Len(devices) + Len(found)
      /\ \A i \in 1 .. Len(all) : all[i] = IF i <= Len(devices) THEN devices[i]
                                           ELSE found[i - Len(devices)]
      /\ Len(devices) \in Nat /\ Len(found) \in Nat
  BY <1>1
<1>3. t = SubSeq(all, 1, n)
  BY DEF WithDisks
<1> HIDE DEF all
<1>4. n \in Nat /\ n <= Len(all) /\ n <= MaxDevices /\ Len(devices) <= n
  BY <1>1, <1>2
<1> HIDE DEF n
<1>5. t \in Seq(Devices) /\ Len(t) = n /\ \A i \in 1 .. n : t[i] = all[i]
  BY <1>2, <1>3, <1>4
<1>6. DOMAIN devices = 1 .. Len(devices) /\ DOMAIN t = 1 .. n
  BY <1>5
<1>7. \A i \in DOMAIN devices : t[i] = devices[i]
  BY <1>2, <1>4, <1>5, <1>6
<1>8. \A i \in DOMAIN t : i \notin DOMAIN devices => t[i] \in Disks
  <2> SUFFICES ASSUME NEW i \in DOMAIN t, i \notin DOMAIN devices PROVE t[i] \in Disks
    OBVIOUS
  <2>1. i \in 1 .. Len(all) /\ i > Len(devices) /\ t[i] = all[i]
    BY <1>2, <1>4, <1>5, <1>6
  <2>2. t[i] = found[i - Len(devices)] /\ i - Len(devices) \in 1 .. Len(found)
    BY <1>2, <2>1
  <2> QED
    BY <2>2
<1> QED
  BY <1>2, <1>4, <1>5, <1>7, <1>8

(* A driver offered a device takes it, fails on it, or passes.              *)
LEMMA OfferSettles ==
  ASSUME ListsOK, Bound, NEW r \in Drivers, NEW d \in Devices, driver[d] = NULL, Offer(r, d)
  PROVE  OfferDone(r, d)
<1>0. /\ NULL \notin Devices /\ NULL \notin Drivers /\ Permanent \subseteq Devices
      /\ devices \in Seq(Devices) /\ Len(devices) <= MaxDevices
  BY LimitAssumption DEF Devices, ListsOK
<1>1. CASE ~probe(r, d) /\ UNCHANGED <<devices, driver, irqs, starts, refused>>
  <2>1. Bound'
    BY <1>1 DEF Bound, probe
  <2> QED
    BY <1>0, <1>1, <2>1 DEF OfferDone
<1>2. CASE probe(r, d) /\ d \notin IDEs /\ StartsIrq(r, d)
  <2>1. /\ driver' = [driver EXCEPT ![d] = r] /\ devices' = devices
        /\ starts' = starts /\ refused' = refused
    BY <1>2 DEF StartsIrq
  <2>2. driver'[d] = r /\ \A e \in Devices \ {d} : driver'[e] = driver[e]
    BY <2>1 DEF Bound
  <2>3. driver' \in [Devices -> Drivers \cup {NULL}]
    BY <2>1 DEF Bound
  <2>4. \A e \in Permanent : driver'[e] # NULL => probe(driver'[e], e)
    BY <1>0, <1>2, <2>2 DEF Bound
  <2>5. Bound'
    BY <2>1, <2>3, <2>4 DEF Bound, probe
  <2> QED
    BY <1>0, <2>1, <2>2, <2>5 DEF OfferDone, Settled
<1>3. CASE probe(r, d) /\ d \in IDEs /\ StartsDisks(r, d)
  <2>1. starts < MaxStarts /\ starts' = starts + 1
    BY <1>3 DEF StartsDisks
  <2>2. PICK at \in AnsweringDrives :
          /\ devices' = WithDisks(Found(d, at))
          /\ driver' = [e \in Devices |->
               IF e \in Disks \cap Listed(Found(d, at)) \/ (e = d /\ Found(d, at) # <<>>) THEN r
               ELSE driver[e]]
          /\ refused' = IF Found(d, at) # <<>> THEN refused
                        ELSE refused \cup {[driver |-> r, device |-> d]}
    BY <1>3 DEF StartsDisks
  <2>3. PICK found : found = Found(d, at)
    OBVIOUS
  <2>4. found \in Seq(Disks)
    <3>1. PICK n \in 0 .. Len(Drives) : at \in [1 .. n -> DOMAIN Drives]
      BY DEF AnsweringDrives
    <3>2. starts + 1 \in 1 .. MaxStarts
      BY <2>1, LimitAssumption DEF Bound
    <3>3. \A i \in 1 .. n :
            [parent |-> d, drive |-> Drives[at[i]], start |-> starts + 1] \in Disks
      BY <1>3, <3>1, <3>2 DEF Disks
    <3>4. found = [i \in 1 .. n |->
                     [parent |-> d, drive |-> Drives[at[i]], start |-> starts + 1]]
      BY <2>3, <3>1 DEF Found
    <3>5. found \in [1 .. n -> Disks]
      BY <3>3, <3>4
    <3> QED
      BY <3>1, <3>5
  <2>5. /\ devices' \in Seq(Devices) /\ Len(devices') <= MaxDevices
        /\ Len(devices) <= Len(devices')
        /\ \A i \in DOMAIN devices : devices'[i] = devices[i]
        /\ \A i \in DOMAIN devices' : i \notin DOMAIN devices => devices'[i] \in Disks
    BY <1>0, <2>2, <2>3, <2>4, WithDisksFacts
  <2>6. driver' \in [Devices -> Drivers \cup {NULL}]
    BY <2>2 DEF Bound
  <2>7. \A e \in Permanent \ {d} : driver'[e] = driver[e]
    BY <1>0, <2>2, KindAssumption
  <2>8. driver'[d] = IF found # <<>> THEN r ELSE NULL
    BY <1>3, <2>2, <2>3, KindAssumption DEF Permanent
  <2>9. Bound'
    <3>1. starts' \in 0 .. MaxStarts
      BY <2>1, LimitAssumption DEF Bound
    <3>2. \A e \in Permanent : driver'[e] # NULL => probe(driver'[e], e)
      BY <1>3, <2>7, <2>8 DEF Bound
    <3> QED
      BY <2>6, <3>1, <3>2 DEF Bound, probe
  <2>10. Settled(r, d)'
    BY <2>2, <2>3, <2>8 DEF Settled
  <2>11. refused \subseteq refused'
    BY <2>2
  <2> QED
    BY <2>5, <2>7, <2>9, <2>10, <2>11 DEF OfferDone
<1> QED
  BY <1>1, <1>2, <1>3 DEF Offer

(* What an offer has settled stays so, and adds no pair.                    *)
LEMMA OfferKeepsPairs ==
  ASSUME MissInv, NEW r \in Drivers, NEW d \in Devices, driver[d] = NULL, OfferDone(r, d),
         drivers' = drivers
  PROVE  /\ ListsOK'
         /\ Listed(devices) \subseteq Listed(devices')
         /\ \A e \in Permanent : e \in Listed(devices') => e \in Listed(devices)
         /\ \A e \in Permanent, q \in Drivers : Settled(q, e) => Settled(q, e)'
<1>1. /\ devices' \in Seq(Devices) /\ Len(devices') <= MaxDevices /\ Len(devices) <= Len(devices')
      /\ \A i \in DOMAIN devices : devices'[i] = devices[i]
      /\ \A i \in DOMAIN devices' : i \notin DOMAIN devices => devices'[i] \in Disks
      /\ devices \in Seq(Devices)
  BY DEF OfferDone, MissInv, ListsOK
<1>2. DOMAIN devices \subseteq DOMAIN devices'
  BY <1>1
<1>3. \A i \in DOMAIN devices' : devices'[i] \in Permanent => i \in DOMAIN devices
  BY <1>1, KindAssumption
<1>4. \A i, j \in DOMAIN devices' :
        devices'[i] \in Permanent /\ devices'[i] = devices'[j] => i = j
  BY <1>1, <1>3 DEF MissInv, ListsOK
<1>5. ListsOK'
  BY <1>1, <1>4 DEF MissInv, ListsOK
<1>6. Listed(devices) \subseteq Listed(devices')
  BY <1>1, <1>2 DEF Listed
<1>7. \A e \in Permanent : e \in Listed(devices') => e \in Listed(devices)
  BY <1>1, <1>3 DEF Listed
<1>8. \A e \in Permanent, q \in Drivers : Settled(q, e) => Settled(q, e)'
  BY LimitAssumption DEF OfferDone, Settled
<1> QED
  BY <1>5, <1>6, <1>7, <1>8

(* The record of the walk, one entry on.                                    *)
LEMMA AdvanceFields ==
  ASSUME WalkOK, NEW c, c = Advance
  PROVE  /\ c \in [op : {"idle", "device", "driver"},
                  subject : Permanent \cup Drivers \cup {NULL}, i : Nat]
         /\ c.op = call.op /\ c.subject = call.subject /\ c.i = call.i + 1
         /\ call.i \in Nat
BY DEF WalkOK, Advance

(* No walk is under way.                                                    *)
LEMMA IdleWalks ==
  ASSUME call' = Idle
  PROVE  WalkOK'
<1>1. PICK c : c = Idle
  OBVIOUS
<1>2. /\ c.op = "idle"
      /\ c \in [op : {"idle", "device", "driver"},
                subject : Permanent \cup Drivers \cup {NULL}, i : Nat]
  BY <1>1 DEF Idle
<1>3. call' = c /\ call' = Idle
  BY <1>1
<1>4. Idle' = Idle
  BY DEF Idle
<1> QED
  BY <1>2, <1>3, <1>4 DEF WalkOK

(* A turn of tryBind(Device&).                                              *)
LEMMA TryDriverKeeps ==
  ASSUME MissInv, TryDriver
  PROVE  MissInv'
<1> PICK r, d, i : r = drivers[call.i] /\ d = call.subject /\ i = call.i
  OBVIOUS
<1>1. /\ call.op = "device" /\ i <= Len(drivers) /\ Offer(r, d) /\ drivers' = drivers
      /\ call' = IF driver'[d] # NULL THEN Idle ELSE Advance
  BY DEF TryDriver
<1>2. /\ d \in Permanent /\ d \in Devices /\ driver[d] = NULL /\ i \in Nat /\ 1 <= i
  BY <1>1 DEF MissInv, WalkOK, Devices, Idle
<1>3. drivers \in Seq(Drivers) /\ NULL \notin Drivers /\ r \in Drivers /\ i \in DOMAIN drivers
  BY <1>1, <1>2, LimitAssumption DEF MissInv, ListsOK
<1>4. OfferDone(r, d)
  BY <1>1, <1>2, <1>3, OfferSettles DEF MissInv
<1>5. /\ ListsOK'
      /\ \A e \in Permanent : e \in Listed(devices') => e \in Listed(devices)
      /\ \A e \in Permanent, q \in Drivers : Settled(q, e) => Settled(q, e)'
  BY <1>1, <1>2, <1>3, <1>4, OfferKeepsPairs
<1>6. CASE driver'[d] # NULL
  <2>1. call' = Idle
    BY <1>1, <1>6
  <2>2. WalkOK'
    BY <2>1, IdleWalks
  <2>3. \A q \in Drivers : probe(q, d) => Settled(q, d)'
    <3>1. probe(driver'[d], d)
      BY <1>2, <1>4, <1>6 DEF OfferDone, Bound, probe
    <3> QED
      BY <3>1, ProbesAreExclusive DEF Settled
  <2>4. NoneForgotten'
    <3> SUFFICES ASSUME NEW e \in Permanent, NEW q \in Drivers,
                        e \in Listed(devices'), q \in Listed(drivers'), probe(q, e)
                 PROVE  Settled(q, e)'
      BY DEF NoneForgotten, probe
    <3>1. Settled(q, e) \/ Waits(q, e)
      BY <1>1, <1>5 DEF MissInv, NoneForgotten
    <3>2. Waits(q, e) => e = d
      BY <1>1 DEF Waits
    <3> QED
      BY <1>5, <2>3, <3>1, <3>2
  <2> QED
    BY <1>4, <1>5, <2>2, <2>4 DEF MissInv, OfferDone
<1>7. CASE driver'[d] = NULL
  <2>1. call' = Advance
    BY <1>1, <1>7
  <2>2. /\ call' \in [op : {"idle", "device", "driver"},
                      subject : Permanent \cup Drivers \cup {NULL}, i : Nat]
        /\ call'.op = "device" /\ call'.subject = d /\ call'.i = i + 1
    BY <1>1, <2>1, AdvanceFields DEF MissInv
  <2>3. WalkOK'
    BY <1>2, <1>7, <2>2 DEF WalkOK
  <2>4. NoneForgotten'
    <3> SUFFICES ASSUME NEW e \in Permanent, NEW q \in Drivers,
                        e \in Listed(devices'), q \in Listed(drivers'), probe(q, e)
                 PROVE  Settled(q, e)' \/ Waits(q, e)'
      BY DEF NoneForgotten, probe
    <3>1. Settled(q, e) \/ Waits(q, e)
      BY <1>1, <1>5 DEF MissInv, NoneForgotten
    <3>2. CASE Waits(q, e)
      <4>1. e = d
        BY <1>1, <3>2 DEF Waits
      <4>2. PICK j \in DOMAIN drivers : i <= j /\ drivers[j] = q
        BY <1>1, <3>2 DEF Waits
      <4>3. CASE j = i
        <5>1. q = r
          BY <4>2, <4>3
        <5> QED
          BY <1>4, <4>1, <5>1 DEF OfferDone
      <4>4. CASE j # i
        <5>1. i + 1 <= j
          BY <1>2, <1>3, <4>2, <4>4
        <5> QED
          BY <1>1, <2>2, <4>1, <4>2, <5>1 DEF Waits
      <4> QED
        BY <4>3, <4>4
    <3> QED
      BY <1>5, <3>1, <3>2
  <2> QED
    BY <1>4, <1>5, <2>3, <2>4 DEF MissInv, OfferDone
<1> QED
  BY <1>6, <1>7

(* A turn of tryBind(Driver&), over a device that has a driver or has not.  *)
LEMMA TryDeviceKeeps ==
  ASSUME MissInv, TryDevice
  PROVE  MissInv'
<1> PICK r, d, i : r = call.subject /\ d = devices[call.i] /\ i = call.i
  OBVIOUS
<1>1. /\ call.op = "driver" /\ i <= Len(devices) /\ drivers' = drivers /\ call' = Advance
      /\ IF driver[d] = NULL THEN Offer(r, d)
         ELSE UNCHANGED <<devices, driver, state, irqs, starts, refused>>
  BY DEF TryDevice
<1>2. /\ call' \in [op : {"idle", "device", "driver"},
                    subject : Permanent \cup Drivers \cup {NULL}, i : Nat]
      /\ call'.op = "driver" /\ call'.subject = r /\ call'.i = i + 1 /\ i \in Nat
  BY <1>1, AdvanceFields DEF MissInv
<1>3. r \in Drivers /\ 1 <= i
  BY <1>1 DEF MissInv, WalkOK, Idle
<1>4. i \in DOMAIN devices /\ devices \in Seq(Devices) /\ d \in Devices
  BY <1>1, <1>2, <1>3 DEF MissInv, ListsOK
<1>5. WalkOK'
  BY <1>2, <1>3 DEF WalkOK
<1>6. /\ ListsOK' /\ Bound'
      /\ probe(r, d) => Settled(r, d)'
      /\ \A j \in DOMAIN devices : j \in DOMAIN devices' /\ devices'[j] = devices[j]
      /\ \A e \in Permanent : e \in Listed(devices') => e \in Listed(devices)
      /\ \A e \in Permanent, q \in Drivers : Settled(q, e) => Settled(q, e)'
  <2>1. CASE driver[d] = NULL
    <3>1. OfferDone(r, d)
      BY <1>1, <1>3, <1>4, <2>1, OfferSettles DEF MissInv
    <3>2. \A j \in DOMAIN devices : j \in DOMAIN devices' /\ devices'[j] = devices[j]
      BY <1>4, <3>1 DEF OfferDone
    <3> QED
      BY <1>1, <1>3, <1>4, <2>1, <3>1, <3>2, OfferKeepsPairs DEF OfferDone
  <2>2. CASE driver[d] # NULL
    <3>1. UNCHANGED <<devices, driver, state, irqs, starts, refused>>
      BY <1>1, <2>2
    <3>2. ListsOK' /\ Bound'
      BY <1>1, <3>1 DEF MissInv, ListsOK, Bound, probe
    <3>3. probe(r, d) => driver[d] = r
      <4> SUFFICES ASSUME probe(r, d) PROVE driver[d] = r
        OBVIOUS
      <4>1. d \in Permanent
        BY ProbesAreExclusive
      <4>2. probe(driver[d], d)
        BY <2>2, <4>1 DEF MissInv, Bound
      <4> QED
        BY <4>2, ProbesAreExclusive
    <3> QED
      BY <3>1, <3>2, <3>3 DEF Settled
  <2> QED
    BY <2>1, <2>2
<1>7. NoneForgotten'
  <2> SUFFICES ASSUME NEW e \in Permanent, NEW q \in Drivers,
                      e \in Listed(devices'), q \in Listed(drivers'), probe(q, e)
               PROVE  Settled(q, e)' \/ Waits(q, e)'
    BY DEF NoneForgotten, probe
  <2>1. Settled(q, e) \/ Waits(q, e)
    BY <1>1, <1>6 DEF MissInv, NoneForgotten
  <2>2. CASE Waits(q, e)
    <3>1. q = r
      BY <1>1, <2>2 DEF Waits
    <3>2. PICK j \in DOMAIN devices : i <= j /\ devices[j] = e
      BY <1>1, <2>2 DEF Waits
    <3>3. CASE j = i
      BY <1>6, <3>1, <3>2, <3>3
    <3>4. CASE j # i
      <4>1. i + 1 <= j
        BY <1>2, <1>4, <3>2, <3>4
      <4> QED
        BY <1>2, <1>6, <3>1, <3>2, <4>1 DEF Waits
    <3> QED
      BY <3>3, <3>4
  <2> QED
    BY <1>6, <2>1, <2>2
<1> QED
  BY <1>5, <1>6, <1>7 DEF MissInv

(* When the walk is over, it has come to every pair.                        *)
LEMMA DoneKeeps ==
  ASSUME MissInv, Done
  PROVE  MissInv'
<1>1. /\ call # Idle /\ call' = Idle
      /\ call.i > Len(IF call.op = "device" THEN drivers ELSE devices)
      /\ UNCHANGED <<devices, drivers, driver, state, irqs, starts, refused>>
  BY DEF Done
<1>2. WalkOK'
  BY <1>1, IdleWalks
<1>3. ListsOK' /\ Bound'
  BY <1>1 DEF MissInv, ListsOK, Bound, probe
<1>4. \A e, q : ~Waits(q, e)
  BY <1>1 DEF Waits, MissInv, WalkOK, ListsOK
<1>5. NoneForgotten'
  BY <1>1, <1>4 DEF MissInv, NoneForgotten, Settled, probe
<1> QED
  BY <1>2, <1>3, <1>5 DEF MissInv

(* Between the walks every pair is settled.                                 *)
LEMMA IdleSettled ==
  ASSUME MissInv, call = Idle, NEW d \in Listed(devices), NEW r \in Listed(drivers), probe(r, d)
  PROVE  d \in Permanent /\ r \in Drivers /\ Settled(r, d)
<1>1. d \in Permanent /\ r \in Drivers
  BY ProbesAreExclusive
<1>2. ~Waits(r, d)
  BY DEF Waits, Idle
<1> QED
  BY <1>1, <1>2 DEF MissInv, NoneForgotten

(* A list with one more entry.                                              *)
LEMMA AppendEntries ==
  ASSUME NEW S, NEW s \in Seq(S), NEW x \in S, NEW t, t = Append(s, x)
  PROVE  /\ t \in Seq(S) /\ Len(t) = Len(s) + 1 /\ t[Len(s) + 1] = x
         /\ \A i \in DOMAIN s : t[i] = s[i]
         /\ DOMAIN t = DOMAIN s \cup {Len(s) + 1} /\ Len(s) + 1 \notin DOMAIN s
OBVIOUS

(* It names one more.                                                       *)
LEMMA AppendListed ==
  ASSUME NEW S, NEW s \in Seq(S), NEW x \in S, NEW t, t = Append(s, x)
  PROVE  \A y : y \in Listed(t) <=> y \in Listed(s) \/ y = x
BY AppendEntries DEF Listed

(* It names nobody twice that it did not name twice before.                 *)
LEMMA AppendOnce ==
  ASSUME NEW S, NEW s \in Seq(S), NEW x \in S, NEW t, t = Append(s, x), x \notin Listed(s)
  PROVE  \A i, j \in DOMAIN t : t[i] = t[j] =>
           i = j \/ (i \in DOMAIN s /\ j \in DOMAIN s /\ s[i] = s[j] /\ s[i] = t[i])
BY AppendEntries DEF Listed

(* A device that is registered with a driver already has the one that its   *)
(* probe says; one without is offered to all drivers.                       *)
LEMMA RegisterDeviceKeeps ==
  ASSUME MissInv, NEW d \in Permanent, registerDevice(d)
  PROVE  MissInv'
<1>1. /\ call = Idle /\ d \notin Listed(devices) /\ Len(devices) < MaxDevices
      /\ devices' = Append(devices, d)
      /\ call' = IF driver[d] # NULL THEN Idle ELSE [op |-> "device", subject |-> d, i |-> 1]
      /\ UNCHANGED <<drivers, driver, state, irqs, starts, refused>>
  BY DEF registerDevice
<1>2. devices \in Seq(Devices) /\ d \in Devices /\ MaxDevices \in Nat /\ Len(devices) \in Nat
  BY LimitAssumption DEF MissInv, ListsOK, Devices
<1>3. PICK t : t = Append(devices, d)
  OBVIOUS
<1>4. /\ t \in Seq(Devices) /\ Len(t) <= MaxDevices
      /\ \A y : y \in Listed(t) <=> y \in Listed(devices) \/ y = d
      /\ \A i, j \in DOMAIN t : t[i] = t[j] =>
           i = j \/ (i \in DOMAIN devices /\ j \in DOMAIN devices /\ devices[i] = devices[j]
                     /\ devices[i] = t[i])
  <2>1. t \in Seq(Devices) /\ Len(t) <= MaxDevices
    BY <1>1, <1>2, <1>3
  <2>2. \A y : y \in Listed(t) <=> y \in Listed(devices) \/ y = d
    BY <1>2, <1>3, AppendListed
  <2>3. \A i, j \in DOMAIN t : t[i] = t[j] =>
          i = j \/ (i \in DOMAIN devices /\ j \in DOMAIN devices /\ devices[i] = devices[j]
                    /\ devices[i] = t[i])
    BY <1>1, <1>2, <1>3, AppendOnce
  <2> QED
    BY <2>1, <2>2, <2>3
<1>5. ListsOK'
  BY <1>1, <1>3, <1>4 DEF MissInv, ListsOK
<1>6. Bound'
  BY <1>1 DEF MissInv, Bound, probe
<1>7. \A e \in Permanent, q \in Drivers :
        e \in Listed(devices) /\ q \in Listed(drivers) /\ probe(q, e) => Settled(q, e)'
  BY <1>1, IdleSettled DEF Settled
<1>8. CASE driver[d] # NULL
  <2>1. WalkOK'
    BY <1>1, <1>8, IdleWalks
  <2>2. probe(driver[d], d)
    BY <1>8 DEF MissInv, Bound
  <2>3. \A q \in Drivers : probe(q, d) => Settled(q, d)'
    BY <1>1, <2>2, ProbesAreExclusive DEF Settled
  <2>4. NoneForgotten'
    BY <1>1, <1>3, <1>4, <1>7, <2>3 DEF NoneForgotten, probe
  <2> QED
    BY <1>5, <1>6, <2>1, <2>4 DEF MissInv
<1>9. CASE driver[d] = NULL
  <2>1. call' = [op |-> "device", subject |-> d, i |-> 1]
    BY <1>1, <1>9
  <2>2. WalkOK'
    BY <1>1, <1>9, <2>1 DEF WalkOK
  <2>3. \A q \in Drivers : q \in Listed(drivers) => Waits(q, d)'
    <3> SUFFICES ASSUME NEW q \in Drivers, q \in Listed(drivers) PROVE Waits(q, d)'
      OBVIOUS
    <3>1. PICK j \in DOMAIN drivers : drivers[j] = q
      BY DEF Listed
    <3>2. 1 <= j
      BY <3>1 DEF MissInv, ListsOK
    <3> QED
      BY <1>1, <2>1, <3>1, <3>2 DEF Waits
  <2>4. NoneForgotten'
    BY <1>1, <1>3, <1>4, <1>7, <2>3 DEF NoneForgotten, probe
  <2> QED
    BY <1>5, <1>6, <2>2, <2>4 DEF MissInv
<1> QED
  BY <1>8, <1>9

(* A driver that is registered is offered all devices.                      *)
LEMMA RegisterDriverKeeps ==
  ASSUME MissInv, NEW r \in Drivers, registerDriver(r)
  PROVE  MissInv'
<1>1. /\ call = Idle /\ r \notin Listed(drivers) /\ drivers' = Append(drivers, r)
      /\ call' = [op |-> "driver", subject |-> r, i |-> 1]
      /\ UNCHANGED <<devices, driver, irqs, starts, refused>>
  BY DEF registerDriver
<1> PICK t : t = Append(drivers, r)
  OBVIOUS
<1>2. /\ t \in Seq(Drivers)
      /\ \A y : y \in Listed(t) <=> y \in Listed(drivers) \/ y = r
      /\ \A i, j \in DOMAIN t : t[i] = t[j] =>
           i = j \/ (i \in DOMAIN drivers /\ j \in DOMAIN drivers /\ drivers[i] = drivers[j])
  <2>1. drivers \in Seq(Drivers) /\ r \notin Listed(drivers)
    BY <1>1 DEF MissInv, ListsOK
  <2>2. t \in Seq(Drivers)
    BY <2>1
  <2>3. \A y : y \in Listed(t) <=> y \in Listed(drivers) \/ y = r
    BY <2>1, AppendListed
  <2>4. \A i, j \in DOMAIN t : t[i] = t[j] =>
          i = j \/ (i \in DOMAIN drivers /\ j \in DOMAIN drivers /\ drivers[i] = drivers[j])
    BY <2>1, AppendOnce
  <2> QED
    BY <2>2, <2>3, <2>4
<1>3. ListsOK'
  BY <1>1, <1>2 DEF MissInv, ListsOK
<1>4. Bound'
  BY <1>1 DEF MissInv, Bound, probe
<1>5. WalkOK'
  BY <1>1 DEF WalkOK
<1>6. \A e \in Permanent, q \in Drivers :
        e \in Listed(devices) /\ q \in Listed(drivers) /\ probe(q, e) => Settled(q, e)'
  BY <1>1, IdleSettled DEF Settled
<1>7. \A e \in Permanent : e \in Listed(devices) => Waits(r, e)'
  <2> SUFFICES ASSUME NEW e \in Permanent, e \in Listed(devices) PROVE Waits(r, e)'
    OBVIOUS
  <2>1. PICK j \in DOMAIN devices : devices[j] = e
    BY DEF Listed
  <2>2. 1 <= j
    BY <2>1 DEF MissInv, ListsOK
  <2> QED
    BY <1>1, <2>1, <2>2 DEF Waits
<1>8. NoneForgotten'
  BY <1>1, <1>2, <1>6, <1>7 DEF NoneForgotten, probe
<1> QED
  BY <1>3, <1>4, <1>5, <1>8 DEF MissInv

(* A device leaves with its own binding and its own failures, no others.    *)
LEMMA UnregisterDeviceKeeps ==
  ASSUME MissInv, NEW d \in Devices, unregisterDevice(d)
  PROVE  MissInv'
<1>1. PICK i \in DOMAIN devices : devices[i] = d /\ devices' = RemoveAt(devices, i)
  BY DEF unregisterDevice
<1>2. PICK S : S = IF driver[d] = NULL THEN {} ELSE {d}
  OBVIOUS
<1>3. /\ call = Idle /\ call' = Idle /\ drivers' = drivers /\ starts' = starts
      /\ driver' = [e \in Devices |-> IF e \in S THEN NULL ELSE driver[e]]
      /\ refused' = {x \in refused : x.device # d}
  BY <1>2 DEF unregisterDevice, unbind
<1>4. /\ devices \in Seq(Devices) /\ Len(devices) <= MaxDevices
      /\ Len(devices) \in Nat /\ MaxDevices \in Nat
  BY LimitAssumption DEF MissInv, ListsOK
<1>5. /\ devices' \in Seq(Devices) /\ Len(devices') <= Len(devices) /\ Len(devices') \in Nat
      /\ Listed(devices') \subseteq Listed(devices)
      /\ (\A j \in DOMAIN devices : devices[j] = d => j = i) => d \notin Listed(devices')
      /\ \A k, l \in DOMAIN devices' : k # l =>
           \E m, n \in DOMAIN devices :
             m # n /\ devices[m] = devices'[k] /\ devices[n] = devices'[l]
  BY <1>1, <1>4, RemoveListed
<1>6. ListsOK'
  <2>1. \A k, l \in DOMAIN devices' :
          devices'[k] \in Permanent /\ devices'[k] = devices'[l] => k = l
    BY <1>5 DEF MissInv, ListsOK
  <2>2. Len(devices') <= MaxDevices
    BY <1>4, <1>5
  <2> QED
    BY <1>3, <1>5, <2>1, <2>2 DEF MissInv, ListsOK
<1>7. driver' \in [Devices -> Drivers \cup {NULL}]
      /\ \A e \in Devices : driver'[e] = NULL \/ driver'[e] = driver[e]
  BY <1>3 DEF MissInv, Bound
<1>8. Bound'
  BY <1>3, <1>7 DEF MissInv, Bound, probe, Devices
<1>9. WalkOK'
  BY <1>3, IdleWalks
<1>10. NoneForgotten'
  <2> SUFFICES ASSUME NEW e \in Permanent, NEW q \in Drivers,
                      e \in Listed(devices'), q \in Listed(drivers'), probe(q, e)
               PROVE  Settled(q, e)'
    BY DEF NoneForgotten, probe
  <2>1. e # d
    BY <1>1, <1>5 DEF MissInv, ListsOK
  <2>2. Settled(q, e)
    BY <1>3, <1>5, IdleSettled
  <2>3. driver'[e] = driver[e]
    BY <1>2, <1>3, <2>1 DEF Devices
  <2>4. [driver |-> q, device |-> e] \in refused => [driver |-> q, device |-> e] \in refused'
    BY <1>3, <2>1
  <2> QED
    BY <2>2, <2>3, <2>4 DEF Settled
<1> QED
  BY <1>6, <1>8, <1>9, <1>10 DEF MissInv

(* A driver leaves with its own bindings and its own failures.              *)
LEMMA UnregisterDriverKeeps ==
  ASSUME MissInv, NEW r \in Drivers, unregisterDriver(r)
  PROVE  MissInv'
<1>1. PICK i \in DOMAIN drivers : drivers[i] = r /\ drivers' = RemoveAt(drivers, i)
  BY DEF unregisterDriver
<1>2. PICK S : S = BoundTo(r)
  OBVIOUS
<1>3. /\ call = Idle /\ call' = Idle /\ devices' = devices /\ starts' = starts
      /\ driver' = [e \in Devices |-> IF e \in S THEN NULL ELSE driver[e]]
      /\ refused' = {x \in refused : x.driver # r}
  BY <1>2 DEF unregisterDriver, unbind
<1>4. /\ drivers \in Seq(Drivers)
      /\ \A j \in DOMAIN drivers : drivers[j] = r => j = i
  BY <1>1 DEF MissInv, ListsOK
<1>5. /\ drivers' \in Seq(Drivers)
      /\ Listed(drivers') \subseteq Listed(drivers) /\ r \notin Listed(drivers')
      /\ \A k, l \in DOMAIN drivers' : k # l =>
           \E m, n \in DOMAIN drivers :
             m # n /\ drivers[m] = drivers'[k] /\ drivers[n] = drivers'[l]
  BY <1>1, <1>4, RemoveListed
<1>6. ListsOK'
  <2>1. \A k, l \in DOMAIN drivers' : drivers'[k] = drivers'[l] => k = l
    BY <1>5 DEF MissInv, ListsOK
  <2> QED
    BY <1>3, <1>5, <2>1 DEF MissInv, ListsOK
<1>7. driver' \in [Devices -> Drivers \cup {NULL}]
      /\ \A e \in Devices : driver'[e] = NULL \/ driver'[e] = driver[e]
  BY <1>3 DEF MissInv, Bound
<1>8. Bound'
  BY <1>3, <1>7 DEF MissInv, Bound, probe, Devices
<1>9. WalkOK'
  BY <1>3, IdleWalks
<1>10. NoneForgotten'
  <2> SUFFICES ASSUME NEW e \in Permanent, NEW q \in Drivers,
                      e \in Listed(devices'), q \in Listed(drivers'), probe(q, e)
               PROVE  Settled(q, e)'
    BY DEF NoneForgotten, probe
  <2>1. q # r
    BY <1>5
  <2>2. Settled(q, e)
    BY <1>3, <1>5, IdleSettled
  <2>3. driver[e] = q => driver'[e] = q
    BY <1>2, <1>3, <2>1 DEF BoundTo, Devices
  <2>4. [driver |-> q, device |-> e] \in refused => [driver |-> q, device |-> e] \in refused'
    BY <1>3, <2>1
  <2> QED
    BY <2>2, <2>3, <2>4 DEF Settled
<1> QED
  BY <1>6, <1>8, <1>9, <1>10 DEF MissInv

(* NoneMissed is not inductive: in the middle of a walk there are pairs     *)
(* that only the rest of the walk will settle.  That each pair is settled   *)
(* or still to come, and that whoever has a device is the one whose probe   *)
(* takes it, is.                                                            *)
LEMMA MissStep == MissInv /\ [Next]_vars => MissInv'
<1> SUFFICES ASSUME MissInv, [Next]_vars PROVE MissInv'
  OBVIOUS
<1>1. CASE tryBind
  BY <1>1, TryDriverKeeps, TryDeviceKeeps, DoneKeeps DEF tryBind
<1>2. ASSUME NEW d \in Permanent, registerDevice(d) PROVE MissInv'
  BY <1>2, RegisterDeviceKeeps
<1>3. ASSUME NEW r \in Drivers, registerDriver(r) PROVE MissInv'
  BY <1>3, RegisterDriverKeeps
<1>4. ASSUME NEW d \in Devices, unregisterDevice(d) PROVE MissInv'
  BY <1>4, UnregisterDeviceKeeps
<1>5. ASSUME NEW r \in Drivers, unregisterDriver(r) PROVE MissInv'
  BY <1>5, UnregisterDriverKeeps
<1>6. CASE UNCHANGED vars
  BY <1>6 DEF vars, MissInv, ListsOK, Bound, WalkOK, NoneForgotten, Settled, Waits, probe
<1> QED
  BY <1>1, <1>2, <1>3, <1>4, <1>5, <1>6 DEF Next

(* At boot there is nothing to miss.                                        *)
LEMMA MissInit == Init => MissInv
<1> SUFFICES ASSUME Init PROVE MissInv
  OBVIOUS
<1>1. /\ devices = <<>> /\ drivers = <<>> /\ driver = [d \in Devices |-> NULL]
      /\ starts = 0 /\ call = Idle
  BY DEF Init
<1>2. ListsOK
  BY <1>1, LimitAssumption DEF ListsOK
<1>3. Bound
  BY <1>1, LimitAssumption DEF Bound, Devices
<1>4. WalkOK
  BY <1>1 DEF WalkOK, Idle
<1>5. NoneForgotten
  BY <1>1 DEF NoneForgotten, Listed
<1> QED
  BY <1>2, <1>3, <1>4, <1>5 DEF MissInv

(* drivers.cpp: whatever was registered first, a registered device has a    *)
(* registered driver whose probe takes it, unless that driver failed to     *)
(* start on it; for any number of devices, any limit of the lists and any   *)
(* disks that drivers add to the list while it is being walked.             *)
THEOREM NoneIsMissed == Spec => []NoneMissed
<1>1. MissInv => NoneMissed
  <2> SUFFICES ASSUME MissInv, call = Idle,
                      NEW d \in Listed(devices), NEW r \in Listed(drivers), probe(r, d)
               PROVE  driver[d] = r \/ [driver |-> r, device |-> d] \in refused
    BY DEF NoneMissed
  <2> QED
    BY IdleSettled DEF Settled
<1> QED
  BY <1>1, MissInit, MissStep, PTL DEF Spec

-----------------------------------------------------------------------------
(* The ATA channel *)

Words == Values \cup {Identity, Garbage, None}

(* Where the loop over the sectors is in front of a sector it has not done. *)
Ahead == {"waitBSY", "issue", "status", "waitDRQ", "transfer", "flush"}

(* From the command on, and from the second sector on, the registers reach  *)
(* the drive of the call.                                                   *)
Commanded == pc \in {"status", "waitDRQ", "transfer", "flush", "waitFlush", "next"}

(* The call in progress: its sectors are there, its words fit them.         *)
CallOK ==
  /\ request.drive \in Positions
  /\ buffer \in Seq(Words) /\ sector \in Nat
  /\ request.op = "none" => pc = "idle" /\ result = FALSE
  /\ pc # "idle" => result = FALSE
  /\ pc # "idle" =>
       /\ request.lba \in LBAs
       /\ request.lba + Len(buffer) <= Sectors
       /\ sector <= Len(buffer)
       /\ pc \in Ahead => sector < Len(buffer)
       /\ request.op = "identify" => request.lba = 0 /\ Len(buffer) = 1
  /\ pc = "status" => request.op = "identify"
  /\ pc \notin {"idle", "status"} => request.drive \in present
  /\ pc \in {"flush", "waitFlush"} => request.op = "write"
  /\ request.op = "write" => buffer \in Seq(Values)
  /\ pc # "idle" /\ (Commanded \/ sector > 0) => selected = request.drive
  /\ pc = "transfer" => DRQ(selected)

(* A drive not given up on has been asked for nothing but by the call.      *)
AskedByCall ==
  \A d \in present \ gaveUp :
    command[d] # None /\ command[d].op \in Transfers =>
      /\ pc \in {"status", "waitDRQ", "transfer"} /\ d = selected
      /\ command[d] = [op |-> request.op, lba |-> request.lba + sector]

(* The sectors of the call that are done, the one being stored included.    *)
Passed == IF pc = "idle" THEN IF result THEN Len(buffer) ELSE 0
          ELSE IF pc = "flush" THEN sector + 1 ELSE sector

Stored(i) ==
  LET at == request.lba + i - 1
  IN  \/ buffer[i] = media[request.drive][at]
      \/ request.op = "write" /\ <<request.drive, at>> \in spoiled

(* The drive of the call is at the words of its last sector.                *)
Storing(i) ==
  /\ pc \in {"flush", "waitFlush"}
  /\ i = Passed
  /\ phase[request.drive] = "busy"
  /\ command[request.drive] = [op |-> "store", lba |-> request.lba + i - 1, data |-> buffer[i]]

PrefixDone ==
  request.drive \notin gaveUp =>
    \A i \in 1 .. Passed :
      IF request.op = "identify" THEN buffer[i] = Identity
      ELSE Stored(i) \/ Storing(i)

(* A drive that still stores words of an earlier call gets no command from  *)
(* this one, and so this one passes no sector.                              *)
StoreIsLast ==
  request.drive \notin gaveUp /\ phase[request.drive] = "busy"
    /\ command[request.drive].op = "store"
    => Passed = 0 \/ Storing(Passed)

(* No drive was sent the words of a sector as a command. *)
StoreIsNotSent ==
  \A d \in Positions : phase[d] = "unseen" => command[d].op # "store"

AtaInv == AtaTypeOK /\ StoreIsNotSent /\ CallOK /\ AskedByCall /\ PrefixDone /\ StoreIsLast

-----------------------------------------------------------------------------
(* Before the first call of the ATA driver.                                 *)
LEMMA AtaInitOK == AtaInit => AtaInv
<1> SUFFICES ASSUME AtaInit PROVE AtaInv
  OBVIOUS
<1> USE AtaAssumption
<1>1. AtaTypeOK
  BY DEF AtaInit, AtaTypeOK, LBAs, Transfers
<1>2. StoreIsNotSent
  BY DEF AtaInit, StoreIsNotSent
<1>3. CallOK
  BY DEF AtaInit, CallOK, Ahead, Commanded, Words, LBAs
<1>4. AskedByCall
  BY DEF AtaInit, AskedByCall
<1>5. PrefixDone
  BY DEF AtaInit, PrefixDone, Passed
<1>6. StoreIsLast
  BY DEF AtaInit, StoreIsLast
<1> QED
  BY <1>1, <1>2, <1>3, <1>4, <1>5, <1>6 DEF AtaInv

(* The registers of the kernel are not touched when a drive goes on.        *)
LEMMA DriveKeeps ==
  ASSUME AtaInv, NEW d \in Positions, DriveSees(d) \/ DriveHasData(d),
         UNCHANGED <<selected, pc, polls, callVars>>
  PROVE  AtaInv'
<1> USE AtaAssumption, AtaNoCommand DEF AtaInv, callVars
<1>1. AtaTypeOK'
  BY DEF DriveSees, DriveHasData, AtaTypeOK, Transfers
<1>2. StoreIsNotSent'
  BY DEF DriveSees, DriveHasData, StoreIsNotSent, AtaTypeOK
<1>3. CallOK'
  BY DEF DriveSees, DriveHasData, CallOK, AtaTypeOK, DRQ, Commanded
<1>4. AskedByCall'
  BY DEF DriveSees, DriveHasData, AskedByCall, AtaTypeOK
<1>5. PrefixDone'
  BY DEF DriveSees, DriveHasData, PrefixDone, Passed, Stored, Storing, CallOK, AtaTypeOK,
         Transfers
<1>6. StoreIsLast'
  BY DEF DriveSees, DriveHasData, StoreIsLast, StoreIsNotSent, Passed, Storing, CallOK, AtaTypeOK,
         Transfers
<1> QED
  BY <1>1, <1>2, <1>3, <1>4, <1>5, <1>6

(* If a drive ends with the words of the call, they are on its medium or    *)
(* spoiled, and only they.                                                  *)
LEMMA DriveEndsKeeps ==
  ASSUME AtaInv, NEW d \in Positions, DriveEnds(d),
         UNCHANGED <<selected, pc, polls, callVars>>
  PROVE  AtaInv'
<1> USE AtaAssumption, AtaNoCommand DEF AtaInv, callVars
<1>1. AtaTypeOK'
  <2>1. command[d] \in Commands
    BY DEF DriveEnds, AtaTypeOK
  <2>2. command[d].op = "store" => command[d].lba \in LBAs /\ command[d].data \in Values
    BY <2>1 DEF Commands
  <2>3. media' \in [Positions -> [LBAs -> Values]]
    <3>1. CASE command[d].op = "store" /\ media' # media
      <4>1. media' = [media EXCEPT ![d][command[d].lba] = command[d].data]
        BY <3>1 DEF DriveEnds
      <4>2. [media[d] EXCEPT ![command[d].lba] = command[d].data] \in [LBAs -> Values]
        BY <2>2, <3>1 DEF AtaTypeOK
      <4> QED
        BY <4>1, <4>2 DEF AtaTypeOK
    <3> QED
      BY <3>1 DEF DriveEnds, AtaTypeOK
  <2> QED
    BY <2>3 DEF DriveEnds, AtaTypeOK, Transfers
<1>2. StoreIsNotSent'
  BY DEF DriveEnds, StoreIsNotSent, AtaTypeOK
<1>3. CallOK'
  BY DEF DriveEnds, CallOK, AtaTypeOK, DRQ, Commanded
<1>4. AskedByCall'
  BY DEF DriveEnds, AskedByCall, AtaTypeOK
<1>5. PrefixDone'
  <2> SUFFICES ASSUME request.drive \notin gaveUp, NEW i \in 1 .. Passed,
                      request.op # "identify"
               PROVE  Stored(i)' \/ Storing(i)'
    BY DEF PrefixDone, Passed
  <2> DEFINE at == request.lba + i - 1
  <2>1. Stored(i) \/ Storing(i)
    BY DEF PrefixDone
  <2>2. CASE d # request.drive
    <3>1. /\ UNCHANGED <<media[request.drive], command[request.drive], phase[request.drive]>>
          /\ <<request.drive, at>> \in spoiled => <<request.drive, at>> \in spoiled'
      BY <2>2 DEF DriveEnds, AtaTypeOK, CallOK
    <3> QED
      BY <2>1, <3>1 DEF Stored, Storing, Passed
  <2>3. CASE d = request.drive /\ command[d].op # "store"
    BY <2>1, <2>3 DEF DriveEnds, Stored, Storing
  <2>4. CASE d = request.drive /\ command[d].op = "store"
    <3>1. Storing(Passed) /\ Passed \in Nat
      BY <2>4 DEF StoreIsLast, DriveEnds, Passed, AtaTypeOK, CallOK
    <3>2. /\ request.lba \in LBAs /\ Passed <= Len(buffer) /\ at \in LBAs
          /\ request.op = "write"
      <4>1. pc \in {"flush", "waitFlush"}
        BY <3>1 DEF Storing
      <4>2. /\ request.op = "write" /\ request.lba \in LBAs /\ Len(buffer) \in Nat
            /\ request.lba + Len(buffer) <= Sectors
        BY <4>1 DEF CallOK
      <4>3. Passed <= Len(buffer)
        BY <4>1 DEF CallOK, Passed, Ahead
      <4> QED
        BY <4>2, <4>3, <3>1 DEF LBAs
    <3>3. CASE i = Passed
      <4>1. command[d].lba = at /\ command[d].data = buffer[i]
        BY <2>4, <3>1, <3>3 DEF Storing
      <4>2. media'[d][at] = buffer[i] \/ <<d, at>> \in spoiled'
        BY <2>4, <4>1, <3>2 DEF DriveEnds, AtaTypeOK, Transfers
      <4> QED
        BY <4>2, <3>2, <2>4 DEF Stored
    <3>4. CASE i # Passed
      <4>1. Stored(i)
        BY <2>1, <3>4 DEF Storing
      <4>2. command[d].lba \in Int /\ command[d].lba # at
        BY <2>4, <3>1, <3>2, <3>4 DEF Storing, LBAs
      <4>3. /\ media'[d][at] = media[d][at]
            /\ <<d, at>> \in spoiled => <<d, at>> \in spoiled'
        BY <4>2, <3>2, <2>4 DEF DriveEnds, AtaTypeOK
      <4> QED
        BY <4>1, <4>3, <2>4 DEF Stored
    <3> QED
      BY <3>3, <3>4
  <2> QED
    BY <2>2, <2>3, <2>4
<1>6. StoreIsLast'
  BY DEF DriveEnds, StoreIsLast, Storing, Passed, CallOK, AtaTypeOK
<1> QED
  BY <1>1, <1>2, <1>3, <1>4, <1>5, <1>6

(* A call that fails has passed nothing, and leaves no drive at a transfer  *)
(* but those that are given up on; one that succeeds has passed all.        *)
LEMMA ReturnKeeps ==
  ASSUME AtaInv, NEW ok \in BOOLEAN, Return(ok), pc # "idle",
         ok => pc = "next" /\ sector = Len(buffer)
  PROVE  AtaInv'
<1> USE AtaAssumption, AtaNoCommand DEF AtaInv, Return, Goto, driveVars
<1>1. AtaTypeOK'
  BY DEF AtaTypeOK, CallOK
<1>2. StoreIsNotSent'
  BY DEF StoreIsNotSent
<1>3. CallOK'
  BY DEF CallOK, DRQ
<1>4. AskedByCall'
  BY DEF AskedByCall
<1>5. PrefixDone'
  <2>1. CASE ~ok
    BY <2>1 DEF PrefixDone, Passed
  <2>2. CASE ok
    <3>1. Passed' = Passed /\ request.drive \notin gaveUp' => request.drive \notin gaveUp
      BY <2>2 DEF Passed
    <3>2. \A i \in 1 .. Passed : ~Storing(i) /\ (Stored(i) => Stored(i)')
      BY <2>2 DEF Storing, Stored
    <3> QED
      BY <3>1, <3>2 DEF PrefixDone, Stored, Passed
  <2> QED
    BY <2>1, <2>2
<1>6. StoreIsLast'
  BY DEF StoreIsLast, Passed, Storing, CallOK
<1> QED
  BY <1>1, <1>2, <1>3, <1>4, <1>5, <1>6

(* A drive that is not busy has stored what it was given.                   *)
LEMMA waitBSYKeeps ==
  ASSUME AtaInv,
         waitBSY("waitBSY", "issue") \/ waitBSY("waitFlush", "next")
  PROVE  AtaInv'
<1> USE AtaAssumption, AtaNoCommand DEF AtaInv
<1>1. CASE BSY(selected) /\ ~(polls + 1 < MaxPolls)
  <2>1. Return(FALSE) /\ pc # "idle"
    BY <1>1 DEF waitBSY, AtaTypeOK
  <2> QED
    BY <2>1, ReturnKeeps
<1>2. CASE ~(BSY(selected) /\ ~(polls + 1 < MaxPolls))
  <2>1. /\ UNCHANGED <<selected, driveVars, callVars>>
        /\ polls' \in 0 .. MaxPolls - 1
        /\ \/ pc' = pc
           \/ pc = "waitBSY" /\ pc' = "issue" /\ ~BSY(selected)
           \/ pc = "waitFlush" /\ pc' = "next" /\ ~BSY(selected)
        /\ pc \in {"waitBSY", "waitFlush"}
    <3>1. CASE waitBSY("waitBSY", "issue")
      BY <3>1, <1>2 DEF waitBSY, Goto, AtaTypeOK, BSY, Return
    <3>2. CASE waitBSY("waitFlush", "next")
      BY <3>2, <1>2 DEF waitBSY, Goto, AtaTypeOK, BSY, Return
    <3> QED
      BY <3>1, <3>2
  <2> USE <2>1 DEF driveVars, callVars
  <2>2. AtaTypeOK'
    BY DEF AtaTypeOK
  <2>3. StoreIsNotSent'
    BY DEF StoreIsNotSent
  <2>4. CallOK'
    BY DEF CallOK, Ahead, Commanded, DRQ
  <2>5. AskedByCall'
    BY DEF AskedByCall
  <2>6. Passed' = Passed
    BY DEF Passed
  <2>7. PrefixDone'
    <3> SUFFICES ASSUME request.drive \notin gaveUp, NEW i \in 1 .. Passed,
                        request.op # "identify"
                 PROVE  Stored(i)' \/ Storing(i)'
      BY <2>6 DEF PrefixDone
    <3>1. Stored(i) \/ Storing(i)
      BY DEF PrefixDone
    <3>2. Storing(i) => Storing(i)'
      BY <2>6 DEF Storing, BSY, CallOK, Commanded, AtaTypeOK
    <3> QED
      BY <3>1, <3>2 DEF Stored
  <2>8. StoreIsLast'
    BY <2>6 DEF StoreIsLast, Storing, BSY, CallOK, Commanded
  <2> QED
    BY <2>2, <2>3, <2>4, <2>5, <2>7, <2>8
<1> QED
  BY <1>1, <1>2

(* The steps that only look at the status before a sector. *)
LEMMA StatusKeeps ==
  ASSUME AtaInv, identified \/ waitDRQ
  PROVE  AtaInv'
<1> USE AtaAssumption, AtaNoCommand DEF AtaInv
<1> DEFINE OneMore ==
             /\ UNCHANGED <<selected, driveVars, callVars>>
             /\ polls' \in 0 .. MaxPolls - 1
             /\ \/ pc' = pc /\ pc = "waitDRQ"
                \/ pc = "status" /\ pc' = "waitDRQ" /\ selected \in present
                \/ pc = "waitDRQ" /\ pc' = "transfer" /\ DRQ(selected)
<1>1. OneMore \/ (Return(FALSE) /\ pc # "idle")
  <2>1. CASE identified
    BY <2>1 DEF identified, Goto, AtaTypeOK, Return
  <2>2. CASE waitDRQ
    BY <2>2 DEF waitDRQ, Goto, AtaTypeOK, DRQ, Return
  <2> QED
    BY <2>1, <2>2
<1>2. CASE Return(FALSE) /\ pc # "idle"
  BY <1>2, ReturnKeeps
<1>3. CASE OneMore
  <2> USE <1>3 DEF driveVars, callVars
  <2>1. AtaTypeOK'
    BY DEF AtaTypeOK
  <2>2. StoreIsNotSent'
    BY DEF StoreIsNotSent
  <2>3. CallOK'
    BY DEF CallOK, Ahead, Commanded, DRQ
  <2>4. AskedByCall'
    BY DEF AskedByCall
  <2>5. PrefixDone'
    BY DEF PrefixDone, Passed, Stored, Storing
  <2>6. StoreIsLast'
    BY DEF StoreIsLast, Passed, Storing
  <2> QED
    BY <2>1, <2>2, <2>3, <2>4, <2>5, <2>6
<1> QED
  BY <1>1, <1>2, <1>3

(* A written command is in the place of one that is forgotten, or lost.     *)
LEMMA WrittenCommand ==
  ASSUME AtaInv, NEW d \in Positions, NEW cmd \in Commands, cmd.op # "store", Written(d, cmd)
  PROVE  /\ phase' \in [Positions -> {"ready", "unseen", "busy", "data"}]
         /\ command' \in [Positions -> Commands \cup {None}]
         /\ \A e \in Positions :
              /\ command'[e] = None <=> phase'[e] = "ready"
              /\ phase'[e] = "data" => command'[e].op \in Transfers
              /\ phase'[e] = "busy" <=> phase[e] = "busy"
              /\ \/ command'[e] = command[e] /\ phase'[e] = phase[e]
                 \/ e = d /\ command'[e] = cmd /\ phase'[e] = "unseen"
         /\ StoreIsNotSent'
<1> USE AtaNoCommand DEF AtaInv, AtaTypeOK
<1>1. CASE d \in present /\ phase[d] \in {"ready", "unseen"}
  <2>1. /\ phase' = [phase EXCEPT ![d] = "unseen"]
        /\ command' = [command EXCEPT ![d] = cmd]
    BY <1>1 DEF Written
  <2>2. cmd # None
    OBVIOUS
  <2> QED
    BY <1>1, <2>1, <2>2 DEF StoreIsNotSent
<1>2. CASE ~(d \in present /\ phase[d] \in {"ready", "unseen"})
  <2>1. UNCHANGED <<phase, command>>
    BY <1>2 DEF Written
  <2> QED
    BY <2>1 DEF StoreIsNotSent
<1> QED
  BY <1>1, <1>2

(* A new call has passed nothing.                                           *)
LEMMA CallerKeeps ==
  ASSUME AtaInv, Caller
  PROVE  AtaInv'
<1> USE AtaAssumption, AtaNoCommand DEF AtaInv, driveVars, callVars, Goto
<1>1. ASSUME NEW d \in Positions, identifyDrive(d) PROVE AtaInv'
  <2> DEFINE cmd == [op |-> "identify", lba |-> 0]
  <2>1. cmd \in Commands /\ cmd.op # "store" /\ Written(d, cmd)
    BY <1>1 DEF identifyDrive, Commands
  <2> HIDE DEF cmd
  <2>2. /\ phase' \in [Positions -> {"ready", "unseen", "busy", "data"}]
        /\ command' \in [Positions -> Commands \cup {None}]
        /\ \A e \in Positions :
             /\ command'[e] = None <=> phase'[e] = "ready"
             /\ phase'[e] = "data" => command'[e].op \in Transfers
             /\ \/ command'[e] = command[e] /\ phase'[e] = phase[e]
                \/ e = d /\ command'[e] = cmd /\ phase'[e] = "unseen"
        /\ StoreIsNotSent'
    BY <2>1, WrittenCommand
  <2>3. AtaTypeOK'
    BY <1>1, <2>2 DEF identifyDrive, AtaTypeOK
  <2>4. CallOK'
    BY <1>1 DEF identifyDrive, CallOK, Ahead, Commanded, Words, LBAs
  <2>5. AskedByCall'
    BY <1>1, <2>2 DEF identifyDrive, AskedByCall, AtaTypeOK, cmd
  <2>6. PrefixDone' /\ StoreIsLast'
    BY <1>1 DEF identifyDrive, PrefixDone, StoreIsLast, Passed
  <2> QED
    BY <2>2, <2>3, <2>4, <2>5, <2>6
<1>2. ASSUME NEW c \in Calls, access(c.op, c.drive, c.lba, c.count) PROVE AtaInv'
  <2>1. /\ c.op \in {"read", "write"} /\ c.drive \in disks
        /\ c.lba \in LBAs /\ c.count \in 1 .. Sectors /\ c.lba + c.count <= Sectors
        /\ request'.op = c.op /\ request'.drive = c.drive /\ request'.lba = c.lba
        /\ buffer' \in Seq(Words) /\ Len(buffer') = c.count
        /\ c.op = "write" => buffer' \in Seq(Values)
    <3>1. PICK data \in IF c.op = "write" THEN [1 .. c.count -> Values] ELSE {<<>>} :
            /\ request' = [op |-> c.op, drive |-> c.drive, lba |-> c.lba, data |-> data]
            /\ buffer' = IF c.op = "write" THEN data ELSE [i \in 1 .. c.count |-> None]
      BY <1>2 DEF access
    <3>2. c.op \in {"read", "write"} /\ c.lba \in LBAs /\ c.count \in 1 .. Sectors
      BY DEF LBAs
    <3>3. CASE c.op = "write"
      BY <1>2, <3>1, <3>2, <3>3 DEF access, Words
    <3>4. CASE c.op = "read"
      <4>1. buffer' = [i \in 1 .. c.count |-> None]
        BY <3>1, <3>4
      <4> QED
        BY <1>2, <3>1, <3>2, <3>4, <4>1 DEF access, Words
    <3> QED
      BY <3>2, <3>3, <3>4
  <2>2. /\ UNCHANGED <<present, selected, phase, failed, command, media, spoiled, disks, gaveUp>>
        /\ pc = "idle" /\ pc' = "waitBSY" /\ polls' = 0 /\ sector' = 0 /\ result' = FALSE
    BY <1>2 DEF access
  <2> USE <2>1, <2>2
  <2>3. AtaTypeOK'
    BY DEF AtaTypeOK
  <2>4. StoreIsNotSent' /\ AskedByCall'
    BY DEF StoreIsNotSent, AskedByCall
  <2>5. CallOK'
    BY DEF CallOK, Ahead, Commanded, AtaTypeOK
  <2>6. PrefixDone' /\ StoreIsLast'
    BY DEF PrefixDone, StoreIsLast, Passed
  <2> QED
    BY <2>3, <2>4, <2>5, <2>6
<1> QED
  BY <1>1, <1>2 DEF Caller

(* The command of a sector: no other is pending on a drive not given up on. *)
LEMMA issueKeeps ==
  ASSUME AtaInv, issue
  PROVE  AtaInv'
<1> USE AtaAssumption, AtaNoCommand DEF AtaInv, callVars, Goto
<1> DEFINE cmd == [op |-> request.op, lba |-> request.lba + sector]
<1>1. /\ pc = "issue" /\ request.drive \in Positions /\ request.drive \in present
      /\ request.lba + sector \in LBAs /\ sector \in Nat /\ sector < Len(buffer)
      /\ request.op = "identify" => request.lba = 0 /\ Len(buffer) = 1
  BY DEF issue, CallOK, Ahead, LBAs
<1>2. cmd \in Commands /\ cmd.op # "store"
  <2>1. CASE request.op = "identify"
    <3>1. request.lba = 0 /\ Len(buffer) = 1
      BY <1>1, <2>1
    <3>2. sector = 0
      BY <1>1, <3>1
    <3> QED
      BY <2>1, <3>1, <3>2 DEF Commands
  <2>2. CASE request.op \in {"read", "write"}
    BY <2>2, <1>1 DEF Commands
  <2> QED
    BY <1>1, <2>1, <2>2 DEF AtaTypeOK, CallOK
<1>3. Written(request.drive, cmd)
  BY DEF issue
<1> HIDE DEF cmd
<1>4. /\ phase' \in [Positions -> {"ready", "unseen", "busy", "data"}]
      /\ command' \in [Positions -> Commands \cup {None}]
      /\ \A e \in Positions :
           /\ command'[e] = None <=> phase'[e] = "ready"
           /\ phase'[e] = "data" => command'[e].op \in Transfers
           /\ phase'[e] = "busy" <=> phase[e] = "busy"
           /\ \/ command'[e] = command[e] /\ phase'[e] = phase[e]
              \/ e = request.drive /\ command'[e] = cmd /\ phase'[e] = "unseen"
      /\ StoreIsNotSent'
  BY <1>1, <1>2, <1>3, WrittenCommand
<1>5. StoreIsNotSent'
  BY <1>4
<1>6. AtaTypeOK'
  BY <1>1, <1>4 DEF issue, AtaTypeOK
<1>7. CallOK'
  BY <1>1 DEF issue, CallOK, Ahead, Commanded
<1>8. AskedByCall'
  BY <1>1, <1>4 DEF issue, AskedByCall, AtaTypeOK, cmd
<1>9. PrefixDone'
  BY <1>1 DEF issue, PrefixDone, Passed, Stored, Storing
<1>10. StoreIsLast'
  BY <1>1, <1>2, <1>4 DEF issue, StoreIsLast, Passed, Storing
<1> QED
  BY <1>5, <1>6, <1>7, <1>8, <1>9, <1>10

(* The words that are read answer the command of the sector.                *)
LEMMA readWordsKeeps ==
  ASSUME AtaInv, readWords
  PROVE  AtaInv'
<1> USE AtaAssumption, AtaNoCommand DEF AtaInv, Goto
<1>1. /\ pc = "transfer" /\ selected = request.drive /\ DRQ(selected)
      /\ selected \in present /\ sector < Len(buffer) /\ sector \in Nat
      /\ Len(buffer) \in Nat
  BY DEF readWords, CallOK, Commanded, Ahead
<1>2. command[selected] \in Commands /\ command[selected].op \in Transfers
  BY <1>1 DEF AtaTypeOK, DRQ
<1>3. Word \in Words
  BY <1>1, <1>2 DEF Word, Words, AtaTypeOK, Commands, Transfers
<1>4. buffer' \in Seq(Words) /\ Len(buffer') = Len(buffer)
      /\ buffer'[sector + 1] = Word
      /\ \A i \in 1 .. sector : buffer'[i] = buffer[i]
  BY <1>1, <1>3 DEF readWords, CallOK
<1>5. request.drive \notin gaveUp =>
        Word = IF request.op = "identify" THEN Identity
               ELSE media[request.drive][request.lba + sector]
  <2>1. request.op \in {"identify", "read"}
    BY DEF readWords, AtaTypeOK, CallOK
  <2>2. SUFFICES ASSUME request.drive \notin gaveUp
                 PROVE  command[selected] = [op |-> request.op, lba |-> request.lba + sector]
    BY <1>1, <2>1 DEF Word
  <2> QED
    BY <1>1, <1>2, <2>2 DEF AskedByCall
<1>6. AtaTypeOK'
  <2>1. /\ phase' \in [Positions -> {"ready", "unseen", "busy", "data"}]
        /\ command' \in [Positions -> Commands \cup {None}]
        /\ \A d \in Positions :
             /\ command'[d] = None <=> phase'[d] = "ready"
             /\ phase'[d] = "data" => command'[d].op \in Transfers
    BY <1>1 DEF readWords, AtaTypeOK
  <2>2. sector' \in 0 .. Len(buffer')
    BY <1>1, <1>4 DEF readWords
  <2> QED
    BY <2>1, <2>2 DEF readWords, AtaTypeOK
<1>7. StoreIsNotSent'
  BY DEF readWords, StoreIsNotSent, AtaTypeOK
<1>8. CallOK'
  BY <1>1, <1>4 DEF readWords, CallOK, Ahead, Commanded
<1>9. AskedByCall'
  BY <1>1, <1>2 DEF readWords, AskedByCall, AtaTypeOK, Transfers
<1>10. PrefixDone'
  BY <1>1, <1>4, <1>5 DEF readWords, PrefixDone, Passed, Stored, Storing
<1>11. StoreIsLast'
  BY <1>1 DEF readWords, StoreIsLast, DRQ, AtaTypeOK
<1> QED
  BY <1>6, <1>7, <1>8, <1>9, <1>10, <1>11

(* The words that are written go where the command of the sector says.      *)
LEMMA writeWordsKeeps ==
  ASSUME AtaInv, writeWords
  PROVE  AtaInv'
<1> USE AtaAssumption, AtaNoCommand DEF AtaInv, Goto, callVars
<1>1. /\ pc = "transfer" /\ selected = request.drive /\ DRQ(selected)
      /\ selected \in present /\ sector < Len(buffer) /\ sector \in Nat
      /\ Len(buffer) \in Nat
  BY DEF writeWords, CallOK, Commanded, Ahead
<1>2. command[selected] \in Commands /\ command[selected].op \in Transfers
  BY <1>1 DEF AtaTypeOK, DRQ
<1>3. buffer[sector + 1] \in Values
  BY <1>1 DEF writeWords, CallOK
<1> DEFINE store == [op |-> "store", lba |-> command[selected].lba, data |-> buffer[sector + 1]]
<1>4. command[selected].op = "write" => store \in Commands /\ store # None
  BY <1>2, <1>3 DEF Commands
<1>5. request.drive \notin gaveUp =>
        /\ command[selected].op = "write"
        /\ command[selected].lba = request.lba + sector
  BY <1>1, <1>2 DEF AskedByCall, writeWords
<1>6. AtaTypeOK'
  <2>1. CASE command[selected].op = "write"
    <3>1. /\ phase' = [phase EXCEPT ![selected] = "busy"]
          /\ command' = [command EXCEPT ![selected] = store]
      BY <1>1, <2>1 DEF writeWords
    <3>2. store \in Commands /\ store # None
      BY <1>4, <2>1
    <3> HIDE DEF store
    <3>3. /\ phase' \in [Positions -> {"ready", "unseen", "busy", "data"}]
          /\ command' \in [Positions -> Commands \cup {None}]
          /\ \A d \in Positions :
               /\ command'[d] = None <=> phase'[d] = "ready"
               /\ phase'[d] = "data" => command'[d].op \in Transfers
      BY <3>1, <3>2 DEF AtaTypeOK
    <3> QED
      BY <3>3 DEF writeWords, AtaTypeOK
  <2>2. CASE command[selected].op # "write"
    BY <2>2 DEF writeWords, AtaTypeOK
  <2> QED
    BY <2>1, <2>2
<1>7. StoreIsNotSent'
  BY DEF writeWords, StoreIsNotSent, AtaTypeOK
<1>8. CallOK'
  BY <1>1 DEF writeWords, CallOK, Ahead, Commanded
<1>9. AskedByCall'
  BY <1>1, <1>2 DEF writeWords, AskedByCall, AtaTypeOK, Transfers
<1>10. PrefixDone'
  <2> SUFFICES ASSUME request.drive \notin gaveUp, NEW i \in 1 .. sector + 1
               PROVE  Stored(i)' \/ Storing(i)'
    BY <1>1 DEF writeWords, PrefixDone, Passed
  <2>1. CASE i # sector + 1
    <3>1. i \in 1 .. Passed /\ ~Storing(i)
      BY <1>1, <2>1 DEF Passed, Storing
    <3>2. Stored(i)
      BY <3>1 DEF PrefixDone, writeWords
    <3> QED
      BY <3>2 DEF Stored, writeWords
  <2>2. CASE i = sector + 1
    <3>1. /\ phase' = [phase EXCEPT ![selected] = "busy"]
          /\ command' = [command EXCEPT ![selected] = store]
      BY <1>1, <1>5 DEF writeWords
    <3>2. /\ phase'[request.drive] = "busy"
          /\ command'[request.drive]
               = [op |-> "store", lba |-> request.lba + i - 1, data |-> buffer[i]]
      BY <3>1, <2>2, <1>1, <1>5 DEF AtaTypeOK, CallOK
    <3>3. pc' = "flush" /\ Passed' = i /\ request' = request /\ buffer' = buffer
      BY <2>2 DEF writeWords, Passed
    <3> QED
      BY <3>2, <3>3 DEF Storing
  <2> QED
    BY <2>1, <2>2
<1>11. StoreIsLast'
  BY <1>1, <1>5 DEF writeWords, StoreIsLast, Passed, Storing, AtaTypeOK, CallOK
<1> QED
  BY <1>6, <1>7, <1>8, <1>9, <1>10, <1>11

(* The flush of the cache is lost on a drive that still stores.             *)
LEMMA flushKeeps ==
  ASSUME AtaInv, flush
  PROVE  AtaInv'
<1> USE AtaAssumption, AtaNoCommand DEF AtaInv, Goto
<1> DEFINE cmd == [op |-> "flush", lba |-> 0]
<1>1. /\ pc = "flush" /\ selected = request.drive /\ selected \in Positions
      /\ sector < Len(buffer) /\ sector \in Nat /\ Len(buffer) \in Nat
  BY DEF flush, CallOK, Commanded, Ahead
<1>2. cmd \in Commands /\ cmd.op # "store" /\ cmd.op \notin Transfers
  BY DEF Commands, LBAs, Transfers
<1>3. Written(selected, cmd)
  BY DEF flush
<1> HIDE DEF cmd
<1>4. /\ phase' \in [Positions -> {"ready", "unseen", "busy", "data"}]
      /\ command' \in [Positions -> Commands \cup {None}]
      /\ \A e \in Positions :
           /\ command'[e] = None <=> phase'[e] = "ready"
           /\ phase'[e] = "data" => command'[e].op \in Transfers
           /\ phase'[e] = "busy" <=> phase[e] = "busy"
           /\ \/ command'[e] = command[e] /\ phase'[e] = phase[e]
              \/ e = selected /\ command'[e] = cmd /\ phase'[e] = "unseen"
      /\ StoreIsNotSent'
  BY <1>1, <1>2, <1>3, WrittenCommand
<1>5. StoreIsNotSent'
  BY <1>4
<1>6. AtaTypeOK'
  BY <1>1, <1>4 DEF flush, AtaTypeOK
<1>7. CallOK'
  BY <1>1 DEF flush, CallOK, Ahead, Commanded
<1>8. AskedByCall'
  BY <1>1, <1>2, <1>4 DEF flush, AskedByCall, AtaTypeOK
<1>9. Passed' = Passed
  BY <1>1 DEF flush, Passed
<1>10. PrefixDone'
  <2> SUFFICES ASSUME request.drive \notin gaveUp, NEW i \in 1 .. Passed,
                      request.op # "identify"
               PROVE  Stored(i)' \/ Storing(i)'
    BY <1>9 DEF flush, PrefixDone
  <2>1. Stored(i) \/ Storing(i)
    BY DEF PrefixDone
  <2>2. Stored(i) => Stored(i)'
    BY DEF Stored, flush
  <2>3. Storing(i) => Storing(i)'
    BY <1>1, <1>4, <1>9 DEF Storing, flush
  <2> QED
    BY <2>1, <2>2, <2>3
<1>11. StoreIsLast'
  BY <1>1, <1>2, <1>4, <1>9 DEF flush, StoreIsLast, Storing
<1> QED
  BY <1>5, <1>6, <1>7, <1>8, <1>10, <1>11

(* Going on with the next sector of readSectors or writeSectors.            *)
LEMMA nextSectorKeeps ==
  ASSUME AtaInv, nextSector
  PROVE  AtaInv'
<1> USE DEF AtaInv
<1>1. CASE sector = Len(buffer)
  <2>1. Return(TRUE) /\ pc = "next"
    BY <1>1 DEF nextSector, CallOK, Return, Goto
  <2> QED
    BY <2>1, <1>1, ReturnKeeps
<1>2. CASE sector # Len(buffer)
  <2>1. /\ pc = "next" /\ pc' = "waitBSY" /\ polls' = 0 /\ sector < Len(buffer)
        /\ UNCHANGED <<selected, driveVars, callVars>>
    BY <1>2 DEF nextSector, Goto, Return
  <2> USE AtaAssumption, <2>1 DEF driveVars, callVars
  <2>2. AtaTypeOK'
    BY DEF AtaTypeOK
  <2>3. StoreIsNotSent' /\ AskedByCall'
    BY DEF StoreIsNotSent, AskedByCall
  <2>4. CallOK'
    BY DEF CallOK, Ahead, Commanded
  <2>5. PrefixDone' /\ StoreIsLast'
    BY DEF PrefixDone, StoreIsLast, Passed, Stored, Storing
  <2> QED
    BY <2>2, <2>3, <2>4, <2>5
<1> QED
  BY <1>1, <1>2

(* Every step of the driver and of the drives, one case per action.         *)
LEMMA AtaStepOK == AtaInv /\ [AtaNext]_ataVars => AtaInv'
<1> SUFFICES ASSUME AtaInv, [AtaNext]_ataVars
             PROVE  AtaInv'
  OBVIOUS
<1>1. CASE Kernel
  BY <1>1, waitBSYKeeps, issueKeeps, StatusKeeps, readWordsKeeps, writeWordsKeeps, flushKeeps,
     nextSectorKeeps DEF Kernel
<1>2. CASE Caller
  BY <1>2, CallerKeeps
<1>3. ASSUME NEW d \in Positions, Drive(d)
      PROVE  AtaInv'
  BY <1>3, DriveKeeps, DriveEndsKeeps DEF Drive
<1>4. CASE UNCHANGED ataVars
  <2> USE <1>4 DEF AtaInv, ataVars, driveVars, callVars
  <2>1. AtaTypeOK'
    BY DEF AtaTypeOK
  <2>2. StoreIsNotSent' /\ AskedByCall'
    BY DEF StoreIsNotSent, AskedByCall
  <2>3. CallOK'
    BY DEF CallOK, Commanded, DRQ
  <2>4. PrefixDone' /\ StoreIsLast'
    BY DEF PrefixDone, StoreIsLast, Passed, Stored, Storing
  <2> QED
    BY <2>1, <2>2, <2>3, <2>4
<1> QED
  BY <1>1, <1>2, <1>3, <1>4 DEF AtaNext

-----------------------------------------------------------------------------
(* The ATA channel keeps its types, for every number of drives, sectors and *)
(* polls (ata.cpp:36-164).                                                  *)
THEOREM AtaTypes == AtaSpec => []AtaTypeOK
<1>1. AtaInv => AtaTypeOK
  BY DEF AtaInv
<1> QED
  BY <1>1, AtaInitOK, AtaStepOK, PTL DEF AtaSpec

(* What a call that succeeds gave or stored is what it was asked, and no    *)
(* other transfer is pending, on every drive that no call gave up on        *)
(* (ATADiskDevice::access and identifyDrive, ata.cpp:62-164).               *)
THEOREM AtaAnswersBelong == AtaSpec => []AnswersBelong
<1>1. AtaInv => AnswersBelong
  <2> SUFFICES ASSUME AtaInv PROVE AnswersBelong
    OBVIOUS
  <2>1. AskedByCall /\ PrefixDone /\ CallOK
    BY DEF AtaInv
  <2>2. ASSUME pc = "idle", result, request.drive \notin gaveUp, NEW i \in 1 .. Len(buffer)
        PROVE  IF request.op = "identify" THEN buffer[i] = Identity ELSE Stored(i)
    BY <2>1, <2>2 DEF PrefixDone, Passed, Storing
  <2> QED
    BY <2>1, <2>2 DEF AnswersBelong, AskedByCall, Stored
<1> QED
  BY <1>1, AtaInitOK, AtaStepOK, PTL DEF AtaSpec

-----------------------------------------------------------------------------
(* The enumeration of PCI functions *)

(* A place that the walk may come to: behind function 0 only if that says   *)
(* that there are others.                                                   *)
Reachable(p) ==
  /\ p \in Places
  /\ p[2] > 0 => <<p[1], 0>> \in DOMAIN plugged /\ plugged[<<p[1], 0>>].multi

(* The walk has passed p.                                                   *)
PassedBy(p, at) == at = <<>> \/ Before(p, at)

Enumerating ==
  /\ plugged \in Topologies
  /\ pciAt # <<>> => Reachable(pciAt)
  /\ ctor \in -1 .. 6
  /\ ctor # -1 => pciAt # <<>> /\ Answering(pciAt) = {pciAt}

RegisteredSoFar ==
  /\ registered \in Seq(Seen)
  /\ \A i \in DOMAIN registered : PassedBy(registered[i], pciAt)
  /\ \A i, j \in DOMAIN registered : i < j => Before(registered[i], registered[j])
  /\ Len(registered) < PciRoom =>
       \A p \in Seen : PassedBy(p, pciAt) => \E i \in DOMAIN registered : registered[i] = p

(* Places are pairs of numbers, ordered.                                    *)
LEMMA PlaceFacts ==
  ASSUME NEW p \in Places
  PROVE  /\ p[1] \in 0 .. LastSlot /\ p[2] \in 0 .. LastFunction /\ p = <<p[1], p[2]>>
         /\ p # <<>>
BY DEF Places, Slots

(* What is seen is a place of the machine that the walk may come to.        *)
LEMMA SeenFacts ==
  ASSUME plugged \in Topologies, NEW p \in Seen
  PROVE  /\ p \in Places /\ p \in DOMAIN plugged
         /\ <<p[1], 0>> \in DOMAIN plugged
         /\ p[2] = 0 \/ plugged[<<p[1], 0>>].multi
BY PciAssumption DEF Seen

(* The next place is the next one that is seen, or none of them is left.    *)
LEMMA NextPlaceIsNext ==
  ASSUME plugged \in Topologies, NEW p, Reachable(p), NEW n, n = NextPlace(p)
  PROVE  /\ n # <<>> => Reachable(n)
         /\ \A q \in Seen : PassedBy(q, n) <=> Before(q, p) \/ q = p
<1>0. p = <<p[1], p[2]>>
  BY PlaceFacts DEF Reachable
<1>1. /\ p[1] \in 0 .. LastSlot /\ p[2] \in 0 .. LastFunction
      /\ LastSlot \in Nat /\ LastFunction \in Nat
  BY PlaceFacts, PciAssumption DEF Reachable
<1>2. \A q \in Seen : /\ q[1] \in 0 .. LastSlot /\ q[2] \in 0 .. LastFunction
                      /\ <<q[1], 0>> \in DOMAIN plugged
                      /\ q[2] = 0 \/ plugged[<<q[1], 0>>].multi
                      /\ q = p <=> q[1] = p[1] /\ q[2] = p[2]
  <2> TAKE q \in Seen
  <2>1. q \in Places /\ <<q[1], 0>> \in DOMAIN plugged
        /\ (q[2] = 0 \/ plugged[<<q[1], 0>>].multi)
    BY SeenFacts
  <2>2. q = <<q[1], q[2]>> /\ q[1] \in 0 .. LastSlot /\ q[2] \in 0 .. LastFunction
    BY <2>1, PlaceFacts
  <2>3. q[1] = p[1] /\ q[2] = p[2] => q = p
    BY <1>0, <2>2, Zenon
  <2> QED
    BY <2>1, <2>2, <2>3
<1>3. \A a \in 0 .. LastSlot, b \in 0 .. LastFunction :
        <<a, b>> \in Places /\ <<a, b>> # <<>> /\ <<a, b>>[1] = a /\ <<a, b>>[2] = b
  BY DEF Places, Slots
<1>4. CASE p[2] < LastFunction /\ <<p[1], 0>> \in DOMAIN plugged /\ plugged[<<p[1], 0>>].multi
  <2>1. n = <<p[1], p[2] + 1>>
    BY <1>4 DEF NextPlace
  <2>2. p[2] + 1 \in 0 .. LastFunction
    BY <1>1, <1>4
  <2>3. n \in Places /\ n # <<>> /\ n[1] = p[1] /\ n[2] = p[2] + 1
    BY <1>1, <1>3, <2>1, <2>2
  <2>4. Reachable(n)
    BY <1>4, <2>3 DEF Reachable
  <2>5. \A q \in Seen : PassedBy(q, n) <=> Before(q, p) \/ q = p
    <3> TAKE q \in Seen
    <3>0. /\ q[1] \in 0 .. LastSlot /\ q[2] \in 0 .. LastFunction
          /\ q = p <=> q[1] = p[1] /\ q[2] = p[2]
      BY <1>2
    <3>1. PassedBy(q, n) <=> q[1] < p[1] \/ (q[1] = p[1] /\ q[2] < p[2] + 1)
      BY <2>3 DEF PassedBy, Before
    <3> QED
      BY <1>1, <3>0, <3>1 DEF Before
  <2> QED
    BY <2>4, <2>5
<1>5. CASE ~(p[2] < LastFunction /\ <<p[1], 0>> \in DOMAIN plugged
              /\ plugged[<<p[1], 0>>].multi)
  <2>1. n = NextSlot(p)
    BY <1>5 DEF NextPlace
  <2>2. \A q \in Seen : q[1] = p[1] => q[2] <= p[2]
    BY <1>1, <1>2, <1>5 DEF Reachable
  <2>3. CASE p[1] = LastSlot
    <3>1. n = <<>>
      BY <2>1, <2>3 DEF NextSlot
    <3>2. \A q \in Seen : PassedBy(q, n) <=> Before(q, p) \/ q = p
      <4> TAKE q \in Seen
      <4>1. PassedBy(q, n)
        BY <3>1 DEF PassedBy
      <4>0. /\ q[1] \in 0 .. LastSlot /\ q[2] \in 0 .. LastFunction
            /\ q = p <=> q[1] = p[1] /\ q[2] = p[2]
        BY <1>2
      <4>2. q[1] < p[1] \/ q[1] = p[1]
        BY <1>1, <4>0, <2>3
      <4>3. Before(q, p) \/ q = p
        BY <1>1, <2>2, <4>0, <4>2 DEF Before
      <4> QED
        BY <4>1, <4>3
    <3> QED
      BY <3>1, <3>2
  <2>4. CASE p[1] # LastSlot
    <3>1. n = <<p[1] + 1, 0>> /\ p[1] + 1 \in 0 .. LastSlot /\ 0 \in 0 .. LastFunction
      BY <1>1, <2>1, <2>4 DEF NextSlot
    <3>2. n \in Places /\ n # <<>> /\ n[1] = p[1] + 1 /\ n[2] = 0
      BY <1>3, <3>1
    <3>3. Reachable(n)
      BY <3>2 DEF Reachable
    <3>4. \A q \in Seen : PassedBy(q, n) <=> Before(q, p) \/ q = p
      <4> TAKE q \in Seen
      <4>0. /\ q[1] \in 0 .. LastSlot /\ q[2] \in 0 .. LastFunction
            /\ q = p <=> q[1] = p[1] /\ q[2] = p[2]
        BY <1>2
      <4>1. PassedBy(q, n) <=> q[1] < p[1] + 1 \/ (q[1] = p[1] + 1 /\ q[2] < 0)
        BY <3>2 DEF PassedBy, Before
      <4>2. Before(q, p) \/ q = p <=> q[1] < p[1] + 1
        BY <1>1, <2>2, <4>0 DEF Before
      <4> QED
        BY <1>1, <4>0, <4>1, <4>2
    <3> QED
      BY <3>3, <3>4
  <2> QED
    BY <2>3, <2>4
<1> QED
  BY <1>4, <1>5

(* Where the walk is, nobody answers but the function of that place: it     *)
(* never looks where a function that is alone answers for another place.    *)
LEMMA OnlyItselfAnswers ==
  ASSUME plugged \in Topologies, NEW p, Reachable(p)
  PROVE  /\ Answering(p) = IF p \in Seen THEN {p} ELSE {}
         /\ p \in Seen <=> p \in DOMAIN plugged
<1>1. p[1] \in 0 .. LastSlot /\ p[2] \in 0 .. LastFunction /\ p = <<p[1], p[2]>>
  BY PlaceFacts DEF Reachable
<1>2. p \in Seen <=> p \in DOMAIN plugged
  BY <1>1, PciAssumption DEF Seen, Reachable
<1>3. p \notin DOMAIN plugged => Answering(p) = {}
  BY <1>1, PciAssumption DEF Answering, Reachable
<1> QED
  BY <1>2, <1>3 DEF Answering

(* The walk of the enumeration.                                             *)
LEMMA EnumeratingStep ==
  ASSUME Enumerating, [PciNext]_pciVars
  PROVE  Enumerating'
<1>1. CASE checkAbsent
  BY <1>1, NextPlaceIsNext DEF checkAbsent, Enumerating, Reachable, Answering
<1>2. CASE checkFunction
  <2>1. /\ pciAt # <<>> /\ Answering(pciAt) # {} /\ ctor' = 0
        /\ UNCHANGED <<plugged, pciAt>>
    BY <1>2 DEF checkFunction
  <2>2. Answering(pciAt) = {pciAt}
    BY <2>1, OnlyItselfAnswers DEF Enumerating
  <2> QED
    BY <2>1, <2>2 DEF Enumerating, Reachable, Answering
<1>3. CASE readBAR
  <2>1. /\ ctor \in Bars /\ ctor' = ctor + 1 /\ UNCHANGED <<plugged, pciAt>>
        /\ \E p \in Answering(pciAt) : TRUE
    BY <1>3 DEF readBAR
  <2>2. ctor' \in -1 .. 6 /\ ctor' # -1 /\ ctor # -1
    BY <2>1 DEF Bars
  <2> QED
    BY <2>1, <2>2 DEF Enumerating, Reachable, Answering
<1>4. CASE registerDevice_
  <2>1. pciAt' = NextPlace(pciAt) /\ ctor = 6 /\ ctor' = -1 /\ plugged' = plugged
    BY <1>4 DEF registerDevice_
  <2>2. pciAt' # <<>> => Reachable(pciAt')
    BY <2>1, NextPlaceIsNext DEF Enumerating
  <2> QED
    BY <2>1, <2>2 DEF Enumerating, Reachable
<1>5. ASSUME NEW p \in DOMAIN plugged, NEW bit \in 0 .. 2, enable(p, bit)
      PROVE  Enumerating'
  <2>1. UNCHANGED <<plugged, pciAt, ctor>>
    BY <1>5 DEF enable
  <2> QED
    BY <2>1 DEF Enumerating, Reachable, Answering
<1>6. CASE UNCHANGED pciVars
  BY <1>6 DEF pciVars, Enumerating, Reachable, Answering
<1> QED
  BY <1>1, <1>2, <1>3, <1>4, <1>5, <1>6 DEF PciNext

(* A function that is come to is entered behind those that were passed.     *)
LEMMA RegisteredStep ==
  ASSUME Enumerating, RegisteredSoFar, [PciNext]_pciVars
  PROVE  RegisteredSoFar'
<1>1. plugged' = plugged
  BY DEF PciNext, checkAbsent, checkFunction, readBAR, registerDevice_, enable, pciVars
<1>2. CASE UNCHANGED <<pciAt, registered>>
  BY <1>1, <1>2 DEF RegisteredSoFar, Seen, PassedBy
<1>3. CASE checkAbsent
  <2>1. /\ pciAt # <<>> /\ Answering(pciAt) = {} /\ pciAt' = NextPlace(pciAt)
        /\ registered' = registered
    BY <1>3 DEF checkAbsent
  <2>2. pciAt \notin Seen
    BY <2>1, OnlyItselfAnswers DEF Enumerating
  <2>3. \A q \in Seen : PassedBy(q, pciAt') <=> Before(q, pciAt)
    BY <2>1, <2>2, NextPlaceIsNext DEF Enumerating
  <2>4. \A q \in Seen : PassedBy(q, pciAt') <=> PassedBy(q, pciAt)
    BY <2>1, <2>3 DEF PassedBy
  <2>5. \A i \in DOMAIN registered : registered[i] \in Seen
    BY DEF RegisteredSoFar
  <2> QED
    BY <1>1, <2>1, <2>4, <2>5 DEF RegisteredSoFar, Seen, PassedBy
<1>4. CASE registerDevice_
  <2>1. /\ ctor = 6 /\ pciAt' = NextPlace(pciAt)
        /\ registered' = IF Len(registered) < PciRoom
                         THEN registered \o <<CHOOSE p \in Answering(pciAt) : TRUE>>
                         ELSE registered
    BY <1>4 DEF registerDevice_
  <2>2. pciAt # <<>> /\ Answering(pciAt) = {pciAt} /\ Reachable(pciAt)
    BY <2>1 DEF Enumerating
  <2>3. pciAt \in Seen
    BY <2>2, OnlyItselfAnswers DEF Enumerating
  <2>4. (CHOOSE p \in Answering(pciAt) : TRUE) = pciAt
    BY <2>2
  <2>5. \A q \in Seen : PassedBy(q, pciAt') <=> PassedBy(q, pciAt) \/ q = pciAt
    BY <2>1, <2>2, NextPlaceIsNext DEF Enumerating, PassedBy
  <2> PICK at : at = pciAt
    OBVIOUS
  <2>6. \A i \in DOMAIN registered : registered[i] \in Seen /\ Before(registered[i], at)
    BY <2>2 DEF RegisteredSoFar, PassedBy
  <2>7. CASE Len(registered) < PciRoom
    <3>1. registered' = registered \o <<at>>
      BY <2>1, <2>4, <2>7
    <3>2. registered \in Seq(Seen) /\ Len(registered) \in Nat
      BY DEF RegisteredSoFar
    <3>3. /\ registered' \in Seq(Seen) /\ Len(registered') = Len(registered) + 1
          /\ DOMAIN registered' = DOMAIN registered \cup {Len(registered) + 1}
          /\ DOMAIN registered = 1 .. Len(registered)
          /\ \A i \in DOMAIN registered : registered'[i] = registered[i]
          /\ registered'[Len(registered) + 1] = at
      BY <2>3, <3>1, <3>2
    <3>4. \A i \in DOMAIN registered' : PassedBy(registered'[i], pciAt')
      BY <2>3, <2>5, <2>6, <3>3 DEF RegisteredSoFar
    <3>5. \A i, j \in DOMAIN registered' : i < j => Before(registered'[i], registered'[j])
      BY <2>6, <3>2, <3>3 DEF RegisteredSoFar
    <3>6. \A p \in Seen : PassedBy(p, pciAt') => \E i \in DOMAIN registered' : registered'[i] = p
      BY <2>5, <2>7, <3>3 DEF RegisteredSoFar
    <3>7. Seen' = Seen /\ \A p : PassedBy(p, pciAt)' <=> PassedBy(p, pciAt')
      BY <1>1 DEF Seen, PassedBy
    <3>8. \A i \in DOMAIN registered' : PassedBy(registered[i], pciAt)'
      BY <3>4 DEF PassedBy
    <3> QED
      BY <3>3, <3>5, <3>6, <3>7, <3>8 DEF RegisteredSoFar
  <2>8. CASE ~(Len(registered) < PciRoom)
    <3>1. registered' = registered
      BY <2>1, <2>8
    <3>2. \A i \in DOMAIN registered : PassedBy(registered[i], pciAt')
      BY <2>5, <2>6 DEF RegisteredSoFar
    <3> QED
      BY <1>1, <2>8, <3>1, <3>2 DEF RegisteredSoFar, Seen, PassedBy
  <2> QED
    BY <2>7, <2>8
<1> QED
  BY <1>2, <1>3, <1>4 DEF PciNext, checkFunction, readBAR, enable, pciVars

(* EachFunctionOnce says little before the end of the walk; what is         *)
(* inductive is how far the list is at every place, that the walk only comes*)
(* to places it may look at, and that a constructor reads the function of   *)
(* the place it is at.                                                      *)
(* pci.cpp: the functions of a machine, whatever is plugged in, are         *)
(* registered once each and in order, as many as there is room for.         *)
THEOREM EachFunctionIsRegistered == PciSpec => []EachFunctionOnce
<1>1. PciInit => Enumerating /\ RegisteredSoFar
  <2> SUFFICES ASSUME PciInit PROVE Enumerating /\ RegisteredSoFar
    OBVIOUS
  <2>1. /\ plugged \in Topologies /\ pciAt = <<0, 0>> /\ ctor = -1 /\ registered = <<>>
        /\ LastSlot \in Nat /\ LastFunction \in Nat
    BY PciAssumption DEF PciInit
  <2>2. pciAt \in Places /\ pciAt[1] = 0 /\ pciAt[2] = 0 /\ pciAt # <<>>
    BY <2>1 DEF Places, Slots
  <2>3. Enumerating
    BY <2>1, <2>2 DEF Enumerating, Reachable
  <2>4. \A p \in Seen : ~PassedBy(p, pciAt)
    <3> TAKE p \in Seen
    <3>1. p[1] \in 0 .. LastSlot /\ p[2] \in 0 .. LastFunction
      BY <2>1, SeenFacts, PlaceFacts
    <3>2. ~Before(p, pciAt)
      BY <2>2, <3>1 DEF Before
    <3> QED
      BY <2>2, <3>2 DEF PassedBy
  <2>5. RegisteredSoFar
    BY <2>1, <2>4 DEF RegisteredSoFar
  <2> QED
    BY <2>3, <2>5
<1>2. Enumerating /\ RegisteredSoFar /\ [PciNext]_pciVars => (Enumerating /\ RegisteredSoFar)'
  BY EnumeratingStep, RegisteredStep
<1>3. Enumerating /\ RegisteredSoFar => EachFunctionOnce
  BY DEF RegisteredSoFar, EachFunctionOnce, PassedBy
<1> QED
  BY <1>1, <1>2, <1>3, PTL DEF PciSpec

-----------------------------------------------------------------------------
(* Registers that are sized are put back *)

(* Reading a bar gives a register back but for bits that a 1 clears.        *)
LEMMA RestoredFacts ==
  ASSUME NEW f, NEW r, NEW now, NEW then, then = Restored(f, r, now)
  PROVE  then \subseteq now /\ now \ then \subseteq Clearing(f, r)
BY DEF Restored, Mask, write32

RegisterTypes ==
  /\ plugged \in Topologies
  /\ registers \in [DOMAIN plugged -> [Registers -> SUBSET Ones]]
  /\ enabled \in [DOMAIN plugged -> SUBSET (0 .. 2)]

Was(p, r) == atBoot[p][r] \cup (IF r = Command THEN enabled[p] ELSE {})

RegistersKept ==
  \A p \in DOMAIN plugged, r \in Registers :
    /\ registers[p][r] \subseteq Was(p, r)
    /\ Was(p, r) \ registers[p][r] \subseteq Clearing(plugged[p], r)

(* The types and what a bar of a function can be.                           *)
LEMMA FunctionTypes ==
  ASSUME plugged \in Topologies, NEW p \in DOMAIN plugged
  PROVE  WellFormed(plugged[p])
BY PciAssumption

(* At boot a register holds the bits that it can hold.                      *)
LEMMA InitiallyTyped ==
  ASSUME NEW f, WellFormed(f), NEW s \in Statuses, NEW r \in Registers
  PROVE  Initially(f, r, s) \in SUBSET Ones
<1>1. CASE r = Command
  BY <1>1, PciAssumption DEF Initially, Ones, Status
<1>2. CASE r = After
  BY <1>2 DEF Initially, After, Command
<1>3. CASE r \notin {Command, After}
  <2>1. r \in Bars
    BY <1>3 DEF Registers, Bars, After, Command
  <2>2. f.bars[r] \in [kind : Kinds, size : 0 .. 31, at : SUBSET Ones]
    BY <2>1 DEF WellFormed
  <2>3. TypeBits(f.bars[r]) \subseteq Ones
    BY DEF TypeBits, Ones
  <2> QED
    BY <1>3, <2>2, <2>3 DEF Initially
<1> QED
  BY <1>1, <1>2, <1>3

(* What reading bar i does to the registers of f.                           *)
Touched(f, i, regs) ==
  IF regs[i] = {} THEN {}
  ELSE IF BarOf(f, i, regs).type = "MMIO64" THEN {i, i + 1} ELSE {i}

(* A turn of the constructor, in the terms of what it touches.              *)
LEMMA ReadBarStep ==
  ASSUME Enumerating, readBAR
  PROVE  /\ pciAt \in DOMAIN plugged /\ ctor \in Bars
         /\ registers' = [registers EXCEPT ![pciAt] = [r \in Registers |->
              IF r \in Touched(plugged[pciAt], ctor, registers[pciAt])
              THEN Restored(plugged[pciAt], r, registers[pciAt][r])
              ELSE registers[pciAt][r]]]
         /\ device' = [device EXCEPT ![pciAt] =
              IF ctor = 0 THEN <<BarOf(plugged[pciAt], ctor, registers[pciAt])>>
              ELSE Append(@, BarOf(plugged[pciAt], ctor, registers[pciAt]))]
         /\ ctor' = ctor + 1
         /\ UNCHANGED <<plugged, atBoot, pciAt, registered, enabled>>
<1>1. ctor \in Bars /\ ctor # -1
  BY DEF readBAR, Bars
<1>2. pciAt # <<>> /\ Answering(pciAt) = {pciAt}
  BY <1>1 DEF Enumerating
<1>3. pciAt \in DOMAIN plugged
  BY <1>2 DEF Answering
<1> QED
  BY <1>1, <1>2, <1>3 DEF readBAR, Touched

(* Registers keep what they were, whichever function is read or enabled.    *)
LEMMA RegistersStep ==
  ASSUME Enumerating, RegisterTypes, RegistersKept, [PciNext]_pciVars
  PROVE  RegisterTypes' /\ RegistersKept'
<1>1. CASE UNCHANGED <<plugged, registers, atBoot, enabled>>
  BY <1>1 DEF RegisterTypes, RegistersKept, Was
<1>2. CASE readBAR
  <2> PICK at, f, i : at = pciAt /\ f = plugged[pciAt] /\ i = ctor
    OBVIOUS
  <2> PICK T : T = Touched(f, i, registers[at])
    OBVIOUS
  <2> PICK new : new = [r \in Registers |-> IF r \in T THEN Restored(f, r, registers[at][r])
                                            ELSE registers[at][r]]
    OBVIOUS
  <2>1. /\ at \in DOMAIN plugged /\ registers' = [registers EXCEPT ![at] = new]
        /\ UNCHANGED <<plugged, atBoot, enabled>>
    BY <1>2, ReadBarStep
  <2>2. \A r \in Registers : /\ new[r] \subseteq registers[at][r]
                             /\ registers[at][r] \ new[r] \subseteq Clearing(f, r)
    BY RestoredFacts
  <2>3. registers[at] \in [Registers -> SUBSET Ones]
    BY <2>1 DEF RegisterTypes
  <2>4. new \in [Registers -> SUBSET Ones]
    BY <2>2, <2>3
  <2>5. RegisterTypes'
    BY <2>1, <2>4 DEF RegisterTypes
  <2>6. RegistersKept'
    <3> SUFFICES ASSUME NEW p \in DOMAIN plugged, NEW r \in Registers
                 PROVE  /\ registers'[p][r] \subseteq Was(p, r)
                        /\ Was(p, r) \ registers'[p][r] \subseteq Clearing(plugged[p], r)
      BY <2>1 DEF RegistersKept, Was
    <3>1. /\ registers[p][r] \subseteq Was(p, r)
          /\ Was(p, r) \ registers[p][r] \subseteq Clearing(plugged[p], r)
      BY DEF RegistersKept
    <3>2. CASE p # at
      <4>1. registers'[p] = registers[p]
        BY <2>1, <3>2 DEF RegisterTypes
      <4> QED
        BY <3>1, <4>1
    <3>3. CASE p = at
      <4>1. registers'[p] = new
        BY <2>1, <3>3 DEF RegisterTypes
      <4> QED
        BY <2>2, <3>1, <3>3, <4>1
    <3> QED
      BY <3>2, <3>3
  <2> QED
    BY <2>5, <2>6
<1>3. ASSUME NEW p \in DOMAIN plugged, NEW bit \in 0 .. 2, enable(p, bit)
      PROVE  RegisterTypes' /\ RegistersKept'
  <2> PICK old : old = registers[p][Command]
    OBVIOUS
  <2>1. Command \in Registers
    BY DEF Command, Registers
  <2>2. old \in SUBSET Ones
    BY <2>1 DEF RegisterTypes
  <2>3. /\ registers' = [registers EXCEPT ![p][Command] =
             write32(plugged[p], Command, old, write16(old, (old \ Status) \cup {bit}))]
        /\ enabled' = [enabled EXCEPT ![p] = enabled[p] \cup {bit}]
        /\ UNCHANGED <<plugged, atBoot>>
    BY <1>3 DEF enable
  <2> PICK now : now = write32(plugged[p], Command, old, write16(old, (old \ Status) \cup {bit}))
    OBVIOUS
  (* The command gains the bit, and the status loses what was set. *)
  <2>4. now = (old \ Status) \cup {bit}
    BY <2>2 DEF write32, write16, Writable, Clearing, Status, Ones
  <2>5. registers' = [registers EXCEPT ![p] = [registers[p] EXCEPT ![Command] = now]]
    BY <2>3
  <2>6. now \in SUBSET Ones
    BY <2>2, <2>4 DEF Ones
  <2>7. RegisterTypes'
    <3>1. [registers[p] EXCEPT ![Command] = now] \in [Registers -> SUBSET Ones]
      BY <2>6 DEF RegisterTypes
    <3> QED
      BY <2>3, <2>5, <3>1 DEF RegisterTypes
  <2>8. RegistersKept'
    <3> SUFFICES ASSUME NEW q \in DOMAIN plugged, NEW r \in Registers
                 PROVE  /\ registers'[q][r] \subseteq Was(q, r)'
                        /\ Was(q, r)' \ registers'[q][r] \subseteq Clearing(plugged[q], r)
      BY <2>3 DEF RegistersKept
    <3>1. /\ registers[q][r] \subseteq Was(q, r)
          /\ Was(q, r) \ registers[q][r] \subseteq Clearing(plugged[q], r)
      BY DEF RegistersKept
    <3>2. CASE q # p \/ r # Command
      <4>1. registers'[q][r] = registers[q][r]
        BY <2>5, <3>2 DEF RegisterTypes
      <4>2. Was(q, r)' = Was(q, r)
        BY <2>3, <3>2 DEF Was, RegisterTypes
      <4> QED
        BY <3>1, <4>1, <4>2
    <3>3. CASE q = p /\ r = Command
      <4>1. registers'[q][r] = now
        BY <2>5, <3>3 DEF RegisterTypes
      <4>2. Was(q, r)' = Was(q, r) \cup {bit}
        BY <2>3, <3>3 DEF Was, RegisterTypes
      <4>3. Clearing(plugged[q], r) = Status
        BY <3>3 DEF Clearing
      <4>4. registers[q][r] = old
        BY <3>3
      <4> QED
        BY <2>4, <3>1, <4>1, <4>2, <4>3, <4>4
    <3> QED
      BY <3>2, <3>3
  <2> QED
    BY <2>7, <2>8
<1> QED
  BY <1>1, <1>2, <1>3 DEF PciNext, checkAbsent, checkFunction, registerDevice_, pciVars

-----------------------------------------------------------------------------
(* A device knows its bars *)

(* A function whose bars are bars, with none above 4 GiB.                   *)
LowBars(f) == ~f.bridge /\ \A i \in Bars : f.bars[i].kind = "high" => f.bars[i].at = {}

(* The negation of a mask of which the upper bits stuck is its lowest bit.  *)
LEMMA NegatedMask ==
  ASSUME NEW bits \in Nat, NEW top \in Int, top = bits - 1, NEW size \in 0 .. top
  PROVE  Negated(size .. top, bits) = {size}
<1> PICK m : m = size .. top
  OBVIOUS
<1>1. size \in m /\ \A c \in m : size <= c /\ c \in Int
  OBVIOUS
<1>2. PICK low : low = CHOOSE b \in m : \A c \in m : b <= c
  OBVIOUS
<1>3. low \in m /\ \A c \in m : low <= c
  BY <1>1, <1>2
<1>4. low = size
  BY <1>1, <1>3
<1>5. Negated(m, bits) = {low} \cup ((low + 1 .. bits - 1) \ m)
  BY <1>1, <1>2 DEF Negated
<1>6. Negated(m, bits) = {size}
  BY <1>4, <1>5
<1> QED
  BY <1>6

(* What sticks in a register when ones are written to it.                   *)
LEMMA MaskFacts ==
  ASSUME NEW f, ~f.bridge, NEW r \in 0 .. 6, NEW now
  PROVE  Mask(f, r, now) = (now \ Writable(f, r)) \cup (Ones \cap Writable(f, r))
BY DEF Mask, write32, Clearing, Command

(* readBAR reads a bar as what it is: no bar, its ports or its memory, where*)
(* they are and how many.                                                   *)
LEMMA BarIsRead ==
  ASSUME NEW f, WellFormed(f), LowBars(f), NEW i \in Bars, NEW regs,
         \A r \in 0 .. 6 : regs[r] = Initially(f, r, {})
  PROVE  BarOf(f, i, regs) = Expected(f, i)
<1>0. PICK b, size, at : b = f.bars[i] /\ size = b.size /\ at = b.at
  OBVIOUS
<1>1. /\ b \in [kind : Kinds, size : 0 .. 31, at : SUBSET Ones]
      /\ size \in 0 .. 31 /\ at \in SUBSET Ones
      /\ b.kind = "io" => 2 <= size
      /\ b.kind \in {"memory32", "memory64"} => 4 <= size
      /\ b.kind \in {"io", "memory32", "memory64"} => at \subseteq size .. 31
      /\ b.kind = "memory32" => at # {}
      /\ b.kind = "memory64" => i < 5 /\ f.bars[i + 1].kind = "high"
  BY <1>0 DEF WellFormed, LowBars
<1>2. i \in 0 .. 6 /\ i # Command /\ i # After /\ ~f.bridge
  BY DEF Bars, Command, After, LowBars
<1>3. regs[i] = IF b.kind = "none" THEN {} ELSE at \cup TypeBits(b)
  BY <1>0, <1>2 DEF Initially
<1>4. PICK original : original = regs[i]
  OBVIOUS
<1>5. PICK sizing : sizing = Mask(f, i, original)
  OBVIOUS
<1>6. sizing = (original \ Writable(f, i)) \cup (Ones \cap Writable(f, i))
  BY <1>2, <1>5, MaskFacts
<1>7. b.kind \in {"io", "memory32", "memory64"} => Writable(f, i) = size .. 31
  BY <1>0, <1>2 DEF Writable, Clearing
<1>8. CASE b.kind \in {"none", "high"}
  <2>1. regs[i] = {}
    BY <1>0, <1>3, <1>8 DEF LowBars, TypeBits
  <2> QED
    BY <1>0, <1>8, <2>1 DEF BarOf, Expected
<1>9. CASE b.kind = "io"
  <2>1. original = at \cup {0}
    BY <1>3, <1>4, <1>9 DEF TypeBits
  <2>2. size \in 2 .. 31 /\ at \subseteq size .. 31
    BY <1>1, <1>9
  <2>3. original # {} /\ 0 \in original /\ original \ {0, 1} = at
    BY <2>1, <2>2
  <2>4. sizing \ {0, 1} = size .. 31
    <3>1. PICK w : w = size .. 31
      OBVIOUS
    <3>2. sizing = (original \ w) \cup (Ones \cap w)
      BY <1>6, <1>7, <1>9, <3>1
    <3>3. \A c \in original : c \in w \/ c \in {0, 1}
      BY <2>1, <2>2, <3>1
    <3>4. \A c \in {0, 1} : c \in Int /\ c < size
      BY <2>2
    <3>5. w \subseteq Ones /\ \A c \in w : c \in Int /\ c >= size
      BY <2>2, <3>1 DEF Ones
    <3>6. sizing = (original \ w) \cup w
      BY <3>2, <3>5
    <3>7. \A c \in w : c \notin {0, 1}
      BY <2>2, <3>4, <3>5
    <3> QED
      BY <3>1, <3>3, <3>6, <3>7
  <2>5. Negated(sizing \ {0, 1}, 32) = {size}
    <3>1. Negated(size .. 31, 32) = {size}
      <4>1. 32 \in Nat /\ 31 \in Int /\ 31 = 32 - 1 /\ size \in 0 .. 31
        BY <2>2
      <4> QED
        BY <4>1, NegatedMask, Zenon
    <3> QED
      BY <2>4, <3>1
  <2>6. BarOf(f, i, regs) = [type |-> "IO", address |-> at, size |-> {size}]
    BY <1>4, <1>5, <2>3, <2>5 DEF BarOf
  <2>7. Expected(f, i) = [type |-> "IO", address |-> at, size |-> {size}]
    BY <1>0, <1>9 DEF Expected, Shifted32
  <2> QED
    BY <2>6, <2>7
<1>10. CASE b.kind = "memory32"
  <2>1. original = at
    BY <1>3, <1>4, <1>10 DEF TypeBits
  <2>2. size \in 4 .. 31 /\ at \subseteq size .. 31 /\ at # {}
    BY <1>1, <1>10
  <2>3. /\ original # {} /\ 0 \notin original /\ {1, 2} \cap original = {}
        /\ original \ (0 .. 3) = at
    BY <2>1, <2>2
  <2>4. sizing \ (0 .. 3) = size .. 31
    <3>1. PICK w : w = size .. 31
      OBVIOUS
    <3>2. sizing = (original \ w) \cup (Ones \cap w)
      BY <1>6, <1>7, <1>10, <3>1
    <3>3. \A c \in original : c \in w \/ c \in (0 .. 3)
      BY <2>1, <2>2, <3>1
    <3>4. \A c \in (0 .. 3) : c \in Int /\ c < size
      BY <2>2
    <3>5. w \subseteq Ones /\ \A c \in w : c \in Int /\ c >= size
      BY <2>2, <3>1 DEF Ones
    <3>6. sizing = (original \ w) \cup w
      BY <3>2, <3>5
    <3>7. \A c \in w : c \notin (0 .. 3)
      BY <2>2, <3>4, <3>5
    <3> QED
      BY <3>1, <3>3, <3>6, <3>7
  <2>5. Negated(sizing \ (0 .. 3), 32) = {size}
    <3>1. Negated(size .. 31, 32) = {size}
      <4>1. 32 \in Nat /\ 31 \in Int /\ 31 = 32 - 1 /\ size \in 0 .. 31
        BY <2>2
      <4> QED
        BY <4>1, NegatedMask, Zenon
    <3> QED
      BY <2>4, <3>1
  <2>6. BarOf(f, i, regs) = [type |-> "MMIO32", address |-> at, size |-> {size}]
    BY <1>4, <1>5, <2>3, <2>5 DEF BarOf
  <2>7. Expected(f, i) = [type |-> "MMIO32", address |-> at, size |-> {size}]
    BY <1>0, <1>10 DEF Expected, Shifted32
  <2> QED
    BY <2>6, <2>7
<1>11. CASE b.kind = "memory64"
  <2>1. original = at \cup {2}
    BY <1>3, <1>4, <1>11 DEF TypeBits
  <2>2. size \in 4 .. 31 /\ at \subseteq size .. 31
    BY <1>1, <1>11
  <2>3. /\ original # {} /\ 0 \notin original /\ {1, 2} \cap original = {2}
        /\ original \ (0 .. 3) = at
    BY <2>1, <2>2
  <2>4. sizing \ (0 .. 3) = size .. 31
    <3>1. PICK w : w = size .. 31
      OBVIOUS
    <3>2. sizing = (original \ w) \cup (Ones \cap w)
      BY <1>6, <1>7, <1>11, <3>1
    <3>3. \A c \in original : c \in w \/ c \in (0 .. 3)
      BY <2>1, <2>2, <3>1
    <3>4. \A c \in (0 .. 3) : c \in Int /\ c < size
      BY <2>2
    <3>5. w \subseteq Ones /\ \A c \in w : c \in Int /\ c >= size
      BY <2>2, <3>1 DEF Ones
    <3>6. sizing = (original \ w) \cup w
      BY <3>2, <3>5
    <3>7. \A c \in w : c \notin (0 .. 3)
      BY <2>2, <3>4, <3>5
    <3> QED
      BY <3>1, <3>3, <3>6, <3>7
  <2>5. i + 1 \in Bars /\ f.bars[i + 1].kind = "high" /\ f.bars[i + 1].at = {}
    BY <1>0, <1>1, <1>11 DEF Bars, LowBars
  <2>6. /\ i + 1 \in 0 .. 6 /\ i + 1 # Command /\ i + 1 # After
    BY <2>5 DEF Bars, Command, After
  <2>7. regs[i + 1] = {}
    BY <2>5, <2>6 DEF Initially, TypeBits
  <2>8. Writable(f, i + 1) = Ones
    BY <2>5, <2>6 DEF Writable
  <2>9. Mask(f, i + 1, regs[i + 1]) = Ones
    <3>1. Mask(f, i + 1, {}) = ({} \ Writable(f, i + 1)) \cup (Ones \cap Writable(f, i + 1))
      BY <1>2, <2>6, MaskFacts
    <3> QED
      BY <2>7, <2>8, <3>1
  <2>10. Shifted32({}) = {} /\ Shifted32(Ones) = 32 .. 63
    <3>1. \A c \in 32 .. 63 : c - 32 \in Ones /\ c = (c - 32) + 32
      BY DEF Ones
    <3> QED
      BY <3>1 DEF Shifted32, Ones
  <2>11. (sizing \ (0 .. 3)) \cup Shifted32(Ones) = size .. 63
    BY <2>2, <2>4, <2>10
  <2>12. Negated((sizing \ (0 .. 3)) \cup Shifted32(Ones), 64) = {size}
    <3>1. Negated(size .. 63, 64) = {size}
      <4>1. 64 \in Nat /\ 63 \in Int /\ 63 = 64 - 1 /\ size \in 0 .. 63
        BY <2>2
      <4> QED
        BY <4>1, NegatedMask, Zenon
    <3> QED
      BY <2>11, <3>1
  <2>13. BarOf(f, i, regs) = [type |-> "MMIO64", address |-> at \cup Shifted32({}),
                              size |-> {size}]
    BY <1>4, <1>5, <2>3, <2>7, <2>9, <2>12 DEF BarOf
  <2>14. Expected(f, i) = [type |-> "MMIO64", address |-> at \cup Shifted32({}),
                           size |-> {size}]
    BY <1>0, <1>11, <2>5 DEF Expected
  <2> QED
    BY <2>13, <2>14
<1> QED
  BY <1>1, <1>8, <1>9, <1>10, <1>11 DEF Kinds

(* The first n entries with the next one appended are the first n + 1.      *)
LEMMA GrownSequence ==
  ASSUME NEW n \in Nat, NEW T, NEW t \in [1 .. n + 1 -> T], NEW s, s = [i \in 1 .. n |-> t[i]]
  PROVE  Append(s, t[n + 1]) = t
<1>1. s \in Seq(T) /\ Len(s) = n /\ \A i \in 1 .. n : s[i] = t[i]
  <2>1. s \in [1 .. n -> T]
    OBVIOUS
  <2> QED
    BY <2>1
<1>2. PICK e : e = t[n + 1]
  OBVIOUS
<1>3. e \in T
  BY <1>2
<1>4. PICK u : u = Append(s, e)
  OBVIOUS
<1>5. /\ u \in Seq(T) /\ Len(u) = n + 1 /\ u[n + 1] = e
      /\ \A i \in 1 .. n : u[i] = t[i]
  BY <1>1, <1>3, <1>4
<1>6. u \in [1 .. n + 1 -> T]
  BY <1>5
<1>7. \A i \in 1 .. n + 1 : u[i] = t[i]
  BY <1>2, <1>5
<1>8. u = t
  BY <1>6, <1>7
<1> QED
  BY <1>2, <1>4, <1>8

(* The bars that have been read, of a function whose constructor is not the *)
(* one that runs either none or all.                                        *)
BarsKnown ==
  /\ device = [p \in DOMAIN plugged |-> device[p]]
  /\ \E s \in Statuses : atBoot = [p \in DOMAIN plugged |->
                                     [r \in Registers |-> Initially(plugged[p], r, s)]]
  /\ \A p \in DOMAIN plugged : LowBars(plugged[p]) =>
       \E n \in 0 .. 6 : /\ device[p] = [i \in 1 .. n |-> Expected(plugged[p], i - 1)]
                         /\ ctor > 0 /\ p = pciAt => n = ctor

(* The registers of a function that clears nothing are what they were.      *)
LEMMA RegistersOfLowBars ==
  ASSUME RegisterTypes, RegistersKept, BarsKnown, NEW p \in DOMAIN plugged,
         LowBars(plugged[p])
  PROVE  \A r \in 0 .. 6 : registers[p][r] = Initially(plugged[p], r, {})
<1> SUFFICES ASSUME NEW r \in 0 .. 6
             PROVE  registers[p][r] = Initially(plugged[p], r, {})
  OBVIOUS
<1>1. r \in Registers /\ r # Command
  BY DEF Registers, Command
<1>2. Clearing(plugged[p], r) = {} /\ Was(p, r) = atBoot[p][r]
  BY <1>1 DEF Clearing, LowBars, Was
<1>3. registers[p][r] = atBoot[p][r]
  <2>1. /\ registers[p][r] \subseteq atBoot[p][r]
        /\ atBoot[p][r] \ registers[p][r] \subseteq {}
    BY <1>1, <1>2 DEF RegistersKept
  <2> QED
    BY <2>1
<1>4. PICK s \in Statuses :
        atBoot = [q \in DOMAIN plugged |-> [x \in Registers |-> Initially(plugged[q], x, s)]]
  BY DEF BarsKnown
<1>5. atBoot[p][r] = Initially(plugged[p], r, s)
  BY <1>1, <1>4
<1>6. Initially(plugged[p], r, s) = Initially(plugged[p], r, {})
  BY <1>1 DEF Initially
<1> QED
  BY <1>3, <1>5, <1>6

(* A turn of the constructor adds the next bar, as what it is.              *)
LEMMA BarsStep ==
  ASSUME Enumerating, RegisterTypes, RegistersKept, BarsKnown, [PciNext]_pciVars
  PROVE  BarsKnown'
<1>1. CASE UNCHANGED <<plugged, atBoot, device>> /\ (UNCHANGED <<ctor, pciAt>> \/ ctor' \in {-1, 0})
  BY <1>1 DEF BarsKnown
<1>2. CASE readBAR
  <2> PICK at, f, n : at = pciAt /\ f = plugged[pciAt] /\ n = ctor
    OBVIOUS
  <2> PICK bar : bar = BarOf(f, n, registers[at])
    OBVIOUS
  <2>1. /\ at \in DOMAIN plugged /\ n \in Bars /\ ctor' = n + 1
        /\ device' = [device EXCEPT ![at] = IF n = 0 THEN <<bar>> ELSE Append(device[at], bar)]
        /\ UNCHANGED <<plugged, atBoot, pciAt>>
    BY <1>2, ReadBarStep
  <2>2. device' = [p \in DOMAIN plugged |-> device'[p]]
    BY <2>1 DEF BarsKnown
  <2>3. \A p \in DOMAIN plugged : p # at => device'[p] = device[p]
    BY <2>1 DEF BarsKnown
  <2>4. LowBars(f) => device'[at] = [i \in 1 .. n + 1 |-> Expected(f, i - 1)]
    <3> SUFFICES ASSUME LowBars(f)
                 PROVE  device'[at] = [i \in 1 .. n + 1 |-> Expected(f, i - 1)]
      OBVIOUS
    <3>1. WellFormed(f)
      BY <2>1, FunctionTypes DEF RegisterTypes
    <3>2. \A r \in 0 .. 6 : registers[at][r] = Initially(f, r, {})
      BY <2>1, RegistersOfLowBars
    <3>3. bar = Expected(f, n)
      BY <2>1, <3>1, <3>2, BarIsRead
    <3>4. device'[at] = IF n = 0 THEN <<bar>> ELSE Append(device[at], bar)
      BY <2>1 DEF BarsKnown
    <3>5. CASE n = 0
      BY <3>3, <3>4, <3>5
    <3>6. CASE n # 0
      <4>1. n \in 1 .. 5 /\ n \in Nat /\ ctor > 0
        BY <2>1, <3>6 DEF Bars
      <4>2. device[at] = [i \in 1 .. n |-> Expected(f, i - 1)]
        BY <2>1, <4>1 DEF BarsKnown
      <4>3. PICK T, t : t = [i \in 1 .. n + 1 |-> Expected(f, i - 1)]
                        /\ T = {Expected(f, i - 1) : i \in 1 .. n + 1}
        OBVIOUS
      <4>4. t \in [1 .. n + 1 -> T]
        BY <4>3
      <4>5. PICK s : s = device[at]
        OBVIOUS
      <4>6. s = [i \in 1 .. n |-> t[i]]
        BY <4>1, <4>2, <4>3, <4>5
      <4>7. t[n + 1] = bar
        <5>1. PICK k \in 1 .. n + 1 : k = n + 1
          BY <4>1
        <5>2. k - 1 = n
          BY <4>1, <5>1
        <5>3. t[k] = Expected(f, k - 1)
          BY <4>3
        <5> QED
          BY <3>3, <5>1, <5>2, <5>3, Zenon
      <4>8. Append(s, t[n + 1]) = t
        BY <4>1, <4>4, <4>6, GrownSequence
      <4> QED
        BY <3>4, <3>6, <4>3, <4>5, <4>7, <4>8
    <3> QED
      BY <3>5, <3>6
  <2>5. \A p \in DOMAIN plugged : LowBars(plugged[p]) =>
          \E k \in 0 .. 6 : /\ device'[p] = [i \in 1 .. k |-> Expected(plugged[p], i - 1)]
                            /\ p = at => k = n + 1
    <3> SUFFICES ASSUME NEW p \in DOMAIN plugged, LowBars(plugged[p])
                 PROVE  \E k \in 0 .. 6 :
                          /\ device'[p] = [i \in 1 .. k |-> Expected(plugged[p], i - 1)]
                          /\ p = at => k = n + 1
      OBVIOUS
    <3>1. CASE p = at
      <4>1. n + 1 \in 0 .. 6
        BY <2>1 DEF Bars
      <4> QED
        BY <2>4, <3>1, <4>1
    <3>2. CASE p # at
      BY <2>3, <3>2 DEF BarsKnown
    <3> QED
      BY <3>1, <3>2
  <2>6. \E s \in Statuses : atBoot' = [p \in DOMAIN plugged' |->
                                        [r \in Registers |-> Initially(plugged'[p], r, s)]]
    BY <2>1 DEF BarsKnown
  <2>7. \A p \in DOMAIN plugged' : LowBars(plugged'[p]) =>
          \E k \in 0 .. 6 : /\ device'[p] = [i \in 1 .. k |-> Expected(plugged'[p], i - 1)]
                            /\ ctor' > 0 /\ p = pciAt' => k = ctor'
    <3>1. plugged' = plugged /\ pciAt' = at /\ ctor' = n + 1
      BY <2>1
    <3> QED
      BY <2>5, <3>1
  <2> QED
    BY <2>1, <2>2, <2>6, <2>7 DEF BarsKnown
<1> QED
  BY <1>1, <1>2 DEF PciNext, checkAbsent, checkFunction, registerDevice_, enable, pciVars

(* What the enumeration does to the registers and knows of the bars.        *)
ConfigInv == Enumerating /\ RegisterTypes /\ RegistersKept /\ BarsKnown

(* At boot nothing was written and nothing is known.                        *)
LEMMA ConfigInit == PciInit => ConfigInv
<1> SUFFICES ASSUME PciInit PROVE ConfigInv
  OBVIOUS
<1>1. PICK s \in Statuses :
        registers = [p \in DOMAIN plugged |-> [r \in Registers |-> Initially(plugged[p], r, s)]]
  BY DEF PciInit
<1>2. /\ plugged \in Topologies /\ atBoot = registers /\ pciAt = <<0, 0>> /\ ctor = -1
      /\ device = [p \in DOMAIN plugged |-> <<>>]
      /\ enabled = [p \in DOMAIN plugged |-> {}]
      /\ LastSlot \in Nat /\ LastFunction \in Nat
  BY PciAssumption DEF PciInit
<1>3. Enumerating
  BY <1>2 DEF Enumerating, Reachable, Places, Slots
<1>4. RegisterTypes
  <2>1. \A p \in DOMAIN plugged, r \in Registers : Initially(plugged[p], r, s) \in SUBSET Ones
    BY <1>2, FunctionTypes, InitiallyTyped
  <2> QED
    BY <1>1, <1>2, <2>1 DEF RegisterTypes
<1>5. RegistersKept
  BY <1>2 DEF RegistersKept, Was
<1>6. BarsKnown
  <2>1. \A p \in DOMAIN plugged : device[p] = [i \in 1 .. 0 |-> Expected(plugged[p], i - 1)]
    BY <1>2
  <2> QED
    BY <1>1, <1>2, <2>1 DEF BarsKnown
<1> QED
  BY <1>3, <1>4, <1>5, <1>6 DEF ConfigInv

(* pci.cpp: whatever is plugged in, sizing a bar and enabling a function    *)
(* leave its registers as they were but for the command bits that were set  *)
(* and for bits that a write of 1 clears; and a device knows each of its    *)
(* bars as what it is.                                                      *)
THEOREM ConfigIsPreserved == PciSpec => []ConfigPreserved
<1>1. ConfigInv /\ [PciNext]_pciVars => ConfigInv'
  BY EnumeratingStep, RegistersStep, BarsStep DEF ConfigInv
<1>2. ConfigInv => ConfigPreserved
  <2> SUFFICES ASSUME ConfigInv PROVE ConfigPreserved
    OBVIOUS
  <2>1. \A p \in DOMAIN plugged : LowBars(plugged[p]) =>
          \A i \in DOMAIN device[p] : device[p][i] = Expected(plugged[p], i - 1)
    BY DEF ConfigInv, BarsKnown
  <2> QED
    BY <2>1 DEF ConfigInv, RegistersKept, Was, ConfigPreserved, LowBars
<1> QED
  BY <1>1, <1>2, ConfigInit, PTL DEF PciSpec

-----------------------------------------------------------------------------
(***************************************************************************)
(* Interrupts: an interrupt is acknowledged at every chip it went through, *)
(* and the keyboard, once enabled with nothing waiting, is never left with *)
(* a byte nobody will read.  KeyboardNeverJams is not inductive: an edge   *)
(* may be lost where the line is masked or the handler gone, so the        *)
(* invariant says at which steps of the kernel listening can be on (Armed).*)
(***************************************************************************)

(* Before the controllers are set up all lines are masked at the PICs; only *)
(* the I/O APIC remembers an edge at a masked pin.                          *)
ControllersSetUp ==
  /\ step = "initIrq" => backend = "PIC" /\ masked = IRQs
  /\ backend = "PIC" => kept = {}

(* While listening is on the keyboard's line is open and has its handler,   *)
(* and the call in progress is about another line.                          *)
Armed ==
  listening =>
    /\ Keys \notin masked
    /\ Keys \in routines
    /\ step \in {"idle", "enable", "clear", "wait"}
    /\ ~(step = "clear" /\ line = Keys)

(* A line is enabled after its handler was installed. *)
Enabling == step = "enable" => line \in routines

(* The inductive invariant. *)
IrqInv == IrqTypeOK /\ ControllersSetUp /\ Armed /\ Enabling /\ KeyboardNeverJams

(* The end of interrupt that eoi sends acknowledges exactly the lines that  *)
(* the interrupt occupies, at both PICs if it came through both.            *)
LEMMA AcknowledgedAll ==
  ASSUME running \in IRQs, inService = Lines(running), backend \in {"PIC", "APIC"}
  PROVE  inService \ Acknowledged(running) = {}
PROOF
<1>1. running \in 0 .. 15 /\ running # Cascade
  BY IRQAssumption
<1>2. CASE backend = "APIC"
  BY <1>1, <1>2 DEF Lines, Acknowledged, Highest
<1>3. CASE backend = "PIC" /\ running < 8
  BY <1>1, <1>3 DEF Lines, Acknowledged, Highest
<1>4. CASE backend = "PIC" /\ running >= 8
  <2>1. inService = {running, Cascade}
    BY <1>4 DEF Lines
  <2>2. /\ Cascade \in 0 .. 7 /\ Cascade \notin 8 .. 15
        /\ running \notin 0 .. 7 /\ running \in 8 .. 15
    BY <1>1, <1>4 DEF Cascade
  <2>3. Highest({Cascade}) = {Cascade} /\ Highest({running}) = {running}
    BY <1>1 DEF Highest, Cascade
  <2>4. inService \cap 0 .. 7 = {Cascade} /\ inService \cap 8 .. 15 = {running}
    BY <2>1, <2>2, Zenon
  <2>5. Acknowledged(running) = {Cascade, running}
    BY <2>3, <2>4, <1>4 DEF Acknowledged
  <2> QED
    BY <2>1, <2>5
<1> QED
  BY <1>1, <1>2, <1>3, <1>4

(* The timer and the keyboard are lines; NONE is not. *)
LEMMA LinesInUse ==
  Timer \in IRQs /\ Keys \in IRQs /\ NONE \notin IRQs /\ Timer # Keys
PROOF
<1>1. Timer \in IRQs /\ Keys \in IRQs /\ \A n \in IRQs : n \in 0 .. 15
  BY IRQAssumption
<1>2. NONE \notin IRQs
  BY <1>1, NoneAssumption
<1> QED
  BY <1>1, <1>2 DEF Timer, Keys

(* At boot no line is open and the kernel listens to none. *)
LEMMA IrqInitHolds == IrqInit => IrqInv
PROOF
<1> SUFFICES ASSUME IrqInit
             PROVE  IrqInv
  OBVIOUS
<1>1. remaining \in 0 .. MaxWait
  BY WaitAssumption DEF IrqInit
<1>2. inService = IF running = NONE THEN {} ELSE Lines(running)
  BY DEF IrqInit
<1>3. IrqTypeOK
  BY <1>1, <1>2, LinesInUse DEF IrqInit, IrqTypeOK, PCs
<1>4. ControllersSetUp /\ Armed /\ Enabling /\ KeyboardNeverJams
  BY DEF IrqInit, ControllersSetUp, Armed, Enabling, KeyboardNeverJams
<1> QED
  BY <1>3, <1>4 DEF IrqInv

(* The handler counts a tick or reads the keyboard's port; either way the   *)
(* byte that called for this interrupt is gone when it returns.             *)
LEMMA IrqHandlerHolds ==
  ASSUME IrqInv, irq_handler
  PROVE  IrqInv'
PROOF
<1>1. remaining' \in 0 .. MaxWait
  <2>1. remaining \in 0 .. MaxWait /\ MaxWait \in Nat
    BY WaitAssumption DEF IrqInv, IrqTypeOK
  <2>2. remaining' = remaining \/ (remaining > 0 /\ remaining' = remaining - 1)
    BY DEF irq_handler
  <2> QED
    BY <2>1, <2>2
<1>2. called' \in BOOLEAN /\ full' \in BOOLEAN
  BY DEF irq_handler
<1>3. UNCHANGED <<chips, running, kernel>>
  BY DEF irq_handler
<1>4. IrqTypeOK'
  BY <1>1, <1>2, <1>3 DEF IrqInv, IrqTypeOK, Lines, chips, kernel
<1>5. ControllersSetUp' /\ Armed' /\ Enabling'
  BY <1>3 DEF IrqInv, ControllersSetUp, Armed, Enabling, chips, kernel
<1>6. KeyboardNeverJams'
  <2>1. full' => full /\ ~(running = Keys /\ Keys \in routines)
    BY DEF irq_handler
  <2> QED
    BY <1>3, <2>1 DEF IrqInv, KeyboardNeverJams, chips, kernel
<1> QED
  BY <1>4, <1>5, <1>6 DEF IrqInv

(* One step for each action.  The edges of devices only add requests, and   *)
(* none is lost at a line that is open; the steps of the kernel move between*)
(* program counters, and SetUp, Enabling and Armed say how far a call is.   *)
LEMMA IrqStepHolds == IrqInv /\ [IrqNext]_irqVars => IrqInv'
PROOF
<1> SUFFICES ASSUME IrqInv, [IrqNext]_irqVars
             PROVE  IrqInv'
  OBVIOUS
<1> USE LinesInUse
<1>1. ASSUME NEW n \in IRQs, Edge(n)
      PROVE  IrqInv'
  BY <1>1
  DEF Edge, raise, cpu, kernel, Lines, IrqInv, IrqTypeOK, ControllersSetUp, Armed,
      Enabling, KeyboardNeverJams, PCs
<1>2. CASE KeyByte
  BY <1>2
  DEF KeyByte, raise, cpu, kernel, Lines, IrqInv, IrqTypeOK, ControllersSetUp, Armed,
      Enabling, KeyboardNeverJams, PCs
<1>3. ASSUME NEW n \in IRQs, Take(n)
      PROVE  IrqInv'
  BY <1>3
  DEF Take, kernel, Lines, IrqInv, IrqTypeOK, ControllersSetUp, Armed, Enabling,
      KeyboardNeverJams, PCs
<1>4. CASE irq_handler
  BY <1>4, IrqHandlerHolds
<1>5. CASE eoi
  BY <1>5, AcknowledgedAll
  DEF eoi, kernel, IrqInv, IrqTypeOK, ControllersSetUp, Armed, Enabling,
      KeyboardNeverJams, PCs
<1>6. CASE initAPIC
  BY <1>6
  DEF initAPIC, Thread, Proceed, cpu, IrqInv, IrqTypeOK, ControllersSetUp, Armed,
      Enabling, KeyboardNeverJams, PCs
<1>7. CASE initPIC
  BY <1>7
  DEF initPIC, Thread, Proceed, cpu, IrqInv, IrqTypeOK, ControllersSetUp, Armed, Enabling,
      KeyboardNeverJams, PCs
<1>8. CASE redirectIRQ
  BY <1>8
  DEF redirectIRQ, Thread, Proceed, unmask, mask, cpu, IrqInv, IrqTypeOK, ControllersSetUp,
      Armed, Enabling, KeyboardNeverJams, PCs
<1>9. CASE maskIRQ
  BY <1>9
  DEF maskIRQ, Thread, Proceed, mask, Later, Highest, cpu, IrqInv, IrqTypeOK, ControllersSetUp,
      Armed, Enabling, KeyboardNeverJams, PCs
<1>10. CASE Sti
  BY <1>10
  DEF Sti, Thread, Proceed, cpu, chips, IrqInv, IrqTypeOK, ControllersSetUp, Armed,
      Enabling, KeyboardNeverJams, PCs
<1>11. ASSUME NEW n \in {Timer, Keys}, installHandler(n)
      PROVE  IrqInv'
  BY <1>11
  DEF installHandler, Thread, Proceed, cpu, chips, IrqInv, IrqTypeOK, ControllersSetUp,
      Armed, Enabling, KeyboardNeverJams, PCs
<1>12. CASE enableIRQ
  BY <1>12
  DEF enableIRQ, Thread, Proceed, unmask, cpu, IrqInv, IrqTypeOK, ControllersSetUp, Armed,
      Enabling, KeyboardNeverJams, PCs
<1>13. ASSUME NEW n \in {Timer, Keys}, uninstallHandler(n)
      PROVE  IrqInv'
  BY <1>13
  DEF uninstallHandler, Thread, Proceed, mask, cpu, IrqInv, IrqTypeOK, ControllersSetUp,
      Armed, Enabling, KeyboardNeverJams, PCs
<1>14. CASE ClearRoutine
  BY <1>14
  DEF ClearRoutine, Thread, Proceed, cpu, chips, IrqInv, IrqTypeOK, ControllersSetUp,
      Armed, Enabling, KeyboardNeverJams, PCs
<1>15. ASSUME NEW ms \in 1 .. MaxWait, wait(ms)
      PROVE  IrqInv'
  BY <1>15, WaitAssumption
  DEF wait, Thread, Proceed, cpu, chips, IrqInv, IrqTypeOK, ControllersSetUp, Armed,
      Enabling, KeyboardNeverJams, PCs
<1>16. CASE WaitOver
  BY <1>16
  DEF WaitOver, Thread, Proceed, cpu, chips, IrqInv, IrqTypeOK, ControllersSetUp, Armed,
      Enabling, KeyboardNeverJams, PCs
<1>17. CASE UNCHANGED irqVars
  BY <1>17
  DEF irqVars, chips, cpu, kernel, Lines, IrqInv, IrqTypeOK, ControllersSetUp, Armed,
      Enabling, KeyboardNeverJams, PCs
<1> QED
  BY <1>1, <1>2, <1>3, <1>4, <1>5, <1>6, <1>7, <1>8, <1>9,
     <1>10, <1>11, <1>12, <1>13, <1>14, <1>15, <1>16, <1>17
  DEF IrqNext, Boot, InCall

(* The inductive invariant holds in every reachable state. *)
THEOREM IrqInvariant == IrqSpec => []IrqInv
PROOF
<1>1. IrqInit => IrqInv
  BY IrqInitHolds
<1>2. IrqInv /\ [IrqNext]_irqVars => IrqInv'
  BY IrqStepHolds
<1> QED
  BY <1>1, <1>2, PTL DEF IrqSpec

(* Whatever edges come and whichever backend is in use, an interrupt is in  *)
(* service exactly while its handler runs: irq_handler acknowledges each one*)
(* at every chip, also without a handler and through the second PIC.        *)
THEOREM IrqTypeCorrect == IrqSpec => []IrqTypeOK
PROOF
<1>1. IrqInv => IrqTypeOK
  BY DEF IrqInv
<1> QED
  BY <1>1, IrqInvariant, PTL

(* Between installHandler and uninstallHandler no byte of the keyboard is   *)
(* left without the interrupt that reads it.                                *)
THEOREM KeyboardIsHeard == IrqSpec => []KeyboardNeverJams
PROOF
<1>1. IrqInv => KeyboardNeverJams
  BY DEF IrqInv
<1> QED
  BY <1>1, IrqInvariant, PTL

-----------------------------------------------------------------------------
(* The console: copying rows of pixels *)

(* Induction over the numbers, for a set of them.                           *)
LEMMA SetInduction ==
  ASSUME NEW S, 0 \in S, \A n \in Nat : n \in S => n + 1 \in S
  PROVE  Nat \subseteq S
<1> DEFINE T == {n \in Nat : n \notin S}
<1> SUFFICES ASSUME T # {} PROVE FALSE
  OBVIOUS
<1>1. IsWellFoundedOn(OpToRel(<, Nat), Nat)
  BY NatLessThanWellFounded, Zenon
<1>2. PICK m \in T : \A k \in T : ~(<<k, m>> \in OpToRel(<, Nat))
  BY <1>1, WFMin, Zenon
<1>3. \A k \in Nat : k < m => k \in S
  BY <1>2 DEF OpToRel
<1> QED
  BY <1>3

(* What a pixel can be.                                                     *)
Paints == Glyphs \cup {Background, CursorColor, SpaceChar}

(* The pictures.                                                            *)
Pictures == [Ys -> [Xs -> Paints]]

(* Where scroll copies from.                                                *)
Below == [x |-> 0, y |-> FontHeight]

(* Where it copies to.                                                      *)
Origin == [x |-> 0, y |-> 0]

(* The picture when n pixels of a row have been replaced by those below.    *)
RowDone(p, row, n) ==
  [p EXCEPT ![row] = [x \in Xs |-> IF x < n THEN p[row + FontHeight][x] ELSE p[row][x]]]

(* What is done of a row when another pixel is copied.                      *)
LEMMA PixelCopied ==
  ASSUME NEW p \in Pictures, NEW row \in Ys, row + FontHeight \in Ys,
         NEW n \in 1 .. Width
  PROVE  copyPixel(RowDone(p, row, n - 1), Below, Origin, row, n - 1) = RowDone(p, row, n)
<1> DEFINE q == RowDone(p, row, n - 1)
           old == [x \in Xs |-> IF x < n - 1 THEN p[row + FontHeight][x] ELSE p[row][x]]
           new == [x \in Xs |-> IF x < n THEN p[row + FontHeight][x] ELSE p[row][x]]
<1>1. /\ Width \in Nat /\ FontHeight \in Nat /\ FontHeight # 0 /\ row \in Int
      /\ n - 1 \in Xs /\ row # row + FontHeight
  BY FramebufferAssumption DEF Xs, Ys
<1>2. q = [p EXCEPT ![row] = old]
  BY DEF RowDone
<1>3. DOMAIN p = Ys /\ p[row + FontHeight] \in [Xs -> Paints]
  BY DEF Pictures
<1>4. q[row] = old /\ q[row + FontHeight] = p[row + FontHeight]
  <2> HIDE DEF old, q
  <2> QED
    BY <1>1, <1>2, <1>3
<1>5. [old EXCEPT ![n - 1] = p[row + FontHeight][n - 1]] = new
  <2>1. \A x \in Xs : (x < n <=> x < n - 1 \/ x = n - 1) /\ (x = n - 1 => ~(x < n - 1))
    BY <1>1 DEF Xs
  <2> QED
    BY <1>1, <2>1
<1>6. copyPixel(q, Below, Origin, row, n - 1)
        = [q EXCEPT ![row] = [q[row] EXCEPT ![n - 1] = q[row + FontHeight][n - 1]]]
  <2>1. /\ Below.x = 0 /\ Below.y = FontHeight /\ Origin.x = 0 /\ Origin.y = 0
    BY DEF Below, Origin
  <2>2. 0 + row = row /\ 0 + (n - 1) = n - 1 /\ FontHeight + row = row + FontHeight
    BY <1>1
  <2> HIDE DEF q
  <2>3. copyPixel(q, Below, Origin, row, n - 1)
          = [q EXCEPT ![row][n - 1] = q[row + FontHeight][n - 1]]
    BY <2>1, <2>2, Zenon DEF copyPixel
  <2> QED
    BY <2>3
<1>7. [q EXCEPT ![row] = new] = [p EXCEPT ![row] = new]
  <2> HIDE DEF old, new, q
  <2> QED
    BY <1>2, <1>3
<1> HIDE DEF q, old, new
<1>8. copyPixel(q, Below, Origin, row, n - 1) = [p EXCEPT ![row] = new]
  BY <1>4, <1>5, <1>6, <1>7, Zenon
<1> QED
  BY <1>8 DEF q, new, RowDone

(* A loop over a row ends with the row replaced by the one below.           *)
LEMMA RowCopied ==
  ASSUME NEW p \in Pictures, NEW row \in Ys, row + FontHeight \in Ys
  PROVE  copyRow(p, Below, Origin, Width, row) = [p EXCEPT ![row] = p[row + FontHeight]]
<1> DEFINE Step(f, n) == IF n = 0 THEN p
                         ELSE copyPixel(f[n - 1], Below, Origin, row, Order(0, 0, Width)[n])
           e == [n \in 0 .. Width |-> RowDone(p, row, n)]
           d == CHOOSE f : f = [n \in 0 .. Width |-> Step(f, n)]
<1>1. Width \in Nat /\ DOMAIN p = Ys /\ p[row] \in [Xs -> Paints]
      /\ p[row + FontHeight] \in [Xs -> Paints]
  BY FramebufferAssumption DEF Pictures
<1>2. \A n \in 1 .. Width : Order(0, 0, Width)[n] = n - 1
  BY <1>1 DEF Order
<1>3. RowDone(p, row, 0) = p
  <2>1. [x \in Xs |-> IF x < 0 THEN p[row + FontHeight][x] ELSE p[row][x]] = p[row]
    <3>1. \A x \in Xs : ~(x < 0)
      BY DEF Xs
    <3> QED
      BY <1>1, <3>1
  <2>2. [p EXCEPT ![row] = p[row]] = p
    BY <1>1 DEF Pictures
  <2> QED
    BY <2>1, <2>2, Zenon DEF RowDone
<1>4. \A n \in 1 .. Width :
        copyPixel(RowDone(p, row, n - 1), Below, Origin, row, n - 1) = RowDone(p, row, n)
  BY PixelCopied
<1>5. \A n \in 0 .. Width : e[n] = Step(e, n)
  <2> TAKE n \in 0 .. Width
  <2>1. CASE n = 0
    BY <1>3, <2>1
  <2>2. CASE n # 0
    <3>1. n \in 1 .. Width /\ n - 1 \in 0 .. Width
      BY <1>1, <2>2
    <3>2. e[n] = RowDone(p, row, n) /\ e[n - 1] = RowDone(p, row, n - 1)
      BY <3>1
    <3> HIDE DEF e
    <3> QED
      BY <1>2, <1>4, <2>2, <3>1, <3>2
  <2> QED
    BY <2>1, <2>2
<1>6. e = [n \in 0 .. Width |-> Step(e, n)]
  <2> DEFINE g == [n \in 0 .. Width |-> Step(e, n)]
  <2>1. e = g
    <3> HIDE DEF Step
    <3> QED
      BY <1>5
  <2> QED
    BY <2>1
<1>7. d = [n \in 0 .. Width |-> Step(d, n)]
  <2> HIDE DEF e, Step
  <2> QED
    BY <1>6, Zenon
<1>8. copyRow(p, Below, Origin, Width, row) = d[Width]
  <2>1. Below.x = 0 /\ Origin.x = 0
    BY DEF Below, Origin
  <2> QED
    BY <2>1, Zenon DEF copyRow
<1> HIDE DEF d
<1> DEFINE S == {n \in Nat : n <= Width => d[n] = RowDone(p, row, n)}
<1>9. \A n \in 0 .. Width : d[n] = Step(d, n)
  <2> HIDE DEF Step
  <2> QED
    BY <1>7
<1>10. 0 \in S
  BY <1>1, <1>3, <1>9
<1>11. ASSUME NEW n \in Nat, n \in S PROVE n + 1 \in S
  <2> SUFFICES ASSUME n + 1 <= Width PROVE d[n + 1] = RowDone(p, row, n + 1)
    OBVIOUS
  <2>1. n + 1 \in 1 .. Width /\ n + 1 \in 0 .. Width /\ (n + 1) - 1 = n /\ n + 1 # 0
        /\ d[n] = RowDone(p, row, n)
    BY <1>1, <1>11
  <2>2. d[n + 1] = copyPixel(d[n], Below, Origin, row, n)
    BY <1>2, <1>9, <2>1
  <2>3. copyPixel(RowDone(p, row, n), Below, Origin, row, n) = RowDone(p, row, n + 1)
    BY <1>4, <2>1
  <2> QED
    BY <2>1, <2>2, <2>3, Zenon
<1> HIDE DEF S
<1>12. Nat \subseteq S
  BY <1>10, <1>11, SetInduction
<1>13. d[Width] = RowDone(p, row, Width)
  BY <1>1, <1>12 DEF S
<1>14. [x \in Xs |-> IF x < Width THEN p[row + FontHeight][x] ELSE p[row][x]]
         = p[row + FontHeight]
  <2>1. \A x \in Xs : x < Width
    BY <1>1 DEF Xs
  <2> QED
    BY <1>1, <2>1
<1> QED
  BY <1>8, <1>13, <1>14, Zenon DEF RowDone

(* The picture when n rows have been replaced by those a cell below.        *)
RowsDone(p, n) == [y \in Ys |-> IF y < n THEN p[y + FontHeight] ELSE p[y]]

(* What is done of a picture when another row is copied: the row it is      *)
(* copied from has not been written yet.                                    *)
LEMMA RowsGrow ==
  ASSUME NEW p \in Pictures, FontHeight < Height, NEW n \in 1 .. Height - FontHeight
  PROVE  /\ RowsDone(p, n - 1) \in Pictures
         /\ copyRow(RowsDone(p, n - 1), Below, Origin, Width, n - 1) = RowsDone(p, n)
<1> DEFINE q == RowsDone(p, n - 1)
<1>1. /\ Height \in Nat /\ FontHeight \in Nat /\ FontHeight # 0
      /\ n - 1 \in Ys /\ (n - 1) + FontHeight \in Ys
  BY FramebufferAssumption DEF Ys
<1>2. \A y \in Ys : p[y] \in [Xs -> Paints] /\ (y < n - 1 => y + FontHeight \in Ys)
  BY <1>1 DEF Pictures, Ys
<1>3. q \in Pictures
  BY <1>2 DEF RowsDone, Pictures
<1>4. copyRow(q, Below, Origin, Width, n - 1) = [q EXCEPT ![n - 1] = q[(n - 1) + FontHeight]]
  <2> HIDE DEF q
  <2> QED
    BY <1>1, <1>3, RowCopied
<1>5. q[(n - 1) + FontHeight] = p[(n - 1) + FontHeight]
  BY <1>1 DEF RowsDone, Ys
<1>6. [q EXCEPT ![n - 1] = p[(n - 1) + FontHeight]] = RowsDone(p, n)
  <2>1. \A y \in Ys : (y < n <=> y < n - 1 \/ y = n - 1) /\ (y = n - 1 => ~(y < n - 1))
    BY <1>1 DEF Ys
  <2>2. \A y \in Ys : [q EXCEPT ![n - 1] = p[(n - 1) + FontHeight]][y] = RowsDone(p, n)[y]
    BY <1>1, <2>1 DEF RowsDone
  <2> QED
    BY <2>2 DEF RowsDone
<1> QED
  BY <1>3, <1>4, <1>5, <1>6, Zenon

(* Scrolling: each row of pixels becomes the one a cell below, if there is  *)
(* one.                                                                     *)
LEMMA RectCopied ==
  ASSUME NEW p \in Pictures, FontHeight <= Height
  PROVE  LET up == copyRect(p, Below, Origin, [x |-> Width, y |-> Height - FontHeight])
         IN  /\ up \in Pictures
             /\ \A y \in Ys : up[y] = IF y < Height - FontHeight THEN p[y + FontHeight] ELSE p[y]
<1> DEFINE h == Height - FontHeight
           Step(f, n) == IF n = 0 THEN p
                         ELSE copyRow(f[n - 1], Below, Origin, Width, Order(FontHeight, 0, h)[n])
           e == [n \in 0 .. h |-> RowsDone(p, n)]
           d == CHOOSE f : f = [n \in 0 .. h |-> Step(f, n)]
           up == copyRect(p, Below, Origin, [x |-> Width, y |-> h])
<1>1. /\ Height \in Nat /\ FontHeight \in Nat /\ FontHeight # 0 /\ Width \in Nat /\ Width # 0
      /\ h \in Nat
  BY FramebufferAssumption
<1>2. Below.x = 0 /\ Below.y = FontHeight /\ Origin.x = 0 /\ Origin.y = 0
  BY DEF Below, Origin
<1>3. Clipped(Width, Below.x, Origin.x, Width) = Width
  BY <1>1, <1>2 DEF Clipped, Least
<1>4. CASE FontHeight = Height
  <2>1. Clipped(h, Below.y, Origin.y, Height) = 0
    BY <1>1, <1>2, <1>4 DEF Clipped
  <2>2. up = p
    BY <2>1 DEF copyRect
  <2>3. \A y \in Ys : ~(y < h)
    BY <1>1, <1>4 DEF Ys
  <2> QED
    BY <2>2, <2>3
<1>5. CASE FontHeight # Height
  <2>1. FontHeight < Height /\ h # 0 /\ Clipped(h, Below.y, Origin.y, Height) = h
    BY <1>1, <1>2, <1>5 DEF Clipped, Least
  <2>2. up = copyRows(p, Below, Origin, Width, h)
    <3>1. PICK size : size = [x |-> Width, y |-> h]
      OBVIOUS
    <3>2. size.x = Width /\ size.y = h /\ Width # 0
      BY <1>1, <3>1, FramebufferAssumption
    <3>3. copyRect(p, Below, Origin, size) = copyRows(p, Below, Origin, Width, h)
      BY <1>3, <2>1, <3>2, Zenon DEF copyRect
    <3> QED
      BY <3>1, <3>3, Zenon
  <2>3. copyRows(p, Below, Origin, Width, h) = d[h]
    BY <1>2, Zenon DEF copyRows
  <2>4. \A n \in 1 .. h : Order(FontHeight, 0, h)[n] = n - 1
    BY <1>1 DEF Order
  <2>5. RowsDone(p, 0) = p
    <3>1. \A y \in Ys : ~(y < 0)
      BY <1>1 DEF Ys
    <3> QED
      BY <3>1 DEF RowsDone, Pictures
  <2>6. \A n \in 1 .. h : copyRow(RowsDone(p, n - 1), Below, Origin, Width, n - 1) = RowsDone(p, n)
    BY <2>1, RowsGrow
  <2>7. \A n \in 0 .. h : e[n] = Step(e, n)
    <3> TAKE n \in 0 .. h
    <3>1. CASE n = 0
      BY <1>1, <2>5, <3>1
    <3>2. CASE n # 0
      <4>1. n \in 1 .. h /\ n - 1 \in 0 .. h
        BY <1>1, <3>2
      <4>2. e[n] = RowsDone(p, n) /\ e[n - 1] = RowsDone(p, n - 1)
        BY <4>1
      <4> HIDE DEF e
      <4> QED
        BY <2>4, <2>6, <3>2, <4>1, <4>2
    <3> QED
      BY <3>1, <3>2
  <2>8. e = [n \in 0 .. h |-> Step(e, n)]
    <3> DEFINE g == [n \in 0 .. h |-> Step(e, n)]
    <3>1. e = g
      <4> HIDE DEF Step, h
      <4> QED
        BY <2>7
    <3> QED
      BY <3>1
  <2>9. d = [n \in 0 .. h |-> Step(d, n)]
    <3> HIDE DEF e, Step, h
    <3> QED
      BY <2>8, Zenon
  <2> HIDE DEF d
  <2> DEFINE S == {n \in Nat : n <= h => d[n] = RowsDone(p, n)}
  <2>10. \A n \in 0 .. h : d[n] = Step(d, n)
    <3> HIDE DEF Step, h
    <3> QED
      BY <2>9
  <2>11. 0 \in S
    BY <1>1, <2>5, <2>10
  <2>12. ASSUME NEW n \in Nat, n \in S PROVE n + 1 \in S
    <3> SUFFICES ASSUME n + 1 <= h PROVE d[n + 1] = RowsDone(p, n + 1)
      OBVIOUS
    <3>1. n + 1 \in 1 .. h /\ n + 1 \in 0 .. h /\ (n + 1) - 1 = n /\ n + 1 # 0
          /\ d[n] = RowsDone(p, n)
      BY <1>1, <2>12
    <3> HIDE DEF h
    <3>2. d[n + 1] = copyRow(d[n], Below, Origin, Width, n)
      BY <2>4, <2>10, <3>1
    <3>3. copyRow(RowsDone(p, n), Below, Origin, Width, n) = RowsDone(p, n + 1)
      BY <2>6, <3>1
    <3> QED
      BY <3>1, <3>2, <3>3, Zenon
  <2> HIDE DEF S
  <2>13. Nat \subseteq S
    BY <2>11, <2>12, SetInduction
  <2>14. d[h] = RowsDone(p, h)
    BY <1>1, <2>13 DEF S
  <2>15. up = RowsDone(p, h)
    BY <2>2, <2>3, <2>14, Zenon
  <2>16. RowsDone(p, h) \in Pictures
    <3>1. \A y \in Ys : p[y] \in [Xs -> Paints] /\ (y < h => y + FontHeight \in Ys)
      BY <1>1 DEF Pictures, Ys
    <3> QED
      BY <3>1 DEF RowsDone, Pictures
  <2> QED
    BY <2>15, <2>16 DEF RowsDone
<1> QED
  BY <1>4, <1>5

-----------------------------------------------------------------------------
(* The console: what is on the screen *)

(* The rows of characters lie on the screen, one below the other.           *)
LEMMA CellRows ==
  /\ rows \in Nat \ {0} /\ FontHeight \in Nat \ {0} /\ FontHeight <= Height
  /\ Width \in Nat \ {0} /\ FontWidth \in Nat \ {0} /\ FontWidth < Width
  /\ \A y \in 0 .. rows - 1 :
       /\ y * FontHeight \in Nat /\ (y + 1) * FontHeight = y * FontHeight + FontHeight
       /\ y * FontHeight + FontHeight <= Height
  /\ \A y, z \in 0 .. rows - 1 : y < z => y * FontHeight + FontHeight <= z * FontHeight
<1>1. /\ FontHeight \in Nat /\ FontHeight > 0 /\ Height \in Nat /\ Height > 0
      /\ Width \in Nat \ {0} /\ FontWidth \in Nat \ {0} /\ FontWidth < Width
      /\ rows = Height \div FontHeight /\ rows > 0
  BY FramebufferAssumption, ConsoleAssumption DEF rows
<1>2. \A a, b \in Nat : b > 0 => a \div b \in Nat /\ (a \div b) * b <= a
  BY Z3
<1>3. rows \in Nat /\ rows * FontHeight <= Height
  BY <1>1, <1>2
<1>4. \A a, b, f \in Nat : a <= b => a * f <= b * f
  BY Z3
<1>5. \A a, f \in Nat : a * f \in Nat /\ (a + 1) * f = a * f + f
  BY Z3
<1>6. FontHeight <= Height
  <2>1. 1 * FontHeight <= rows * FontHeight
    BY <1>1, <1>3, <1>4
  <2> QED
    BY <1>1, <1>3, <2>1
<1>7. ASSUME NEW y \in 0 .. rows - 1
      PROVE  /\ y * FontHeight \in Nat /\ (y + 1) * FontHeight = y * FontHeight + FontHeight
             /\ y * FontHeight + FontHeight <= Height
  <2>1. y \in Nat /\ y + 1 \in Nat /\ y + 1 <= rows
    BY <1>3
  <2>2. (y + 1) * FontHeight <= rows * FontHeight /\ rows * FontHeight \in Nat
    BY <1>1, <1>3, <1>4, <1>5, <2>1
  <2>3. y * FontHeight \in Nat /\ (y + 1) * FontHeight = y * FontHeight + FontHeight
    BY <1>1, <1>5, <2>1
  <2> QED
    BY <1>1, <1>3, <2>2, <2>3
<1>8. ASSUME NEW y \in 0 .. rows - 1, NEW z \in 0 .. rows - 1, y < z
      PROVE  y * FontHeight + FontHeight <= z * FontHeight
  <2>1. y + 1 \in Nat /\ z \in Nat /\ y + 1 <= z
    BY <1>3, <1>8
  <2>2. (y + 1) * FontHeight <= z * FontHeight
    BY <1>1, <1>4, <2>1
  <2> QED
    BY <1>7, <2>2
<1> QED
  BY <1>1, <1>3, <1>6, <1>7, <1>8

(* A character stands on a row with its ink, and the next one behind it.    *)
Shows == [char : Chars, x : 0 .. Width - FontWidth]

(* What a character advances is more than its ink takes.                    *)
LEMMA AdvancePastInk ==
  ASSUME NEW c
  PROVE  /\ glyphAdvance(c) \in 1 .. FontWidth + 1
         /\ c \in Chars => ink(c) \in 0 .. FontWidth /\ ink(c) < glyphAdvance(c)
<1>1. /\ FontWidth \in Nat \ {0} /\ Ink \in [Glyphs -> 1 .. FontWidth] /\ Unknown \in Glyphs
      /\ SpaceWidth \in 1 .. FontWidth - 1 /\ SpaceChar \notin Glyphs
  BY FramebufferAssumption, ConsoleAssumption
<1>2. \A g \in Glyphs : /\ Ink[g] \in 1 .. FontWidth
                        /\ Least(Ink[g] + 2, FontWidth + 1) \in 1 .. FontWidth + 1
                        /\ Ink[g] < Least(Ink[g] + 2, FontWidth + 1)
  BY <1>1 DEF Least
<1>3. CASE c = SpaceChar
  <2>1. glyphAdvance(c) = SpaceWidth /\ ink(c) = 0
    BY <1>3 DEF glyphAdvance, ink
  <2> QED
    BY <1>1, <2>1
<1>4. CASE c \in Glyphs
  <2>1. glyphAdvance(c) = Least(Ink[c] + 2, FontWidth + 1) /\ ink(c) = Ink[c]
    BY <1>1, <1>4 DEF glyphAdvance, ink
  <2> QED
    BY <1>1, <1>2, <1>4, <2>1
<1>5. CASE c \notin Chars
  <2>1. glyphAdvance(c) = Least(Ink[Unknown] + 2, FontWidth + 1)
    BY <1>5 DEF glyphAdvance, Chars
  <2> QED
    BY <1>1, <1>2, <1>5, <2>1
<1> QED
  BY <1>3, <1>4, <1>5 DEF Chars

(* On each row every character stands behind the ones before it.            *)
Ordered(shown) ==
  \A y \in 0 .. rows - 1 : \A i, j \in DOMAIN shown[y] :
    i < j => NextX(shown[y][i]) <= shown[y][j].x

(* The cursor stands behind the characters of its row, and the rows below   *)
(* are not used yet.                                                        *)
Behind(shown, x, y) ==
  /\ \A i \in DOMAIN shown[y] : NextX(shown[y][i]) <= x
  /\ \A z \in 0 .. rows - 1 : z > y => shown[z] = <<>>

(* The ink of every character shown is on the picture.                      *)
Inked(pixels, shown) ==
  \A y \in 0 .. rows - 1 : \A i \in DOMAIN shown[y] :
    \A x \in shown[y][i].x .. shown[y][i].x + ink(shown[y][i].char) - 1,
       h \in 0 .. FontHeight - 1 :
      pixels[y * FontHeight + h][x] = shown[y][i].char

(* The cursor is on the picture only where it is, and only if it is drawn.  *)
CursorOnly(pixels, x, y, drawn) ==
  \A b \in Ys, a \in Xs :
    pixels[b][a] = CursorColor =>
      drawn /\ a = x /\ b - y * FontHeight \in 0 .. FontHeight - 1

(* A console between and within the operations on it.                       *)
Good(pixels, x, y, drawn, shown) ==
  /\ pixels \in Pictures /\ x \in Nat /\ y \in 0 .. rows - 1
  /\ drawn \in BOOLEAN /\ shown \in [0 .. rows - 1 -> Seq(Shows)]
  /\ Ordered(shown) /\ Behind(shown, x, y)
  /\ Inked(pixels, shown) /\ CursorOnly(pixels, x, y, drawn)

(* What a rectangle changes.                                                *)
LEMMA Painted ==
  ASSUME NEW p \in Pictures, NEW x0, NEW y0, NEW x1, NEW y1, NEW c \in Paints
  PROVE  /\ paintRectangle(p, x0, y0, x1, y1, c) \in Pictures
         /\ \A y \in Ys, x \in Xs :
              /\ x0 <= x /\ x < x1 /\ y0 <= y /\ y < y1 =>
                   paintRectangle(p, x0, y0, x1, y1, c)[y][x] = c
              /\ ~(x0 <= x /\ x < x1 /\ y0 <= y /\ y < y1) =>
                   paintRectangle(p, x0, y0, x1, y1, c)[y][x] = p[y][x]
<1>1. \A y \in Ys, x \in Xs : p[y][x] \in Paints
  BY DEF Pictures
<1> QED
  BY <1>1 DEF paintRectangle, Pictures

(* Where the ink of a character shown is: on the screen, in its own row,    *)
(* and before the place of the next one.                                    *)
LEMMA InkPlaces ==
  ASSUME NEW shown \in [0 .. rows - 1 -> Seq(Shows)], NEW y \in 0 .. rows - 1,
         NEW i \in DOMAIN shown[y],
         NEW x \in shown[y][i].x .. shown[y][i].x + ink(shown[y][i].char) - 1,
         NEW h \in 0 .. FontHeight - 1
  PROVE  /\ x \in Xs /\ y * FontHeight + h \in Ys
         /\ x < NextX(shown[y][i]) - 1 /\ NextX(shown[y][i]) \in Nat
         /\ shown[y][i].char \in Glyphs /\ shown[y][i] \in Shows
<1> DEFINE g == shown[y][i]
<1>1. g \in Shows
  <2>1. shown[y] \in Seq(Shows)
    OBVIOUS
  <2> QED
    BY <2>1
<1>2. g.char \in Chars /\ g.x \in 0 .. Width - FontWidth
  BY <1>1 DEF Shows
<1> HIDE DEF g
<1>3. /\ ink(g.char) \in 0 .. FontWidth /\ ink(g.char) < glyphAdvance(g.char)
      /\ glyphAdvance(g.char) \in 1 .. FontWidth + 1
  BY <1>2, AdvancePastInk
<1>4. x \in g.x .. g.x + ink(g.char) - 1
  BY DEF g
<1>5. /\ Width \in Nat /\ FontWidth \in Nat /\ FontHeight \in Nat /\ Height \in Nat
      /\ y * FontHeight \in Nat /\ y * FontHeight + FontHeight <= Height
  BY CellRows, FramebufferAssumption
<1>6. x \in Xs /\ y * FontHeight + h \in Ys
  <2>1. x \in Xs
    <3>1. Width \in Nat /\ FontWidth \in Nat
      BY <1>5
    <3>2. PICK n, w : n = ink(g.char) /\ w = g.x
      OBVIOUS
    <3>3. n \in 0 .. FontWidth /\ w \in 0 .. Width - FontWidth /\ x \in w .. w + n - 1
      BY <1>2, <1>3, <1>4, <3>2
    <3> QED
      BY <3>1, <3>3 DEF Xs
  <2>2. PICK t : t = y * FontHeight
    OBVIOUS
  <2>3. t + h \in Ys
    <3>1. t \in Nat /\ t + FontHeight <= Height
      BY <1>5, <2>2
    <3> QED
      BY <1>5, <3>1 DEF Ys
  <2> QED
    BY <2>1, <2>2, <2>3
<1>7. x < NextX(g) - 1 /\ NextX(g) \in Nat
  BY <1>2, <1>3, <1>4, <1>5 DEF NextX
<1>8. g.char \in Glyphs
  <2>1. ink(g.char) # 0
    BY <1>2, <1>3, <1>4, <1>5
  <2> QED
    BY <1>2, <2>1 DEF ink, Chars
<1> QED
  BY <1>1, <1>6, <1>7, <1>8 DEF g

(* Two characters on different rows have no line of pixels in common.       *)
LEMMA RowsApart ==
  ASSUME NEW y \in 0 .. rows - 1, NEW z \in 0 .. rows - 1,
         NEW h \in 0 .. FontHeight - 1,
         z * FontHeight <= y * FontHeight + h,
         y * FontHeight + h < z * FontHeight + FontHeight
  PROVE  y = z
<1>1. PICK t, u : t = y * FontHeight /\ u = z * FontHeight
  OBVIOUS
<1>2. /\ t \in Nat /\ u \in Nat /\ FontHeight \in Nat /\ rows \in Nat
      /\ y < z => t + FontHeight <= u
      /\ z < y => u + FontHeight <= t
  BY <1>1, CellRows
<1>3. u <= t + h /\ t + h < u + FontHeight
  BY <1>1
<1> QED
  BY <1>2, <1>3

(* Painting on a row, behind the characters there, hides no ink.            *)
LEMMA PaintKeepsInk ==
  ASSUME NEW p \in Pictures, NEW shown \in [0 .. rows - 1 -> Seq(Shows)],
         NEW y \in 0 .. rows - 1, NEW x0 \in Nat, NEW x1, NEW c \in Paints,
         Inked(p, shown), \A i \in DOMAIN shown[y] : NextX(shown[y][i]) <= x0
  PROVE  Inked(paintRectangle(p, x0, y * FontHeight, x1, y * FontHeight + FontHeight, c), shown)
<1> DEFINE q == paintRectangle(p, x0, y * FontHeight, x1, y * FontHeight + FontHeight, c)
<1> SUFFICES ASSUME NEW z \in 0 .. rows - 1, NEW i \in DOMAIN shown[z],
                    NEW x \in shown[z][i].x .. shown[z][i].x + ink(shown[z][i].char) - 1,
                    NEW h \in 0 .. FontHeight - 1
             PROVE  q[z * FontHeight + h][x] = shown[z][i].char
  BY DEF Inked
<1>1. /\ x \in Xs /\ z * FontHeight + h \in Ys
      /\ x < NextX(shown[z][i]) - 1 /\ NextX(shown[z][i]) \in Nat
  BY InkPlaces
<1>2. p[z * FontHeight + h][x] = shown[z][i].char
  BY DEF Inked
<1>3. ~(/\ x0 <= x /\ x < x1 /\ y * FontHeight <= z * FontHeight + h
        /\ z * FontHeight + h < y * FontHeight + FontHeight)
  <2> SUFFICES ASSUME x0 <= x, y * FontHeight <= z * FontHeight + h,
                      z * FontHeight + h < y * FontHeight + FontHeight
               PROVE  FALSE
    OBVIOUS
  <2>1. z = y
    BY RowsApart
  <2>2. NextX(shown[z][i]) <= x0
    BY <2>1
  <2>3. x \in Int
    BY <1>1 DEF Xs
  <2> QED
    BY <1>1, <2>2, <2>3
<1>4. \A b \in Ys, a \in Xs :
        ~(x0 <= a /\ a < x1 /\ y * FontHeight <= b /\ b < y * FontHeight + FontHeight)
          => q[b][a] = p[b][a]
  BY Painted
<1> HIDE DEF q
<1>5. q[z * FontHeight + h][x] = p[z * FontHeight + h][x]
  BY <1>1, <1>3, <1>4, Zenon
<1> QED
  BY <1>2, <1>5

(* The colours of the background, the cursor and the ink are apart.         *)
LEMMA Colours ==
  /\ Background \in Paints /\ CursorColor \in Paints /\ \A c \in Chars : c \in Paints
  /\ CursorColor # Background /\ CursorColor \notin Chars
BY ConsoleAssumption DEF Paints, Chars

(* Erasing the cursor leaves none, and no ink is touched.                   *)
LEMMA EraseGood ==
  ASSUME NEW p, NEW x, NEW y, NEW shown, Good(p, x, y, TRUE, shown)
  PROVE  Good(paintRectangle(p, x, y * FontHeight, x + 1, y * FontHeight + FontHeight, Background),
              x, y, FALSE, shown)
<1> DEFINE q == paintRectangle(p, x, y * FontHeight, x + 1, y * FontHeight + FontHeight, Background)
<1>1. /\ p \in Pictures /\ x \in Nat /\ y \in 0 .. rows - 1
      /\ shown \in [0 .. rows - 1 -> Seq(Shows)]
      /\ Ordered(shown) /\ Behind(shown, x, y)
      /\ Inked(p, shown) /\ CursorOnly(p, x, y, TRUE)
  BY DEF Good
<1>2. Inked(q, shown)
  <2>1. \A i \in DOMAIN shown[y] : NextX(shown[y][i]) <= x
    BY <1>1 DEF Behind
  <2> QED
    BY <1>1, <2>1, Colours, PaintKeepsInk
<1>3. /\ q \in Pictures
      /\ \A b \in Ys, a \in Xs :
           /\ x <= a /\ a < x + 1 /\ y * FontHeight <= b /\ b < y * FontHeight + FontHeight =>
                q[b][a] = Background
           /\ ~(x <= a /\ a < x + 1 /\ y * FontHeight <= b /\ b < y * FontHeight + FontHeight) =>
                q[b][a] = p[b][a]
  BY <1>1, Colours, Painted
<1> HIDE DEF q
<1>4. ASSUME NEW b \in Ys, NEW a \in Xs PROVE q[b][a] # CursorColor
  <2> SUFFICES ASSUME q[b][a] = CursorColor PROVE FALSE
    OBVIOUS
  <2>1. q[b][a] = p[b][a]
        /\ ~(x <= a /\ a < x + 1 /\ y * FontHeight <= b /\ b < y * FontHeight + FontHeight)
    BY <1>3, Colours
  <2>2. a = x /\ b - y * FontHeight \in 0 .. FontHeight - 1
    BY <1>1, <2>1 DEF CursorOnly
  <2>3. PICK t : t = y * FontHeight
    OBVIOUS
  <2>4. t \in Nat /\ FontHeight \in Nat /\ b \in Int /\ b - t \in 0 .. FontHeight - 1
    BY <1>1, <2>2, <2>3, CellRows DEF Ys
  <2>5. t <= b /\ b < t + FontHeight
    BY <2>4
  <2>6. x <= a /\ a < x + 1
    BY <1>1, <2>2
  <2> QED
    BY <2>1, <2>3, <2>5, <2>6
<1>5. CursorOnly(q, x, y, FALSE)
  BY <1>4 DEF CursorOnly
<1> QED
  BY <1>1, <1>2, <1>3, <1>5 DEF Good, q

(* Drawing the cursor, again or not, puts it where it is, and no ink is     *)
(* touched.                                                                 *)
LEMMA DrawGood ==
  ASSUME NEW p, NEW x, NEW y, NEW shown, NEW drawn, Good(p, x, y, drawn, shown)
  PROVE  Good(paintRectangle(p, x, y * FontHeight, x + 1, y * FontHeight + FontHeight, CursorColor),
              x, y, TRUE, shown)
<1> DEFINE q == paintRectangle(p, x, y * FontHeight, x + 1, y * FontHeight + FontHeight, CursorColor)
<1>1. /\ p \in Pictures /\ x \in Nat /\ y \in 0 .. rows - 1
      /\ shown \in [0 .. rows - 1 -> Seq(Shows)]
      /\ Ordered(shown) /\ Behind(shown, x, y)
      /\ Inked(p, shown) /\ CursorOnly(p, x, y, drawn)
  BY DEF Good
<1>2. Inked(q, shown)
  <2>1. \A i \in DOMAIN shown[y] : NextX(shown[y][i]) <= x
    BY <1>1 DEF Behind
  <2> QED
    BY <1>1, <2>1, Colours, PaintKeepsInk
<1>3. /\ q \in Pictures
      /\ \A b \in Ys, a \in Xs :
           ~(x <= a /\ a < x + 1 /\ y * FontHeight <= b /\ b < y * FontHeight + FontHeight) =>
             q[b][a] = p[b][a]
  BY <1>1, Colours, Painted
<1> HIDE DEF q
<1>4. ASSUME NEW b \in Ys, NEW a \in Xs, q[b][a] = CursorColor
      PROVE  a = x /\ b - y * FontHeight \in 0 .. FontHeight - 1
  <2>1. x <= a /\ a < x + 1 /\ y * FontHeight <= b /\ b < y * FontHeight + FontHeight
    <3> SUFFICES ASSUME ~(x <= a /\ a < x + 1 /\ y * FontHeight <= b
                            /\ b < y * FontHeight + FontHeight)
                 PROVE  FALSE
      OBVIOUS
    <3>1. p[b][a] = CursorColor
      BY <1>3, <1>4, Zenon
    <3>2. a = x /\ b - y * FontHeight \in 0 .. FontHeight - 1
      BY <1>1, <3>1 DEF CursorOnly
    <3>3. PICK u : u = y * FontHeight
      OBVIOUS
    <3>4. u \in Nat /\ FontHeight \in Nat /\ b \in Int /\ b - u \in 0 .. FontHeight - 1
      BY <1>1, <3>2, <3>3, CellRows DEF Ys
    <3>5. u <= b /\ b < u + FontHeight /\ x <= a /\ a < x + 1
      BY <1>1, <3>2, <3>4
    <3> QED
      BY <3>3, <3>5
  <2>2. PICK t : t = y * FontHeight
    OBVIOUS
  <2>3. t \in Nat /\ FontHeight \in Nat /\ b \in Int /\ a \in Int /\ t <= b /\ b < t + FontHeight
    BY <1>1, <2>1, <2>2, CellRows DEF Ys, Xs
  <2>4. b - t \in 0 .. FontHeight - 1 /\ a = x
    BY <1>1, <2>1, <2>3
  <2> QED
    BY <2>2, <2>4
<1>5. CursorOnly(q, x, y, TRUE)
  BY <1>4 DEF CursorOnly
<1> QED
  BY <1>1, <1>2, <1>3, <1>5 DEF Good, q

(* A new row below the last one used.                                       *)
LEMMA NewRowGood ==
  ASSUME NEW p, NEW x, NEW y, NEW shown, Good(p, x, y, FALSE, shown), y + 1 < rows
  PROVE  Good(p, 0, y + 1, FALSE, shown)
<1>1. /\ p \in Pictures /\ y \in 0 .. rows - 1 /\ shown \in [0 .. rows - 1 -> Seq(Shows)]
      /\ Ordered(shown) /\ Behind(shown, x, y)
      /\ Inked(p, shown) /\ CursorOnly(p, x, y, FALSE)
  BY DEF Good
<1>2. y + 1 \in 0 .. rows - 1 /\ y + 1 > y
  BY <1>1, CellRows
<1>3. shown[y + 1] = <<>>
  BY <1>1, <1>2 DEF Behind
<1>4. Behind(shown, 0, y + 1)
  <2>1. DOMAIN shown[y + 1] = {}
    BY <1>3
  <2>2. \A z \in 0 .. rows - 1 : z > y + 1 => z > y
    BY <1>1
  <2> QED
    BY <1>1, <2>1, <2>2 DEF Behind
<1>5. CursorOnly(p, 0, y + 1, FALSE)
  BY <1>1 DEF CursorOnly
<1> QED
  BY <1>1, <1>2, <1>4, <1>5 DEF Good

(* All rows move up by one, and the last is unused.                         *)
LEMMA ScrollGood ==
  ASSUME NEW p, NEW x, NEW shown, Good(p, x, rows - 1, FALSE, shown)
  PROVE  LET up == copyRect(p, [x |-> 0, y |-> FontHeight], [x |-> 0, y |-> 0],
                            [x |-> Width, y |-> Height - FontHeight])
         IN  Good(paintRectangle(up, 0, Height - FontHeight, Width, FontHeight, Background),
                  0, rows - 1, FALSE,
                  [y \in DOMAIN shown |-> IF y + 1 \in DOMAIN shown THEN shown[y + 1] ELSE <<>>])
<1> DEFINE up == copyRect(p, [x |-> 0, y |-> FontHeight], [x |-> 0, y |-> 0],
                          [x |-> Width, y |-> Height - FontHeight])
           q == paintRectangle(up, 0, Height - FontHeight, Width, FontHeight, Background)
           after == [y \in DOMAIN shown |->
                       IF y + 1 \in DOMAIN shown THEN shown[y + 1] ELSE <<>>]
<1>1. /\ p \in Pictures /\ shown \in [0 .. rows - 1 -> Seq(Shows)]
      /\ Ordered(shown) /\ Inked(p, shown) /\ CursorOnly(p, x, rows - 1, FALSE)
  BY DEF Good
<1>2. /\ rows \in Nat \ {0} /\ FontHeight \in Nat \ {0} /\ FontHeight <= Height /\ Height \in Nat
  BY CellRows, FramebufferAssumption
<1>3. /\ up \in Pictures
      /\ \A b \in Ys : up[b] = IF b < Height - FontHeight THEN p[b + FontHeight] ELSE p[b]
  <2>1. up = copyRect(p, Below, Origin, [x |-> Width, y |-> Height - FontHeight])
    BY DEF Below, Origin
  <2> QED
    BY <1>1, <1>2, <2>1, RectCopied
<1> HIDE DEF up
<1>4. /\ q \in Pictures
      /\ \A b \in Ys, a \in Xs :
           /\ (/\ 0 <= a /\ a < Width /\ Height - FontHeight <= b /\ b < FontHeight) =>
                q[b][a] = Background
           /\ ~(/\ 0 <= a /\ a < Width /\ Height - FontHeight <= b /\ b < FontHeight) =>
                q[b][a] = up[b][a]
  BY <1>3, Colours, Painted
<1> HIDE DEF q
<1>5. /\ after \in [0 .. rows - 1 -> Seq(Shows)]
      /\ \A y \in 0 .. rows - 1 :
           /\ y + 1 \in 0 .. rows - 1 => after[y] = shown[y + 1]
           /\ y + 1 \notin 0 .. rows - 1 => after[y] = <<>>
  <2>1. DOMAIN shown = 0 .. rows - 1 /\ <<>> \in Seq(Shows)
    BY <1>1
  <2> QED
    BY <1>1, <2>1
<1> HIDE DEF after
<1>6. Ordered(after)
  <2> SUFFICES ASSUME NEW y \in 0 .. rows - 1, NEW i \in DOMAIN after[y],
                      NEW j \in DOMAIN after[y], i < j
               PROVE  NextX(after[y][i]) <= after[y][j].x
    BY DEF Ordered
  <2>1. y + 1 \in 0 .. rows - 1 /\ after[y] = shown[y + 1]
    BY <1>5
  <2> QED
    BY <1>1, <2>1 DEF Ordered
<1>7. Behind(after, 0, rows - 1)
  <2>1. rows - 1 \in 0 .. rows - 1 /\ (rows - 1) + 1 \notin 0 .. rows - 1
    BY <1>2
  <2>2. after[rows - 1] = <<>>
    BY <1>5, <2>1
  <2>3. \A z \in 0 .. rows - 1 : ~(z > rows - 1)
    BY <1>2
  <2> QED
    BY <2>2, <2>3 DEF Behind
<1>8. Inked(q, after)
  <2> SUFFICES ASSUME NEW y \in 0 .. rows - 1, NEW i \in DOMAIN after[y],
                      NEW a \in after[y][i].x .. after[y][i].x + ink(after[y][i].char) - 1,
                      NEW h \in 0 .. FontHeight - 1
               PROVE  q[y * FontHeight + h][a] = after[y][i].char
    BY DEF Inked
  <2>1. y + 1 \in 0 .. rows - 1 /\ after[y] = shown[y + 1]
    BY <1>5
  <2>2. PICK z : z = y + 1
    OBVIOUS
  <2>3. /\ z \in 0 .. rows - 1 /\ i \in DOMAIN shown[z]
        /\ a \in shown[z][i].x .. shown[z][i].x + ink(shown[z][i].char) - 1
    BY <2>1, <2>2
  <2>4. a \in Xs /\ z * FontHeight + h \in Ys
    BY <1>1, <2>3, InkPlaces
  <2>5. p[z * FontHeight + h][a] = shown[z][i].char
    BY <1>1, <2>3 DEF Inked
  <2>6. /\ z * FontHeight = y * FontHeight + FontHeight
        /\ y * FontHeight \in Nat /\ z * FontHeight + FontHeight <= Height
    BY <2>2, <2>3, CellRows
  <2>7. PICK t : t = y * FontHeight
    OBVIOUS
  <2>8. /\ t + h \in Ys /\ t + h < Height - FontHeight
        /\ (t + h) + FontHeight = z * FontHeight + h
    <3>1. t \in Nat /\ (t + FontHeight) + FontHeight <= Height
          /\ z * FontHeight = t + FontHeight
      BY <2>6, <2>7
    <3> QED
      BY <1>2, <3>1 DEF Ys
  <2>9. up[t + h] = p[z * FontHeight + h]
    BY <1>3, <2>8
  <2>10. q[t + h][a] = up[t + h][a]
    <3>1. ~(Height - FontHeight <= t + h)
      BY <1>2, <2>8 DEF Ys
    <3> QED
      BY <1>4, <2>4, <2>8, <3>1, Zenon
  <2> QED
    BY <2>1, <2>2, <2>5, <2>7, <2>9, <2>10
<1>9. CursorOnly(q, 0, rows - 1, FALSE)
  <2> SUFFICES ASSUME NEW b \in Ys, NEW a \in Xs, q[b][a] = CursorColor PROVE FALSE
    BY DEF CursorOnly
  <2>1. up[b][a] = CursorColor
    BY <1>4, Colours, Zenon
  <2>2. PICK d \in Ys : up[b] = p[d]
    <3>1. b < Height - FontHeight => b + FontHeight \in Ys
      BY <1>2 DEF Ys
    <3> QED
      BY <1>3, <3>1
  <2>3. p[d][a] = CursorColor
    BY <2>1, <2>2
  <2> QED
    BY <1>1, <2>3 DEF CursorOnly
<1> QED
  <2>1. 0 \in Nat /\ rows - 1 \in 0 .. rows - 1
    BY <1>2
  <2> QED
    BY <1>4, <1>5, <1>6, <1>7, <1>8, <1>9, <2>1 DEF Good, q, up, after

(* A picture without a cursor on which that is shown, and a character more. *)
HasDrawn(pixels, shown, x, y, c) ==
  /\ pixels \in Pictures /\ Inked(pixels, shown)
  /\ \A b \in Ys, a \in Xs : pixels[b][a] # CursorColor
  /\ \A a \in Xs, h \in 0 .. FontHeight - 1 :
       x <= a /\ a < x + ink(c) => pixels[y * FontHeight + h][a] = c

(* A cell drawn on a row, behind the characters there: no ink is hidden, its*)
(* own is there, and no cursor appears.                                     *)
LEMMA CellDrawn ==
  ASSUME NEW p \in Pictures, NEW shown \in [0 .. rows - 1 -> Seq(Shows)],
         NEW x \in Nat, NEW y \in 0 .. rows - 1, NEW c \in Chars,
         Inked(p, shown), \A i \in DOMAIN shown[y] : NextX(shown[y][i]) <= x,
         \A b \in Ys, a \in Xs : p[b][a] # CursorColor
  PROVE  HasDrawn(drawCharacter(p, x, y * FontHeight, ink(c), c), shown, x, y, c)
<1> DEFINE cell == paintRectangle(p, x, y * FontHeight, x + FontWidth,
                                  y * FontHeight + FontHeight, Background)
           q == paintRectangle(cell, x, y * FontHeight, x + ink(c),
                               y * FontHeight + FontHeight, c)
<1>1. drawCharacter(p, x, y * FontHeight, ink(c), c) = q
  BY DEF drawCharacter
<1>2. cell \in Pictures /\ Inked(cell, shown)
  BY Painted, PaintKeepsInk, Colours
<1>3. \A b \in Ys, a \in Xs : cell[b][a] # CursorColor
  <2>1. \A b \in Ys, a \in Xs :
          /\ x <= a /\ a < x + FontWidth /\ y * FontHeight <= b
               /\ b < y * FontHeight + FontHeight => cell[b][a] = Background
          /\ ~(x <= a /\ a < x + FontWidth /\ y * FontHeight <= b
               /\ b < y * FontHeight + FontHeight) => cell[b][a] = p[b][a]
    BY Painted, Colours
  <2> HIDE DEF cell
  <2> QED
    BY <2>1, Colours, Zenon
<1> HIDE DEF cell
<1>4. q \in Pictures /\ Inked(q, shown)
  BY <1>2, Painted, PaintKeepsInk, Colours
<1>5. \A b \in Ys, a \in Xs :
        /\ x <= a /\ a < x + ink(c) /\ y * FontHeight <= b
             /\ b < y * FontHeight + FontHeight => q[b][a] = c
        /\ ~(x <= a /\ a < x + ink(c) /\ y * FontHeight <= b
             /\ b < y * FontHeight + FontHeight) => q[b][a] = cell[b][a]
  BY <1>2, Painted, Colours
<1> HIDE DEF q
<1>6. \A b \in Ys, a \in Xs : q[b][a] # CursorColor
  BY <1>3, <1>5, Colours, Zenon
<1>7. ASSUME NEW a \in Xs, NEW h \in 0 .. FontHeight - 1, x <= a, a < x + ink(c)
      PROVE  q[y * FontHeight + h][a] = c
  <2>1. PICK t : t = y * FontHeight
    OBVIOUS
  <2>2. t \in Nat /\ t + FontHeight <= Height /\ FontHeight \in Nat /\ Height \in Nat
    BY <2>1, CellRows, FramebufferAssumption
  <2>3. t + h \in Ys /\ t <= t + h /\ t + h < t + FontHeight
    BY <2>2 DEF Ys
  <2> QED
    BY <1>5, <1>7, <2>1, <2>3
<1>8. HasDrawn(q, shown, x, y, c)
  BY <1>4, <1>6, <1>7 DEF HasDrawn
<1> QED
  BY <1>1, <1>8

(* A character drawn at the cursor, which goes behind it.                   *)
LEMMA CellGood ==
  ASSUME NEW p, NEW x, NEW y, NEW shown, Good(p, x, y, FALSE, shown),
         x + FontWidth <= Width, NEW c \in Chars
  PROVE  Good(drawCharacter(p, x, y * FontHeight, ink(c), c), x + glyphAdvance(c), y, FALSE,
              [shown EXCEPT ![y] = Append(@, [char |-> c, x |-> x])])
<1> DEFINE q == drawCharacter(p, x, y * FontHeight, ink(c), c)
           g == [char |-> c, x |-> x]
           after == [shown EXCEPT ![y] = Append(@, g)]
<1>1. /\ p \in Pictures /\ x \in Nat /\ y \in 0 .. rows - 1
      /\ shown \in [0 .. rows - 1 -> Seq(Shows)]
      /\ Ordered(shown) /\ Behind(shown, x, y)
      /\ Inked(p, shown) /\ CursorOnly(p, x, y, FALSE)
  BY DEF Good
<1>2. /\ FontWidth \in Nat \ {0} /\ Width \in Nat \ {0}
      /\ ink(c) \in 0 .. FontWidth /\ glyphAdvance(c) \in 1 .. FontWidth + 1
  BY CellRows, AdvancePastInk
<1>3. g \in Shows /\ g.char = c /\ g.x = x /\ NextX(g) = x + glyphAdvance(c)
  BY <1>1, <1>2 DEF Shows, NextX
<1>4. /\ q \in Pictures /\ Inked(q, shown)
      /\ \A b \in Ys, a \in Xs : q[b][a] # CursorColor
      /\ \A a \in Xs, h \in 0 .. FontHeight - 1 :
           x <= a /\ a < x + ink(c) => q[y * FontHeight + h][a] = c
  <2>1. \A i \in DOMAIN shown[y] : NextX(shown[y][i]) <= x
    BY <1>1 DEF Behind
  <2>2. \A b \in Ys, a \in Xs : p[b][a] # CursorColor
    BY <1>1 DEF CursorOnly
  <2> QED
    <3>1. /\ p \in Pictures /\ shown \in [0 .. rows - 1 -> Seq(Shows)]
          /\ x \in Nat /\ y \in 0 .. rows - 1 /\ c \in Chars /\ Inked(p, shown)
      BY <1>1
    <3>2. HasDrawn(q, shown, x, y, c)
      BY <2>1, <2>2, <3>1, CellDrawn, Zenon
    <3> HIDE DEF q
    <3> QED
      BY <3>2 DEF HasDrawn
<1> HIDE DEF q, g
<1>5. PICK n \in Nat :
        /\ n = Len(shown[y]) /\ DOMAIN shown[y] = 1 .. n
        /\ DOMAIN after[y] = 1 .. n + 1 /\ after[y][n + 1] = g
        /\ \A i \in 1 .. n : after[y][i] = shown[y][i]
        /\ after[y] \in Seq(Shows)
  <2>1. shown[y] \in Seq(Shows) /\ after[y] = Append(shown[y], g)
    BY <1>1
  <2> HIDE DEF after
  <2>2. Len(shown[y]) \in Nat /\ DOMAIN shown[y] = 1 .. Len(shown[y])
    BY <2>1
  <2>3. /\ Append(shown[y], g) \in Seq(Shows)
        /\ DOMAIN Append(shown[y], g) = 1 .. Len(shown[y]) + 1
        /\ Append(shown[y], g)[Len(shown[y]) + 1] = g
        /\ \A i \in 1 .. Len(shown[y]) : Append(shown[y], g)[i] = shown[y][i]
    BY <1>3, <2>1
  <2> QED
    BY <2>1, <2>2, <2>3, Zenon
<1>6. /\ after \in [0 .. rows - 1 -> Seq(Shows)]
      /\ \A z \in 0 .. rows - 1 : z # y => after[z] = shown[z]
  BY <1>1, <1>5
<1> HIDE DEF after
<1>7. \A i \in 1 .. n : NextX(shown[y][i]) <= x /\ NextX(shown[y][i]) \in Nat
  <2> TAKE i \in 1 .. n
  <2>1. i \in DOMAIN shown[y]
    BY <1>5
  <2>2. NextX(shown[y][i]) <= x
    BY <1>1, <2>1 DEF Behind
  <2>3. shown[y][i] \in Shows
    BY <1>1, <1>5
  <2>4. PICK e, a : e = shown[y][i] /\ a = glyphAdvance(e.char)
    OBVIOUS
  <2>5. e.x \in Nat /\ a \in Nat
    BY <1>2, <2>3, <2>4, AdvancePastInk DEF Shows
  <2>6. NextX(e) \in Nat
    BY <2>4, <2>5 DEF NextX
  <2> QED
    BY <2>2, <2>4, <2>6, Zenon
<1>8. Ordered(after)
  <2> SUFFICES ASSUME NEW z \in 0 .. rows - 1, NEW i \in DOMAIN after[z],
                      NEW j \in DOMAIN after[z], i < j
               PROVE  NextX(after[z][i]) <= after[z][j].x
    BY DEF Ordered
  <2>1. CASE z # y
    BY <1>1, <1>6, <2>1 DEF Ordered
  <2>2. CASE z = y /\ j \in 1 .. n
    <3>1. i \in 1 .. n
      BY <1>5, <2>2
    <3> QED
      BY <1>1, <1>5, <2>2, <3>1 DEF Ordered
  <2>3. CASE z = y /\ j = n + 1
    <3>1. i \in 1 .. n
      BY <1>5, <2>3
    <3> QED
      BY <1>3, <1>5, <1>7, <2>3, <3>1
  <2>4. ASSUME z = y PROVE j \in 1 .. n \/ j = n + 1
    <3>1. DOMAIN after[y] = 1 .. n + 1
      BY <1>5
    <3>2. j \in 1 .. n + 1
      BY <2>4, <3>1, Zenon
    <3> QED
      BY <3>2
  <2> QED
    BY <2>1, <2>2, <2>3, <2>4, Zenon
<1>9. Behind(after, x + glyphAdvance(c), y)
  <2>1. ASSUME NEW i \in DOMAIN after[y] PROVE NextX(after[y][i]) <= x + glyphAdvance(c)
    <3>1. CASE i \in 1 .. n
      <4>1. after[y][i] = shown[y][i] /\ NextX(shown[y][i]) <= x /\ NextX(shown[y][i]) \in Nat
        BY <1>5, <1>7, <3>1
      <4>2. PICK a, b : a = NextX(shown[y][i]) /\ b = glyphAdvance(c)
        OBVIOUS
      <4>3. x \in Nat /\ a \in Nat /\ b \in Nat /\ a <= x
        BY <1>1, <1>2, <4>1, <4>2
      <4>4. a <= x + b
        BY <4>3
      <4> QED
        BY <4>1, <4>2, <4>4, Zenon
    <3>2. CASE i = n + 1
      BY <1>1, <1>2, <1>3, <1>5, <3>2
    <3> QED
      BY <1>5, <3>1, <3>2
  <2>2. \A z \in 0 .. rows - 1 : z > y => z # y
    BY <1>1
  <2> QED
    BY <1>1, <1>6, <2>1, <2>2 DEF Behind
<1>10. Inked(q, after)
  <2> SUFFICES ASSUME NEW z \in 0 .. rows - 1, NEW i \in DOMAIN after[z],
                      NEW a \in after[z][i].x .. after[z][i].x + ink(after[z][i].char) - 1,
                      NEW h \in 0 .. FontHeight - 1
               PROVE  q[z * FontHeight + h][a] = after[z][i].char
    BY DEF Inked
  <2>1. CASE z # y
    BY <1>4, <1>6, <2>1 DEF Inked
  <2>2. CASE z = y /\ i \in 1 .. n
    <3>1. after[z][i] = shown[z][i] /\ i \in DOMAIN shown[z]
      BY <1>5, <2>2
    <3> QED
      BY <1>4, <3>1 DEF Inked
  <2>3. CASE z = y /\ i = n + 1
    <3>1. after[z][i] = g /\ a \in x .. x + ink(c) - 1
      BY <1>3, <1>5, <2>3
    <3>2. a \in Xs /\ x <= a /\ a < x + ink(c)
      BY <1>1, <1>2, <3>1 DEF Xs
    <3>3. q[y * FontHeight + h][a] = c
      BY <1>4, <3>2, Zenon
    <3> QED
      BY <1>3, <2>3, <3>1, <3>3, Zenon
  <2>4. ASSUME z = y PROVE i \in 1 .. n \/ i = n + 1
    <3>1. DOMAIN after[y] = 1 .. n + 1
      BY <1>5
    <3>2. i \in 1 .. n + 1
      BY <2>4, <3>1, Zenon
    <3> QED
      BY <3>2
  <2> QED
    BY <2>1, <2>2, <2>3, <2>4, Zenon
<1>11. CursorOnly(q, x + glyphAdvance(c), y, FALSE)
  BY <1>4 DEF CursorOnly
<1>12. x + glyphAdvance(c) \in Nat
  BY <1>1, <1>2
<1> QED
  BY <1>1, <1>4, <1>6, <1>8, <1>9, <1>10, <1>11, <1>12 DEF Good, q, g, after

(* Backspace: what is kept of a row, from its start, stands before the place*)
(* the cursor goes back to, and the cell there is wiped.                    *)
LEMMA WipeGood ==
  ASSUME NEW p, NEW x, NEW y, NEW shown, Good(p, x, y, FALSE, shown),
         NEW back \in Nat, NEW rest \in Seq(Shows),
         \A i \in DOMAIN rest :
           i \in DOMAIN shown[y] /\ rest[i] = shown[y][i] /\ NextX(rest[i]) <= back
  PROVE  Good(drawCharacter(p, back, y * FontHeight, ink(SpaceChar), SpaceChar), back, y, FALSE,
              [shown EXCEPT ![y] = rest])
<1> DEFINE q == drawCharacter(p, back, y * FontHeight, ink(SpaceChar), SpaceChar)
           after == [shown EXCEPT ![y] = rest]
<1>1. /\ p \in Pictures /\ y \in 0 .. rows - 1 /\ shown \in [0 .. rows - 1 -> Seq(Shows)]
      /\ Ordered(shown) /\ Behind(shown, x, y)
      /\ Inked(p, shown) /\ CursorOnly(p, x, y, FALSE)
  BY DEF Good
<1>2. /\ after \in [0 .. rows - 1 -> Seq(Shows)] /\ after[y] = rest
      /\ \A z \in 0 .. rows - 1 : z # y => after[z] = shown[z]
  BY <1>1
<1> HIDE DEF after
<1>3. \A z \in 0 .. rows - 1 : \A i \in DOMAIN after[z] :
        i \in DOMAIN shown[z] /\ after[z][i] = shown[z][i]
  BY <1>2
<1>4. Ordered(after)
  BY <1>1, <1>3, Zenon DEF Ordered
<1>5. Behind(after, back, y)
  <2>1. \A z \in 0 .. rows - 1 : z > y => z # y
    BY <1>1
  <2> QED
    BY <1>1, <1>2, <2>1 DEF Behind
<1>6. Inked(p, after)
  <2> SUFFICES ASSUME NEW z \in 0 .. rows - 1, NEW i \in DOMAIN after[z],
                      NEW a \in after[z][i].x .. after[z][i].x + ink(after[z][i].char) - 1,
                      NEW h \in 0 .. FontHeight - 1
               PROVE  p[z * FontHeight + h][a] = after[z][i].char
    BY DEF Inked
  <2>1. i \in DOMAIN shown[z] /\ after[z][i] = shown[z][i]
    BY <1>3
  <2> QED
    BY <1>1, <2>1 DEF Inked
<1>7. HasDrawn(q, after, back, y, SpaceChar)
  <2>1. \A i \in DOMAIN after[y] : NextX(after[y][i]) <= back
    BY <1>2
  <2>2. \A b \in Ys, a \in Xs : p[b][a] # CursorColor
    BY <1>1 DEF CursorOnly
  <2>3. SpaceChar \in Chars
    BY DEF Chars
  <2> QED
    BY <1>1, <1>2, <1>6, <2>1, <2>2, <2>3, CellDrawn, Zenon
<1> HIDE DEF q
<1>8. q \in Pictures /\ Inked(q, after) /\ CursorOnly(q, back, y, FALSE)
  BY <1>7 DEF HasDrawn, CursorOnly
<1> QED
  BY <1>1, <1>2, <1>4, <1>5, <1>8 DEF Good, q, after

-----------------------------------------------------------------------------
(* The console: its operations *)

(* What a console is made of.                                               *)
Consoles == [pixels : Pictures, x : Nat, y : 0 .. rows - 1, drawn : BOOLEAN,
             shown : [0 .. rows - 1 -> Seq(Shows)]]

(* The cursor drawn.                                                        *)
On == TRUE

(* The cursor not drawn.                                                    *)
Off == FALSE

(* The record of a console.                                                 *)
Rec(p, x, y, d, r) == [pixels |-> p, x |-> x, y |-> y, drawn |-> d, shown |-> r]

(* A console that is Good.                                                  *)
Sound(k) == k \in Consoles /\ Good(k.pixels, k.x, k.y, k.drawn, k.shown)

(* The record of a console, by its fields.                                  *)
LEMMA RecordOf ==
  ASSUME NEW k \in Consoles
  PROVE  k = Rec(k.pixels, k.x, k.y, k.drawn, k.shown)
BY DEF Consoles, Rec

(* The fields of such a record.                                             *)
LEMMA FieldsOf ==
  ASSUME NEW p, NEW x, NEW y, NEW d, NEW r, NEW k, k = Rec(p, x, y, d, r)
  PROVE  k.pixels = p /\ k.x = x /\ k.y = y /\ k.drawn = d /\ k.shown = r
BY DEF Rec

(* Its picture replaced.                                                    *)
LEMMA SetPixels ==
  ASSUME NEW p, NEW x, NEW y, NEW d, NEW r, NEW k, k = Rec(p, x, y, d, r), NEW v
  PROVE  [k EXCEPT !.pixels = v] = Rec(v, x, y, d, r)
BY DEF Rec

(* The place of its cursor on the row replaced.                             *)
LEMMA SetX ==
  ASSUME NEW p, NEW x, NEW y, NEW d, NEW r, NEW k, k = Rec(p, x, y, d, r), NEW v
  PROVE  [k EXCEPT !.x = v] = Rec(p, v, y, d, r)
BY DEF Rec

(* The row of its cursor replaced.                                          *)
LEMMA SetY ==
  ASSUME NEW p, NEW x, NEW y, NEW d, NEW r, NEW k, k = Rec(p, x, y, d, r), NEW v
  PROVE  [k EXCEPT !.y = v] = Rec(p, x, v, d, r)
BY DEF Rec

(* Whether its cursor is drawn replaced.                                    *)
LEMMA SetDrawn ==
  ASSUME NEW p, NEW x, NEW y, NEW d, NEW r, NEW k, k = Rec(p, x, y, d, r), NEW v
  PROVE  [k EXCEPT !.drawn = v] = Rec(p, x, y, v, r)
BY DEF Rec

(* What it shows replaced.                                                  *)
LEMMA SetShown ==
  ASSUME NEW p, NEW x, NEW y, NEW d, NEW r, NEW k, k = Rec(p, x, y, d, r), NEW v
  PROVE  [k EXCEPT !.shown = v] = Rec(p, x, y, d, v)
BY DEF Rec

(* A console with another picture.                                          *)
LEMMA Repainted ==
  ASSUME NEW k \in Consoles, NEW q, NEW d
  PROVE  [k EXCEPT !.pixels = q, !.drawn = d] = Rec(q, k.x, k.y, d, k.shown)
<1>1. k = Rec(k.pixels, k.x, k.y, k.drawn, k.shown)
  BY RecordOf, Zenon
<1>2. PICK p, x, y, b, r : p = k.pixels /\ x = k.x /\ y = k.y /\ b = k.drawn /\ r = k.shown
  OBVIOUS
<1>3. k = Rec(p, x, y, b, r)
  BY <1>1, <1>2, Zenon
<1>4. PICK e : e = [k EXCEPT !.pixels = q]
  OBVIOUS
<1>5. e = Rec(q, x, y, b, r)
  BY <1>3, <1>4, SetPixels, SMT
<1>6. [k EXCEPT !.pixels = q, !.drawn = d] = [e EXCEPT !.drawn = d]
  BY <1>4
<1>7. [e EXCEPT !.drawn = d] = Rec(q, x, y, d, r)
  BY <1>5, SetDrawn, SMT
<1> QED
  BY <1>2, <1>6, <1>7, Zenon

(* Its cursor put at the start of the next row.                             *)
Down(k) == [k EXCEPT !.x = 0, !.y = @ + 1]

(* The record then.                                                         *)
LEMMA SetDown ==
  ASSUME NEW p, NEW x, NEW y, NEW d, NEW r, NEW k, k = Rec(p, x, y, d, r)
  PROVE  Down(k) = Rec(p, 0, y + 1, d, r)
<1>1. PICK e : e = [k EXCEPT !.x = 0]
  OBVIOUS
<1>2. e = Rec(p, 0, y, d, r)
  <2>1. PICK zero : zero = 0
    OBVIOUS
  <2>2. e = [k EXCEPT !.x = zero]
    BY <1>1, <2>1, Zenon
  <2>3. e = Rec(p, zero, y, d, r)
    BY <2>2, SetX, SMT
  <2> QED
    BY <2>1, <2>3, Zenon
<1>3. k.y = y
  BY FieldsOf, SMT
<1>4. [k EXCEPT !.x = 0, !.y = @ + 1] = [e EXCEPT !.y = y + 1]
  BY <1>1, <1>3
<1>5. PICK z : z = y + 1
  OBVIOUS
<1>6. [e EXCEPT !.y = z] = Rec(p, 0, z, d, r)
  <2>1. PICK zero : zero = 0
    OBVIOUS
  <2>2. e = Rec(p, zero, y, d, r)
    BY <1>2, <2>1, Zenon
  <2>3. [e EXCEPT !.y = z] = Rec(p, zero, z, d, r)
    BY <2>2, SetY, SMT
  <2> QED
    BY <2>1, <2>3, Zenon
<1> QED
  BY <1>4, <1>5, <1>6, Zenon DEF Down

(* Its picture and what it shows replaced.                                  *)
Scrolled(k, q, s) == [k EXCEPT !.pixels = q, !.shown = s]

(* The record then.                                                         *)
LEMMA SetScrolled ==
  ASSUME NEW p, NEW x, NEW y, NEW d, NEW r, NEW k, k = Rec(p, x, y, d, r), NEW q, NEW s
  PROVE  Scrolled(k, q, s) = Rec(q, x, y, d, s)
<1>1. PICK e : e = [k EXCEPT !.pixels = q]
  OBVIOUS
<1>2. e = Rec(q, x, y, d, r)
  BY <1>1, SetPixels, SMT
<1>3. [k EXCEPT !.pixels = q, !.shown = s] = [e EXCEPT !.shown = s]
  BY <1>1
<1>4. [e EXCEPT !.shown = s] = Rec(q, x, y, d, s)
  BY <1>2, SetShown, SMT
<1> QED
  BY <1>3, <1>4, Zenon DEF Scrolled

(* Its cursor moved along and a row of what it shows replaced.              *)
Across(k, a, z, row) == [k EXCEPT !.x = a, !.shown[z] = row]

(* The record then.                                                         *)
LEMMA SetAcross ==
  ASSUME NEW p, NEW x, NEW y, NEW d, NEW r, NEW k, k = Rec(p, x, y, d, r),
         NEW a, NEW z, NEW row
  PROVE  Across(k, a, z, row) = Rec(p, a, y, d, [r EXCEPT ![z] = row])
<1>1. PICK e : e = [k EXCEPT !.x = a]
  OBVIOUS
<1>2. e = Rec(p, a, y, d, r)
  BY <1>1, SetX, SMT
<1>3. [k EXCEPT !.x = a, !.shown[z] = row] = [e EXCEPT !.shown[z] = row]
  BY <1>1
<1>4. e.shown = r
  BY <1>2, FieldsOf, SMT
<1>5. PICK s : s = [r EXCEPT ![z] = row]
  OBVIOUS
<1>6. [e EXCEPT !.shown[z] = row] = [e EXCEPT !.shown = s]
  BY <1>4, <1>5
<1>7. [e EXCEPT !.shown = s] = Rec(p, a, y, d, s)
  BY <1>2, SetShown, SMT
<1> QED
  BY <1>3, <1>5, <1>6, <1>7, Zenon DEF Across

(* Such a record is a console as it stands.                                 *)
LEMMA SoundRecord ==
  ASSUME NEW p, NEW x, NEW y, NEW d, NEW shown, Good(p, x, y, d, shown),
         NEW k, k = Rec(p, x, y, d, shown)
  PROVE  /\ Sound(k)
         /\ k.pixels = p /\ k.x = x /\ k.y = y /\ k.drawn = d /\ k.shown = shown
<1>1. /\ p \in Pictures /\ x \in Nat /\ y \in 0 .. rows - 1
      /\ d \in BOOLEAN /\ shown \in [0 .. rows - 1 -> Seq(Shows)]
  BY DEF Good
<1>2. k.pixels = p /\ k.x = x /\ k.y = y /\ k.drawn = d /\ k.shown = shown
  BY FieldsOf
<1>3. k \in Consoles
  BY <1>1 DEF Consoles, Rec
<1> QED
  BY <1>2, <1>3 DEF Sound

(* Without the cursor.                                                      *)
LEMMA EraseSound ==
  ASSUME NEW k, Sound(k)
  PROVE  /\ Sound(eraseCursor(k)) /\ ~eraseCursor(k).drawn
         /\ eraseCursor(k).x = k.x /\ eraseCursor(k).y = k.y /\ eraseCursor(k).shown = k.shown
<1>1. k \in Consoles /\ Good(k.pixels, k.x, k.y, k.drawn, k.shown)
  BY DEF Sound
<1>2. CASE ~k.drawn
  BY <1>2 DEF eraseCursor
<1>3. CASE k.drawn
  <2> DEFINE q == Cursor(k, Background)
             e == [k EXCEPT !.pixels = q, !.drawn = FALSE]
  <2>1. k.drawn = TRUE /\ k.y \in 0 .. rows - 1
    BY <1>1, <1>3 DEF Consoles
  <2>2. (k.y + 1) * FontHeight = k.y * FontHeight + FontHeight
    BY <2>1, CellRows
  <2>3. q = paintRectangle(k.pixels, k.x, k.y * FontHeight, k.x + 1,
                           k.y * FontHeight + FontHeight, Background)
    BY <2>2, Zenon DEF Cursor
  <2>4. Good(k.pixels, k.x, k.y, TRUE, k.shown)
    BY <1>1, <2>1
  <2>5. Good(q, k.x, k.y, FALSE, k.shown)
    BY <2>3, <2>4, EraseGood, Zenon
  <2> HIDE DEF q
  <2>9. Good(q, k.x, k.y, Off, k.shown)
    BY <2>5 DEF Off
  <2>6. e = Rec(q, k.x, k.y, Off, k.shown)
    <3>1. e = [k EXCEPT !.pixels = q, !.drawn = Off]
      BY DEF Off
    <3> QED
      BY <1>1, <3>1, Repainted, Zenon
  <2>7. eraseCursor(k) = e
    BY <1>3, Zenon DEF eraseCursor, q
  <2> HIDE DEF e
  <2>8. Sound(e) /\ e.x = k.x /\ e.y = k.y /\ e.drawn = Off /\ e.shown = k.shown
    <3>1. PICK x, y, r : x = k.x /\ y = k.y /\ r = k.shown
      OBVIOUS
    <3>2. Good(q, x, y, Off, r) /\ e = Rec(q, x, y, Off, r)
      BY <2>6, <2>9, <3>1, Zenon
    <3>3. Sound(e) /\ e.x = x /\ e.y = y /\ e.drawn = Off /\ e.shown = r
      BY <3>2, SoundRecord, SMT
    <3> QED
      BY <3>1, <3>3, Zenon
  <2> QED
    BY <2>7, <2>8 DEF Off
<1> QED
  BY <1>2, <1>3

(* With the cursor.                                                         *)
LEMMA DrawSound ==
  ASSUME NEW k, Sound(k)
  PROVE  /\ Sound(drawCursor(k))
         /\ drawCursor(k).x = k.x /\ drawCursor(k).y = k.y /\ drawCursor(k).shown = k.shown
<1>1. k \in Consoles /\ Good(k.pixels, k.x, k.y, k.drawn, k.shown)
  BY DEF Sound
<1> DEFINE q == Cursor(k, CursorColor)
           e == [k EXCEPT !.pixels = q, !.drawn = TRUE]
<1>2. k.y \in 0 .. rows - 1
  BY <1>1 DEF Consoles
<1>3. (k.y + 1) * FontHeight = k.y * FontHeight + FontHeight
  BY <1>2, CellRows
<1>4. q = paintRectangle(k.pixels, k.x, k.y * FontHeight, k.x + 1,
                         k.y * FontHeight + FontHeight, CursorColor)
  BY <1>3, Zenon DEF Cursor
<1>5. Good(q, k.x, k.y, TRUE, k.shown)
  BY <1>1, <1>4, DrawGood, Zenon
<1> HIDE DEF q
<1>6. Good(q, k.x, k.y, On, k.shown)
  BY <1>5 DEF On
<1>7. e = Rec(q, k.x, k.y, On, k.shown)
  <2>1. e = [k EXCEPT !.pixels = q, !.drawn = On]
    BY DEF On
  <2> QED
    BY <1>1, <2>1, Repainted, Zenon
<1>8. drawCursor(k) = e
  BY Zenon DEF drawCursor, q
<1> HIDE DEF e
<1>9. Sound(e) /\ e.x = k.x /\ e.y = k.y /\ e.shown = k.shown
  <2>1. PICK x, y, r : x = k.x /\ y = k.y /\ r = k.shown
    OBVIOUS
  <2>2. Good(q, x, y, On, r) /\ e = Rec(q, x, y, On, r)
    BY <1>6, <1>7, <2>1, Zenon
  <2>3. Sound(e) /\ e.x = x /\ e.y = y /\ e.shown = r
    BY <2>2, SoundRecord, SMT
  <2> QED
    BY <2>1, <2>3, Zenon
<1> QED
  BY <1>8, <1>9

(* A new row, which may push the others up.                                 *)
LEMMA NewlineSound ==
  ASSUME NEW k, Sound(k), ~k.drawn
  PROVE  Sound(newline(k)) /\ ~newline(k).drawn /\ newline(k).x = 0
<1>1. /\ k \in Consoles /\ Good(k.pixels, k.x, k.y, FALSE, k.shown)
      /\ k.drawn = FALSE /\ k.y \in 0 .. rows - 1 /\ rows \in Nat \ {0}
  BY CellRows DEF Sound, Consoles
<1>2. PICK p, x, y, r : p = k.pixels /\ x = k.x /\ y = k.y /\ r = k.shown
  OBVIOUS
<1>3. k = Rec(p, x, y, Off, r)
  BY <1>1, <1>2, RecordOf, Zenon DEF Off
<1>4. PICK down : down = [k EXCEPT !.x = 0, !.y = @ + 1]
  OBVIOUS
<1>5. down = Rec(p, 0, y + 1, Off, r)
  <2>1. down = Down(k)
    BY <1>4, Zenon DEF Down
  <2> QED
    BY <1>3, <2>1, SetDown, SMT
<1>6. newline(k) = IF down.y >= rows THEN [scroll(down) EXCEPT !.y = rows - 1] ELSE down
  BY <1>4, Zenon DEF newline
<1>7. PICK z, next : z = 0 /\ next = y + 1
  OBVIOUS
<1>8. down = Rec(p, z, next, Off, r)
  BY <1>5, <1>7, Zenon
<1>9. down.pixels = p /\ down.y = next /\ down.shown = r
  BY <1>8, FieldsOf, SMT
<1>10. CASE next < rows
  <2>1. newline(k) = down
    <3>1. ~(down.y >= rows)
      BY <1>1, <1>2, <1>7, <1>9, <1>10
    <3> QED
      BY <1>6, <3>1, Zenon
  <2>2. Good(p, z, next, Off, r)
    <3>1. y + 1 < rows
      BY <1>7, <1>10, Zenon
    <3> QED
      BY <1>1, <1>2, <1>7, <3>1, NewRowGood, Zenon DEF Off
  <2>3. Sound(down) /\ down.drawn = Off /\ down.x = z
    BY <1>8, <2>2, SoundRecord, SMT
  <2> QED
    BY <1>7, <2>1, <2>3 DEF Off
<1>11. CASE ~(next < rows)
  <2>1. y = rows - 1 /\ down.y >= rows
    BY <1>1, <1>2, <1>7, <1>9, <1>11
  <2>2. PICK q, after :
          /\ q = paintRectangle(copyRect(p, [x |-> 0, y |-> FontHeight], [x |-> 0, y |-> 0],
                                         [x |-> Width, y |-> Height - FontHeight]),
                                0, Height - FontHeight, Width, FontHeight, Background)
          /\ after = [b \in DOMAIN r |-> IF b + 1 \in DOMAIN r THEN r[b + 1] ELSE <<>>]
    OBVIOUS
  <2>3. Good(q, 0, rows - 1, FALSE, after)
    <3>1. Good(p, x, rows - 1, FALSE, r)
      BY <1>1, <1>2, <2>1, Zenon
    <3> QED
      BY <2>2, <3>1, ScrollGood
  <2>4. scroll(down) = [down EXCEPT !.pixels = q, !.shown = after]
    BY <1>9, <2>2 DEF scroll
  <2>5. PICK scrolled, last : scrolled = scroll(down) /\ last = rows - 1
    OBVIOUS
  <2>6. scrolled = Rec(q, z, next, Off, after)
    <3>1. scrolled = Scrolled(down, q, after)
      BY <2>4, <2>5, Zenon DEF Scrolled
    <3> QED
      BY <1>8, <3>1, SetScrolled, SMT
  <2>7. newline(k) = [scrolled EXCEPT !.y = last]
    BY <1>6, <2>1, <2>5, Zenon
  <2>8. [scrolled EXCEPT !.y = last] = Rec(q, z, last, Off, after)
    BY <2>6, SetY, SMT
  <2>9. PICK e : e = newline(k)
    OBVIOUS
  <2>10. e = Rec(q, z, last, Off, after) /\ Good(q, z, last, Off, after)
    BY <1>7, <2>3, <2>5, <2>7, <2>8, <2>9, Zenon DEF Off
  <2>11. Sound(e) /\ e.drawn = Off /\ e.x = z
    BY <2>10, SoundRecord, SMT
  <2> QED
    BY <1>7, <2>9, <2>11 DEF Off
<1> QED
  BY <1>10, <1>11

(* A character on the row it fits on.  It stays on the cursor's row only if *)
(* the cursor ends just behind it.                                          *)
LEMMA PlacedSound ==
  ASSUME NEW k, Sound(k), ~k.drawn, k.x \in Xs, NEW c \in Chars
  PROVE  /\ Sound(Placed(k, c)) /\ ~Placed(k, c).drawn /\ Placed(k, c).x \in Xs
         /\ Placed(k, c).x = k.x + glyphAdvance(c) =>
              /\ Placed(k, c).y = k.y
              /\ Placed(k, c).shown = [k.shown EXCEPT ![k.y] = Append(@, [char |-> c, x |-> k.x])]
         /\ glyphAdvance(c) < FontWidth =>
              Placed(k, c).x = glyphAdvance(c) + (IF k.x + FontWidth > Width THEN 0 ELSE k.x)
<1>1. PICK at : at = IF k.x + FontWidth > Width THEN newline(k) ELSE k
  OBVIOUS
<1>2. PICK next : next = [drawCell(at, c) EXCEPT
                            !.x = @ + glyphAdvance(c),
                            !.shown[at.y] = Append(@, [char |-> c, x |-> at.x])]
  OBVIOUS
<1>3. Placed(k, c) = IF next.x >= Width THEN newline(next) ELSE next
  BY <1>1, <1>2 DEF Placed
<1>4. /\ FontWidth \in Nat \ {0} /\ Width \in Nat \ {0} /\ FontWidth < Width
      /\ glyphAdvance(c) \in 1 .. FontWidth + 1
  BY CellRows, AdvancePastInk, ConsoleAssumption
<1>5. /\ Sound(at) /\ ~at.drawn /\ at.x + FontWidth <= Width /\ at.x \in Nat
      /\ at = k \/ (at.x = 0 /\ k.x # 0)
      /\ at.x = IF k.x + FontWidth > Width THEN 0 ELSE k.x
  <2>1. CASE k.x + FontWidth > Width
    <3>1. at = newline(k)
      BY <1>1, <2>1
    <3>2. Sound(at) /\ ~at.drawn /\ at.x = 0
      BY <3>1, NewlineSound
    <3>3. k.x # 0 /\ at.x + FontWidth <= Width /\ at.x \in Nat
      BY <1>4, <2>1, <3>2 DEF Xs
    <3> QED
      BY <2>1, <3>2, <3>3
  <2>2. CASE ~(k.x + FontWidth > Width)
    <3>1. at = k
      BY <1>1, <2>2
    <3>2. k.x + FontWidth <= Width /\ k.x \in Nat
      BY <1>4, <2>2 DEF Xs
    <3> QED
      BY <2>2, <3>1, <3>2
  <2> QED
    BY <2>1, <2>2
<1>6. at \in Consoles /\ Good(at.pixels, at.x, at.y, FALSE, at.shown) /\ at.drawn = FALSE
  BY <1>5 DEF Sound, Consoles
<1>7. PICK p, x, y, r : p = at.pixels /\ x = at.x /\ y = at.y /\ r = at.shown
  OBVIOUS
<1>8. at = Rec(p, x, y, Off, r)
  BY <1>6, <1>7, RecordOf, Zenon DEF Off
<1>9. PICK q, a, row, after :
        /\ q = drawCharacter(p, x, y * FontHeight, ink(c), c)
        /\ a = x + glyphAdvance(c)
        /\ row = Append(r[y], [char |-> c, x |-> x])
        /\ after = [r EXCEPT ![y] = row]
  OBVIOUS
<1>10. Good(q, a, y, Off, after)
  <2>1. x + FontWidth <= Width
    BY <1>5, <1>7
  <2>2. after = [r EXCEPT ![y] = Append(@, [char |-> c, x |-> x])]
    BY <1>9
  <2>3. Good(p, x, y, FALSE, r)
    BY <1>6, <1>7, Zenon
  <2> QED
    <3>1. Good(drawCharacter(p, x, y * FontHeight, ink(c), c), x + glyphAdvance(c), y, FALSE,
               [r EXCEPT ![y] = Append(@, [char |-> c, x |-> x])])
      BY <2>1, <2>3, CellGood
    <3> QED
      BY <1>9, <2>2, <3>1 DEF Off
<1>11. next = Rec(q, a, y, Off, after)
  <2>1. PICK cell : cell = drawCell(at, c)
    OBVIOUS
  <2>2. cell = [at EXCEPT !.pixels = q]
    BY <1>7, <1>9, <2>1 DEF drawCell
  <2>3. cell = Rec(q, x, y, Off, r)
    BY <1>8, <2>2, SetPixels, SMT
  <2>4. cell.x = x /\ cell.shown = r
    BY <2>3, FieldsOf, SMT
  <2>5. next = [cell EXCEPT !.x = a, !.shown[y] = row]
    BY <1>2, <1>7, <1>9, <2>1, <2>4
  <2>6. next = Rec(q, a, y, Off, [r EXCEPT ![y] = row])
    <3>1. next = Across(cell, a, y, row)
      BY <2>5, Zenon DEF Across
    <3> QED
      BY <2>3, <3>1, SetAcross, SMT
  <2> QED
    BY <1>9, <2>6, Zenon
<1>12. Sound(next) /\ next.drawn = Off /\ next.x = a /\ next.y = y /\ next.shown = after
  BY <1>10, <1>11, SoundRecord, SMT
<1>13. x \in Nat /\ a \in Nat /\ a = x + glyphAdvance(c) /\ k.x \in Nat /\ Off = FALSE
  BY <1>4, <1>5, <1>7, <1>9 DEF Xs, Off
<1>14. CASE a >= Width
  <2>1. Placed(k, c) = newline(next)
    BY <1>3, <1>12, <1>14, Zenon
  <2>2. Sound(Placed(k, c)) /\ ~Placed(k, c).drawn /\ Placed(k, c).x = 0
    BY <1>12, <1>13, <2>1, NewlineSound, Zenon
  <2>3. 0 \in Xs /\ 0 # k.x + glyphAdvance(c)
    BY <1>4, <1>13 DEF Xs
  <2>4. ~(glyphAdvance(c) < FontWidth)
    BY <1>4, <1>5, <1>7, <1>13, <1>14
  <2> QED
    BY <2>2, <2>3, <2>4
<1>15. CASE ~(a >= Width)
  <2>1. Placed(k, c) = next
    BY <1>3, <1>12, <1>15, Zenon
  <2>2. a \in Xs
    BY <1>4, <1>13, <1>15 DEF Xs
  <2>3. ASSUME a = k.x + glyphAdvance(c) PROVE at = k
    <3>1. x = k.x
      BY <1>4, <1>13, <2>3
    <3>2. at.x = x
      BY <1>7
    <3> QED
      BY <1>5, <3>1, <3>2
  <2>4. a = k.x + glyphAdvance(c) =>
          y = k.y /\ after = [k.shown EXCEPT ![k.y] = Append(@, [char |-> c, x |-> k.x])]
    BY <1>7, <1>9, <2>3
  <2>5. a = glyphAdvance(c) + (IF k.x + FontWidth > Width THEN 0 ELSE k.x)
    BY <1>4, <1>5, <1>7, <1>13
  <2> QED
    BY <1>12, <1>13, <2>1, <2>2, <2>4, <2>5
<1> QED
  BY <1>13, <1>14, <1>15

(* A character printed at the cursor.                                       *)
LEMMA PutCharSound ==
  ASSUME NEW k, Sound(k), k.x \in Xs, NEW c \in Chars
  PROVE  /\ Sound(putChar(k, c)) /\ putChar(k, c).x \in Xs
         /\ putChar(k, c).x = k.x + glyphAdvance(c) =>
              /\ putChar(k, c).y = k.y
              /\ putChar(k, c).shown = [k.shown EXCEPT ![k.y] = Append(@, [char |-> c, x |-> k.x])]
         /\ glyphAdvance(c) < FontWidth =>
              putChar(k, c).x = glyphAdvance(c) + (IF k.x + FontWidth > Width THEN 0 ELSE k.x)
<1>1. PICK e, m : e = eraseCursor(k) /\ m = Placed(e, c)
  OBVIOUS
<1>2. Sound(e) /\ ~e.drawn /\ e.x = k.x /\ e.y = k.y /\ e.shown = k.shown
  BY <1>1, EraseSound
<1>3. /\ Sound(m) /\ ~m.drawn /\ m.x \in Xs
      /\ m.x = e.x + glyphAdvance(c) =>
           m.y = e.y /\ m.shown = [e.shown EXCEPT ![e.y] = Append(@, [char |-> c, x |-> e.x])]
      /\ glyphAdvance(c) < FontWidth =>
           m.x = glyphAdvance(c) + (IF e.x + FontWidth > Width THEN 0 ELSE e.x)
  <2>1. e.x \in Xs
    BY <1>2
  <2> QED
    BY <1>1, <1>2, <2>1, PlacedSound
<1>4. putChar(k, c) = drawCursor(m)
  BY <1>1, Zenon DEF putChar
<1>5. PICK w : w = drawCursor(m)
  OBVIOUS
<1>6. Sound(w) /\ w.x = m.x /\ w.y = m.y /\ w.shown = m.shown
  BY <1>3, <1>5, DrawSound
<1> QED
  BY <1>2, <1>3, <1>4, <1>5, <1>6

(* A new row printed.                                                       *)
LEMMA PutNewlineSound ==
  ASSUME NEW k, Sound(k)
  PROVE  Sound(putNewline(k)) /\ putNewline(k).x \in Xs
<1>1. PICK e, m, w : e = eraseCursor(k) /\ m = newline(e) /\ w = drawCursor(m)
  OBVIOUS
<1>2. Sound(e) /\ ~e.drawn
  BY <1>1, EraseSound
<1>3. Sound(m) /\ ~m.drawn /\ m.x = 0
  BY <1>1, <1>2, NewlineSound
<1>4. Sound(w) /\ w.x = 0
  BY <1>1, <1>3, DrawSound
<1>5. putNewline(k) = w
  BY <1>1, Zenon DEF putNewline
<1>6. 0 \in Xs
  BY FramebufferAssumption DEF Xs
<1> QED
  BY <1>4, <1>5, <1>6

(* A cleared screen.                                                        *)
LEMMA ClearedSound == Sound(Cleared) /\ Cleared.x \in Xs
<1>1. PICK p, x, y, r : /\ p = BlankScreen /\ x = 0 /\ y = 0
                        /\ r = [b \in 0 .. rows - 1 |-> <<>>]
  OBVIOUS
<1>2. Good(p, x, y, Off, r)
  <2>1. 0 \in 0 .. rows - 1
    BY CellRows
  <2>2. p \in Pictures /\ \A b \in Ys, a \in Xs : p[b][a] # CursorColor
    BY <1>1, Colours DEF BlankScreen, Pictures
  <2>3. r \in [0 .. rows - 1 -> Seq(Shows)] /\ \A b \in 0 .. rows - 1 : r[b] = <<>>
    BY <1>1
  <2>4. \A b \in 0 .. rows - 1 : DOMAIN r[b] = {}
    BY <2>3
  <2>5. Ordered(r) /\ Inked(p, r) /\ Behind(r, x, y) /\ CursorOnly(p, x, y, Off)
    BY <1>1, <2>1, <2>2, <2>3, <2>4 DEF Ordered, Inked, Behind, CursorOnly
  <2> QED
    BY <1>1, <2>1, <2>2, <2>3, <2>5 DEF Good, Off
<1>3. PICK k : k = Rec(p, x, y, Off, r)
  OBVIOUS
<1>4. Cleared = drawCursor(k)
  BY <1>1, <1>3 DEF Cleared, Rec, Off
<1>5. Sound(k) /\ k.drawn = Off /\ k.x = x
  BY <1>2, <1>3, SoundRecord, SMT
<1>6. PICK w : w = drawCursor(k)
  OBVIOUS
<1>7. Sound(w) /\ w.x = k.x
  BY <1>5, <1>6, DrawSound
<1>8. 0 \in Xs
  BY FramebufferAssumption DEF Xs
<1> QED
  BY <1>1, <1>4, <1>5, <1>6, <1>7, <1>8

(* The character last shown on the cursor's row, where the cursor is.       *)
EndsWith(row, c, x) == row # <<>> /\ row[Len(row)].char = c /\ NextX(row[Len(row)]) = x

(* A character taken back: if it is the one before the cursor, the cursor   *)
(* is where that began, and the others of the row are kept.                 *)
LEMMA BackspaceSound ==
  ASSUME NEW k, Sound(k), k.x \in Xs, NEW c, straight \in BOOLEAN,
         straight => EndsWith(k.shown[k.y], c, k.x)
  PROVE  /\ Sound(backspace(k, c)) /\ backspace(k, c).x \in Xs
         /\ straight =>
              /\ backspace(k, c).x = k.shown[k.y][Len(k.shown[k.y])].x
              /\ backspace(k, c).y = k.y
              /\ backspace(k, c).shown[k.y] = Front(k.shown[k.y])
<1>1. PICK e : e = eraseCursor(k)
  OBVIOUS
<1>2. Sound(e) /\ ~e.drawn /\ e.x = k.x /\ e.y = k.y /\ e.shown = k.shown
  BY <1>1, EraseSound
<1>3. PICK p, x, y, r : p = e.pixels /\ x = e.x /\ y = e.y /\ r = e.shown
  OBVIOUS
<1>4. /\ Good(p, x, y, Off, r) /\ e = Rec(p, x, y, Off, r)
      /\ r \in [0 .. rows - 1 -> Seq(Shows)] /\ y \in 0 .. rows - 1
  <2>1. e \in Consoles /\ Good(e.pixels, e.x, e.y, e.drawn, e.shown) /\ e.drawn = FALSE
    BY <1>2 DEF Sound, Consoles
  <2>2. Good(p, x, y, Off, r) /\ e = Rec(p, x, y, Off, r)
    BY <1>3, <2>1, RecordOf, Zenon DEF Off
  <2> QED
    BY <1>3, <2>1, <2>2 DEF Consoles
<1>5. PICK back, rest :
        /\ back = IF x >= glyphAdvance(c) THEN x - glyphAdvance(c) ELSE 0
        /\ rest = IF straight THEN Front(r[y]) ELSE <<>>
  OBVIOUS
<1>6. r[y] \in Seq(Shows) /\ x \in Xs /\ (straight => EndsWith(r[y], c, x))
  BY <1>2, <1>3, <1>4
<1>7. straight => /\ Len(r[y]) \in Nat \ {0} /\ Len(r[y]) \in DOMAIN r[y]
                  /\ back = r[y][Len(r[y])].x /\ back \in Nat
                  /\ \A i \in 1 .. Len(r[y]) - 1 : NextX(r[y][i]) <= back
  <2> SUFFICES ASSUME straight
               PROVE  /\ Len(r[y]) \in Nat \ {0} /\ Len(r[y]) \in DOMAIN r[y]
                      /\ back = r[y][Len(r[y])].x /\ back \in Nat
                      /\ \A i \in 1 .. Len(r[y]) - 1 : NextX(r[y][i]) <= back
    OBVIOUS
  <2>1. PICK row, n : row = r[y] /\ n = Len(row)
    OBVIOUS
  <2>2. row \in Seq(Shows) /\ row # <<>> /\ row[n].char = c /\ NextX(row[n]) = x
    BY <1>4, <1>6, <2>1 DEF EndsWith
  <2>3. n \in Nat \ {0} /\ DOMAIN row = 1 .. n /\ row[n] \in Shows
    BY <2>1, <2>2
  <2>4. row[n].x \in Nat /\ x = row[n].x + glyphAdvance(c)
    BY <2>2, <2>3, CellRows DEF Shows, NextX
  <2>5. back = row[n].x
    BY <1>5, <2>4, AdvancePastInk, CellRows
  <2>6. \A i \in 1 .. n - 1 : NextX(row[i]) <= row[n].x
    <3>1. \A i, j \in DOMAIN row : i < j => NextX(row[i]) <= row[j].x
      BY <1>4, <2>1 DEF Good, Ordered
    <3>2. \A i \in 1 .. n - 1 : i \in DOMAIN row /\ i < n /\ n \in DOMAIN row
      BY <2>3
    <3> QED
      BY <3>1, <3>2
  <2> QED
    BY <2>1, <2>3, <2>4, <2>5, <2>6
<1>8. back \in Xs /\ back \in Nat
  BY <1>5, <1>6, AdvancePastInk, FramebufferAssumption DEF Xs
<1>9. /\ rest \in Seq(Shows)
      /\ \A i \in DOMAIN rest :
           i \in DOMAIN r[y] /\ rest[i] = r[y][i] /\ NextX(rest[i]) <= back
  <2>1. CASE straight
    <3>1. rest = [i \in 1 .. Len(r[y]) - 1 |-> r[y][i]]
      BY <1>4, <1>5, <1>7, <2>1 DEF Front
    <3>2. \A i \in 1 .. Len(r[y]) - 1 : i \in DOMAIN r[y] /\ r[y][i] \in Shows
      BY <1>4, <1>7, <2>1
    <3>3. rest \in Seq(Shows)
      BY <1>7, <2>1, <3>1, <3>2
    <3> QED
      BY <1>7, <2>1, <3>1, <3>2, <3>3
  <2>2. CASE ~straight
    BY <1>5, <2>2
  <2> QED
    BY <2>1, <2>2
<1>10. PICK q, after :
         /\ q = drawCharacter(p, back, y * FontHeight, ink(SpaceChar), SpaceChar)
         /\ after = [r EXCEPT ![y] = rest]
  OBVIOUS
<1>11. Good(q, back, y, Off, after)
  <2>1. Good(drawCharacter(p, back, y * FontHeight, ink(SpaceChar), SpaceChar), back, y, FALSE,
             [r EXCEPT ![y] = rest])
    BY <1>4, <1>8, <1>9, WipeGood DEF Off
  <2> QED
    BY <1>10, <2>1, Zenon DEF Off
<1>12. PICK at : at = Across(e, back, y, rest)
  OBVIOUS
<1>13. at = Rec(p, back, y, Off, after)
  <2>1. e = Rec(p, x, y, Off, r)
    BY <1>4
  <2>2. at = Rec(p, back, y, Off, [r EXCEPT ![y] = rest])
    BY <1>12, <2>1, SetAcross, SMT
  <2> QED
    BY <1>10, <2>2, Zenon
<1>14. at.pixels = p /\ at.x = back /\ at.y = y
  BY <1>13, FieldsOf, SMT
<1>15. PICK m : m = drawCell(at, SpaceChar)
  OBVIOUS
<1>16. m = [at EXCEPT !.pixels = q]
  BY <1>10, <1>14, <1>15 DEF drawCell
<1>17. m = Rec(q, back, y, Off, after)
  BY <1>13, <1>16, SetPixels, SMT
<1>18. Sound(m) /\ m.drawn = Off /\ m.x = back /\ m.y = y /\ m.shown = after
  BY <1>11, <1>17, SoundRecord, SMT
<1>19. PICK w : w = drawCursor(m)
  OBVIOUS
<1>20. Sound(w) /\ w.x = back /\ w.y = y /\ w.shown = after
  BY <1>18, <1>19, DrawSound
<1>21. backspace(k, c) = w
  <2>1. [e EXCEPT !.x = IF @ >= glyphAdvance(c) THEN @ - glyphAdvance(c) ELSE 0,
                  !.shown[k.y] = IF straight THEN Front(@) ELSE <<>>] = at
    BY <1>2, <1>3, <1>5, <1>12 DEF Across
  <2> QED
    BY <1>1, <1>15, <1>19, <2>1, Zenon DEF backspace
<1>22. after[y] = rest
  BY <1>4, <1>10
<1> QED
  BY <1>2, <1>3, <1>5, <1>7, <1>8, <1>20, <1>21, <1>22

-----------------------------------------------------------------------------
(* The console: the line being read *)

(* The last characters of a row are a line, without a gap, and it ends at x.*)
Stands(row, text, x) ==
  /\ Len(text) <= Len(row)
  /\ \A i \in DOMAIN text :
       /\ row[Len(row) - Len(text) + i].char = text[i]
       /\ NextX(row[Len(row) - Len(text) + i]) =
            IF i = Len(text) THEN x ELSE row[Len(row) - Len(text) + i + 1].x

(* An empty line stands anywhere.                                           *)
LEMMA StandsEmpty ==
  ASSUME NEW row \in Seq(Shows), NEW x
  PROVE  Stands(row, <<>>, x)
BY DEF Stands

(* A character typed stands behind the others.                              *)
LEMMA StandsLonger ==
  ASSUME NEW row \in Seq(Shows), NEW x, NEW S, NEW text \in Seq(S), NEW c,
         Stands(row, text, x)
  PROVE  Stands(Append(row, [char |-> c, x |-> x]), Append(text, c), x + glyphAdvance(c))
<1>1. PICK g, n, l : g = [char |-> c, x |-> x] /\ n = Len(row) /\ l = Len(text)
  OBVIOUS
<1>2. PICK after, longer : after = Append(row, g) /\ longer = Append(text, c)
  OBVIOUS
<1>3. /\ n \in Nat /\ l \in Nat /\ l <= n /\ Len(after) = n + 1 /\ Len(longer) = l + 1
      /\ after[n + 1] = g /\ \A i \in 1 .. n : after[i] = row[i]
      /\ longer[l + 1] = c /\ \A i \in 1 .. l : longer[i] = text[i]
      /\ DOMAIN text = 1 .. l /\ DOMAIN longer = 1 .. l + 1
  BY <1>1, <1>2 DEF Stands
<1>4. g.char = c /\ g.x = x /\ NextX(g) = x + glyphAdvance(c)
  BY <1>1 DEF NextX
<1>5. \A i \in 1 .. l :
        /\ row[n - l + i].char = text[i]
        /\ i = l => NextX(row[n - l + i]) = x
        /\ i # l => NextX(row[n - l + i]) = row[n - l + i + 1].x
  BY <1>1, <1>3 DEF Stands
<1>6. ASSUME NEW i \in 1 .. l + 1
      PROVE  /\ after[n - l + i].char = longer[i]
             /\ i = l + 1 => NextX(after[n - l + i]) = x + glyphAdvance(c)
             /\ i # l + 1 => NextX(after[n - l + i]) = after[n - l + i + 1].x
  <2>1. CASE i = l + 1
    <3>1. n - l + i = n + 1
      BY <1>3, <2>1
    <3> QED
      BY <1>3, <1>4, <2>1, <3>1
  <2>2. CASE i = l
    <3>1. n - l + i = n /\ n - l + i + 1 = n + 1 /\ i \in 1 .. l /\ n \in 1 .. n /\ i # l + 1
      BY <1>3, <2>2
    <3>2. after[n] = row[n] /\ longer[i] = text[i] /\ after[n + 1] = g
      BY <1>3, <3>1
    <3>3. row[n].char = text[i] /\ NextX(row[n]) = x
      BY <1>5, <2>2, <3>1
    <3> QED
      BY <1>4, <3>1, <3>2, <3>3
  <2>3. CASE i < l
    <3>1. n - l + i \in 1 .. n /\ n - l + i + 1 \in 1 .. n /\ i \in 1 .. l /\ i # l /\ i # l + 1
      BY <1>3, <2>3
    <3>2. PICK j : j = n - l + i
      OBVIOUS
    <3>3. after[j] = row[j] /\ after[j + 1] = row[j + 1] /\ longer[i] = text[i]
      BY <1>3, <3>1, <3>2
    <3>4. row[j].char = text[i] /\ NextX(row[j]) = row[j + 1].x
      BY <1>5, <3>1, <3>2
    <3> QED
      BY <3>1, <3>2, <3>3, <3>4
  <2> QED
    BY <1>3, <2>1, <2>2, <2>3
<1>7. Stands(after, longer, x + glyphAdvance(c))
  <2>1. (n + 1) - (l + 1) = n - l /\ l + 1 <= n + 1
    BY <1>3
  <2> QED
    BY <1>3, <1>6, <2>1 DEF Stands
<1> QED
  BY <1>1, <1>2, <1>7

(* One taken back was at the end of the row, and the others still stand.    *)
LEMMA StandsShorter ==
  ASSUME NEW row \in Seq(Shows), NEW x, NEW S, NEW text \in Seq(S), text # <<>>,
         Stands(row, text, x)
  PROVE  /\ EndsWith(row, Last(text), x)
         /\ Stands(Front(row), Front(text), row[Len(row)].x)
<1>1. PICK n, l : n = Len(row) /\ l = Len(text)
  OBVIOUS
<1>2. /\ n \in Nat /\ l \in Nat \ {0} /\ l <= n /\ l \in DOMAIN text
      /\ DOMAIN text = 1 .. l
  BY <1>1 DEF Stands
<1>3. \A i \in 1 .. l :
        /\ row[n - l + i].char = text[i]
        /\ i = l => NextX(row[n - l + i]) = x
        /\ i # l => NextX(row[n - l + i]) = row[n - l + i + 1].x
  BY <1>1, <1>2 DEF Stands
<1>4. EndsWith(row, Last(text), x)
  <2>1. n - l + l = n /\ row # <<>> /\ Last(text) = text[l]
    BY <1>1, <1>2 DEF Last
  <2>2. row[n].char = text[l] /\ NextX(row[n]) = x
    BY <1>2, <1>3, <2>1
  <2> QED
    BY <1>1, <2>1, <2>2 DEF EndsWith
<1>5. PICK before, shorter : before = Front(row) /\ shorter = Front(text)
  OBVIOUS
<1>6. /\ before = [i \in 1 .. n - 1 |-> row[i]] /\ shorter = [i \in 1 .. l - 1 |-> text[i]]
      /\ Len(before) = n - 1 /\ Len(shorter) = l - 1 /\ DOMAIN shorter = 1 .. l - 1
      /\ \A i \in 1 .. n - 1 : before[i] = row[i]
      /\ \A i \in 1 .. l - 1 : shorter[i] = text[i]
  BY <1>1, <1>2, <1>5 DEF Front
<1>7. ASSUME NEW i \in 1 .. l - 1
      PROVE  /\ before[n - l + i].char = shorter[i]
             /\ i = l - 1 => NextX(before[n - l + i]) = row[n].x
             /\ i # l - 1 => NextX(before[n - l + i]) = before[n - l + i + 1].x
  <2>1. PICK j : j = n - l + i
    OBVIOUS
  <2>2. j \in 1 .. n - 1 /\ i \in 1 .. l /\ i # l
    BY <1>2, <2>1
  <2>3. before[j] = row[j] /\ shorter[i] = text[i]
    BY <1>6, <2>2
  <2>4. row[j].char = text[i] /\ NextX(row[j]) = row[j + 1].x
    BY <1>3, <2>1, <2>2
  <2>5. i = l - 1 => j + 1 = n
    BY <1>2, <2>1
  <2>6. i # l - 1 => before[j + 1] = row[j + 1]
    <3>1. i # l - 1 => j + 1 \in 1 .. n - 1
      BY <1>2, <2>1
    <3> QED
      BY <1>6, <3>1
  <2> QED
    BY <2>1, <2>3, <2>4, <2>5, <2>6
<1>8. Stands(before, shorter, row[n].x)
  <2>1. (n - 1) - (l - 1) = n - l /\ l - 1 <= n - 1
    BY <1>2
  <2>2. PICK a : a = row[n].x
    OBVIOUS
  <2>3. \A i \in 1 .. l - 1 :
          /\ before[n - l + i].char = shorter[i]
          /\ NextX(before[n - l + i]) = IF i = l - 1 THEN a ELSE before[n - l + i + 1].x
    BY <1>7, <2>2
  <2>4. Stands(before, shorter, a)
    <3>1. /\ Len(before) - Len(shorter) = n - l /\ Len(shorter) <= Len(before)
          /\ DOMAIN shorter = 1 .. l - 1 /\ Len(shorter) = l - 1
      BY <1>6, <2>1
    <3> QED
      BY <2>3, <3>1 DEF Stands
  <2> QED
    BY <2>2, <2>4
<1> QED
  BY <1>1, <1>4, <1>5, <1>8

-----------------------------------------------------------------------------
(* The console: tabs *)

(* A tab on its way to a stop that it can reach, at x after n spaces: on its*)
(* own row, or on the next one since it wrapped.                            *)
TabGoes(x, to, n) ==
  \/ to = 0 /\ n = 0
  \/ \E m \in Nat \ {0} :
       /\ to = m * SpaceWidth
       /\ to <= Width - FontWidth + SpaceWidth =>
            \/ n <= TabSize /\ to <= x + (TabSize - n) * SpaceWidth
            \/ \E j \in 0 .. m : x = j * SpaceWidth /\ n <= TabSize + j

(* The stop is a multiple of the width of a space, and not further than the *)
(* spaces of a tab.                                                         *)
LEMMA TabStarts ==
  ASSUME NEW k, k.x \in Xs
  PROVE  nextTab(k) \in Nat /\ TabGoes(k.x, nextTab(k), 0)
<1>1. PICK x, S, T : x = k.x /\ S = SpaceWidth /\ T = TabSize
  OBVIOUS
<1>2. x \in Nat /\ S \in Nat \ {0} /\ T \in Nat \ {0}
  BY <1>1, ConsoleAssumption, FramebufferAssumption DEF Xs
<1>3. PICK w : w = S * T
  OBVIOUS
<1>4. w \in Nat \ {0}
  BY <1>2, <1>3, Z3
<1>5. PICK u : u = x \div w
  OBVIOUS
<1>6. u \in Nat /\ x < (u + 1) * w /\ u * w <= x
  BY <1>2, <1>4, <1>5, Z3
<1>7. nextTab(k) = (u + 1) * w
  BY <1>1, <1>3, <1>5 DEF nextTab
<1>8. PICK m : m = (u + 1) * T
  OBVIOUS
<1>9. m \in Nat \ {0} /\ (u + 1) * w = m * S
  BY <1>2, <1>3, <1>6, <1>8, Z3
<1>10. (u + 1) * w <= x + w /\ (u + 1) * w \in Nat
  BY <1>2, <1>4, <1>6, Z3
<1>11. (T - 0) * S = w
  BY <1>2, <1>3, Z3
<1>12. PICK to : to = nextTab(k)
  OBVIOUS
<1>13. to \in Nat /\ to = m * S /\ to <= x + (T - 0) * S
  BY <1>7, <1>9, <1>10, <1>11, <1>12
<1>14. TabGoes(x, to, 0)
  BY <1>1, <1>2, <1>9, <1>13 DEF TabGoes
<1> QED
  BY <1>1, <1>12, <1>13, <1>14

(* One more space.                                                          *)
LEMMA TabContinues ==
  ASSUME NEW x \in Xs, NEW to \in Nat, NEW n \in Nat, to # 0, x < to, TabGoes(x, to, n),
         NEW y, y = SpaceWidth + (IF x + FontWidth > Width THEN 0 ELSE x),
         NEW s \in Nat, s <= n + 1
  PROVE  TabGoes(y, to, s)
<1>1. PICK S, T : S = SpaceWidth /\ T = TabSize
  OBVIOUS
<1>2. /\ x \in Nat /\ S \in Nat \ {0} /\ T \in Nat \ {0} /\ Width \in Nat /\ FontWidth \in Nat
  BY <1>1, ConsoleAssumption, FramebufferAssumption DEF Xs
<1>3. PICK m \in Nat \ {0} :
        /\ to = m * S
        /\ to <= Width - FontWidth + S =>
             \/ n <= T /\ to <= x + (T - n) * S
             \/ \E j \in 0 .. m : x = j * S /\ n <= T + j
  BY <1>1 DEF TabGoes
<1>4. ASSUME to <= Width - FontWidth + S
      PROVE  \/ s <= T /\ to <= y + (T - s) * S
             \/ \E j \in 0 .. m : y = j * S /\ s <= T + j
  <2>1. CASE n <= T /\ to <= x + (T - n) * S
    <3>1. PICK a, b : a = (T - n) * S /\ b = (T - s) * S
      OBVIOUS
    <3>2. n # T
      BY <1>2, <2>1
    <3>3. s <= T /\ s \in Nat /\ n \in Nat
      BY <1>2, <2>1, <3>2
    <3>4. a <= b + S
      BY <1>2, <3>1, <3>3, Z3
    <3>5. a \in Int /\ b \in Int
      BY <1>2, <3>1, <3>3
    <3>6. CASE x + FontWidth > Width
      <4>1. y = S /\ 1 * S = S /\ 1 \in 0 .. m /\ s <= T + 1
        BY <1>1, <1>2, <3>3, <3>6
      <4> QED
        BY <4>1
    <3>7. CASE ~(x + FontWidth > Width)
      <4>1. y = S + x
        BY <1>1, <3>7
      <4>2. to <= y + b
        BY <1>2, <2>1, <3>1, <3>4, <3>5, <4>1
      <4> QED
        BY <3>1, <3>3, <4>2
    <3> QED
      BY <3>6, <3>7
  <2>2. ASSUME NEW j \in 0 .. m, x = j * S, n <= T + j
        PROVE  \E i \in 0 .. m : y = i * S /\ s <= T + i
    <3>1. j < m
      BY <1>2, <1>3, <2>2, Z3
    <3>2. (j + 1) * S = x + S /\ (j + 1) * S <= to
      BY <1>2, <1>3, <2>2, <3>1, Z3
    <3>3. y = x + S
      BY <1>1, <1>2, <1>4, <3>2
    <3>4. j + 1 \in 0 .. m /\ y = (j + 1) * S /\ s <= T + (j + 1)
      BY <1>2, <2>2, <3>1, <3>2, <3>3
    <3> QED
      BY <3>4
  <2> QED
    BY <1>3, <1>4, <2>1, <2>2
<1> QED
  BY <1>1, <1>3, <1>4 DEF TabGoes

(* The spaces are its own and, if it wraps, those of the next row.          *)
LEMMA TabEnds ==
  ASSUME NEW x \in Xs, NEW to \in Nat, NEW n \in Nat, TabGoes(x, to, n),
         to <= Width - FontWidth + SpaceWidth
  PROVE  (n - TabSize) * SpaceWidth <= to
<1>1. PICK S, T : S = SpaceWidth /\ T = TabSize
  OBVIOUS
<1>2. S \in Nat \ {0} /\ T \in Nat \ {0}
  BY <1>1, ConsoleAssumption
<1>3. CASE n <= T
  BY <1>1, <1>2, <1>3, Z3
<1>4. CASE ~(n <= T)
  <2>1. PICK m \in Nat \ {0} : to = m * S /\ n <= T + m
    BY <1>1, <1>2, <1>4 DEF TabGoes
  <2>2. (n - T) * S <= m * S
    BY <1>2, <2>1, Z3
  <2> QED
    BY <1>1, <2>1, <2>2
<1> QED
  BY <1>3, <1>4

-----------------------------------------------------------------------------
(* The console: its invariant *)

(* What holds between the steps: the screen is as Good says, a tab goes on  *)
(* its way, and while the line being read has stayed on its row it stands   *)
(* there.                                                                   *)
ConsoleInv ==
  /\ Sound(console) /\ console.x \in Xs
  /\ tabTo \in Nat /\ spaces \in Nat /\ TabGoes(console.x, tabTo, spaces)
  /\ straight \in BOOLEAN
  /\ typed = NoLine \/ typed \in Seq(Chars \cup {"tab"})
  /\ typed # NoLine /\ straight =>
       NoTab /\ Stands(console.shown[console.y], typed, console.x)

(* The parts of a console that the invariant speaks of.                     *)
LEMMA SoundParts ==
  ASSUME NEW k, Sound(k)
  PROVE  /\ k.y \in 0 .. rows - 1 /\ k.drawn \in BOOLEAN
         /\ k.shown \in [0 .. rows - 1 -> Seq(Shows)] /\ k.shown[k.y] \in Seq(Shows)
<1>1. k \in Consoles
  BY DEF Sound
<1>2. k.y \in 0 .. rows - 1 /\ k.drawn \in BOOLEAN /\ k.shown \in [0 .. rows - 1 -> Seq(Shows)]
  BY <1>1 DEF Consoles
<1> QED
  BY <1>2

(* Without a tab there is nothing to go on.                                 *)
LEMMA NoTabGoes ==
  ASSUME NEW x, NEW y, TabGoes(x, 0, spaces)
  PROVE  spaces = 0 /\ TabGoes(y, 0, spaces)
<1>1. \A m \in Nat \ {0} : 0 # m * SpaceWidth
  BY ConsoleAssumption, Z3
<1> QED
  BY <1>1 DEF TabGoes

(* At first the screen is blank.                                            *)
LEMMA ConsoleInitInv ==
  ASSUME ConsoleInit
  PROVE  ConsoleInv
<1>1. Sound(console) /\ console.x \in Xs
  BY ClearedSound DEF ConsoleInit
<1> QED
  BY <1>1 DEF ConsoleInit, ConsoleInv, TabGoes

(* A character is printed.                                                  *)
LEMMA PrintKeeps ==
  ASSUME ConsoleInv, NEW c \in Chars, print(c)
  PROVE  ConsoleInv'
<1>1. /\ Sound(console) /\ console.x \in Xs /\ tabTo = 0 /\ spaces \in Nat
      /\ TabGoes(console.x, 0, spaces) /\ straight \in BOOLEAN /\ typed = NoLine
  BY DEF ConsoleInv, print, NoTab
<1>2. Sound(console') /\ console'.x \in Xs
  BY <1>1, PutCharSound DEF print, Echo
<1>3. /\ tabTo' = 0 /\ spaces' = spaces /\ typed' = NoLine /\ straight' \in BOOLEAN
  BY <1>1 DEF print, Echo
<1>4. TabGoes(console'.x, 0, spaces)
  BY <1>1, NoTabGoes
<1> QED
  BY <1>1, <1>2, <1>3, <1>4 DEF ConsoleInv

(* A new row is printed, or the screen is cleared.                          *)
LEMMA RenewKeeps ==
  ASSUME ConsoleInv, printNewline \/ clearConsole
  PROVE  ConsoleInv'
<1>1. /\ Sound(console) /\ tabTo = 0 /\ spaces \in Nat /\ typed = NoLine
      /\ TabGoes(console.x, 0, spaces) /\ straight \in BOOLEAN
      /\ UNCHANGED <<tabTo, spaces, typed, straight>>
  BY DEF ConsoleInv, printNewline, clearConsole, NoTab
<1>2. Sound(console') /\ console'.x \in Xs
  BY <1>1, PutNewlineSound, ClearedSound DEF printNewline, clearConsole
<1>3. TabGoes(console'.x, 0, spaces)
  BY <1>1, NoTabGoes
<1> QED
  BY <1>1, <1>2, <1>3 DEF ConsoleInv

(* A tab begins, printed or typed.                                          *)
LEMMA TabBegins ==
  ASSUME ConsoleInv, Tab, typed' = NoLine \/ typed' \in Seq(Chars \cup {"tab"}),
         straight' \in BOOLEAN, typed' = NoLine \/ ~straight'
  PROVE  ConsoleInv'
<1>1. Sound(console) /\ console.x \in Xs
  BY DEF ConsoleInv
<1>2. Sound(console') /\ console'.x = console.x
  BY <1>1, EraseSound DEF Tab
<1>3. tabTo' = nextTab(console) /\ spaces' = 0
  BY DEF Tab
<1>4. nextTab(console) \in Nat /\ TabGoes(console.x, nextTab(console), 0)
  BY <1>1, TabStarts
<1>5. TabGoes(console'.x, tabTo', spaces')
  BY <1>2, <1>3, <1>4, Zenon
<1>6. tabTo' \in Nat /\ spaces' \in Nat /\ console'.x \in Xs
  BY <1>1, <1>2, <1>3, <1>4
<1> QED
  BY <1>2, <1>5, <1>6 DEF ConsoleInv

(* A space of a tab.                                                        *)
LEMMA TabSpaceKeeps ==
  ASSUME ConsoleInv, tabSpace
  PROVE  ConsoleInv'
<1>1. /\ Sound(console) /\ console.x \in Xs /\ tabTo \in Nat /\ spaces \in Nat
      /\ tabTo # 0 /\ console.x < tabTo /\ TabGoes(console.x, tabTo, spaces)
      /\ straight \in BOOLEAN
      /\ typed = NoLine \/ typed \in Seq(Chars \cup {"tab"})
      /\ UNCHANGED <<tabTo, typed, straight>>
  BY DEF ConsoleInv, tabSpace, NoTab
<1>2. typed = NoLine \/ ~straight
  BY DEF ConsoleInv, tabSpace, NoTab
<1>3. SpaceChar \in Chars /\ glyphAdvance(SpaceChar) = SpaceWidth /\ SpaceWidth < FontWidth
  BY ConsoleAssumption, FramebufferAssumption DEF Chars, glyphAdvance
<1>4. console' = putChar(console, SpaceChar)
  BY DEF tabSpace
<1>5. /\ Sound(console') /\ console'.x \in Xs
      /\ console'.x = SpaceWidth + (IF console.x + FontWidth > Width THEN 0 ELSE console.x)
  BY <1>1, <1>3, <1>4, PutCharSound
<1>6. spaces' \in Nat /\ spaces' <= spaces + 1
  <2>1. spaces' = Least(spaces + 1, TooMany)
    BY DEF tabSpace
  <2>2. TooMany \in Nat
    BY ConsoleAssumption, FramebufferAssumption DEF TooMany
  <2> QED
    BY <1>1, <2>1, <2>2 DEF Least
<1>7. PICK x, y, to, n, s : x = console.x /\ y = console'.x /\ to = tabTo /\ n = spaces /\ s = spaces'
  OBVIOUS
<1>8. TabGoes(y, to, s)
  <2>1. /\ x \in Xs /\ to \in Nat /\ n \in Nat /\ to # 0 /\ x < to /\ TabGoes(x, to, n)
        /\ s \in Nat /\ s <= n + 1
        /\ y = SpaceWidth + (IF x + FontWidth > Width THEN 0 ELSE x)
    BY <1>1, <1>5, <1>6, <1>7
  <2> QED
    BY <2>1, TabContinues
<1>9. TabGoes(console'.x, tabTo', spaces')
  BY <1>1, <1>7, <1>8
<1> QED
  BY <1>1, <1>2, <1>5, <1>6, <1>9 DEF ConsoleInv

(* A tab ends.                                                              *)
LEMMA TabReachedKeeps ==
  ASSUME ConsoleInv, tabReached
  PROVE  ConsoleInv'
<1>1. /\ Sound(console) /\ console.x \in Xs /\ straight \in BOOLEAN
      /\ typed = NoLine \/ typed \in Seq(Chars \cup {"tab"})
      /\ typed = NoLine \/ ~straight
      /\ tabTo' = 0 /\ spaces' = 0 /\ UNCHANGED <<typed, straight>>
  BY DEF ConsoleInv, tabReached, NoTab
<1>2. Sound(console') /\ console'.x \in Xs
  BY <1>1, DrawSound DEF tabReached
<1>3. TabGoes(console'.x, 0, 0)
  BY DEF TabGoes
<1> QED
  BY <1>1, <1>2, <1>3 DEF ConsoleInv

(* A line begins or ends.                                                   *)
LEMMA LineKeeps ==
  ASSUME ConsoleInv, getLine \/ typeEnter
  PROVE  ConsoleInv'
<1>1. /\ Sound(console) /\ console.x \in Xs /\ tabTo = 0 /\ spaces \in Nat
      /\ TabGoes(console.x, 0, spaces) /\ UNCHANGED <<tabTo, spaces>> /\ straight' = TRUE
  BY DEF ConsoleInv, getLine, typeEnter, NoTab
<1>2. CASE getLine
  <2>1. console' = console /\ typed' = <<>>
    BY <1>2 DEF getLine
  <2>2. Stands(console.shown[console.y], <<>>, console.x)
    BY <1>1, SoundParts, StandsEmpty
  <2>3. typed' \in Seq(Chars \cup {"tab"})
    BY <2>1
  <2> QED
    BY <1>1, <2>1, <2>2, <2>3 DEF ConsoleInv, NoTab
<1>3. CASE typeEnter
  <2>1. console' = putNewline(console) /\ typed' = NoLine
    BY <1>3 DEF typeEnter
  <2>2. Sound(console') /\ console'.x \in Xs
    BY <1>1, <2>1, PutNewlineSound
  <2>3. TabGoes(console'.x, 0, spaces)
    BY <1>1, NoTabGoes
  <2> QED
    BY <1>1, <2>1, <2>2, <2>3 DEF ConsoleInv
<1> QED
  BY <1>2, <1>3

(* A character is typed: what was straight stays so only if it stood on the *)
(* cursor's row.                                                            *)
LEMMA TypeCharKeeps ==
  ASSUME ConsoleInv, NEW c \in Chars, typeChar(c)
  PROVE  ConsoleInv'
<1>1. /\ Sound(console) /\ console.x \in Xs /\ tabTo = 0 /\ spaces \in Nat
      /\ TabGoes(console.x, 0, spaces) /\ straight \in BOOLEAN
      /\ typed # NoLine /\ typed \in Seq(Chars \cup {"tab"})
      /\ UNCHANGED <<tabTo, spaces>> /\ typed' = Append(typed, c)
  BY DEF ConsoleInv, typeChar, NoTab
<1>2. /\ console' = putChar(console, c)
      /\ straight' = (straight /\ console'.x = console.x + glyphAdvance(c))
  BY DEF typeChar, Echo
<1>3. /\ Sound(console') /\ console'.x \in Xs
      /\ console'.x = console.x + glyphAdvance(c) =>
           /\ console'.y = console.y
           /\ console'.shown = [console.shown EXCEPT
                                  ![console.y] = Append(@, [char |-> c, x |-> console.x])]
  BY <1>1, <1>2, PutCharSound
<1>4. TabGoes(console'.x, 0, spaces)
  BY <1>1, NoTabGoes
<1>5. typed' \in Seq(Chars \cup {"tab"}) /\ straight' \in BOOLEAN
  BY <1>1, <1>2
<1>6. ASSUME straight' PROVE Stands(console'.shown[console'.y], typed', console'.x)
  <2>1. straight /\ console'.x = console.x + glyphAdvance(c)
    BY <1>2, <1>6
  <2>2. PICK x, row : x = console.x /\ row = console.shown[console.y]
    OBVIOUS
  <2>3. row \in Seq(Shows) /\ Stands(row, typed, x)
    BY <1>1, <2>1, <2>2, SoundParts DEF ConsoleInv
  <2>4. Stands(Append(row, [char |-> c, x |-> x]), Append(typed, c), x + glyphAdvance(c))
    BY <1>1, <2>3, StandsLonger
  <2>5. console'.shown[console'.y] = Append(row, [char |-> c, x |-> x])
    BY <1>1, <1>3, <2>1, <2>2, SoundParts
  <2> QED
    BY <1>1, <2>1, <2>2, <2>4, <2>5, Zenon
<1> QED
  BY <1>1, <1>3, <1>4, <1>5, <1>6 DEF ConsoleInv, NoTab

(* A character is taken back.                                               *)
LEMMA TypeBackspaceKeeps ==
  ASSUME ConsoleInv, typeBackspace
  PROVE  ConsoleInv'
<1>1. /\ Sound(console) /\ console.x \in Xs /\ tabTo = 0 /\ spaces \in Nat
      /\ TabGoes(console.x, 0, spaces) /\ straight \in BOOLEAN
      /\ typed # NoLine /\ typed # <<>> /\ typed \in Seq(Chars \cup {"tab"})
      /\ UNCHANGED <<tabTo, spaces, straight>> /\ typed' = Front(typed)
  BY DEF ConsoleInv, typeBackspace, NoTab
<1>2. PICK c, x, row : c = Last(typed) /\ x = console.x /\ row = console.shown[console.y]
  OBVIOUS
<1>3. row \in Seq(Shows)
  BY <1>1, <1>2, SoundParts
<1>4. straight => EndsWith(row, c, x) /\ Stands(Front(row), Front(typed), row[Len(row)].x)
  <2>1. straight => Stands(row, typed, x)
    BY <1>1, <1>2 DEF ConsoleInv
  <2> QED
    BY <1>1, <1>2, <1>3, <2>1, StandsShorter
<1>5. console' = backspace(console, c)
  BY <1>2 DEF typeBackspace
<1>6. /\ Sound(console') /\ console'.x \in Xs
      /\ straight => /\ console'.x = row[Len(row)].x /\ console'.y = console.y
                     /\ console'.shown[console.y] = Front(row)
  BY <1>1, <1>2, <1>4, <1>5, BackspaceSound
<1>7. TabGoes(console'.x, 0, spaces)
  BY <1>1, NoTabGoes
<1>8. typed' \in Seq(Chars \cup {"tab"})
  <2>1. typed' = [i \in 1 .. Len(typed) - 1 |-> typed[i]]
    BY <1>1 DEF Front
  <2>2. Len(typed) - 1 \in Nat /\ \A i \in 1 .. Len(typed) - 1 : typed[i] \in Chars \cup {"tab"}
    BY <1>1
  <2> QED
    BY <2>1, <2>2
<1>9. straight' => Stands(console'.shown[console'.y], typed', console'.x)
  BY <1>1, <1>4, <1>6
<1> QED
  BY <1>1, <1>6, <1>7, <1>8, <1>9 DEF ConsoleInv, NoTab

(* The cursor blinks.                                                       *)
LEMMA CursorKeeps ==
  ASSUME ConsoleInv, updateCursor
  PROVE  ConsoleInv'
<1>1. /\ Sound(console) /\ console.x \in Xs /\ tabTo = 0
      /\ UNCHANGED <<tabTo, spaces, typed, straight>>
  BY DEF ConsoleInv, updateCursor, NoTab
<1>2. /\ Sound(console') /\ console'.x = console.x /\ console'.y = console.y
      /\ console'.shown = console.shown
  <2>1. CASE console.drawn
    BY <1>1, <2>1, EraseSound DEF updateCursor
  <2>2. CASE ~console.drawn
    BY <1>1, <2>2, DrawSound DEF updateCursor
  <2> QED
    BY <2>1, <2>2
<1> QED
  BY <1>1, <1>2 DEF ConsoleInv, NoTab

(* Every step of the console keeps its invariant.                           *)
LEMMA ConsoleStepInv ==
  ASSUME ConsoleInv, [ConsoleNext]_consoleVars
  PROVE  ConsoleInv'
<1>1. CASE \E c \in Chars : print(c) \/ typeChar(c)
  BY <1>1, PrintKeeps, TypeCharKeeps
<1>2. CASE printNewline \/ clearConsole
  BY <1>2, RenewKeeps
<1>3. CASE printTab
  BY <1>3, TabBegins DEF ConsoleInv, printTab
<1>4. CASE typeTab
  <2>1. typed \in Seq(Chars \cup {"tab"}) /\ typed' = Append(typed, "tab") /\ straight' = FALSE
    BY <1>4 DEF ConsoleInv, typeTab
  <2>2. typed' \in Seq(Chars \cup {"tab"})
    BY <2>1
  <2> QED
    BY <1>4, <2>1, <2>2, TabBegins DEF typeTab
<1>5. CASE tabSpace
  BY <1>5, TabSpaceKeeps
<1>6. CASE tabReached
  BY <1>6, TabReachedKeeps
<1>7. CASE getLine \/ typeEnter
  BY <1>7, LineKeeps
<1>8. CASE typeBackspace
  BY <1>8, TypeBackspaceKeeps
<1>9. CASE updateCursor
  BY <1>9, CursorKeeps
<1>10. CASE UNCHANGED consoleVars
  BY <1>10 DEF consoleVars, ConsoleInv, NoTab
<1> QED
  BY <1>1, <1>2, <1>3, <1>4, <1>5, <1>6, <1>7, <1>8, <1>9, <1>10 DEF ConsoleNext

(* What the invariant says of the screen.                                   *)
LEMMA InvShowsText ==
  ASSUME ConsoleInv
  PROVE  ScreenShowsText
<1>1. Sound(console) /\ console.x \in Xs /\ tabTo \in Nat /\ spaces \in Nat
      /\ TabGoes(console.x, tabTo, spaces)
  BY DEF ConsoleInv
<1>2. Inked(console.pixels, console.shown)
      /\ CursorOnly(console.pixels, console.x, console.y, console.drawn)
  BY <1>1 DEF Sound, Good
<1>3. GlyphsVisible
  BY <1>2 DEF Inked, GlyphsVisible
<1>4. OneCursor
  BY <1>1, <1>2, SoundParts DEF CursorOnly, OneCursor
<1>5. LineVisible
  <2>1. typed # NoLine /\ straight => Stands(console.shown[console.y], typed, console.x)
    BY DEF ConsoleInv
  <2>2. SUFFICES ASSUME typed # NoLine, straight PROVE LineVisible
    BY DEF LineVisible
  <2>3. PICK row : row = console.shown[console.y]
    OBVIOUS
  <2>4. Stands(row, typed, console.x) /\ row \in Seq(Shows)
        /\ typed \in Seq(Chars \cup {"tab"})
    BY <1>1, <2>1, <2>2, <2>3, SoundParts DEF ConsoleInv
  <2>5. Len(row) - Len(typed) >= 0
    BY <2>4 DEF Stands
  <2> QED
    BY <2>3, <2>4, <2>5 DEF LineVisible, Stands
<1>6. TabsEnd
  BY <1>1, TabEnds DEF TabsEnd
<1> QED
  BY <1>3, <1>4, <1>5, <1>6 DEF ScreenShowsText

(* What was printed and what is being typed can be read on the screen,      *)
(* though cells overlap, rows scroll up and a cursor blinks over them; and a*)
(* tab ends whose stop can be reached (putChar, backspace, scroll and       *)
(* updateCursor of FramebufferConsole).                                     *)
THEOREM ScreenHolds == ConsoleSpec => []ScreenShowsText
<1>1. ConsoleInit => ConsoleInv
  BY ConsoleInitInv
<1>2. ConsoleInv /\ [ConsoleNext]_consoleVars => ConsoleInv'
  BY ConsoleStepInv
<1>3. ConsoleInv => ScreenShowsText
  BY InvShowsText
<1> QED
  BY <1>1, <1>2, <1>3, PTL DEF ConsoleSpec
=============================================================================
