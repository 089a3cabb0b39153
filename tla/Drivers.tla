------------------------------- MODULE Drivers -------------------------------
(***************************************************************************)
(* Devices, drivers and their binding: kernel/drivers/drivers.cpp, with    *)
(* the probe, start and stop of the three drivers there are (pit.cpp,      *)
(* keyboard.cpp, ata.cpp).                                                 *)
(*                                                                         *)
(* A registration appends to a list and then walks the other list,         *)
(* offering the newcomer around; one turn of that loop is one action,      *)
(* because a driver that starts may itself register devices and so lengthen*)
(* the list being walked.  At boot the calls come in the order of          *)
(* core::initSystems and drivers::init; here they come in every order.     *)
(***************************************************************************)
EXTENDS Integers, Sequences, FiniteSets, SequencesExt

CONSTANTS
  Timers, Inputs, IDEs, Others,   (* the devices that kernel code registers *)
  Drives,      (* the positions of a disk, in the order they are looked at  *)
  MaxDevices,
  MaxDrivers,
  MaxStarts,   (* bound: how often the ATA driver starts                    *)
  NULL

Drivers == {"time", "keyboard", "ata"}
Permanent == Timers \cup Inputs \cup IDEs \cup Others

(* The disk objects that ATADriver::start creates, per controller, position *)
(* and start; never deleted.                                                *)
Disks == [parent : IDEs, drive : {Drives[i] : i \in DOMAIN Drives},
          start : 1 .. MaxStarts]
Devices == Permanent \cup Disks

ASSUME LimitAssumption ==
  /\ MaxDevices \in Nat /\ MaxDrivers \in Nat /\ MaxStarts \in Nat
  /\ NULL \notin Devices \cup Drivers

(* The kernel has one timer and one keyboard; with two, a stop of one would *)
(* take the handler of both.                                                *)
ASSUME KindAssumption ==
  /\ \A d, e \in Timers : d = e
  /\ \A d, e \in Inputs : d = e
  /\ Timers \cap Inputs = {}
  /\ (Timers \cup Inputs) \cap IDEs = {}
  /\ Permanent \cap Disks = {}

VARIABLES
  devices,    (* DeviceManager::devices, of which the first s_deviceCount   *)
  drivers,    (* DriverManager::drivers                                     *)
  driver,     (* device -> its driver, or NULL                              *)
  state,      (* driver -> DriverState                                      *)
  irqs,       (* interrupts with an installed handler                       *)
  starts,     (* starts of the ATA driver so far                            *)
  call,       (* the tryBind in progress: whose, and the next index         *)
  refused     (* ghost: [driver, device] where start failed                 *)

vars == <<devices, drivers, driver, state, irqs, starts, call, refused>>

States == {"Created", "Registered", "Probing", "Active", "Failed", "Stopping"}

Idle == [op |-> "idle", subject |-> NULL, i |-> 0]

Listed(list) == {list[i] : i \in DOMAIN list}

probe(r, d) ==
  \/ r = "time" /\ d \in Timers
  \/ r = "keyboard" /\ d \in Inputs
  \/ r = "ata" /\ d \in IDEs

Init ==
  /\ devices = <<>>
  /\ drivers = <<>>
  /\ driver = [d \in Devices |-> NULL]
  /\ state = [r \in Drivers |-> "Created"]
  /\ irqs = {}
  /\ starts = 0
  /\ call = Idle
  /\ refused = {}

-----------------------------------------------------------------------------
(* start *)

Irq(r) == IF r = "time" THEN {0} ELSE IF r = "keyboard" THEN {1} ELSE {}

(* Which positions answer IDENTIFY, in the order they are looked at, and    *)
(* the disks found there.                                                   *)
AnsweringDrives ==
  UNION {{at \in [1 .. n -> DOMAIN Drives] : \A i, j \in 1 .. n : i < j => at[i] < at[j]}
         : n \in 0 .. Len(Drives)}

Found(d, at) ==
  [i \in DOMAIN at |-> [parent |-> d, drive |-> Drives[at[i]], start |-> starts + 1]]

(* registerDevice of each disk; those that find the list full stay out of   *)
(* it.  A disk has its driver already, so tryBind leaves it alone.          *)
WithDisks(disks) ==
  SubSeq(devices \o disks, 1,
         IF Len(devices \o disks) <= MaxDevices THEN Len(devices \o disks)
         ELSE MaxDevices)

(* Driver r is offered device d, which it has probed. *)
StartsIrq(r, d) ==
  /\ irqs' = irqs \cup Irq(r)
  /\ driver' = [driver EXCEPT ![d] = r]
  /\ state' = [state EXCEPT ![r] = "Active"]
  /\ UNCHANGED <<devices, starts, refused>>

StartsDisks(r, d) ==
  /\ starts < MaxStarts
  /\ starts' = starts + 1
  /\ \E at \in AnsweringDrives :
       LET disks == Found(d, at)
       IN  /\ devices' = WithDisks(disks)
           /\ driver' = [e \in Devices |->
                IF e \in Disks \cap Listed(disks) \/ (e = d /\ disks # <<>>) THEN r
                ELSE driver[e]]
           /\ state' = [state EXCEPT ![r] = IF disks # <<>> THEN "Active" ELSE "Failed"]
           /\ refused' = IF disks # <<>> THEN refused
                         ELSE refused \cup {[driver |-> r, device |-> d]}
  /\ UNCHANGED irqs

Offer(r, d) ==
  \/ /\ ~probe(r, d)
     /\ state' = [state EXCEPT ![r] = "Registered"]
     /\ UNCHANGED <<devices, driver, irqs, starts, refused>>
  \/ probe(r, d) /\ d \notin IDEs /\ StartsIrq(r, d)
  \/ probe(r, d) /\ d \in IDEs /\ StartsDisks(r, d)

-----------------------------------------------------------------------------
(* The loops of tryBind *)

Advance == [call EXCEPT !.i = @ + 1]

(* Mutant: only the first driver is asked. *)
TryDriverOnce ==
  /\ call.op = "device"
  /\ call.i <= Len(drivers)
  /\ Offer(drivers[call.i], call.subject)
  /\ call' = Idle
  /\ UNCHANGED drivers

(* tryBind(Device&): until a driver takes it. *)
TryDriver ==
  /\ call.op = "device"
  /\ call.i <= Len(drivers)
  /\ Offer(drivers[call.i], call.subject)
  /\ call' = IF driver'[call.subject] # NULL THEN Idle ELSE Advance
  /\ UNCHANGED drivers

(* tryBind(Driver&): all devices without a driver; the list may have grown. *)
TryDevice ==
  /\ call.op = "driver"
  /\ call.i <= Len(devices)
  /\ IF driver[devices[call.i]] = NULL
     THEN Offer(call.subject, devices[call.i])
     ELSE UNCHANGED <<devices, driver, state, irqs, starts, refused>>
  /\ call' = Advance
  /\ UNCHANGED drivers

Done ==
  /\ call # Idle
  /\ call.i > Len(IF call.op = "device" THEN drivers ELSE devices)
  /\ call' = Idle
  /\ UNCHANGED <<devices, drivers, driver, state, irqs, starts, refused>>

tryBind == TryDriver \/ TryDevice \/ Done

-----------------------------------------------------------------------------
(* The calls.  One that finds its list full, or what it adds on it already, *)
(* does nothing.                                                            *)

(* The bound on starts: room for one start of each controller, so that no   *)
(* walk meets it.                                                           *)
StartsLeft == starts + Cardinality(IDEs) <= MaxStarts

registerDevice(d) ==
  /\ call = Idle
  /\ d \notin Listed(devices)
  /\ d \in IDEs => StartsLeft
  /\ Len(devices) < MaxDevices
  /\ devices' = Append(devices, d)
  /\ call' = IF driver[d] # NULL THEN Idle
             ELSE [op |-> "device", subject |-> d, i |-> 1]
  /\ UNCHANGED <<drivers, driver, state, irqs, starts, refused>>

registerDriver(r) ==
  /\ call = Idle
  /\ r \notin Listed(drivers)
  /\ r = "ata" => StartsLeft
  /\ Len(drivers) < MaxDrivers
  /\ drivers' = Append(drivers, r)
  /\ state' = [state EXCEPT ![r] = "Registered"]
  /\ call' = [op |-> "driver", subject |-> r, i |-> 1]
  /\ UNCHANGED <<devices, driver, irqs, starts, refused>>

(* Mutant: the handlers stay installed. *)
StoppedNone(S) == irqs

(* The handlers that are left when the devices in S are stopped. *)
Stopped(S) == irqs \ UNION {Irq(driver[d]) : d \in S}

(* unbind, of all devices in S: stop, and whatever state that left the      *)
(* driver in, it is Registered.                                             *)
unbind(S) ==
  /\ irqs' = Stopped(S)
  /\ driver' = [d \in Devices |-> IF d \in S THEN NULL ELSE driver[d]]

UnboundState(S) ==
  [r \in Drivers |-> IF \E d \in S : driver[d] = r THEN "Registered" ELSE state[r]]

BoundTo(r) == {d \in Devices : d \in Listed(devices) /\ driver[d] = r}

unregisterDevice(d) ==
  LET S == IF driver[d] = NULL THEN {} ELSE {d}
  IN  /\ call = Idle
      /\ unbind(S)
      /\ state' = UnboundState(S)
      /\ \E i \in DOMAIN devices : devices[i] = d /\ devices' = RemoveAt(devices, i)
      /\ refused' = {x \in refused : x.device # d}
      /\ UNCHANGED <<drivers, starts, call>>

unregisterDriver(r) ==
  /\ call = Idle
  /\ unbind(BoundTo(r))
  /\ state' = [state EXCEPT ![r] = "Stopping"]
  /\ \E i \in DOMAIN drivers : drivers[i] = r /\ drivers' = RemoveAt(drivers, i)
  /\ refused' = {x \in refused : x.driver # r}
  /\ UNCHANGED <<devices, starts, call>>

Next ==
  \/ tryBind
  \/ \E d \in Permanent : registerDevice(d)
  \/ \E r \in Drivers : registerDriver(r)
  \/ \E d \in Devices : unregisterDevice(d)
  \/ \E r \in Drivers : unregisterDriver(r)

Spec == Init /\ [][Next]_vars

-----------------------------------------------------------------------------
(* Properties *)

(* The lists stay within their arrays and name nobody twice, and the walk   *)
(* in progress is within one of them.                                       *)
TypeOK ==
  /\ devices \in Seq(Devices) /\ Len(devices) <= MaxDevices
  /\ drivers \in Seq(Drivers) /\ Len(drivers) <= MaxDrivers
  /\ \A i, j \in DOMAIN devices : devices[i] = devices[j] => i = j
  /\ \A i, j \in DOMAIN drivers : drivers[i] = drivers[j] => i = j
  /\ driver \in [Devices -> Drivers \cup {NULL}]
  /\ state \in [Drivers -> States]
  /\ irqs \subseteq {0, 1}
  /\ starts \in 0 .. MaxStarts
  /\ call.op \in {"idle", "device", "driver"}
  /\ call # Idle => call.i \in 1 .. MaxDevices + MaxDrivers + 1
  /\ refused \subseteq [driver : Drivers, device : Devices]

(* An interrupt has its handler exactly while a device is bound to the      *)
(* driver that handles it: no tick or key is lost or handled for nothing.   *)
HandlersFollowBindings ==
  \A r \in {"time", "keyboard"} :
    Irq(r) \subseteq irqs <=> \E d \in Permanent : driver[d] = r

(* Whatever was registered first: a registered device has a registered      *)
(* driver that can handle it, unless that driver failed to start on it. The *)
(* devices a driver adds while it starts do not hide others from the walk.  *)
NoneMissed ==
  call = Idle =>
    \A d \in Listed(devices), r \in Listed(drivers) :
      probe(r, d) => driver[d] = r \/ [driver |-> r, device |-> d] \in refused
==============================================================================
