------------------------------ MODULE MCDevices ------------------------------
(***************************************************************************)
(* The devices: their registration and binding (Drivers, with a device of  *)
(* every kind and a short list), the ATA channel under polling (AtaPio) and*)
(* the enumeration of PCI functions (Pci).  At boot they take turns and    *)
(* share no state, so a history is one of any of them: the states of the   *)
(* run are the sum of theirs, not the product.                             *)
(***************************************************************************)
EXTENDS Drivers, AtaPio, Pci

VARIABLE which

MCVars == <<vars, ataVars, pciVars, which>>

MCInit ==
  /\ which \in {"drivers", "ata", "pci"}
  /\ Init
  /\ AtaInit /\ (which # "ata" => selected = 0 /\ present = {})
  /\ IF which = "pci" THEN PciInit
     ELSE /\ plugged = <<>> /\ registers = <<>> /\ atBoot = <<>> /\ pciAt = <<>>
          /\ ctor = -1 /\ device = <<>> /\ registered = <<>> /\ enabled = <<>>

(* Drivers may come and go for ever; enumeration ends, and enabling what is *)
(* enabled already changes nothing.                                         *)
MCNext ==
  /\ \/ which = "drivers" /\ Next /\ UNCHANGED <<ataVars, pciVars>>
     \/ which = "ata" /\ AtaNext /\ UNCHANGED <<vars, pciVars>>
     \/ which = "pci" /\ PciNext /\ UNCHANGED <<vars, ataVars>>
  /\ UNCHANGED which

MCSpec == MCInit /\ [][MCNext]_MCVars /\ AtaFairness

-----------------------------------------------------------------------------
(* Constants *)

MCDrives == <<"master", "slave">>

(* Several sectors written and read on one drive, one on the other. *)
MCCalls ==
  [op : {"write", "read"}, drive : {0}, lba : {0}, count : {2}]
    \cup [op : {"read"}, drive : {1}, lba : {0}, count : {1}]

Bar(kind, size, at) == [kind |-> kind, size |-> size, at |-> at]
NoneThere == Bar("none", 0, {})

First2(b0, b1) == [i \in Bars |-> IF i = 0 THEN b0 ELSE IF i = 1 THEN b1 ELSE NoneThere]
Only(k, b) == [i \in Bars |-> IF i = k THEN b ELSE NoneThere]

(* Ports and memory; memory that needs 64 bits, below 4 GiB and above; the  *)
(* last bar.                                                                *)
BarSets ==
  {First2(Bar("io", 4, {4, 8}), Bar("memory32", 12, {20, 31})),
   First2(Bar("memory64", 14, {14, 30}), Bar("high", 0, {})),
   First2(Bar("memory64", 14, {31}), Bar("high", 0, {0, 3})),
   Only(5, Bar("memory32", 10, {10}))}

Fn(multi, bridge, bars) == [multi |-> multi, bridge |-> bridge, bars |-> bars]
ABridge == Fn(FALSE, TRUE, Only(3, Bar("memory32", 12, {12, 30})))

(* Functions alone in their slot, some with a decoy that must not be seen;  *)
(* slots of two; more functions than there is room for.                     *)
MCTopologies ==
  UNION {LET alone == Fn(FALSE, FALSE, b)
             multi == Fn(TRUE, FALSE, b)
             other == Fn(m, FALSE, b)
         IN  {[p \in {<<0, 0>>, <<1, 1>>} |-> alone],
              [p \in {<<0, 0>>, <<0, 1>>, <<2, 0>>} |->
                 IF p = <<0, 0>> THEN multi ELSE IF p = <<0, 1>> THEN other ELSE ABridge],
              [p \in {<<0, 0>>, <<1, 0>>, <<1, 1>>, <<2, 0>>} |->
                 IF p = <<1, 0>> THEN multi ELSE IF p = <<2, 0>> THEN ABridge ELSE other]}
         : b \in BarSets, m \in BOOLEAN}

MCStatuses == SUBSET {20, 28}
=============================================================================
