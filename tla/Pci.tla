--------------------------------- MODULE Pci ---------------------------------
(***************************************************************************)
(* Enumeration of PCI functions by drivers/pci.cpp, and what it does to    *)
(* their configuration registers: each base address register is sized by   *)
(* writing ones to it, reading back which stuck, and restoring it; and the *)
(* 16-bit write of the command is a 32-bit write that takes the status     *)
(* along.  The functions are external.                                     *)
(*                                                                         *)
(* A register is the set of its bits that are 1, so that all widths are the*)
(* code's.  Enumeration runs once, before `sti`, with no other access.     *)
(***************************************************************************)
EXTENDS Integers, Sequences, FiniteSets

CONSTANTS
  LastSlot, LastFunction,  (* 31 and 7 in the code; buses are left out      *)
  PciRoom,                 (* devices that DeviceManager still has room for *)
  Topologies,              (* what may be plugged in, see PciAssumption     *)
  Statuses                 (* what the status bits may be at boot           *)

Slots == 0 .. LastSlot
Places == Slots \X (0 .. LastFunction)

Bars == 0 .. 5
After == 6      (* the register behind bar 5                                *)
Command == 7    (* command and status                                      *)
Registers == 0 .. 7

Ones == 0 .. 31
Status == 16 .. 31

(* A topology maps the places that are taken to a function: whether its     *)
(* header says multi-function, whether it is a bridge (its bars from 2 on   *)
(* are other registers), and for each bar [kind, size, at]: it decodes 2^size*)
(* bytes from the address with the bits `at`.                               *)
Kinds == {"none", "io", "memory32", "memory64", "high"}

(* What a function's header may be.  Ports come in fours, memory in         *)
(* sixteens, both aligned to their size and below 4 GiB but for the upper   *)
(* half of a 64-bit bar; memory has been given an address, since a register *)
(* that is all zero is taken for no bar.                                    *)
WellFormed(f) ==
  /\ f \in [multi : BOOLEAN, bridge : BOOLEAN,
            bars : [Bars -> [kind : Kinds, size : 0 .. 31, at : SUBSET Ones]]]
  /\ ~f.bridge => \A i \in Bars :
       LET b == f.bars[i]
       IN  /\ b.kind = "io" => 2 <= b.size
           /\ b.kind \in {"memory32", "memory64"} => 4 <= b.size
           /\ b.kind \in {"io", "memory32", "memory64"} => b.at \subseteq b.size .. 31
           /\ b.kind = "memory32" => b.at # {}
           /\ b.kind = "memory64" => i < 5 /\ f.bars[i + 1].kind = "high"

ASSUME PciAssumption ==
  /\ LastSlot \in Nat /\ LastFunction \in Nat /\ PciRoom \in Nat
  /\ \A t \in Topologies : DOMAIN t \subseteq Places /\ \A p \in DOMAIN t : WellFormed(t[p])
  /\ \A s \in Statuses : s \subseteq Status

VARIABLES
  plugged,     (* the topology                                              *)
  registers,   (* place -> register -> bits                                 *)
  atBoot,      (* ghost: what they were                                     *)
  pciAt,       (* the next place enumeration looks at, or <<>> at the end   *)
  ctor,        (* the bar the constructor of PCIDevice reads next, or -1    *)
  device,      (* place -> bars of its PCIDevice                            *)
  registered,  (* the places in DeviceManager, in order                     *)
  enabled      (* ghost: place -> command bits that drivers have set        *)

pciVars == <<plugged, registers, atBoot, pciAt, ctor, device, registered, enabled>>

-----------------------------------------------------------------------------
(* Configuration registers *)

(* The low bits of a bar that say what it is. *)
TypeBits(bar) ==
  IF bar.kind = "io" THEN {0} ELSE IF bar.kind = "memory64" THEN {2} ELSE {}

Initially(f, r, status) ==
  IF r = Command THEN status
  ELSE IF r = After \/ f.bars[r].kind = "none" THEN {}
  ELSE f.bars[r].at \cup TypeBits(f.bars[r])

(* Bits that a 1 written to them clears: the status, and in a bridge the    *)
(* secondary status, which shares a word with what is bar 3 elsewhere.      *)
Clearing(f, r) ==
  IF r = Command \/ (f.bridge /\ r = 3) THEN Status ELSE {}

(* Bits that keep what is written to them. *)
Writable(f, r) ==
  IF r = Command THEN 0 .. 2
  ELSE IF r = After \/ f.bars[r].kind = "none" THEN {}
  ELSE IF f.bars[r].kind = "high" THEN Ones
  ELSE (f.bars[r].size .. 31) \ Clearing(f, r)

write32(f, r, old, value) ==
  ((old \ Writable(f, r)) \cup (value \cap Writable(f, r))) \ (value \cap Clearing(f, r))

(* write16 to the lower half: the upper half is written as it was read.     *)
write16(old, value) == (old \cap Status) \cup value

(* Ones written, what sticks, and the original written again. *)
Mask(f, r, now) == write32(f, r, now, Ones)

(* Mutant: not restored. *)
RestoredNot(f, r, now) == Mask(f, r, now)

Restored(f, r, now) == write32(f, r, Mask(f, r, now), now)

(* ~mask + 1 in that many bits. *)
Negated(mask, bits) ==
  IF mask = {} THEN {}
  ELSE LET low == CHOOSE b \in mask : \A c \in mask : b <= c
       IN  {low} \cup ((low + 1 .. bits - 1) \ mask)

NoBar == [type |-> "None", address |-> {}, size |-> {}]

Shifted32(bits) == {b + 32 : b \in bits}

(* What readBAR(i) returns; the result speaks of the bits read. *)
BarOf(f, i, regs) ==
  LET original == regs[i]
      mask == Mask(f, i, original)
      high == regs[i + 1]
      highMask == Mask(f, i + 1, high)
  IN  IF original = {} THEN NoBar
      ELSE IF 0 \in original
      THEN [type |-> "IO", address |-> original \ {0, 1}, size |-> Negated(mask \ {0, 1}, 32)]
      ELSE IF {1, 2} \cap original = {}
      THEN [type |-> "MMIO32", address |-> original \ (0 .. 3),
            size |-> Negated(mask \ (0 .. 3), 32)]
      ELSE IF {1, 2} \cap original = {2}
      THEN [type |-> "MMIO64", address |-> (original \ (0 .. 3)) \cup Shifted32(high),
            size |-> Negated((mask \ (0 .. 3)) \cup Shifted32(highMask), 64)]
      ELSE NoBar

-----------------------------------------------------------------------------
(* Enumeration *)

PciInit ==
  /\ plugged \in Topologies
  /\ \E status \in Statuses :
       registers = [p \in DOMAIN plugged |->
                      [r \in Registers |-> Initially(plugged[p], r, status)]]
  /\ atBoot = registers
  /\ pciAt = <<0, 0>>
  /\ ctor = -1
  /\ device = [p \in DOMAIN plugged |-> <<>>]
  /\ registered = <<>>
  /\ enabled = [p \in DOMAIN plugged |-> {}]

(* Who answers for a place: a function that is alone in its slot may answer *)
(* for all of them.                                                         *)
Answering(p) ==
  IF p \in DOMAIN plugged THEN {p}
  ELSE {q \in DOMAIN plugged : q = <<p[1], 0>> /\ ~plugged[q].multi}

NextSlot(p) == IF p[1] = LastSlot THEN <<>> ELSE <<p[1] + 1, 0>>

(* Mutant: all functions of a slot are looked at. *)
NextPlaceAll(p) == IF p[2] = LastFunction THEN NextSlot(p) ELSE <<p[1], p[2] + 1>>

(* checkSlot: the other functions only if function 0 says there are others. *)
NextPlace(p) ==
  IF p[2] < LastFunction /\ <<p[1], 0>> \in DOMAIN plugged /\ plugged[<<p[1], 0>>].multi
  THEN <<p[1], p[2] + 1>>
  ELSE NextSlot(p)

(* Nobody there: the vendor reads as 0xFFFF. *)
checkAbsent ==
  /\ pciAt # <<>> /\ ctor = -1
  /\ Answering(pciAt) = {}
  /\ pciAt' = NextPlace(pciAt)
  /\ UNCHANGED <<plugged, registers, atBoot, ctor, device, registered, enabled>>

(* checkFunction: the constructor starts to read the bars. *)
checkFunction ==
  /\ pciAt # <<>> /\ ctor = -1
  /\ Answering(pciAt) # {}
  /\ ctor' = 0
  /\ UNCHANGED <<plugged, registers, atBoot, pciAt, device, registered, enabled>>

(* A 64-bit bar takes the next register as well; it is read again as a bar  *)
(* of its own afterwards.                                                   *)
readBAR ==
  /\ ctor \in Bars
  /\ \E p \in Answering(pciAt) :
       LET f == plugged[p]
           regs == registers[p]
           bar == BarOf(f, ctor, regs)
           touched == IF regs[ctor] = {} THEN {}
                      ELSE IF bar.type = "MMIO64" THEN {ctor, ctor + 1} ELSE {ctor}
       IN  /\ registers' = [registers EXCEPT ![p] = [r \in Registers |->
                IF r \in touched THEN Restored(f, r, regs[r]) ELSE regs[r]]]
           /\ device' = [device EXCEPT ![p] = IF ctor = 0 THEN <<bar>> ELSE Append(@, bar)]
  /\ ctor' = ctor + 1
  /\ UNCHANGED <<plugged, atBoot, pciAt, registered, enabled>>

(* registerDevice, which a full list refuses. *)
registerDevice_ ==
  /\ ctor = 6
  /\ registered' = IF Len(registered) < PciRoom
                   THEN registered \o <<CHOOSE p \in Answering(pciAt) : TRUE>>
                   ELSE registered
  /\ ctor' = -1
  /\ pciAt' = NextPlace(pciAt)
  /\ UNCHANGED <<plugged, registers, atBoot, device, enabled>>

(* enableIOSpace, enableMemorySpace, enableBusMastering: bits 0, 1 and 2.   *)
enable(p, bit) ==
  /\ pciAt = <<>>
  /\ \E i \in DOMAIN registered : registered[i] = p
  /\ LET old == registers[p][Command]
         command == old \ Status
     IN  registers' = [registers EXCEPT ![p][Command] =
           write32(plugged[p], Command, old, write16(old, command \cup {bit}))]
  /\ enabled' = [enabled EXCEPT ![p] = @ \cup {bit}]
  /\ UNCHANGED <<plugged, atBoot, pciAt, ctor, device, registered>>

PciNext ==
  \/ checkAbsent \/ checkFunction \/ readBAR \/ registerDevice_
  \/ \E p \in DOMAIN plugged, bit \in 0 .. 2 : enable(p, bit)

PciSpec == PciInit /\ [][PciNext]_pciVars

-----------------------------------------------------------------------------
(* Properties *)

Before(p, q) == p[1] < q[1] \/ (p[1] = q[1] /\ p[2] < q[2])

(* A slot is seen if its function 0 is there. *)
Seen == {p \in DOMAIN plugged : <<p[1], 0>> \in DOMAIN plugged
                                  /\ (p[2] = 0 \/ plugged[<<p[1], 0>>].multi)}

(* The functions of a machine are registered once each and in order, as many*)
(* as there is room for, whether or not a function answers for its whole    *)
(* slot.                                                                    *)
EachFunctionOnce ==
  /\ \A i \in DOMAIN registered : registered[i] \in Seen
  /\ \A i, j \in DOMAIN registered : i < j => Before(registered[i], registered[j])
  /\ pciAt = <<>> /\ Len(registered) < PciRoom =>
       \A p \in Seen : \E i \in DOMAIN registered : registered[i] = p

(* What a bar should be read as. *)
Expected(f, i) ==
  LET b == f.bars[i]
      high == IF b.kind = "memory64" THEN f.bars[i + 1].at ELSE {}
  IN  IF b.kind \in {"none", "high"} THEN NoBar
      ELSE [type |-> IF b.kind = "io" THEN "IO"
                     ELSE IF b.kind = "memory32" THEN "MMIO32" ELSE "MMIO64",
            address |-> b.at \cup Shifted32(high), size |-> {b.size}]

(* Registers are left as they were but for the command bits that drivers    *)
(* set, and for bits that a write clears: those of the status, by enable,   *)
(* and of a bridge's secondary status, by readBAR.  A device knows its bars,*)
(* if none lies above 4 GiB (its upper half is then read as a bar too).     *)
ConfigPreserved ==
  /\ \A p \in DOMAIN plugged, r \in Registers :
       LET was == atBoot[p][r] \cup (IF r = Command THEN enabled[p] ELSE {})
       IN  /\ registers[p][r] \subseteq was
           /\ was \ registers[p][r] \subseteq Clearing(plugged[p], r)
  /\ \A p \in DOMAIN plugged :
       (~plugged[p].bridge /\ \A i \in Bars : plugged[p].bars[i].kind = "high" =>
                                                plugged[p].bars[i].at = {})
         => \A i \in DOMAIN device[p] : device[p][i] = Expected(plugged[p], i - 1)
=============================================================================
