------------------------------- MODULE AtaPio -------------------------------
(***************************************************************************)
(* identifyDrive and ATADiskDevice::access of drivers/storage/ata.cpp, on  *)
(* one channel: two drives behind one set of registers, spoken to by       *)
(* polling.  A drive is external.  It notices a command some time after it *)
(* was written (the 400 ns for which its status is still the old one),     *)
(* works on it as long as it likes, and ignores commands while it is busy  *)
(* or has data to transfer.  A poll is one action, and so is everything    *)
(* the kernel does between two polls.                                      *)
(***************************************************************************)
EXTENDS Integers, Sequences, FiniteSets

CONSTANTS
  Positions,   (* the drives of the channel                                 *)
  Sectors,     (* sectors of a drive                                        *)
  Values,      (* what a sector can hold                                    *)
  Blank,       (* what it holds at first                                    *)
  Identity,    (* the data that answers IDENTIFY                            *)
  Garbage,     (* a word read when there is none to transfer                *)
  None,
  MaxPolls,    (* 100000 in the code                                        *)
  Calls        (* bound: the calls of access, [op, drive, lba, count]       *)

ASSUME AtaAssumption ==
  /\ Sectors \in Nat \ {0} /\ MaxPolls \in Nat \ {0}
  /\ Calls \subseteq [op : {"read", "write"}, drive : Positions,
                     lba : 0 .. Sectors - 1, count : 1 .. Sectors]
  /\ Blank \in Values
  /\ Identity \notin Values \cup {Garbage, None} /\ Garbage \notin Values

VARIABLES
  present,     (* those that are there, for ever                            *)
  selected,    (* the drive that the registers reach                        *)
  phase,       (* drive -> what its status shows and what it does           *)
  failed,      (* drive -> ERR or DF                                        *)
  command,     (* drive -> the command it has not finished, or None         *)
  media,       (* drive -> sector -> contents                               *)
  request,     (* the call in progress or returned last                     *)
  pc,
  polls,
  sector,      (* index of the loop over the sectors of the call            *)
  buffer,      (* the caller's buffer: one word stands for a sector         *)
  result,
  disks,       (* drives that ATADriver::start made a disk object for       *)
  gaveUp,      (* ghost: drives that a call left with a transfer to come    *)
  spoiled      (* ghost: sectors whose last write the drive failed          *)

driveVars == <<phase, failed, command, media, spoiled>>
callVars == <<present, request, sector, buffer, result, disks, gaveUp>>
ataVars == <<selected, pc, polls, driveVars, callVars>>

LBAs == 0 .. Sectors - 1

(* Status bits of a drive, as a read of the register shows them. *)
BSY(d) == phase[d] = "busy"
DRQ(d) == phase[d] = "data"

Transfers == {"read", "write", "identify"}

(* What a drive may be at; "store" once it has the words of a write. *)
Commands ==
  [op : {"read", "write", "flush"}, lba : LBAs]
    \cup [op : {"identify"}, lba : {0}] \cup [op : {"store"}, lba : LBAs, data : Values]

ASSUME AtaNoCommand == None \notin Commands

AtaInit ==
  /\ present \in SUBSET Positions
  /\ selected \in Positions
  /\ phase = [d \in Positions |-> "ready"]
  /\ failed = [d \in Positions |-> FALSE]
  /\ command = [d \in Positions |-> None]
  /\ media = [d \in Positions |-> [l \in LBAs |-> Blank]]
  /\ request = [op |-> "none", drive |-> selected, lba |-> 0, data |-> <<>>]
  /\ pc = "idle"
  /\ polls = 0 /\ sector = 0 /\ buffer = <<>> /\ result = FALSE
  /\ disks = {} /\ gaveUp = {} /\ spoiled = {}

-----------------------------------------------------------------------------
(* The drives *)

(* A write of the command register: lost on a drive that works or has data  *)
(* to transfer, or that is not there.                                       *)
Written(d, cmd) ==
  IF d \in present /\ phase[d] \in {"ready", "unseen"}
  THEN /\ phase' = [phase EXCEPT ![d] = "unseen"]
       /\ command' = [command EXCEPT ![d] = cmd]
  ELSE UNCHANGED <<phase, command>>

DriveSees(d) ==
  /\ phase[d] = "unseen"
  /\ phase' = [phase EXCEPT ![d] = "busy"]
  /\ failed' = [failed EXCEPT ![d] = FALSE]
  /\ UNCHANGED <<command, media, spoiled>>

(* Ready to transfer the data of the command. *)
DriveHasData(d) ==
  /\ phase[d] = "busy"
  /\ command[d].op \in Transfers
  /\ phase' = [phase EXCEPT ![d] = "data"]
  /\ UNCHANGED <<failed, command, media, spoiled>>

(* Finished: with the data it was given on its medium, or with an error.    *)
DriveEnds(d) ==
  /\ phase[d] = "busy"
  /\ phase' = [phase EXCEPT ![d] = "ready"]
  /\ command' = [command EXCEPT ![d] = None]
  /\ LET cmd == command[d]
         at == <<d, cmd.lba>>
     IN  \/ /\ cmd.op \notin Transfers
            /\ IF cmd.op = "store"
               THEN /\ media' = [media EXCEPT ![d][cmd.lba] = cmd.data]
                    /\ spoiled' = spoiled \ {at}
               ELSE UNCHANGED <<media, spoiled>>
            /\ UNCHANGED failed
         \/ /\ failed' = [failed EXCEPT ![d] = TRUE]
            /\ spoiled' = IF cmd.op = "store" THEN spoiled \cup {at} ELSE spoiled
            /\ UNCHANGED media

Drive(d) ==
  /\ DriveSees(d) \/ DriveHasData(d) \/ DriveEnds(d)
  /\ UNCHANGED <<selected, pc, polls, callVars>>

-----------------------------------------------------------------------------
(* The kernel *)

Goto(label) == pc' = label /\ polls' = 0

(* The end of a call; the ghost notes a drive whose transfer is yet to come.*)
Return(ok) ==
  /\ Goto("idle")
  /\ result' = ok
  /\ disks' = IF ok /\ request.op = "identify" THEN disks \cup {request.drive} ELSE disks
  /\ gaveUp' = gaveUp \cup {d \in present : command[d] # None /\ command[d].op \in Transfers}
  /\ UNCHANGED <<present, selected, driveVars, request, sector, buffer>>

(* One read of the status register in waitBSY. *)
waitBSY(label, next) ==
  /\ pc = label
  /\ \/ ~BSY(selected) /\ Goto(next)
            /\ UNCHANGED <<selected, driveVars, callVars>>
     \/ BSY(selected) /\ polls + 1 < MaxPolls /\ polls' = polls + 1
            /\ UNCHANGED <<selected, pc, driveVars, callVars>>
     \/ BSY(selected) /\ polls + 1 = MaxPolls /\ Return(FALSE)

(* Mutant: the reads are not counted. *)
waitDRQPatient ==
  /\ pc = "waitDRQ"
  /\ \/ failed[selected] /\ Return(FALSE)
     \/ ~failed[selected] /\ DRQ(selected) /\ Goto("transfer")
            /\ UNCHANGED <<selected, driveVars, callVars>>

(* One read of the status register in waitDRQ. *)
waitDRQ ==
  /\ pc = "waitDRQ"
  /\ \/ failed[selected] /\ Return(FALSE)
     \/ ~failed[selected] /\ DRQ(selected) /\ Goto("transfer")
            /\ UNCHANGED <<selected, driveVars, callVars>>
     \/ ~failed[selected] /\ ~DRQ(selected) /\ polls + 1 < MaxPolls
            /\ polls' = polls + 1
            /\ UNCHANGED <<selected, pc, driveVars, callVars>>
     \/ ~failed[selected] /\ ~DRQ(selected) /\ polls + 1 = MaxPolls /\ Return(FALSE)

(* identifyDrive, as far as the command and the wait of a microsecond. *)
identifyDrive(d) ==
  /\ pc = "idle"
  /\ selected' = d
  /\ request' = [op |-> "identify", drive |-> d, lba |-> 0, data |-> <<>>]
  /\ sector' = 0 /\ buffer' = <<None>> /\ result' = FALSE
  /\ Written(d, [op |-> "identify", lba |-> 0])
  /\ Goto("status")
  /\ UNCHANGED <<present, failed, media, spoiled, disks, gaveUp>>

(* Nobody there answers with a status of zero. *)
identified ==
  /\ pc = "status"
  /\ phase[selected] # "unseen"
  /\ \/ selected \notin present /\ Return(FALSE)
     \/ selected \in present /\ Goto("waitDRQ")
        /\ UNCHANGED <<selected, driveVars, callVars>>

(* access: a call for no sectors, or for sectors that are not there, returns*)
(* at once and is left out.                                                 *)
access(op, d, lba, count) ==
  /\ pc = "idle"
  /\ d \in disks
  /\ lba + count <= Sectors
  /\ \E data \in IF op = "write" THEN [1 .. count -> Values] ELSE {<<>>} :
       /\ request' = [op |-> op, drive |-> d, lba |-> lba, data |-> data]
       /\ buffer' = IF op = "write" THEN data ELSE [i \in 1 .. count |-> None]
  /\ sector' = 0 /\ result' = FALSE
  /\ Goto("waitBSY")
  /\ UNCHANGED <<present, selected, driveVars, disks, gaveUp>>

(* Mutant: the sector register is not advanced. *)
issueFirst ==
  /\ pc = "issue"
  /\ selected' = request.drive
  /\ Written(request.drive, [op |-> request.op, lba |-> request.lba])
  /\ Goto("waitDRQ")
  /\ UNCHANGED <<failed, media, spoiled, callVars>>

(* selectDrive, the sector registers and the command. *)
issue ==
  /\ pc = "issue"
  /\ selected' = request.drive
  /\ Written(request.drive, [op |-> request.op, lba |-> request.lba + sector])
  /\ Goto("waitDRQ")
  /\ UNCHANGED <<failed, media, spoiled, callVars>>

(* What the data register gives: the data of the command the drive is at,   *)
(* whichever that is.                                                       *)
Word ==
  LET cmd == command[selected]
  IN  IF ~DRQ(selected) \/ cmd.op = "write" THEN Garbage
      ELSE IF cmd.op = "identify" THEN Identity
      ELSE media[selected][cmd.lba]

(* The words of a sector are read; the drive is finished with its command.  *)
readWords ==
  /\ pc = "transfer"
  /\ request.op # "write"
  /\ buffer' = [buffer EXCEPT ![sector + 1] = Word]
  /\ sector' = sector + 1
  /\ IF DRQ(selected) /\ command[selected].op # "write"
     THEN /\ phase' = [phase EXCEPT ![selected] = "ready"]
          /\ command' = [command EXCEPT ![selected] = None]
     ELSE UNCHANGED <<phase, command>>
  /\ Goto("next")
  /\ UNCHANGED <<present, selected, failed, media, spoiled, request, result, disks,
                 gaveUp>>

(* The words of a sector are written, and the drive starts to store them, if*)
(* it was waiting for words.                                                *)
writeWords ==
  /\ pc = "transfer"
  /\ request.op = "write"
  /\ IF DRQ(selected) /\ command[selected].op = "write"
     THEN /\ phase' = [phase EXCEPT ![selected] = "busy"]
          /\ command' = [command EXCEPT ![selected] =
               [op |-> "store", lba |-> command[selected].lba, data |-> buffer[sector + 1]]]
     ELSE UNCHANGED <<phase, command>>
  /\ Goto("flush")
  /\ UNCHANGED <<selected, failed, media, spoiled, callVars>>

(* CACHE_FLUSH, and the status is not looked at for errors afterwards. *)
flush ==
  /\ pc = "flush"
  /\ Written(selected, [op |-> "flush", lba |-> 0])
  /\ sector' = sector + 1
  /\ Goto("waitFlush")
  /\ UNCHANGED <<present, selected, failed, media, spoiled, request, buffer, result,
                 disks, gaveUp>>

nextSector ==
  /\ pc = "next"
  /\ \/ sector < Len(buffer) /\ Goto("waitBSY")
        /\ UNCHANGED <<selected, driveVars, callVars>>
     \/ sector = Len(buffer) /\ Return(TRUE)

Kernel ==
  \/ waitBSY("waitBSY", "issue") \/ issue
  \/ identified \/ waitDRQ
  \/ readWords
  \/ writeWords \/ flush \/ waitBSY("waitFlush", "next")
  \/ nextSector

(* ATADriver::start identifies each position; the disks it made are read and*)
(* written by the file system, a sector or several at a time.               *)
Caller ==
  \/ \E d \in Positions : identifyDrive(d)
  \/ \E c \in Calls : access(c.op, c.drive, c.lba, c.count)

AtaNext == Kernel \/ Caller \/ \E d \in Positions : Drive(d)

(* A call in progress goes on.  A drive notices a command, as it must in    *)
(* 400 ns, and may do nothing more for ever.                                *)
AtaFairness ==
  /\ WF_ataVars(Kernel)
  /\ \A d \in Positions :
       WF_ataVars(DriveSees(d) /\ UNCHANGED <<selected, pc, polls, callVars>>)

AtaSpec == AtaInit /\ [][AtaNext]_ataVars /\ AtaFairness

-----------------------------------------------------------------------------
(* Properties *)

AtaTypeOK ==
  /\ selected \in Positions
  /\ phase \in [Positions -> {"ready", "unseen", "busy", "data"}]
  /\ failed \in [Positions -> BOOLEAN]
  /\ command \in [Positions -> Commands \cup {None}]
  /\ media \in [Positions -> [LBAs -> Values]]
  /\ pc \in {"idle", "waitBSY", "issue", "status", "waitDRQ", "transfer", "flush",
             "waitFlush", "next"}
  /\ polls \in 0 .. MaxPolls - 1
  /\ sector \in 0 .. Len(buffer)
  /\ request.op \in {"none", "identify", "read", "write"}
  /\ present \subseteq Positions
  /\ disks \subseteq present /\ gaveUp \subseteq present
  /\ \A d \in Positions :
       /\ command[d] = None <=> phase[d] = "ready"
       /\ phase[d] = "data" => command[d].op \in Transfers

(* A drive has been asked for nothing but by the call in progress, or was   *)
(* given up on; and a call that returns true on a drive never given up on   *)
(* has done what it was asked: it read the sectors it named, in order, or   *)
(* its words are in them or the drive failed to store them (which access    *)
(* does not ask).  Whatever the drives' timing, the other drive, and errors.*)
AnswersBelong ==
  /\ \A d \in present \ gaveUp :
       command[d] # None /\ command[d].op \in Transfers =>
         /\ pc \in {"status", "waitDRQ", "transfer"} /\ d = selected
         /\ command[d] = [op |-> request.op, lba |-> request.lba + sector]
  /\ pc = "idle" /\ result /\ request.drive \notin gaveUp =>
       \A i \in 1 .. Len(buffer) :
         LET at == request.lba + i - 1
         IN  IF request.op = "identify" THEN buffer[i] = Identity
             ELSE \/ buffer[i] = media[request.drive][at]
                  \/ request.op = "write" /\ <<request.drive, at>> \in spoiled

(* A poll that gives up bounds every call, though a drive may be silent for *)
(* ever.                                                                    *)
CallsEnd == pc # "idle" ~> pc = "idle"
=============================================================================
