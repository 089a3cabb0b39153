------------------------------ MODULE Keyboard ------------------------------
(***************************************************************************)
(* The PS/2 keyboard driver, kernel/drivers/input/keyboard.cpp, and its    *)
(* one reader, the shell of kernel/main.cpp, which reads lines through     *)
(* kernel/io/console.cpp.                                                  *)
(*                                                                         *)
(* The handler runs in interrupt 1 behind an interrupt gate: it is atomic, *)
(* and it comes between any two steps of the reader.  The reader's steps   *)
(* are its accesses to the ring.  inputBuffer is not volatile while        *)
(* readIndex is, so the compiler may load the character before or after it *)
(* stores the new readIndex: both orders are steps of the model.           *)
(*                                                                         *)
(* A key sends its code, plus 128 when it goes up, after a 0xE0 byte when  *)
(* it is an extended key.  The controller hands over one byte per          *)
(* interrupt.                                                              *)
(***************************************************************************)
EXTENDS Integers, Sequences, FiniteSets

CONSTANTS
  BufferSize,            (* slots in the ring                               *)
  activeLayout, esShift, (* code -> character, 0 when the key has none      *)
  Keys,                  (* the keys, [ext : BOOLEAN, code : 0 .. 127]      *)
  MaxPresses,            (* bound: key presses in a behaviour               *)
  MaxWire                (* bound: bytes the keyboard holds back            *)

Byte == 0 .. 255
Prefix == 224

ASSUME BufferAssumption == BufferSize \in Nat \ {0, 1}
ASSUME LayoutAssumption ==
  activeLayout \in [0 .. 127 -> Byte] /\ esShift \in [0 .. 127 -> Byte]

(* Scan code set 1 has no key whose release would read as the prefix.      *)
ASSUME KeyAssumption ==
  Keys \subseteq [ext : BOOLEAN, code : (0 .. 127) \ {Prefix - 128}]

ASSUME BoundAssumption == MaxPresses \in Nat /\ MaxWire \in Nat

VARIABLES
  held,               (* keys that are down                                 *)
  wire,               (* bytes sent and not yet read from port 0x60         *)
  presses,            (* key presses so far, up to MaxPresses               *)
  inputBuffer,
  readIndex,
  writeIndex,
  shiftPressed,
  extendedScancode,
  pc,                 (* where the reader is                                *)
  slot,               (* the index it reads from                            *)
  c,                  (* the character it has                               *)
  line,               (* the line getLine is building                       *)
  accepted,           (* ghost: all characters that entered the ring        *)
  dropped             (* ghost: how many found it full                      *)

keyVars == <<held, presses>>
ringVars == <<inputBuffer, writeIndex, accepted, dropped>>
modeVars == <<shiftPressed, extendedScancode>>
readerVars == <<readIndex, pc, slot, c, line>>
vars == <<keyVars, wire, ringVars, modeVars, readerVars>>

Slot == 0 .. BufferSize - 1
Backspace == 8
Newline == 10
ShiftCodes == {42, 54}

Init ==
  /\ held = {}
  /\ wire = <<>>
  /\ presses = 0
  /\ inputBuffer = [i \in Slot |-> 0]
  /\ readIndex = 0
  /\ writeIndex = 0
  /\ shiftPressed = FALSE
  /\ extendedScancode = FALSE
  /\ pc = "poll"
  /\ slot = 0
  /\ c = 0
  /\ line = <<>>
  /\ accepted = <<>>
  /\ dropped = 0

-----------------------------------------------------------------------------
(* The keyboard *)

Sends(k, code) ==
  /\ Len(wire) + 2 <= MaxWire
  /\ wire' = wire \o (IF k.ext THEN <<Prefix, code>> ELSE <<code>>)
  /\ UNCHANGED <<ringVars, modeVars, readerVars>>

(* A key goes down, or repeats while it is down. *)
Press(k) ==
  /\ presses < MaxPresses
  /\ presses' = presses + 1
  /\ held' = held \cup {k}
  /\ Sends(k, k.code)

LetGo(k) ==
  /\ k \in held
  /\ held' = held \ {k}
  /\ Sends(k, k.code + 128)
  /\ UNCHANGED presses

-----------------------------------------------------------------------------
(* The interrupt handler *)

FollowingUnwrapped(i) == i + 1
Following(i) == (i + 1) % BufferSize

NeverFull == FALSE
Full == Following(writeIndex) = readIndex

enqueue(char) ==
  IF Full
  THEN /\ dropped' = dropped + 1
       /\ UNCHANGED <<inputBuffer, writeIndex, accepted>>
  ELSE /\ inputBuffer' = [inputBuffer EXCEPT ![writeIndex] = char]
       /\ writeIndex' = Following(writeIndex)
       /\ accepted' = Append(accepted, char)
       /\ UNCHANGED dropped

(* The table lookup; a key without a character yields 0. *)
Lookup(scancode) ==
  IF shiftPressed THEN esShift[scancode] ELSE activeLayout[scancode]

(* The byte 0xE0 announces an extended key, whose code is then ignored. *)
HandlerPrefixIgnored(scancode) ==
  /\ scancode = Prefix
  /\ UNCHANGED <<modeVars, ringVars>>

HandlerPrefix(scancode) ==
  /\ scancode = Prefix
  /\ extendedScancode' = TRUE
  /\ UNCHANGED <<shiftPressed, ringVars>>

HandlerExtended(scancode) ==
  /\ scancode # Prefix
  /\ extendedScancode
  /\ extendedScancode' = FALSE
  /\ UNCHANGED <<shiftPressed, ringVars>>

HandlerRelease(scancode) ==
  /\ scancode # Prefix /\ ~extendedScancode
  /\ scancode >= 128
  /\ shiftPressed' = (shiftPressed /\ scancode - 128 \notin ShiftCodes)
  /\ UNCHANGED <<extendedScancode, ringVars>>

HandlerShift(scancode) ==
  /\ scancode < 128 /\ ~extendedScancode
  /\ scancode \in ShiftCodes
  /\ shiftPressed' = TRUE
  /\ UNCHANGED <<extendedScancode, ringVars>>

HandlerChar(scancode) ==
  /\ scancode < 128 /\ ~extendedScancode
  /\ scancode \notin ShiftCodes
  /\ IF Lookup(scancode) # 0
     THEN enqueue(Lookup(scancode))
     ELSE UNCHANGED ringVars
  /\ UNCHANGED modeVars

(* inb(0x60) takes the byte from the controller. *)
handler ==
  /\ wire # <<>>
  /\ wire' = Tail(wire)
  /\ \/ HandlerPrefix(Head(wire))
     \/ HandlerExtended(Head(wire))
     \/ HandlerRelease(Head(wire))
     \/ HandlerShift(Head(wire))
     \/ HandlerChar(Head(wire))
  /\ UNCHANGED <<keyVars, readerVars>>

-----------------------------------------------------------------------------
(* The reader: getLine calls in::getChar, which calls keyboard::getChar     *)

Reader == UNCHANGED <<keyVars, wire, ringVars, modeVars>>

hasCharUnwrapped == readIndex < writeIndex
hasChar == readIndex # writeIndex

(* in::getChar waits for a character, then calls keyboard::getChar. *)
AwaitChar ==
  /\ pc = "poll"
  /\ hasChar
  /\ pc' = "called"
  /\ UNCHANGED <<readIndex, slot, c, line>>
  /\ Reader

(* keyboard::getChar waits for it once more. *)
AwaitAgain ==
  /\ pc = "called"
  /\ hasChar
  /\ pc' = "nonempty"
  /\ UNCHANGED <<readIndex, slot, c, line>>
  /\ Reader

(* Both wait in a loop around a pause instruction. *)
Spin ==
  /\ pc \in {"poll", "called"}
  /\ ~hasChar
  /\ UNCHANGED vars

(* The load and the store, in program order ... *)
LoadFirst ==
  /\ pc = "nonempty"
  /\ slot' = readIndex
  /\ c' = inputBuffer[readIndex]
  /\ pc' = "loaded"
  /\ UNCHANGED <<readIndex, line>>
  /\ Reader

StoreLast ==
  /\ pc = "loaded"
  /\ readIndex' = Following(readIndex)
  /\ pc' = "got"
  /\ UNCHANGED <<slot, c, line>>
  /\ Reader

(* ... and in the order the compiler may choose. *)
StoreFirst ==
  /\ pc = "nonempty"
  /\ slot' = readIndex
  /\ readIndex' = Following(readIndex)
  /\ pc' = "stored"
  /\ UNCHANGED <<c, line>>
  /\ Reader

LoadLast ==
  /\ pc = "stored"
  /\ c' = inputBuffer[slot]
  /\ pc' = "got"
  /\ UNCHANGED <<readIndex, slot, line>>
  /\ Reader

(* getLine with the character it got: '\n' ends the line, '\b' removes the  *)
(* last character if there is one, any other character is appended.         *)
EditedWithoutPop(l, char) ==
  IF char = Backspace THEN l ELSE Append(l, char)

Edited(l, char) ==
  IF char # Backspace THEN Append(l, char)
  ELSE IF l = <<>> THEN l
  ELSE SubSeq(l, 1, Len(l) - 1)

getLine ==
  /\ pc = "got"
  /\ IF c = Newline
     THEN pc' = "command" /\ UNCHANGED line
     ELSE pc' = "poll" /\ line' = Edited(line, c)
  /\ UNCHANGED <<readIndex, slot, c>>
  /\ Reader

(* The shell runs the command and asks for the next line. *)
RunCommand ==
  /\ pc = "command"
  /\ line' = <<>>
  /\ pc' = "poll"
  /\ UNCHANGED <<readIndex, slot, c>>
  /\ Reader

(* getChar, in and below in::getChar. *)
GetChar ==
  \/ AwaitChar \/ AwaitAgain \/ Spin
  \/ LoadFirst \/ StoreLast \/ StoreFirst \/ LoadLast

ReaderNext == GetChar \/ getLine \/ RunCommand

Next ==
  \/ \E k \in Keys : Press(k) \/ LetGo(k)
  \/ handler
  \/ ReaderNext

Spec == Init /\ [][Next]_vars

(* Interrupts stay enabled after boot and the kernel has no other thread,   *)
(* so a pending interrupt is taken and the reader gets on with getChar.     *)
(* Nothing is assumed of getLine and RunCommand: the echo of a tab near the *)
(* right edge never returns (framebuffer.cpp:405), and a command can panic. *)
FairSpec == Spec /\ WF_vars(handler) /\ WF_vars(GetChar)
-----------------------------------------------------------------------------
(* Properties *)

PCs == {"poll", "called", "nonempty", "loaded", "stored", "got", "command"}

(* Both indices stay inside the ring, which holds bytes. *)
TypeOK ==
  /\ held \subseteq Keys
  /\ wire \in Seq(Byte)
  /\ presses \in 0 .. MaxPresses
  /\ inputBuffer \in [Slot -> Byte]
  /\ readIndex \in Slot
  /\ writeIndex \in Slot
  /\ shiftPressed \in BOOLEAN
  /\ extendedScancode \in BOOLEAN
  /\ pc \in PCs
  /\ slot \in Slot
  /\ c \in Byte
  /\ line \in Seq(Byte)
  /\ accepted \in Seq(Byte)
  /\ dropped \in Nat

(* How many characters wait in the ring. *)
Waiting ==
  IF readIndex <= writeIndex
  THEN writeIndex - readIndex
  ELSE BufferSize - readIndex + writeIndex

(* They wait in the slots from readIndex on, around the end of the array. *)
Pending == [i \in 1 .. Waiting |-> inputBuffer[(readIndex + i - 1) % BufferSize]]

(* What the reader relies on between its steps: the ring it found nonempty  *)
(* stays so, the character it loaded is still the oldest one, and the index *)
(* it stored follows the slot it has yet to read.                           *)
ReaderAgrees ==
  /\ pc \in {"called", "nonempty", "loaded"} => hasChar
  /\ pc = "loaded" => c = inputBuffer[readIndex]
  /\ pc = "stored" => readIndex = Following(slot)

IInv == TypeOK /\ ReaderAgrees

(* The ring with its two indices is a queue for BufferSize - 1 characters,  *)
(* whatever the interrupts do between the reader's steps: a character is    *)
(* lost only when the ring is full, the others are read once and in order,  *)
(* and the slot being read is not overwritten, not even when the compiler   *)
(* has moved the load behind the store that gives the slot back.            *)
Queue ==
  INSTANCE CharQueue WITH
    Capacity <- BufferSize - 1,
    Char     <- Byte,
    queue    <- Pending,
    inHand   <- IF pc = "stored" THEN <<inputBuffer[slot]>>
                ELSE IF pc = "got" THEN <<c>> ELSE <<>>,
    lost     <- dropped

ImplementsQueue == Queue!QueueSpec

(* When the keyboard has nothing more to say, the decoder is back in its    *)
(* normal state: the next byte will not be swallowed as the second half of  *)
(* an extended code, and shift is not stuck: it is on only if a shift key   *)
(* is down, whatever fake shifts extended keys have sent.                   *)
DecoderAtRest ==
  wire = <<>> =>
    /\ ~extendedScancode
    /\ shiftPressed => \E k \in held : ~k.ext /\ k.code \in ShiftCodes

(* The characters getLine has dealt with are the first of those accepted:   *)
(* all but the ones in the ring and the one the reader holds.               *)
InHand == IF pc \in {"stored", "got"} THEN 1 ELSE 0
Dealt == Len(accepted) - Waiting - InHand

(* What stays on the screen of the first n characters of s: those behind    *)
(* the last Enter that no backspace removed, which is to say that no        *)
(* stretch right behind them has more backspaces than other characters.     *)
Erases(s, i, j) == {k \in i .. j : s[k] = Backspace}
Stays(s, n) ==
  {i \in 1 .. n :
     /\ s[i] # Backspace
     /\ \A j \in i .. n :
          s[j] # Newline /\ 2 * Cardinality(Erases(s, i + 1, j)) <= j - i}

(* The line l shows just that, in the order typed. *)
Shows(l, s, n) ==
  /\ Len(l) = Cardinality(Stays(s, n))
  /\ \A i \in Stays(s, n) :
       l[Cardinality({k \in Stays(s, n) : k <= i})] = s[i]

(* The line getLine builds is what the user sees: the characters accepted   *)
(* since the last Enter, in the order typed, none twice and none missing,   *)
(* with every backspace applied to the character before it, and a backspace *)
(* on an empty line to none; and the decoder is ready for the next key.     *)
LineIsWhatWasTyped ==
  /\ pc # "command" => Shows(line, accepted, Dealt)
  /\ DecoderAtRest

(* Every character that getLine got is put on the screen and putChar comes  *)
(* back, as it does but for a tab near the right edge.                      *)
EchoReturns == []<>(pc # "got")

(* An Enter that made it into the ring ends a line, unless the echo of a    *)
(* character never returns: the shell gets to run a command, and another    *)
(* one if this Enter waits behind the command's and the command returns.    *)
NewlineEndsLine ==
  EchoReturns =>
    ((\E i \in 1 .. Waiting : Pending[i] = Newline) ~> pc = "command")
=============================================================================
