--------------------------- MODULE KeyboardProofs ---------------------------
(***************************************************************************)
(* Proofs about Keyboard for every ring size, layout and set of keys: the  *)
(* indices stay in range, the reader's knowledge survives interrupts, the  *)
(* ring implements the bounded queue CharQueue, and the line that getLine  *)
(* builds is what was typed, with every backspace applied.                 *)
(***************************************************************************)
EXTENDS Keyboard, SequenceTheorems, FiniteSetTheorems,
        WellFoundedInduction, TLAPS

(* The index after i is i + 1, or 0 at the end of the array. *)
LEMMA FollowingValue ==
  ASSUME NEW i \in Slot
  PROVE  /\ Following(i) = IF i + 1 = BufferSize THEN 0 ELSE i + 1
         /\ Following(i) \in Slot
BY BufferAssumption, Z3 DEF Following, Slot

(* A walk of k slots from r, around the end of the array. *)
LEMMA SlotAt ==
  ASSUME NEW r \in Slot, NEW k \in Slot
  PROVE  /\ (r + k) % BufferSize =
              IF r + k < BufferSize THEN r + k ELSE r + k - BufferSize
         /\ (r + k) % BufferSize \in Slot
BY BufferAssumption, Z3 DEF Slot

(* A looked-up character is a byte. *)
LEMMA LookupType ==
  ASSUME NEW s \in Byte, s < 128
  PROVE  Lookup(s) \in Byte
<1>1. s \in 0 .. 127
  BY DEF Byte
<1> QED
  BY <1>1, LayoutAssumption DEF Lookup

(* Both halves of an extended or plain code are bytes. *)
LEMMA SendsType ==
  ASSUME TypeOK, NEW k \in Keys, NEW code \in Byte, Sends(k, code)
  PROVE  wire' \in Seq(Byte)
<1>1. wire \in Seq(Byte)
  BY DEF TypeOK
<1>2. Prefix \in Byte
  BY DEF Prefix, Byte
<1>3. <<Prefix, code>> \in Seq(Byte) /\ <<code>> \in Seq(Byte)
  BY <1>2
<1> QED
  BY <1>1, <1>3 DEF Sends

(* The ring is empty and the reader polls when the driver starts. *)
LEMMA TypeInitial == Init => IInv
<1> SUFFICES ASSUME Init PROVE IInv
  OBVIOUS
<1>1. 0 \in Slot /\ 0 \in Byte /\ 0 \in 0 .. MaxPresses
  BY BufferAssumption, BoundAssumption DEF Slot, Byte
<1>2. inputBuffer \in [Slot -> Byte]
  BY <1>1 DEF Init
<1>3. wire \in Seq(Byte) /\ line \in Seq(Byte) /\ accepted \in Seq(Byte)
  BY DEF Init
<1> QED
  BY <1>1, <1>2, <1>3 DEF Init, IInv, TypeOK, ReaderAgrees, PCs

(* enqueue keeps the ring well typed. *)
LEMMA EnqueueType ==
  ASSUME IInv, NEW char \in Byte, enqueue(char), UNCHANGED readerVars
  PROVE  /\ inputBuffer' \in [Slot -> Byte]
         /\ writeIndex' \in Slot
         /\ accepted' \in Seq(Byte)
         /\ dropped' \in Nat
         /\ ReaderAgrees'
<1>1. writeIndex \in Slot /\ Following(writeIndex) \in Slot
  BY FollowingValue DEF IInv, TypeOK
<1>2. readIndex \in Slot /\ slot \in Slot
  BY DEF IInv, TypeOK
<1>3. CASE Full
  BY <1>1, <1>2, <1>3
     DEF IInv, TypeOK, ReaderAgrees, enqueue, readerVars, hasChar
<1>4. CASE ~Full
  <2>1. inputBuffer' = [inputBuffer EXCEPT ![writeIndex] = char]
        /\ writeIndex' = Following(writeIndex)
        /\ accepted' = Append(accepted, char) /\ dropped' = dropped
    BY <1>4 DEF enqueue
  <2>2. Following(writeIndex) # readIndex
    BY <1>4 DEF Full
  <2>3. ReaderAgrees'
    BY <1>1, <1>2, <2>1, <2>2
       DEF IInv, TypeOK, ReaderAgrees, readerVars, hasChar
  <2> QED
    BY <1>1, <2>1, <2>3 DEF IInv, TypeOK
<1> QED
  BY <1>3, <1>4

(* The inductive step: TypeOK and what the reader relies on are preserved.  *)
LEMMA Inductive == IInv /\ [Next]_vars => IInv'
<1> SUFFICES ASSUME IInv, [Next]_vars
             PROVE  IInv'
  OBVIOUS
<1> USE DEF IInv
<1>k. \A k \in Keys : k.code \in 0 .. 127
  BY KeyAssumption
<1>1. ASSUME NEW k \in Keys, Press(k)
      PROVE  IInv'
  <2>1. k.code \in Byte
    BY <1>k DEF Byte
  <2>2. wire' \in Seq(Byte)
    BY <1>1, <2>1, SendsType DEF Press
  <2> QED
    BY <1>1, <2>2, BoundAssumption
       DEF Press, Sends, TypeOK, ReaderAgrees, hasChar,
           ringVars, modeVars, readerVars
<1>2. ASSUME NEW k \in Keys, LetGo(k)
      PROVE  IInv'
  <2>1. k.code + 128 \in Byte
    BY <1>k DEF Byte
  <2>2. wire' \in Seq(Byte)
    BY <1>2, <2>1, SendsType DEF LetGo
  <2> QED
    BY <1>2, <2>2
       DEF LetGo, Sends, TypeOK, ReaderAgrees, hasChar,
           ringVars, modeVars, readerVars
<1>3. CASE handler
  <2>1. wire' \in Seq(Byte) /\ Head(wire) \in Byte
    BY <1>3 DEF handler, TypeOK
  <2>2. UNCHANGED <<keyVars, readerVars>>
    BY <1>3 DEF handler
  <2>3. ASSUME UNCHANGED ringVars,
               shiftPressed' \in BOOLEAN, extendedScancode' \in BOOLEAN
        PROVE  IInv'
    BY <2>1, <2>2, <2>3
       DEF TypeOK, ReaderAgrees, hasChar, ringVars, readerVars, keyVars
  <2>4. CASE HandlerPrefix(Head(wire))
    BY <2>3, <2>4 DEF HandlerPrefix, TypeOK
  <2>5. CASE HandlerExtended(Head(wire))
    BY <2>3, <2>5 DEF HandlerExtended, TypeOK
  <2>6. CASE HandlerRelease(Head(wire))
    BY <2>3, <2>6 DEF HandlerRelease, TypeOK
  <2>7. CASE HandlerShift(Head(wire))
    BY <2>3, <2>7 DEF HandlerShift, TypeOK
  <2>8. CASE HandlerChar(Head(wire))
    <3>1. Lookup(Head(wire)) \in Byte
      BY <2>1, <2>8, LookupType DEF HandlerChar
    <3>2. CASE enqueue(Lookup(Head(wire)))
      <4>1. UNCHANGED readerVars
        BY <2>2
      <4>2. /\ inputBuffer' \in [Slot -> Byte]
            /\ writeIndex' \in Slot
            /\ accepted' \in Seq(Byte)
            /\ dropped' \in Nat
            /\ ReaderAgrees'
        BY <3>1, <3>2, <4>1, EnqueueType
      <4> QED
        BY <2>1, <2>2, <2>8, <4>2
           DEF HandlerChar, TypeOK, readerVars, keyVars, modeVars
    <3>3. CASE UNCHANGED ringVars
      BY <2>3, <2>8, <3>3 DEF HandlerChar, TypeOK, modeVars
    <3> QED
      BY <2>8, <3>2, <3>3 DEF HandlerChar
  <2> QED
    BY <1>3, <2>4, <2>5, <2>6, <2>7, <2>8 DEF handler
<1>4. ASSUME Reader,
             readIndex' \in Slot, pc' \in PCs, slot' \in Slot, c' \in Byte,
             line' \in Seq(Byte), ReaderAgrees'
      PROVE  IInv'
  BY <1>4 DEF TypeOK, Reader, keyVars, ringVars, modeVars
<1>5. CASE AwaitChar
  BY <1>4, <1>5 DEF AwaitChar, TypeOK, ReaderAgrees, PCs, Reader, ringVars, hasChar
<1>6. CASE AwaitAgain
  BY <1>4, <1>6 DEF AwaitAgain, TypeOK, ReaderAgrees, PCs, Reader, ringVars, hasChar
<1>7. CASE LoadFirst
  BY <1>4, <1>7 DEF LoadFirst, TypeOK, ReaderAgrees, PCs, Reader, ringVars, hasChar
<1>8. CASE StoreLast
  <2>1. Following(readIndex) \in Slot
    BY FollowingValue DEF TypeOK
  <2> QED
    BY <1>4, <1>8, <2>1 DEF StoreLast, TypeOK, ReaderAgrees, PCs
<1>9. CASE StoreFirst
  <2>1. Following(readIndex) \in Slot
    BY FollowingValue DEF TypeOK
  <2> QED
    BY <1>4, <1>9, <2>1 DEF StoreFirst, TypeOK, ReaderAgrees, PCs
<1>10. CASE LoadLast
  BY <1>4, <1>10 DEF LoadLast, TypeOK, ReaderAgrees, PCs
<1>11. CASE getLine
  <2>1. Edited(line, c) \in Seq(Byte)
    BY DEF Edited, TypeOK
  <2> QED
    BY <1>4, <1>11, <2>1 DEF getLine, TypeOK, ReaderAgrees, PCs
<1>12. CASE RunCommand
  <2>1. line' \in Seq(Byte)
    BY <1>12 DEF RunCommand
  <2> QED
    BY <1>4, <1>12, <2>1 DEF RunCommand, TypeOK, ReaderAgrees, PCs
<1>13. CASE UNCHANGED vars
  BY <1>13 DEF vars, keyVars, ringVars, modeVars, readerVars, TypeOK,
               ReaderAgrees, hasChar
<1>14. CASE Spin
  BY <1>13, <1>14 DEF Spin
<1> QED
  BY <1>1, <1>2, <1>3, <1>5, <1>6, <1>7, <1>8, <1>9, <1>10, <1>11, <1>12,
     <1>13, <1>14 DEF Next, ReaderNext, GetChar

(* TypeOK and ReaderAgrees hold in every reachable state: no interrupt      *)
(* between two steps of keyboard::getChar spoils what it has found out.     *)
THEOREM Invariance == Spec => []IInv
BY TypeInitial, Inductive, PTL DEF Spec

(* Both ring indices and all bytes stay in range: keyboard.cpp never        *)
(* indexes inputBuffer out of bounds.                                       *)
THEOREM TypeCorrect == Spec => []TypeOK
<1>1. IInv => TypeOK
  BY DEF IInv
<1> QED
  BY <1>1, Invariance, PTL
-----------------------------------------------------------------------------
(* The ring is a queue *)

(* What Pending is: a sequence of Waiting bytes, read off the ring. *)
PendingOK ==
  /\ Waiting \in Slot
  /\ Pending \in Seq(Byte)
  /\ Len(Pending) = Waiting
  /\ \A i \in 1 .. Waiting :
       Pending[i] = inputBuffer[(readIndex + i - 1) % BufferSize]

(* The number of characters waiting, and the queue's type. *)
LEMMA PendingType == TypeOK => PendingOK
<1> SUFFICES ASSUME TypeOK PROVE PendingOK
  OBVIOUS
<1>0. readIndex \in Slot /\ writeIndex \in Slot
  BY DEF TypeOK
<1>1. Waiting \in Slot
  BY <1>0, BufferAssumption DEF Slot, Waiting
<1>2. ASSUME NEW i \in 1 .. Waiting
      PROVE  inputBuffer[(readIndex + i - 1) % BufferSize] \in Byte
  <2>1. i - 1 \in Slot
    BY <1>1, BufferAssumption DEF Slot
  <2>2. readIndex + (i - 1) = readIndex + i - 1
    BY <1>0, BufferAssumption DEF Slot
  <2>3. (readIndex + i - 1) % BufferSize \in Slot
    BY <1>0, <2>1, <2>2, SlotAt
  <2> QED
    BY <2>3 DEF TypeOK
<1>3. Pending \in [1 .. Waiting -> Byte]
  BY <1>2 DEF Pending
<1>4. Waiting \in Nat
  BY <1>1, BufferAssumption DEF Slot
<1> QED
  BY <1>1, <1>3, <1>4 DEF Pending, PendingOK

(* The ring is full exactly when BufferSize - 1 characters wait. *)
LEMMA FullValue ==
  ASSUME TypeOK
  PROVE  Full <=> Waiting = BufferSize - 1
BY FollowingValue, BufferAssumption DEF TypeOK, Slot, Full, Waiting

(* A step that leaves the ring alone leaves the queue alone. *)
LEMMA PendingSame ==
  ASSUME UNCHANGED <<inputBuffer, readIndex, writeIndex>>
  PROVE  Pending' = Pending
BY DEF Pending, Waiting

(* enqueue into a ring that is not full appends to the queue. *)
LEMMA PendingPush ==
  ASSUME TypeOK, TypeOK', NEW char \in Byte, ~Full,
         inputBuffer' = [inputBuffer EXCEPT ![writeIndex] = char],
         writeIndex' = Following(writeIndex), readIndex' = readIndex
  PROVE  Pending' = Append(Pending, char) /\ Len(Pending) < BufferSize - 1
<1>0. readIndex \in Slot /\ writeIndex \in Slot
  BY DEF TypeOK
<1>f. Following(writeIndex) =
        IF writeIndex + 1 = BufferSize THEN 0 ELSE writeIndex + 1
  BY <1>0, FollowingValue
<1>p. PendingOK
  BY PendingType
<1>1. Waiting \in Slot /\ Waiting < BufferSize - 1
  BY <1>p, FullValue, BufferAssumption DEF PendingOK, Slot
<1>2. Waiting' = Waiting + 1
  BY <1>0, <1>f, BufferAssumption DEF Slot, Full, Waiting
<1>3. (readIndex + Waiting) % BufferSize = writeIndex
  <2>1. (readIndex + Waiting) % BufferSize =
          IF readIndex + Waiting < BufferSize THEN readIndex + Waiting
          ELSE readIndex + Waiting - BufferSize
    BY <1>0, <1>1, SlotAt
  <2> QED
    BY <1>0, <1>1, <2>1, BufferAssumption DEF Slot, Waiting
<1>4. Pending' \in Seq(Byte) /\ Len(Pending') = Waiting + 1
      /\ \A i \in 1 .. Waiting + 1 :
           Pending'[i] = inputBuffer'[(readIndex + i - 1) % BufferSize]
  <2>1. PendingOK'
    BY PendingType, PTL
  <2> QED
    BY <1>2, <2>1 DEF PendingOK
<1>5. Pending \in Seq(Byte) /\ Len(Pending) = Waiting
      /\ \A i \in 1 .. Waiting :
           Pending[i] = inputBuffer[(readIndex + i - 1) % BufferSize]
  BY <1>p DEF PendingOK
<1>6. ASSUME NEW i \in 1 .. Waiting
      PROVE  Pending'[i] = Pending[i]
  <2>1. i - 1 \in Slot
    BY <1>1, BufferAssumption DEF Slot
  <2>2. readIndex + i - 1 = readIndex + (i - 1)
    BY <1>0, BufferAssumption DEF Slot
  <2>3. (readIndex + (i - 1)) % BufferSize =
          IF readIndex + (i - 1) < BufferSize THEN readIndex + (i - 1)
          ELSE readIndex + (i - 1) - BufferSize
    BY <1>0, <2>1, SlotAt
  <2>4. (readIndex + (i - 1)) % BufferSize # writeIndex
    BY <1>0, <2>1, <2>3, <1>1, BufferAssumption DEF Waiting, Slot
  <2>5. (readIndex + (i - 1)) % BufferSize \in Slot
    BY <1>0, <2>1, SlotAt
  <2>6. inputBuffer'[(readIndex + (i - 1)) % BufferSize]
          = inputBuffer[(readIndex + (i - 1)) % BufferSize]
    BY <2>4, <2>5 DEF TypeOK
  <2> QED
    BY <1>1, <1>4, <1>5, <2>2, <2>6
<1>7. Pending'[Waiting + 1] = char
  <2>1. readIndex + (Waiting + 1) - 1 = readIndex + Waiting
    BY <1>0, <1>1, BufferAssumption DEF Slot
  <2>2. Waiting + 1 \in 1 .. Waiting + 1
    BY <1>1, BufferAssumption DEF Slot
  <2>3. inputBuffer'[writeIndex] = char
    BY <1>0 DEF TypeOK
  <2> QED
    BY <1>3, <1>4, <2>1, <2>2, <2>3
<1>8. Append(Pending, char) \in Seq(Byte)
      /\ Len(Append(Pending, char)) = Waiting + 1
      /\ \A i \in 1 .. Waiting : Append(Pending, char)[i] = Pending[i]
      /\ Append(Pending, char)[Waiting + 1] = char
  BY <1>5, <1>1, BufferAssumption DEF Slot
<1>9. \A i \in 1 .. Waiting + 1 : Pending'[i] = Append(Pending, char)[i]
  BY <1>1, <1>6, <1>7, <1>8, BufferAssumption DEF Slot
<1> QED
  BY <1>1, <1>4, <1>5, <1>8, <1>9

(* Advancing readIndex over a nonempty ring removes the queue's head. *)
LEMMA PendingPop ==
  ASSUME TypeOK, TypeOK', hasChar,
         readIndex' = Following(readIndex),
         UNCHANGED <<inputBuffer, writeIndex>>
  PROVE  /\ Pending # <<>>
         /\ Head(Pending) = inputBuffer[readIndex]
         /\ Pending' = Tail(Pending)
<1>0. readIndex \in Slot /\ writeIndex \in Slot
  BY DEF TypeOK
<1>f. /\ Following(readIndex) =
           IF readIndex + 1 = BufferSize THEN 0 ELSE readIndex + 1
      /\ readIndex' \in Slot
  BY <1>0, FollowingValue
<1>p. PendingOK
  BY PendingType
<1>1. Waiting \in Slot /\ Waiting >= 1
  BY <1>0, <1>p, BufferAssumption DEF PendingOK, Slot, hasChar, Waiting
<1>2. Waiting' = Waiting - 1
  BY <1>0, <1>f, BufferAssumption DEF Slot, hasChar, Waiting
<1>3. Pending \in Seq(Byte) /\ Len(Pending) = Waiting
      /\ \A i \in 1 .. Waiting :
           Pending[i] = inputBuffer[(readIndex + i - 1) % BufferSize]
  BY <1>p DEF PendingOK
<1>4. Pending' \in Seq(Byte) /\ Len(Pending') = Waiting - 1
      /\ \A i \in 1 .. Waiting - 1 :
           Pending'[i] = inputBuffer[(readIndex' + i - 1) % BufferSize]
  <2>1. PendingOK'
    BY PendingType, PTL
  <2> QED
    BY <1>2, <2>1 DEF PendingOK
<1>5. Head(Pending) = inputBuffer[readIndex]
  <2>0. 0 \in Slot
    BY BufferAssumption DEF Slot
  <2>1. (readIndex + 0) % BufferSize = readIndex
    <3>1. (readIndex + 0) % BufferSize =
            IF readIndex + 0 < BufferSize THEN readIndex + 0
            ELSE readIndex + 0 - BufferSize
      BY <1>0, <2>0, SlotAt
    <3> QED
      BY <1>0, <3>1, BufferAssumption DEF Slot
  <2>2. readIndex + 1 - 1 = readIndex + 0
    BY <1>0, BufferAssumption DEF Slot
  <2>3. 1 \in 1 .. Waiting
    BY <1>1, BufferAssumption DEF Slot
  <2>4. Pending[1] = inputBuffer[readIndex]
    BY <1>3, <2>1, <2>2, <2>3
  <2> QED
    BY <1>1, <1>3, <2>4
<1>6. Tail(Pending) \in Seq(Byte) /\ Len(Tail(Pending)) = Waiting - 1
      /\ \A i \in 1 .. Waiting - 1 : Tail(Pending)[i] = Pending[i + 1]
  BY <1>1, <1>3, BufferAssumption DEF Slot
<1>7. ASSUME NEW i \in 1 .. Waiting - 1
      PROVE  Pending'[i] = Tail(Pending)[i]
  <2>1. i - 1 \in Slot /\ i \in Slot
    BY <1>1, BufferAssumption DEF Slot
  <2>2. (readIndex' + (i - 1)) % BufferSize = (readIndex + i) % BufferSize
    <3>1. (readIndex' + (i - 1)) % BufferSize =
            IF readIndex' + (i - 1) < BufferSize THEN readIndex' + (i - 1)
            ELSE readIndex' + (i - 1) - BufferSize
      BY <1>f, <2>1, SlotAt
    <3>2. (readIndex + i) % BufferSize =
            IF readIndex + i < BufferSize THEN readIndex + i
            ELSE readIndex + i - BufferSize
      BY <1>0, <2>1, SlotAt
    <3> QED
      BY <1>0, <1>f, <2>1, <3>1, <3>2, BufferAssumption DEF Slot
  <2>3. readIndex' + i - 1 = readIndex' + (i - 1)
        /\ readIndex + (i + 1) - 1 = readIndex + i
    BY <1>0, <1>f, <2>1, BufferAssumption DEF Slot
  <2>4. i + 1 \in 1 .. Waiting
    BY <1>1, BufferAssumption DEF Slot
  <2> QED
    BY <1>3, <1>4, <1>6, <2>2, <2>3, <2>4
<1> QED
  BY <1>1, <1>3, <1>4, <1>5, <1>6, <1>7

(* Each step of the driver, the keyboard and the reader is a step of the    *)
(* queue or leaves it alone.                                                *)
LEMMA QueueStep ==
  IInv /\ IInv' /\ [Next]_vars => [Queue!QueueNext]_(Queue!vars)
<1> SUFFICES ASSUME IInv, IInv', [Next]_vars
             PROVE  Queue!QueueNext \/ UNCHANGED Queue!vars
  OBVIOUS
<1>1. TypeOK /\ TypeOK' /\ ReaderAgrees
  BY DEF IInv
<1>2. ASSUME UNCHANGED <<inputBuffer, readIndex, writeIndex, dropped>>,
             UNCHANGED <<pc, slot, c>>
      PROVE  UNCHANGED Queue!vars
  BY <1>2, PendingSame DEF Queue!vars
<1>3. ASSUME UNCHANGED <<inputBuffer, readIndex, writeIndex, dropped>>,
             pc \notin {"stored", "got"}, pc' \notin {"stored", "got"}
      PROVE  UNCHANGED Queue!vars
  BY <1>3, PendingSame DEF Queue!vars
<1>4. ASSUME NEW k \in Keys, Press(k) \/ LetGo(k)
      PROVE  UNCHANGED Queue!vars
  BY <1>2, <1>4 DEF Press, LetGo, Sends, ringVars, readerVars
<1>5. CASE handler
  <2>1. UNCHANGED readerVars
    BY <1>5 DEF handler
  <2>2. CASE UNCHANGED ringVars
    BY <1>2, <2>1, <2>2 DEF ringVars, readerVars
  <2>3. CASE HandlerChar(Head(wire)) /\ enqueue(Lookup(Head(wire)))
    <3> DEFINE char == Lookup(Head(wire))
    <3>1. char \in Byte
      <4>1. Head(wire) \in Byte
        BY <1>1, <1>5 DEF handler, TypeOK
      <4> QED
        BY <2>3, <4>1, LookupType DEF HandlerChar
    <3>2. UNCHANGED <<readIndex, pc, slot, c>>
      BY <2>1 DEF readerVars
    <3>3. CASE Full
      <4>1. UNCHANGED <<inputBuffer, writeIndex>> /\ dropped' = dropped + 1
        BY <2>3, <3>3 DEF enqueue
      <4>2. Pending' = Pending
        BY <3>2, <4>1, PendingSame
      <4>3. Len(Pending) = BufferSize - 1
        BY <1>1, <3>3, PendingType, FullValue DEF PendingOK
      <4>4. Queue!Lose
        BY <3>2, <4>1, <4>2, <4>3 DEF Queue!Lose
      <4> QED
        BY <4>4 DEF Queue!QueueNext
    <3>4. CASE ~Full
      <4>1. /\ inputBuffer' = [inputBuffer EXCEPT ![writeIndex] = char]
            /\ writeIndex' = Following(writeIndex)
            /\ dropped' = dropped
        BY <2>3, <3>4 DEF enqueue
      <4>2. Pending' = Append(Pending, char) /\ Len(Pending) < BufferSize - 1
        BY <1>1, <3>1, <3>2, <3>4, <4>1, PendingPush
      <4>3. pc = "stored" => inputBuffer'[slot] = inputBuffer[slot]
        <5>1. ASSUME pc = "stored" PROVE writeIndex # slot
          BY <1>1, <3>4, <5>1 DEF ReaderAgrees, Full
        <5> QED
          BY <1>1, <4>1, <5>1 DEF TypeOK
      <4>4. Queue!Accept(char)
        BY <3>2, <4>1, <4>2, <4>3 DEF Queue!Accept
      <4> QED
        BY <3>1, <4>4 DEF Queue!QueueNext
    <3> QED
      BY <3>3, <3>4
  <2> QED
    BY <1>5, <2>2, <2>3
       DEF handler, HandlerPrefix, HandlerExtended, HandlerRelease,
           HandlerShift, HandlerChar
<1>6. CASE AwaitChar \/ AwaitAgain \/ LoadFirst \/ RunCommand
  BY <1>3, <1>6
     DEF AwaitChar, AwaitAgain, LoadFirst, RunCommand, Reader, ringVars
<1>7. CASE StoreLast
  <2>1. /\ Pending # <<>>
        /\ Head(Pending) = inputBuffer[readIndex]
        /\ Pending' = Tail(Pending)
    BY <1>1, <1>7, PendingPop DEF StoreLast, ReaderAgrees, Reader, ringVars
  <2>2. c = inputBuffer[readIndex]
    BY <1>1, <1>7 DEF StoreLast, ReaderAgrees
  <2>3. Queue!Take
    BY <1>7, <2>1, <2>2 DEF StoreLast, Queue!Take, Reader, ringVars
  <2> QED
    BY <2>3 DEF Queue!QueueNext
<1>8. CASE StoreFirst
  <2>1. /\ Pending # <<>>
        /\ Head(Pending) = inputBuffer[readIndex]
        /\ Pending' = Tail(Pending)
    BY <1>1, <1>8, PendingPop DEF StoreFirst, ReaderAgrees, Reader, ringVars
  <2>2. Queue!Take
    BY <1>8, <2>1 DEF StoreFirst, Queue!Take, Reader, ringVars
  <2> QED
    BY <2>2 DEF Queue!QueueNext
<1>9. CASE LoadLast
  <2>1. UNCHANGED <<inputBuffer, readIndex, writeIndex, dropped, slot>>
    BY <1>9 DEF LoadLast, Reader, ringVars
  <2>2. Pending' = Pending
    BY <2>1, PendingSame
  <2> QED
    BY <1>9, <2>1, <2>2 DEF LoadLast, Queue!vars
<1>10. CASE getLine
  <2>1. UNCHANGED <<inputBuffer, readIndex, writeIndex, dropped>>
    BY <1>10 DEF getLine, Reader, ringVars
  <2>2. Pending' = Pending
    BY <2>1, PendingSame
  <2>3. pc = "got" /\ pc' \in {"poll", "command"}
    BY <1>10 DEF getLine
  <2>4. Queue!Use
    BY <2>1, <2>2, <2>3 DEF Queue!Use
  <2> QED
    BY <2>4 DEF Queue!QueueNext
<1>11. CASE UNCHANGED vars \/ Spin
  BY <1>2, <1>11 DEF vars, ringVars, readerVars, Spin
<1> QED
  BY <1>4, <1>5, <1>6, <1>7, <1>8, <1>9, <1>10, <1>11 DEF Next, ReaderNext, GetChar

(* At the start the queue is empty and the reader's hand too. *)
LEMMA QueueInitial == Init => Queue!QueueInit
<1> SUFFICES ASSUME Init PROVE Queue!QueueInit
  OBVIOUS
<1>1. TypeOK
  BY TypeInitial DEF IInv
<1>2. Waiting = 0
  BY DEF Init, Waiting
<1>3. Pending = <<>>
  BY <1>1, <1>2, PendingType DEF PendingOK
<1> QED
  BY <1>3 DEF Init, Queue!QueueInit

(* keyboard.cpp's ring implements the bounded queue: enqueue in interrupt   *)
(* context and getChar outside it lose, repeat and reorder nothing, for     *)
(* every ring size, with either order of getChar's load and store.          *)
THEOREM Refinement == Spec => ImplementsQueue
<1>1. IInv /\ IInv' /\ [Next]_vars => [Queue!QueueNext]_(Queue!vars)
  BY QueueStep
<1> QED
  BY <1>1, QueueInitial, Invariance, PTL DEF Spec, ImplementsQueue, Queue!QueueSpec
-----------------------------------------------------------------------------
(* The decoder at rest *)

(* The byte at place i of the wire starts a code, rather than being the     *)
(* second byte of an extended one.                                          *)
Leading(i) ==
  IF i = 1 THEN ~extendedScancode ELSE wire[i - 1] # Prefix

ShiftDown(i) == Leading(i) /\ wire[i] \in ShiftCodes
ShiftUp(i) ==
  Leading(i) /\ wire[i] # Prefix /\ wire[i] >= 128 /\ wire[i] - 128 \in ShiftCodes

ShiftHeld == \E k \in held : ~k.ext /\ k.code \in ShiftCodes

(* What the wire holds is whole: behind each prefix, read or not, comes the *)
(* code it announces.  Without a shift key held, whatever turned shift on   *)
(* or is going to is followed by the code that turns it off.                *)
WireWhole ==
  /\ extendedScancode => wire # <<>> /\ wire[1] # Prefix
  /\ \A i \in 1 .. Len(wire) :
       wire[i] = Prefix => i < Len(wire) /\ wire[i + 1] # Prefix

ShiftEnds ==
  ~ShiftHeld =>
    /\ shiftPressed => \E j \in 1 .. Len(wire) : ShiftUp(j)
    /\ \A i \in 1 .. Len(wire) :
         ShiftDown(i) => \E j \in i + 1 .. Len(wire) : ShiftUp(j)

DecoderInv == WireWhole /\ ShiftEnds

(* A key's two codes: neither is the prefix. *)
LEMMA KeyCodes ==
  ASSUME NEW k \in Keys
  PROVE  /\ k.code \in 0 .. 127 /\ k.ext \in BOOLEAN
         /\ k.code # Prefix /\ k.code + 128 # Prefix
         /\ k.code \in Byte /\ k.code + 128 \in Byte
BY KeyAssumption DEF Prefix, Byte

(* What a key sends comes behind what is on the wire.                       *)
LEMMA SentBehind ==
  ASSUME TypeOK, NEW k \in Keys, NEW code \in Byte, Sends(k, code),
         NEW n \in Nat, n = Len(wire)
  PROVE  /\ Len(wire') = IF k.ext THEN n + 2 ELSE n + 1
         /\ \A i \in 1 .. n : wire'[i] = wire[i]
         /\ k.ext => wire'[n + 1] = Prefix /\ wire'[n + 2] = code
         /\ ~k.ext => wire'[n + 1] = code
         /\ UNCHANGED <<shiftPressed, extendedScancode>>
<1>1. wire \in Seq(Byte) /\ Prefix \in Byte
  BY DEF TypeOK, Prefix, Byte
<1>2. CASE k.ext
  <2>1. wire' = wire \o <<Prefix, code>>
    BY <1>2 DEF Sends
  <2>2. <<Prefix, code>> \in Seq(Byte) /\ Len(<<Prefix, code>>) = 2
    BY <1>1
  <2> QED
    BY <1>1, <1>2, <2>1, <2>2 DEF Sends, modeVars
<1>3. CASE ~k.ext
  <2>1. wire' = wire \o <<code>>
    BY <1>3 DEF Sends
  <2>2. <<code>> \in Seq(Byte) /\ Len(<<code>>) = 1
    OBVIOUS
  <2> QED
    BY <1>1, <1>3, <2>1, <2>2 DEF Sends, modeVars
<1> QED
  BY <1>2, <1>3

(* A code sent keeps the wire whole, and what led before leads still.       *)
LEMMA SentWhole ==
  ASSUME TypeOK, WireWhole, NEW k \in Keys, NEW code \in Byte, code # Prefix,
         Sends(k, code), NEW n \in Nat, n = Len(wire)
  PROVE  /\ WireWhole'
         /\ \A i \in 1 .. n : Leading(i)' = Leading(i)
         /\ \A i \in 1 .. n : ShiftDown(i)' = ShiftDown(i)
         /\ \A i \in 1 .. n : ShiftUp(i)' = ShiftUp(i)
         /\ Leading(n + 1)'
         /\ k.ext => ~Leading(n + 2)'
<1>1. /\ Len(wire') = IF k.ext THEN n + 2 ELSE n + 1
      /\ \A i \in 1 .. n : wire'[i] = wire[i]
      /\ k.ext => wire'[n + 1] = Prefix /\ wire'[n + 2] = code
      /\ ~k.ext => wire'[n + 1] = code
      /\ UNCHANGED <<shiftPressed, extendedScancode>>
  BY SentBehind
<1>2. wire \in Seq(Byte) /\ extendedScancode \in BOOLEAN
  BY DEF TypeOK
<1>3. \A i \in 1 .. n : wire[i] = Prefix => i < n /\ wire[i + 1] # Prefix
  BY DEF WireWhole
<1>4. \A i \in 1 .. n : Leading(i)' = Leading(i)
  <2> SUFFICES ASSUME NEW i \in 1 .. n PROVE Leading(i)' = Leading(i)
    OBVIOUS
  <2>1. CASE i = 1
    BY <1>1, <2>1 DEF Leading
  <2>2. CASE i # 1
    <3>1. i - 1 \in 1 .. n
      BY <1>1, <2>2
    <3> QED
      BY <1>1, <2>2, <3>1 DEF Leading
  <2> QED
    BY <2>1, <2>2
<1>5. Leading(n + 1)'
  <2>1. CASE n = 0
    <3>1. extendedScancode => wire # <<>>
      BY DEF WireWhole
    <3>2. wire # <<>> => Len(wire) # 0
      BY <1>2
    <3> QED
      BY <1>1, <2>1, <3>1, <3>2 DEF Leading
  <2>2. CASE n # 0
    <3>1. n \in 1 .. n /\ wire[n] # Prefix
      BY <1>1, <1>3, <2>2
    <3>2. wire'[(n + 1) - 1] # Prefix /\ n + 1 # 1
      BY <1>1, <2>2, <3>1
    <3> QED
      BY <3>2 DEF Leading
  <2> QED
    BY <2>1, <2>2
<1>6. k.ext => ~Leading(n + 2)'
  <2>1. ASSUME k.ext PROVE wire'[(n + 2) - 1] = Prefix /\ n + 2 # 1
    BY <1>1, <2>1
  <2> QED
    BY <2>1 DEF Leading
<1>7. \A i \in 1 .. n : /\ ShiftDown(i)' = ShiftDown(i)
                        /\ ShiftUp(i)' = ShiftUp(i)
  BY <1>1, <1>4 DEF ShiftDown, ShiftUp
<1>8. WireWhole'
  <2>1. extendedScancode' => wire' # <<>> /\ wire'[1] # Prefix
    <3> SUFFICES ASSUME extendedScancode PROVE wire' # <<>> /\ wire'[1] # Prefix
      BY <1>1
    <3>1. wire # <<>> /\ wire[1] # Prefix
      BY DEF WireWhole
    <3>2. 1 \in 1 .. n
      BY <1>1, <1>2, <3>1
    <3> QED
      BY <1>1, <3>1, <3>2
  <2>2. ASSUME NEW i \in 1 .. Len(wire'), wire'[i] = Prefix
        PROVE  i < Len(wire') /\ wire'[i + 1] # Prefix
    <3>1. CASE i \in 1 .. n
      <4>1. i < n /\ wire[i + 1] # Prefix
        BY <1>1, <1>3, <2>2, <3>1
      <4>2. i + 1 \in 1 .. n
        BY <1>1, <3>1, <4>1
      <4> QED
        BY <1>1, <4>1, <4>2
    <3>2. CASE i = n + 1
      BY <1>1, <2>2, <3>2
    <3>3. CASE i = n + 2
      BY <1>1, <2>2, <3>3
    <3> QED
      BY <1>1, <3>1, <3>2, <3>3
  <2> QED
    BY <2>1, <2>2 DEF WireWhole
<1> QED
  BY <1>4, <1>5, <1>6, <1>7, <1>8

(* Pressing a key keeps the decoder's invariant: what turns shift on is the *)
(* code of a shift key, which is held now.                                  *)
LEMMA DecoderPress ==
  ASSUME TypeOK, TypeOK', DecoderInv, NEW k \in Keys, Press(k)
  PROVE  DecoderInv'
<1>n. PICK n \in Nat : n = Len(wire)
  BY DEF TypeOK
<1>1. Sends(k, k.code) /\ held' = held \cup {k}
  BY DEF Press
<1>2. /\ k.code \in Byte /\ k.code # Prefix /\ k.code \in 0 .. 127
  BY KeyCodes
<1>3. WireWhole'
      /\ (\A i \in 1 .. n : ShiftDown(i)' = ShiftDown(i))
      /\ (\A i \in 1 .. n : ShiftUp(i)' = ShiftUp(i))
      /\ (k.ext => ~Leading(n + 2)')
  BY <1>n, <1>1, <1>2, SentWhole DEF DecoderInv
<1>4. /\ n \in Nat
      /\ Len(wire') = IF k.ext THEN n + 2 ELSE n + 1
      /\ k.ext => wire'[n + 1] = Prefix
      /\ ~k.ext => wire'[n + 1] = k.code
      /\ UNCHANGED shiftPressed
  BY <1>n, <1>1, <1>2, SentBehind
<1>5. ShiftEnds'
  <2> SUFFICES ASSUME ~ShiftHeld'
               PROVE  /\ shiftPressed' => \E j \in 1 .. Len(wire') : ShiftUp(j)'
                      /\ \A i \in 1 .. Len(wire') :
                           ShiftDown(i)' => \E j \in i + 1 .. Len(wire') : ShiftUp(j)'
    BY DEF ShiftEnds
  <2>1. ~ShiftHeld /\ (k.ext \/ k.code \notin ShiftCodes)
    BY <1>1 DEF ShiftHeld
  <2>2. /\ shiftPressed => \E j \in 1 .. n : ShiftUp(j)
        /\ \A i \in 1 .. n :
             ShiftDown(i) => \E j \in i + 1 .. n : ShiftUp(j)
    BY <1>n, <2>1 DEF DecoderInv, ShiftEnds
  <2>3. \A i : i \in 1 .. n => i \in 1 .. Len(wire')
    BY <1>4
  <2>4. ASSUME NEW i \in 1 .. Len(wire'), ShiftDown(i)' PROVE i \in 1 .. n
    <3>1. CASE i = n + 1
      <4>1. wire'[n + 1] \in ShiftCodes
        BY <2>4, <3>1 DEF ShiftDown
      <4>2. CASE k.ext
        BY <1>4, <4>1, <4>2 DEF Prefix, ShiftCodes
      <4>3. CASE ~k.ext
        BY <1>4, <2>1, <4>1, <4>3
      <4> QED
        BY <4>2, <4>3
    <3>2. CASE i = n + 2 /\ k.ext
      BY <1>3, <2>4, <3>2 DEF ShiftDown
    <3> QED
      BY <1>4, <3>1, <3>2
  <2>5. ASSUME NEW i \in 1 .. Len(wire'), ShiftDown(i)'
        PROVE  \E j \in i + 1 .. Len(wire') : ShiftUp(j)'
    <3>1. i \in 1 .. n /\ ShiftDown(i)
      BY <1>3, <2>4, <2>5
    <3>2. PICK j \in i + 1 .. n : ShiftUp(j)
      BY <2>2, <3>1
    <3>3. j \in 1 .. n /\ j \in i + 1 .. Len(wire')
      BY <1>4, <3>1
    <3> QED
      BY <1>3, <3>2, <3>3
  <2>6. shiftPressed' => \E j \in 1 .. Len(wire') : ShiftUp(j)'
    BY <1>3, <1>4, <2>2, <2>3
  <2> QED
    BY <2>5, <2>6
<1> QED
  BY <1>3, <1>5 DEF DecoderInv

(* Letting a key go does: if it was the last shift key, the code it sends   *)
(* comes behind all that turns shift on.                                    *)
LEMMA DecoderLetGo ==
  ASSUME TypeOK, TypeOK', DecoderInv, NEW k \in Keys, LetGo(k)
  PROVE  DecoderInv'
<1>n. PICK n \in Nat : n = Len(wire)
  BY DEF TypeOK
<1>1. Sends(k, k.code + 128) /\ held' = held \ {k}
  BY DEF LetGo
<1>2. /\ k.code + 128 \in Byte /\ k.code + 128 # Prefix /\ k.code \in 0 .. 127
  BY KeyCodes
<1>3. WireWhole'
      /\ (\A i \in 1 .. n : ShiftDown(i)' = ShiftDown(i))
      /\ (\A i \in 1 .. n : ShiftUp(i)' = ShiftUp(i))
      /\ Leading(n + 1)'
      /\ (k.ext => ~Leading(n + 2)')
  BY <1>n, <1>1, <1>2, SentWhole DEF DecoderInv
<1>4. /\ n \in Nat
      /\ Len(wire') = IF k.ext THEN n + 2 ELSE n + 1
      /\ k.ext => wire'[n + 1] = Prefix
      /\ ~k.ext => wire'[n + 1] = k.code + 128
      /\ UNCHANGED shiftPressed
  BY <1>n, <1>1, <1>2, SentBehind
<1>5. ASSUME NEW i \in 1 .. Len(wire'), ShiftDown(i)' PROVE i \in 1 .. n
  <2>1. CASE i = n + 1
    <3>1. wire'[n + 1] \in ShiftCodes
      BY <1>5, <2>1 DEF ShiftDown
    <3>2. CASE k.ext
      BY <1>4, <3>1, <3>2 DEF Prefix, ShiftCodes
    <3>3. \A x \in 0 .. 127 : x + 128 \notin ShiftCodes
      BY DEF ShiftCodes
    <3>4. CASE ~k.ext
      BY <1>2, <1>4, <3>1, <3>3, <3>4
    <3> QED
      BY <3>2, <3>4
  <2>2. CASE i = n + 2 /\ k.ext
    BY <1>3, <1>5, <2>2 DEF ShiftDown
  <2> QED
    BY <1>4, <2>1, <2>2
<1>6. ShiftEnds'
  <2> SUFFICES ASSUME ~ShiftHeld'
               PROVE  /\ shiftPressed' => \E j \in 1 .. Len(wire') : ShiftUp(j)'
                      /\ \A i \in 1 .. Len(wire') :
                           ShiftDown(i)' => \E j \in i + 1 .. Len(wire') : ShiftUp(j)'
    BY DEF ShiftEnds
  <2>1. CASE ~k.ext /\ k.code \in ShiftCodes
    <3>1. wire'[n + 1] # Prefix /\ wire'[n + 1] >= 128
          /\ wire'[n + 1] - 128 \in ShiftCodes
      <4>1. (k.code + 128) - 128 = k.code /\ k.code + 128 >= 128
        BY <1>2
      <4> QED
        BY <1>2, <1>4, <2>1, <4>1
    <3>2. ShiftUp(n + 1)' /\ n + 1 \in 1 .. Len(wire')
      BY <1>3, <1>4, <2>1, <3>1 DEF ShiftUp
    <3>3. ASSUME NEW i \in 1 .. Len(wire'), ShiftDown(i)'
          PROVE  n + 1 \in i + 1 .. Len(wire')
      BY <1>4, <1>5, <2>1, <3>3
    <3> QED
      BY <3>2, <3>3
  <2>2. CASE k.ext \/ k.code \notin ShiftCodes
    <3>1. ~ShiftHeld
      BY <1>1, <2>2 DEF ShiftHeld
    <3>2. /\ shiftPressed => \E j \in 1 .. n : ShiftUp(j)
          /\ \A i \in 1 .. n :
               ShiftDown(i) => \E j \in i + 1 .. n : ShiftUp(j)
      BY <1>n, <3>1 DEF DecoderInv, ShiftEnds
    <3>3. \A i : i \in 1 .. n => i \in 1 .. Len(wire')
      BY <1>4
    <3>4. ASSUME NEW i \in 1 .. Len(wire'), ShiftDown(i)'
          PROVE  \E j \in i + 1 .. Len(wire') : ShiftUp(j)'
      <4>1. i \in 1 .. n /\ ShiftDown(i)
        BY <1>3, <1>5, <3>4
      <4>2. PICK j \in i + 1 .. n : ShiftUp(j)
        BY <3>2, <4>1
      <4>3. j \in 1 .. n /\ j \in i + 1 .. Len(wire')
        BY <1>4, <4>1
      <4> QED
        BY <1>3, <4>2, <4>3
    <3>5. shiftPressed' => \E j \in 1 .. Len(wire') : ShiftUp(j)'
      BY <1>3, <1>4, <3>2, <3>3
    <3> QED
      BY <3>4, <3>5
  <2> QED
    BY <2>1, <2>2
<1> QED
  BY <1>3, <1>6 DEF DecoderInv

(* Reading a byte keeps it: the byte at each place moves one place forward, *)
(* and leads there iff it led before.                                       *)
LEMMA DecoderRead ==
  ASSUME TypeOK, DecoderInv, handler
  PROVE  DecoderInv'
<1>n. PICK n \in Nat : n = Len(wire)
  BY DEF TypeOK
<1>1. /\ wire \in Seq(Byte) /\ wire # <<>> /\ n >= 1
      /\ wire' = Tail(wire)
      /\ held' = held
      /\ extendedScancode \in BOOLEAN /\ shiftPressed \in BOOLEAN
  BY <1>n DEF handler, TypeOK, keyVars
<1>2. /\ Len(wire') = n - 1
      /\ \A i \in 1 .. n - 1 : wire'[i] = wire[i + 1]
      /\ Head(wire) = wire[1]
      /\ wire[1] \in Byte
  BY <1>n, <1>1
<1>3. /\ extendedScancode => wire[1] # Prefix
      /\ \A i \in 1 .. n : wire[i] = Prefix => i < n /\ wire[i + 1] # Prefix
  BY <1>n DEF DecoderInv, WireWhole
<1>b. wire[1] < 128 => ~(wire[1] >= 128) /\ wire[1] # Prefix
  <2>1. \A x \in Byte : x < 128 => ~(x >= 128) /\ x # Prefix
    BY DEF Byte, Prefix
  <2> QED
    BY <1>2, <2>1
(* The byte read announces a second one iff it is the prefix. *)
<1>4. extendedScancode' = (wire[1] = Prefix)
  <2>1. CASE HandlerPrefix(wire[1])
    BY <2>1 DEF HandlerPrefix
  <2>2. CASE HandlerExtended(wire[1])
    BY <2>2 DEF HandlerExtended
  <2>3. CASE HandlerRelease(wire[1])
    BY <1>1, <2>3 DEF HandlerRelease
  <2>4. CASE HandlerShift(wire[1]) \/ HandlerChar(wire[1])
    <3>1. wire[1] < 128 /\ ~extendedScancode /\ extendedScancode' = extendedScancode
      BY <2>4 DEF HandlerShift, HandlerChar, modeVars
    <3> QED
      BY <1>1, <1>b, <3>1
  <2> QED
    BY <1>2, <2>1, <2>2, <2>3, <2>4 DEF handler
<1>5. ASSUME NEW i \in 1 .. n - 1
      PROVE  /\ Leading(i)' = Leading(i + 1)
             /\ ShiftDown(i)' = ShiftDown(i + 1)
             /\ ShiftUp(i)' = ShiftUp(i + 1)
  <2>1. wire'[i] = wire[i + 1]
    BY <1>2
  <2>2. CASE i = 1
    <3>1. Leading(i)' = (wire[1] # Prefix)
      BY <1>4, <2>2 DEF Leading
    <3>2. Leading(i + 1) = (wire[1] # Prefix)
      BY <2>2 DEF Leading
    <3> QED
      BY <2>1, <3>1, <3>2 DEF ShiftDown, ShiftUp
  <2>3. CASE i # 1
    <3>1. i - 1 \in 1 .. n - 1 /\ (i - 1) + 1 = i /\ (i + 1) - 1 = i /\ i + 1 # 1
      BY <2>3
    <3>2. wire'[i - 1] = wire[i]
      BY <1>2, <3>1
    <3>3. Leading(i)' = (wire'[i - 1] # Prefix)
      BY <2>3 DEF Leading
    <3>4. Leading(i + 1) = (wire[i] # Prefix)
      BY <3>1 DEF Leading
    <3> QED
      BY <2>1, <3>2, <3>3, <3>4 DEF ShiftDown, ShiftUp
  <2> QED
    BY <2>2, <2>3
<1>6. WireWhole'
  <2>1. extendedScancode' => wire' # <<>> /\ wire'[1] # Prefix
    <3> SUFFICES ASSUME wire[1] = Prefix PROVE wire' # <<>> /\ wire'[1] # Prefix
      BY <1>4
    <3>1. 1 \in 1 .. n /\ 1 < n /\ wire[1 + 1] # Prefix
      BY <1>1, <1>3
    <3>2. 1 \in 1 .. n - 1
      BY <3>1
    <3>3. wire'[1] # Prefix
      BY <1>2, <3>1, <3>2
    <3>4. Len(wire') # 0
      BY <1>2, <3>1
    <3>5. wire' # <<>>
      BY <3>4
    <3> QED
      BY <3>3, <3>5
  <2>2. ASSUME NEW i \in 1 .. n - 1, wire'[i] = Prefix
        PROVE  i < n - 1 /\ wire'[i + 1] # Prefix
    <3>1. i + 1 \in 1 .. n /\ wire[i + 1] = Prefix
      BY <1>2, <2>2
    <3>2. i + 1 < n /\ wire[(i + 1) + 1] # Prefix
      BY <1>3, <3>1
    <3>3. i + 1 \in 1 .. n - 1
      BY <3>2
    <3> QED
      BY <1>2, <3>2, <3>3
  <2> QED
    BY <1>2, <2>1, <2>2 DEF WireWhole
(* Shift is on behind this byte if it was on or is a shift key's code, and  *)
(* off if it is the code of one let go.                                     *)
<1>7. /\ shiftPressed' => shiftPressed \/ ShiftDown(1)
      /\ ShiftUp(1) => ~shiftPressed'
  <2>1. Leading(1) = ~extendedScancode
    BY DEF Leading
  <2>2. CASE HandlerPrefix(wire[1]) \/ HandlerExtended(wire[1])
    <3>1. shiftPressed' = shiftPressed
      BY <2>2 DEF HandlerPrefix, HandlerExtended
    <3>2. ~ShiftUp(1)
      BY <2>1, <2>2 DEF ShiftUp, HandlerPrefix, HandlerExtended
    <3> QED
      BY <3>1, <3>2
  <2>3. CASE HandlerRelease(wire[1])
    <3>1. shiftPressed' => shiftPressed
      BY <1>1, <2>3 DEF HandlerRelease
    <3>2. ShiftUp(1) => ~shiftPressed'
      BY <1>1, <2>3 DEF HandlerRelease, ShiftUp
    <3> QED
      BY <3>1, <3>2
  <2>4. CASE HandlerShift(wire[1])
    <3>1. ShiftDown(1)
      BY <2>1, <2>4 DEF HandlerShift, ShiftDown
    <3>2. wire[1] < 128
      BY <2>4 DEF HandlerShift
    <3>3. ~ShiftUp(1)
      BY <1>b, <3>2 DEF ShiftUp
    <3> QED
      BY <3>1, <3>3
  <2>5. CASE HandlerChar(wire[1])
    <3>1. shiftPressed' = shiftPressed /\ wire[1] < 128
      BY <2>5 DEF HandlerChar, modeVars
    <3>2. ~ShiftUp(1)
      BY <1>b, <3>1 DEF ShiftUp
    <3> QED
      BY <3>1, <3>2
  <2> QED
    BY <1>2, <2>2, <2>3, <2>4, <2>5 DEF handler
<1>8. ShiftEnds'
  <2> SUFFICES ASSUME ~ShiftHeld'
               PROVE  /\ shiftPressed' => \E j \in 1 .. Len(wire') : ShiftUp(j)'
                      /\ \A i \in 1 .. Len(wire') :
                           ShiftDown(i)' => \E j \in i + 1 .. Len(wire') : ShiftUp(j)'
    BY DEF ShiftEnds
  <2>1. ~ShiftHeld
    BY <1>1 DEF ShiftHeld
  <2>2. /\ shiftPressed => \E j \in 1 .. n : ShiftUp(j)
        /\ \A i \in 1 .. n :
             ShiftDown(i) => \E j \in i + 1 .. n : ShiftUp(j)
    BY <1>n, <2>1 DEF DecoderInv, ShiftEnds
  <2>3. ASSUME NEW j \in 2 .. n, ShiftUp(j)
        PROVE  j - 1 \in 1 .. n - 1 /\ ShiftUp(j - 1)'
    <3>1. PICK i \in 1 .. n - 1 : i = j - 1
      OBVIOUS
    <3>2. i + 1 = j
      BY <3>1
    <3>3. ShiftUp(i)' = ShiftUp(j)
      BY <1>5, <3>2
    <3> QED
      BY <2>3, <3>1, <3>3
  <2>4. ASSUME shiftPressed' PROVE \E j \in 1 .. n - 1 : ShiftUp(j)'
    <3>1. PICK j \in 1 .. n : ShiftUp(j) /\ (shiftPressed \/ j # 1)
      <4>1. CASE shiftPressed
        BY <2>2, <4>1
      <4>2. CASE ShiftDown(1)
        <5>1. PICK j \in 1 + 1 .. n : ShiftUp(j)
          BY <1>1, <2>2, <4>2
        <5>2. j \in 1 .. n /\ j # 1
          OBVIOUS
        <5> QED
          BY <5>1, <5>2
      <4> QED
        BY <1>7, <2>4, <4>1, <4>2
    <3>2. j # 1
      BY <1>7, <2>4, <3>1
    <3>3. j \in 2 .. n
      BY <3>2
    <3> QED
      BY <2>3, <3>1, <3>3
  <2>5. ASSUME NEW i \in 1 .. n - 1, ShiftDown(i)'
        PROVE  \E j \in i + 1 .. n - 1 : ShiftUp(j)'
    <3>1. ShiftDown(i + 1) /\ i + 1 \in 1 .. n
      BY <1>5, <2>5
    <3>2. PICK j \in (i + 1) + 1 .. n : ShiftUp(j)
      BY <2>2, <3>1
    <3>3. j \in 2 .. n /\ j - 1 \in i + 1 .. n - 1
      OBVIOUS
    <3> QED
      BY <2>3, <3>2, <3>3
  <2> QED
    BY <1>2, <2>4, <2>5
<1> QED
  BY <1>6, <1>8 DEF DecoderInv

(* At the start nothing is on the wire, no key is held, shift is off. *)
LEMMA DecoderInitial == Init => DecoderInv
<1> SUFFICES ASSUME Init PROVE DecoderInv
  OBVIOUS
<1>1. wire = <<>> /\ Len(wire) = 0 /\ ~extendedScancode /\ ~shiftPressed
  BY DEF Init
<1>2. 1 .. Len(wire) = {}
  BY <1>1
<1> QED
  BY <1>1, <1>2 DEF DecoderInv, WireWhole, ShiftEnds

(* Every step keeps the decoder's invariant. *)
LEMMA DecoderInductive ==
  ASSUME IInv, IInv', DecoderInv, [Next]_vars
  PROVE  DecoderInv'
<1>1. TypeOK /\ TypeOK'
  BY DEF IInv
<1>2. ASSUME UNCHANGED <<keyVars, wire, modeVars>> PROVE DecoderInv'
  <2>1. UNCHANGED <<held, wire, shiftPressed, extendedScancode>>
    BY <1>2 DEF keyVars, modeVars
  <2>2. \A i : /\ ShiftDown(i)' = ShiftDown(i)
               /\ ShiftUp(i)' = ShiftUp(i)
    BY <2>1 DEF ShiftDown, ShiftUp, Leading
  <2>3. WireWhole'
    BY <2>1 DEF DecoderInv, WireWhole
  <2>4. ShiftHeld' = ShiftHeld
    BY <2>1 DEF ShiftHeld
  <2>5. ShiftEnds'
    BY <2>1, <2>2, <2>4, Zenon DEF DecoderInv, ShiftEnds
  <2> QED
    BY <2>3, <2>5 DEF DecoderInv
<1>3. ASSUME NEW k \in Keys, Press(k) \/ LetGo(k) PROVE DecoderInv'
  BY <1>1, <1>3, DecoderPress, DecoderLetGo
<1>4. CASE handler
  BY <1>1, <1>4, DecoderRead
<1>5. CASE ReaderNext
  BY <1>2, <1>5 DEF ReaderNext, GetChar, AwaitChar, AwaitAgain, Spin, LoadFirst, StoreLast,
     StoreFirst, LoadLast, getLine, RunCommand, Reader, vars
<1>6. CASE UNCHANGED vars
  BY <1>2, <1>6 DEF vars
<1> QED
  BY <1>3, <1>4, <1>5, <1>6 DEF Next

(* When nothing is on the wire, the decoder is at rest. *)
LEMMA DecoderRests == TypeOK /\ DecoderInv => DecoderAtRest
<1> SUFFICES ASSUME TypeOK, DecoderInv, wire = <<>>
             PROVE  /\ ~extendedScancode
                    /\ shiftPressed => ShiftHeld
  BY DEF DecoderAtRest, ShiftHeld
<1>1. ~extendedScancode
  BY DEF DecoderInv, WireWhole
<1>2. 1 .. Len(wire) = {}
  OBVIOUS
<1>3. shiftPressed => ShiftHeld
  BY <1>2 DEF DecoderInv, ShiftEnds
<1> QED
  BY <1>1, <1>3
-----------------------------------------------------------------------------
(* What stays on the screen *)

(* The characters from i + 1 to j less the backspaces among them.           *)
Net(s, i, j) == j - i - 2 * Cardinality(Erases(s, i + 1, j))

(* A nonempty set of numbers up to n has a greatest one. *)
LEMMA Greatest ==
  ASSUME NEW n \in Nat, NEW S \in SUBSET (0 .. n), S # {}
  PROVE  \E m \in S : \A i \in S : i <= m
<1> DEFINE T == {n - i : i \in S}
<1>1. IsWellFoundedOn(OpToRel(<, Nat), Nat)
  BY NatLessThanWellFounded, Zenon
<1>s. \A i \in S : i \in 0 .. n /\ n - i \in Nat
  OBVIOUS
<1>2. T \subseteq Nat /\ T # {}
  BY <1>s
<1>3. PICK d \in T : \A k \in T : ~(<<k, d>> \in OpToRel(<, Nat))
  BY <1>1, <1>2, WFMin, Zenon
<1>4. \A k \in T : ~(k < d)
  BY <1>2, <1>3 DEF OpToRel
<1>5. PICK m \in S : d = n - m
  OBVIOUS
<1>6. ASSUME NEW i \in S PROVE i <= m
  <2>1. n - i \in T /\ ~(n - i < n - m)
    BY <1>4, <1>5
  <2>2. i \in 0 .. n /\ m \in 0 .. n
    OBVIOUS
  <2> HIDE DEF T
  <2> QED
    BY <2>1, <2>2
<1> QED
  BY <1>6

(* The backspaces of a stretch are finitely many. *)
LEMMA ErasesFinite ==
  ASSUME NEW s, NEW a \in Int, NEW b \in Int
  PROVE  /\ IsFiniteSet(Erases(s, a, b))
         /\ Cardinality(Erases(s, a, b)) \in Nat
<1>1. IsFiniteSet(a .. b)
  BY FS_Interval
<1>2. Erases(s, a, b) \in SUBSET (a .. b)
  BY DEF Erases
<1> QED
  BY <1>1, <1>2, FS_Subset, FS_CardinalityType

(* The next character adds one, a backspace takes one away. *)
LEMMA NetStep ==
  ASSUME NEW s, NEW i \in Nat, NEW j \in Nat, i <= j
  PROVE  /\ Net(s, i, j) \in Int
         /\ Net(s, i, i) = 0
         /\ Net(s, i, j + 1) =
              Net(s, i, j) + (IF s[j + 1] = Backspace THEN -1 ELSE 1)
<1> DEFINE E == Erases(s, i + 1, j)
           F == Erases(s, i + 1, j + 1)
<1>1. IsFiniteSet(E) /\ Cardinality(E) \in Nat
  BY ErasesFinite
<1>2. Cardinality(F) =
        Cardinality(E) + (IF s[j + 1] = Backspace THEN 1 ELSE 0)
  <2>1. CASE s[j + 1] = Backspace
    <3>1. F = E \cup {j + 1} /\ j + 1 \notin E
      BY <2>1 DEF Erases
    <3> QED
      BY <1>1, <2>1, <3>1, FS_AddElement
  <2>2. CASE s[j + 1] # Backspace
    <3>1. F = E
      BY <2>2 DEF Erases
    <3> QED
      BY <1>1, <2>2, <3>1
  <2> QED
    BY <2>1, <2>2
<1>3. Erases(s, i + 1, i) = {}
  BY DEF Erases
<1>4. Cardinality(Erases(s, i + 1, i)) = 0
  BY <1>3, FS_EmptySet
<1>5. /\ Net(s, i, j) = j - i - 2 * Cardinality(E)
      /\ Net(s, i, j + 1) = (j + 1) - i - 2 * Cardinality(F)
      /\ Net(s, i, i) = i - i - 2 * Cardinality(Erases(s, i + 1, i))
  BY Zenon DEF Net
<1> HIDE DEF E, F
<1>6. Net(s, i, i) = 0
  BY <1>4, <1>5
<1> QED
  BY <1>1, <1>2, <1>5, <1>6

(* Two stretches behind one another add up. *)
LEMMA NetAdds ==
  ASSUME NEW s, NEW i \in Nat, NEW j \in Nat, NEW k \in Nat, i <= j, j <= k
  PROVE  Net(s, i, k) = Net(s, i, j) + Net(s, j, k)
<1> DEFINE E == Erases(s, i + 1, j)
           F == Erases(s, j + 1, k)
           G == Erases(s, i + 1, k)
<1>1. /\ IsFiniteSet(E) /\ Cardinality(E) \in Nat
      /\ IsFiniteSet(F) /\ Cardinality(F) \in Nat
  BY ErasesFinite
<1>2. G = E \cup F /\ E \cap F = {}
  BY DEF Erases
<1>3. Cardinality(G) = Cardinality(E) + Cardinality(F)
  <2>1. Cardinality(E \cup F) =
          Cardinality(E) + Cardinality(F) - Cardinality(E \cap F)
    BY <1>1, FS_Union, Zenon
  <2>2. Cardinality(E \cap F) = 0
    BY <1>2, FS_EmptySet, Zenon
  <2>3. Cardinality(G) = Cardinality(E) + Cardinality(F) - 0
    BY <1>2, <2>1, <2>2, Zenon
  <2> HIDE DEF E, F, G
  <2> QED
    BY <1>1, <2>3
<1>4. /\ Net(s, i, j) = j - i - 2 * Cardinality(E)
      /\ Net(s, j, k) = k - j - 2 * Cardinality(F)
      /\ Net(s, i, k) = k - i - 2 * Cardinality(G)
  BY DEF Net
<1> HIDE DEF E, F, G
<1> QED
  BY <1>1, <1>3, <1>4

(* What it takes for a character to stay, in these terms. *)
LEMMA StaysNet ==
  ASSUME NEW s, NEW n \in Nat, NEW i \in 1 .. n
  PROVE  i \in Stays(s, n) <=>
           /\ s[i] # Backspace
           /\ \A j \in i .. n : s[j] # Newline /\ Net(s, i, j) >= 0
<1>1. ASSUME NEW j \in i .. n
      PROVE  2 * Cardinality(Erases(s, i + 1, j)) <= j - i <=> Net(s, i, j) >= 0
  <2> DEFINE e == Cardinality(Erases(s, i + 1, j))
  <2>1. e \in Nat
    BY ErasesFinite
  <2>2. Net(s, i, j) = j - i - 2 * e
    BY DEF Net
  <2> HIDE DEF e
  <2>3. 2 * e <= j - i <=> Net(s, i, j) >= 0
    BY <2>1, <2>2
  <2> QED
    BY <2>3 DEF e
<1> QED
  BY <1>1 DEF Stays

(* The last one that stays is followed by as many backspaces as characters: *)
(* otherwise the last that follows an even stretch would stay as well.      *)
LEMMA LastStay ==
  ASSUME NEW s, NEW n \in Nat, NEW m \in Stays(s, n),
         \A i \in Stays(s, n) : i <= m
  PROVE  Net(s, m, n) = 0
<1>1. m \in 1 .. n
  BY DEF Stays
<1>2. \A j \in m .. n : s[j] # Newline /\ Net(s, m, j) >= 0
  BY <1>1, StaysNet
<1> DEFINE J == {j \in m .. n : Net(s, m, j) = 0}
<1>3. J \in SUBSET (0 .. n) /\ m \in J
  BY <1>1, NetStep
<1>4. PICK j \in J : \A k \in J : k <= j
  <2> HIDE DEF J
  <2> QED
    BY <1>3, Greatest
<1>5. j \in m .. n /\ Net(s, m, j) = 0
  OBVIOUS
<1> SUFFICES ASSUME j # n PROVE FALSE
  BY <1>5
<1>6. j + 1 \in m .. n /\ j + 1 \in 1 .. n /\ j \in Nat /\ m \in Nat
  BY <1>1, <1>5
<1>7. Net(s, m, j + 1) = Net(s, m, j) + (IF s[j + 1] = Backspace THEN -1 ELSE 1)
  <2>1. m <= j
    BY <1>5, <1>6
  <2> QED
    BY <1>6, <2>1, NetStep
<1>8. Net(s, m, j + 1) >= 0
  BY <1>2, <1>6
<1>9. s[j + 1] # Backspace /\ Net(s, m, j + 1) = 1
  BY <1>5, <1>7, <1>8
<1>10. ASSUME NEW k \in j + 1 .. n
       PROVE  s[k] # Newline /\ Net(s, j + 1, k) >= 0
  <2>1. k \in m .. n /\ k \in Nat /\ k > j
    BY <1>5, <1>6
  <2>2. s[k] # Newline /\ Net(s, m, k) >= 0
    BY <1>2, <2>1
  <2>3. Net(s, m, k) # 0
    BY <1>4, <1>6, <2>1
  <2>4. Net(s, m, k) = Net(s, m, j + 1) + Net(s, j + 1, k)
    BY <1>6, <2>1, NetAdds
  <2>5. Net(s, m, k) \in Int /\ Net(s, j + 1, k) \in Int
    <3>1. m <= k /\ j + 1 <= k /\ j + 1 \in Nat
      BY <1>6, <2>1
    <3> QED
      BY <1>6, <2>1, <3>1, NetStep
  <2> QED
    BY <1>9, <2>2, <2>3, <2>4, <2>5
<1>11. j + 1 \in Stays(s, n)
  BY <1>6, <1>9, <1>10, StaysNet
<1> QED
  BY <1>5, <1>6, <1>11

(* A further character stays, and all that stayed do. *)
LEMMA StaysCharacter ==
  ASSUME NEW s, NEW n \in Nat, s[n + 1] \notin {Backspace, Newline}
  PROVE  Stays(s, n + 1) = Stays(s, n) \cup {n + 1}
<1>1. ASSUME NEW i \in 1 .. n
      PROVE  i \in Stays(s, n + 1) <=> i \in Stays(s, n)
  <2>1. i \in 1 .. n + 1
    OBVIOUS
  <2>2. Net(s, i, n + 1) = Net(s, i, n) + 1 /\ Net(s, i, n) \in Int
    <3>1. i \in Nat /\ i <= n
      OBVIOUS
    <3> QED
      BY <3>1, NetStep
  <2>3. n \in i .. n /\ \A j : j \in i .. n + 1 <=> j \in i .. n \/ j = n + 1
    OBVIOUS
  <2>4. Net(s, i, n) >= 0 => Net(s, i, n + 1) >= 0
    BY <2>2
  <2> QED
    BY <2>1, <2>3, <2>4, StaysNet
<1>2. n + 1 \in Stays(s, n + 1)
  <2>1. n + 1 \in 1 .. n + 1 /\ n + 1 \in Nat
    OBVIOUS
  <2>2. Net(s, n + 1, n + 1) = 0
    BY <2>1, NetStep
  <2>3. ASSUME NEW j \in n + 1 .. n + 1
        PROVE  s[j] # Newline /\ Net(s, n + 1, j) >= 0
    <3>1. j = n + 1
      OBVIOUS
    <3> QED
      BY <2>2, <3>1
  <2> QED
    BY <2>1, <2>3, StaysNet
<1>3. \A k \in 1 .. n + 1 : k \in 1 .. n \/ k = n + 1
  OBVIOUS
<1>4. Stays(s, n) \subseteq 1 .. n /\ Stays(s, n + 1) \subseteq 1 .. n + 1
  BY DEF Stays
<1> QED
  BY <1>1, <1>2, <1>3, <1>4

(* A backspace takes the last one that stays, or nothing. *)
LEMMA StaysBackspace ==
  ASSUME NEW s, NEW n \in Nat, s[n + 1] = Backspace
  PROVE  \/ Stays(s, n) = {} /\ Stays(s, n + 1) = {}
         \/ \E m \in Stays(s, n) :
              /\ \A i \in Stays(s, n) : i <= m
              /\ Stays(s, n + 1) = Stays(s, n) \ {m}
<1>1. Stays(s, n) \subseteq 1 .. n /\ Stays(s, n + 1) \subseteq 1 .. n + 1
  BY DEF Stays
<1>2. Stays(s, n + 1) \subseteq Stays(s, n)
  <2> SUFFICES ASSUME NEW i \in Stays(s, n + 1) PROVE i \in Stays(s, n)
    OBVIOUS
  <2>1. i \in 1 .. n + 1
    BY <1>1
  <2>2. s[i] # Backspace /\ \A j \in i .. n + 1 : s[j] # Newline /\ Net(s, i, j) >= 0
    BY <2>1, StaysNet
  <2>3. i \in 1 .. n /\ \A j \in i .. n : j \in i .. n + 1
    BY <2>1, <2>2
  <2> QED
    BY <2>2, <2>3, StaysNet
<1>3. CASE Stays(s, n) = {}
  BY <1>2, <1>3
<1>4. CASE Stays(s, n) # {}
  <2>1. Stays(s, n) \in SUBSET (0 .. n)
    BY <1>1
  <2>2. PICK m \in Stays(s, n) : \A i \in Stays(s, n) : i <= m
    BY <1>4, <2>1, Greatest
  <2>3. m \in 1 .. n
    BY <1>1
  <2>4. m \notin Stays(s, n + 1)
    <3>1. Net(s, m, n) = 0
      BY <2>2, LastStay
    <3>2. Net(s, m, n + 1) = -1
      <4>1. Net(s, m, n + 1) =
              Net(s, m, n) + (IF s[n + 1] = Backspace THEN -1 ELSE 1)
        <5>1. m \in Nat /\ m <= n
          BY <2>3
        <5> QED
          BY <5>1, NetStep
      <4> QED
        BY <3>1, <4>1
    <3>3. m \in 1 .. n + 1 /\ n + 1 \in m .. n + 1
      BY <2>3
    <3>4. ~(Net(s, m, n + 1) >= 0)
      BY <3>2
    <3> QED
      BY <3>3, <3>4, StaysNet
  <2>5. ASSUME NEW i \in Stays(s, n), i # m
        PROVE  i \in Stays(s, n + 1)
    <3>1. i \in 1 .. n /\ i < m /\ i \in 1 .. n + 1
      BY <1>1, <2>2, <2>3, <2>5
    <3>2. s[i] # Backspace /\ \A j \in i .. n : s[j] # Newline /\ Net(s, i, j) >= 0
      BY <3>1, StaysNet
(* Up to just before m at least even, m itself one more, and behind it even. *)
    <3>3. Net(s, i, n + 1) >= 0
      <4>1. m - 1 \in i .. n /\ m - 1 \in Nat /\ m \in Nat /\ i \in Nat
            /\ i <= m - 1 /\ (m - 1) + 1 = m /\ m <= n /\ i <= m /\ i <= n
        BY <2>3, <3>1
      <4>2. Net(s, i, m - 1) >= 0 /\ Net(s, i, m - 1) \in Int
        BY <3>2, <4>1, NetStep
      <4>3. s[m] # Backspace
        BY <2>3, StaysNet
      <4>4. Net(s, i, m) = Net(s, i, m - 1) + 1
        <5>1. Net(s, i, (m - 1) + 1) =
                Net(s, i, m - 1) + (IF s[(m - 1) + 1] = Backspace THEN -1 ELSE 1)
          BY <4>1, NetStep
        <5> QED
          BY <4>1, <4>3, <5>1
      <4>5. Net(s, i, n) = Net(s, i, m) + Net(s, m, n)
        BY <4>1, NetAdds
      <4>6. Net(s, m, n) = 0
        BY <2>2, LastStay
      <4>7. Net(s, i, n + 1) = Net(s, i, n) + (-1)
        BY <4>1, NetStep
      <4> QED
        BY <4>2, <4>4, <4>5, <4>6, <4>7
    <3>4. s[n + 1] # Newline
      BY DEF Backspace, Newline
    <3>5. \A j \in i .. n + 1 : j \in i .. n \/ j = n + 1
      BY <3>1
    <3> QED
      BY <3>1, <3>2, <3>3, <3>4, <3>5, StaysNet
  <2> QED
    BY <1>2, <2>2, <2>4, <2>5
<1> QED
  BY <1>3, <1>4

(* Behind an Enter nothing stays of what was before. *)
LEMMA StaysNewline ==
  ASSUME NEW s, NEW n \in Nat, s[n + 1] = Newline
  PROVE  Stays(s, n + 1) = {}
<1>1. \A i \in 1 .. n + 1 : n + 1 \in i .. n + 1
  OBVIOUS
<1> QED
  BY <1>1 DEF Stays

(* Characters to come change nothing of what stays of those before. *)
LEMMA StaysSame ==
  ASSUME NEW s, NEW t, NEW n \in Nat, \A i \in 1 .. n : t[i] = s[i]
  PROVE  /\ Stays(t, n) = Stays(s, n)
         /\ \A l : Shows(l, t, n) <=> Shows(l, s, n)
<1>1. ASSUME NEW i \in 1 .. n, NEW j \in i .. n
      PROVE  Erases(t, i + 1, j) = Erases(s, i + 1, j)
  <2>1. \A k \in i + 1 .. j : k \in 1 .. n
    OBVIOUS
  <2> QED
    BY <2>1 DEF Erases
<1>2. \A i \in 1 .. n : \A j \in i .. n : j \in 1 .. n
  OBVIOUS
<1>3. Stays(t, n) = Stays(s, n)
  BY <1>1, <1>2 DEF Stays
<1>4. \A i \in Stays(s, n) : t[i] = s[i]
  BY DEF Stays
<1> QED
  BY <1>3, <1>4 DEF Shows

(* The number of those that stay up to i, of a set S of places. *)
RankIn(S, i) == Cardinality({k \in S : k <= i})

(* Ranks go from 1 to the size of the set. *)
LEMMA RankType ==
  ASSUME NEW n \in Nat, NEW S \in SUBSET (1 .. n), NEW i \in S
  PROVE  /\ IsFiniteSet(S) /\ Cardinality(S) \in Nat
         /\ RankIn(S, i) \in 1 .. Cardinality(S)
<1> DEFINE R == {k \in S : k <= i}
<1>1. IsFiniteSet(1 .. n)
  BY FS_Interval
<1>2. IsFiniteSet(S) /\ Cardinality(S) \in Nat
  BY <1>1, FS_Subset, FS_CardinalityType
<1>3. R \in SUBSET S /\ i \in R
  OBVIOUS
<1>4. IsFiniteSet(R) /\ Cardinality(R) \in Nat /\ Cardinality(R) <= Cardinality(S)
  <2> HIDE DEF R
  <2> QED
    BY <1>2, <1>3, FS_Subset, FS_CardinalityType
<1>5. Cardinality(R) # 0
  <2> HIDE DEF R
  <2> QED
    BY <1>3, <1>4, FS_EmptySet
<1>6. RankIn(S, i) = Cardinality(R)
  BY DEF RankIn
<1> HIDE DEF R
<1> QED
  BY <1>2, <1>4, <1>5, <1>6

(* getLine appends a character. *)
LEMMA ShowsCharacter ==
  ASSUME NEW l \in Seq(Byte), NEW s, NEW n \in Nat, NEW char \in Byte,
         s[n + 1] = char, char \notin {Backspace, Newline}, Shows(l, s, n)
  PROVE  Shows(Append(l, char), s, n + 1)
<1> DEFINE S == Stays(s, n)
           T == Stays(s, n + 1)
<1>1. T = S \cup {n + 1} /\ S \subseteq 1 .. n /\ T \subseteq 1 .. n + 1
  <2>1. S \subseteq 1 .. n /\ T \subseteq 1 .. n + 1
    BY DEF Stays
  <2> QED
    BY <2>1, StaysCharacter
<1>2. Len(l) = Cardinality(S) /\ \A i \in S : l[RankIn(S, i)] = s[i]
  BY DEF Shows, RankIn
<1> HIDE DEF S, T
<1>3. IsFiniteSet(S) /\ Cardinality(S) \in Nat
  <2>1. IsFiniteSet(1 .. n)
    BY FS_Interval
  <2> QED
    BY <1>1, <2>1, FS_Subset, FS_CardinalityType
<1>4. n + 1 \notin S
  BY <1>1
<1>5. Cardinality(T) = Cardinality(S) + 1
  BY <1>1, <1>3, <1>4, FS_AddElement
<1>6. ASSUME NEW i \in S
      PROVE  Append(l, char)[RankIn(T, i)] = s[i]
  <2>1. {k \in T : k <= i} = {k \in S : k <= i}
    BY <1>1
  <2>2. RankIn(T, i) = RankIn(S, i)
    BY <2>1 DEF RankIn
  <2>3. RankIn(S, i) \in 1 .. Len(l)
    BY <1>1, <1>2, RankType
  <2>4. Append(l, char)[RankIn(S, i)] = l[RankIn(S, i)]
    BY <2>3
  <2> QED
    BY <1>2, <2>2, <2>4
<1>7. Append(l, char)[RankIn(T, n + 1)] = s[n + 1]
  <2>1. {k \in T : k <= n + 1} = T
    <3>1. \A k \in 1 .. n + 1 : k <= n + 1
      OBVIOUS
    <3>2. \A k \in T : k <= n + 1
      BY <1>1, <3>1
    <3> QED
      BY <3>2
  <2>2. RankIn(T, n + 1) = Len(l) + 1
    BY <1>2, <1>5, <2>1 DEF RankIn
  <2> QED
    BY <2>2
<1>8. Len(Append(l, char)) = Cardinality(T)
  BY <1>2, <1>5
<1>9. \A i \in T : Append(l, char)[RankIn(T, i)] = s[i]
  BY <1>1, <1>6, <1>7
<1> QED
  BY <1>8, <1>9 DEF Shows, RankIn, T

(* A line that shows nothing is empty. *)
LEMMA ShowsNothing ==
  ASSUME NEW l \in Seq(Byte), NEW s, NEW n \in Nat, Stays(s, n) = {}
  PROVE  Shows(l, s, n) <=> l = <<>>
<1>1. Cardinality(Stays(s, n)) = 0
  BY FS_EmptySet
<1>2. Len(l) = 0 <=> l = <<>>
  OBVIOUS
<1> QED
  BY <1>1, <1>2 DEF Shows

(* getLine drops the last character at a backspace. *)
LEMMA ShowsBackspace ==
  ASSUME NEW l \in Seq(Byte), NEW s, NEW n \in Nat,
         s[n + 1] = Backspace, Shows(l, s, n)
  PROVE  Shows(Edited(l, Backspace), s, n + 1)
<1>1. CASE Stays(s, n) = {} /\ Stays(s, n + 1) = {}
  <2>1. l = <<>>
    BY <1>1, ShowsNothing
  <2>2. Edited(l, Backspace) = <<>>
    BY <2>1 DEF Edited
  <2>3. <<>> \in Seq(Byte)
    OBVIOUS
  <2> QED
    BY <1>1, <2>2, <2>3, ShowsNothing
<1>2. ASSUME NEW m \in Stays(s, n), \A i \in Stays(s, n) : i <= m,
             Stays(s, n + 1) = Stays(s, n) \ {m}
      PROVE  Shows(Edited(l, Backspace), s, n + 1)
  <2> DEFINE S == Stays(s, n)
             T == Stays(s, n + 1)
             d == SubSeq(l, 1, Len(l) - 1)
  <2>1. S \subseteq 1 .. n /\ T = S \ {m} /\ m \in S /\ (\A i \in S : i <= m)
    BY <1>2 DEF Stays
  <2>2. Len(l) = Cardinality(S) /\ \A i \in S : l[RankIn(S, i)] = s[i]
    BY DEF Shows, RankIn
  <2> HIDE DEF S, T
  <2>3. IsFiniteSet(S) /\ Cardinality(S) \in Nat /\ RankIn(S, m) \in 1 .. Cardinality(S)
    BY <2>1, RankType
  <2>4. Cardinality(T) = Cardinality(S) - 1
    BY <2>1, <2>3, FS_RemoveElement
  <2>5. l # <<>> /\ Edited(l, Backspace) = d
    <3>1. Len(l) # 0
      BY <2>2, <2>3
    <3> QED
      BY <3>1 DEF Edited
  <2>6. Len(l) >= 1 /\ Len(d) = Len(l) - 1
        /\ \A r \in 1 .. Len(l) - 1 : d[r] = l[r]
    <3>1. PICK q \in Nat : Len(l) = q + 1
      BY <2>2, <2>3
    <3>2. Len(l) - 1 = q
      BY <3>1
    <3>3. d = SubSeq(l, 1, q)
      BY <3>2
    <3> HIDE DEF d
    <3>4. Len(d) = q /\ \A r \in 1 .. q : d[r] = l[r]
      BY <3>1, <3>3, SubSeqProperties
    <3> QED
      BY <3>1, <3>2, <3>4
  <2> HIDE DEF d
  <2>7. ASSUME NEW i \in T
        PROVE  d[RankIn(T, i)] = s[i]
    <3>1. i \in S /\ i # m /\ i <= m
      BY <2>1
    <3>2. {k \in T : k <= i} = {k \in S : k <= i}
      <4>1. \A k \in S : k <= i => k # m
        <5>1. i \in 1 .. n /\ m \in 1 .. n
          BY <2>1, <3>1
        <5> QED
          BY <3>1, <5>1
      <4> QED
        BY <2>1, <4>1
    <3>3. RankIn(T, i) = RankIn(S, i)
      BY <3>2 DEF RankIn
    <3>4. RankIn(T, i) \in 1 .. Cardinality(T)
      <4>1. T \in SUBSET (1 .. n)
        BY <2>1
      <4> QED
        BY <4>1, RankType
    <3>5. RankIn(S, i) \in 1 .. Len(l) - 1
      BY <2>2, <2>4, <3>3, <3>4
    <3> QED
      BY <2>2, <2>6, <3>1, <3>3, <3>5
  <2>8. Len(d) = Cardinality(T)
    BY <2>2, <2>4, <2>6
  <2>9. Shows(d, s, n + 1)
    BY <2>7, <2>8 DEF Shows, RankIn, T
  <2> QED
    BY <2>5, <2>9
<1> QED
  BY <1>1, <1>2, StaysBackspace
-----------------------------------------------------------------------------
(* The line is what was typed *)

(* The characters that wait, and the one the reader holds, are the last     *)
(* ones accepted; at a command the last one dealt with was Enter.           *)
AcceptedInOrder ==
  /\ Waiting + InHand <= Len(accepted)
  /\ \A i \in 1 .. Waiting : Pending[i] = accepted[Dealt + InHand + i]
  /\ pc = "stored" => inputBuffer[slot] = accepted[Dealt + 1]
  /\ pc = "got" => c = accepted[Dealt + 1]

LineShows ==
  IF pc = "command" THEN Stays(accepted, Dealt) = {}
  ELSE Shows(line, accepted, Dealt)

LineInv == AcceptedInOrder /\ LineShows

(* The numbers of characters are numbers. *)
LEMMA DealtType ==
  ASSUME TypeOK
  PROVE  /\ Waiting \in Nat /\ Len(accepted) \in Nat
         /\ InHand \in {0, 1}
         /\ Dealt \in Int
         /\ Dealt + InHand + Waiting = Len(accepted)
<1>1. Waiting \in Slot
  BY PendingType DEF PendingOK
<1>2. Waiting \in Nat
  BY <1>1, BufferAssumption DEF Slot
<1>3. Len(accepted) \in Nat
  BY DEF TypeOK
<1>4. InHand \in {0, 1}
  BY DEF InHand
<1> QED
  BY <1>2, <1>3, <1>4 DEF Dealt

(* A step that touches neither what was accepted, nor what waits, nor the   *)
(* line leaves all in order, if the reader holds what it held.              *)
LEMMA LineSame ==
  ASSUME LineInv, Pending' = Pending, Waiting' = Waiting,
         UNCHANGED <<accepted, line>>, InHand' = InHand,
         (pc' = "command") = (pc = "command"),
         pc' = "stored" => pc = "stored" /\ inputBuffer'[slot'] = inputBuffer[slot],
         pc' = "got" => \/ pc = "got" /\ c' = c
                        \/ pc = "stored" /\ c' = inputBuffer[slot]
  PROVE  LineInv'
<1>1. Dealt' = Dealt
  BY DEF Dealt
<1>2. AcceptedInOrder'
  BY <1>1 DEF LineInv, AcceptedInOrder
<1>3. LineShows'
  BY <1>1 DEF LineInv, LineShows
<1> QED
  BY <1>2, <1>3 DEF LineInv

(* A character that enters the ring is the last one accepted. *)
LEMMA LinePush ==
  ASSUME TypeOK, TypeOK', ReaderAgrees, LineInv,
         NEW char \in Byte, ~Full, enqueue(char), UNCHANGED readerVars
  PROVE  LineInv'
<1>1. /\ inputBuffer' = [inputBuffer EXCEPT ![writeIndex] = char]
      /\ writeIndex' = Following(writeIndex)
      /\ accepted' = Append(accepted, char)
      /\ UNCHANGED <<readIndex, pc, slot, c, line>>
  BY DEF enqueue, readerVars
<1>2. Pending' = Append(Pending, char)
  BY <1>1, PendingPush
<1>3. PendingOK /\ PendingOK'
  BY PendingType, PTL
<1>p. PICK w \in Nat, n \in Nat, h \in {0, 1}, d \in Int :
        w = Waiting /\ n = Len(accepted) /\ h = InHand /\ d = Dealt /\ d + h + w = n
  BY DealtType
<1>4. /\ Waiting' = w + 1 /\ Len(accepted') = n + 1
      /\ \A i \in 1 .. n : accepted'[i] = accepted[i]
      /\ accepted'[n + 1] = char
      /\ \A i \in 1 .. w : Pending'[i] = Pending[i]
      /\ Pending'[w + 1] = char
  <2>1. Pending \in Seq(Byte) /\ Len(Pending) = w /\ Len(Pending') = Waiting'
    BY <1>3, <1>p DEF PendingOK
  <2>2. accepted \in Seq(Byte) /\ Len(accepted) = n
    BY <1>p DEF TypeOK
  <2> QED
    BY <1>1, <1>2, <2>1, <2>2
<1>5. InHand' = h /\ Dealt' = d
  <2>1. InHand' = h
    BY <1>1, <1>p DEF InHand
  <2> QED
    BY <1>4, <1>p, <2>1 DEF Dealt
<1>6. /\ w + h <= n /\ d \in Nat
      /\ \A i \in 1 .. w : Pending[i] = accepted[d + h + i]
      /\ pc = "stored" => inputBuffer[slot] = accepted[d + 1]
      /\ pc = "got" => c = accepted[d + 1]
  BY <1>p DEF LineInv, AcceptedInOrder
<1>7. pc = "stored" => inputBuffer'[slot] = inputBuffer[slot]
  <2>1. ASSUME pc = "stored" PROVE writeIndex # slot
    BY <2>1 DEF ReaderAgrees, Full
  <2> QED
    BY <1>1, <2>1 DEF TypeOK
<1>8. pc \in {"stored", "got"} => h = 1 /\ d + 1 \in 1 .. n
  <2>1. pc \in {"stored", "got"} => h = 1
    BY <1>p DEF InHand
  <2> QED
    BY <1>p, <1>6, <2>1
<1>9. AcceptedInOrder'
  <2>1. ASSUME NEW i \in 1 .. w + 1
        PROVE  Pending'[i] = accepted'[d + h + i]
    <3>1. CASE i \in 1 .. w
      <4>1. d + h + i \in 1 .. n
        BY <1>p, <1>6, <3>1
      <4> QED
        BY <1>4, <1>6, <3>1, <4>1
    <3>2. CASE i = w + 1
      <4>1. d + h + i = n + 1
        BY <1>p, <3>2
      <4> QED
        BY <1>4, <3>2, <4>1
    <3> QED
      BY <3>1, <3>2
  <2>2. (w + 1) + h <= n + 1
    BY <1>p, <1>6
  <2>3. /\ pc' = "stored" => inputBuffer'[slot'] = accepted'[d + 1]
        /\ pc' = "got" => c' = accepted'[d + 1]
    BY <1>1, <1>4, <1>6, <1>7, <1>8
  <2> QED
    BY <1>4, <1>5, <2>1, <2>2, <2>3 DEF AcceptedInOrder
<1>10. LineShows'
  <2>1. \A i \in 1 .. d : accepted'[i] = accepted[i]
    <3>1. \A i \in 1 .. d : i \in 1 .. n
      BY <1>p, <1>6
    <3> QED
      BY <1>4, <3>1
  <2>2. /\ Stays(accepted', d) = Stays(accepted, d)
        /\ Shows(line, accepted', d) <=> Shows(line, accepted, d)
    BY <1>6, <2>1, StaysSame
  <2> QED
    BY <1>1, <1>5, <1>p, <2>2 DEF LineInv, LineShows
<1> QED
  BY <1>9, <1>10 DEF LineInv

(* The character the reader takes is the first that waits. *)
LEMMA LineTake ==
  ASSUME TypeOK, TypeOK', ReaderAgrees, LineInv, StoreLast \/ StoreFirst
  PROVE  LineInv'
<1>1. /\ readIndex' = Following(readIndex)
      /\ pc \in {"loaded", "nonempty"}
      /\ UNCHANGED <<inputBuffer, writeIndex, accepted, line>>
      /\ \/ pc' = "got" /\ c' = c /\ pc = "loaded"
         \/ pc' = "stored" /\ slot' = readIndex
  BY DEF StoreLast, StoreFirst, Reader, ringVars
<1>2. hasChar /\ (pc = "loaded" => c = inputBuffer[readIndex])
  BY <1>1 DEF ReaderAgrees
<1>3. /\ Pending # <<>>
      /\ Head(Pending) = inputBuffer[readIndex]
      /\ Pending' = Tail(Pending)
  BY <1>1, <1>2, PendingPop
<1>4. PendingOK /\ PendingOK'
  BY PendingType, PTL
<1>p. PICK w \in Nat, n \in Nat, h \in {0, 1}, d \in Int :
        w = Waiting /\ n = Len(accepted) /\ h = InHand /\ d = Dealt /\ d + h + w = n
  BY DealtType
<1>5. h = 0
  BY <1>1, <1>p DEF InHand
<1>6. /\ Waiting' = w - 1 /\ w >= 1
      /\ Pending[1] = inputBuffer[readIndex]
      /\ \A i \in 1 .. w - 1 : Pending'[i] = Pending[i + 1]
  <2>1. Pending \in Seq(Byte) /\ Len(Pending) = w /\ Len(Pending') = Waiting'
    BY <1>4, <1>p DEF PendingOK
  <2> QED
    BY <1>3, <2>1
<1>7. InHand' = 1
  BY <1>1 DEF InHand
<1>8. Dealt' = d
  BY <1>1, <1>5, <1>6, <1>7, <1>p DEF Dealt
<1>9. /\ d \in Nat
      /\ \A i \in 1 .. w : Pending[i] = accepted[d + i]
  <2>1. /\ w + h <= n
        /\ \A i \in 1 .. w : Pending[i] = accepted[d + h + i]
    BY <1>p DEF LineInv, AcceptedInOrder
  <2>2. \A i \in 1 .. w : d + h + i = d + i
    BY <1>5
  <2>3. d \in Nat
    BY <1>p, <2>1
  <2> QED
    BY <2>1, <2>2, <2>3
<1>10. inputBuffer[readIndex] = accepted[d + 1]
  <2>1. 1 \in 1 .. w
    BY <1>6
  <2> QED
    BY <1>6, <1>9, <2>1
<1>11. AcceptedInOrder'
  <2>1. (w - 1) + 1 <= n
    BY <1>5, <1>9, <1>p
  <2>2. ASSUME NEW i \in 1 .. w - 1
        PROVE  Pending'[i] = accepted'[d + 1 + i]
    <3>1. i + 1 \in 1 .. w /\ d + (i + 1) = d + 1 + i
      BY <1>9
    <3> QED
      BY <1>1, <1>6, <1>9, <3>1
  <2>3. /\ pc' = "stored" => inputBuffer'[slot'] = accepted'[d + 1]
        /\ pc' = "got" => c' = accepted'[d + 1]
    BY <1>1, <1>2, <1>10
  <2> QED
    BY <1>1, <1>6, <1>7, <1>8, <1>p, <2>1, <2>2, <2>3 DEF AcceptedInOrder
<1>12. LineShows'
  BY <1>1, <1>8, <1>p DEF LineInv, LineShows
<1> QED
  BY <1>11, <1>12 DEF LineInv

(* getLine deals with the character it has. *)
LEMMA LineDeal ==
  ASSUME TypeOK, TypeOK', LineInv, getLine
  PROVE  LineInv'
<1>1. /\ pc = "got" /\ pc' \in {"poll", "command"}
      /\ UNCHANGED <<readIndex, inputBuffer, writeIndex, accepted>>
      /\ c = Newline => pc' = "command"
      /\ c # Newline => pc' = "poll" /\ line' = Edited(line, c)
  BY DEF getLine, Reader, ringVars
<1>2. Pending' = Pending /\ Waiting' = Waiting
  BY <1>1, PendingSame DEF Waiting
<1>p. PICK w \in Nat, n \in Nat, h \in {0, 1}, d \in Int :
        w = Waiting /\ n = Len(accepted) /\ h = InHand /\ d = Dealt /\ d + h + w = n
  BY DealtType
<1>3. h = 1 /\ InHand' = 0
  BY <1>1, <1>p DEF InHand
<1>4. Dealt' = d + 1
  BY <1>1, <1>2, <1>3, <1>p DEF Dealt
<1>5. /\ d \in Nat /\ w + 1 <= n
      /\ \A i \in 1 .. w : Pending[i] = accepted[d + 1 + i]
      /\ c = accepted[d + 1]
  <2>1. /\ w + h <= n
        /\ \A i \in 1 .. w : Pending[i] = accepted[d + h + i]
        /\ c = accepted[d + 1]
    BY <1>1, <1>p DEF LineInv, AcceptedInOrder
  <2>2. d \in Nat
    BY <1>p, <2>1
  <2> QED
    BY <1>3, <2>1, <2>2
<1>6. AcceptedInOrder'
  <2>1. \A i \in 1 .. w : d + 1 + 0 + i = d + 1 + i
    BY <1>5
  <2>2. w + 0 <= n
    BY <1>5
  <2> QED
    BY <1>1, <1>2, <1>3, <1>4, <1>5, <1>p, <2>1, <2>2 DEF AcceptedInOrder
<1>7. LineShows'
  <2>1. line \in Seq(Byte) /\ c \in Byte
    BY DEF TypeOK
  <2>2. Shows(line, accepted, d)
    BY <1>1, <1>p DEF LineInv, LineShows
  <2>3. CASE c = Newline
    <3>1. Stays(accepted, d + 1) = {}
      BY <1>5, <2>3, StaysNewline
    <3> QED
      BY <1>1, <1>4, <2>3, <3>1 DEF LineShows
  <2>4. CASE c = Backspace
    <3>1. Shows(Edited(line, Backspace), accepted, d + 1)
      BY <1>5, <2>1, <2>2, <2>4, ShowsBackspace
    <3>2. c # Newline
      BY <2>4 DEF Newline, Backspace
    <3> QED
      BY <1>1, <1>4, <2>4, <3>1, <3>2 DEF LineShows
  <2>5. CASE c \notin {Newline, Backspace}
    <3>1. Shows(Append(line, c), accepted, d + 1)
      BY <1>5, <2>1, <2>2, <2>5, ShowsCharacter
    <3>2. Edited(line, c) = Append(line, c)
      BY <2>5 DEF Edited
    <3> QED
      BY <1>1, <1>4, <2>5, <3>1, <3>2 DEF LineShows
  <2> QED
    BY <2>3, <2>4, <2>5
<1> QED
  BY <1>6, <1>7 DEF LineInv

(* The shell starts over with an empty line. *)
LEMMA LineStartsOver ==
  ASSUME TypeOK, TypeOK', LineInv, RunCommand
  PROVE  LineInv'
<1>1. /\ pc = "command" /\ pc' = "poll" /\ line' = <<>>
      /\ UNCHANGED <<readIndex, inputBuffer, writeIndex, accepted>>
  BY DEF RunCommand, Reader, ringVars
<1>2. Pending' = Pending /\ Waiting' = Waiting
  BY <1>1, PendingSame DEF Waiting
<1>3. InHand = 0 /\ InHand' = 0
  BY <1>1 DEF InHand
<1>4. Dealt' = Dealt
  BY <1>1, <1>2, <1>3 DEF Dealt
<1>5. AcceptedInOrder'
  BY <1>1, <1>2, <1>3, <1>4 DEF LineInv, AcceptedInOrder
<1>6. Stays(accepted, Dealt) = {}
  BY <1>1 DEF LineInv, LineShows
<1>7. Shows(<<>>, accepted, Dealt)
  <2>1. Cardinality(Stays(accepted, Dealt)) = 0
    BY <1>6, FS_EmptySet
  <2>2. Len(<<>>) = 0
    OBVIOUS
  <2> QED
    BY <1>6, <2>1, <2>2 DEF Shows
<1>8. LineShows'
  BY <1>1, <1>4, <1>7 DEF LineShows
<1> QED
  BY <1>5, <1>8 DEF LineInv

(* Nothing was accepted and the line is empty at the start. *)
LEMMA LineInitial == Init => LineInv
<1> SUFFICES ASSUME Init PROVE LineInv
  OBVIOUS
<1>1. Waiting = 0 /\ InHand = 0 /\ Len(accepted) = 0
  BY DEF Init, Waiting, InHand
<1>2. Dealt = 0
  BY <1>1 DEF Dealt
<1>3. Stays(accepted, 0) = {}
  BY DEF Stays
<1>4. <<>> \in Seq(Byte) /\ 0 \in Nat
  OBVIOUS
<1>5. Shows(line, accepted, Dealt)
  BY <1>2, <1>3, <1>4, ShowsNothing DEF Init
<1>6. AcceptedInOrder
  BY <1>1 DEF Init, AcceptedInOrder
<1> QED
  BY <1>5, <1>6 DEF Init, LineInv, LineShows

(* Every step keeps the line what was typed. *)
LEMMA LineInductive ==
  ASSUME IInv, IInv', LineInv, [Next]_vars
  PROVE  LineInv'
<1>1. TypeOK /\ TypeOK' /\ ReaderAgrees
  BY DEF IInv
<1>2. ASSUME UNCHANGED <<ringVars, readIndex, line>>, InHand' = InHand,
             (pc' = "command") = (pc = "command"),
             pc' = "stored" => pc = "stored" /\ slot' = slot,
             pc' = "got" => \/ pc = "got" /\ c' = c
                            \/ pc = "stored" /\ c' = inputBuffer[slot]
      PROVE  LineInv'
  <2>1. UNCHANGED <<inputBuffer, readIndex, writeIndex, accepted, line>>
    BY <1>2 DEF ringVars
  <2>2. Pending' = Pending /\ Waiting' = Waiting
    BY <2>1, PendingSame DEF Waiting
  <2> QED
    BY <1>2, <2>1, <2>2, LineSame
<1>3. ASSUME UNCHANGED <<ringVars, readerVars>> PROVE LineInv'
  BY <1>2, <1>3 DEF readerVars, InHand
<1>4. ASSUME NEW k \in Keys, Press(k) \/ LetGo(k) PROVE LineInv'
  BY <1>3, <1>4 DEF Press, LetGo, Sends
<1>5. CASE handler
  <2>1. UNCHANGED readerVars
    BY <1>5 DEF handler
  <2>2. CASE UNCHANGED ringVars
    BY <1>3, <2>1, <2>2
  <2>3. CASE HandlerChar(Head(wire)) /\ enqueue(Lookup(Head(wire)))
    <3>1. Lookup(Head(wire)) \in Byte
      <4>1. Head(wire) \in Byte
        BY <1>1, <1>5 DEF handler, TypeOK
      <4> QED
        BY <2>3, <4>1, LookupType DEF HandlerChar
    <3>2. CASE Full
      <4>1. UNCHANGED <<inputBuffer, writeIndex, accepted>>
        BY <2>3, <3>2 DEF enqueue
      <4>2. UNCHANGED <<readIndex, pc, slot, c, line>>
        BY <2>1 DEF readerVars
      <4>3. Pending' = Pending /\ Waiting' = Waiting
        BY <4>1, <4>2, PendingSame DEF Waiting
      <4>4. InHand' = InHand
        BY <4>2 DEF InHand
      <4> QED
        BY <4>1, <4>2, <4>3, <4>4, LineSame
    <3>3. CASE ~Full
      BY <1>1, <2>1, <2>3, <3>1, <3>3, LinePush
    <3> QED
      BY <3>2, <3>3
  <2> QED
    BY <1>5, <2>2, <2>3
       DEF handler, HandlerPrefix, HandlerExtended, HandlerRelease,
           HandlerShift, HandlerChar
<1>6. CASE AwaitChar \/ AwaitAgain \/ LoadFirst \/ LoadLast
  BY <1>2, <1>6 DEF AwaitChar, AwaitAgain, LoadFirst, LoadLast, Reader, InHand
<1>7. CASE StoreLast \/ StoreFirst
  BY <1>1, <1>7, LineTake
<1>8. CASE getLine
  BY <1>1, <1>8, LineDeal
<1>9. CASE RunCommand
  BY <1>1, <1>9, LineStartsOver
<1>10. CASE UNCHANGED vars \/ Spin
  BY <1>3, <1>10 DEF vars, Spin
<1> QED
  BY <1>4, <1>5, <1>6, <1>7, <1>8, <1>9, <1>10 DEF Next, ReaderNext, GetChar

(* For every ring size, layout, set of keys and interleaving, the line that *)
(* in::getLine builds is what the user sees: the characters accepted since  *)
(* the last Enter with every backspace applied, none twice and none         *)
(* missing; and the handler's decoder is at rest when the keyboard is.      *)
THEOREM LineIsTyped == Spec => []LineIsWhatWasTyped
<1>1. Init => LineInv /\ DecoderInv
  BY LineInitial, DecoderInitial
<1>2. IInv /\ IInv' /\ (LineInv /\ DecoderInv) /\ [Next]_vars
        => (LineInv /\ DecoderInv)'
  BY LineInductive, DecoderInductive
<1>3. IInv /\ LineInv /\ DecoderInv => LineIsWhatWasTyped
  BY DecoderRests DEF IInv, LineInv, LineShows, LineIsWhatWasTyped
<1> QED
  BY <1>1, <1>2, <1>3, Invariance, PTL DEF Spec
=============================================================================
