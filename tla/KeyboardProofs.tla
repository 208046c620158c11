--------------------------- MODULE KeyboardProofs ---------------------------
(***************************************************************************)
(* The key buffer, for every KEY_BUFFER_SIZE and any number of keys.       *)
(***************************************************************************)
EXTENDS KeyboardProps, Integers, TLAPS

\* The counters and positions that the arithmetic is about.
Counters == /\ Len(pressed) \in Nat /\ taken \in Nat
            /\ head \in 0..KEY_BUFFER_SIZE /\ tail \in 0..KEY_BUFFER_SIZE
            /\ KEY_BUFFER_SIZE \in Nat /\ KEY_BUFFER_SIZE > 1

LEMMA CountersTyped == TypeOK => Counters
BY SizeAssumption DEF TypeOK, Counters

LEMMA InitIInv == Init => IInv
<1> SUFFICES ASSUME Init PROVE IInv
  OBVIOUS
<1>1. TypeOK
  <2>1. shift \in BOOLEAN /\ overrun \in BOOLEAN
    BY DEF Init
  <2>2. line \in Seq(Keys \X BOOLEAN) /\ pressed \in Seq(Codes)
    BY DEF Init
  <2>3. key_buffer \in [Slots -> Codes \cup {NULL}] /\ stamp \in [Slots -> Nat]
    BY DEF Init
  <2>4. head \in 0..KEY_BUFFER_SIZE /\ tail \in 0..KEY_BUFFER_SIZE /\ taken \in Nat
    BY SizeAssumption DEF Init
  <2> QED
    BY <2>1, <2>2, <2>3, <2>4 DEF Init, TypeOK
<1>2. Laps
  BY SizeAssumption DEF Init, Laps, Slots
<1>3. Position /\ NothingLost
  BY SizeAssumption DEF Init, Position, NothingLost, Waits
<1> QED
  BY <1>1, <1>2, <1>3 DEF IInv

(* A key arrives. *)
LEMMA PressStep ==
  ASSUME IInv, NEW code \in Codes, keyboard_interrupt(code)
  PROVE  IInv'
<1> USE DEF IInv
<1>c. Counters
  BY CountersTyped
<1>1. Slot \in Slots /\ tail' = Slot + 1
  BY <1>c DEF Slot, Slots, Counters, keyboard_interrupt
<1>2. /\ Len(pressed') = Len(pressed) + 1
      /\ \A i \in 1..Len(pressed) : pressed'[i] = pressed[i]
      /\ pressed'[Len(pressed) + 1] = code
      /\ pressed' \in Seq(Codes)
  BY DEF keyboard_interrupt, TypeOK
<1>3. /\ stamp' = [stamp EXCEPT ![Slot] = Len(pressed) + 1]
      /\ key_buffer' = [key_buffer EXCEPT ![Slot] = code]
      /\ UNCHANGED <<head, pc, taken, result, shift, line>>
  BY DEF keyboard_interrupt, readerVars
<1>4. TypeOK'
  <2>1. held' \in SUBSET Shifts
    BY DEF keyboard_interrupt, Held
  <2>2. overrun' \in BOOLEAN
    BY DEF keyboard_interrupt, TypeOK
  <2>3. /\ key_buffer' \in [Slots -> Codes \cup {NULL}] /\ stamp' \in [Slots -> Nat]
        /\ head' \in 0..KEY_BUFFER_SIZE /\ tail' \in 0..KEY_BUFFER_SIZE
    BY <1>1, <1>3, <1>c DEF TypeOK, Slots, Counters
  <2> QED
    BY <1>2, <1>3, <2>1, <2>2, <2>3 DEF TypeOK
<1>5. Laps'
  <2>1. /\ Len(pressed)' = tail' \/ Len(pressed)' >= tail' + KEY_BUFFER_SIZE
        /\ tail' # 0
    BY <1>1, <1>2, <1>c DEF Laps, Slot, Counters
  <2>2. ASSUME NEW i \in Slots
        PROVE  stamp'[i] = IF i < tail' THEN Len(pressed') + 1 + i - tail'
                           ELSE IF Len(pressed') = tail' THEN 0
                           ELSE Len(pressed') + 1 + i - tail' - KEY_BUFFER_SIZE
    <3>1. CASE i = Slot
      BY <3>1, <1>1, <1>2, <1>3, <1>c DEF TypeOK, Counters, Slots
    <3>2. CASE i # Slot
      <4>1. stamp'[i] = stamp[i]
        BY <3>2, <1>3 DEF TypeOK
      <4>2. CASE tail = KEY_BUFFER_SIZE
        <5>1. Slot = 0 /\ tail' = 1 /\ i > 0 /\ i < tail /\ Len(pressed) >= tail
          BY <4>2, <3>2, <1>1, <1>c DEF Laps, Slot, Counters, Slots
        <5>2. stamp[i] = Len(pressed) + 1 + i - tail
          BY <5>1 DEF Laps
        <5> QED
          BY <4>1, <4>2, <5>1, <5>2, <1>2, <1>c DEF Counters, Slots
      <4>3. CASE tail # KEY_BUFFER_SIZE
        <5>1. Slot = tail /\ tail' = tail + 1
          BY <4>3, <1>1, <1>c DEF Slot, Counters
        <5> QED
          BY <4>1, <5>1, <3>2, <1>2, <1>c DEF Laps, Counters, Slots
      <4> QED
        BY <4>2, <4>3
    <3> QED
      BY <3>1, <3>2
  <2>3. ASSUME NEW i \in Slots, stamp'[i] > 0
        PROVE  key_buffer'[i] = pressed'[stamp'[i]]
    <3>1. CASE i = Slot
      BY <3>1, <1>1, <1>2, <1>3 DEF TypeOK
    <3>2. CASE i # Slot
      <4>1. stamp'[i] = stamp[i] /\ key_buffer'[i] = key_buffer[i]
        BY <3>2, <1>3 DEF TypeOK
      <4>2. stamp[i] \in 1..Len(pressed)
        BY <4>1, <2>3, <1>c DEF Laps, Counters, Slots
      <4> QED
        BY <4>1, <4>2, <1>2, <2>3 DEF Laps
    <3> QED
      BY <3>1, <3>2
  <2> QED
    BY <2>1, <2>2, <2>3 DEF Laps
<1>6. Position'
  <2>1. \A i \in Slots : stamp'[i] >= stamp[i]
    <3>1. ASSUME NEW i \in Slots PROVE stamp[i] <= Len(pressed)
      BY <1>c DEF Laps, Counters, Slots
    <3>2. stamp \in [Slots -> Nat]
      BY DEF TypeOK
    <3> QED
      BY <3>1, <3>2, <1>1, <1>3, <1>c DEF Counters
  <2>2. Len(pressed') = tail' => head <= tail'
    BY <1>1, <1>2, <1>c DEF Laps, Position, Counters, Slot
  <2>3. pc # "fetch" => IF head = 0 THEN taken = 0 ELSE taken <= stamp'[head - 1]
    <3>1. head # 0 => head - 1 \in Slots
      BY <1>c DEF Counters, Slots
    <3> QED
      BY <3>1, <2>1, <1>c, <1>4 DEF Position, TypeOK, Counters
  <2>4. pc = "fetch" => head < KEY_BUFFER_SIZE /\ taken < stamp'[head]
    <3>1. head < KEY_BUFFER_SIZE => head \in Slots
      BY <1>c DEF Counters, Slots
    <3> QED
      BY <3>1, <2>1, <1>c, <1>4 DEF Position, TypeOK, Counters
  <2> QED
    BY <2>2, <2>3, <2>4, <1>3 DEF Position
<1>7. NothingLost'
  <2> SUFFICES ASSUME ~overrun'
               PROVE  taken + Waits' = Len(pressed) + 1
    BY <1>2, <1>3 DEF NothingLost
  <2>1. ~overrun /\ Len(pressed) + 1 - taken < KEY_BUFFER_SIZE
    <3>1. ~overrun /\ ~(Len(pressed) + 1 - taken >= KEY_BUFFER_SIZE)
      BY DEF keyboard_interrupt
    <3> QED
      BY <3>1, <1>c DEF Counters
  <2>2. taken + Waits = Len(pressed)
    BY <2>1 DEF NothingLost
  <2>3. Waits' = Waits + 1
    BY <2>1, <2>2, <1>1, <1>3, <1>c DEF Waits, Counters, Slot, Slots
  <2> QED
    BY <2>2, <2>3, <1>c DEF Waits, Counters
<1> QED
  BY <1>4, <1>5, <1>6, <1>7

(* What in_scancode finds at the head is newer than what was taken, and    *)
(* the very next code if nothing was overrun.                              *)
LEMMA HeadIsNewer ==
  ASSUME IInv, KeyWaiting
  PROVE  /\ head' \in Slots /\ taken < stamp[head']
<1> USE DEF IInv
<1>c. Counters
  BY CountersTyped
<1>1. head # tail /\ head' = IF head >= KEY_BUFFER_SIZE THEN 0 ELSE head
  BY DEF KeyWaiting, Waiting
<1>2. head' \in Slots
  BY <1>1, <1>c DEF Counters, Slots
<1>3. IF head = 0 THEN taken = 0 ELSE taken <= stamp[head - 1]
  BY DEF Position, KeyWaiting
<1>4. CASE head = 0
  BY <1>1, <1>2, <1>3, <1>4, <1>c DEF Laps, Counters, Slots
<1>5. CASE head # 0
  <2>1. head - 1 \in Slots
    BY <1>5, <1>c DEF Counters, Slots
  <2>2. stamp[head - 1] < stamp[head']
    BY <2>1, <1>1, <1>2, <1>5, <1>c DEF Laps, Position, Counters, Slots
  <2> QED
    BY <2>1, <2>2, <1>2, <1>3, <1>5, <1>c DEF TypeOK, Counters
<1> QED
  BY <1>2, <1>4, <1>5

LEMMA KeyWaitingStep ==
  ASSUME IInv, KeyWaiting
  PROVE  IInv' /\ Waits' = Waits
<1> USE DEF IInv
<1>c. Counters
  BY CountersTyped
<1>1. head' \in Slots /\ taken < stamp[head']
  BY HeadIsNewer
<1>2. UNCHANGED <<key_buffer, tail, held, pressed, stamp, result, shift, line, taken, overrun>>
  BY DEF KeyWaiting, keyboardVars
<1>3. /\ pc = "scan" /\ pc' = "fetch" /\ head # tail
      /\ head' = IF head >= KEY_BUFFER_SIZE THEN 0 ELSE head
  BY DEF KeyWaiting, Waiting
<1>4. TypeOK'
  BY <1>1, <1>2, <1>3, <1>c DEF TypeOK, Slots, Counters
<1>5. Laps'
  BY <1>2 DEF Laps
<1>6. Position'
  BY <1>1, <1>2, <1>3, <1>c DEF Position, Slots, Counters
<1>7. Waits' = Waits
  <2>1. tail = 0 => head = 0
    BY <1>c DEF Laps, Position, Counters
  <2> QED
    BY <2>1, <1>1, <1>2, <1>3, <1>c DEF Waits, Counters, Slots
<1>8. NothingLost'
  BY <1>7, <1>2 DEF NothingLost
<1> QED
  BY <1>4, <1>5, <1>6, <1>7, <1>8

LEMMA FetchStep ==
  ASSUME IInv, Fetch
  PROVE  /\ IInv'
         /\ taken' > taken
         /\ result' = pressed[taken']
         /\ ~overrun => taken' = taken + 1
         /\ Waits' = Waits - 1
<1> USE DEF IInv
<1>c. Counters
  BY CountersTyped
<1>1. /\ head \in Slots /\ taken < stamp[head] /\ taken' = stamp[head]
      /\ head' = head + 1 /\ result' = key_buffer[head]
      /\ pc = "fetch" /\ pc' = "char"
  BY <1>c DEF Fetch, HeadAfter, Position, Slots, Counters
<1>2. UNCHANGED <<key_buffer, tail, held, pressed, stamp, shift, line, overrun>>
  BY DEF Fetch, keyboardVars
<1>3. stamp[head] \in Nat
  BY <1>1 DEF TypeOK
<1>4. taken' > taken /\ result' = pressed[taken']
  BY <1>1, <1>3, <1>c DEF Laps, Counters
<1>5. stamp[head] = Len(pressed) + 1 - Waits /\ Waits' = Waits - 1
  <2>1. CASE head < tail
    <3>1. stamp[head] = Len(pressed) + 1 + head - tail
      BY <2>1, <1>1 DEF Laps
    <3>2. Waits = tail - head
      BY <2>1 DEF Waits
    <3>3. Waits' = tail - head - 1
      <4>1. CASE head + 1 = tail
        BY <4>1, <1>1, <1>2, <1>c DEF Waits, Counters
      <4>2. CASE head + 1 # tail
        <5>1. head' < tail'
          BY <4>2, <2>1, <1>1, <1>2, <1>c DEF Counters
        <5> QED
          BY <5>1, <1>1, <1>2, <1>c DEF Waits, Counters
      <4> QED
        BY <4>1, <4>2
    <3> QED
      BY <3>1, <3>2, <3>3, <1>c DEF Counters
  <2>2. CASE head >= tail
    <3>1. stamp[head] = Len(pressed) + 1 + head - tail - KEY_BUFFER_SIZE
      BY <2>2, <1>1, <1>3, <1>c DEF Laps, Counters, Slots
    <3>2. Waits = tail + KEY_BUFFER_SIZE - head /\ Waits' = tail + KEY_BUFFER_SIZE - head - 1
      BY <2>2, <1>1, <1>2, <1>c DEF Waits, Counters, Slots
    <3> QED
      BY <3>1, <3>2, <1>c DEF Counters
  <2> QED
    BY <2>1, <2>2, <1>c DEF Counters
<1>6. ~overrun => taken' = taken + 1
  BY <1>1, <1>5, <1>c DEF NothingLost, Waits, Counters
<1>7. TypeOK'
  BY <1>1, <1>2, <1>3, <1>c DEF TypeOK, Slots, Counters
<1>8. Laps'
  BY <1>2 DEF Laps
<1>9. Position'
  BY <1>1, <1>2, <1>3, <1>c DEF Position, Laps, Slots, Counters
<1>10. NothingLost'
  BY <1>1, <1>2, <1>5, <1>6, <1>c DEF NothingLost, Waits, Counters
<1> QED
  BY <1>4, <1>5, <1>6, <1>7, <1>8, <1>9, <1>10

(* The steps that leave the buffer and its positions alone. *)
LEMMA OtherReaderStep ==
  ASSUME IInv, in_string \/ NoKey \/ in_char
  PROVE  IInv' /\ Waits' = Waits
<1> USE DEF IInv
<1>c. Counters
  BY CountersTyped
<1>1. /\ UNCHANGED <<key_buffer, tail, held, pressed, stamp, head, taken, overrun>>
      /\ pc # "fetch" /\ pc' # "fetch"
  BY DEF in_string, NoKey, in_char, keyboardVars
<1>2. TypeOK'
  <2>1. CASE in_string
    BY <2>1 DEF in_string, TypeOK, keyboardVars
  <2>2. CASE NoKey
    BY <2>2 DEF NoKey, TypeOK, keyboardVars
  <2>3. CASE in_char
    <3>1. shift' \in BOOLEAN
      <4> shift \in BOOLEAN
        BY DEF TypeOK
      <4> QED
        BY <2>3 DEF in_char, ShiftAfter
    <3>2. line' \in Seq(Keys \X BOOLEAN)
      <4> /\ line \in Seq(Keys \X BOOLEAN)
        BY DEF TypeOK
      <4>1. CASE result \in Keys
        <5>1. <<result, shift'>> \in Keys \X BOOLEAN
          BY <4>1, <3>1
        <5> QED
          BY <5>1, <4>1, <2>3 DEF in_char, LineAfter
      <4>2. CASE result \notin Keys /\ result = "backspace" /\ line # <<>>
        <5>1. line' = SubSeq(line, 1, Len(line) - 1)
          BY <4>2, <2>3 DEF in_char, LineAfter
        <5> QED
          BY <5>1
      <4>3. CASE result \notin Keys /\ ~(result = "backspace" /\ line # <<>>)
        BY <4>3, <2>3 DEF in_char, LineAfter
      <4> QED
        BY <4>1, <4>2, <4>3
    <3>3. pc' \in {"shell", "scan", "fetch", "char"}
      BY <2>3 DEF in_char
    <3>4. result' = result
      BY <2>3 DEF in_char
    <3> QED
      BY <1>1, <3>1, <3>2, <3>3, <3>4 DEF TypeOK
  <2> QED
    BY <2>1, <2>2, <2>3
<1>3. Waits' = Waits
  BY <1>1 DEF Waits
<1>4. Laps' /\ Position' /\ NothingLost'
  BY <1>1, <1>3 DEF Laps, Position, NothingLost
<1> QED
  BY <1>2, <1>3, <1>4

LEMMA StepKeepsIInv == IInv /\ [Next]_vars => IInv'
<1> SUFFICES ASSUME IInv, [Next]_vars PROVE IInv'
  OBVIOUS
<1>1. ASSUME NEW code \in Codes, keyboard_interrupt(code) PROVE IInv'
  BY <1>1, PressStep
<1>2. CASE KeyWaiting
  BY <1>2, KeyWaitingStep
<1>3. CASE Fetch
  BY <1>3, FetchStep
<1>4. CASE in_string \/ NoKey \/ in_char
  BY <1>4, OtherReaderStep
<1>5. CASE UNCHANGED vars
  BY <1>5 DEF vars, keyboardVars, readerVars, IInv, TypeOK, Laps, Position, NothingLost, Waits
<1> QED
  BY <1>1, <1>2, <1>3, <1>4, <1>5 DEF Next, Reader

(***************************************************************************)
(* The inductive invariant holds: what each slot of key_buffer contains    *)
(* and where the reader is in it.                                          *)
(***************************************************************************)
THEOREM Invariance == Spec => []IInv
BY InitIInv, StepKeepsIInv, PTL DEF Spec

(***************************************************************************)
(* No key is lost while fewer than KEY_BUFFER_SIZE wait.                   *)
(***************************************************************************)
THEOREM NoKeyLost == Spec => []NothingLost
<1>1. IInv => NothingLost
  BY DEF IInv
<1> QED
  BY <1>1, Invariance, PTL

(***************************************************************************)
(* in_scancode returns codes that were sent, in the order they were sent,  *)
(* none twice, whatever overflows.                                         *)
(***************************************************************************)
THEOREM OrderKept == Spec => KeysInOrder
<1>1. IInv /\ [Next]_vars => [Fetch => taken' > taken /\ result' = pressed[taken']]_vars
  BY FetchStep
<1> QED
  BY <1>1, Invariance, PTL DEF Spec, KeysInOrder

-----------------------------------------------------------------------------
(* The buffer is the queue of KeyQueue.tla.                                *)

\* Where the i-th waiting key is.
Place(i) == IF head + i <= KEY_BUFFER_SIZE THEN head + i - 1
            ELSE head + i - 1 - KEY_BUFFER_SIZE

QueueTyped ==
  /\ Waits \in 0..KEY_BUFFER_SIZE
  /\ Queue \in Seq(Codes \cup {NULL}) /\ Len(Queue) = Waits
  /\ \A i \in 1..Waits : Place(i) \in Slots /\ Queue[i] = key_buffer[Place(i)]

LEMMA WaitsTyped == IInv => QueueTyped
<1> SUFFICES ASSUME IInv PROVE QueueTyped
  OBVIOUS
<1>c. Counters
  BY CountersTyped DEF IInv
<1>1. Waits \in 0..KEY_BUFFER_SIZE
  BY <1>c DEF Waits, Counters
<1>2. \A i \in 1..Waits : Place(i) \in Slots
  BY <1>1, <1>c DEF Place, Slots, Counters
<1>3. \A i \in 1..Waits : Waiter(i) = key_buffer[Place(i)]
  BY DEF Waiter, Place
<1>4. \A i \in 1..Waits : Waiter(i) \in Codes \cup {NULL}
  BY <1>2, <1>3 DEF IInv, TypeOK
<1>5. Queue \in Seq(Codes \cup {NULL}) /\ Len(Queue) = Waits
  BY <1>1, <1>4 DEF Queue
<1> QED
  BY <1>1, <1>2, <1>3, <1>5 DEF Queue, QueueTyped

\* What a key that arrives does to the number of those that wait, and where it
\* is stored.
LEMMA PressCounts ==
  ASSUME IInv, NEW code \in Codes, keyboard_interrupt(code)
  PROVE  \/ /\ Waits < KEY_BUFFER_SIZE /\ Waits' = Waits + 1 /\ Place(Waits + 1) = Slot
            /\ \A i \in 1..Waits : Place(i) # Slot
         \/ Waits = KEY_BUFFER_SIZE - 1 /\ Waits' = 0
         \/ Waits = KEY_BUFFER_SIZE /\ Waits' = 1 /\ Place(1) = Slot
<1>c. Counters /\ (pc = "fetch" => head < KEY_BUFFER_SIZE) /\ (tail = 0 => head = 0)
  BY CountersTyped DEF IInv, Laps, Position, Counters
<1>1. /\ Slot = IF tail >= KEY_BUFFER_SIZE THEN 0 ELSE tail
      /\ tail' = Slot + 1 /\ head' = head /\ pc' = pc
  BY DEF Slot, keyboard_interrupt, readerVars
<1>2. CASE head < tail
  <2>1. Waits = tail - head
    BY <1>2 DEF Waits
  <2>2. CASE tail < KEY_BUFFER_SIZE
    <3>1. Slot = tail /\ Waits' = Waits + 1
      BY <1>c, <1>1, <1>2, <2>1, <2>2 DEF Waits, Counters
    <3> QED
      BY <1>c, <1>2, <2>1, <2>2, <3>1 DEF Place, Counters
  <2>3. CASE tail = KEY_BUFFER_SIZE
    <3>1. Slot = 0 /\ tail' = 1
      BY <1>c, <1>1, <2>3 DEF Counters
    <3>2. CASE head = 0
      BY <1>c, <1>1, <2>1, <2>3, <3>1, <3>2 DEF Waits, Place, Counters
    <3>3. CASE head = 1 /\ pc # "fetch"
      BY <1>c, <1>1, <2>1, <2>3, <3>1, <3>3 DEF Waits, Counters
    <3>4. CASE head > 1 \/ (head = 1 /\ pc = "fetch")
      <4>1. Waits' = Waits + 1
        BY <1>c, <1>1, <2>1, <2>3, <3>1, <3>4 DEF Waits, Counters
      <4> QED
        BY <1>c, <1>2, <2>1, <2>3, <3>1, <3>4, <4>1 DEF Place, Counters
    <3> QED
      BY <1>c, <3>2, <3>3, <3>4 DEF Counters
  <2> QED
    BY <1>c, <2>2, <2>3 DEF Counters
<1>3. CASE head > tail
  <2>1. Waits = tail + KEY_BUFFER_SIZE - head /\ Slot = tail /\ tail' = tail + 1
    BY <1>c, <1>1, <1>3 DEF Waits, Counters
  <2>2. CASE head = tail + 1 /\ pc # "fetch"
    BY <1>c, <1>1, <2>1, <2>2 DEF Waits, Counters
  <2>3. CASE head > tail + 1 \/ pc = "fetch"
    <3>1. Waits' = Waits + 1
      BY <1>c, <1>1, <1>3, <2>1, <2>3 DEF Waits, Counters
    <3> QED
      BY <1>c, <1>3, <2>1, <2>3, <3>1 DEF Place, Counters
  <2> QED
    BY <1>c, <1>3, <2>2, <2>3 DEF Counters
<1>4. CASE head = tail
  <2>1. CASE pc = "fetch"
    <3>1. Waits = KEY_BUFFER_SIZE /\ Slot = head /\ tail' = head + 1
      BY <1>c, <1>1, <1>4, <2>1 DEF Waits, Counters
    <3> QED
      BY <1>c, <1>1, <2>1, <3>1 DEF Waits, Place, Counters
  <2>2. CASE pc # "fetch"
    <3>1. Waits = 0
      BY <1>c, <1>4, <2>2 DEF Waits, Counters
    <3>2. Waits' = 1 /\ Place(1) = Slot
      BY <1>c, <1>1, <1>4, <2>2 DEF Waits, Place, Counters
    <3> QED
      BY <1>c, <3>1, <3>2 DEF Counters
  <2> QED
    BY <2>1, <2>2
<1> QED
  BY <1>c, <1>2, <1>3, <1>4 DEF Counters

LEMMA PressIsPress ==
  ASSUME IInv, NEW code \in Codes, keyboard_interrupt(code)
  PROVE  KQ!Press(code)
<1>c. Counters
  BY CountersTyped DEF IInv
<1>t. QueueTyped'
  <2>1. IInv'
    BY PressStep
  <2> QED
    BY <2>1, WaitsTyped, PTL
<1>1. /\ Waits \in 0..KEY_BUFFER_SIZE /\ Queue \in Seq(Codes \cup {NULL}) /\ Len(Queue) = Waits
      /\ \A i \in 1..Waits : Place(i) \in Slots /\ Queue[i] = key_buffer[Place(i)]
  BY WaitsTyped DEF QueueTyped
<1>2. /\ Queue' \in Seq(Codes \cup {NULL}) /\ Len(Queue') = Waits'
      /\ \A i \in 1..Waits' : Queue'[i] = key_buffer'[Place(i)']
  BY <1>t DEF QueueTyped
<1>3. head' = head /\ key_buffer' = [key_buffer EXCEPT ![Slot] = code] /\ key_buffer \in [Slots -> Codes \cup {NULL}]
  BY DEF keyboard_interrupt, readerVars, IInv, TypeOK
<1>4. Slot \in Slots
  BY <1>c DEF Slot, Slots, Counters
<1>5. \A i : Place(i)' = Place(i)
  BY <1>3 DEF Place
<1>6. CASE /\ Waits < KEY_BUFFER_SIZE /\ Waits' = Waits + 1 /\ Place(Waits + 1) = Slot
           /\ \A i \in 1..Waits : Place(i) # Slot
  <2>1. \A i \in 1..Waits : Queue'[i] = Queue[i]
    BY <1>1, <1>2, <1>3, <1>5, <1>6
  <2>2. Queue'[Waits + 1] = code
    BY <1>1, <1>2, <1>3, <1>4, <1>5, <1>6
  <2>3. Queue' = Append(Queue, code)
    BY <1>1, <1>2, <1>6, <2>1, <2>2
  <2> QED
    BY <1>1, <1>6, <2>3 DEF KQ!Press, KQ!Fits
<1>7. CASE Waits = KEY_BUFFER_SIZE - 1 /\ Waits' = 0
  <2>1. Queue' = <<>>
    BY <1>2, <1>7
  <2> QED
    BY <1>1, <1>7, <2>1 DEF KQ!Press, KQ!Lapped
<1>8. CASE Waits = KEY_BUFFER_SIZE /\ Waits' = 1 /\ Place(1) = Slot
  <2>1. Queue'[1] = code
    BY <1>2, <1>3, <1>4, <1>5, <1>8
  <2>2. Queue' = <<code>>
    BY <1>2, <1>8, <2>1
  <2> QED
    BY <1>1, <1>8, <2>2 DEF KQ!Press, KQ!Passed
<1> QED
  BY <1>6, <1>7, <1>8, PressCounts

LEMMA FetchIsTake == ASSUME IInv, Fetch PROVE KQ!Take
<1>c. Counters
  BY CountersTyped DEF IInv
<1>t. QueueTyped' /\ Waits' = Waits - 1
  <2>1. IInv' /\ Waits' = Waits - 1
    BY FetchStep
  <2> QED
    BY <2>1, WaitsTyped, PTL
<1>1. /\ Waits \in 0..KEY_BUFFER_SIZE /\ Queue \in Seq(Codes \cup {NULL}) /\ Len(Queue) = Waits
      /\ \A i \in 1..Waits : Queue[i] = key_buffer[Place(i)]
  BY WaitsTyped DEF QueueTyped
<1>2. /\ Waits' \in 0..KEY_BUFFER_SIZE
      /\ Queue' \in Seq(Codes \cup {NULL}) /\ Len(Queue') = Waits'
      /\ \A i \in 1..Waits' : Queue'[i] = key_buffer'[Place(i)']
  BY <1>t DEF QueueTyped
<1>3. head' = head + 1 /\ key_buffer' = key_buffer
  BY DEF Fetch, HeadAfter, keyboardVars
<1>4. \A i \in 1..Waits' : Place(i)' = Place(i + 1)
  BY <1>2, <1>3, <1>c DEF Place, Counters
<1>5. Waits \in 1..KEY_BUFFER_SIZE
  BY <1>1, <1>2, <1>t, <1>c DEF Counters
<1>6. ASSUME NEW i \in 1..Waits' PROVE Queue'[i] = Queue[i + 1]
  <2>1. i + 1 \in 1..Waits
    BY <1>1, <1>2, <1>t, <1>c DEF Counters
  <2>2. Queue[i + 1] = key_buffer[Place(i + 1)]
    BY <1>1, <2>1
  <2>3. Queue'[i] = key_buffer'[Place(i)']
    BY <1>2
  <2> QED
    BY <1>3, <1>4, <2>2, <2>3
<1>7. Queue' = Tail(Queue)
  BY <1>1, <1>2, <1>5, <1>6, <1>t
<1> QED
  BY <1>1, <1>5, <1>7 DEF KQ!Take

\* The other steps of the reader leave the keys that wait alone.
LEMMA OthersStutter ==
  ASSUME IInv, KeyWaiting \/ in_string \/ NoKey \/ in_char
  PROVE  Queue' = Queue
<1>c. Counters
  BY CountersTyped DEF IInv
<1>1. Waits' = Waits
  BY KeyWaitingStep, OtherReaderStep
<1>2. /\ key_buffer' = key_buffer
      /\ head' = head \/ (head = KEY_BUFFER_SIZE /\ head' = 0)
  BY <1>c DEF KeyWaiting, in_string, NoKey, in_char, keyboardVars, Counters
<1>3. Waits \in 0..KEY_BUFFER_SIZE
  BY WaitsTyped DEF QueueTyped
<1>4. \A i \in 1..Waits : Waiter(i)' = Waiter(i)
  BY <1>2, <1>3, <1>c DEF Waiter, Counters
<1> QED
  BY <1>1, <1>4 DEF Queue

(***************************************************************************)
(* The ring buffer is the queue of KeyQueue.tla: every behaviour of the    *)
(* interrupt and of the shell's thread, in any interleaving, is one of the *)
(* queue in which a key that does not fit costs the backlog.               *)
(***************************************************************************)
THEOREM BufferIsKeyQueue == Spec => IsKeyQueue
<1>1. Init => KQ!Init
  BY SizeAssumption DEF Init, KQ!Init, Queue, Waits
<1>2. IInv /\ [Next]_vars => [KQ!Next]_Queue
  <2> SUFFICES ASSUME IInv, [Next]_vars PROVE KQ!Next \/ Queue' = Queue
    OBVIOUS
  <2>1. ASSUME NEW code \in Codes, keyboard_interrupt(code) PROVE KQ!Next
    BY <2>1, PressIsPress DEF KQ!Next
  <2>2. CASE Fetch
    BY <2>2, FetchIsTake DEF KQ!Next
  <2>3. CASE KeyWaiting \/ in_string \/ NoKey \/ in_char
    BY <2>3, OthersStutter
  <2>4. CASE UNCHANGED vars
    BY <2>4 DEF vars, keyboardVars, readerVars, Queue, Waits, Waiter
  <2> QED
    BY <2>1, <2>2, <2>3, <2>4 DEF Next, Reader
<1> QED
  BY <1>1, <1>2, Invariance, PTL DEF Spec, IsKeyQueue, KQ!Spec

-----------------------------------------------------------------------------
(* The shift state.                                                        *)

LEMMA TakenWasSent ==
  ASSUME IInv
  PROVE  taken \in 0..Len(pressed) /\ Handled \in Int /\ \A i \in Slots : stamp[i] \in 0..Len(pressed)
<1>c. Counters
  BY CountersTyped DEF IInv
<1>1. ASSUME NEW i \in Slots PROVE stamp[i] \in 0..Len(pressed)
  <2>1. stamp[i] \in Nat
    BY DEF IInv, TypeOK
  <2> QED
    BY <2>1, <1>c DEF IInv, Laps, Counters, Slots
<1>2. CASE pc = "fetch"
  <2>1. head \in Slots /\ taken < stamp[head]
    BY <1>2, <1>c DEF IInv, Position, Counters, Slots
  <2> QED
    BY <2>1, <1>1, <1>c DEF Counters, Handled
<1>3. CASE pc # "fetch" /\ head = 0
  BY <1>1, <1>3, <1>c DEF IInv, Position, Counters, Handled
<1>4. CASE pc # "fetch" /\ head # 0
  <2>1. head - 1 \in Slots /\ taken <= stamp[head - 1]
    BY <1>4, <1>c DEF IInv, Position, Counters, Slots
  <2> QED
    BY <2>1, <1>1, <1>c DEF Counters, Handled
<1> QED
  BY <1>2, <1>3, <1>4

LEMMA PressKeepsShift ==
  ASSUME IInv, ShiftInv, NEW code \in Codes, keyboard_interrupt(code)
  PROVE  ShiftInv'
<1>1. /\ taken \in 0..Len(pressed) /\ Handled \in Int /\ Handled <= taken
      /\ Len(pressed) \in Nat /\ pressed \in Seq(Codes)
  BY TakenWasSent DEF IInv, TypeOK, Handled
<1>2. /\ Len(pressed') = Len(pressed) + 1 /\ pressed' = Append(pressed, code)
      /\ \A i \in 1..Len(pressed) : pressed'[i] = pressed[i]
      /\ pressed'[Len(pressed) + 1] = code
  BY <1>1 DEF keyboard_interrupt
<1>3. UNCHANGED <<pc, taken, result, shift>> /\ Handled' = Handled
  BY DEF keyboard_interrupt, readerVars, Handled
<1>4. InHand'
  BY <1>1, <1>2, <1>3 DEF ShiftInv, InHand
<1>5. ~overrun' => ShiftSeen'
  <2> SUFFICES ASSUME ~overrun', shift
               PROVE  \E i \in 1..Handled : /\ pressed'[i] \in Shifts
                                            /\ \A j \in (i + 1)..Handled : pressed'[j] \notin Ups
    BY <1>3 DEF ShiftSeen
  <2>1. ~overrun
    BY DEF keyboard_interrupt
  <2>2. PICK i \in 1..Handled : /\ pressed[i] \in Shifts
                                /\ \A j \in (i + 1)..Handled : pressed[j] \notin Ups
    BY <2>1 DEF ShiftInv, ShiftSeen
  <2>3. \A j \in 1..Handled : pressed'[j] = pressed[j]
    BY <1>1, <1>2
  <2>4. \A j \in (i + 1)..Handled : j \in 1..Handled
    BY <1>1
  <2> QED
    BY <2>2, <2>3, <2>4
<1>6. ShiftDown'
  <2> SUFFICES ASSUME NEW i \in 1..(Len(pressed) + 1), pressed'[i] \in Shifts,
                      \A j \in (i + 1)..(Len(pressed) + 1) : pressed'[j] # Up[pressed'[i]]
               PROVE  pressed'[i] \in held'
    BY <1>2 DEF ShiftDown
  <2>1. held' = Held(code)
    BY DEF keyboard_interrupt
  <2>2. CASE i = Len(pressed) + 1
    BY <1>2, <2>1, <2>2 DEF Held, Shifts, Up
  <2>3. CASE i \in 1..Len(pressed)
    <3>1. pressed'[i] = pressed[i] /\ code # Up[pressed[i]]
      BY <1>1, <1>2, <2>3
    <3>2. \A j \in (i + 1)..Len(pressed) : pressed[j] # Up[pressed[i]]
      BY <1>1, <1>2, <2>3, <3>1
    <3>3. pressed[i] \in held
      BY <1>1, <2>3, <3>1, <3>2 DEF ShiftInv, ShiftDown
    <3> QED
      BY <2>1, <3>1, <3>3 DEF Held
  <2> QED
    BY <1>1, <2>2, <2>3
<1> QED
  BY <1>4, <1>5, <1>6 DEF ShiftInv

LEMMA FetchKeepsShift == ASSUME IInv, ShiftInv, Fetch PROVE ShiftInv'
<1>1. /\ taken' > taken /\ result' = pressed[taken'] /\ (~overrun => taken' = taken + 1)
      /\ taken' = stamp[head]
  BY FetchStep DEF Fetch
<1>2. head \in Slots
  BY SizeAssumption, CountersTyped DEF IInv, Position, Fetch, Slots, Counters
<1>3. taken' \in 1..Len(pressed) /\ taken \in Nat
  BY <1>1, <1>2, TakenWasSent
<1>4. result' # NULL
  BY <1>1, <1>3, NullAssumption DEF IInv, TypeOK
<1>5. /\ UNCHANGED <<pressed, held, shift, overrun>> /\ pc = "fetch" /\ pc' = "char"
  BY DEF Fetch, keyboardVars
<1>6. InHand'
  BY <1>1, <1>3, <1>5 DEF InHand, IInv, TypeOK
<1>7. ~overrun => Handled' = Handled
  BY <1>1, <1>3, <1>4, <1>5 DEF Handled
<1>8. ~overrun' => ShiftSeen'
  BY <1>5, <1>7 DEF ShiftInv, ShiftSeen
<1>9. ShiftDown'
  BY <1>5 DEF ShiftInv, ShiftDown
<1> QED
  BY <1>6, <1>8, <1>9 DEF ShiftInv

LEMMA CharKeepsShift == ASSUME IInv, ShiftInv, in_char PROVE ShiftInv'
<1>1. /\ UNCHANGED <<pressed, held, result, taken, overrun>> /\ pc = "char" /\ pc' # "char"
      /\ shift' = ShiftAfter(result, shift)
  BY DEF in_char, keyboardVars
<1>2. InHand' /\ Handled' = taken /\ taken \in Nat
  BY <1>1 DEF InHand, Handled, IInv, TypeOK
<1>3. ~overrun' => ShiftSeen'
  <2> SUFFICES ASSUME ~overrun, shift'
               PROVE  \E i \in 1..taken : /\ pressed[i] \in Shifts
                                          /\ \A j \in (i + 1)..taken : pressed[j] \notin Ups
    BY <1>1, <1>2 DEF ShiftSeen
  <2>1. CASE result = NULL
    <3>1. shift' = shift
      BY <1>1, <2>1, NullAssumption DEF ShiftAfter, Codes, Ups
    <3> QED
      BY <2>1, <3>1 DEF ShiftInv, ShiftSeen, Handled
  <2>2. CASE result # NULL
    <3>0. Handled = taken - 1 /\ taken \in 1..Len(pressed) /\ result = pressed[taken]
      BY <1>1, <2>2 DEF ShiftInv, InHand, Handled, IInv, TypeOK
    <3>1. CASE result \in Shifts
      BY <3>0, <3>1
    <3>2. CASE result \notin Shifts
      <4>1. result \notin Ups /\ shift
        BY <1>1, <3>2 DEF ShiftAfter, Ups
      <4>2. PICK i \in 1..(taken - 1) : /\ pressed[i] \in Shifts
                                        /\ \A j \in (i + 1)..(taken - 1) : pressed[j] \notin Ups
        BY <3>0, <4>1 DEF ShiftInv, ShiftSeen
      <4>3. ASSUME NEW j \in (i + 1)..taken PROVE pressed[j] \notin Ups
        <5>1. j = taken \/ j \in (i + 1)..(taken - 1)
          BY <3>0
        <5> QED
          BY <3>0, <4>1, <4>2, <5>1
      <4> QED
        BY <3>0, <4>2, <4>3
    <3> QED
      BY <3>1, <3>2
  <2> QED
    BY <2>1, <2>2
<1>4. ShiftDown'
  BY <1>1 DEF ShiftInv, ShiftDown
<1> QED
  BY <1>2, <1>3, <1>4 DEF ShiftInv

LEMMA StepKeepsShift == IInv /\ ShiftInv /\ [Next]_vars => ShiftInv'
<1> SUFFICES ASSUME IInv, ShiftInv, [Next]_vars PROVE ShiftInv'
  OBVIOUS
<1>1. ASSUME NEW code \in Codes, keyboard_interrupt(code) PROVE ShiftInv'
  BY <1>1, PressKeepsShift
<1>2. CASE KeyWaiting \/ in_string \/ NoKey
  <2>1. /\ UNCHANGED <<pressed, held, shift, taken, overrun>> /\ pc # "char"
        /\ pc' = "char" => result' = NULL
    BY <1>2 DEF KeyWaiting, in_string, NoKey, keyboardVars
  <2> QED
    BY <2>1 DEF ShiftInv, InHand, ShiftSeen, ShiftDown, Handled
<1>3. CASE UNCHANGED vars
  BY <1>3 DEF vars, keyboardVars, readerVars, ShiftInv, InHand, ShiftSeen, ShiftDown, Handled
<1> QED
  BY <1>1, <1>2, <1>3, FetchKeepsShift, CharKeepsShift DEF Next, Reader

(***************************************************************************)
(* Shift does not stick: with no shift key down and every code dealt with, *)
(* in_char uses the plain table, whatever order the two shift keys and     *)
(* their releases arrive in, as long as no code was overrun.               *)
(***************************************************************************)
THEOREM ShiftDoesNotStick == Spec => []ShiftIsReleased
<1>1. Init => ShiftInv
  BY DEF Init, ShiftInv, InHand, ShiftSeen, ShiftDown
<1>2. IInv /\ ShiftInv => ShiftIsReleased
  <2> SUFFICES ASSUME IInv, ShiftInv, ~overrun, held = {}, taken = Len(pressed), pc # "char", shift
               PROVE  FALSE
    BY DEF ShiftIsReleased
  <2>0. Handled = Len(pressed) /\ Len(pressed) \in Nat
    BY DEF Handled, IInv, TypeOK
  <2>1. PICK i \in 1..Len(pressed) : /\ pressed[i] \in Shifts
                                     /\ \A j \in (i + 1)..Len(pressed) : pressed[j] \notin Ups
    BY <2>0 DEF ShiftInv, ShiftSeen
  <2>2. \A j \in (i + 1)..Len(pressed) : pressed[j] # Up[pressed[i]]
    BY <2>1 DEF Ups
  <2>3. pressed[i] \in held
    BY <2>0, <2>1, <2>2 DEF ShiftInv, ShiftDown, IInv, TypeOK
  <2> QED
    BY <2>3
<1> QED
  BY <1>1, <1>2, Invariance, StepKeepsShift, PTL DEF Spec

-----------------------------------------------------------------------------
(* The line.  Nothing is proved about the recursion of Typed by induction  *)
(* over the codes: the reader itself runs through it, a code at a time.    *)

IsTyping(f, n, codes) ==
  f = [i \in 0..n |-> IF i = 0 THEN Untyped ELSE TypedAfter(codes, i, f[i - 1])]

\* The first n codes amount to t, and to nothing else.
AmountTo(n, codes, t) ==
  (\E f : IsTyping(f, n, codes)) /\ \A f : IsTyping(f, n, codes) => f[n] = t

LEMMA TypedIsUnique ==
  ASSUME NEW codes, NEW t, AmountTo(Len(codes), codes, t)
  PROVE  Typed(codes) = t
<1> DEFINE g == CHOOSE f : IsTyping(f, Len(codes), codes)
<1>1. IsTyping(g, Len(codes), codes)
  BY DEF AmountTo
<1>2. Typed(codes) = g[Len(codes)]
  BY Zenon DEF Typed, IsTyping
<1> HIDE DEF g
<1> QED
  BY <1>1, <1>2 DEF AmountTo

LEMMA NothingTyped == ASSUME NEW codes PROVE AmountTo(0, codes, Untyped)
<1> DEFINE f == [i \in 0..0 |-> Untyped]
<1>1. IsTyping(f, 0, codes)
  BY DEF IsTyping
<1>2. \A g : IsTyping(g, 0, codes) => g[0] = Untyped
  BY DEF IsTyping
<1> QED
  BY <1>1, <1>2 DEF AmountTo

\* What comes behind the first n codes does not matter to them.
LEMMA PrefixDecides ==
  ASSUME NEW n \in Nat, NEW c, NEW d, NEW t, \A i \in 1..n : c[i] = d[i], AmountTo(n, c, t)
  PROVE  AmountTo(n, d, t)
<1>1. ASSUME NEW f PROVE \A i \in 1..n : TypedAfter(c, i, f[i - 1]) = TypedAfter(d, i, f[i - 1])
  <2>1. ASSUME NEW i \in 1..n PROVE c[i] = d[i] /\ (i > 1 => c[i - 1] = d[i - 1])
    <3>1. i > 1 => i - 1 \in 1..n
      OBVIOUS
    <3> QED
      BY <3>1
  <2> QED
    BY <2>1 DEF TypedAfter
<1>2. ASSUME NEW f
      PROVE  [i \in 0..n |-> IF i = 0 THEN Untyped ELSE TypedAfter(c, i, f[i - 1])]
             = [i \in 0..n |-> IF i = 0 THEN Untyped ELSE TypedAfter(d, i, f[i - 1])]
  BY <1>1
<1>3. ASSUME NEW f PROVE IsTyping(f, n, c) <=> IsTyping(f, n, d)
  BY <1>2 DEF IsTyping
<1> QED
  BY <1>3 DEF AmountTo

LEMMA OneMoreCode ==
  ASSUME NEW n \in Nat, NEW codes, NEW t, AmountTo(n, codes, t)
  PROVE  AmountTo(n + 1, codes, TypedAfter(codes, n + 1, t))
<1> DEFINE u == TypedAfter(codes, n + 1, t)
<1>1. PICK f : IsTyping(f, n, codes)
  BY DEF AmountTo
<1>2. f[n] = t
  BY <1>1 DEF AmountTo
<1> DEFINE g == [i \in 0..(n + 1) |-> IF i = n + 1 THEN u ELSE f[i]]
<1>3. IsTyping(g, n + 1, codes)
  <2>1. ASSUME NEW i \in 0..(n + 1)
        PROVE  g[i] = IF i = 0 THEN Untyped ELSE TypedAfter(codes, i, g[i - 1])
    <3> HIDE DEF u
    <3>1. CASE i = n + 1
      <4>1. g[i] = u /\ i # 0 /\ g[i - 1] = t
        BY <1>2, <3>1
      <4> QED
        BY <3>1, <4>1 DEF u
    <3>2. CASE i # n + 1 /\ i # 0
      <4>1. g[i] = f[i] /\ g[i - 1] = f[i - 1] /\ i \in 0..n
        BY <3>2
      <4>2. f[i] = TypedAfter(codes, i, f[i - 1])
        BY <1>1, <3>2, <4>1 DEF IsTyping
      <4> QED
        BY <3>2, <4>1, <4>2
    <3>3. CASE i = 0
      BY <1>1, <3>3 DEF IsTyping
    <3> QED
      BY <3>1, <3>2, <3>3
  <2> HIDE DEF u
  <2> QED
    BY <2>1 DEF IsTyping
<1>4. ASSUME NEW h, IsTyping(h, n + 1, codes) PROVE h[n + 1] = u
  <2> DEFINE r == [i \in 0..n |-> h[i]]
  <2>1. \A i \in 0..n : h[i] = IF i = 0 THEN Untyped ELSE TypedAfter(codes, i, h[i - 1])
    BY <1>4 DEF IsTyping
  <2>2. \A i \in 0..n : i # 0 => r[i - 1] = h[i - 1]
    OBVIOUS
  <2>3. IsTyping(r, n, codes)
    BY <2>1, <2>2 DEF IsTyping
  <2>4. h[n] = t
    <3>1. r[n] = t
      BY <2>3 DEF AmountTo
    <3> QED
      BY <3>1
  <2>5. h[n + 1] = TypedAfter(codes, n + 1, h[(n + 1) - 1])
    BY <1>4 DEF IsTyping
  <2> QED
    BY <2>4, <2>5
<1> HIDE DEF u, g
<1> QED
  BY <1>3, <1>4 DEF AmountTo, u

LineInv ==
  /\ Len(line) < buffer_size
  /\ ~overrun => Ended /\ \E t : AmountTo(Handled, pressed, t) /\ Matches(t)

LEMMA LineFits ==
  ASSUME IInv, LineInv, NEW code, NEW s \in BOOLEAN
  PROVE  Len(LineAfter(code, s, line)) < buffer_size
<1>1. line \in Seq(Keys \X BOOLEAN) /\ Len(line) \in Nat /\ buffer_size \in Nat
  BY LineAssumption DEF IInv, TypeOK
<1>2. CASE code \in Keys
  BY <1>1, <1>2 DEF LineAfter, LineInv
<1>3. CASE code \notin Keys /\ code = "backspace" /\ line # <<>>
  <2>1. LineAfter(code, s, line) = SubSeq(line, 1, Len(line) - 1)
    BY <1>3 DEF LineAfter
  <2>2. Len(line) > 0
    BY <1>1, <1>3
  <2> QED
    BY <1>1, <2>1, <2>2 DEF LineInv
<1>4. CASE code \notin Keys /\ ~(code = "backspace" /\ line # <<>>)
  BY <1>4 DEF LineAfter, LineInv
<1> QED
  BY <1>2, <1>3, <1>4

LEMMA PressKeepsLine ==
  ASSUME IInv, ShiftInv, LineInv, NEW code \in Codes, keyboard_interrupt(code)
  PROVE  LineInv'
<1>1. /\ taken \in 0..Len(pressed) /\ Handled \in Int /\ Handled <= taken
      /\ Len(pressed) \in Nat /\ pressed \in Seq(Codes)
  BY TakenWasSent DEF IInv, TypeOK, Handled
<1>2. Handled \in Nat
  BY <1>1 DEF ShiftInv, InHand, Handled
<1>3. \A i \in 1..Handled : pressed'[i] = pressed[i]
  BY <1>1 DEF keyboard_interrupt
<1>4. UNCHANGED <<pc, taken, result, shift, line>> /\ Handled' = Handled
  BY DEF keyboard_interrupt, readerVars, Handled
<1>5. ~overrun' => Ended' /\ \E t : AmountTo(Handled, pressed, t)' /\ Matches(t)'
  <2> SUFFICES ASSUME ~overrun' PROVE Ended' /\ \E t : AmountTo(Handled, pressed, t)' /\ Matches(t)'
    OBVIOUS
  <2>1. ~overrun
    BY DEF keyboard_interrupt
  <2>2. Handled > 0 => pressed'[Handled] = pressed[Handled]
    BY <1>2, <1>3
  <2>3. Ended'
    BY <1>4, <2>1, <2>2 DEF LineInv, Ended
  <2>4. PICK t : AmountTo(Handled, pressed, t) /\ Matches(t)
    BY <2>1 DEF LineInv
  <2>5. AmountTo(Handled, pressed', t)
    BY <1>2, <1>3, <2>4, PrefixDecides
  <2>6. Matches(t)'
    BY <1>4, <2>2, <2>4 DEF Matches
  <2>7. AmountTo(Handled, pressed, t)'
    BY <1>4, <2>5
  <2> QED
    BY <2>3, <2>6, <2>7
<1> QED
  BY <1>4, <1>5 DEF LineInv

LEMMA CharKeepsLine == ASSUME IInv, ShiftInv, LineInv, in_char PROVE LineInv'
<1>1. /\ UNCHANGED <<pressed, result, taken, overrun>> /\ pc = "char"
      /\ pc' = IF result = "enter" THEN "shell" ELSE "scan"
      /\ shift' = ShiftAfter(result, shift) /\ line' = LineAfter(result, shift', line)
  BY DEF in_char, keyboardVars
<1>2. Handled' = taken /\ taken \in Nat
  BY <1>1 DEF Handled, IInv, TypeOK
<1>3. Len(line') < buffer_size
  <2>1. shift' \in BOOLEAN
    BY <1>1 DEF ShiftAfter, IInv, TypeOK
  <2> QED
    BY <1>1, <2>1, LineFits
<1>4. ASSUME ~overrun PROVE Ended' /\ \E t : AmountTo(Handled, pressed, t)' /\ Matches(t)'
  <2>1. PICK t : AmountTo(Handled, pressed, t) /\ Matches(t)
    BY <1>4 DEF LineInv
  <2>2. CASE result = NULL
    <3>1. shift' = shift /\ line' = line /\ pc' = "scan"
      BY <1>1, <2>2, NullAssumption DEF ShiftAfter, LineAfter, Codes, Ups
    <3>2. Handled' = Handled
      BY <1>2, <2>2 DEF Handled
    <3>3. Matches(t)' /\ Ended'
      BY <1>1, <2>1, <3>1, <3>2 DEF Matches, Ended
    <3>4. AmountTo(Handled, pressed, t)'
      BY <1>1, <2>1, <3>2
    <3> QED
      BY <3>3, <3>4
  <2>3. CASE result # NULL
    <3>1. Handled = taken - 1 /\ Handled \in Nat /\ result = pressed[taken] /\ Handled + 1 = taken
      BY <1>1, <2>3 DEF ShiftInv, InHand, Handled, IInv, TypeOK
    <3>0. PICK u : u = TypedAfter(pressed, taken, t)
      OBVIOUS
    <3>2. AmountTo(taken, pressed, u)
      BY <2>1, <3>0, <3>1, OneMoreCode
    <3>3. u.shift = shift' /\ u.line = line'
      <4> DEFINE l == IF taken > 1 /\ pressed[taken - 1] = "enter" THEN <<>> ELSE t.line
      <4>1. shift = t.shift /\ line = l
        BY <1>1, <2>1, <3>1 DEF Matches
      <4>2. u.shift = ShiftAfter(result, t.shift) /\ u.line = LineAfter(result, u.shift, l)
        BY <3>0, <3>1 DEF TypedAfter
      <4> HIDE DEF l
      <4> QED
        BY <1>1, <4>1, <4>2
    <3>4. pc' # "shell" => pressed[taken] # "enter"
      BY <1>1, <3>1
    <3>5. Matches(u)'
      BY <1>1, <1>2, <3>3, <3>4 DEF Matches
    <3>6. Ended'
      BY <1>1, <1>2, <3>1 DEF Ended
    <3>7. AmountTo(Handled, pressed, u)'
      BY <1>1, <1>2, <3>2
    <3> QED
      BY <3>5, <3>6, <3>7
  <2> QED
    BY <2>2, <2>3
<1> QED
  BY <1>1, <1>3, <1>4 DEF LineInv

LEMMA StepKeepsLine == IInv /\ ShiftInv /\ LineInv /\ [Next]_vars => LineInv'
<1> SUFFICES ASSUME IInv, ShiftInv, LineInv, [Next]_vars PROVE LineInv'
  OBVIOUS
<1>1. ASSUME NEW code \in Codes, keyboard_interrupt(code) PROVE LineInv'
  BY <1>1, PressKeepsLine
<1>2. CASE KeyWaiting \/ NoKey
  <2>1. /\ UNCHANGED <<pressed, shift, line, taken, overrun>> /\ pc = "scan" /\ pc' \in {"fetch", "char"}
        /\ pc' = "char" => result' = NULL
    BY <1>2 DEF KeyWaiting, NoKey, keyboardVars
  <2>2. Handled' = Handled
    BY <2>1 DEF Handled
  <2> QED
    BY <2>1, <2>2 DEF LineInv, Ended, Matches
<1>3. CASE Fetch
  <2>1. /\ UNCHANGED <<pressed, shift, line, overrun>> /\ pc = "fetch" /\ pc' = "char"
    BY <1>3 DEF Fetch, keyboardVars
  <2>2. ShiftInv' /\ (~overrun => taken' = taken + 1) /\ taken \in Nat
    BY <1>3, FetchKeepsShift, FetchStep DEF IInv, TypeOK
  <2>3. result' # NULL
    <3>1. head \in Slots /\ stamp[head] > 0 /\ stamp[head] \in 1..Len(pressed)
      BY <1>3, <2>2, CountersTyped, TakenWasSent DEF IInv, Position, Fetch, Slots, Counters
    <3>2. result' = pressed[stamp[head]]
      BY <1>3, FetchStep DEF Fetch
    <3> QED
      BY <3>1, <3>2, NullAssumption DEF IInv, TypeOK
  <2>4. ~overrun => Handled' = Handled
    BY <2>1, <2>2, <2>3 DEF Handled
  <2> QED
    BY <2>1, <2>4 DEF LineInv, Ended, Matches
<1>4. CASE in_string
  <2>1. /\ UNCHANGED <<pressed, shift, taken, overrun, result>> /\ pc = "shell" /\ pc' = "scan" /\ line' = <<>>
    BY <1>4 DEF in_string, keyboardVars
  <2>2. Handled = taken /\ Handled' = taken /\ taken \in Nat
    BY <2>1 DEF Handled, IInv, TypeOK
  <2>3. Len(line') < buffer_size
    BY <2>1, LineAssumption
  <2>4. ASSUME ~overrun PROVE \E t : AmountTo(Handled, pressed, t)' /\ Matches(t)'
    <3>1. PICK t : AmountTo(Handled, pressed, t) /\ Matches(t)
      BY <2>4 DEF LineInv
    <3>2. AmountTo(Handled, pressed, t)'
      BY <2>1, <2>2, <3>1
    <3>3. CASE Handled > 0
      <4>1. pressed[Handled] = "enter"
        BY <2>1, <2>4, <3>3 DEF LineInv, Ended
      <4> QED
        BY <2>1, <2>2, <3>1, <3>2, <3>3, <4>1 DEF Matches
    <3>4. CASE Handled = 0
      <4>1. t = Untyped
        BY <3>1, <3>4, NothingTyped DEF AmountTo
      <4>2. t.line = <<>> /\ shift = t.shift
        BY <3>1, <4>1 DEF Matches, Untyped
      <4>3. Matches(t)'
        BY <2>1, <2>2, <3>4, <4>2 DEF Matches
      <4> QED
        BY <3>2, <4>3
    <3> QED
      BY <2>2, <3>3, <3>4
  <2> QED
    BY <2>1, <2>3, <2>4 DEF LineInv, Ended
<1>5. CASE UNCHANGED vars
  BY <1>5 DEF vars, keyboardVars, readerVars, LineInv, Ended, Matches, Handled
<1> QED
  BY <1>1, <1>2, <1>3, <1>4, <1>5, CharKeepsLine DEF Next, Reader

(***************************************************************************)
(* in_string returns the line that was typed, for every buffer size and    *)
(* any number of keys, pressed whenever the reader is elsewhere: every     *)
(* character in the table of the shift state it was pressed in, backspace  *)
(* obeyed, nothing of the line before, and room for the terminating zero.  *)
(***************************************************************************)
THEOREM LineIsWhatWasTyped == Spec => []LineIsTyped
<1>1. Init => ShiftInv
  BY DEF Init, ShiftInv, InHand, ShiftSeen, ShiftDown
<1>2. Init => LineInv
  <2> SUFFICES ASSUME Init PROVE LineInv
    OBVIOUS
  <2>1. Handled = 0 /\ line = <<>> /\ shift = FALSE
    BY DEF Init, Handled
  <2>2. Untyped.shift = FALSE /\ Untyped.line = <<>>
    BY DEF Untyped
  <2>4. Ended /\ Matches(Untyped)
    <3>1. ~(Handled > 0)
      BY <2>1
    <3> QED
      BY <2>1, <2>2, <3>1 DEF Ended, Matches
  <2>3. AmountTo(Handled, pressed, Untyped)
    BY <2>1, NothingTyped
  <2> QED
    BY <2>1, <2>3, <2>4, LineAssumption DEF LineInv
<1>3. IInv /\ ShiftInv /\ LineInv => LineIsTyped
  <2> SUFFICES ASSUME IInv, LineInv, pc = "shell"
               PROVE  /\ ~overrun => line = Typed(SubSeq(pressed, 1, taken)).line
                      /\ Len(line) < buffer_size
    BY DEF LineIsTyped
  <2>1. ASSUME ~overrun PROVE line = Typed(SubSeq(pressed, 1, taken)).line
    <3>1. PICK t : AmountTo(taken, pressed, t) /\ line = t.line
      BY <2>1 DEF LineInv, Matches, Handled
    <3> DEFINE sent == SubSeq(pressed, 1, taken)
    <3>2. pressed \in Seq(Codes) /\ taken \in 0..Len(pressed)
      BY TakenWasSent DEF IInv, TypeOK
    <3>3. Len(sent) = taken /\ \A i \in 1..taken : pressed[i] = sent[i]
      BY <3>2
    <3> HIDE DEF sent
    <3>4. AmountTo(Len(sent), sent, t)
      BY <3>1, <3>2, <3>3, PrefixDecides
    <3>5. Typed(sent) = t
      BY <3>4, TypedIsUnique
    <3> QED
      BY <3>1, <3>5 DEF sent
  <2> QED
    BY <2>1 DEF LineInv
<1> QED
  BY <1>1, <1>2, <1>3, Invariance, StepKeepsShift, StepKeepsLine, PTL DEF Spec
=============================================================================
