------------------------------ MODULE Keyboard ------------------------------
(***************************************************************************)
(* The keyboard half of drivers/tty.c: the ring buffer that the keyboard   *)
(* interrupt fills, and in_string, in_char and in_scancode, with which the *)
(* shell's thread empties it.                                              *)
(*                                                                         *)
(* The interrupt runs to its end and never looks at the reader's           *)
(* variables, so a step of the reader may go from one access of the shared *)
(* tail and buffer to the next; between two of them any number of keys may *)
(* arrive.  A scan code is a member of Codes; what in_char can tell apart  *)
(* is kept, the tables of scancodes.h are not.                             *)
(***************************************************************************)
EXTENDS Naturals, Sequences

CONSTANTS KEY_BUFFER_SIZE,
          buffer_size, \* of in_string's caller
          Keys,        \* keys with a character that depends on shift
          MaxPresses,  \* bound on the scan codes the keyboard sends
          NULL         \* scan code and character 0

ASSUME SizeAssumption == KEY_BUFFER_SIZE \in Nat /\ KEY_BUFFER_SIZE > 1
ASSUME LineAssumption == buffer_size \in Nat \ {0}

\* The shift keys, and the scan code (+ 0x80) with which each is released.
Shifts == {"left", "right"}
Up == [left |-> "left_up", right |-> "right_up"]
Ups == {Up[s] : s \in Shifts}

\* "release" stands for the release of any key but shift, and for keys
\* without a character: in_char makes the character 0 of all of them.
Codes == Keys \cup {"backspace", "enter", "release"} \cup Shifts \cup Ups

ASSUME NullAssumption == NULL \notin Codes

VARIABLES
  key_buffer, head, tail,
  held,     \* the shift keys that are down
  pc,       \* where the reader is
  result,   \* the scan code that in_scancode returns
  shift,    \* in_char's
  line,     \* in_string's buffer, up to its position
  pressed,  \* history: every scan code sent
  stamp,    \* history: for each slot, which scan code was stored there
  taken,    \* history: the scan code taken last
  overrun   \* history: KEY_BUFFER_SIZE codes have waited at once

keyboardVars == <<key_buffer, tail, held, pressed, stamp>>
readerVars == <<head, pc, result, shift, line, taken>>
vars == <<keyboardVars, readerVars, overrun>>

Slots == 0..(KEY_BUFFER_SIZE - 1)

Init ==
  /\ key_buffer = [i \in Slots |-> NULL] /\ head = 0 /\ tail = 0
  /\ held = {}
  /\ pc = "shell" /\ result = NULL /\ shift = FALSE /\ line = <<>>
  /\ pressed = <<>> /\ stamp = [i \in Slots |-> 0] /\ taken = 0 /\ overrun = FALSE

-----------------------------------------------------------------------------
(* The keyboard and its interrupt.                                         *)

\* A shift key repeats while it is down and is released only then.
Possible(code) ==
  /\ Len(pressed) < MaxPresses
  /\ \A s \in Shifts : code = Up[s] => s \in held

Held(code) ==
  {s \in Shifts : code # Up[s] /\ (s \in held \/ code = s)}

\* Mutant: the code is stored behind the tail that was just advanced.
Slot_Behind == IF tail >= KEY_BUFFER_SIZE - 1 THEN 0 ELSE tail + 1
Slot == IF tail >= KEY_BUFFER_SIZE THEN 0 ELSE tail

keyboard_interrupt(code) ==
  /\ Possible(code)
  /\ held' = Held(code)
  /\ tail' = (IF tail >= KEY_BUFFER_SIZE THEN 0 ELSE tail) + 1
  /\ key_buffer' = [key_buffer EXCEPT ![Slot] = code]
  /\ pressed' = Append(pressed, code)
  /\ stamp' = [stamp EXCEPT ![Slot] = Len(pressed) + 1]
  /\ overrun' = (overrun \/ Len(pressed) + 1 - taken >= KEY_BUFFER_SIZE)
  /\ UNCHANGED readerVars

-----------------------------------------------------------------------------
(* The reader.                                                             *)

\* in_string is called.
in_string ==
  /\ pc = "shell" /\ pc' = "scan"
  /\ line' = <<>>
  /\ UNCHANGED <<keyboardVars, head, result, shift, taken, overrun>>

\* The test for a waiting key.  Mutant: the tail is taken to be ahead.
Waiting_Ahead == head < tail
Waiting == head # tail

\* in_scancode finds a key waiting ...
KeyWaiting ==
  /\ pc = "scan" /\ Waiting /\ pc' = "fetch"
  /\ head' = IF head >= KEY_BUFFER_SIZE THEN 0 ELSE head
  /\ UNCHANGED <<keyboardVars, result, shift, line, taken, overrun>>

\* ... or none ...
NoKey ==
  /\ pc = "scan" /\ ~Waiting /\ pc' = "char"
  /\ result' = NULL
  /\ UNCHANGED <<keyboardVars, head, shift, line, taken, overrun>>

\* ... and only then reads it.  Mutant: it resynchronises with the tail.
HeadAfter_Tail == tail
HeadAfter == head + 1

Fetch ==
  /\ pc = "fetch" /\ pc' = "char"
  /\ result' = key_buffer[head]
  /\ head' = HeadAfter
  /\ taken' = stamp[head]
  /\ UNCHANGED <<keyboardVars, shift, line, overrun>>

\* in_char's shift after a scan code.  Mutant: only one key releases it.
ShiftAfter_Left(code, s) ==
  CASE code \in Shifts -> TRUE
    [] code = Up["left"] -> FALSE
    [] OTHER -> s
ShiftAfter(code, s) ==
  CASE code \in Shifts -> TRUE
    [] code \in Ups -> FALSE
    [] OTHER -> s

(* in_string's buffer after a scan code: in_char makes a character of it    *)
(* in the table that s selects, or 0, which changes nothing.  A character  *)
(* that would take the place of the terminating zero is dropped.           *)
(* Mutant: the buffer is filled to its end.                                *)
LineAfter_Full(code, s, l) ==
  CASE code \in Keys -> IF Len(l) < buffer_size THEN Append(l, <<code, s>>) ELSE l
    [] code = "backspace" /\ l # <<>> -> SubSeq(l, 1, Len(l) - 1)
    [] OTHER -> l
LineAfter(code, s, l) ==
  CASE code \in Keys -> IF Len(l) < buffer_size - 1 THEN Append(l, <<code, s>>) ELSE l
    [] code = "backspace" /\ l # <<>> -> SubSeq(l, 1, Len(l) - 1)
    [] OTHER -> l

\* in_char after in_scancode; it calls it again while there is no character.
\* in_string does so until the end of the line, and returns to the shell.
in_char ==
  /\ pc = "char" /\ pc' = IF result = "enter" THEN "shell" ELSE "scan"
  /\ shift' = ShiftAfter(result, shift)
  /\ line' = LineAfter(result, shift', line)
  /\ UNCHANGED <<keyboardVars, head, result, taken, overrun>>

Reader == in_string \/ KeyWaiting \/ NoKey \/ Fetch \/ in_char

Next == Reader \/ \E code \in Codes : keyboard_interrupt(code)

Spec == Init /\ [][Next]_vars

(* EveryThreadRuns of MultitaskingProps: the shell's thread gets on. *)
FairSpec == Spec /\ WF_vars(Reader)

-----------------------------------------------------------------------------
(* How many keys wait for the reader.  Once it has decided to read, a full *)
(* lap of the tail means a full buffer; before that it means an empty one. *)
Waits ==
  IF head < tail THEN tail - head
  ELSE IF head > tail THEN tail + KEY_BUFFER_SIZE - head
  ELSE IF pc = "fetch" THEN KEY_BUFFER_SIZE ELSE 0

\* The i-th of them.
Waiter(i) ==
  key_buffer[IF head + i <= KEY_BUFFER_SIZE THEN head + i - 1
             ELSE head + i - 1 - KEY_BUFFER_SIZE]
=============================================================================
