---------------------------- MODULE KeyboardProps ----------------------------
(***************************************************************************)
(* What must be true of the key buffer and of the line that is read.       *)
(***************************************************************************)
EXTENDS Keyboard

TypeOK ==
  /\ key_buffer \in [Slots -> Codes \cup {NULL}]
  /\ head \in 0..KEY_BUFFER_SIZE /\ tail \in 0..KEY_BUFFER_SIZE
  /\ held \in SUBSET Shifts
  /\ pc \in {"shell", "scan", "fetch", "char"}
  /\ result \in Codes \cup {NULL} /\ shift \in BOOLEAN
  /\ line \in Seq(Keys \X BOOLEAN)
  /\ pressed \in Seq(Codes) /\ stamp \in [Slots -> Nat] /\ taken \in Nat
  /\ overrun \in BOOLEAN

(***************************************************************************)
(* The buffer is the queue of KeyQueue.tla, whatever arrives between the   *)
(* test in in_scancode and the access to key_buffer: a key that no longer  *)
(* fits costs the whole backlog, and nothing else ever goes wrong.         *)
(***************************************************************************)
Queue == [i \in 1..Waits |-> Waiter(i)]
KQ == INSTANCE KeyQueue WITH queue <- Queue
IsKeyQueue == KQ!Spec

(***************************************************************************)
(* in_scancode returns a code that was sent, later than any it returned    *)
(* before: nothing is repeated and nothing overtakes, even when the buffer *)
(* overflows while the reader is inside in_scancode.                       *)
(***************************************************************************)
KeysInOrder == [][Fetch => taken' > taken /\ result' = pressed[taken']]_vars

(***************************************************************************)
(* As long as fewer than KEY_BUFFER_SIZE codes wait, none is lost: what    *)
(* was taken and what waits is all that was sent.                          *)
(***************************************************************************)
NothingLost == ~overrun => taken + Waits = Len(pressed)

(* The shift state and the line that a sequence of codes amounts to: one   *)
(* code after the other, and a line starts anew after enter.               *)
Untyped == [shift |-> FALSE, line |-> <<>>]
TypedAfter(codes, i, before) ==
  LET s == ShiftAfter(codes[i], before.shift)
      l == IF i > 1 /\ codes[i - 1] = "enter" THEN <<>> ELSE before.line
  IN  [shift |-> s, line |-> LineAfter(codes[i], s, l)]
Typed(codes) ==
  LET f[i \in 0..Len(codes)] == IF i = 0 THEN Untyped ELSE TypedAfter(codes, i, f[i - 1])
  IN  f[Len(codes)]

(***************************************************************************)
(* The command that in_string returns is the one that was typed, although  *)
(* the keys were pressed while the reader was elsewhere; it leaves room    *)
(* for the terminating zero.                                               *)
(***************************************************************************)
LineIsTyped ==
  pc = "shell" =>
     /\ ~overrun => line = Typed(SubSeq(pressed, 1, taken)).line
     /\ Len(line) < buffer_size

(***************************************************************************)
(* Shift does not stick: when no shift key is down and every code has been *)
(* handled, in_char uses the plain table (unless a release was lost in an  *)
(* overrun, after which it really may stick).                              *)
(***************************************************************************)
ShiftIsReleased ==
  ~overrun /\ held = {} /\ taken = Len(pressed) /\ pc # "char" => ~shift

(***************************************************************************)
(* A line that is ended is returned, unless the buffer overflows: the      *)
(* reader never spins for ever while an enter waits in the buffer.         *)
(***************************************************************************)
EnterReturns ==
  (\E i \in DOMAIN pressed : i > taken /\ pressed[i] = "enter")
     ~> (pc = "shell" \/ overrun)

-----------------------------------------------------------------------------
(* The inductive invariant.                                                *)

(* What each slot holds: the slots before the tail are from the current    *)
(* lap, the others from the one before.  Nothing of the lap before exists  *)
(* until the tail has wrapped.                                             *)
Laps ==
  /\ Len(pressed) = tail \/ Len(pressed) >= tail + KEY_BUFFER_SIZE
  /\ tail = 0 => Len(pressed) = 0
  /\ \A i \in Slots :
       stamp[i] = IF i < tail THEN Len(pressed) + 1 + i - tail
                  ELSE IF Len(pressed) = tail THEN 0
                  ELSE Len(pressed) + 1 + i - tail - KEY_BUFFER_SIZE
  /\ \A i \in Slots : stamp[i] > 0 => key_buffer[i] = pressed[stamp[i]]

(* Where the reader is in the buffer. *)
Position ==
  /\ Len(pressed) = tail => head <= tail
  /\ pc # "fetch" => IF head = 0 THEN taken = 0 ELSE taken <= stamp[head - 1]
  /\ pc = "fetch" => head < KEY_BUFFER_SIZE /\ taken < stamp[head]

IInv == TypeOK /\ Laps /\ Position /\ NothingLost

(* How many codes in_char has dealt with: the one it has been given, if it *)
(* has been given one, is not among them.                                  *)
Handled == IF pc = "char" /\ result # NULL THEN taken - 1 ELSE taken
InHand ==
  pc = "char" /\ result # NULL => taken \in DOMAIN pressed /\ result = pressed[taken]

(* in_char's shift is that of a shift key after which it saw no release,   *)
(* and a shift key that was not released since is down.                    *)
ShiftSeen ==
  shift => \E i \in 1..Handled : /\ pressed[i] \in Shifts
                                 /\ \A j \in (i + 1)..Handled : pressed[j] \notin Ups
ShiftDown ==
  \A i \in DOMAIN pressed :
    /\ pressed[i] \in Shifts
    /\ \A j \in (i + 1)..Len(pressed) : pressed[j] # Up[pressed[i]]
    => pressed[i] \in held
ShiftInv == InHand /\ (~overrun => ShiftSeen) /\ ShiftDown

(* in_char and in_string are where the codes dealt with have brought them; *)
(* after an enter the line is kept until the shell asks for the next one.  *)
Matches(t) ==
  /\ shift = t.shift
  /\ line = IF pc # "shell" /\ Handled > 0 /\ pressed[Handled] = "enter" THEN <<>> ELSE t.line
Ended == pc = "shell" /\ Handled > 0 => pressed[Handled] = "enter"
=============================================================================
