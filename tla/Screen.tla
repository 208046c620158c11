------------------------------- MODULE Screen -------------------------------
(***************************************************************************)
(* drivers/tty.c, the output half, and kernel/syscall.c.                   *)
(*                                                                         *)
(* The kernel thread prints step by step, one step for each access to what *)
(* is shared.  At any of them the timer may let a program run, and a       *)
(* program prints through interrupt 0x30, whose gate leaves interrupts     *)
(* disabled: the kernel thread stands still until its printf is done.  A   *)
(* text is a sequence of items: characters, and numbers that stand for     *)
(* "%d" and its argument.  All that is printed has the same attribute.     *)
(***************************************************************************)
EXTENDS Integers, SequencesExt

CONSTANTS
  tty_width, tty_height,
  Base,          \* numbers are printed in this base
  NumBufferSize, \* sizeof(num_buffer)
  ByteBase,      \* 256: a register of the display controller holds one byte
  Powers,        \* Powers[n] is Base to the n
  Texts,         \* what the kernel prints
  SyscallTexts,  \* what programs print
  MaxCalls,      \* bound: calls of printf by the kernel
  MaxSyscalls    \* bound: system calls

\* A character, or a number that num_buffer has room for.
Item == [chr : STRING, value : 0..(Powers[NumBufferSize - 1] - 1)]
IsNumber(item) == item.chr = "%d"

ASSUME ScreenAssumption ==
  /\ tty_width \in Nat \ {0} /\ tty_width % 2 = 0 /\ tty_height \in Nat \ {0}
  /\ ByteBase \in Nat \ {0}

ASSUME NumberAssumption ==
  /\ Base \in Nat \ {0, 1} /\ NumBufferSize \in Nat \ {0, 1}
  /\ Powers \in [0..NumBufferSize -> Nat] /\ Powers[0] = 1
  /\ \A n \in 1..NumBufferSize : Powers[n] = Powers[n - 1] * Base

ASSUME TextAssumption == Texts \subseteq Seq(Item) /\ SyscallTexts \subseteq Seq(Item)

VARIABLES
  screen,      \* tty_buffer: the screen and one cell behind it
  cursor,
  num_buffer,
  crtc,        \* the display controller: [index, hi, lo]
  pc,          \* where the kernel thread is
  sys,         \* what the system call that runs has still to print
  local,       \* the kernel thread's locals: [fmt, chr, ret, value, i, str, pos, k, reg]
  calls, syscalls,
  out,         \* history: the characters printed, while the screen is their picture
  torn,        \* history: a program has printed in the middle of a kernel's character
  late         \* history: a program has printed between the last load of the cursor and its output

shared == <<screen, cursor, num_buffer, crtc>>
vars == <<shared, pc, sys, local, calls, syscalls, out, torn, late>>

Cells == tty_width * tty_height
Whatever == "?"
NUL == "0x0"

clear_screen == [c \in 0..Cells |-> IF c < Cells THEN " " ELSE Whatever]

Init ==
  /\ screen = clear_screen
  /\ cursor = 0 /\ crtc = [index |-> "lo", hi |-> 0, lo |-> 0]
  /\ num_buffer = [b \in 0..(NumBufferSize - 1) |-> NUL]
  /\ pc = "idle" /\ sys = <<>>
  /\ local = [fmt |-> <<>>, chr |-> "", ret |-> "", value |-> 0, i |-> 0, str |-> 0,
              pos |-> 0, k |-> 0, reg |-> 0]
  /\ calls = 0 /\ syscalls = 0 /\ out = <<>> /\ torn = FALSE /\ late = FALSE

-----------------------------------------------------------------------------
(* What the statements compute.                                            *)

NextLine(at) == (at \div tty_width + 1) * tty_width

\* Mutant: > for >=.
AtEnd_Late(at) == at > Cells
AtEnd(at) == at >= Cells

LastLine == (tty_height - 1) * tty_width

\* memcpy reads a line more than the screen has.
Cell(scr, c) == IF c \in DOMAIN scr THEN scr[c] ELSE Whatever
Copied(scr, c) == [scr EXCEPT ![c] = Cell(scr, c + tty_width)]

Blanked(scr, c) == [scr EXCEPT ![c] = " ", ![c + 1] = " "]

\* Mutant: the high byte is not shifted down.
High_Not(at) == at % ByteBase
High(at) == at \div ByteBase
Low(at) == at % ByteBase

Out(ctl, byte) == IF ctl.index = "hi" THEN [ctl EXCEPT !.hi = byte] ELSE [ctl EXCEPT !.lo = byte]

Stored(scr, at, chr) == [c \in DOMAIN scr \cup {at} |-> IF c = at THEN chr ELSE scr[c]]

digits(n) == ToString(n)

-----------------------------------------------------------------------------
(* A system call: the same statements with nothing in between.             *)

\* The digits of a number, the last one first.
Digits(value) ==
  LET d[n \in Nat] == <<digits(n % Base)>> \o (IF n < Base THEN <<>> ELSE d[n \div Base])
  IN  d[value]

int_to_str(value) ==
  LET last == NumBufferSize - 1
      ds == Digits(value)
  IN  [b \in DOMAIN num_buffer |->
         IF b = last THEN NUL ELSE IF last - b \in DOMAIN ds THEN ds[last - b] ELSE num_buffer[b]]

Scrolled(scr) ==
  [c \in DOMAIN scr |-> IF c < LastLine THEN scr[c + tty_width] ELSE IF c < Cells THEN " " ELSE scr[c]]

move_cursor(scr, pos) ==
  LET at == IF AtEnd(pos) THEN LastLine ELSE pos
  IN  /\ screen' = IF AtEnd(pos) THEN Scrolled(scr) ELSE scr
      /\ cursor' = at
      /\ crtc' = [index |-> "lo", hi |-> High(at), lo |-> Low(at)]

out_char(chr) ==
  IF chr = "\n" THEN move_cursor(screen, NextLine(cursor))
  ELSE move_cursor(Stored(screen, cursor, chr), cursor + 1)

\* Where the kernel thread may be interrupted by text without harm to the screen:
\* between its characters. Its digits must not be replaced meanwhile.
Numbering == pc = "digits" \/ pc = "str" \/ local.ret = "str"
Moved == {"index_hi", "load_hi", "out_hi", "index_lo", "load_lo", "out_lo"}
BetweenCharacters(text) ==
  /\ pc \in {"idle", "fmt", "digits", "str"} \cup Moved
  /\ Numbering => \A j \in DOMAIN text : ~IsNumber(text[j])

\* A character is out in the sense of the history when it takes its place.
Placed(chr) == out' = IF torn THEN <<>> ELSE Append(out, chr)

\* The number in eax is one, or none, of a system call.
syscall_handler ==
  /\ sys = <<>> /\ syscalls < MaxSyscalls /\ syscalls' = syscalls + 1
  /\ \/ UNCHANGED <<sys, out, torn>>
     \/ \E text \in SyscallTexts :
          /\ sys' = text
          /\ torn' = (torn \/ ~BetweenCharacters(text))
          /\ out' = IF torn' THEN <<>> ELSE out
  /\ UNCHANGED <<shared, pc, local, calls, late>>

\* One item of its text; a number becomes characters.
printf ==
  /\ sys # <<>>
  /\ LET item == Head(sys)
     IN  \/ /\ IsNumber(item) /\ num_buffer' = int_to_str(item.value)
            /\ LET ds == Reverse(Digits(item.value))
               IN  sys' = [j \in DOMAIN ds |-> [chr |-> ds[j], value |-> 0]] \o Tail(sys)
            /\ UNCHANGED <<screen, cursor, crtc, out, late>>
         \/ /\ ~IsNumber(item) /\ out_char(item.chr) /\ Placed(item.chr)
            /\ late' = (pc = "out_lo")
            /\ sys' = Tail(sys) /\ UNCHANGED num_buffer
  /\ UNCHANGED <<pc, local, calls, syscalls, torn>>

-----------------------------------------------------------------------------
(* The kernel thread.                                                      *)

Goto(label) == pc' = label
History == <<calls, syscalls, out, torn, late>>
Local == UNCHANGED <<shared, History>>

Printf ==
  /\ pc = "idle" /\ calls < MaxCalls /\ calls' = calls + 1 /\ Goto("fmt")
  /\ \E text \in Texts : local' = [local EXCEPT !.fmt = text]
  /\ UNCHANGED <<shared, syscalls, out, torn, late>>

\* out_char is called and returns to ret.
Call(chr, ret) ==
  /\ local' = [local EXCEPT !.chr = chr, !.ret = ret, !.fmt = IF ret = "fmt" THEN Tail(@) ELSE @,
                            !.str = IF ret = "str" THEN @ + 1 ELSE @]
  /\ Goto("out")

Fmt ==
  /\ pc = "fmt"
  /\ \/ local.fmt = <<>> /\ Goto("idle") /\ Local /\ UNCHANGED local
     \/ local.fmt # <<>> /\ ~IsNumber(Head(local.fmt)) /\ Call(Head(local.fmt).chr, "fmt") /\ Local
     \/ /\ local.fmt # <<>> /\ IsNumber(Head(local.fmt)) /\ Goto("digits")
        /\ local' = [local EXCEPT !.fmt = Tail(@), !.value = Head(local.fmt).value, !.i = NumBufferSize - 2]
        /\ num_buffer' = [num_buffer EXCEPT ![NumBufferSize - 1] = NUL]
        /\ UNCHANGED <<screen, cursor, crtc>> /\ UNCHANGED History

\* One turn of the loop of int_to_str.
IntToStr ==
  /\ pc = "digits"
  /\ num_buffer' = [num_buffer EXCEPT ![local.i] = digits(local.value % Base)]
  /\ IF local.value >= Base
     THEN local' = [local EXCEPT !.value = @ \div Base, !.i = @ - 1] /\ UNCHANGED pc
     ELSE local' = [local EXCEPT !.str = local.i] /\ Goto("str")
  /\ UNCHANGED <<screen, cursor, crtc>> /\ UNCHANGED History

OutString ==
  /\ pc = "str" /\ Local
  /\ IF num_buffer[local.str] = NUL
     THEN Goto("fmt") /\ local' = [local EXCEPT !.ret = "fmt"]
     ELSE Call(num_buffer[local.str], "str")

OutChar ==
  \/ /\ pc = "out" /\ local.chr = "\n" /\ Goto("move")
     /\ local' = [local EXCEPT !.pos = NextLine(cursor)]
     /\ Placed(local.chr) /\ UNCHANGED <<shared, calls, syscalls, torn, late>>
  \/ /\ pc = "out" /\ local.chr # "\n" /\ Goto("next")
     /\ screen' = Stored(screen, cursor, local.chr)
     /\ Placed(local.chr) /\ UNCHANGED <<cursor, num_buffer, crtc, local, calls, syscalls, torn, late>>
  \/ /\ pc = "next" /\ Goto("move")
     /\ local' = [local EXCEPT !.pos = cursor + 1] /\ Local

\* cursor is set before it is tested: a program that prints in between prints
\* its first character behind the screen.
Move ==
  \/ /\ pc = "move" /\ cursor' = local.pos /\ Goto("test")
     /\ UNCHANGED <<screen, num_buffer, crtc, local>> /\ UNCHANGED History
  \/ /\ pc = "test" /\ Goto(IF AtEnd(cursor) THEN "home" ELSE "index_hi")
     /\ UNCHANGED local /\ Local
  \/ /\ pc = "home" /\ cursor' = LastLine /\ Goto("copy") /\ local' = [local EXCEPT !.k = 0]
     /\ UNCHANGED <<screen, num_buffer, crtc>> /\ UNCHANGED History

Scroll ==
  /\ \/ /\ pc = "copy" /\ screen' = Copied(screen, local.k)
        /\ IF local.k + 1 < Cells
           THEN local' = [local EXCEPT !.k = @ + 1] /\ UNCHANGED pc
           ELSE local' = [local EXCEPT !.k = 0] /\ Goto("blank")
     \/ /\ pc = "blank" /\ screen' = Blanked(screen, LastLine + local.k)
        /\ local' = [local EXCEPT !.k = @ + 2]
        /\ IF local.k + 2 < tty_width THEN UNCHANGED pc ELSE Goto("index_hi")
  /\ UNCHANGED <<cursor, num_buffer, crtc>> /\ UNCHANGED History

Select(label, register, next) ==
  /\ pc = label /\ crtc' = [crtc EXCEPT !.index = register] /\ Goto(next)
  /\ UNCHANGED <<screen, cursor, num_buffer, local>> /\ UNCHANGED History
Load(label, byte, next) ==
  /\ pc = label /\ local' = [local EXCEPT !.reg = byte] /\ Goto(next)
  /\ late' = FALSE /\ UNCHANGED <<shared, calls, syscalls, out, torn>>
OutPort(label, next) ==
  /\ pc = label /\ crtc' = Out(crtc, local.reg) /\ Goto(next)
  /\ UNCHANGED <<screen, cursor, num_buffer, local>> /\ UNCHANGED History

OutCursor ==
  \/ Select("index_hi", "hi", "load_hi") \/ Load("load_hi", High(cursor), "out_hi")
  \/ OutPort("out_hi", "index_lo")
  \/ Select("index_lo", "lo", "load_lo") \/ Load("load_lo", Low(cursor), "out_lo")
  \/ OutPort("out_lo", local.ret)

KernelStep ==
  /\ sys = <<>> /\ UNCHANGED sys
  /\ Printf \/ Fmt \/ IntToStr \/ OutString \/ OutChar \/ Move \/ Scroll \/ OutCursor

Next == KernelStep \/ syscall_handler \/ printf

Spec == Init /\ [][Next]_vars
=============================================================================
