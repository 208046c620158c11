---------------------------- MODULE ScreenProofs ----------------------------
(***************************************************************************)
(* Proofs about the console: for every size of the screen and every text,  *)
(* whatever programs print in between, no store leaves the buffers, and    *)
(* the display controller shows the cursor where it is.                    *)
(***************************************************************************)
EXTENDS ScreenProps, TLAPS

-----------------------------------------------------------------------------
(* Arithmetic.                                                             *)

LEMMA LessTimes ==
  ASSUME NEW a \in Nat, NEW b \in Nat, NEW w \in Nat \ {0}, a < b
  PROVE  a * w + w <= b * w
  <1>1. PICK d \in Nat : b = a + 1 + d
    <2>1. b - a - 1 \in Nat /\ b = a + 1 + (b - a - 1) OBVIOUS
    <2> QED BY <2>1
  <1>2. b * w = a * w + w + d * w BY <1>1
  <1>3. d * w \in Nat OBVIOUS
  <1> QED BY <1>2, <1>3

\* The line after a cell of the screen begins on the screen or right behind it.
LEMMA NextLineFits ==
  ASSUME NEW at \in Nat, at < Cells PROVE NextLine(at) \in 0..Cells
  <1> DEFINE q == at \div tty_width
  <1>1. tty_width \in Nat \ {0} /\ tty_height \in Nat BY ScreenAssumption
  <1>2. q \in Nat /\ q * tty_width <= at BY <1>1
  <1>3. q < tty_height
    <2> SUFFICES ASSUME q >= tty_height PROVE FALSE BY <1>1, <1>2
    <2> HIDE DEF q
    <2>1. q = tty_height \/ tty_height < q BY <1>1, <1>2
    <2>2. CASE q = tty_height BY <1>1, <1>2, <2>2 DEF Cells
    <2>3. CASE tty_height < q
      <3>1. tty_height * tty_width + tty_width <= q * tty_width BY <1>1, <1>2, <2>3, LessTimes
      <3> QED BY <1>1, <1>2, <3>1 DEF Cells
    <2> QED BY <2>1, <2>2, <2>3
  <1>4. q * tty_width + tty_width <= Cells /\ Cells \in Nat BY <1>1, <1>2, <1>3, LessTimes DEF Cells
  <1>5. NextLine(at) = q * tty_width + tty_width BY <1>1, <1>2 DEF NextLine
  <1> HIDE DEF q
  <1> QED BY <1>1, <1>2, <1>4, <1>5

LEMMA CellsArePositive == Cells \in Nat \ {0} /\ LastLine \in 0..(Cells - 1)
  <1>1. tty_width \in Nat \ {0} /\ tty_height \in Nat \ {0} BY ScreenAssumption
  <1>2. LastLine \in Nat /\ Cells = LastLine + tty_width BY <1>1 DEF LastLine, Cells
  <1> QED BY <1>1, <1>2

LEMMA BufferHasRoom == NumBufferSize \in Nat /\ NumBufferSize >= 2
  BY NumberAssumption

\* Dividing by the base takes off a digit.
LEMMA ShorterQuotient ==
  ASSUME NEW n \in 1..(NumBufferSize - 1), NEW value \in Nat, value < Powers[n], value >= Base
  PROVE  n - 1 \in 1..(NumBufferSize - 1) /\ value \div Base \in Nat /\ value \div Base < Powers[n - 1]
  <1> DEFINE q == value \div Base
  <1>1. Base \in Nat \ {0, 1} /\ NumBufferSize \in Nat /\ Powers[0] = 1
        /\ Powers[n] \in Nat /\ Powers[n - 1] \in Nat /\ Powers[n] = Powers[n - 1] * Base
    BY NumberAssumption
  <1>2. n # 1 BY <1>1
  <1>3. q \in Nat /\ q * Base <= value BY <1>1
  <1> HIDE DEF q
  <1>4. q < Powers[n - 1]
    <2> SUFFICES ASSUME Powers[n - 1] <= q PROVE FALSE BY <1>1, <1>3
    <2>1. CASE q = Powers[n - 1] BY <1>1, <1>3, <2>1
    <2>2. CASE Powers[n - 1] < q
      <3>1. Powers[n - 1] * Base + Base <= q * Base BY <1>1, <1>3, <2>2, LessTimes
      <3> QED BY <1>1, <1>3, <3>1
    <2> QED BY <1>1, <1>3, <2>1, <2>2
  <1> QED BY <1>2, <1>3, <1>4, NumberAssumption DEF q

-----------------------------------------------------------------------------
(* The inductive invariant.                                                *)

Fields == {"fmt", "chr", "ret", "value", "i", "str", "pos", "k", "reg"}

\* What is known of the kernel thread's locals.
LocalsOK ==
  /\ DOMAIN local = Fields /\ local.fmt \in Seq(Item)
  /\ local.ret \in {"", "fmt", "str"}
  /\ local.str \in 0..(NumBufferSize - 1)
  /\ pc = "move" => local.pos \in 0..Cells

\* The digits still to come fit in front of those that are there.
DigitsFit ==
  pc = "digits" =>
    /\ local.i \in 0..(NumBufferSize - 2)
    /\ local.value \in Nat /\ local.value < Powers[local.i + 1]

CursorOK == cursor \in 0..Cells /\ (cursor = Cells => InMove)

BuffersOK ==
  /\ DOMAIN screen = 0..Cells
  /\ DOMAIN num_buffer = 0..(NumBufferSize - 1) /\ num_buffer[NumBufferSize - 1] = NUL

IInv == LocalsOK /\ DigitsFit /\ CursorOK /\ BuffersOK

LEMMA InitHolds == Init => IInv
  <1> SUFFICES ASSUME Init PROVE IInv OBVIOUS
  <1>0. /\ screen = clear_screen /\ cursor = 0 /\ pc = "idle"
        /\ num_buffer = [b \in 0..(NumBufferSize - 1) |-> NUL]
        /\ local = [fmt |-> <<>>, chr |-> "", ret |-> "", value |-> 0, i |-> 0, str |-> 0,
                    pos |-> 0, k |-> 0, reg |-> 0]
    BY DEF Init
  <1>1. LocalsOK
    <2>1. DOMAIN local = Fields /\ local.fmt = <<>> /\ local.ret = "" /\ local.str = 0
      BY <1>0 DEF Fields
    <2>2. <<>> \in Seq(Item) OBVIOUS
    <2>3. pc # "move" BY <1>0
    <2>4. 0 \in 0..(NumBufferSize - 1) BY BufferHasRoom
    <2> QED BY <2>1, <2>2, <2>3, <2>4 DEF LocalsOK
  <1>2. CursorOK
    <2>1. cursor = 0 BY <1>0
    <2> QED BY <2>1, CellsArePositive DEF CursorOK
  <1>3. BuffersOK
    <2>1. DOMAIN screen = 0..Cells BY <1>0 DEF clear_screen
    <2>2. NumBufferSize - 1 \in 0..(NumBufferSize - 1) BY BufferHasRoom
    <2> QED BY <1>0, <2>1, <2>2 DEF BuffersOK
  <1>4. DigitsFit BY DEF Init, DigitsFit
  <1> QED BY <1>1, <1>2, <1>3, <1>4 DEF IInv

-----------------------------------------------------------------------------
(* A system call.                                                          *)

\* Wherever the cursor is moved to, it ends on the screen.
LEMMA MovedOnScreen ==
  ASSUME IInv, NEW scr, DOMAIN scr = 0..Cells, NEW pos \in Nat, move_cursor(scr, pos)
  PROVE  cursor' \in 0..(Cells - 1) /\ DOMAIN screen' = 0..Cells
  <1> DEFINE at == IF AtEnd(pos) THEN LastLine ELSE pos
  <1>1. cursor' = at /\ screen' = (IF AtEnd(pos) THEN Scrolled(scr) ELSE scr) BY DEF move_cursor
  <1>2. at \in 0..(Cells - 1) BY CellsArePositive DEF AtEnd
  <1>3. DOMAIN Scrolled(scr) = 0..Cells BY DEF Scrolled
  <1> QED BY <1>1, <1>2, <1>3

LEMMA OutCharOnScreen ==
  ASSUME IInv, NEW chr, out_char(chr)
  PROVE  cursor' \in 0..(Cells - 1) /\ DOMAIN screen' = 0..Cells
  <1>1. cursor \in 0..Cells /\ DOMAIN screen = 0..Cells BY DEF IInv, CursorOK, BuffersOK
  <1>2. NextLine(cursor) \in Nat /\ cursor + 1 \in Nat
    BY <1>1, CellsArePositive, ScreenAssumption DEF NextLine
  <1>3. DOMAIN Stored(screen, cursor, chr) = 0..Cells BY <1>1 DEF Stored
  <1>4. CASE chr = "\n"
    BY <1>1, <1>2, <1>4, MovedOnScreen DEF out_char
  <1>5. CASE chr # "\n"
    BY <1>2, <1>3, <1>5, MovedOnScreen DEF out_char
  <1> QED BY <1>4, <1>5

LEMMA PrintfKeeps == ASSUME IInv, printf PROVE IInv'
  <1>1. LocalsOK' /\ DigitsFit' BY DEF printf, IInv, LocalsOK, DigitsFit
  <1>2. CASE IsNumber(Head(sys)) /\ num_buffer' = int_to_str(Head(sys).value) /\ UNCHANGED <<screen, cursor>>
    <2>1. DOMAIN num_buffer' = 0..(NumBufferSize - 1) /\ num_buffer'[NumBufferSize - 1] = NUL
      BY <1>2, BufferHasRoom DEF IInv, BuffersOK, int_to_str
    <2> QED BY <1>1, <1>2, <2>1 DEF printf, IInv, BuffersOK, CursorOK, InMove
  <1>3. CASE out_char(Head(sys).chr) /\ UNCHANGED num_buffer
    <2>1. cursor' \in 0..(Cells - 1) /\ DOMAIN screen' = 0..Cells BY <1>3, OutCharOnScreen
    <2>2. CursorOK' BY <2>1, CellsArePositive DEF CursorOK
    <2>3. BuffersOK' BY <1>3, <2>1 DEF IInv, BuffersOK
    <2> QED BY <1>1, <2>2, <2>3 DEF IInv
  <1> QED BY <1>2, <1>3 DEF printf

LEMMA SyscallKeeps == ASSUME IInv, syscall_handler PROVE IInv'
  BY DEF syscall_handler, shared, IInv, LocalsOK, DigitsFit, CursorOK, BuffersOK, InMove

-----------------------------------------------------------------------------
(* The kernel thread.                                                      *)

USE DEF Goto, Local, History, shared

LEMMA PrintfCallKeeps == ASSUME IInv, Printf PROVE IInv'
  <1>1. PICK text \in Texts : local' = [local EXCEPT !.fmt = text] BY DEF Printf
  <1>2. text \in Seq(Item) BY TextAssumption
  <1>3. LocalsOK' BY <1>1, <1>2 DEF Printf, IInv, LocalsOK, Fields
  <1> QED BY <1>3 DEF Printf, IInv, DigitsFit, CursorOK, BuffersOK, InMove

LEMMA TailOfText == ASSUME NEW s \in Seq(Item), s # <<>> PROVE Tail(s) \in Seq(Item)
  OBVIOUS

\* A call of out_char leaves the locals in order if there is a character to take.
LEMMA CallKeeps ==
  ASSUME IInv, NEW chr, NEW ret \in {"fmt", "str"}, Call(chr, ret), Local,
         ret = "fmt" => local.fmt # <<>>, ret = "str" => local.str # NumBufferSize - 1, ~InMove
  PROVE  IInv'
  <1>1. local.fmt \in Seq(Item) /\ (local.fmt # <<>> => Tail(local.fmt) \in Seq(Item))
    BY TailOfText DEF IInv, LocalsOK
  <1>2. /\ local'.fmt = IF ret = "fmt" THEN Tail(local.fmt) ELSE local.fmt
        /\ local'.str = IF ret = "str" THEN local.str + 1 ELSE local.str
        /\ local'.ret = ret /\ DOMAIN local' = Fields /\ pc' = "out"
    BY DEF Call, IInv, LocalsOK, Fields
  <1>3. local'.fmt \in Seq(Item) BY <1>1, <1>2
  <1>4. local'.str \in 0..(NumBufferSize - 1)
    <2>1. local.str \in 0..(NumBufferSize - 1) BY DEF IInv, LocalsOK
    <2>2. CASE ret = "str"
      <3>1. local'.str = local.str + 1 /\ local.str # NumBufferSize - 1 BY <1>2, <2>2
      <3> QED BY <2>1, <3>1, BufferHasRoom
    <2>3. CASE ret # "str"
      <3>1. local'.str = local.str BY <1>2, <2>3
      <3> QED BY <2>1, <3>1
    <2> QED BY <2>2, <2>3
  <1>5. LocalsOK' BY <1>2, <1>3, <1>4 DEF LocalsOK
  <1> QED BY <1>5 DEF Call, IInv, DigitsFit, CursorOK, BuffersOK, InMove

LEMMA FmtKeeps == ASSUME IInv, Fmt PROVE IInv'
  <1>0. local.fmt \in Seq(Item) /\ pc = "fmt" /\ ~InMove BY DEF IInv, LocalsOK, Fmt, InMove
  <1>1. CASE local.fmt = <<>> /\ Goto("idle") /\ Local /\ UNCHANGED local
    BY <1>0, <1>1 DEF IInv, LocalsOK, DigitsFit, CursorOK, BuffersOK, InMove
  <1>2. CASE local.fmt # <<>> /\ Call(Head(local.fmt).chr, "fmt") /\ Local
    BY <1>0, <1>2, CallKeeps
  <1>3. CASE /\ local.fmt # <<>> /\ Goto("digits")
             /\ local' = [local EXCEPT !.fmt = Tail(@), !.value = Head(local.fmt).value, !.i = NumBufferSize - 2]
             /\ num_buffer' = [num_buffer EXCEPT ![NumBufferSize - 1] = NUL]
             /\ UNCHANGED <<screen, cursor, crtc>>
    <2>1. Head(local.fmt) \in Item /\ Tail(local.fmt) \in Seq(Item) BY <1>0, <1>3
    <2>2. Head(local.fmt).value \in 0..(Powers[NumBufferSize - 1] - 1) BY <2>1 DEF Item
    <2>3. LocalsOK' BY <1>3, <2>1 DEF IInv, LocalsOK, Fields
    <2>4. /\ local'.value = Head(local.fmt).value /\ local'.i = NumBufferSize - 2
      BY <1>3 DEF IInv, LocalsOK, Fields
    <2>5. local'.i + 1 = NumBufferSize - 1 /\ local'.i \in 0..(NumBufferSize - 2)
      BY <2>4, BufferHasRoom
    <2>6. Powers[NumBufferSize - 1] \in Nat BY NumberAssumption
    <2>7. DigitsFit' BY <2>2, <2>4, <2>5, <2>6 DEF DigitsFit
    <2>8. BuffersOK' BY <1>3, BufferHasRoom DEF IInv, BuffersOK
    <2> QED BY <1>0, <1>3, <2>3, <2>7, <2>8 DEF IInv, CursorOK, InMove
  <1> QED BY <1>1, <1>2, <1>3 DEF Fmt

LEMMA IntToStrKeeps == ASSUME IInv, IntToStr PROVE IInv'
  <1>1. /\ pc = "digits" /\ local.i \in 0..(NumBufferSize - 2) /\ local.value \in Nat
        /\ local.value < Powers[local.i + 1] /\ DOMAIN local = Fields
    BY DEF IntToStr, IInv, DigitsFit, LocalsOK
  <1>2. BuffersOK' BY <1>1, BufferHasRoom DEF IntToStr, IInv, BuffersOK
  <1>3. CursorOK' BY <1>1 DEF IntToStr, IInv, CursorOK, InMove
  <1>4. CASE local.value >= Base
    <2>1. local' = [local EXCEPT !.value = @ \div Base, !.i = @ - 1] /\ UNCHANGED pc
      BY <1>4 DEF IntToStr
    <2>2. local'.value = local.value \div Base /\ local'.i = local.i - 1 BY <1>1, <2>1 DEF Fields
    <2>3. local.i + 1 \in 1..(NumBufferSize - 1) /\ (local.i + 1) - 1 = local.i BY <1>1, BufferHasRoom
    <2>4. local.i \in 1..(NumBufferSize - 1) /\ local.value \div Base \in Nat /\ local.value \div Base < Powers[local.i]
      BY <1>1, <1>4, <2>3, ShorterQuotient
    <2>5. (local.i - 1) + 1 = local.i /\ local.i - 1 \in 0..(NumBufferSize - 2) BY <1>1, <2>4, BufferHasRoom
    <2>6. DigitsFit' BY <2>2, <2>4, <2>5 DEF DigitsFit
    <2>7. LocalsOK' BY <1>1, <2>1 DEF IInv, LocalsOK, Fields
    <2> QED BY <1>2, <1>3, <2>6, <2>7 DEF IInv
  <1>5. CASE ~(local.value >= Base)
    <2>1. local' = [local EXCEPT !.str = local.i] /\ Goto("str") BY <1>5 DEF IntToStr
    <2>2. local.i \in 0..(NumBufferSize - 1) BY <1>1, BufferHasRoom
    <2>3. LocalsOK' BY <1>1, <2>1, <2>2 DEF IInv, LocalsOK, Fields
    <2> QED BY <1>2, <1>3, <2>1, <2>3 DEF IInv, DigitsFit
  <1> QED BY <1>4, <1>5

\* The terminating zero stops the pointer before it leaves num_buffer.
LEMMA OutStringKeeps == ASSUME IInv, OutString PROVE IInv'
  <1>1. pc = "str" /\ ~InMove /\ Local BY DEF OutString, InMove
  <1>2. CASE num_buffer[local.str] = NUL
    <2>1. Goto("fmt") /\ local' = [local EXCEPT !.ret = "fmt"] BY <1>2 DEF OutString
    <2>2. LocalsOK' BY <2>1 DEF IInv, LocalsOK, Fields
    <2> QED BY <1>1, <2>1, <2>2 DEF IInv, DigitsFit, CursorOK, BuffersOK, InMove
  <1>3. CASE num_buffer[local.str] # NUL
    <2>1. local.str # NumBufferSize - 1 BY <1>3 DEF IInv, BuffersOK
    <2>2. Call(num_buffer[local.str], "str") BY <1>3 DEF OutString
    <2> QED BY <1>1, <2>1, <2>2, CallKeeps
  <1> QED BY <1>2, <1>3

LEMMA OutCharKeeps == ASSUME IInv, OutChar PROVE IInv'
  <1>1. cursor \in 0..Cells /\ Cells \in Nat /\ pc \in {"out", "next"} /\ cursor # Cells
    BY CellsArePositive DEF OutChar, IInv, CursorOK, InMove
  <1>2. cursor \in Nat /\ cursor < Cells BY <1>1
  <1>3. CASE Goto("move") /\ local' = [local EXCEPT !.pos = NextLine(cursor)] /\ UNCHANGED shared
    <2>1. NextLine(cursor) \in 0..Cells BY <1>2, NextLineFits
    <2>2. LocalsOK' BY <1>3, <2>1 DEF IInv, LocalsOK, Fields
    <2> QED BY <1>1, <1>3, <2>2 DEF IInv, DigitsFit, CursorOK, BuffersOK, InMove
  <1>4. CASE Goto("next") /\ screen' = Stored(screen, cursor, local.chr) /\ UNCHANGED <<cursor, num_buffer, local>>
    <2>1. DOMAIN screen' = 0..Cells BY <1>1, <1>4 DEF Stored, IInv, BuffersOK
    <2> QED BY <1>1, <1>4, <2>1 DEF IInv, LocalsOK, DigitsFit, CursorOK, BuffersOK, InMove
  <1>5. CASE Goto("move") /\ local' = [local EXCEPT !.pos = cursor + 1] /\ Local
    <2>1. cursor + 1 \in 0..Cells BY <1>1, <1>2
    <2>2. LocalsOK' BY <1>5, <2>1 DEF IInv, LocalsOK, Fields
    <2> QED BY <1>1, <1>5, <2>2 DEF IInv, DigitsFit, CursorOK, BuffersOK, InMove
  <1> QED BY <1>3, <1>4, <1>5 DEF OutChar

LEMMA MoveKeeps == ASSUME IInv, Move PROVE IInv'
  <1>1. CASE pc = "move" /\ cursor' = local.pos /\ Goto("test") /\ UNCHANGED <<screen, num_buffer, local>>
    BY <1>1 DEF IInv, LocalsOK, DigitsFit, CursorOK, BuffersOK, InMove
  <1>2. CASE pc = "test" /\ Goto(IF AtEnd(cursor) THEN "home" ELSE "index_hi") /\ UNCHANGED <<shared, local>>
    <2>1. CursorOK' BY <1>2, CellsArePositive DEF IInv, CursorOK, InMove, AtEnd
    <2> QED BY <1>2, <2>1 DEF IInv, LocalsOK, DigitsFit, BuffersOK
  <1>3. CASE /\ pc = "home" /\ cursor' = LastLine /\ Goto("copy") /\ local' = [local EXCEPT !.k = 0]
             /\ UNCHANGED <<screen, num_buffer>>
    <2>1. CursorOK' BY <1>3, CellsArePositive DEF CursorOK
    <2>2. LocalsOK' BY <1>3 DEF IInv, LocalsOK, Fields
    <2> QED BY <1>3, <2>1, <2>2 DEF IInv, DigitsFit, BuffersOK
  <1> QED BY <1>1, <1>2, <1>3 DEF Move

LEMMA ScrollKeeps == ASSUME IInv, Scroll PROVE IInv'
  <1>1. /\ pc \in {"copy", "blank"} /\ pc' \in {"copy", "blank", "index_hi"}
        /\ DOMAIN screen' = DOMAIN screen /\ UNCHANGED <<cursor, num_buffer>>
    BY DEF Scroll, Copied, Blanked
  <1>2. \E n : local' = [local EXCEPT !.k = n] BY DEF Scroll
  <1>3. LocalsOK' BY <1>1, <1>2 DEF IInv, LocalsOK, Fields
  <1> QED BY <1>1, <1>3 DEF IInv, DigitsFit, CursorOK, BuffersOK, InMove

LEMMA OutCursorKeeps == ASSUME IInv, OutCursor PROVE IInv'
  <1>1. ~InMove /\ pc # "digits" /\ UNCHANGED <<screen, cursor, num_buffer>>
    BY DEF OutCursor, Select, Load, OutPort, InMove
  <1>2. pc' \in {"load_hi", "out_hi", "index_lo", "load_lo", "out_lo", local.ret}
    BY DEF OutCursor, Select, Load, OutPort
  <1>3. pc' # "move" /\ pc' # "digits" BY <1>2 DEF IInv, LocalsOK
  <1>4. \E byte : local' = local \/ local' = [local EXCEPT !.reg = byte]
    BY DEF OutCursor, Select, Load, OutPort
  <1>5. LocalsOK' BY <1>3, <1>4 DEF IInv, LocalsOK, Fields
  <1> QED BY <1>1, <1>3, <1>5 DEF IInv, DigitsFit, CursorOK, BuffersOK, InMove

-----------------------------------------------------------------------------

LEMMA NextKeeps == ASSUME IInv, [Next]_vars PROVE IInv'
  <1>1. CASE KernelStep
    BY <1>1, PrintfCallKeeps, FmtKeeps, IntToStrKeeps, OutStringKeeps, OutCharKeeps, MoveKeeps,
       ScrollKeeps, OutCursorKeeps DEF KernelStep
  <1>2. CASE syscall_handler BY <1>2, SyscallKeeps
  <1>3. CASE printf BY <1>3, PrintfKeeps
  <1>4. CASE UNCHANGED vars
    BY <1>4 DEF vars, IInv, LocalsOK, DigitsFit, CursorOK, BuffersOK, InMove
  <1> QED BY <1>1, <1>2, <1>3, <1>4 DEF Next

(***************************************************************************)
(* For every size of the screen, every base and every text, and however    *)
(* programs print in the middle of the kernel's printf: out_char stores no *)
(* further than the cell behind the screen, int_to_str fills num_buffer    *)
(* from its end and no further than its beginning, and out_string meets    *)
(* the terminating zero in it.                                             *)
(***************************************************************************)
THEOREM NoStoreLeavesTheBuffers == Spec => []StaysInBuffers
  <1>1. Init => IInv BY InitHolds
  <1>2. IInv /\ [Next]_vars => IInv' BY NextKeeps
  <1>3. IInv => StaysInBuffers
    BY DEF IInv, LocalsOK, DigitsFit, CursorOK, BuffersOK, StaysInBuffers
  <1> QED BY <1>1, <1>2, <1>3, PTL DEF Spec

-----------------------------------------------------------------------------
(* What the display controller holds, in every interleaving.               *)

RegistersOK == DOMAIN crtc = {"index", "hi", "lo"} /\ Registers

\* Both bytes together are the cursor again.
LEMMA BytesTogether == ASSUME NEW at \in Nat PROVE High(at) * ByteBase + Low(at) = at
  <1>1. ByteBase \in Nat \ {0} BY ScreenAssumption
  <1>2. at = ByteBase * (at \div ByteBase) + (at % ByteBase) BY <1>1
  <1>3. at \div ByteBase \in Nat BY <1>1
  <1> QED BY <1>1, <1>2, <1>3 DEF High, Low

LEMMA InitRegisters == Init => RegistersOK
  <1> SUFFICES ASSUME Init PROVE RegistersOK OBVIOUS
  <1>1. ByteBase \in Nat \ {0} BY ScreenAssumption
  <1>2. cursor = 0 /\ crtc = [index |-> "lo", hi |-> 0, lo |-> 0] /\ pc = "idle" BY DEF Init
  <1>3. HighShown /\ LowShown BY <1>1, <1>2 DEF HighShown, LowShown, High, Low
  <1> QED BY <1>2, <1>3 DEF RegistersOK, Registers

\* The statements of a system call leave both registers right, and the index on
\* the low one; only an output that the kernel has already loaded is wrong then.
LEMMA PrintfShows == ASSUME RegistersOK, printf PROVE RegistersOK'
  <1>1. CASE UNCHANGED <<cursor, crtc, late>>
    BY <1>1 DEF printf, RegistersOK, Registers, HighShown, LowShown, CursorMoves, InMove
  <1>2. CASE out_char(Head(sys).chr) /\ late' = (pc = "out_lo")
    <2>1. crtc' = [index |-> "lo", hi |-> High(cursor'), lo |-> Low(cursor')]
      BY <1>2 DEF out_char, move_cursor
    <2>2. HighShown' /\ LowShown' /\ crtc'.index = "lo" /\ DOMAIN crtc' = {"index", "hi", "lo"}
      BY <2>1 DEF HighShown, LowShown, High, Low
    <2>3. pc' = pc BY DEF printf
    <2> QED BY <1>2, <2>2, <2>3 DEF RegistersOK, Registers
  <1> QED BY <1>1, <1>2 DEF printf

LEMMA CursorOutput == ASSUME IInv, RegistersOK, OutCursor PROVE RegistersOK'
  <1>0. DOMAIN crtc = {"index", "hi", "lo"} /\ DOMAIN local = Fields /\ local.ret \in {"", "fmt", "str"}
    BY DEF RegistersOK, IInv, LocalsOK
  <1>1. CASE Select("index_hi", "hi", "load_hi")
    <2>1. crtc'.index = "hi" /\ DOMAIN crtc' = DOMAIN crtc BY <1>0, <1>1 DEF Select
    <2> QED BY <1>0, <1>1, <2>1 DEF Select, RegistersOK, Registers, Moved
  <1>2. CASE Load("load_hi", High(cursor), "out_hi")
    <2>1. local'.reg = High(cursor) BY <1>0, <1>2 DEF Load, Fields
    <2> QED BY <1>2, <2>1 DEF Load, RegistersOK, Registers, HighShown, High, Moved
  <1>3. CASE OutPort("out_hi", "index_lo")
    <2>1. HighShown' /\ DOMAIN crtc' = DOMAIN crtc
      BY <1>0, <1>3 DEF OutPort, Out, RegistersOK, Registers, HighShown, High
    <2> QED BY <1>3, <2>1 DEF OutPort, RegistersOK, Registers, Moved
  <1>4. CASE Select("index_lo", "lo", "load_lo")
    <2>1. crtc'.index = "lo" /\ crtc'.hi = crtc.hi /\ DOMAIN crtc' = DOMAIN crtc BY <1>0, <1>4 DEF Select
    <2> QED BY <1>0, <1>4, <2>1 DEF Select, RegistersOK, Registers, HighShown, High, Moved
  <1>5. CASE Load("load_lo", Low(cursor), "out_lo")
    <2>1. local'.reg = Low(cursor) BY <1>0, <1>5 DEF Load, Fields
    <2> QED BY <1>5, <2>1 DEF Load, RegistersOK, Registers, HighShown, High, Low, Moved
  <1>6. CASE OutPort("out_lo", local.ret)
    <2>1. crtc.index = "lo" /\ (~late => HighShown /\ local.reg = Low(cursor))
      BY <1>6 DEF OutPort, RegistersOK, Registers
    <2>2. crtc' = [crtc EXCEPT !.lo = local.reg] /\ cursor' = cursor /\ late' = late /\ pc' = local.ret
      BY <1>6, <2>1 DEF OutPort, Out
    <2>3. crtc'.lo = local.reg /\ crtc'.hi = crtc.hi /\ DOMAIN crtc' = DOMAIN crtc BY <1>0, <2>2
    <2>4. ~late' => HighShown' /\ LowShown'
      BY <2>1, <2>2, <2>3 DEF HighShown, LowShown, High, Low
    <2> QED BY <1>0, <2>2, <2>3, <2>4 DEF RegistersOK, Registers
  <1> QED BY <1>1, <1>2, <1>3, <1>4, <1>5, <1>6 DEF OutCursor

\* The other steps of the kernel: the cursor moves only where nothing is known.
LEMMA KernelShows == ASSUME IInv, RegistersOK, KernelStep PROVE RegistersOK'
  <1>1. CASE Printf \/ Fmt \/ IntToStr \/ OutString \/ OutChar
    <2>1. UNCHANGED <<cursor, crtc, late>> /\ ~CursorMoves /\ pc \notin Moved
      BY <1>1 DEF Printf, Fmt, IntToStr, OutString, OutChar, Call, CursorMoves, InMove, Moved
    <2>2. pc' \in {"idle", "fmt", "digits", "str", "out", "next", "move"}
      BY <1>1 DEF Printf, Fmt, IntToStr, OutString, OutChar, Call
    <2> QED BY <2>1, <2>2 DEF RegistersOK, Registers, HighShown, LowShown, High, Low
  <1>2. CASE Move \/ Scroll
    <2>1. UNCHANGED <<crtc, late>> /\ pc' \in {"test", "home", "copy", "blank", "index_hi"}
      BY <1>2 DEF Move, Scroll
    <2> QED BY <2>1 DEF RegistersOK, Registers, CursorMoves, InMove
  <1> QED BY <1>1, <1>2, CursorOutput DEF KernelStep

LEMMA NextShows == ASSUME IInv, RegistersOK, [Next]_vars PROVE RegistersOK'
  <1>1. CASE syscall_handler
    BY <1>1 DEF syscall_handler, RegistersOK, Registers, HighShown, LowShown, CursorMoves, InMove
  <1>2. CASE UNCHANGED vars
    BY <1>2 DEF vars, RegistersOK, Registers, HighShown, LowShown, CursorMoves, InMove
  <1> QED BY <1>1, <1>2, KernelShows, PrintfShows DEF Next

(***************************************************************************)
(* For every screen, every text and every interleaving: when the kernel    *)
(* has printed, the two registers of the display controller together are   *)
(* the cursor, whatever programs printed between its writes to them, with  *)
(* one exception: a program that printed between the load of the cursor's  *)
(* low byte and its output.                                                *)
(***************************************************************************)
THEOREM RegistersShowTheCursor == Spec => []CursorShown
  <1>1. Init => IInv /\ RegistersOK BY InitHolds, InitRegisters
  <1>2. IInv /\ RegistersOK /\ [Next]_vars => (IInv /\ RegistersOK)' BY NextKeeps, NextShows
  <1>3. IInv /\ RegistersOK => CursorShown
    <2> SUFFICES ASSUME IInv, RegistersOK, pc = "idle", ~late
                 PROVE  crtc.hi * ByteBase + crtc.lo = cursor
      BY DEF CursorShown
    <2>1. HighShown /\ LowShown BY DEF RegistersOK, Registers, CursorMoves, InMove, Moved
    <2>2. cursor \in Nat BY CellsArePositive DEF IInv, CursorOK
    <2>3. High(cursor) * ByteBase + Low(cursor) = cursor BY <2>2, BytesTogether
    <2> QED BY <2>1, <2>3 DEF HighShown, LowShown
  <1> QED BY <1>1, <1>2, <1>3, PTL DEF Spec
=============================================================================
