---------------------------- MODULE ScreenProps ----------------------------
(***************************************************************************)
(* What the screen shows.                                                  *)
(***************************************************************************)
EXTENDS Screen

InMove == pc \in {"test", "home"}

\* Whenever a program is let in, the cursor is on the screen or, while the
\* kernel moves it, in the first cell behind it, where the program then prints:
\* no character is ever stored further than there, which is still in the page
\* of the video memory. And the pointer into num_buffer meets the terminating
\* zero in it although system calls write over the digits.
StaysInBuffers ==
  /\ cursor \in 0..Cells /\ (cursor = Cells => InMove)
  /\ DOMAIN screen = 0..Cells
  /\ pc = "digits" => local.i \in 0..(NumBufferSize - 2)
  /\ Numbering => local.str \in 0..(NumBufferSize - 1)
  /\ num_buffer[NumBufferSize - 1] = NUL

\* The picture of a text without any scrolling: the cell that each character
\* takes on an endless screen, of which the last lines are shown.
Places(text) ==
  FoldLeft(LAMBDA p, chr : IF chr = "\n" THEN [p EXCEPT !.pos = NextLine(@)]
                           ELSE [cell |-> (p.pos :> chr) @@ p.cell, pos |-> p.pos + 1],
           [cell |-> << >>, pos |-> 0], text)
FirstShown(p) ==
  IF p.pos < Cells THEN 0 ELSE (p.pos \div tty_width - tty_height + 1) * tty_width
Picture(p) ==
  [c \in 0..(Cells - 1) |->
     LET at == FirstShown(p) + c IN IF at \in DOMAIN p.cell THEN p.cell[at] ELSE " "]


\* The display controller shows the cursor where it is, however the writes of
\* the kernel to its two registers were interrupted, unless a program has
\* printed between the very last load of the cursor and its output.
CursorShown ==
  (pc = "idle" /\ sys = <<>> /\ ~late) => crtc.hi * ByteBase + crtc.lo = cursor

-----------------------------------------------------------------------------
(* What the display controller holds at each place of the kernel: only     *)
(* while the cursor moves nothing is known of it. A system call that comes *)
(* in between sets both registers, and leaves the index on the low one.    *)

HighShown == crtc.hi = High(cursor)
LowShown == crtc.lo = Low(cursor)
CursorMoves == InMove \/ pc \in {"copy", "blank", "index_hi"}

Registers ==
  /\ pc = "load_hi" => crtc.index = "hi" \/ (crtc.index = "lo" /\ HighShown)
  /\ pc = "out_hi" => \/ crtc.index = "hi" /\ local.reg = High(cursor)
                      \/ crtc.index = "lo" /\ HighShown
  /\ pc = "index_lo" => HighShown
  /\ pc = "load_lo" => crtc.index = "lo" /\ HighShown
  /\ pc = "out_lo" => /\ crtc.index = "lo"
                      /\ ~late => HighShown /\ local.reg = Low(cursor)
  /\ ~late => CursorMoves \/ pc \in Moved \/ (HighShown /\ LowShown)
=============================================================================
