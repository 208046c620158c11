--------------------------------- MODULE Dma ---------------------------------
(***************************************************************************)
(* drivers/dma.c: each function is the sequence of writes to I/O ports     *)
(* that it makes.  Channel is what such a write does to the 8237 (external *)
(* code: the chip), as far as the driver depends on it.                    *)
(***************************************************************************)
EXTENDS Naturals, Sequences

Out(port, value) == [op |-> "out", port |-> port, value |-> value]

Byte(n, i) == (n \div 256 ^ i) % 256

-----------------------------------------------------------------------------
(* The ports of include/dma.h.                                             *)

ChanmaskReg(dma) == IF dma = 0 THEN \h0a ELSE \hd4
ModeReg(dma) == IF dma = 0 THEN \h0b ELSE \hd6
FlipflopReg(dma) == IF dma = 0 THEN \h0c ELSE \hd8
AddrReg(channel) == IF channel < 4 THEN 2 * channel ELSE \hc0 + 4 * (channel - 4)
CountReg(channel) == AddrReg(channel) + IF channel < 4 THEN 1 ELSE 2
MasterClearReg == \h0d
UnmaskAllReg == \hdc
PageReg(channel) == CASE channel = 1 -> \h83 [] channel = 2 -> \h81 [] channel = 3 -> \h82

-----------------------------------------------------------------------------

dma_mask_channel(channel) ==
  IF channel <= 4 THEN <<Out(ChanmaskReg(0), 2 ^ (channel - 1))>>
  ELSE <<Out(ChanmaskReg(1), 2 ^ (channel - 5))>>

\* Whichever controller it is called for.
dma_unmask_all == <<Out(UnmaskAllReg, \hff)>>
dma_reset == <<Out(MasterClearReg, \hff)>>

dma_reset_flipflop(channel) == <<Out(FlipflopReg(IF channel < 4 THEN 0 ELSE 1), \haa)>>

\* Mutant: the high byte first.
dma_set_count_Swapped(channel, low, high) ==
  <<Out(CountReg(channel), high), Out(CountReg(channel), low)>>
dma_set_count(channel, low, high) ==
  <<Out(CountReg(channel), low), Out(CountReg(channel), high)>>

dma_set_address(channel, low, high) ==
  <<Out(AddrReg(channel), low), Out(AddrReg(channel), high)>>

dma_set_external_page_register(channel, value) == <<Out(PageReg(channel), value)>>

ReadTransfer == 4
TransferSingle == \h40

dma_set_mode(channel, mode) ==
  LET dma == IF channel < 4 THEN 0 ELSE 1
  IN  dma_mask_channel(channel)
      \o <<Out(ModeReg(dma), (channel - 4 * dma) + mode)>>
      \o dma_unmask_all

dma_set_read(channel) == dma_set_mode(channel, ReadTransfer + TransferSingle)

-----------------------------------------------------------------------------
(* The first 8237 and its channel 2: what is masked, the mode, and the     *)
(* bytes of the address and the count, written low first, then high.       *)

Reset8237 == [masked |-> {0, 1, 2, 3}, high |-> FALSE, mode |-> 0, page |-> 0,
              address |-> <<0, 0>>, count |-> <<0, 0>>]

Bit(value, mask) == (value \div mask) % 2 = 1

SetByte(d, pair, value) == [pair EXCEPT ![IF d.high THEN 2 ELSE 1] = value]

Write8237(d, port, value) ==
  CASE port = \h0d -> [d EXCEPT !.masked = {0, 1, 2, 3}, !.high = FALSE]
    [] port = \h0a -> [d EXCEPT !.masked = IF Bit(value, 4) THEN @ \cup {value % 4}
                                           ELSE @ \ {value % 4}]
    [] port = \h0b -> IF value % 4 = 2 THEN [d EXCEPT !.mode = value] ELSE d
    [] port = \h0c -> [d EXCEPT !.high = FALSE]
    [] port = \h04 -> [d EXCEPT !.address = SetByte(d, @, value), !.high = ~@]
    [] port = \h05 -> [d EXCEPT !.count = SetByte(d, @, value), !.high = ~@]
    [] port = \h81 -> [d EXCEPT !.page = value]
    [] OTHER -> d

\* The channel moves what a device sends to `length` bytes at `buffer`.
Moves(d, buffer, length) ==
  /\ 2 \notin d.masked /\ d.mode = 2 + ReadTransfer + TransferSingle
  /\ d.address = <<Byte(buffer, 0), Byte(buffer, 1)>> /\ d.page = Byte(buffer, 2)
  /\ d.count = <<Byte(length - 1, 0), Byte(length - 1, 1)>>

\* When the count runs out the channel masks itself.
AfterTransfer(d) == [d EXCEPT !.masked = @ \cup {2}]
=============================================================================
