---------------------------- MODULE FloppyProps ----------------------------
(***************************************************************************)
(* What must be true of the floppy driver.                                 *)
(***************************************************************************)
EXTENDS Floppy

Operation == [op : {"out", "send", "read", "read_cyl", "wait", "clear", "sleep"},
              port : Nat, value : 0..255]
FdcStates == [dor : 0..255, args : Seq(0..255), result : Seq(0..255),
              job : {"none", "command", "reset"}, sense : 0..4, track : 0..LastTrack]
DmaStates == [masked : SUBSET (0..3), high : BOOLEAN, mode : 0..255, page : 0..255,
              address : [1..2 -> 0..255], count : [1..2 -> 0..255]]

TypeOK ==
  /\ pc \in {"boot", "calibrate", "calibrated", "idle", "seek", "sought", "read"}
  /\ todo \in Seq(Operation)
  /\ chs \in [head : 0..255, track : 0..255, sector : 0..255]
  /\ cyl \in 0..255 /\ tries \in 0..Tries /\ ret \in {0, DMA_BUFFER}
  /\ irq_received \in BOOLEAN /\ failed \in BOOLEAN
  /\ fdc \in FdcStates
  /\ Len(fdc.args) <= 9
  /\ dma \in DmaStates

Idle == At("idle")

\* The block numbers whose track, once flpydsk_read_sector has cast it to uint8,
\* is not that of another block of the disk.  9216 is the least that is not.
TrackSurvivesCast(lba) == flpydsk_lba_to_chs(lba).track \in (LastTrack - 255)..255

(***************************************************************************)
(* When flpydsk_read_sector returns the buffer, and the controller did not *)
(* report an error (which the driver does not look at), the buffer holds   *)
(* the block whose number it was given: the track, head and sector of that *)
(* number, not of what is left of them in a uint8, moved by DMA to where   *)
(* the driver returns it.  So no number that is none of the disk's returns *)
(* a block, unless its track is one of the disk's modulo 256.              *)
(***************************************************************************)
BlockIsTheOneAsked ==
  Idle /\ ret = DMA_BUFFER /\ ~failed /\ TrackSurvivesCast(asked)
     => memory = flpydsk_lba_to_chs(asked)

(***************************************************************************)
(* Between two reads the driver and the controller agree: no half command, *)
(* no result unread, no interrupt that a later wait would take for its     *)
(* own.  flpydsk_read_sector_imp asks for an interrupt that is already     *)
(* acknowledged and reads one byte too many; the reset afterwards heals it.*)
(***************************************************************************)
InStep ==
  Idle => /\ fdc.job = "none" /\ fdc.args = <<>> /\ fdc.result = <<>> /\ fdc.sense = 0
          /\ ~irq_received

(***************************************************************************)
(* The motor is off between two reads, unless the last one did not find    *)
(* its track (flpydsk_read_sector then returns without stopping it).       *)
(***************************************************************************)
MotorStops == Idle /\ Bit(fdc.dor, 16) => ret = 0 /\ tries = Tries

(***************************************************************************)
(* The driver never sends a byte that the controller does not expect: it   *)
(* waits for every interrupt and reads every result first.                 *)
(***************************************************************************)
NeverTalksOver == [][flpydsk_send_command => Expects]_vars

(***************************************************************************)
(* "did we fine cylinder 0? if so, we are done" and "found the cylinder?": *)
(* when flpydsk_calibrate or flpydsk_seek believes that the head is where  *)
(* it should be, it is.                                                    *)
(***************************************************************************)
FoundTheTrack ==
  [][/\ CalibrateTest /\ pc' = "idle" => fdc.track = 0
     /\ SeekTest /\ pc' = "read" => fdc.track = chs.track]_vars

(***************************************************************************)
(* flpydsk_read_sector returns, however often it has to seek: no wait for  *)
(* an interrupt lasts for ever.                                            *)
(***************************************************************************)
ReadReturns == pc = "seek" ~> Idle

(***************************************************************************)
(* "Mask channel 2": the channel is masked while the driver writes its     *)
(* address, page and count.                                                *)
(***************************************************************************)
MaskedWhileProgrammed ==
  todo # <<>> /\ Head(todo).port \in {AddrReg(2), PageReg(2), CountReg(2)}
     => 2 \in dma.masked

-----------------------------------------------------------------------------
(* The inductive invariant from which FloppyProofs proves them, for polls  *)
(* that do not time out: how far the driver is with what it does until it  *)
(* decides next, and what the controller makes of that.                    *)

Program(p, c) ==
  CASE p = "calibrate"  -> InstallSteps
    [] p = "calibrated" -> HeadMoves(CalibrateCommand)
    [] p = "seek"       -> flpydsk_control_motor(TRUE)
    [] p = "sought"     -> HeadMoves(SeekCommand(c))
    [] p = "read"       -> ReadSteps(c)
    [] p = "idle"       -> flpydsk_control_motor(FALSE)
    [] p = "boot"       -> <<>>
IsRest(s, steps) ==
  /\ Len(s) <= Len(steps)
  /\ \A i \in 1..Len(s) : s[i] = steps[Len(steps) - Len(s) + i]

(* The controller f waits for a command, or has still to be asked for what *)
(* it interrupted for: n bytes, of which a CHECK_INT is one.               *)
Settled(f, n) ==
  /\ f.job = "none" /\ f.args = <<>> /\ Len(f.result) <= 2
  /\ 3 * f.sense + Len(f.result) = n
  /\ f.result # <<>> => f.result[Len(f.result)] = f.track

(* It has got the first n bytes of a command; it executes one; it resets.  *)
Given(f, command, n) ==
  /\ f.result = <<>> /\ f.sense = 0
  /\ Len(f.args) = n /\ \A i \in 1..n : f.args[i] = command[i] % 256
Gets(f, command, n) == f.job = "none" /\ Given(f, command, n)
Executes(f, command) == f.job = "command" /\ Given(f, command, Len(command))
Resets(f) == f.job = "reset" /\ f.args = <<>> /\ f.result = <<>> /\ f.sense = 0

(* It has n bytes that are not an answer to CHECK_INT.                     *)
Reports(f, n) == f.job = "none" /\ f.args = <<>> /\ f.sense = 0 /\ Len(f.result) = n

(* With r steps left of flpydsk_reset, of a command that moves the head,   *)
(* and of flpydsk_install.  irq is irq_received.                           *)
InReset(f, irq, r) ==
  /\ irq => r \in 13..14
  /\ r \in 15..16 => Settled(f, 0)
  /\ r = 14 => IF irq THEN Settled(f, 12) ELSE Resets(f)
  /\ r = 13 => irq /\ Settled(f, 12)
  /\ r <= 12 => Settled(f, r)
  /\ (r = 15 => f.dor = 0) /\ (r <= 14 => f.dor = 12)
InHeadMoves(f, irq, command, r) ==
  /\ irq => r \in 4..5
  /\ r > 5 => Gets(f, command, Len(command) + 5 - r)
  /\ r = 5 => IF irq THEN Settled(f, 3) ELSE Executes(f, command)
  /\ r = 4 => irq /\ Settled(f, 3)
  /\ r <= 3 => Settled(f, r)
  /\ f.dor = 28
InInstall(f, irq, r) ==
  /\ r > 6 => InReset(f, irq, r - 6)
  /\ r <= 6 => ~irq
  /\ r \in {6, 2, 1, 0} => Settled(f, 0)
  /\ r \in 3..5 => Gets(f, <<SPECIFY, 48, 32>>, 5 - r)
  /\ (r \in 2..6 => f.dor = 12) /\ (r <= 1 => f.dor = 28)

(* The channel d with r steps left of flpydsk_read_sector.                 *)
Programmed(d, r) ==
  /\ r <= 49 => 2 \notin d.masked
  /\ r <= 48 => d.high = (r \in {44, 41})
  /\ r <= 46 => d.mode = 2 + ReadTransfer + TransferSingle
  /\ r <= 44 => d.address[1] = 0
  /\ r <= 43 => d.address[2] = 0
  /\ r <= 42 => d.page = 2
  /\ r <= 41 => d.count[1] = 255
  /\ r <= 40 => d.count[2] = 1

(* The controller with r steps left of it, for the block at c.             *)
InRead(f, irq, c, r) ==
  /\ irq => r \in {29, 30} \/ r \in 13..14
  /\ r \in 40..51 => Settled(f, 0)
  /\ r \in 31..39 => Gets(f, ReadCommand(c), 39 - r)
  /\ r = 30 => IF irq THEN Reports(f, 7) ELSE Executes(f, ReadCommand(c))
  /\ r = 29 => irq /\ Reports(f, 7)
  /\ r \in 22..28 => Reports(f, r - 21)
  /\ r \in {17, 18, 19, 21} => Settled(f, 0)
  /\ r = 20 => Reports(f, 1)
  /\ r <= 16 => InReset(f, irq, r)
  /\ (r >= 18 => f.dor = 28) /\ (r \in 16..17 => f.dor = 4)

GotTheBlock == failed \/ memory = chs

(* With r steps left of stopping the motor.                                *)
InIdle(r) ==
  /\ Settled(fdc, 0) /\ ~irq_received /\ (ret = DMA_BUFFER => GotTheBlock)
  /\ (r = 2 => fdc.dor = 28)
  /\ (r < 2 => fdc.dor \in {4, 12} \/ (fdc.dor = 28 /\ ret = 0 /\ tries = Tries))

InPhase ==
  LET r == Len(todo)
      irq == irq_received
  IN  /\ pc = "boot" => Settled(fdc, 0) /\ ~irq /\ fdc.dor \in {12, 28}
      /\ pc = "calibrate" => InInstall(fdc, irq, r)
      /\ pc = "calibrated" => InHeadMoves(fdc, irq, CalibrateCommand, r) /\ (r = 0 => cyl = fdc.track)
      /\ pc = "seek" => /\ Settled(fdc, 0) /\ ~irq /\ fdc.dor \in {4, 12, 28}
                        /\ r <= 1 => fdc.dor = 28
      /\ pc = "sought" => InHeadMoves(fdc, irq, SeekCommand(chs), r) /\ (r = 0 => cyl = fdc.track)
      /\ pc = "read" => /\ InRead(fdc, irq, chs, r)
                        /\ r > 30 \/ (r = 30 /\ ~irq) => Programmed(dma, r)
                        /\ r < 30 \/ (r = 30 /\ irq) => GotTheBlock
      /\ pc = "idle" => InIdle(r)

NothingRead == pc \in {"boot", "calibrate", "calibrated"} => ret = 0

\* Only a sector of the disk gets into the buffer (the one of Init is none).
OnDisk ==
  /\ memory.head \in 0..2 /\ memory.track \in 0..LastTrack
  /\ memory.head \in 0..1 => memory.sector \in 1..FLPY_SECTORS_PER_TRACK
AskedFor == asked \in LBAs \cup {0} /\ chs = Cast(flpydsk_lba_to_chs(asked))
Request == OnDisk /\ AskedFor

FloppyInv == TypeOK /\ IsRest(todo, Program(pc, chs)) /\ InPhase /\ NothingRead
=============================================================================
