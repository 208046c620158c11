------------------------------- MODULE Floppy -------------------------------
(***************************************************************************)
(* drivers/floppy.c on top of dma.c, with the floppy disk controller, its  *)
(* drive and its interrupt.                                                *)
(*                                                                         *)
(* A function of the driver is the sequence of what it does to the         *)
(* hardware; todo is what is left of it.  Step takes the first of todo;    *)
(* when nothing is left, the action that pc names decides what comes next. *)
(* The controller executes a command, and interrupts, at any time between. *)
(* Bytes have the values of floppy.c, so a byte that gets lost makes a     *)
(* parameter look like a command, as it does in the hardware.              *)
(***************************************************************************)
EXTENDS Dma, DiskGeometry, FiniteSets

CONSTANTS
  LBAs,       \* the blocks that are asked for, as the int that flpydsk_lba_to_chs gets
  LastTrack,  \* of the drive
  CalSteps,   \* steps a calibrate command makes at most
  Tries,      \* flpydsk_seek and flpydsk_calibrate try so often (10 in the code)
  Faulty,     \* whether a seek may miss its track and a read may fail
  Timeouts    \* whether 500 polls of the status register may be too few

ASSUME FloppyAssumption ==   \* a track is a byte
  /\ LBAs \subseteq Int /\ LastTrack \in 0..255 /\ CalSteps \in Nat /\ Tries \in Nat
  /\ Faulty \in BOOLEAN /\ Timeouts \in BOOLEAN

VARIABLES
  todo,       \* what the driver has still to do
  pc,         \* what it decides when it has done that
  asked,      \* history: the block number flpydsk_read_sector got last
  chs, cyl, tries,  \* locals of flpydsk_read_sector and what it calls
  ret,        \* what flpydsk_read_sector returned last
  irq_received,
  fdc,        \* the controller: [dor, args, result, job, sense, track]
  dma,        \* the DMA controller
  memory,     \* what is at DMA_BUFFER: a sector, or "old"
  failed      \* history: the last read ended with an error status

driverVars == <<todo, pc, asked, chs, cyl, tries, ret>>
deviceVars == <<fdc, dma, memory, failed>>
vars == <<driverVars, irq_received, deviceVars>>

DMA_BUFFER == \h20000
SectorSize == 512
current_drive == 0

\* The argument of flpydsk_send_command is uint8.
Send(byte) == [op |-> "send", port |-> 0, value |-> byte % 256]
Sends(bytes) == [i \in DOMAIN bytes |-> Send(bytes[i])]
Do(op) == [op |-> op, port |-> 0, value |-> 0]
Repeat(n, s) == [i \in 1..(n * Len(s)) |-> s[((i - 1) % Len(s)) + 1]]

DOR == \h3f2
SPECIFY == 3
READ_SECT == 6 + \h80 + \h20 + \h40
CALIBRATE == 7
CHECK_INT == 8
SEEK == 15

-----------------------------------------------------------------------------
(* The functions of floppy.c that do not decide anything.                  *)

\* Mutants: it does not wait; it clears the flag before it waits.
flpydsk_wait_irq_Never == <<Do("clear")>>
flpydsk_wait_irq_ClearFirst == <<Do("clear"), Do("wait")>>
flpydsk_wait_irq == <<Do("wait"), Do("clear")>>

flpydsk_check_int == <<Send(CHECK_INT), Do("read"), Do("read_cyl")>>

\* sleep(20) ends after 20 ticks: a step that is always possible.
\* Mutant: the motor is never turned off.
flpydsk_control_motor_On(b) == <<Out(DOR, current_drive + 16 + 4 + 8), Do("sleep")>>
flpydsk_control_motor(b) ==
  <<Out(DOR, IF b THEN current_drive + 16 + 4 + 8 ELSE 4), Do("sleep")>>

flpydsk_drive_data(stepr, loadt, unloadt) ==
  Sends(<<SPECIFY, (stepr % 16) * 16 + (unloadt % 16), loadt * 2>>)

\* Mutant: only the drive in use is asked.
flpydsk_reset_OneDrive ==
  <<Out(DOR, 0), Out(DOR, 4 + 8)>> \o flpydsk_wait_irq \o flpydsk_check_int
flpydsk_reset ==
  <<Out(DOR, 0), Out(DOR, 4 + 8)>> \o flpydsk_wait_irq \o Repeat(4, flpydsk_check_int)

dma_initialize_floppy(buffer, length) ==
  LET a == buffer
      c == length - 1
  IN  IF a \div 256 ^ 3 # 0 \/ c \div 256 ^ 2 # 0 \/ ((a % (256 ^ 2)) + c) \div 256 ^ 2 # 0
      THEN <<>>
      ELSE dma_reset \o dma_mask_channel(2) \o dma_reset_flipflop(2) \o dma_set_read(2)
           \o dma_set_address(2, Byte(a, 0), Byte(a, 1))
           \o dma_set_external_page_register(2, Byte(a, 2))
           \o dma_set_count(2, Byte(c, 0), Byte(c, 1)) \o dma_unmask_all

ReadCommand(c) ==
  <<READ_SECT, c.head * 4 + current_drive, c.track, c.head, c.sector, 2,
    IF c.sector + 1 >= FLPY_SECTORS_PER_TRACK THEN FLPY_SECTORS_PER_TRACK ELSE c.sector + 1,
    27, 255>>
flpydsk_read_sector_imp(c) ==
  dma_initialize_floppy(DMA_BUFFER, SectorSize) \o Sends(ReadCommand(c))
  \o flpydsk_wait_irq \o Repeat(7, <<Do("read")>>) \o flpydsk_check_int

\* What the functions below do before they decide.
InstallSteps ==
  flpydsk_reset \o <<Out(\h3f7, 0)>> \o flpydsk_drive_data(3, 16, 240)
  \o flpydsk_control_motor(TRUE)
HeadMoves(command) == Sends(command) \o flpydsk_wait_irq \o flpydsk_check_int
CalibrateCommand == <<CALIBRATE, current_drive>>
SeekCommand(c) == <<SEEK, c.head * 4 + current_drive, c.track>>
ReadSteps(c) == flpydsk_read_sector_imp(c) \o flpydsk_control_motor(FALSE) \o flpydsk_reset

-----------------------------------------------------------------------------
(* The controller (external: the hardware).  It collects the bytes of a    *)
(* command, executes it, and then has bytes to be read.                    *)

Working == Bit(fdc.dor, 4)
Expects == Working /\ fdc.job = "none" /\ fdc.result = <<>>

Needs(cmd) == CASE cmd = READ_SECT -> 9 [] cmd \in {SEEK, SPECIFY} -> 3
                [] cmd = CALIBRATE -> 2 [] OTHER -> 1

\* CHECK_INT reports an interrupt once, then it is an invalid command.
Sensed(f) == IF f.sense = 0 THEN [f EXCEPT !.args = <<>>, !.result = <<128>>]
             ELSE [f EXCEPT !.args = <<>>, !.sense = @ - 1, !.result = <<32, f.track>>]

Received(byte) ==
  LET f == [fdc EXCEPT !.args = Append(@, byte)]
  IN  IF Len(f.args) < Needs(f.args[1]) THEN f
      ELSE CASE f.args[1] \in {READ_SECT, SEEK, CALIBRATE} -> [f EXCEPT !.job = "command"]
             [] f.args[1] = SPECIFY -> [f EXCEPT !.args = <<>>]
             [] f.args[1] = CHECK_INT -> Sensed(f)
             [] OTHER -> [f EXCEPT !.args = <<>>, !.result = <<128>>]

\* Writes to the digital output register: bit 2 holds or releases the reset.
WrittenDor(value) ==
  IF ~Bit(value, 4)
  THEN [fdc EXCEPT !.dor = value, !.args = <<>>, !.result = <<>>, !.job = "none", !.sense = 0]
  ELSE [fdc EXCEPT !.dor = value, !.job = IF Working THEN @ ELSE "reset"]

\* i86_flpy_irq runs, unless the register has interrupts off.
Interrupt == irq_received' = (irq_received \/ Bit(fdc.dor, 8))

Finish(f) == fdc' = [f EXCEPT !.job = "none"]

ResetDone ==
  /\ fdc.job = "reset" /\ Interrupt /\ Finish([fdc EXCEPT !.sense = 4])
  /\ UNCHANGED <<driverVars, dma, memory, failed>>

SeekDone ==
  /\ fdc.job = "command" /\ fdc.args[1] \in {SEEK, CALIBRATE} /\ Interrupt
  /\ LET target == IF fdc.args[1] = SEEK THEN fdc.args[3]
                   ELSE IF fdc.track > CalSteps THEN fdc.track - CalSteps ELSE 0
     IN  \E t \in 0..LastTrack :
            /\ t = target \/ Faulty \/ target > LastTrack
            /\ Finish([fdc EXCEPT !.args = <<>>, !.sense = 1, !.track = t])
  /\ UNCHANGED <<driverVars, dma, memory, failed>>

\* The sector that a read command asks for.
Asked == [head |-> fdc.args[4], track |-> fdc.args[3], sector |-> fdc.args[5]]
Readable == /\ Bit(fdc.dor, 16) /\ Asked.track = fdc.track /\ Asked.head \in 0..1
            /\ Asked.sector \in 1..FLPY_SECTORS_PER_TRACK

ReadDone ==
  /\ fdc.job = "command" /\ fdc.args[1] = READ_SECT /\ Interrupt
  /\ Finish([fdc EXCEPT !.args = <<>>, !.result = [i \in 1..7 |-> i]])
  /\ \/ /\ Readable /\ failed' = FALSE /\ dma' = AfterTransfer(dma)
        /\ memory' = IF Moves(dma, DMA_BUFFER, SectorSize) THEN Asked ELSE memory
     \/ (Faulty \/ ~Readable) /\ failed' = TRUE /\ UNCHANGED <<memory, dma>>
  /\ UNCHANGED driverVars

Controller == ResetDone \/ SeekDone \/ ReadDone

-----------------------------------------------------------------------------
(* The driver does the first thing of todo.                                *)

Does(op) == todo # <<>> /\ Head(todo).op = op /\ todo' = Tail(todo)
SameDriver == UNCHANGED <<pc, asked, chs, tries, ret, memory, failed>>

WritePort ==
  /\ Does("out")
  /\ IF Head(todo).port = DOR THEN fdc' = WrittenDor(Head(todo).value) /\ UNCHANGED dma
     ELSE dma' = Write8237(dma, Head(todo).port, Head(todo).value) /\ UNCHANGED fdc
  /\ SameDriver /\ UNCHANGED <<cyl, irq_received>>

\* flpydsk_send_command: a byte that is not wanted in time is dropped.
flpydsk_send_command ==
  /\ Does("send")
  /\ \/ Expects /\ fdc' = Received(Head(todo).value)
     \/ (Timeouts \/ ~Expects) /\ UNCHANGED fdc
  /\ SameDriver /\ UNCHANGED <<cyl, irq_received, dma>>

\* flpydsk_read_data: 0 if there is nothing in time; and since it does not look
\* at the direction bit, anything while the controller waits for a command.
flpydsk_read_data ==
  /\ Does("read") \/ Does("read_cyl")
  /\ \E byte \in 0..255 :
       /\ \/ /\ fdc.result # <<>> /\ byte = Head(fdc.result)
             /\ fdc' = [fdc EXCEPT !.result = Tail(@)]
          \/ byte = 0 /\ (Timeouts \/ fdc.job # "none" \/ ~Working) /\ UNCHANGED fdc
          \/ Expects /\ byte \in {0, 255} /\ UNCHANGED fdc
       /\ cyl' = IF Head(todo).op = "read_cyl" THEN byte ELSE cyl
  /\ SameDriver /\ UNCHANGED <<irq_received, dma>>

\* flpydsk_wait_irq: it leaves its loop, and then takes the flag back.
SeeIrq ==
  /\ Does("wait") /\ irq_received
  /\ SameDriver /\ UNCHANGED <<cyl, irq_received, fdc, dma>>
ClearIrq ==
  /\ Does("clear") /\ irq_received' = FALSE
  /\ SameDriver /\ UNCHANGED <<cyl, fdc, dma>>

Sleep == Does("sleep") /\ SameDriver /\ UNCHANGED <<cyl, irq_received, fdc, dma>>

-----------------------------------------------------------------------------
(* The driver decides.                                                     *)

At(p) == pc = p /\ todo = <<>>
Hardware == UNCHANGED <<irq_received, deviceVars>>

\* flpydsk_install up to the loop of flpydsk_calibrate.
flpydsk_install ==
  /\ At("boot") /\ pc' = "calibrate" /\ tries' = 0
  /\ todo' = InstallSteps
  /\ Hardware /\ UNCHANGED <<asked, chs, cyl, ret>>

flpydsk_calibrate ==
  /\ At("calibrate")
  /\ IF tries < Tries
     THEN /\ pc' = "calibrated" /\ tries' = tries + 1
          /\ todo' = HeadMoves(CalibrateCommand)
     ELSE pc' = "idle" /\ todo' = flpydsk_control_motor(FALSE) /\ UNCHANGED tries
  /\ Hardware /\ UNCHANGED <<asked, chs, cyl, ret>>

\* The test for cylinder 0.  Mutant: one try is always enough.
Calibrated_Once == TRUE
Calibrated == cyl = 0

CalibrateTest ==
  /\ At("calibrated")
  /\ IF Calibrated THEN pc' = "idle" /\ todo' = flpydsk_control_motor(FALSE)
     ELSE pc' = "calibrate" /\ UNCHANGED todo
  /\ Hardware /\ UNCHANGED <<asked, chs, cyl, tries, ret>>

\* The arguments are uint8.  Mutant: they are not.
Cast_Wide(loc) == loc
Cast(loc) == [i \in DOMAIN loc |-> loc[i] % 256]

flpydsk_read_sector(lba) ==
  /\ At("idle") /\ pc' = "seek" /\ tries' = 0
  /\ asked' = lba /\ chs' = Cast(flpydsk_lba_to_chs(lba))
  /\ todo' = flpydsk_control_motor(TRUE)
  /\ Hardware /\ UNCHANGED <<cyl, ret>>

flpydsk_seek ==
  /\ At("seek")
  /\ IF tries < Tries
     THEN /\ pc' = "sought" /\ tries' = tries + 1 /\ UNCHANGED ret
          /\ todo' = HeadMoves(SeekCommand(chs))
     ELSE pc' = "idle" /\ ret' = 0 /\ UNCHANGED <<todo, tries>>
  /\ Hardware /\ UNCHANGED <<asked, chs, cyl>>

SeekTest ==
  /\ At("sought")
  /\ IF cyl = chs.track
     THEN pc' = "read" /\ todo' = ReadSteps(chs)
     ELSE pc' = "seek" /\ UNCHANGED todo
  /\ Hardware /\ UNCHANGED <<asked, chs, cyl, tries, ret>>

Return ==
  /\ At("read") /\ pc' = "idle" /\ ret' = DMA_BUFFER
  /\ Hardware /\ UNCHANGED <<todo, asked, chs, cyl, tries>>

Driver ==
  \/ WritePort \/ flpydsk_send_command \/ flpydsk_read_data \/ SeeIrq \/ ClearIrq \/ Sleep
  \/ flpydsk_install \/ flpydsk_calibrate \/ CalibrateTest \/ flpydsk_seek \/ SeekTest
  \/ Return

(* The BIOS has used the drive: its head and its motor may be anywhere.    *)
Init ==
  /\ todo = <<>> /\ pc = "boot"
  /\ asked = 0 /\ chs = [head |-> 0, track |-> 0, sector |-> 1]
  /\ cyl = 0 /\ tries = 0 /\ ret = 0
  /\ irq_received = FALSE /\ dma = Reset8237 /\ failed = FALSE
  /\ memory = [head |-> 2, track |-> 0, sector |-> 0]
  /\ \E t \in 0..LastTrack, dor \in {12, 28} :
        fdc = [dor |-> dor, args |-> <<>>, result |-> <<>>, job |-> "none",
               sense |-> 0, track |-> t]

Next == Driver \/ Controller \/ \E lba \in LBAs : flpydsk_read_sector(lba)

Spec == Init /\ [][Next]_vars

(* The shell's thread gets on, and the controller ends what it began.      *)
FairSpec == Spec /\ WF_vars(Driver) /\ WF_vars(Controller)
=============================================================================
