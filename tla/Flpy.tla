-------------------------------- MODULE Flpy --------------------------------
(***************************************************************************)
(* The floppy driver (flpy.cpp, dma.cpp) with what it talks to: the floppy *)
(* disk controller, channel 2 of the DMA controller, and the part of       *)
(* ipc.cpp by which it waits for an interrupt.                             *)
(*                                                                         *)
(* The driver is one thread.  Its procedures are sequences of accesses to  *)
(* the hardware, waits and tests; todo is what is left of them.  The       *)
(* controller works on a command by itself and then raises an interrupt,   *)
(* which arrives at any moment, also inside msg_receive().                 *)
(***************************************************************************)
EXTENDS Integers, Sequences

CONSTANTS
  FLPY_SECTORS_PER_TRACK,
  Tracks,       \* number of cylinders of the disk, which has two heads
  Tries         \* the ten attempts of flpydsk_seek() and flpydsk_calibrate()

\* The numbers of a cylinder and of a sector are bytes of a command.
ASSUME FlpyAssumption ==
  FLPY_SECTORS_PER_TRACK \in 1 .. 255 /\ Tracks \in 1 .. 256 /\ Tries \in Nat \ {0}

Cylinder == 0 .. Tracks - 1
Lba      == 0 .. 2 * Tracks * FLPY_SECTORS_PER_TRACK - 1
Chs      == [track : Cylinder, head : 0 .. 1, sector : 1 .. FLPY_SECTORS_PER_TRACK]
Nothing  == [track |-> 0, head |-> 0, sector |-> 0]   \* no sector: a null pointer, or no data

VARIABLES
  todo,          \* what the driver has still to do, its next operation first
  tries,         \* attempts left in the loop it is in
  cyl,           \* the byte read last: after flpydsk_check_int() the cylinder
  job,           \* sectorLBA of the request served last, or -1
  answer,        \* msg.BUF of its reply: what the buffer it names held
  has_int_msg,   \* of the driver
  recv,          \* how far its msg_receive(INTERRUPT) is: "no", "tested", "blocked"
  irq,           \* the interrupt of the controller is raised and not yet taken
  dor,           \* the digital output register
  fdc,           \* the controller: phase, bytes of the command, bytes of the result,
                 \* senses: interrupts to be sensed, pcn: cylinder the head is at
  dma,           \* channel 2: flip-flop, mask, mode, address and count (low, high)
  buffer         \* the sector the memory at DMA_BUFFER holds

driver == <<todo, tries, cyl, job, answer>>
device == <<irq, dor, fdc, dma, buffer>>
vars   == <<driver, has_int_msg, recv, device>>

Bit(v, i) == (v \div 2^i) % 2 = 1

(***************************************************************************)
(* The operations the procedures of the driver are made of: a byte written *)
(* to or read from a port, a wait for the interrupt, and the tests.        *)
(***************************************************************************)
Out(port, val) == [op |-> "out", port |-> port, val |-> val]
Do(what)       == [op |-> what, port |-> "", val |-> 0]
Fifo(bytes)    == [i \in DOMAIN bytes |-> Out("fifo", bytes[i])]

SPECIFY   == 3
READ_SECT == 6
CALIBRATE == 7
CHECK_INT == 8
SEEK      == 15

CommandLength == [c \in {SPECIFY, READ_SECT, CALIBRATE, CHECK_INT, SEEK} |->
  CASE c = SPECIFY -> 3 [] c = READ_SECT -> 9 [] c = CALIBRATE -> 2
    [] c = CHECK_INT -> 1 [] c = SEEK -> 3]

\* DOR_MASK_RESET is 4, DOR_MASK_DMA 8, DOR_MASK_DRIVE0_MOTOR 16.
flpydsk_control_motor(b) == <<Out("dor", IF b THEN 16 + 4 + 8 ELSE 4)>>

flpydsk_wait_irq == Do("wait")

\* Mutant: the cylinder is not read.
CheckNoCylinder == Fifo(<<CHECK_INT>>) \o <<Do("in")>>

flpydsk_check_int == Fifo(<<CHECK_INT>>) \o <<Do("in"), Do("in")>>

flpydsk_drive_data(stepr, loadt, unloadt) ==
  Fifo(<<SPECIFY, 16 * (stepr % 16) + (unloadt % 16), 2 * loadt>>)

\* Calibrate and Seek are one attempt of the loops of flpydsk_calibrate() and
\* flpydsk_seek().
Calibrate == Fifo(<<CALIBRATE, 0>>) \o <<flpydsk_wait_irq>> \o flpydsk_check_int \o <<Do("calibrated")>>

flpydsk_calibrate == flpydsk_control_motor(TRUE) \o Calibrate

Seek(c, head) ==
  Fifo(<<SEEK, 4 * head, c>>) \o <<flpydsk_wait_irq>> \o flpydsk_check_int \o <<Do("sought")>>

flpydsk_reset ==
  <<Out("dor", 0), Out("dor", 4 + 8), flpydsk_wait_irq>>
  \o flpydsk_check_int \o flpydsk_check_int \o flpydsk_check_int \o flpydsk_check_int
  \o <<Out("ccr", 0)>> \o flpydsk_drive_data(3, 16, 240) \o flpydsk_calibrate

flpydsk_install == flpydsk_reset \o flpydsk_drive_data(13, 1, 15)

\* dma.cpp.
FDC_DMA_CHANNEL == 2
\* Mutant: the second controller is reset.
ResetOther        == Out("temp1", 255)
dma_reset         == Out("temp", 255)
dma_unmask_all    == Out("unmask1", 255)

dma_mask_channel(channel) == Out("chanmask", 2^(channel - 1))

dma_reset_flipflop(n) == IF n < 2 THEN <<>> ELSE <<Out("flipflop1", 255)>>

dma_set_address(low, high) == <<Out("addr2", low), Out("addr2", high)>>

dma_set_count(low, high) == <<Out("count2", low), Out("count2", high)>>

dma_set_read(channel) ==
  <<dma_mask_channel(channel), Out("mode", channel + 4 + 64), dma_unmask_all>>

DMA_BUFFER == \h1000

dma_initialize_floppy(address, length) ==
  <<dma_reset, dma_mask_channel(FDC_DMA_CHANNEL)>> \o dma_reset_flipflop(1)
  \o dma_set_address(address % 256, address \div 256) \o dma_reset_flipflop(1)
  \o dma_set_count((length - 1) % 256, (length - 1) \div 256)
  \o dma_set_read(FDC_DMA_CHANNEL) \o <<dma_unmask_all>>

\* Mutant: a cylinder has one head.
OneHead(lba) ==
  [head   |-> (lba % (FLPY_SECTORS_PER_TRACK * 2)) \div FLPY_SECTORS_PER_TRACK,
   track  |-> lba \div FLPY_SECTORS_PER_TRACK,
   sector |-> (lba % FLPY_SECTORS_PER_TRACK) + 1]

flpydsk_lba_to_chs(lba) ==
  [head   |-> (lba % (FLPY_SECTORS_PER_TRACK * 2)) \div FLPY_SECTORS_PER_TRACK,
   track  |-> lba \div (FLPY_SECTORS_PER_TRACK * 2),
   sector |-> (lba % FLPY_SECTORS_PER_TRACK) + 1]

LastSector(sector) ==
  IF sector + 1 >= FLPY_SECTORS_PER_TRACK THEN FLPY_SECTORS_PER_TRACK ELSE sector + 1

\* Mutant: the result is read without a wait for the interrupt.
ReadHasty(at) ==
  dma_initialize_floppy(DMA_BUFFER, 512) \o dma_set_read(FDC_DMA_CHANNEL)
  \o Fifo(<<READ_SECT + 128 + 32 + 64, 4 * at.head, at.track, at.head, at.sector,
            2, LastSector(at.sector), 27, 255>>)
  \o [i \in 1 .. 7 |-> Do("in")] \o flpydsk_check_int

flpydsk_read_sector_imp(at) ==
  dma_initialize_floppy(DMA_BUFFER, 512) \o dma_set_read(FDC_DMA_CHANNEL)
  \o Fifo(<<READ_SECT + 128 + 32 + 64, 4 * at.head, at.track, at.head, at.sector,
            2, LastSector(at.sector), 27, 255>>)
  \o <<flpydsk_wait_irq>> \o [i \in 1 .. 7 |-> Do("in")] \o flpydsk_check_int

(***************************************************************************)
(* The driver.                                                             *)
(***************************************************************************)
NextOp == Head(todo)
Doing(op) == todo # <<>> /\ NextOp.op = op
Then(ops) == todo' = ops \o Tail(todo)

\* task_flpy() takes a request; the file system is its one client.
Request(lba) ==
  /\ todo = <<>>
  /\ LET at == flpydsk_lba_to_chs(lba)
     IN todo' = flpydsk_control_motor(TRUE) \o Seek(at.track, at.head)
  /\ job' = lba /\ tries' = Tries /\ answer' = Nothing
  /\ UNCHANGED <<cyl, has_int_msg, recv, device>>

Calibrated ==
  /\ Doing("calibrated")
  /\ IF cyl = 0 \/ tries = 1
     THEN Then(flpydsk_control_motor(FALSE)) /\ UNCHANGED tries
     ELSE Then(Calibrate) /\ tries' = tries - 1
  /\ UNCHANGED <<cyl, job, answer, has_int_msg, recv, device>>

\* Mutant: the attempts are counted and not limited.
SoughtOn ==
  /\ Doing("sought")
  /\ LET at == flpydsk_lba_to_chs(job)
     IN IF cyl = at.track
        THEN Then(flpydsk_read_sector_imp(at) \o <<Do("reply")>>) /\ UNCHANGED tries
        ELSE Then(Seek(at.track, at.head)) /\ tries' = tries - 1
  /\ UNCHANGED <<cyl, job, answer, has_int_msg, recv, device>>

\* After a seek that failed the motor is left on.
Sought ==
  /\ Doing("sought")
  /\ LET at == flpydsk_lba_to_chs(job)
     IN IF cyl = at.track
        THEN /\ Then(flpydsk_read_sector_imp(at) \o flpydsk_control_motor(FALSE) \o <<Do("reply")>>)
             /\ UNCHANGED tries
        ELSE IF tries = 1 THEN Then(<<Do("fail")>>) /\ UNCHANGED tries
        ELSE Then(Seek(at.track, at.head)) /\ tries' = tries - 1
  /\ UNCHANGED <<cyl, job, answer, has_int_msg, recv, device>>

Reply ==
  /\ Doing("reply") \/ Doing("fail")
  /\ answer' = IF NextOp.op = "reply" THEN buffer ELSE Nothing
  /\ Then(<<>>)
  /\ UNCHANGED <<tries, cyl, job, has_int_msg, recv, device>>

(***************************************************************************)
(* The controller.  It takes the bytes of a command when it is idle, works *)
(* on it, and gives the bytes of its result; sensing an interrupt takes no *)
(* time, and sensing without one has a result of one byte.                 *)
(***************************************************************************)
Command == fdc.bytes[1] % 32

TakesByte == fdc.phase \in {"idle", "command"}

Sensed ==
  IF fdc.senses > 0
  THEN [fdc EXCEPT !.phase = "result", !.bytes = <<>>, !.results = <<32, fdc.pcn>>, !.senses = @ - 1]
  ELSE [fdc EXCEPT !.phase = "result", !.bytes = <<>>, !.results = <<128>>]

Taking(b) ==
  LET bytes == Append(fdc.bytes, b)
      c     == bytes[1] % 32
  IN IF Len(bytes) < CommandLength[c] THEN [fdc EXCEPT !.phase = "command", !.bytes = bytes]
     ELSE CASE c = CHECK_INT -> Sensed
            [] c = SPECIFY   -> [fdc EXCEPT !.phase = "idle", !.bytes = <<>>]
            [] OTHER         -> [fdc EXCEPT !.phase = "execute", !.bytes = bytes]

Reset(v) ==
  IF ~ Bit(v, 2) THEN [fdc EXCEPT !.phase = "reset", !.bytes = <<>>, !.results = <<>>, !.senses = 0]
  ELSE IF fdc.phase = "reset" THEN [fdc EXCEPT !.phase = "starting"]
  ELSE fdc

(***************************************************************************)
(* Channel 2 of the first DMA controller.                                  *)
(***************************************************************************)
Half(pair, d, v) == [pair EXCEPT ![d.flipflop + 1] = v]

\* Channel d after v is written to a port.
Programmed(d, port, v) ==
  CASE port = "temp" -> [d EXCEPT !.flipflop = 0, !.masked = TRUE]
    [] port = "chanmask" -> IF v % 4 = FDC_DMA_CHANNEL THEN [d EXCEPT !.masked = Bit(v, 2)] ELSE d
    [] port = "mode" -> IF v % 4 = FDC_DMA_CHANNEL THEN [d EXCEPT !.mode = v] ELSE d
    [] port = "addr2"  -> [d EXCEPT !.addr = Half(@, d, v), !.flipflop = 1 - @]
    [] port = "count2" -> [d EXCEPT !.count = Half(@, d, v), !.flipflop = 1 - @]
    [] OTHER -> d

\* A transfer of 512 bytes from the device to DMA_BUFFER.
Ready(d) ==
  /\ ~ d.masked /\ d.mode = FDC_DMA_CHANNEL + 4 + 64
  /\ d.addr = <<DMA_BUFFER % 256, DMA_BUFFER \div 256>> /\ d.count = <<511 % 256, 511 \div 256>>

(***************************************************************************)
(* Accesses to ports, by out_byte() and in_byte().  flpydsk_send_command() *)
(* and flpydsk_read_data() wait 500 times for the controller; if it is not *)
(* ready by then the byte is lost, or zero is read.  They do not look at   *)
(* the direction: an idle controller gives some byte, too.                 *)
(***************************************************************************)
out_byte ==
  /\ Doing("out")
  /\ LET port == NextOp.port
         v    == NextOp.val
     IN /\ dor' = IF port = "dor" THEN v ELSE dor
        /\ fdc' = IF port = "dor" THEN Reset(v)
                  ELSE IF port = "fifo" /\ TakesByte THEN Taking(v)
                  ELSE fdc
        /\ dma' = Programmed(dma, port, v)
  /\ Then(<<>>)
  /\ UNCHANGED <<tries, cyl, job, answer, has_int_msg, recv, irq, buffer>>

flpydsk_read_data ==
  /\ Doing("in")
  /\ IF fdc.phase = "result"
     THEN /\ cyl' = Head(fdc.results)
          /\ fdc' = [fdc EXCEPT !.results = Tail(@), !.phase = IF Len(fdc.results) = 1 THEN "idle" ELSE @]
     ELSE cyl' = 0 /\ UNCHANGED fdc
  /\ Then(<<>>)
  /\ UNCHANGED <<tries, job, answer, has_int_msg, recv, irq, dor, dma, buffer>>

(***************************************************************************)
(* The interrupt.  msg_receive() looks at has_int_msg and then marks the   *)
(* driver as receiving; interrupts are enabled between.                    *)
(***************************************************************************)
\* Mutant: an interrupt that came before the wait is not looked for.
ReceiveBlind ==
  /\ Doing("wait") /\ recv = "no"
  /\ recv' = "tested"
  /\ UNCHANGED <<driver, has_int_msg, device>>

ReceiveTest ==
  /\ Doing("wait") /\ recv = "no"
  /\ IF has_int_msg
     THEN has_int_msg' = FALSE /\ Then(<<>>) /\ UNCHANGED recv
     ELSE recv' = "tested" /\ UNCHANGED <<has_int_msg, todo>>
  /\ UNCHANGED <<tries, cyl, job, answer, device>>

ReceiveBlock ==
  /\ recv = "tested"
  /\ recv' = "blocked"
  /\ UNCHANGED <<driver, has_int_msg, device>>

\* i86_flpy_irq() with inform_int(TASK_FLPY).
i86_flpy_irq ==
  /\ irq /\ irq' = FALSE
  /\ IF recv = "blocked"
     THEN recv' = "no" /\ has_int_msg' = FALSE /\ Then(<<>>)
     ELSE has_int_msg' = TRUE /\ UNCHANGED <<recv, todo>>
  /\ UNCHANGED <<tries, cyl, job, answer, dor, fdc, dma, buffer>>

Raises == irq' = (irq \/ (Bit(dor, 2) /\ Bit(dor, 3)))

\* The controller ends what it does.  The head may end up on any cylinder;
\* a sector is read if it is on the cylinder under the head.
Started ==
  /\ fdc.phase = "starting" /\ Raises
  /\ fdc' = [fdc EXCEPT !.phase = "idle", !.senses = 4]
  /\ UNCHANGED <<driver, has_int_msg, recv, dor, dma, buffer>>

Moved(c) ==
  /\ fdc.phase = "execute" /\ Command \in {SEEK, CALIBRATE} /\ Raises
  /\ fdc' = [fdc EXCEPT !.phase = "idle", !.bytes = <<>>, !.senses = 1, !.pcn = c]
  /\ UNCHANGED <<driver, has_int_msg, recv, dor, dma, buffer>>

ReadDone ==
  /\ fdc.phase = "execute" /\ Command = READ_SECT /\ Raises
  /\ buffer' = IF Ready(dma) /\ Bit(dor, 4) /\ fdc.bytes[3] = fdc.pcn /\ fdc.bytes[5] <= fdc.bytes[7]
               THEN [track |-> fdc.bytes[3], head |-> fdc.bytes[4], sector |-> fdc.bytes[5]]
               ELSE buffer
  /\ fdc' = [fdc EXCEPT !.phase = "result", !.bytes = <<>>, !.results = [i \in 1 .. 7 |-> 0]]
  /\ UNCHANGED <<driver, has_int_msg, recv, dor, dma>>

Controller == Started \/ ReadDone \/ \E c \in Cylinder : Moved(c)

Thread == out_byte \/ flpydsk_read_data \/ ReceiveTest \/ ReceiveBlock \/ Calibrated \/ Sought \/ Reply

\* What the boot loader left: the flip-flop and the head anywhere.
Init ==
  /\ todo = flpydsk_install
  /\ tries = Tries /\ cyl = 0 /\ job = -1 /\ answer = Nothing
  /\ has_int_msg = FALSE /\ recv = "no" /\ irq = FALSE
  /\ dor = 4 + 8
  /\ fdc \in [phase : {"idle"}, bytes : {<<>>}, results : {<<>>}, senses : {0}, pcn : Cylinder]
  /\ dma \in [flipflop : 0 .. 1, masked : BOOLEAN, mode : {FDC_DMA_CHANNEL + 4 + 64},
              addr : {<<0, 0>>}, count : {<<0, 0>>}]
  /\ buffer = Nothing

Next == Thread \/ i86_flpy_irq \/ Controller \/ \E lba \in Lba : Request(lba)

\* The driver is scheduled, the controller ends what it does, and its
\* interrupt is taken.
Spec ==
  /\ Init /\ [][Next]_vars
  /\ WF_vars(Thread) /\ WF_vars(i86_flpy_irq) /\ WF_vars(Controller)

-----------------------------------------------------------------------------
(* Type correctness.                                                       *)
Byte == 0 .. 255

TypeOK ==
  /\ \A i \in DOMAIN todo : todo[i].op \in {"out", "in", "wait", "calibrated", "sought", "reply", "fail"}
  /\ tries \in 1 .. Tries /\ cyl \in Byte /\ job \in Lba \cup {-1}
  /\ answer \in Chs \cup {Nothing} /\ buffer \in Chs \cup {Nothing}
  /\ has_int_msg \in BOOLEAN /\ irq \in BOOLEAN /\ recv \in {"no", "tested", "blocked"}
  /\ dor \in Byte
  /\ fdc.phase \in {"reset", "starting", "idle", "command", "execute", "result"}
  /\ fdc.senses \in 0 .. 4 /\ fdc.pcn \in Cylinder
  /\ dma.flipflop \in 0 .. 1 /\ dma.masked \in BOOLEAN

(* The driver and the controller agree on the phase: a command begins when *)
(* the result of the one before is read, no byte is written or read while  *)
(* the controller works, and the driver waits only for an interrupt that   *)
(* is on its way (flpy.cpp:112 and 122, where bytes are lost silently).    *)
PhasesAgree ==
  /\ Doing("out") /\ NextOp.port = "fifo" => TakesByte
  /\ Doing("in") => fdc.phase \in {"result", "idle"}
  /\ Doing("wait") => fdc.phase \in {"starting", "execute"} \/ irq \/ has_int_msg

(* While the controller works, all it needs is set: its interrupt reaches  *)
(* the processor, the motor runs for a command, and for a sector channel 2 *)
(* takes 512 bytes to DMA_BUFFER.  The driver never clears the flip-flop   *)
(* by itself, unmasks the other controller (flpy.cpp:82-92), and closes    *)
(* the gate of interrupt and DMA with the motor (flpy.cpp:205).            *)
DeviceSet ==
  /\ fdc.phase \in {"starting", "execute"} => Bit(dor, 2) /\ Bit(dor, 3)
  /\ fdc.phase = "execute" => Bit(dor, 4)
  /\ fdc.phase = "execute" /\ Command = READ_SECT => Ready(dma) /\ dma.flipflop = 0

(* The client gets the sector it asked for, or a null pointer, and that    *)
(* only after the last attempt to find the cylinder (flpy.cpp:386).        *)
LbaOf(at) == (2 * at.track + at.head) * FLPY_SECTORS_PER_TRACK + at.sector - 1

RightSector ==
  todo = <<>> /\ job # -1 =>
    IF answer = Nothing THEN tries = 1 /\ cyl # flpydsk_lba_to_chs(job).track
    ELSE LbaOf(answer) = job

(* When the driver waits for the next request no interrupt is pending,     *)
(* announced or unsensed: it would be taken for a request (flpy.cpp:26).   *)
NoneLeftOver ==
  todo = <<>> => ~ irq /\ ~ has_int_msg /\ recv = "no" /\ fdc.phase = "idle" /\ fdc.senses = 0

(* If no interrupt comes between the two steps of msg_receive(), every     *)
(* request is answered.  One that does (ipc.cpp:114 and 218) is announced  *)
(* to a driver that does not look, and nothing wakes it any more.          *)
InWindow == recv = "tested" /\ irq

AnsweredOrLost == []~InWindow => (todo # <<>> ~> todo = <<>>)
=============================================================================
