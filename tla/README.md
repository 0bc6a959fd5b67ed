# TLA+ development for os_demo1

os_demo1 is a small protected-mode operating system for the PC: a boot loader,
a microkernel with synchronous message passing, four tasks (terminal, system,
floppy driver, file system) and user processes. This directory holds TLA+
models of it, the TLC configurations that check them and proofs for TLAPS.
Sources are named relative to `src/krnl/krnl/`.

## The system

One processor. Every process is an entry of `proc_table`. A process enters the
kernel by `int 90h` (`send`, `recv`, `printx`); a call runs to its end before
another process can run, because a clock interrupt that nests in it returns
without calling `schedule()` (`k_reenter != 0`). Between two calls a clock
tick may hand the processor to any process without flags. Interrupts of the
clock, keyboard and floppy controller may nest in a system call.

| Component | State | Operations | Talks to |
|---|---|---|---|
| Message passing (`ipc.cpp`, `syscall.cpp`, `send_recv.cpp`) | `p_flags`, `p_msg`, `p_recvfrom`, `p_sendto`, `has_int_msg`, `q_sending`, `next_sending` | `msg_send`, `msg_receive`, `inform_int`, `deadlock` | every process, by calls; the floppy interrupt, by `inform_int` |
| Scheduler (`proc.cpp`) | `p_proc_ready`, `ticks`, `k_reenter` | `schedule`, `clock_handler`, `_save`, `restart` | reads and *writes* the flags of the message passing |
| System task (`sys.cpp`) | slots of `proc_table`, images | `do_exit`, `do_excute`, `GET_TICKS` | client of the file system; page allocator |
| Library stubs (`open.cpp`, `read.cpp`, `exec.cpp`, ...) | the local `MESSAGE` of each call | a send, then a receive | system task, file system |
| Floppy driver (`flpy.cpp`, `dma.cpp`) | current drive, DMA buffer | `flpydsk_install`, `flpydsk_read_sector` | controller and its interrupt; serves the file system |
| File system (`fs.cpp`, `fat12.cpp`) | `file_table`, mount info | open, read, size, close | client of the driver |
| Keyboard (`kbd.cpp`) | ring of scan codes, modifier flags | interrupt handler puts, `keyboard_read` takes | filled by an interrupt, drained by the terminal task |
| Terminal (`tty.cpp`) | per console ring, cursor, origin | `tty_do_read`, `tty_do_write`, `out_char`, `scroll_screen` | keyboard; `printx` calls of every process |
| Page frames (`pmm.cpp`) | bitmap, used counter | alloc/free of one and of many blocks | system task, virtual memory |
| Interrupt plumbing (`klib.cpp`, `pic.cpp`, `idt.cpp`, `gate.cpp`) | PIC masks, IDT | `enable_irq`, `disable_irq` | all drivers |
| Virtual memory (`vmm*.cpp`) | page directories | map, unmap, page tables | not called: `kernel_main()` has the calls commented out |
| Descriptor tables, processor (`gdt.cpp`, `cpu.cpp`) | GDT, LDT, TSS | set-up | written at start-up |
| Exceptions (`exception.cpp`) | none | print and halt | - |
| Debug output, helpers (`dbg.cpp`, `misc.cpp`) | debug cursor | formatting, copying | - |
| Boot loader (`boot.asm`, `bootloader.asm`) | none that stays | load the kernel | - |

### Inventory: what is hard, and what makes each part correct

**Message passing and scheduler.** Interaction is by shared entries of
`proc_table`: a send writes the destination's entry, a receive the sender's, an
interrupt the driver's, and `schedule()` itself writes flags. Hard: `BOTH` is two
system calls with a clock tick possible in between; `schedule()` clears a flag it
calls `RECEIVE` and whose value is that of `SENDING`, so senders are resumed
while they stand in a queue; a named sender is unlinked by walking the wrong
list; `deadlock()` is computed and ignored. Correct means: the processor is never
at a blocked or a free entry; a receiver goes on only with a message; the linked
lists are finite and give each request once and in order; a reply goes to the
process that asked; every queued request is taken; the kernel never loops in a
call and never writes outside the table.

**System task.** `EXIT` frees the slot of a process and then replies to it all
the same; `EXCUTE` chooses a slot and makes four calls to the file system before
it starts the slot. Correct means: only user slots are freed, the running process
keeps its slot, memory of a dead process is left alone, the task comes back from
the reply to the dead. Frames given back are the frames taken (page frames below).

**Floppy driver.** Each command is followed by a wait for its interrupt, which
may come before the wait, during another one, or inside `msg_receive()`. Correct
means: no interrupt is lost and none is taken for that of another command.

**File system.** One task, clients interleaved between its sectors; descriptors
are indices of one table for all clients. Correct means: a descriptor stands for
the file it was opened for and for no other client; a read copies the clusters of
the chain in order; failed opens, closes and exits give back what they took.

**Keyboard.** Producer is an interrupt handler that enables interrupts before it
has used the global it read the scan code into; the consumer busy-waits in the
middle of a sequence. Correct means: ring, count and pointers agree; keys come out
once, in order, with the right modifiers; the terminal task always gets out.

**Terminal.** `out_char()` runs in the terminal task (preemptible) and in
`sys_printx()` (in the kernel) on the same cursor. Correct means: the cursor stays
in the console's part of the video memory and on the screen, the scroll loop
ends, no character is written over another.

**Page frames.** Two searches over one bitmap. Correct means: a frame is given to
one owner at a time, the counter is the number of bits set, what exit frees is
what start took.

**Interrupt plumbing.** The masks of the controllers are read, changed and
written back by tasks and by handlers. Correct means: an `enable_irq()` is not
undone by an interrupt in its middle.

`PROJECT.json` lists each of these hazards at its line under "hazards", with the
properties that cover it or the reason why none does.

## Modules

| Module | What it is |
|---|---|
| `Ipc` | process table: message passing, scheduler, system task, driver, file system and users as message senders |
| `SysQueue` | abstract: what the queue of one server promises its clients |
| `MCIpc` | workloads, the booted state, fairness, the refinement to `SysQueue`, liveness, and what comments of `ipc.cpp` claim |
| `IpcProofs` | theorems on `Ipc` for any calls |
| `QueueProofs` | theorems on its queues for short calls, and the refinement of `SysQueue` |
| `Kbd` | keyboard, interrupt handler, ring, decoder; the refinement of the ring to `BoundedFifo` |
| `BoundedFifo` | abstract: a queue that drops items only when it is full |
| `KeyStream` | abstract: every key reported once, in order, with the modifiers held |
| `MCKbd` | typists, the refinement to `KeyStream`, nested handlers |
| `KbdProofs` | theorems on `Kbd` |
| `Fs` | file table, the four requests, the walk along a FAT12 chain |
| `MCFs` | two small disks and a bound on open files |
| `FsProofs` | theorems on `Fs` |
| `Tty` | consoles, terminal task and `sys_printx()`, access by access |
| `MCTty` | the keys of the typist |
| `TtyProofs` | theorems on `Tty` |
| `Flpy` | floppy driver, its controller, channel 2 of the DMA controller, the wait for the interrupt in two steps |
| `MCFlpy` | names the instance |
| `FlpyPaths` | what the procedures of the driver do to the device, list by list; the numbering of sectors |
| `FlpyProofs` | theorems on `Flpy` |
| `Pmm` | bitmap of page frames, its searches, and the system task that uses them |
| `MCPmm` | a memory with holes, symmetry of slots, and what a comment of `pmm.cpp` claims |
| `PmmProofs` | theorems on `Pmm` |

Definitions keep the names of the source. An operator marked "mutant" stands
beside the definition it perturbs and is used by nothing: `PROJECT.json` pairs
each checked property with such a plausible bug, under which TLC must find the
property violated.

### Ipc and the code

State: one function per field of the C structure. `next_sending`, `q_sending`
hold process numbers instead of pointers (`NIL` is 0 in the source). `child_pid`
is the local of `do_excute()`: the slot it chose, from the choice
(`sys.cpp:156`) to the start of the program (`sys.cpp:219`). `p_msg`
names the buffer pointed to, `mem` holds the buffers' contents - the loop buffer
of a server, the local of a library stub and the cell at offset zero, to which a
copy through a null `p_msg` goes. Processes of the flat image share one such
cell, a started program has its own (`p_base`, the case split of `va2la()`).
`pc` is where a process stands in its program, `irq` says that the floppy
controller still owes an interrupt, `kernel` records the two ways out of the
model: a call that never ends, a write outside `proc_table`.

| Action | Code |
|---|---|
| `msg_send` = `SendSpins`, `Deliver`, `Enqueue` | `msg_send()` with `deadlock()`; the call includes the `schedule()` that `block()` makes |
| `msg_receive` = `TakeInt`, `TakeQueued`, `Await` | `msg_receive()`; `Unlink` includes the walk from the receiver instead of its queue |
| `inform_int`, `FloppyIrq` | `inform_int()`, called by `i86_flpy_irq()` |
| `Tick`, `schedule`, `Swept` | `clock_handler()` at `k_reenter = 0`, `schedule()` with its sweep |
| `UserSend`, `UserRecv` | any library stub: `send()`, then `recv()` |
| `Listen`, `Reply`, `ReplyOutside` | the main loop of a server |
| `do_exit`, `ExecRefused`, `ExecStart`, `ExecCall`, `ExecAnswer`, `ExecDone` | `task_sys()` |
| `FsCallDisk`, `FsAnswer` | `task_fs()` as client of the driver |
| `FlpyCommand`, `flpydsk_wait_irq` | driver commands and their interrupts |

A system call is one step because nothing else runs on the processor before it
ends: `sys_call()` enables interrupts after `save()`, but a clock interrupt that
nests in it finds `k_reenter != 0` and returns. The floppy interrupt falls between
calls here; that it may fall into the middle of one is modelled in `Flpy`, where
`msg_receive()` has two steps. A send writes the sender's own buffer too, because
`sys_sendrec()` sets `source` in it first; a reply keeps the type of its request.

### Kbd and the code

`line` and `down` are the keyboard, an external device that sends the codes of
one key before those of the next. `keyboard_irq` reads the port into
`scan_code`; an activation of the handler in `acts` then takes the steps of the
compiled code (`Release/kbd.asm`): test of the count, load of code and pointer,
write, load and store of `p_head`, wrap, count. `keyboard_read` runs only while no
handler does, since it disables interrupts around `get_byte_from_kbuf`. `got` is
the sequence read so far, `mods` the modifier flags, `key` what `in_process()`
was last given. Alt, right shift, the lock keys and the rest of `keymap` behave
like the keys kept and are left out.

### Fs and the code

`file_table` has the fields of `FILE` that the code uses. `held` is what each
client knows: its descriptors, the length it asked for, the clusters its read
delivered. `fsys_do_open` covers a name that is too long, a full table, a missing
file and a directory - a failed open leaves in the slot a `FILE` with only its
flags set, the end-of-file mark being whatever the stack held. `fsys_do_read`
starts a read, `ReadSector` copies a sector, `ReadRest` the last one, `Exit` is a
client that exits or is replaced: it tells the file system nothing. The disk is
external: `Dir` and `Fat` are constants, and `FatByte` packs the table into
twelve-bit entries so that `nextCluster` reads the bytes that
`fsys_fat_read()` reads, including the shift whose result it drops.

### Tty and the code

`acts` holds the activations that are under way: that of the terminal task, and
on top of it that of a `sys_printx()` in the kernel, which runs to its end. An
activation has the step it is at, the arguments of `out_char()`, the register it
keeps a value in from one step to the next, and where it returns to. The steps
are the accesses to memory of the compiled code (`Release/tty.asm`): a room test
and the write of the cell use the cursor that was read at the test
(`ReadCursor`), the increment reads it again (`PutLetter`), a newline and a
backspace store what they computed from the value of the test (`MoveCursor`),
which is where an update made in between is lost.

| Action | Code |
|---|---|
| `ReadCursor`, `PutLetter`, `MoveCursor` | the `switch` of `out_char()` |
| `ReadStart`, `Compare`, `ScrollDown`, `StoreStart` | its loop, with `scroll_screen()` |
| `set_cursor`, `set_video_start_addr` | `flush()`; of the display registers `crtc` keeps whose cursor and whose start address they hold |
| `NoKey`, `in_process`, `tty_do_write` | `tty_do_read()` with what it does with a key, and the echo |
| `select_console`, `ArrowKey`, `put_key` | the cases of `in_process()`; shift and alt are folded into the names of keys |
| `sys_printx` | one character of `tty_write()` on the terminal of a process |

### Flpy and the code

The driver is one thread, so its procedures are written as sequences: an
operator with the name of each procedure gives the accesses to ports, waits and
tests it makes, in order, and `todo` is what is left of them. Mode bytes, masks
and addresses are the numbers the code writes, whatever its names for them say:
`dma_mask_channel(2)` writes 2, which unmasks channel 2, `dma_unmask_all` writes to
the second controller, `dma_reset_flipflop(1)` returns at once, and what clears the
flip-flop is `dma_reset`, the master clear. `out_byte` and
`flpydsk_read_data` are the accesses; if the controller is not ready the byte is
lost, or zero is read, as after the 500 attempts of the code. `Started`, `Moved`
and `ReadDone` are the controller, an external device: `Moved` leaves the head on
any cylinder, so a seek may fail and is repeated. `ReceiveTest` and
`ReceiveBlock` are the two parts of `msg_receive()` between which
`i86_flpy_irq` can come. `Sought` also has the failure the code ends with: after
the last attempt it leaves the motor on and replies a null pointer.

### Pmm and the code

`memory_map` is the set of frames whose bit is set, `used_blocks` the counter.
`mmap_first_free_s(map, n)` is the set of frames the search may return: it tests
`i << j` where bit `j` is meant if one frame is asked for, and otherwise counts
free frames from `i * 32 + (1 << j)` on. Both loops run over as many *words* as
there are frames. What is read outside the map is other memory, so the search may
stop there or not: `Certain` are the frames at which it must stop, `Possible`
those at which it may, and `Outside` is any frame past the map, whose bits are
none of the model's. `do_excute` takes the image and the buffer for the file and
does not look whether it got them; `NoSuchFile` is the early return that leaves
the image taken; `do_exit` passes a size in bytes where a number of frames is
expected, and so gives back all frames from the image to the end of the map.
`SystemKept` is about the frames of the system only. That this frees programs
that still run (`sys.cpp:128`), and that the buffer for the file, or the image
when there is no file, is never given back (`sys.cpp:202`), are in the model and
contradict nothing the repository says.

## Runs

Every run takes the code as it is. "violation" runs check what a comment or a
commented assertion says and the code does not do; each is a finding in
`PROJECT.json`.

| Run | Bounds | Shows |
|---|---|---|
| `ipc_calls` | 2 users; five workloads, none of which bounds the calls: nothing called after power-on; `GET_TICKS` and one `EXIT`; `EXCUTE` with every slot taken, beside `GET_TICKS`; `OPEN` and `CLOSE`; one user with `EXCUTE`, `OPEN`, `CLOSE` and all servers | `BootSettles`: in every order of first runs and interrupts driver and system task reach their loops, and the file system does unless it was preempted inside its first call; `CallAnswered`: every call comes to an end, a refused `EXCUTE` too, but for replies lost as in `ipc_lost`; `SenderQueued`, `FifoOnce` (refines `SysQueue`), `ReplyOwed`, `KernelUp` |
| `ipc_exec` | 2 users; one starts a program (1 call), the other closes and exits (2 calls) | type and table invariants, `SlotKept`, `QueuesEnd`, `QueuedHasMessage`, `DeadMemory`, `ReceiverStays`, and `ExitFromUser`, on which five theorems depend |
| `ipc_lost` | 2 users that call nothing; power-on | violation of "nobody's sending msg" (`ipc.cpp:214`): preempted between send and receive, the file system waits for a reply that stands in its own queue |
| `ipc_spin` | 2 users with two calls to the file system each; booted | violation of "check for dead lock" (`ipc.cpp:61`): an entry that is not the head stays in the queue of the file system, against "we should remove it from the queue" (`ipc.cpp:187`), the file system replies to itself, and `deadlock()` never returns |
| `kbd_keys` | ring of 2, six keys of every sequence length, two held at a time; a typist who does not wait and one who never overruns the ring | of the first `RingShape` and `RingQueue` (refines `BoundedFifo`), of the second `KeysInOrder` (refines `KeyStream`) and `DecoderReturns` |
| `kbd_nest` | ring of 3, keys `a` and `up`, two handlers at a time, never more codes than room | violation of "the handler just save received scan code" (`kbd.cpp:207`) |
| `fs_files` | 3 slots, 2 clients with 2 files each, 6 names; odd clusters end two files, one stands inside a file | `HeldFile`, `ReadPrefix`, `LostByExit` |
| `fs_odd` | as `fs_files`, the long file in clusters 2, 3, 4 | violation of "set next cluster" (`fat12.cpp:139`): the walk goes from 3 to 64 |
| `tty_out` | 2 consoles of 7 cells, screens of 2 lines of 2 cells; 8 keys; a process on each console prints without limit | `CursorInConsole`, `OwnCells`, `ScrollEnds`, `ShowsCurrent`, `EchoedFirst`, `OutCharReturns` |
| `flpy_read` | 2 cylinders, 2 heads, 3 sectors to a track, 2 attempts; reads without limit | `PhasesAgree`, `DeviceSet`, `RightSector`, `NoneLeftOver`, and `AnsweredOrLost`: a request is never answered only if its interrupt came between the two steps of `msg_receive()` |
| `pmm_load` | 12 frames in words of 4, 3 of them no memory; programs of 3 frames that give back 6; 2 slots | `SystemKept`, `ImageStartsFree` |
| `pmm_first` | 24 frames, 3 slots | violation of "find the first free bit" (`pmm.cpp:32`): the buffer a program is read to is part of the image it is copied to |

`ipc_lost`, `ipc_spin` and `flpy_read` do not check deadlock: their
users run out of calls, the kernel loops, or the driver waits for an interrupt that
was lost, and that is all the system then does.

**Why the bounds are enough.** Ipc: two users and three servers give a queue of
two entries with a third party, an interrupt, an exit and a slot that is reused
while its old owner is still replied to - every pair of processes that can share
an entry, and the three-process cases through the system task, which is client
and server at once. Ticks are unbounded in every run, and calls in all but
`ipc_exec` and `ipc_spin`. `SenderQueued`, `ReplyOwed`, `KernelUp`
(`ipc_calls`), `QueuedHasMessage` and `ExitFromUser` (`ipc_exec`) are properties of
the kernel under the workload of their run, as the comment of each says, and not
of the kernel under every program. The first three need a file system that has
one client at a time, none before it has booted: with two clients entries whose
message is gone stay in its queue, and two calls of each are enough for the
kernel to loop for ever (`ipc_spin`). Keyboard: a ring of two can
be empty, full, wrapped and in between, and is shorter
than the sequences, so the decoder is always in the middle of one; two nested
handlers need a ring of three to go wrong with room left. File system:
three slots for four possible descriptors give a full table; a file of three
clusters with a rest makes the loop, the last sector and the end of the chain all
happen, and a file of four whose second is odd leaves its chain. Terminal: a console of seven cells with lines of two holds a first screen
and one to scroll to and ends in the middle of a line, as a real one does (5461
cells, 68 lines of 80 and a rest); `sys_printx()` can come between any two steps of the
terminal task and again at the next, so any number of processes print between
two accesses. Floppy: two cylinders are needed to miss one, two attempts to fail
once and then succeed or fail for good; three sectors make the last sector of a
track differ from its neighbour. Page frames: words of four frames give every
position of a bit in its word, the sign bit included, and a memory of several
words; programs give back twice what they take, which is past the end of the map
for some and not for others. `pmm_first` needs a larger map because the bits
tested are those of the word number, and the first word for which they miss a
frame in use is a later one.

**Fairness.** `ipc_calls`: weak fairness
of the clock and of the controller's interrupt: neither ever stops. Strong
fairness of the steps of the servers, of their replies and of a user's receive: a
tick interval is far longer than any of these steps, so a process that gets the
processor again and again does take its step; without it ticks alone could pass
the processor around for ever. The separate clauses for the replies say that a
request takes a bounded number of sectors and commands. Nothing makes a user call.
`kbd_keys`: a handler that has begun ends; the terminal task never blocks and so
is run again and again while no handler is active; the keyboard sends the codes
on the line when there is room for them. `tty_out`: a call of `sys_printx()` goes on
until it returns (weak fairness), and the terminal task, which is ready all the
time, gets the processor between the prints of others (strong fairness, as each
print disables it). `flpy_read`: the driver runs when it can, the controller ends
what it does, a raised interrupt is taken; nothing makes the file system ask.

**The sweep.** `CallAnswered` holds *because* of the misnamed mask in
`schedule()`: the reply to a process that exited blocks the system task in a
send, and only the sweep takes it out again. Replacing the mask by the one its
name suggests (the mutant `NoSweep`) wedges the system task at the first exit;
the reply to `EXIT` would have to go as well.

**What a read delivers.** `ReadPrefix` is about prefixes on purpose, in two ways.
The table entry of an odd cluster comes out right only if it is the last of its
file (`fs_odd`), so the property follows a read up to and with the first odd
cluster inside a file; on a disk of consecutive clusters that is one or two
sectors. And a read may be short: `fs.cpp:191` tests
`file_table[i].eof` with `i` the number of the sector and not the descriptor, so
an unrelated file that was read to its end cuts a read short although `READ`
returns the full length. A file of two clusters or more, opened in slot 1 after
the file in slot 0 was read to its end, gets its first
cluster only. The model has this behaviour and no property is about it: nothing
in the repository says what a read returns.

## Proofs

All theorems hold for every value of the constants, under the assumptions named
in the modules (`IpcAssumption`, `KbdAssumption`, `FsAssumption`, `TtyAssumption`,
`FlpyAssumption`, `PmmAssumption`), which the runs evaluate for their instances.

**IpcProofs.** Any number of users, any workload. The steps are grouped by the
parts of the table they write - a delivery, an append, a wait, a taking, a pass
of `schedule()` - and each lemma is about one group.

- `TypeCorrect`: `TypeOK`; inductive by itself.
- `RunnerNeverBlocked` is the part of `RunnerReady` that holds without any
  assumption: every call that blocks the running process ends in `schedule()`,
  and no other step sets a blocking flag of the running process. The others build
  on it.
- `WaitsNamed`: `WaitNamed`, under `[]ExitFromUser`. Strengthened by the fact
  that a process that accepts messages from anybody is a server: a server is
  never freed, so its entry never is free with `ANY_TASK` left over.
- `RunnerKeepsSlot`: `RunnerReady`, under the same assumption: the system task
  frees user slots only and is itself running when it does.
- `SlotStaysFree`: `SlotKept`, under the same assumption. A free slot is not that
  of the running process (`RunnerReady`), so nobody sends or receives in it, the
  sweep does not touch `FREE_SLOT`, and only `ExecDone` starts a slot
  (`FreeStays`).
- `ReceiversWait`: `ReceiverStays`, an action property, under the same assumption.
  `SENDING` and `RECEIVING` are different flags, and the sweep drops the first;
  the start of a program clears the flags of a slot that is free, by `SlotKept`.
- `ExitedIsLeftAlone`: `DeadMemory`, under the same assumption. A step writes to
  the buffers of the running process, of a receiver, and to the cell at address
  zero of the flat image, which belongs to the terminal task (`OnlyWritten`); a
  free slot is none of these, by the two theorems above and `FreesUsers`.

`ExitFromUser` is an assumption of the last five. It depends on the contents of
messages in flight, hence on who is replied to. `ipc_exec` checks it for its
workload and `QueueProofs` proves it for short calls.

**QueueProofs.** Any number of users. The theorems but the last are about `Spec`,
from power-on and with every order of first runs, under the assumption
`ShortCalls`: the user processes call `GET_TICKS` and `EXIT` only, in any order and
any number. This is not a convenience: with other calls some of the properties
are false of the code. When TLC starts from power-on with two users and no bound
on calls, one user process that calls the file system (`CLOSE`) while it boots is
enough to violate `SenderQueued`, `ReplyOwed`, `QueuedHasMessage` and `KernelUp`:
the file system, preempted between its send and its receive, has a client in its
queue before the driver's reply arrives; the reply is then not the head, the
walk of `msg_receive()` does not find it (`ipc_spin`), and an entry stays whose
message is gone. `EXCUTE` and `EXIT` together violate these and `ExitFromUser`, in
the same way. (`EXCUTE` with `GET_TICKS` violates nothing there, and is not
covered by the proof.) The runs `ipc_calls` and `ipc_exec` check the properties for
such calls from the state after boot, where their bounds keep the file system out
of that situation.

- The servers that have clients here are the system task, with the user
  processes, and the driver, with the file system: two *desks*. A state is good
  (`Good`) if there is for each desk a sequence `q` of processes without repetition
  that its linked list spells (`Linked`), and if with these sequences
  `ClientInv`, `DeskInv` and `PartOK` hold: a client stands in the queue, or is
  served, or its reply waits in its own queue or has been copied, and at each
  of these places flags, `p_sendto`, `p_recvfrom`, `p_msg` and the program counter
  say so - except `SENDING`, which the sweep may have taken from it. That is the
  strengthening needed: who is replied to follows from the requests
  that are held, and who may be appended from who stands where.
- Each call of the kernel has a lemma that says what it does to the processes
  (`Delivered`, `Queued`, `Taking`, `Awaited`), and each of the four calls a
  client or a desk makes has two, for the two ways it ends (`CallDelivered`,
  `CallQueued`, `AnswerTaken`, `AnswerAwaited`, ...). `Compose` and `PartFrame`
  frame the rest. `LinkAppend` and `LinkTail` are the two operations on the list,
  `NoSpin` says that the walk of `deadlock()` ends at its first hop.
- `QueueStates`: `IInv` = `TypeOK` and `Good`. From it `ServesOn` (`KernelUp`),
  `ExitsAreUsers` (`ExitFromUser`), `SendersStandInQueue` (`SenderQueued`),
  `QueuedMessagesStay` (`QueuedHasMessage`), `WalksEnd` (`QueuesEnd`: the chain that
  begins at an entry is the rest of a sequence, which is not longer than the
  table), `RepliesAreOwed` (`ReplyOwed`), and `SlotsAreSafe`, the five theorems of
  `IpcProofs` without their assumption.
- `QueueIsFifo`: `ForeverSpec => FifoOnce`, the refinement of `SysQueue`. Every step
  does to the sequence of the system task one of the things `FifoStep` lists;
  in a good state `QueueOf`, which reads the linked list, gives the sequence
  (`QueueRead`); and the four things are the actions of `SysQueue` (`MapsTo`). The
  theorem has no assumption: in the workload for which the mapping shows the
  queue the users make short calls, and `BootedInit` is a good state; in the
  others the mapping shows an empty queue.

`Good` asks for two sequences, so no run evaluates it; TLC checks the
properties it implies.

**KbdProofs.** Any ring size, any set of keys.

- `TypeCorrect`: `TypeOK`, for any depth of nesting: the reader's pointer never
  leaves the ring.
- `RingStays`: `RingShape` with one handler at a time. `RingShape` speaks of
  states without a handler; `RingInv` adds what holds before each instruction
  (`p_head` one ahead of `count` between store and count, possibly equal to
  `KB_IN_BYTES` before the wrap). `MaxNest = 1` is needed: `kbd_nest` shows the
  ring go wrong with two.
- `RingIsQueue`: `RingQueue`, that the ring implements `BoundedFifo`. The queue is
  the window of `count` codes from `p_tail` on, and the code of a handler that has
  found room counts as queued, so that the arrival is the interrupt itself and the
  seven steps of the handler are stutters (`HandlerHides`). `CodeInv` says that the
  code is in the handler's register, and then behind the window. `WindowGrows`,
  `WindowShrinks` and `WindowApart` are the facts about windows that go round the
  end of the ring.

**FsProofs.** Any table, disk, directory and set of clients.

- `TypeCorrect`, `DescriptorsKeepFile` (`HeldFile`), `OnlyExitLoses`
  (`LostByExit`). The invariant is `TableInv` = `TypeOK`, `HeldFile`, that a read
  in progress belongs to a held descriptor, and that a length a client knows is
  that of its file. The last two are needed because a read holds a copy of the
  descriptor from one sector to the next.
- `ReadsFollowChain`: `ReadPrefix`, on every disk. `EvenNext` and `OddLast` are the
  arithmetic of the packed table, `NextOf` joins them: the next cluster is right
  unless the code goes `Astray`. `WalkInv` adds what an induction over the sectors
  needs: what was copied, as far as it is right, and the cluster that follows are
  clusters of the disk (`Along`), and a read counts up to the number of whole
  sectors of its file.

**TtyProofs.** Any number of consoles, any size of screen, line and console that
`TtyAssumption` allows. The part of it that matters says that no screen, begun on
a line, ends exactly where its console ends: with a cursor behind the last cell
the scroll loop would then not end. `CanScrollDown` is therefore true of every
start address whose screen has the cursor below it.

- `TypeCorrect`, `CursorStays` (`CursorInConsole`), `LettersInConsole`
  (`OwnCells`), `ScrollLoopEnds` (`ScrollEnds`). The invariant is `CellInv`:
  `TypeOK` and the cursors; `StartsOnLine`, that a start address is a whole number
  of lines into its console; `AllPlaced`, what an activation knows at each step of
  the register it holds; `RoomForOne`, that while the task is about to write a
  letter the cursor is not behind the last cell; and `KernelFresh`, that an
  activation in the kernel, unlike that of the task, still sees the cursor it
  read. `RoomForOne` is what makes the interrupted task safe: a process that
  prints stops one cell before the end, and the task adds at most the one it
  tested for.
- `EchoInTime` (`EchoedFirst`), by `Quiet`: only the ring of the console shown ever
  holds a character, at most one, and only when the task is about to echo it.
- `DisplayShows` (`ShowsCurrent`), by `ShowInv`, which follows the two writes of
  `flush()` and says that `sys_printx()` flushes only for the console shown.

**FlpyPaths, FlpyProofs.** Any geometry of the disk (1 to 255 sectors to a
track, up to 256 cylinders: the registers are bytes), any number of attempts, any
requests, any movement of the head.

- `ChsNamesSector`: `flpydsk_lba_to_chs()` gives a sector of the disk, and the one
  that has the number asked for.
- A *label* (`Label`) is what the driver can know of the device between two of its
  operations: what the controller is doing and how many bytes of a command it has,
  how many interrupts are left to be sensed, whether `cyl` is the cylinder the
  controller reports, motor and gate, channel, and what the driver is after.
  `Steps(k, o, n)` says that operation `o` is allowed at label `k` and leads to
  `n`; `Path(s, k, n)` that the list `s` does. `InstallGoes`, `SeekGoes`,
  `CalibrateGoes` and `FoundGoes` show of every list the driver ever puts into
  `todo` that it is a path; they say nothing of states, only of lists.
- `Inductive`: `IInv` = `Types` and `Tracked`: there is a path of `todo` from a
  label to rest, and the device is as that label says (`Match`). Where a label
  says that the controller is busy, it either works and has everything it needs
  (`Working`) or has ended and its interrupt is raised or announced, once
  (`Ended`). Each action goes one step along the path; `Sought` and `Calibrated`
  choose the next one.
- `TypeCorrect` (`TypeOK`), `InStepWithController` (`PhasesAgree`),
  `ControllerProvided` (`DeviceSet`), `AnswerIsRight` (`RightSector`),
  `NothingPending` (`NoneLeftOver`) follow from `IInv` alone.

`IInv` asks for a label and a path among infinitely many, so TLC cannot evaluate
it; the five properties it is for are those of `flpy_read`. Proving it showed that
the model of the controller had been ambiguous: one `CASE` chose between
collecting a byte of a command and executing it with guards that overlapped, which
TLC takes in order and TLA+ does not.

**PmmProofs.** Any memory, any word size that divides the frames of the system,
any program size but one frame.

- `TypeCorrect`, `SystemFramesKept` (`SystemKept`): the searches skip a word that
  is full (`WordFull`), and the words of the system are; `WordBelow` is the
  arithmetic of that, `FoundPastSystem` the consequence. It is the *only*
  protection the system has: everything else about the search is wrong, and
  `do_exit()` spares the system because it frees upwards from an image past it.
- `ProgramStartsFree` (`ImageStartsFree`): the search for several frames tests
  the first of them for itself.

**Model-checked only.** Liveness (`BootSettles`, `CallAnswered`,
`DecoderReturns`, `OutCharReturns`, `AnsweredOrLost`), which the prover cannot do,
and the refinement `KeysInOrder`. With calls other than the short ones also
`SenderQueued`, `ReplyOwed`, `QueuesEnd`, `QueuedHasMessage`, `KernelUp` and
`ExitFromUser`, each for the workload of its run only: `SenderQueued`, `ReplyOwed`
and `KernelUp` in `ipc_calls`, where one user at a time is a client of the file
system, because entries of that queue can be lost by the wrong walk.

## Not modelled

- `fork()`: declared, handled by `do_fork()`, defined nowhere, so no process can
  send `FORK`.
- Register frames, `_save()`/`restart()`, TSS, descriptor tables: the models take
  the context switch for correct.
- Names: `to_dos_filename()`, paths with a backslash, and the address in
  `fs.cpp:177`, where the untranslated `filename` is opened though a translated
  copy was made two lines earlier.
- Empty files (no first cluster), `WRITE` (does nothing), mounting.
- The range checks of a descriptor in `fsys_do_read()`, `fsys_get_file_len()` and
  `fsys_do_close()` (`fs.cpp:186`, `207`, `215`): a client of `Fs` uses the
  descriptors it holds, and the refusal changes no state.
- Formatting of numbers and text, colours, exceptions (print and halt), the
  virtual memory manager (never called, and with it the allocation of a single
  frame), the boot code in assembler.
- Errors of the medium: the driver drops the seven status bytes of a read
  (`flpy.cpp:320`), so there is nothing in the code that could tell. Requests of
  the driver other than `DEV_READ` do nothing; the delay after a change of the
  motor is a busy loop.
- The masks of the interrupt controllers. They change twice, when the terminal
  task and the driver call `enable_irq()` at their start; if a clock tick falls
  between its read and its write (`klib.cpp:38`) the line the other task enabled
  is masked again. The models start with both lines enabled.
- The boot-time output of the terminals other than its result: `init_tty()` has
  run when `Tty` begins, and `disp_pos`, from which the first cursor is computed,
  is never set in the code.
- Contents of frames. The map itself lies at 0x200000 (`main.cpp:47`), in the first
  frame past the two megabytes that are reserved, which is the first frame given
  to a program: `Pmm` assumes that programs do not write to it. An image at the null pointer, which a failed allocation
  gives (`sys.cpp:173`), is in `Pmm` a base of 0 and nothing else.

## Plan

Order: what every other part rests on first.

1. Done: `Ipc` with `SysQueue`; `Kbd` with `BoundedFifo` and `KeyStream`; `Fs`;
   `Tty`; `Flpy`; `Pmm`; theorems on each of them.
2. `Sys`: the life cycle of a slot composed from the system task of `Ipc` and
   `Pmm`; so far the two share only the entry and exit of a program.
3. Pure functions against reference definitions: the number formatting of
   `stdio.cpp`, `to_dos_filename()`.

Theorems worth proving next: `QueuesEnd` for all calls, for which the queue links
need an ordering that survives the wrong walk; `EXCUTE` with `GET_TICKS`, which
makes the system task a client of the file system and the file system a desk with
one client; `KeysInOrder`.
