-------------------------------- MODULE Ipc --------------------------------
(***************************************************************************)
(* The process table of the kernel: rendezvous message passing             *)
(* (msg_send, msg_receive, inform_int), the round-robin scheduler, and the *)
(* programs that drive them - the system task, the floppy driver, the file *)
(* system and the user processes.                                          *)
(*                                                                         *)
(* One processor.  A system call runs to its end before another process    *)
(* can run (a clock interrupt that nests in it returns without calling     *)
(* schedule()), so each call is one step; between two calls a clock tick   *)
(* may hand the processor to anybody.  The floppy interrupt falls between  *)
(* two calls here.                                                         *)
(***************************************************************************)
EXTENDS Integers, FiniteSets

CONSTANTS
  NrUsers,      \* user slots of proc_table (NR_PROCS in the source)
  NrNative,     \* of these, the processes init_proc() starts
  Calls         \* the request types the program in each user slot issues

(***************************************************************************)
(* Layout of proc_table and the marks kept in it.                          *)
(***************************************************************************)
NR_TASKS  == 4
TASK_TTY  == 0
TASK_SYS  == 1
TASK_FLPY == 2
TASK_FS   == 3
NrProcs   == NR_TASKS + NrUsers
Proc      == 0 .. (NrProcs - 1)
User      == NR_TASKS .. (NrProcs - 1)
Server    == {TASK_SYS, TASK_FLPY, TASK_FS}

INTERRUPT == -10                \* proc.h: the source of a HARD_INT message
NIL       == -1                 \* a null PROCESS pointer
ANY_TASK  == NrProcs + 10
NO_TASK   == NrProcs + 20
WILD      == -99                \* a source field read from memory nobody wrote

SENDING   == "SENDING"
RECEIVING == "RECEIVING"
FREE_SLOT == "FREE_SLOT"
Flag      == {SENDING, RECEIVING, FREE_SLOT}

(* DEV_READ is the only request the driver gets; NONE is the zero that     *)
(* memset leaves and JUNK a type field read from memory nobody wrote.      *)
SysCall   == {"GET_TICKS", "EXIT", "EXCUTE"}
FsCall    == {"OPEN", "SIZE", "READ", "CLOSE"}
MsgType   == SysCall \cup FsCall \cup {"DEV_READ", "HARD_INT", "NONE", "JUNK"}
Source    == Proc \cup {INTERRUPT, WILD}
Message   == [source : Source, type : MsgType]
Zeroed    == [source |-> 0, type |-> "NONE"]
Junk      == [source |-> WILD, type |-> "JUNK"]

(* A p_msg pointer names the buffer it points to: the one a server's main  *)
(* loop receives into, the local of a library stub, or address zero.       *)
Buf       == {"main", "call", "null"}
Pc        == {"boot", "run", "recv", "loop", "serve", "work", "irq", "reply",
              "open", "size", "read", "close", "done"}

ASSUME IpcAssumption ==
  /\ NrUsers \in Nat /\ NrNative \in 0 .. NrUsers
  /\ Calls \in [User -> SUBSET (SysCall \cup FsCall)]

VARIABLES
  p_proc_ready,   \* the process that runs when the kernel returns
  p_flags,        \* per process: a set of flags, {} when it may run
  p_msg,          \* per process: the buffer its pending call names
  p_recvfrom,     \* per process: whom it waits for
  p_sendto,       \* per process: whom it sends to
  has_int_msg,    \* per process: an interrupt arrived while it was busy
  q_sending,      \* per process: head of the queue of its senders
  next_sending,   \* per process: its successor in the queue it stands in
  p_base,         \* per process: TRUE when it has an image of its own
  mem,            \* per process: the contents of its message buffers
  pc,             \* per process: where its program stands
  child_pid,      \* the local of do_excute(): the slot it has chosen
  irq,            \* the floppy controller will raise its interrupt
  kernel          \* "up", "looping" (a call that never ends), "corrupt"

tableVars == <<p_msg, p_recvfrom, p_sendto, has_int_msg, q_sending,
               next_sending, p_base, mem>>
vars == <<p_proc_ready, p_flags, p_msg, p_recvfrom, p_sendto, has_int_msg,
          q_sending, next_sending, p_base, mem, pc, child_pid, irq, kernel>>

(***************************************************************************)
(* The scheduler.  From the entry after p_proc_ready on, it drops the flag *)
(* SENDING of every entry it passes that waits for nobody (the mask it     *)
(* names RECEIVE is 2, the value of SENDING), and stops at the first entry *)
(* with no flag left.                                                      *)
(***************************************************************************)
At(k) == (p_proc_ready + k) % NrProcs

\* Mutants: no sweep; a sweep that asks nobody whom it waits for.
NoSweep(f, rf, p)  == f[p]
SweepAll(f, rf, p) == f[p] \ {SENDING, RECEIVING}

Swept(f, rf, p) == IF rf[p] = NO_TASK THEN f[p] \ {SENDING} ELSE f[p]

\* Mutant: the next entry runs, whatever its flags say.
RunNext(f, rf) == p_proc_ready' = At(1) /\ p_flags' = f

schedule(f, rf) ==
  \E k \in 1 .. NrProcs :
     /\ Swept(f, rf, At(k)) = {}
     /\ \A j \in 1 .. (k - 1) : Swept(f, rf, At(j)) # {}
     /\ p_proc_ready' = At(k)
     /\ p_flags' = [p \in Proc |-> IF \E j \in 1 .. k : At(j) = p
                                     THEN Swept(f, rf, p) ELSE f[p]]

(***************************************************************************)
(* Messages in memory.  Address zero is one cell for all the processes     *)
(* that share the flat image, and a cell of its own for the others.        *)
(***************************************************************************)
Cell(p, b) == IF b = "null" /\ ~ p_base[p] THEN TASK_TTY ELSE p

Store(m, p, b, content) == [m EXCEPT ![Cell(p, b)][b] = content]

Load(m, p, b) == m[Cell(p, b)][b]

Main(p)  == mem[p]["main"]
Asked(p) == mem[p]["call"]

(***************************************************************************)
(* Following a field of proc_table (link) from an entry on: the first      *)
(* NrProcs hops, with NIL for what follows a mark that is no process.      *)
(***************************************************************************)
Along(link, first) ==
  LET at[i \in 0 .. NrProcs] == IF i = 0 THEN first
                                ELSE IF at[i - 1] \in Proc THEN link[at[i - 1]]
                                ELSE NIL
  IN  at

(***************************************************************************)
(* deadlock(src, dest) follows p_sendto from dest while it meets senders.  *)
(* It stops at a process that is not sending or that sends to src (and the *)
(* caller ignores what it found); a chain that does neither within         *)
(* NrProcs hops is in a cycle, and the walk never ends.                    *)
(***************************************************************************)
deadlockSpins(src, dest) ==
  LET hop == Along(p_sendto, dest)
  IN  \A i \in 0 .. NrProcs :
        hop[i] \in Proc => SENDING \in p_flags[hop[i]] /\ p_sendto[hop[i]] # src

(***************************************************************************)
(* Walking next_sending from an entry: the entries met, in order.  The     *)
(* walks of msg_send and msg_receive end because no chain is a ring        *)
(* (QueuesEnd, checked below).                                             *)
(***************************************************************************)
Chain(first) == Along(next_sending, first)

OnChain(first, p) == LET c == Chain(first) IN \E i \in 0 .. NrProcs : c[i] = p

(***************************************************************************)
(* msg_send: sender s, destination d, message m in s's buffer b.           *)
(***************************************************************************)
\* Mutant: only p_recvfrom is looked at.
AnyReceiver(s, d) == p_recvfrom[d] \in {s, ANY_TASK}

Receivable(s, d) ==
  \/ RECEIVING \in p_flags[d] /\ p_recvfrom[d] = s
  \/ p_recvfrom[d] = ANY_TASK

SendSpins(s, d) ==
  /\ deadlockSpins(s, d)
  /\ kernel' = "looping"
  /\ UNCHANGED <<p_proc_ready, p_flags, tableVars>>

Deliver(s, d, b, m) ==
  /\ Receivable(s, d)
  /\ mem' = Store(Store(mem, s, b, m), d, p_msg[d], m)
  /\ p_msg' = [p_msg EXCEPT ![d] = "null"]
  /\ p_flags' = [p_flags EXCEPT ![d] = @ \ {RECEIVING}]
  /\ p_recvfrom' = [p_recvfrom EXCEPT ![d] = NO_TASK]
  /\ UNCHANGED <<p_proc_ready, p_sendto, has_int_msg, q_sending,
                 next_sending, p_base, kernel>>

\* Mutant: s gets no successor before the last entry gets s, not after.
ClearThenLink(s, d, b, m) ==
  /\ ~ Receivable(s, d)
  /\ mem' = Store(mem, s, b, m)
  /\ p_msg' = [p_msg EXCEPT ![s] = b]
  /\ p_sendto' = [p_sendto EXCEPT ![s] = d]
  /\ q_sending' = [q_sending EXCEPT ![d] = IF @ = NIL THEN s ELSE @]
  /\ \/ q_sending[d] = NIL /\ next_sending' = [next_sending EXCEPT ![s] = NIL]
     \/ \E t \in Proc :
          /\ OnChain(q_sending[d], t) /\ next_sending[t] = NIL
          /\ next_sending' = [next_sending EXCEPT ![s] = NIL, ![t] = s]
  /\ schedule([p_flags EXCEPT ![s] = @ \cup {SENDING}], p_recvfrom)
  /\ UNCHANGED <<p_recvfrom, has_int_msg, p_base, kernel>>

(* Append s to the queue of d: the last entry the walk reaches gets s as   *)
(* its successor, then s gets none.                                        *)
Enqueue(s, d, b, m) ==
  /\ ~ Receivable(s, d)
  /\ mem' = Store(mem, s, b, m)
  /\ p_msg' = [p_msg EXCEPT ![s] = b]
  /\ p_sendto' = [p_sendto EXCEPT ![s] = d]
  /\ \/ /\ q_sending[d] = NIL
        /\ q_sending' = [q_sending EXCEPT ![d] = s]
        /\ next_sending' = [next_sending EXCEPT ![s] = NIL]
     \/ /\ q_sending[d] # NIL
        /\ UNCHANGED q_sending
        /\ \E t \in Proc :
             /\ OnChain(q_sending[d], t) /\ next_sending[t] = NIL
             /\ next_sending' = [next_sending EXCEPT ![t] = s, ![s] = NIL]
  /\ schedule([p_flags EXCEPT ![s] = @ \cup {SENDING}], p_recvfrom)
  /\ UNCHANGED <<p_recvfrom, has_int_msg, p_base, kernel>>

msg_send(s, d, b, m) ==
  \/ SendSpins(s, d)
  \/ ~ deadlockSpins(s, d) /\ Deliver(s, d, b, m)
  \/ ~ deadlockSpins(s, d) /\ Enqueue(s, d, b, m)

(***************************************************************************)
(* msg_receive: receiver r wants a message from src into its buffer b,     *)
(* which holds m when the call is made.                                    *)
(***************************************************************************)
TakesInt(r, src) == has_int_msg[r] /\ src \in {ANY_TASK, INTERRUPT}

TakeInt(r, src, b) ==
  /\ TakesInt(r, src)
  /\ mem' = Store(mem, r, b, [source |-> INTERRUPT, type |-> "HARD_INT"])
  /\ has_int_msg' = [has_int_msg EXCEPT ![r] = FALSE]
  /\ UNCHANGED <<p_proc_ready, p_flags, p_msg, p_recvfrom, p_sendto,
                 q_sending, next_sending, p_base, kernel>>

(* The sender the call takes: the head of the queue for ANY_TASK, the      *)
(* named process when it is sending to r.  For INTERRUPT the code looks at *)
(* an entry before the table, which no process is.                         *)
From(r, src, f) ==
  \/ src = ANY_TASK /\ q_sending[r] = f
  \/ src = f /\ SENDING \in p_flags[f] /\ p_sendto[f] = r

\* Mutants: the head stays; its followers are dropped; a wrong null mark; the
\* link of the removed entry stays.
KeepHead(r, f)  == next_sending' = [next_sending EXCEPT ![f] = NIL] /\ UNCHANGED q_sending
DropQueue(r, f) == q_sending' = [q_sending EXCEPT ![r] = NIL] /\ UNCHANGED next_sending
WrongMark(r, f) == q_sending' = [q_sending EXCEPT ![r] = NO_TASK] /\ UNCHANGED next_sending

(* A sender that is not the head is looked for along the entries that      *)
(* follow r itself, not along r's queue; prev is the last entry seen.      *)
Unlink(r, f) ==
  IF f = q_sending[r]
    THEN /\ q_sending' = [q_sending EXCEPT ![r] = next_sending[f]]
         /\ next_sending' = [next_sending EXCEPT ![f] = NIL]
    ELSE /\ UNCHANGED q_sending
         /\ \E prev \in Proc :
              /\ OnChain(r, prev)
              /\ next_sending[prev] = IF OnChain(r, f) THEN f ELSE NIL
              /\ next_sending' = [next_sending EXCEPT
                                    ![prev] = next_sending[f], ![f] = NIL]

TakeQueued(r, src, b, m) ==
  /\ ~ TakesInt(r, src)
  /\ \E f \in Proc :
       /\ From(r, src, f)
       /\ Unlink(r, f)
       /\ mem' = Store(mem, r, b, Load(Store(mem, r, b, m), f, p_msg[f]))
       /\ p_msg' = [p_msg EXCEPT ![f] = "null"]
       /\ p_sendto' = [p_sendto EXCEPT ![f] = NO_TASK]
       /\ p_flags' = [p_flags EXCEPT ![f] = @ \ {SENDING}]
  /\ UNCHANGED <<p_proc_ready, p_recvfrom, has_int_msg, p_base, kernel>>

Await(r, src, b, m) ==
  /\ ~ TakesInt(r, src)
  /\ \A f \in Proc : ~ From(r, src, f)
  /\ mem' = Store(mem, r, b, m)
  /\ p_msg' = [p_msg EXCEPT ![r] = b]
  /\ p_recvfrom' = [p_recvfrom EXCEPT ![r] = src]
  /\ schedule([p_flags EXCEPT ![r] = @ \cup {RECEIVING}],
              [p_recvfrom EXCEPT ![r] = src])
  /\ UNCHANGED <<p_sendto, has_int_msg, q_sending, next_sending, p_base,
                 kernel>>

msg_receive(r, src, b, m) ==
  \/ TakeInt(r, src, b)
  \/ TakeQueued(r, src, b, m)
  \/ Await(r, src, b, m)

(***************************************************************************)
(* Programs.  A process acts when it is the one the kernel returned to;    *)
(* Goto moves its program counter.  A stub of the library (BOTH) sends     *)
(* from its local and then receives the answer into the same local.        *)
(***************************************************************************)
Running(p) == kernel = "up" /\ p_proc_ready = p

AtPc(p, l) == Running(p) /\ pc[p] = l

Goto(p, l) == pc' = [pc EXCEPT ![p] = l] /\ UNCHANGED <<irq, child_pid>>

ServerOf(type) == IF type \in SysCall THEN TASK_SYS
                  ELSE IF type \in FsCall THEN TASK_FS ELSE TASK_FLPY

Call(p, type) ==
  /\ msg_send(p, ServerOf(type), "call", [source |-> p, type |-> type])
  /\ Goto(p, "recv")

Answer(p, then) ==
  /\ AtPc(p, "recv")
  /\ msg_receive(p, ServerOf(Asked(p).type), "call", [Asked(p) EXCEPT !.source = p])
  /\ Goto(p, then)

(* The loop of a server: RECEIVE clears the buffer before it asks.  What a *)
(* server does between two calls touches nothing another process reads, so *)
(* it belongs to the step of the next call: Listens says from where the    *)
(* program goes on to its next RECEIVE, Handled from where to its reply.   *)
Listens(p) ==
  \/ AtPc(p, "loop")
  \/ p = TASK_FLPY /\ AtPc(p, "work") /\ Main(p).type # "DEV_READ"
  \/ p = TASK_SYS /\ AtPc(p, "serve") /\ Main(p).type \notin SysCall

Handled(p) ==
  \/ AtPc(p, "reply")
  \/ p = TASK_FS /\ (AtPc(p, "serve") \/ AtPc(p, "work"))
  \/ p = TASK_FLPY /\ AtPc(p, IF Main(p).type = "DEV_READ" THEN "work"
                                                            ELSE "serve")
  \/ p = TASK_SYS /\ AtPc(p, "serve") /\ Main(p).type = "GET_TICKS"

Listen(p) ==
  /\ Listens(p)
  /\ msg_receive(p, ANY_TASK, "main", [Zeroed EXCEPT !.source = p])
  /\ Goto(p, "serve")

\* Mutant: the loop goes on with the message it has answered.
ReplyServe(p) ==
  /\ Handled(p)
  /\ Main(p).source \in Proc
  /\ msg_send(p, Main(p).source, "main", [Main(p) EXCEPT !.source = p])
  /\ Goto(p, "serve")

Reply(p) ==
  /\ Handled(p)
  /\ Main(p).source \in Proc
  /\ msg_send(p, Main(p).source, "main", [Main(p) EXCEPT !.source = p])
  /\ Goto(p, "loop")

(* A reply to a source that is no process writes outside proc_table.       *)
ReplyOutside(p) ==
  /\ Handled(p)
  /\ Main(p).source \notin Proc
  /\ kernel' = "corrupt"
  /\ UNCHANGED <<p_proc_ready, p_flags, tableVars, pc, irq, child_pid>>

Quiet == UNCHANGED <<p_proc_ready, p_msg, p_recvfrom, p_sendto, has_int_msg,
                     q_sending, next_sending, mem, kernel>>

(***************************************************************************)
(* User programs call the library in any order.                            *)
(***************************************************************************)
UserSend(p) ==
  /\ AtPc(p, "run")
  /\ \E type \in Calls[p] : Call(p, type)

UserRecv(p) == Answer(p, "run")

(***************************************************************************)
(* The system task.  do_exit frees the caller's slot and the task then     *)
(* answers it all the same; do_excute takes the first free slot, keeps its *)
(* number in child_pid while it reads the image through the file system,   *)
(* starts that slot and answers.                                           *)
(***************************************************************************)
Free(p) == p_flags[p] = {FREE_SLOT}

FirstFree(p) == Free(p) /\ \A q \in Proc : Free(q) => p <= q

do_exit ==
  /\ AtPc(TASK_SYS, "serve") /\ Main(TASK_SYS).type = "EXIT"
  /\ p_flags' = [p_flags EXCEPT ![Main(TASK_SYS).source] = {FREE_SLOT}]
  /\ Goto(TASK_SYS, "reply")
  /\ Quiet /\ UNCHANGED p_base

\* Mutant: the early return leaves out the answer.
RefuseSilently ==
  /\ AtPc(TASK_SYS, "serve") /\ Main(TASK_SYS).type = "EXCUTE"
  /\ \A p \in Proc : ~ Free(p)
  /\ Goto(TASK_SYS, "loop")
  /\ Quiet /\ UNCHANGED <<p_flags, p_base>>

ExecRefused ==
  /\ AtPc(TASK_SYS, "serve") /\ Main(TASK_SYS).type = "EXCUTE"
  /\ \A p \in Proc : ~ Free(p)
  /\ Goto(TASK_SYS, "reply")
  /\ Quiet /\ UNCHANGED <<p_flags, p_base>>

\* Mutant: the entry of the caller is copied to the slot, flags included.
CopyEntry ==
  /\ AtPc(TASK_SYS, "serve") /\ Main(TASK_SYS).type = "EXCUTE"
  /\ \E child \in Proc :
       /\ FirstFree(child)
       /\ child_pid' = child
       /\ p_base' = [p_base EXCEPT ![child] = TRUE]
       /\ p_flags' = [p_flags EXCEPT ![child] = p_flags[Main(TASK_SYS).source]]
  /\ pc' = [pc EXCEPT ![TASK_SYS] = "open"]
  /\ Quiet /\ UNCHANGED irq

ExecStart ==
  /\ AtPc(TASK_SYS, "serve") /\ Main(TASK_SYS).type = "EXCUTE"
  /\ \E child \in Proc :
       /\ FirstFree(child)
       /\ child_pid' = child
       /\ p_base' = [p_base EXCEPT ![child] = TRUE]
  /\ pc' = [pc EXCEPT ![TASK_SYS] = "open"]
  /\ Quiet /\ UNCHANGED <<p_flags, irq>>

ExecCall ==
  \/ AtPc(TASK_SYS, "open")  /\ Call(TASK_SYS, "OPEN")
  \/ AtPc(TASK_SYS, "size")  /\ Call(TASK_SYS, "SIZE")
  \/ AtPc(TASK_SYS, "read")  /\ Call(TASK_SYS, "READ")
  \/ AtPc(TASK_SYS, "close") /\ Call(TASK_SYS, "CLOSE")

ExecAnswer ==
  LET asked == Asked(TASK_SYS).type
  IN  \/ asked = "OPEN"  /\ Answer(TASK_SYS, "size")
      \/ asked = "OPEN"  /\ Answer(TASK_SYS, "reply")
      \/ asked = "SIZE"  /\ Answer(TASK_SYS, "read")
      \/ asked = "READ"  /\ Answer(TASK_SYS, "close")
      \/ asked = "CLOSE" /\ Answer(TASK_SYS, "done")

ExecDone ==
  /\ AtPc(TASK_SYS, "done")
  /\ p_flags' = [p_flags EXCEPT ![child_pid] = {}]
  /\ pc' = [pc EXCEPT ![child_pid] = "run", ![TASK_SYS] = "reply"]
  /\ Quiet /\ UNCHANGED <<p_base, irq, child_pid>>

(***************************************************************************)
(* The file system reads one sector when it mounts, and any number of      *)
(* sectors for an OPEN or a READ.                                          *)
(***************************************************************************)
DiskCall == {"OPEN", "READ"}

FsCallDisk ==
  /\ \/ AtPc(TASK_FS, "boot") \/ AtPc(TASK_FS, "work")
     \/ AtPc(TASK_FS, "serve") /\ Main(TASK_FS).type \in DiskCall
  /\ Call(TASK_FS, "DEV_READ")

FsAnswer == Answer(TASK_FS, IF Main(TASK_FS).type \in DiskCall
                              THEN "work" ELSE "loop")

(***************************************************************************)
(* The floppy driver gives the controller one or more commands when it     *)
(* boots and for each DEV_READ, and after each waits for the interrupt.    *)
(***************************************************************************)
FlpyCommand ==
  /\ \/ AtPc(TASK_FLPY, "boot") \/ AtPc(TASK_FLPY, "work")
     \/ AtPc(TASK_FLPY, "serve") /\ Main(TASK_FLPY).type = "DEV_READ"
  /\ irq' = TRUE
  /\ pc' = [pc EXCEPT ![TASK_FLPY] = "irq"]
  /\ Quiet /\ UNCHANGED <<p_flags, p_base, child_pid>>

flpydsk_wait_irq ==
  /\ AtPc(TASK_FLPY, "irq")
  /\ msg_receive(TASK_FLPY, INTERRUPT, "call", [Zeroed EXCEPT !.source = TASK_FLPY])
  /\ Goto(TASK_FLPY, "work")

(***************************************************************************)
(* Interrupts between two calls.                                           *)
(***************************************************************************)
Tick ==
  /\ kernel = "up"
  /\ schedule(p_flags, p_recvfrom)
  /\ UNCHANGED <<tableVars, pc, child_pid, irq, kernel>>

\* Mutant: an interrupt that finds the driver busy is forgotten.
LostInt(t) ==
  /\ UNCHANGED <<has_int_msg, mem, p_msg, p_recvfrom>>
  /\ p_flags' = [p_flags EXCEPT ![t] = @ \ {RECEIVING}]

inform_int(t) ==
  \/ /\ RECEIVING \in p_flags[t] /\ p_recvfrom[t] \in {INTERRUPT, ANY_TASK}
     /\ mem' = Store(mem, t, p_msg[t],
                     [source |-> INTERRUPT, type |-> "HARD_INT"])
     /\ p_msg' = [p_msg EXCEPT ![t] = "null"]
     /\ has_int_msg' = [has_int_msg EXCEPT ![t] = FALSE]
     /\ p_flags' = [p_flags EXCEPT ![t] = @ \ {RECEIVING}]
     /\ p_recvfrom' = [p_recvfrom EXCEPT ![t] = NO_TASK]
  \/ /\ ~ (RECEIVING \in p_flags[t] /\ p_recvfrom[t] \in {INTERRUPT, ANY_TASK})
     /\ has_int_msg' = [has_int_msg EXCEPT ![t] = TRUE]
     /\ UNCHANGED <<mem, p_msg, p_flags, p_recvfrom>>

FloppyIrq ==
  /\ kernel = "up" /\ irq
  /\ irq' = FALSE
  /\ inform_int(TASK_FLPY)
  /\ UNCHANGED <<p_proc_ready, p_sendto, q_sending, next_sending, p_base, pc,
                 child_pid, kernel>>

(***************************************************************************)
(* What init_proc() and the BSS leave.  p_recvfrom and p_sendto start as 0 *)
(* (TASK_TTY), not as NO_TASK.                                             *)
(***************************************************************************)
Started == 0 .. (NR_TASKS + NrNative - 1)

Init ==
  /\ p_proc_ready = TASK_TTY
  /\ p_flags = [p \in Proc |-> IF p \in Started THEN {} ELSE {FREE_SLOT}]
  /\ p_msg = [p \in Proc |-> "null"]
  /\ p_recvfrom = [p \in Proc |-> 0]
  /\ p_sendto = [p \in Proc |-> 0]
  /\ has_int_msg = [p \in Proc |-> FALSE]
  /\ q_sending = [p \in Proc |-> NIL]
  /\ next_sending = [p \in Proc |-> NIL]
  /\ p_base = [p \in Proc |-> FALSE]
  /\ mem = [p \in Proc |-> [b \in Buf |-> IF b = "null" THEN Junk ELSE Zeroed]]
  /\ pc = [p \in Proc |-> IF p \in {TASK_FS, TASK_FLPY} THEN "boot"
                           ELSE IF p = TASK_SYS THEN "loop" ELSE "run"]
  /\ child_pid = NIL
  /\ irq = FALSE
  /\ kernel = "up"

SysStep  == Listen(TASK_SYS) \/ do_exit \/ ExecRefused \/ ExecStart \/ ExecCall
              \/ ExecAnswer \/ ExecDone \/ Reply(TASK_SYS) \/ ReplyOutside(TASK_SYS)
FsStep   == Listen(TASK_FS) \/ FsCallDisk \/ FsAnswer \/ Reply(TASK_FS)
              \/ ReplyOutside(TASK_FS)
FlpyStep == Listen(TASK_FLPY) \/ FlpyCommand \/ flpydsk_wait_irq \/ Reply(TASK_FLPY)
              \/ ReplyOutside(TASK_FLPY)
UserStep(p) == UserSend(p) \/ UserRecv(p)

Next == Tick \/ FloppyIrq \/ SysStep \/ FsStep \/ FlpyStep
          \/ \E p \in User : UserStep(p)

Spec == Init /\ [][Next]_vars

(***************************************************************************)
(* Properties.                                                             *)
(***************************************************************************)

\* Every variable keeps the shape the C structures give it.
TypeOK ==
  /\ p_proc_ready \in Proc
  /\ p_flags \in [Proc -> SUBSET Flag]
  /\ p_msg \in [Proc -> Buf]
  /\ p_recvfrom \in [Proc -> Proc \cup {INTERRUPT, ANY_TASK, NO_TASK}]
  /\ p_sendto \in [Proc -> Proc \cup {NO_TASK}]
  /\ has_int_msg \in [Proc -> BOOLEAN]
  /\ q_sending \in [Proc -> Proc \cup {NIL}]
  /\ next_sending \in [Proc -> Proc \cup {NIL}]
  /\ p_base \in [Proc -> BOOLEAN]
  /\ mem \in [Proc -> [Buf -> Message]]
  /\ pc \in [Proc -> Pc]
  /\ child_pid \in Proc \cup {NIL}
  /\ irq \in BOOLEAN
  /\ kernel \in {"up", "looping", "corrupt"}

\* The processor is never at a process that is blocked in a call or whose slot
\* is free: schedule() stops at an entry with no flag, no call blocks the
\* running process without calling schedule(), and the system task frees
\* slots of processes that may be runnable at that moment.
RunnerReady == kernel = "up" => p_flags[p_proc_ready] = {}

\* From the moment do_excute() chooses a slot (sys.cpp:156) until it starts it
\* (sys.cpp:219) the slot stays free, over four calls to the file system in
\* which all the other processes run: nobody waits, sends or runs in the slot
\* whose flags are then overwritten.
Loading == pc[TASK_SYS] \in {"open", "recv", "size", "read", "close", "done"}

SlotKept == Loading => child_pid \in Proc /\ Free(child_pid)

\* The slot do_exit() frees is the slot of a user process.  Replies keep the
\* type of their request, so a reply to an EXIT that found its way back to
\* the system task would make it free a server.  EXIT together with file calls
\* during boot breaks it.
ExitFromUser ==
  pc[TASK_SYS] = "serve" /\ Main(TASK_SYS).type = "EXIT"
     => Main(TASK_SYS).source \in User

\* A process that waits waits for somebody, and only a waiting process
\* accepts a message from anybody.  The second half is what makes the
\* condition of msg_send() safe: it reads (A && B) || C, so C is taken for a
\* destination whose RECEIVING flag was not looked at; the first half is what
\* keeps the sweep of schedule(), which looks for NO_TASK, off a receiver.
WaitNamed ==
  \A p \in Proc :
    /\ RECEIVING \in p_flags[p] => p_recvfrom[p] # NO_TASK
    /\ p_recvfrom[p] = ANY_TASK => RECEIVING \in p_flags[p]

\* No chain of next_sending is a ring, so the walks msg_send() and
\* msg_receive() make inside the kernel end, whatever entries the sweep and
\* the wrong starting point of msg_receive()'s walk have left behind.
QueuesEnd == \A p \in Proc : Chain(p)[NrProcs] = NIL

\* A process blocked in a send stands in the queue of the process it sends
\* to: the append of msg_send() loses nobody while the queue grows, shrinks
\* and is swept.  True while the file system has one client at a time and none
\* before it has booted; otherwise the wrong walk of msg_receive() loses some.
SenderQueued ==
  \A p \in Proc : SENDING \in p_flags[p] => OnChain(q_sending[p_sendto[p]], p)

\* An entry of a server's queue is sending to that server and still holds
\* the message it was queued with, also when the sweep of schedule() let its
\* process run on in between: no server copies a message from address zero.
\* Not true of all programs: in the trace of ipc_spin an entry stays in the
\* queue of the file system after its message is gone.
QueuedHasMessage ==
  \A p \in Proc, s \in Server :
     OnChain(q_sending[s], p) => p_sendto[p] = s /\ p_msg[p] # "null"

\* A server that is about to reply replies to a process that still waits for
\* this reply, or that the system task has freed in the meantime: no request
\* is answered twice and no reply goes to a process that asked nothing.  Like
\* SenderQueued it needs a file system with one client at a time.
ReplyOwed ==
  \A s \in Server : Handled(s) =>
     LET u == Main(s).source
     IN  /\ u \in Proc
         /\ \/ pc[u] = "recv" /\ ServerOf(Asked(u).type) = s
            \/ RECEIVING \in p_flags[u] /\ p_recvfrom[u] = s
            \/ Free(u)

\* The kernel neither loops for ever in a call nor writes outside proc_table,
\* while the file system has one client at a time and none before it has
\* booted.  Two clients with two calls each are enough to break it: ipc_spin.
KernelUp == kernel = "up"

\* The memory of a process that exited is not written to before do_excute()
\* gives the slot a new image, although the system task still replies to it.
DeadMemory == [][\A p \in Proc : Free(p) => UNCHANGED mem[p]]_vars

\* A process waiting for a message goes on only when one was copied to it, or
\* because it exited; in particular no pass of schedule() resumes it.
Served(p) ==
  \/ RECEIVING \in p_flags'[p]
  \/ p_msg'[p] = "null" /\ p_recvfrom'[p] = NO_TASK
  \/ p_flags'[p] = {FREE_SLOT}

ReceiverStays ==
  [][\A p \in Proc : RECEIVING \in p_flags[p] => Served(p)]_vars

=============================================================================
