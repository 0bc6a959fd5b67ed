---------------------------- MODULE QueueProofs ----------------------------
(***************************************************************************)
(* Theorems about the queues of Ipc: who stands in them, whom the servers  *)
(* answer, and that the queue of the system task implements SysQueue, for  *)
(* every number of user slots.                                             *)
(*                                                                         *)
(* They are about short calls: the user processes ask the system task for  *)
(* GET_TICKS and EXIT, in any order and any number, while the file system  *)
(* and the driver boot.  A user process that asks the file system for      *)
(* something while that one waits for its first sector breaks the          *)
(* properties (README, Proofs), so this is where the code keeps them.      *)
(*                                                                         *)
(* The argument: a server that has clients, here called a desk, has a      *)
(* sequence q of them that its linked list spells (Linked).  The invariant *)
(* says of each client where it stands with the desk (ClientInv), of each  *)
(* desk whom it may be replying to (DeskInv), and of each program where it *)
(* may be blocked (PartOK).  Every call of the kernel by a client or a desk *)
(* preserves it, and makes a step of a queue (FifoStep).                   *)
(***************************************************************************)
EXTENDS IpcProofs, MCIpc, WellFoundedInduction, FiniteSetTheorems, SequenceTheorems

(***************************************************************************)
(* Walks along a field of proc_table.                                      *)
(***************************************************************************)

\* A set of natural numbers has a smallest one.
LEMMA Smallest ==
  ASSUME NEW T, T \subseteq Nat, T # {}
  PROVE  \E n \in T : \A k \in T : n <= k
<1>1. PICK n \in T : \A k \in T : ~ (<<k, n>> \in OpToRel(<, Nat))
  BY NatLessThanWellFounded, WFMin, Zenon
<1>2. \A k \in T : k \in Nat /\ n \in Nat
  BY <1>1
<1>3. \A k \in T : ~ (k < n)
  BY <1>1, <1>2, Zenon DEF OpToRel
<1> QED BY <1>2, <1>3

\* A recursion over the numbers up to m has a solution.
LEMMA AlongExists ==
  ASSUME NEW link, NEW first, NEW m \in Nat
  PROVE  \E f : f = [i \in 0 .. m |-> IF i = 0 THEN first
                                       ELSE IF f[i - 1] \in Proc THEN link[f[i - 1]] ELSE NIL]
<1> DEFINE Good(f, n) == f = [i \in 0 .. n |-> IF i = 0 THEN first
                                       ELSE IF f[i - 1] \in Proc THEN link[f[i - 1]] ELSE NIL]
           Bad == {n \in Nat : \A f : ~ Good(f, n)}
<1> SUFFICES ASSUME Bad # {} PROVE FALSE
  OBVIOUS
<1>1. PICK n \in Bad : \A k \in Bad : n <= k
  <2>1. Bad \subseteq Nat
    OBVIOUS
  <2> HIDE DEF Bad
  <2> QED BY <2>1, Smallest
<1>2. \A k \in Nat : k < n => k \notin Bad
  <2>1. n \in Nat
    BY <1>1
  <2> HIDE DEF Bad
  <2> QED BY <1>1, <2>1
<1>3. n # 0
  <2>1. Good([i \in 0 .. 0 |-> first], 0)
    OBVIOUS
  <2> QED BY <2>1
<1>4. PICK g : Good(g, n - 1)
  BY <1>1, <1>2, <1>3
<1> DEFINE h == [i \in 0 .. n |-> IF i = n THEN (IF g[n - 1] \in Proc THEN link[g[n - 1]] ELSE NIL) ELSE g[i]]
<1>5. \A i \in 0 .. n - 1 : h[i] = g[i]
  BY <1>1
<1>6. ASSUME NEW i \in 0 .. n
      PROVE  h[i] = IF i = 0 THEN first ELSE IF h[i - 1] \in Proc THEN link[h[i - 1]] ELSE NIL
  <2>1. CASE i = n
    BY <2>1, <1>1, <1>3, <1>5
  <2>2. CASE i # n
    <3>1. i \in 0 .. n - 1 /\ (i # 0 => i - 1 \in 0 .. n - 1)
      BY <1>1, <2>2
    <3>2. g[i] = IF i = 0 THEN first ELSE IF g[i - 1] \in Proc THEN link[g[i - 1]] ELSE NIL
      BY <1>4, <3>1
    <3> QED BY <1>5, <3>1, <3>2
  <2> QED BY <2>1, <2>2
<1>7. Good(h, n)
  BY <1>6
<1> QED BY <1>1, <1>7

\* What Along() computes.
LEMMA AlongIs ==
  ASSUME NEW link, NEW first
  PROVE  /\ Along(link, first)[0] = first
         /\ \A i \in 1 .. NrProcs :
              Along(link, first)[i] = IF Along(link, first)[i - 1] \in Proc
                                        THEN link[Along(link, first)[i - 1]] ELSE NIL
<1> DEFINE f == Along(link, first)
<1>1. f = [i \in 0 .. NrProcs |-> IF i = 0 THEN first
                                       ELSE IF f[i - 1] \in Proc THEN link[f[i - 1]] ELSE NIL]
  BY Numbers, AlongExists DEF Along
<1> HIDE DEF f
<1>2. 0 \in 0 .. NrProcs /\ \A i \in 1 .. NrProcs : i \in 0 .. NrProcs /\ i # 0
  BY Numbers
<1>3. f[0] = first
  BY <1>1, <1>2
<1>4. ASSUME NEW i \in 1 .. NrProcs
      PROVE  f[i] = IF f[i - 1] \in Proc THEN link[f[i - 1]] ELSE NIL
  BY <1>1, <1>2
<1> QED BY <1>3, <1>4 DEF f

(***************************************************************************)
(* The invariant.                                                          *)
(***************************************************************************)

\* The servers that have clients here, their clients and what these ask.
Desk == {TASK_SYS, TASK_FLPY}
Client(s) == IF s = TASK_SYS THEN User ELSE {TASK_FS}
Asks(s) == IF s = TASK_SYS THEN {"GET_TICKS", "EXIT"} ELSE {"DEV_READ"}
Request(s, c) == [source : {c}, type : Asks(s)]

\* Flag words: a process is blocked for one reason or none.
OneFlag ==
  \A p \in Proc :
    /\ p_flags[p] \in {{}, {SENDING}, {RECEIVING}, {FREE_SLOT}}
    /\ p_flags[p] = {FREE_SLOT} => p \in User

\* p stands in the sequence q.
In(q, p) == \E i \in 1 .. Len(q) : q[i] = p

\* The linked list of a server is the sequence q.
Linked(s, q) ==
  /\ \A i, j \in 1 .. Len(q) : q[i] = q[j] => i = j
  /\ q_sending[s] = IF q = <<>> THEN NIL ELSE q[1]
  /\ \A i \in 1 .. Len(q) : next_sending[q[i]] = IF i = Len(q) THEN NIL ELSE q[i + 1]

\* A client has asked s and has not got its answer: it is between its send and
\* its receive, or blocked in its receive.
Waiting(s, c) ==
  \/ pc[c] = "recv" /\ p_flags[c] \in {{}, {SENDING}}
  \/ p_flags[c] = {RECEIVING} /\ p_recvfrom[c] = s

\* The server has taken a request and not answered it yet.
Holding(s) ==
  /\ pc[s] \in {"serve", "work", "irq", "reply"}
  /\ Main(s).type \in Asks(s)

\* It is the request of c that s has taken.
Held(s, c) == Holding(s) /\ Main(s).source = c

\* A client c of s.  Its one request is in the queue, or held by s, or answered:
\* then the reply stands in the queue of c itself, or in its buffer.
ClientInv(s, c, q) ==
  /\ In(q, c) => /\ Waiting(s, c) /\ p_sendto[c] = s /\ p_msg[c] = "call"
                 /\ Asked(c) \in Request(s, c)
  /\ p_flags[c] = {SENDING} => In(q, c)
  /\ pc[c] = "recv" => p_flags[c] # {RECEIVING} /\ Asked(c) \in Request(s, c)
  /\ Held(s, c) => (Waiting(s, c) \/ Free(c)) /\ ~ In(q, c)
  /\ q_sending[c] \in {NIL, s}
  /\ q_sending[c] = s => (Waiting(s, c) \/ Free(c)) /\ ~ In(q, c) /\ ~ Held(s, c)
  /\ ~ has_int_msg[c]

\* A desk s.  It is blocked only in a reply to a client that has not received
\* yet, or in its RECEIVE with nobody in its queue.
DeskInv(s, q) ==
  /\ Holding(s) => Main(s).source \in Client(s)
  /\ p_flags[s] = {SENDING} =>
       /\ p_sendto[s] \in Client(s) /\ q_sending[p_sendto[s]] = s
       /\ p_msg[s] = "main" /\ pc[s] = "loop"
  /\ p_recvfrom[s] = ANY_TASK =>
       /\ p_flags[s] = {RECEIVING} /\ q = <<>> /\ p_msg[s] = "main"
       /\ pc[s] = "serve" /\ Main(s).type = "NONE"

\* The programs: where each may stand and what it may be blocked in.
UserOK(u) ==
  /\ pc[u] \in {"run", "recv"}
  /\ p_recvfrom[u] # ANY_TASK
  /\ p_flags[u] = {RECEIVING} => p_recvfrom[u] = TASK_SYS

SysOK ==
  /\ pc[TASK_SYS] \in {"loop", "serve", "reply"}
  /\ p_flags[TASK_SYS] = {RECEIVING} => p_recvfrom[TASK_SYS] = ANY_TASK
  /\ pc[TASK_SYS] = "serve" /\ p_flags[TASK_SYS] # {RECEIVING} => Holding(TASK_SYS)
  /\ pc[TASK_SYS] = "reply" => Holding(TASK_SYS)
  /\ ~ has_int_msg[TASK_SYS]

FlpyOK ==
  /\ pc[TASK_FLPY] \in {"boot", "irq", "work", "loop", "serve"}
  /\ pc[TASK_FLPY] = "boot" => Main(TASK_FLPY).type = "NONE"
  /\ p_flags[TASK_FLPY] = {RECEIVING} /\ p_recvfrom[TASK_FLPY] # ANY_TASK =>
       p_recvfrom[TASK_FLPY] = INTERRUPT /\ pc[TASK_FLPY] = "work" /\ p_msg[TASK_FLPY] = "call"
  /\ pc[TASK_FLPY] = "serve" /\ p_flags[TASK_FLPY] # {RECEIVING} => Holding(TASK_FLPY)
  /\ IF pc[TASK_FLPY] = "irq" THEN irq # has_int_msg[TASK_FLPY]
     ELSE ~ has_int_msg[TASK_FLPY] /\ irq = (p_flags[TASK_FLPY] = {RECEIVING} /\ pc[TASK_FLPY] = "work")
  /\ q_sending[TASK_FS] = TASK_FLPY =>
       p_sendto[TASK_FLPY] = TASK_FS /\ p_msg[TASK_FLPY] = "main" /\ pc[TASK_FLPY] \in {"loop", "serve"}

FsOK ==
  /\ pc[TASK_FS] \in {"boot", "recv", "loop", "serve"}
  /\ p_flags[TASK_FS] = {RECEIVING} =>
       \/ /\ pc[TASK_FS] = "loop" /\ p_recvfrom[TASK_FS] = TASK_FLPY
          /\ p_msg[TASK_FS] # "main"
       \/ pc[TASK_FS] = "serve" /\ p_recvfrom[TASK_FS] = ANY_TASK
  /\ p_recvfrom[TASK_FS] = ANY_TASK => p_flags[TASK_FS] = {RECEIVING}
  /\ pc[TASK_FS] = "serve" => p_flags[TASK_FS] = {RECEIVING}
  /\ Main(TASK_FS).type = "NONE"

TtyOK == p_flags[TASK_TTY] = {} /\ p_recvfrom[TASK_TTY] # ANY_TASK

\* The processor is at a process with no flag.
Runner == p_proc_ready \in Proc /\ p_flags[p_proc_ready] = {}

\* The flag words a process can have.
FlagWord == {{}, {SENDING}, {RECEIVING}, {FREE_SLOT}}

\* One process, all the processes.
PartOK(p) ==
  /\ p_flags[p] \in FlagWord
  /\ Free(p) => p \in User
  /\ p \in User => UserOK(p)
  /\ p = TASK_SYS => SysOK
  /\ p = TASK_FLPY => FlpyOK
  /\ p = TASK_FS => FsOK
  /\ p = TASK_TTY => TtyOK

Table == kernel = "up" /\ Runner /\ \A p \in Proc : PartOK(p)

\* One desk, the entries that stand in no queue of a desk, all the queues.
DeskOK(s, q) ==
  /\ Linked(s, q) /\ DeskInv(s, q)
  /\ \A i \in 1 .. Len(q) : q[i] \in Client(s)
  /\ \A c \in Client(s) : ClientInv(s, c, q)

Apart(q) ==
  \A p \in Proc : (\A s \in Desk : ~ In(q[s], p)) => next_sending[p] = NIL

Queues(q) == (\A s \in Desk : DeskOK(s, q[s])) /\ Apart(q)

\* The invariant.
Good == Table /\ \E q \in [Desk -> Seq(Proc)] : Queues(q)

IInv == TypeOK /\ Good

(***************************************************************************)
(* What each call of the kernel does to the processes, on the invariant.   *)
(***************************************************************************)

\* A pass of schedule() may take a sender out of its wait.
Lets(f, p) == \/ p_flags'[p] = f[p]
              \/ f[p] = {SENDING} /\ p_flags'[p] = {}

\* Nothing of a process changes, but that it may be let out of a send.
Same(p) ==
  /\ pc'[p] = pc[p] /\ p_recvfrom'[p] = p_recvfrom[p] /\ p_sendto'[p] = p_sendto[p]
  /\ p_msg'[p] = p_msg[p] /\ has_int_msg'[p] = has_int_msg[p]
  /\ Main(p)' = Main(p) /\ Asked(p)' = Asked(p)
  /\ Lets(p_flags, p)

\* The table has no other flag words.
LEMMA OneReason ==
  ASSUME Table
  PROVE  OneFlag
BY DEF Table, PartOK, OneFlag, FlagWord, Free

\* The flags are three different ones.
LEMMA FlagsDiffer == SENDING # RECEIVING /\ SENDING # FREE_SLOT /\ RECEIVING # FREE_SLOT
BY DEF SENDING, RECEIVING, FREE_SLOT

\* A pass of schedule() ends at a process with no flag and lets senders go.
LEMMA ScheduleFlags ==
  ASSUME p_proc_ready \in Proc, NEW f \in [Proc -> SUBSET Flag], NEW rf, schedule(f, rf)
  PROVE  /\ p_proc_ready' \in Proc /\ p_flags'[p_proc_ready'] = {}
         /\ \A p \in Proc : f[p] \in FlagWord => Lets(f, p)
<1>1. /\ p_proc_ready' \in Proc /\ p_flags'[p_proc_ready'] = {}
      /\ \A p \in Proc : p_flags'[p] \in {f[p], f[p] \ {SENDING}}
  BY ScheduleSelects
<1>2. ASSUME NEW p \in Proc, f[p] \in FlagWord PROVE Lets(f, p)
  <2>1. /\ {SENDING} \ {SENDING} = {} /\ {} \ {SENDING} = {}
        /\ {RECEIVING} \ {SENDING} = {RECEIVING} /\ {FREE_SLOT} \ {SENDING} = {FREE_SLOT}
    BY FlagsDiffer
  <2> QED BY <1>1, <1>2, <2>1 DEF FlagWord, Lets
<1> QED BY <1>1, <1>2

\* n is m with x in buffer b of p.
Put(m, n, p, b, x) ==
  \A z \in Proc : \A c \in {"main", "call"} :
    n[z][c] = IF z = p /\ b = c THEN x ELSE m[z][c]

\* A store into a buffer puts it there; a store at address zero into none.
LEMMA StoreCell ==
  ASSUME NEW m \in [Proc -> [Buf -> Message]], NEW p \in Proc, NEW b \in Buf, NEW x \in Message
  PROVE  Put(m, Store(m, p, b, x), p, b, x)
<1>1. Cell(p, b) \in Proc /\ (b # "null" => Cell(p, b) = p) /\ b \in {"main", "call", "null"}
  BY Numbers DEF Cell, Buf
<1>2. \A c \in {"main", "call"} : c \in Buf /\ b \in Buf
  BY DEF Buf
<1> QED BY <1>1, <1>2 DEF Store, Put

\* A send of x from buffer b of s that finds d receiving; s goes on at l.
Delivered(s, d, b, x, l) ==
  /\ \A p \in Proc \ {s, d} : Same(p)
  /\ pc'[s] = l /\ p_flags'[s] = p_flags[s] /\ p_recvfrom'[s] = p_recvfrom[s]
  /\ p_sendto'[s] = p_sendto[s] /\ p_msg'[s] = p_msg[s] /\ has_int_msg'[s] = has_int_msg[s]
  /\ Main(s)' = IF b = "main" THEN x ELSE Main(s)
  /\ Asked(s)' = IF b = "call" THEN x ELSE Asked(s)
  /\ pc'[d] = pc[d] /\ p_flags'[d] = p_flags[d] \ {RECEIVING} /\ p_recvfrom'[d] = NO_TASK
  /\ p_sendto'[d] = p_sendto[d] /\ p_msg'[d] = "null" /\ has_int_msg'[d] = has_int_msg[d]
  /\ Main(d)' = IF p_msg[d] = "main" THEN x ELSE Main(d)
  /\ Asked(d)' = IF p_msg[d] = "call" THEN x ELSE Asked(d)
  /\ UNCHANGED <<q_sending, next_sending, kernel, p_proc_ready>>
  /\ Receivable(s, d)

\* Deliver() does that.
LEMMA DeliverEffect ==
  ASSUME TypeOK, NEW s \in Proc, NEW d \in Proc, s # d, NEW b \in {"main", "call"}, NEW x \in Message,
         Deliver(s, d, b, x), NEW l, pc' = [pc EXCEPT ![s] = l]
  PROVE  Delivered(s, d, b, x, l)
<1> USE DEF TypeOK
<1>1. ASSUME NEW z \in Proc, NEW c \in {"main", "call"}
      PROVE  mem'[z][c] = IF z = d /\ p_msg[d] = c THEN x ELSE IF z = s /\ b = c THEN x ELSE mem[z][c]
  <2>1. b \in Buf /\ p_msg[d] \in Buf
    BY DEF Buf
  <2> DEFINE m == Store(mem, s, b, x)
  <2>2. m \in [Proc -> [Buf -> Message]] /\ Put(mem, m, s, b, x)
    BY <2>1, StoreType, StoreCell
  <2>3. mem' = Store(m, d, p_msg[d], x)
    BY DEF Deliver
  <2> HIDE DEF m
  <2>4. Put(m, mem', d, p_msg[d], x)
    BY <2>1, <2>2, <2>3, StoreCell
  <2> QED BY <2>2, <2>4 DEF Put
<1>2. ASSUME NEW p \in Proc \ {s, d} PROVE Same(p)
  <2>1. Main(p)' = Main(p) /\ Asked(p)' = Asked(p)
    BY <1>1 DEF Main, Asked
  <2> QED BY <2>1 DEF Same, Lets, Deliver
<1>3. /\ Main(s)' = (IF b = "main" THEN x ELSE Main(s)) /\ Asked(s)' = (IF b = "call" THEN x ELSE Asked(s))
      /\ Main(d)' = (IF p_msg[d] = "main" THEN x ELSE Main(d))
      /\ Asked(d)' = (IF p_msg[d] = "call" THEN x ELSE Asked(d))
  BY <1>1 DEF Main, Asked
<1> QED BY <1>2, <1>3 DEF Deliver, Delivered

\* A send that finds d busy: s is blocked, or let go by the sweep at once.
Queued(s, d, b, x, l) ==
  /\ \A p \in Proc \ {s} : Same(p)
  /\ pc'[s] = l /\ p_flags'[s] \in {{}, {SENDING}} /\ p_recvfrom'[s] = p_recvfrom[s]
  /\ p_sendto'[s] = d /\ p_msg'[s] = b /\ has_int_msg'[s] = has_int_msg[s]
  /\ Main(s)' = IF b = "main" THEN x ELSE Main(s)
  /\ Asked(s)' = IF b = "call" THEN x ELSE Asked(s)
  /\ Runner' /\ UNCHANGED kernel

\* Enqueue() does that.
LEMMA EnqueueEffect ==
  ASSUME TypeOK, OneFlag, NEW s \in Proc, NEW d \in Proc, NEW b \in {"main", "call"}, NEW x \in Message,
         Enqueue(s, d, b, x), p_flags[s] = {}, NEW l, pc' = [pc EXCEPT ![s] = l]
  PROVE  Queued(s, d, b, x, l)
<1> USE DEF TypeOK
<1> DEFINE f == [p_flags EXCEPT ![s] = @ \cup {SENDING}]
<1>1. Put(mem, mem', s, b, x)
  <2>1. b \in Buf /\ mem' = Store(mem, s, b, x) /\ mem \in [Proc -> [Buf -> Message]]
    BY DEF Enqueue, Buf
  <2> QED BY <2>1, StoreCell
<1>2. f \in [Proc -> SUBSET Flag] /\ f[s] = {SENDING} /\ \A p \in Proc \ {s} : f[p] = p_flags[p]
  BY DEF Flag
<1>3. /\ p_proc_ready' \in Proc /\ p_flags'[p_proc_ready'] = {}
      /\ \A p \in Proc : f[p] \in FlagWord => Lets(f, p)
  <2>1. schedule(f, p_recvfrom) /\ p_proc_ready \in Proc
    BY DEF Enqueue
  <2> HIDE DEF f
  <2> QED BY <1>2, <2>1, ScheduleFlags
<1>4. \A p \in Proc : f[p] \in FlagWord
  BY <1>2 DEF OneFlag, FlagWord
<1> HIDE DEF f
<1>5. ASSUME NEW p \in Proc \ {s} PROVE Same(p)
  <2>1. Lets(p_flags, p)
    BY <1>2, <1>3, <1>4 DEF Lets
  <2>2. Main(p)' = Main(p) /\ Asked(p)' = Asked(p)
    BY <1>1 DEF Put, Main, Asked
  <2> QED BY <2>1, <2>2 DEF Same, Enqueue
<1>6. p_flags'[s] \in {{}, {SENDING}}
  BY <1>2, <1>3, <1>4 DEF Lets
<1>7. /\ Main(s)' = (IF b = "main" THEN x ELSE Main(s))
      /\ Asked(s)' = (IF b = "call" THEN x ELSE Asked(s))
  BY <1>1 DEF Put, Main, Asked
<1> QED BY <1>3, <1>5, <1>6, <1>7 DEF Enqueue, Runner, Queued

\* A receive of r into buffer b that takes the message of the sender f.
Taking(r, f, b, l) ==
  /\ \A p \in Proc \ {r, f} : Same(p)
  /\ pc'[r] = l /\ p_flags'[r] = p_flags[r] /\ p_recvfrom'[r] = p_recvfrom[r]
  /\ p_sendto'[r] = p_sendto[r] /\ p_msg'[r] = p_msg[r] /\ has_int_msg'[r] = has_int_msg[r]
  /\ Main(r)' = IF b = "main" THEN mem[f][p_msg[f]] ELSE Main(r)
  /\ Asked(r)' = IF b = "call" THEN mem[f][p_msg[f]] ELSE Asked(r)
  /\ pc'[f] = pc[f] /\ Lets(p_flags, f) /\ p_flags'[f] # {SENDING}
  /\ p_recvfrom'[f] = p_recvfrom[f] /\ p_sendto'[f] = NO_TASK /\ p_msg'[f] = "null"
  /\ has_int_msg'[f] = has_int_msg[f] /\ Main(f)' = Main(f) /\ Asked(f)' = Asked(f)

\* TakeQueued() does that with the sender it has found.
LEMMA TakeEffect ==
  ASSUME TypeOK, OneFlag, NEW r \in Proc, NEW f \in Proc, f # r, NEW b \in {"main", "call"},
         NEW x \in Message, p_msg[f] \in {"main", "call"},
         mem' = Store(mem, r, b, Load(Store(mem, r, b, x), f, p_msg[f])),
         p_msg' = [p_msg EXCEPT ![f] = "null"],
         p_sendto' = [p_sendto EXCEPT ![f] = NO_TASK],
         p_flags' = [p_flags EXCEPT ![f] = @ \ {SENDING}],
         UNCHANGED <<p_proc_ready, p_recvfrom, has_int_msg>>,
         NEW l, pc' = [pc EXCEPT ![r] = l]
  PROVE  Taking(r, f, b, l)
<1> USE DEF TypeOK
<1>1. Put(mem, mem', r, b, mem[f][p_msg[f]])
  <2> DEFINE m == Store(mem, r, b, x)
  <2>1. b \in Buf /\ p_msg[f] \in Buf /\ mem \in [Proc -> [Buf -> Message]]
    BY DEF Buf
  <2>2. m \in [Proc -> [Buf -> Message]] /\ Put(mem, m, r, b, x)
    BY <2>1, StoreType, StoreCell
  <2>3. mem' = Store(mem, r, b, Load(m, f, p_msg[f]))
    OBVIOUS
  <2> HIDE DEF m
  <2>4. Load(m, f, p_msg[f]) = mem[f][p_msg[f]]
    <3>1. Load(m, f, p_msg[f]) = m[f][p_msg[f]]
      BY <2>2 DEF Load, Cell
    <3> QED BY <2>2, <3>1 DEF Put
  <2>5. mem[f][p_msg[f]] \in Message
    BY <2>1
  <2> QED BY <2>1, <2>3, <2>4, <2>5, StoreCell
<1>2. ASSUME NEW p \in Proc \ {r, f} PROVE Same(p)
  <2>1. Main(p)' = Main(p) /\ Asked(p)' = Asked(p)
    BY <1>1 DEF Put, Main, Asked
  <2> QED BY <2>1 DEF Same, Lets
<1>3. /\ Main(r)' = (IF b = "main" THEN mem[f][p_msg[f]] ELSE Main(r))
      /\ Asked(r)' = (IF b = "call" THEN mem[f][p_msg[f]] ELSE Asked(r))
      /\ Main(f)' = Main(f) /\ Asked(f)' = Asked(f)
  BY <1>1 DEF Put, Main, Asked
<1>4. Lets(p_flags, f) /\ p_flags'[f] # {SENDING}
  <2>1. p_flags'[f] = p_flags[f] \ {SENDING}
    OBVIOUS
  <2> QED BY <2>1, FlagsDiffer DEF OneFlag, Lets
<1> QED BY <1>2, <1>3, <1>4 DEF Taking

\* A receive of r that finds no message from src: r is blocked.
Awaited(r, src, b, x, l) ==
  /\ \A p \in Proc \ {r} : Same(p)
  /\ pc'[r] = l /\ p_flags'[r] = {RECEIVING} /\ p_recvfrom'[r] = src
  /\ p_sendto'[r] = p_sendto[r] /\ p_msg'[r] = b /\ has_int_msg'[r] = has_int_msg[r]
  /\ Main(r)' = IF b = "main" THEN x ELSE Main(r)
  /\ Asked(r)' = IF b = "call" THEN x ELSE Asked(r)
  /\ Runner' /\ UNCHANGED <<kernel, q_sending, next_sending>>

\* Await() does that.
LEMMA AwaitEffect ==
  ASSUME TypeOK, OneFlag, NEW r \in Proc, NEW src, NEW b \in {"main", "call"}, NEW x \in Message,
         Await(r, src, b, x), p_flags[r] = {}, NEW l, pc' = [pc EXCEPT ![r] = l]
  PROVE  Awaited(r, src, b, x, l)
<1> USE DEF TypeOK
<1> DEFINE f == [p_flags EXCEPT ![r] = @ \cup {RECEIVING}]
<1>1. Put(mem, mem', r, b, x)
  <2>1. b \in Buf /\ mem' = Store(mem, r, b, x) /\ mem \in [Proc -> [Buf -> Message]]
    BY DEF Await, Buf
  <2> QED BY <2>1, StoreCell
<1>2. f \in [Proc -> SUBSET Flag] /\ f[r] = {RECEIVING} /\ \A p \in Proc \ {r} : f[p] = p_flags[p]
  BY DEF Flag
<1>3. /\ p_proc_ready' \in Proc /\ p_flags'[p_proc_ready'] = {}
      /\ \A p \in Proc : f[p] \in FlagWord => Lets(f, p)
  <2>1. schedule(f, [p_recvfrom EXCEPT ![r] = src]) /\ p_proc_ready \in Proc
    BY DEF Await
  <2> HIDE DEF f
  <2> QED BY <1>2, <2>1, ScheduleFlags
<1>4. \A p \in Proc : f[p] \in FlagWord
  BY <1>2 DEF OneFlag, FlagWord
<1> HIDE DEF f
<1>5. ASSUME NEW p \in Proc \ {r} PROVE Same(p)
  <2>1. Lets(p_flags, p)
    BY <1>2, <1>3, <1>4 DEF Lets
  <2>2. Main(p)' = Main(p) /\ Asked(p)' = Asked(p)
    BY <1>1 DEF Put, Main, Asked
  <2> QED BY <2>1, <2>2 DEF Same, Await
<1>6. p_flags'[r] = {RECEIVING}
  BY <1>2, <1>3, <1>4, FlagsDiffer DEF Lets
<1>7. /\ Main(r)' = (IF b = "main" THEN x ELSE Main(r))
      /\ Asked(r)' = (IF b = "call" THEN x ELSE Asked(r))
  BY <1>1 DEF Put, Main, Asked
<1> QED BY <1>3, <1>5, <1>6, <1>7 DEF Await, Runner, Awaited

(***************************************************************************)
(* The linked list of a server.                                            *)
(***************************************************************************)

\* The desks and their clients are different processes.
LEMMA Parties ==
  /\ Desk \subseteq Proc /\ Desk \subseteq Server
  /\ \A s \in Desk : Client(s) \subseteq Proc /\ s \notin Client(s) /\ TASK_TTY \notin Client(s)
  /\ \A s, o \in Desk : s # o => Client(s) \cap Client(o) = {} /\ o \notin Client(s)
  /\ TASK_TTY \notin Desk /\ TASK_FS \notin Desk /\ TASK_FS \notin User
  /\ Client(TASK_SYS) = User /\ Client(TASK_FLPY) = {TASK_FS}
  /\ TASK_SYS # TASK_FLPY /\ TASK_FS \in Proc /\ TASK_TTY \in Proc
  /\ TASK_TTY \notin User /\ TASK_TTY # TASK_FS
BY IpcAssumption DEF Desk, Client, Proc, NrProcs, User, Server, NR_TASKS, TASK_SYS, TASK_FS,
     TASK_FLPY, TASK_TTY

\* A sequence without repetitions is not longer than the table.
LEMMA QueueFits ==
  ASSUME NEW q \in Seq(Proc), \A i, j \in 1 .. Len(q) : q[i] = q[j] => i = j
  PROVE  Len(q) <= NrProcs
<1>1. q \in Injection(1 .. Len(q), Proc)
  BY DEF Injection, IsInjective
<1>2. IsFiniteSet(Proc) /\ Cardinality(Proc) = NrProcs
  BY Numbers, FS_Interval DEF Proc
<1>3. Cardinality(1 .. Len(q)) = Len(q)
  BY FS_Interval
<1> QED BY <1>1, <1>2, <1>3, FS_Injection

\* The walk along a linked list meets the entries of the sequence, then NIL.
LEMMA ChainIs ==
  ASSUME NEW s \in Proc, NEW q \in Seq(Proc), Linked(s, q), NEW n \in 0 .. NrProcs
  PROVE  Chain(q_sending[s])[n] = IF n < Len(q) THEN q[n + 1] ELSE NIL
<1> DEFINE c == Chain(q_sending[s])
           want(i) == IF i < Len(q) THEN q[i + 1] ELSE NIL
           Bad == {i \in 0 .. NrProcs : c[i] # want(i)}
<1>1. NrProcs \in Nat /\ NIL \notin Proc /\ Len(q) \in Nat
  BY Numbers
<1>2. c[0] = q_sending[s] /\ \A i \in 1 .. NrProcs : c[i] = IF c[i - 1] \in Proc THEN next_sending[c[i - 1]] ELSE NIL
  BY AlongIs DEF Chain
<1> HIDE DEF c
<1>3. SUFFICES ASSUME Bad # {} PROVE FALSE
  BY DEF c
<1>4. PICK k \in Bad : \A i \in Bad : k <= i
  <2>1. Bad \subseteq Nat
    BY <1>1
  <2> HIDE DEF Bad
  <2> QED BY <1>3, <2>1, Smallest
<1>5. k \in 0 .. NrProcs /\ c[k] # want(k)
  BY <1>4
<1>6. CASE k = 0
  <2>1. q = <<>> <=> Len(q) = 0
    BY EmptySeq
  <2> QED BY <1>1, <1>2, <1>5, <1>6, <2>1 DEF Linked
<1>7. CASE k # 0
  <2>1. k \in 1 .. NrProcs /\ k - 1 \in 0 .. NrProcs
    BY <1>1, <1>5, <1>7
  <2>2. k - 1 \notin Bad
    <3>1. ~ (k <= k - 1)
      BY <2>1
    <3> HIDE DEF Bad
    <3> QED BY <1>4, <3>1
  <2>3. c[k - 1] = want(k - 1)
    BY <2>1, <2>2
  <2>4. CASE k - 1 < Len(q)
    <3>1. k \in 1 .. Len(q) /\ c[k - 1] = q[k] /\ q[k] \in Proc
      BY <1>1, <2>1, <2>3, <2>4
    <3>2. next_sending[q[k]] = IF k = Len(q) THEN NIL ELSE q[k + 1]
      BY <3>1 DEF Linked
    <3> QED BY <1>1, <1>2, <1>5, <2>1, <3>1, <3>2
  <2>5. CASE ~ (k - 1 < Len(q))
    BY <1>1, <1>2, <1>5, <2>1, <2>3, <2>5
  <2> QED BY <2>4, <2>5
<1> QED BY <1>6, <1>7

\* The entries the kernel meets are those of the sequence.
LEMMA OnChainIs ==
  ASSUME NEW s \in Proc, NEW q \in Seq(Proc), Linked(s, q), NEW p \in Proc
  PROVE  OnChain(q_sending[s], p) <=> In(q, p)
<1>1. NrProcs \in Nat /\ p # NIL /\ Len(q) \in Nat /\ Len(q) <= NrProcs
  BY Numbers, QueueFits DEF Linked
<1>2. \A n \in 0 .. NrProcs : Chain(q_sending[s])[n] = IF n < Len(q) THEN q[n + 1] ELSE NIL
  BY ChainIs
<1>3. ASSUME NEW n \in 0 .. NrProcs, Chain(q_sending[s])[n] = p PROVE In(q, p)
  <2>1. n < Len(q) /\ q[n + 1] = p
    BY <1>1, <1>2, <1>3
  <2> QED BY <1>1, <2>1 DEF In
<1>4. ASSUME NEW i \in 1 .. Len(q), q[i] = p PROVE \E n \in 0 .. NrProcs : Chain(q_sending[s])[n] = p
  <2>1. i - 1 \in 0 .. NrProcs /\ i - 1 < Len(q) /\ (i - 1) + 1 = i
    BY <1>1
  <2> QED BY <1>2, <1>4, <2>1
<1> QED BY <1>3, <1>4 DEF OnChain, In

\* The entry an append is made to is the last one.
LEMMA LinkAppend ==
  ASSUME TypeOK, NEW s \in Proc, NEW q \in Seq(Proc), Linked(s, q), NEW c \in Proc, ~ In(q, c),
         NEW b, NEW x, Enqueue(c, s, b, x)
  PROVE  /\ Linked(s, Append(q, c))'
         /\ \A p \in Proc : p # s => q_sending'[p] = q_sending[p]
         /\ \A p \in Proc : p # c /\ ~ In(q, p) => next_sending'[p] = next_sending[p]
         /\ next_sending'[c] = NIL
<1> USE DEF TypeOK
<1> DEFINE n == Len(q)
<1>1. n \in Nat /\ Append(q, c) \in Seq(Proc) /\ Len(Append(q, c)) = n + 1 /\ Append(q, c) # <<>>
      /\ \A i \in 1 .. n : Append(q, c)[i] = q[i] /\ q[i] \in Proc /\ q[i] # c
      /\ Append(q, c)[n + 1] = c
  <2>1. n \in Nat /\ \A i \in 1 .. n : q[i] \in Proc
    OBVIOUS
  <2>2. Append(q, c) \in Seq(Proc) /\ Len(Append(q, c)) = n + 1 /\ Append(q, c)[n + 1] = c
    OBVIOUS
  <2>3. \A i \in 1 .. n : Append(q, c)[i] = q[i]
    OBVIOUS
  <2>4. \A i \in 1 .. n : q[i] # c
    BY DEF In
  <2>5. Append(q, c) # <<>>
    BY <2>1, <2>2, EmptySeq
  <2> QED BY <2>1, <2>2, <2>3, <2>4, <2>5
<1>2. \A i, j \in 1 .. n + 1 : Append(q, c)[i] = Append(q, c)[j] => i = j
  <2>1. \A i, j \in 1 .. n : q[i] = q[j] => i = j
    BY DEF Linked
  <2>2. \A i \in 1 .. n + 1 : i \in 1 .. n \/ i = n + 1
    BY <1>1
  <2> QED BY <1>1, <2>1, <2>2
<1>3. CASE q_sending[s] = NIL
  <2>1. q = <<>> /\ n = 0
    <3>1. q # <<>> => q_sending[s] = q[1] /\ q[1] \in Proc
      BY EmptySeq DEF Linked
    <3> QED BY <1>3, <3>1, Numbers
  <2>2. /\ q_sending' = [q_sending EXCEPT ![s] = c]
        /\ next_sending' = [next_sending EXCEPT ![c] = NIL]
    BY <1>3 DEF Enqueue
  <2> QED BY <1>1, <1>2, <2>1, <2>2 DEF Linked
<1>4. CASE q_sending[s] # NIL
  <2>1. PICK t \in Proc :
          /\ OnChain(q_sending[s], t) /\ next_sending[t] = NIL
          /\ next_sending' = [next_sending EXCEPT ![t] = c, ![c] = NIL]
    BY <1>4 DEF Enqueue
  <2>2. UNCHANGED q_sending
    BY <1>4 DEF Enqueue
  <2>3. PICK k \in 1 .. n : q[k] = t
    BY <2>1, OnChainIs DEF In
  <2>4. k = n
    <3>1. next_sending[t] = IF k = n THEN NIL ELSE q[k + 1]
      BY <2>3 DEF Linked
    <3>2. k # n => q[k + 1] \in Proc
      BY <1>1
    <3> QED BY <2>1, <3>1, <3>2, Numbers
  <2>5. q # <<>> /\ Append(q, c)[1] = q[1]
    BY <1>1, <2>3
  <2>6. q_sending'[s] = Append(q, c)[1]
    BY <2>2, <2>5 DEF Linked
  <2>7. ASSUME NEW i \in 1 .. n + 1
        PROVE  next_sending'[Append(q, c)[i]] = IF i = n + 1 THEN NIL ELSE Append(q, c)[i + 1]
    <3>1. CASE i = n + 1
      BY <1>1, <2>1, <3>1
    <3>2. CASE i = n
      BY <1>1, <2>1, <2>3, <2>4, <3>2
    <3>3. CASE i < n
      <4>1. q[i] # t /\ q[i] # c /\ q[i] \in Proc
        BY <1>1, <2>3, <2>4, <3>3 DEF Linked
      <4>2. next_sending[q[i]] = q[i + 1] /\ i + 1 \in 1 .. n /\ i \in 1 .. n
        BY <1>1, <3>3 DEF Linked
      <4> QED BY <1>1, <2>1, <4>1, <4>2
    <3> QED BY <1>1, <3>1, <3>2, <3>3
  <2>8. Linked(s, Append(q, c))'
    BY <1>1, <1>2, <2>6, <2>7 DEF Linked
  <2>9. t # c /\ \A p \in Proc : ~ In(q, p) => p # t
    BY <2>3 DEF In
  <2> QED BY <2>1, <2>2, <2>8, <2>9
<1> QED BY <1>3, <1>4

\* Taking the head leaves the rest.
LEMMA LinkTail ==
  ASSUME TypeOK, NEW s \in Proc, NEW q \in Seq(Proc), Linked(s, q), q # <<>>,
         q_sending' = [q_sending EXCEPT ![s] = next_sending[q[1]]],
         next_sending' = [next_sending EXCEPT ![q[1]] = NIL]
  PROVE  /\ Tail(q) \in Seq(Proc) /\ Linked(s, Tail(q))'
         /\ \A p \in Proc : In(Tail(q), p) <=> In(q, p) /\ p # q[1]
<1> USE DEF TypeOK
<1> DEFINE n == Len(q)
           t == Tail(q)
<1>1. n \in Nat \ {0} /\ q[1] \in Proc
  BY EmptySeq
<1>2. t \in Seq(Proc) /\ Len(t) = n - 1 /\ \A i \in 1 .. n - 1 : t[i] = q[i + 1] /\ q[i + 1] \in Proc
  BY <1>1
<1> HIDE DEF t
<1>3. \A i, j \in 1 .. n : q[i] = q[j] => i = j
  BY DEF Linked
<1>a. 1 \in 1 .. n /\ \A i \in 1 .. n - 1 : i + 1 \in 1 .. n /\ i + 1 # 1
  BY <1>1
<1>4. ASSUME NEW i \in 1 .. n - 1, NEW j \in 1 .. n - 1, t[i] = t[j] PROVE i = j
  <2>1. i + 1 = j + 1
    BY <1>2, <1>3, <1>4, <1>a
  <2> QED BY <2>1
<1>5. ASSUME NEW i \in 1 .. n - 1 PROVE t[i] # q[1]
  BY <1>2, <1>3, <1>a
<1>6. q_sending'[s] = IF t = <<>> THEN NIL ELSE t[1]
  <2>1. next_sending[q[1]] = IF n = 1 THEN NIL ELSE q[2]
    <3>1. 1 + 1 = 2
      OBVIOUS
    <3> QED BY <1>a, <3>1 DEF Linked
  <2>2. t = <<>> <=> n = 1
    <3>1. t = <<>> <=> Len(t) = 0
      BY <1>2, EmptySeq
    <3> QED BY <1>1, <1>2, <3>1
  <2>3. n # 1 => t[1] = q[2]
    BY <1>1, <1>2
  <2> QED BY <2>1, <2>2, <2>3
<1>7. ASSUME NEW i \in 1 .. n - 1
      PROVE  next_sending'[t[i]] = IF i = n - 1 THEN NIL ELSE t[i + 1]
  <2>1. next_sending[q[i + 1]] = IF i + 1 = n THEN NIL ELSE q[i + 2]
    <3>1. i + 1 \in 1 .. n /\ (i + 1) + 1 = i + 2
      BY <1>1
    <3> QED BY <3>1 DEF Linked
  <2>2. next_sending'[t[i]] = next_sending[t[i]]
    BY <1>2, <1>5
  <2>3. i # n - 1 => t[i + 1] = q[i + 2]
    BY <1>1, <1>2
  <2> QED BY <1>1, <1>2, <2>1, <2>2, <2>3
<1>8. Linked(s, t)'
  BY <1>2, <1>4, <1>6, <1>7 DEF Linked
<1>9. ASSUME NEW p \in Proc PROVE In(t, p) <=> In(q, p) /\ p # q[1]
  <2>1. \A i \in 1 .. n - 1 : i + 1 \in 1 .. n
    BY <1>1
  <2>2. \A i \in 1 .. n : i # 1 => i - 1 \in 1 .. n - 1 /\ (i - 1) + 1 = i
    BY <1>1
  <2>3. In(t, p) <=> \E i \in 1 .. n - 1 : q[i + 1] = p
    BY <1>2 DEF In
  <2>4. In(q, p) /\ p # q[1] <=> \E i \in 1 .. n : q[i] = p /\ i # 1
    BY <1>3, <1>a DEF In
  <2>5. ASSUME NEW i \in 1 .. n, i # 1, q[i] = p PROVE \E j \in 1 .. n - 1 : q[j + 1] = p
    BY <2>2, <2>5
  <2> QED BY <1>a, <2>3, <2>4, <2>5
<1> QED BY <1>2, <1>8, <1>9 DEF t

(***************************************************************************)
(* What a step leaves alone.                                               *)
(***************************************************************************)

\* What the sweep does to a process keeps its reasons to wait but SENDING.
LEMMA Blocked ==
  ASSUME NEW p, Lets(p_flags, p)
  PROVE  /\ p_flags'[p] = {SENDING} => p_flags[p] = {SENDING}
         /\ p_flags[p] # {SENDING} => p_flags'[p] = p_flags[p]
         /\ p_flags'[p] = {RECEIVING} <=> p_flags[p] = {RECEIVING}
         /\ p_flags'[p] = {FREE_SLOT} <=> p_flags[p] = {FREE_SLOT}
         /\ p_flags[p] \in {{}, {SENDING}} <=> p_flags'[p] \in {{}, {SENDING}}
<1>1. {SENDING} # {RECEIVING} /\ {SENDING} # {FREE_SLOT} /\ {RECEIVING} # {} /\ {FREE_SLOT} # {}
      /\ {RECEIVING} # {FREE_SLOT} /\ {SENDING} # {}
  BY FlagsDiffer
<1> QED BY <1>1 DEF Lets

(***************************************************************************)
(* What the queue of a server promises (module SysQueue), said of the      *)
(* sequences q and t that stand in it before and after a step.             *)
(***************************************************************************)

\* The client whose request is held, and the clients that wait for an answer.
Serves(s) == IF Holding(s) THEN Main(s).source ELSE NIL

Opened(s) == {c \in Client(s) : Waiting(s, c) \/ Free(c)}

\* A client joins: an idle desk gets its request at once, a busy one in its
\* queue.
Joined(s, q, t) ==
  \E c \in Client(s) :
    /\ c \notin Opened(s) /\ Opened(s)' = Opened(s) \cup {c}
    /\ \/ q = <<>> /\ Serves(s) = NIL /\ Serves(s)' = c /\ t = q
       \/ t = Append(q, c) /\ Serves(s)' = Serves(s)

\* The desk takes the request of the head.
Took(s, q, t) ==
  /\ Serves(s) = NIL /\ q # <<>> /\ Serves(s)' = q[1] /\ t = Tail(q)
  /\ Opened(s)' = Opened(s)

\* The desk answers: the client gets it now or finds it in its queue later.
Answered(s, q, t) ==
  /\ Serves(s) # NIL /\ Serves(s)' = NIL /\ t = q
  /\ Opened(s)' \in {Opened(s), Opened(s) \ {Serves(s)}}

\* A client picks up an answer it had not received yet.
Collected(s, q, t) ==
  \E c \in Opened(s) :
    /\ c # Serves(s) /\ ~ In(q, c) /\ t = q
    /\ Opened(s)' = Opened(s) \ {c} /\ Serves(s)' = Serves(s)

\* The picture stands still.
Rests(s, q, t) == t = q /\ Serves(s)' = Serves(s) /\ Opened(s)' = Opened(s)

\* What a step may do to the queue of a desk.
FifoStep(s, q, t) ==
  Joined(s, q, t) \/ Took(s, q, t) \/ Answered(s, q, t) \/ Collected(s, q, t) \/ Rests(s, q, t)

\* The queue of the system task makes such a step.
Fifo == \E q, t \in Seq(Proc) :
          Linked(TASK_SYS, q) /\ Linked(TASK_SYS, t)' /\ FifoStep(TASK_SYS, q, t)

\* What is proved of every step.
GoodNext == Good' /\ Fifo

\* A client that nothing happens to asks as before.
LEMMA StillAsking ==
  ASSUME NEW s, NEW c, Same(c)
  PROVE  Waiting(s, c)' \/ Free(c)' <=> Waiting(s, c) \/ Free(c)
BY Blocked DEF Same, Waiting, Free

\* A step that does nothing to a server and its clients.
LEMMA FifoRests ==
  ASSUME NEW s, NEW q, Same(s), \A c \in Client(s) : Same(c)
  PROVE  FifoStep(s, q, q)
<1>1. Serves(s)' = Serves(s)
  BY DEF Serves, Holding, Same
<1>2. \A c \in Client(s) : Waiting(s, c)' \/ Free(c)' <=> Waiting(s, c) \/ Free(c)
  BY StillAsking
<1>3. Opened(s)' = Opened(s)
  BY <1>2 DEF Opened
<1> QED BY <1>1, <1>3 DEF FifoStep, Rests

\* A client that nothing happens to, when the queue keeps its place and the desk
\* takes no request of its.
LEMMA ClientFrame ==
  ASSUME NEW s, NEW c, NEW q, NEW qq, ClientInv(s, c, q), Same(c), q_sending'[c] = q_sending[c],
         In(qq, c) <=> In(q, c), Held(s, c)' => Held(s, c)
  PROVE  ClientInv(s, c, qq)'
<1>1. /\ p_flags'[c] = {SENDING} => p_flags[c] = {SENDING}
      /\ p_flags'[c] = {RECEIVING} <=> p_flags[c] = {RECEIVING}
      /\ Free(c)' <=> Free(c)
      /\ Waiting(s, c)' <=> Waiting(s, c)
  BY Blocked DEF Same, Free, Waiting
<1>2. In(qq, c)' <=> In(q, c)
  BY DEF In
<1> QED BY <1>1, <1>2 DEF ClientInv, Same

\* A desk that nothing happens to.
LEMMA DeskFrame ==
  ASSUME NEW s, NEW q, DeskInv(s, q), Same(s),
         p_flags[s] = {SENDING} => q_sending'[p_sendto[s]] = q_sending[p_sendto[s]]
  PROVE  DeskInv(s, q)'
<1>1. /\ p_flags'[s] = {SENDING} => p_flags[s] = {SENDING}
      /\ p_flags'[s] = {RECEIVING} <=> p_flags[s] = {RECEIVING}
      /\ Holding(s)' <=> Holding(s)
  BY Blocked DEF Same, Holding
<1> QED BY <1>1 DEF DeskInv, Same

\* The processes of a desk no step of which is taken.
LEMMA OtherDesk ==
  ASSUME NEW s \in Desk, NEW q \in Seq(Proc), DeskOK(s, q), Same(s), q_sending'[s] = q_sending[s],
         \A c \in Client(s) : /\ Same(c) /\ q_sending'[c] = q_sending[c]
                              /\ next_sending'[c] = next_sending[c]
  PROVE  DeskOK(s, q)'
<1>1. Linked(s, q)'
  <2>1. \A i \in 1 .. Len(q) : next_sending'[q[i]] = next_sending[q[i]]
    BY DEF DeskOK
  <2> QED BY <2>1 DEF DeskOK, Linked
<1>2. DeskInv(s, q)'
  <2>1. p_flags[s] = {SENDING} => q_sending'[p_sendto[s]] = q_sending[p_sendto[s]]
    BY DEF DeskOK, DeskInv
  <2> QED BY <2>1, DeskFrame DEF DeskOK
<1>3. Held(s, s)' => Held(s, s)
  BY DEF Held, Holding, Same
<1>4. ASSUME NEW c \in Client(s) PROVE ClientInv(s, c, q)'
  <2>1. Held(s, c)' => Held(s, c)
    BY DEF Held, Holding, Same
  <2> QED BY <2>1, ClientFrame DEF DeskOK
<1> QED BY <1>1, <1>2, <1>4 DEF DeskOK

\* A step of a desk or of one of its clients leaves the other desk alone.
LEMMA Compose ==
  ASSUME TypeOK, NEW s \in Desk, NEW c \in Client(s) \cup {s}, NEW q \in [Desk -> Seq(Proc)], Queues(q),
         NEW t \in Seq(Proc), DeskOK(s, t)',
         \A p \in Proc \ {s, c} : Same(p) /\ q_sending'[p] = q_sending[p],
         \A p \in Proc \ Client(s) : next_sending'[p] = next_sending[p],
         \A p \in Client(s) : ~ In(t, p) => next_sending'[p] = NIL
  PROVE  \E qq \in [Desk -> Seq(Proc)] : Queues(qq)'
<1> DEFINE qq == [q EXCEPT ![s] = t]
<1>1. qq \in [Desk -> Seq(Proc)] /\ qq[s] = t /\ \A o \in Desk \ {s} : qq[o] = q[o]
  OBVIOUS
<1> HIDE DEF qq
<1>2. ASSUME NEW o \in Desk PROVE DeskOK(o, qq[o])'
  <2>1. CASE o = s
    BY <1>1, <2>1
  <2>2. CASE o # s
    <3>1. o \in Proc \ {s, c} /\ \A d \in Client(o) : d \in Proc \ {s, c} /\ d \in Proc \ Client(s)
      BY <2>2, Parties
    <3>2. DeskOK(o, q[o]) /\ q[o] \in Seq(Proc)
      BY DEF Queues
    <3>3. DeskOK(o, q[o])'
      BY <3>1, <3>2, OtherDesk
    <3> QED BY <1>1, <2>2, <3>3
  <2> QED BY <2>1, <2>2
<1>3. ASSUME NEW p \in Proc, \A o \in Desk : ~ In(qq[o], p)
      PROVE  next_sending'[p] = NIL
  <2>1. CASE p \in Client(s)
    BY <1>1, <1>3, <2>1
  <2>2. CASE p \notin Client(s)
    <3>1. \A o \in Desk : ~ In(q[o], p)
      <4>1. ~ In(q[s], p)
        BY <2>2 DEF Queues, DeskOK, In
      <4> QED BY <1>1, <1>3, <4>1
    <3> QED BY <2>2, <3>1 DEF Queues, Apart
  <2> QED BY <2>1, <2>2
<1>4. Apart(qq)'
  <2>1. \A p \in Proc : \A o \in Desk : In(qq[o], p)' <=> In(qq[o], p)
    BY DEF In
  <2> QED BY <1>3, <2>1 DEF Apart
<1> QED BY <1>1, <1>2, <1>4 DEF Queues

(***************************************************************************)
(* The walk of deadlock() ends at once: nobody sends to a sender that      *)
(* sends.                                                                  *)
(***************************************************************************)
LEMMA NoSpin ==
  ASSUME TypeOK, Table, NEW q \in [Desk -> Seq(Proc)], Queues(q), NEW src,
         NEW d \in Proc, d \in Server \/ p_flags[d] # {SENDING}
  PROVE  ~ deadlockSpins(src, d)
<1> DEFINE hop == Along(p_sendto, d)
<1>1. /\ 0 \in 0 .. NrProcs /\ 1 \in 0 .. NrProcs /\ 1 \in 1 .. NrProcs
      /\ hop[0] = d /\ hop[1] = p_sendto[d]
  BY AlongIs, Numbers
<1>2. \A p \in Proc : SENDING \in p_flags[p] => p_flags[p] = {SENDING}
  BY OneReason, FlagsDiffer DEF OneFlag
<1>3. CASE p_flags[d] # {SENDING}
  BY <1>1, <1>2, <1>3 DEF deadlockSpins
<1>4. CASE p_flags[d] = {SENDING}
  <2>1. p_sendto[d] \in Proc /\ p_flags[p_sendto[d]] # {SENDING}
    <3>1. CASE d \in Desk
      <4>1. p_sendto[d] \in Client(d) /\ q_sending[p_sendto[d]] = d
        BY <1>4, <3>1 DEF Queues, DeskOK, DeskInv
      <4>2. ClientInv(d, p_sendto[d], q[d])
        BY <3>1, <4>1 DEF Queues, DeskOK
      <4> QED BY <3>1, <4>1, <4>2, Parties DEF ClientInv
    <3>2. CASE d = TASK_FS
      <4>1. ClientInv(TASK_FLPY, TASK_FS, q[TASK_FLPY]) /\ TASK_FLPY \in Desk
        BY Parties DEF Queues, DeskOK, Desk
      <4>2. p_sendto[d] = TASK_FLPY /\ In(q[TASK_FLPY], TASK_FS)
        BY <1>4, <3>2, <4>1 DEF ClientInv
      <4>3. p_flags[TASK_FLPY] # {SENDING}
        <5>1. DeskInv(TASK_FLPY, q[TASK_FLPY])
          BY <4>1 DEF Queues, DeskOK
        <5>2. p_flags[TASK_FLPY] = {SENDING} => q_sending[TASK_FS] = TASK_FLPY
          BY <5>1, Parties DEF DeskInv
        <5> QED BY <4>1, <4>2, <5>2 DEF ClientInv
      <4> QED BY <4>1, <4>2, <4>3, Parties
    <3> QED BY <1>4, <3>1, <3>2 DEF Server, Desk
  <2> QED BY <1>1, <1>2, <2>1 DEF deadlockSpins
<1> QED BY <1>3, <1>4

(***************************************************************************)
(* Putting a step together.                                                *)
(***************************************************************************)

\* A process nothing happens to stays as its program left it.
LEMMA PartFrame ==
  ASSUME NEW p \in Proc, PartOK(p), Same(p),
         p = TASK_FLPY => irq' = irq /\ q_sending'[TASK_FS] = q_sending[TASK_FS]
  PROVE  PartOK(p)'
<1>1. /\ p_flags'[p] = {SENDING} => p_flags[p] = {SENDING}
      /\ p_flags[p] # {SENDING} => p_flags'[p] = p_flags[p]
      /\ p_flags'[p] = {RECEIVING} <=> p_flags[p] = {RECEIVING}
      /\ p_flags'[p] = {FREE_SLOT} <=> p_flags[p] = {FREE_SLOT}
      /\ p_flags'[p] \in FlagWord
      /\ p = TASK_TTY => p_flags'[p] = {}
  <2>1. Lets(p_flags, p) /\ p_flags[p] \in FlagWord
    BY DEF Same, PartOK
  <2>2. p_flags'[p] \in FlagWord
    BY <2>1 DEF Lets, FlagWord
  <2>3. p = TASK_TTY => p_flags[p] = {}
    BY DEF PartOK, TtyOK
  <2>4. p = TASK_TTY => p_flags'[p] = {}
    BY <2>1, <2>3 DEF Lets
  <2> QED BY <2>1, <2>2, <2>4, Blocked
<1>2. p \in User => UserOK(p)'
  BY <1>1 DEF Same, PartOK, UserOK
<1>3. p = TASK_SYS => SysOK'
  <2>1. p = TASK_SYS => (Holding(TASK_SYS)' <=> Holding(TASK_SYS))
    BY DEF Same, Holding
  <2> QED BY <1>1, <2>1 DEF Same, PartOK, SysOK
<1>4. p = TASK_FLPY => FlpyOK'
  <2>1. p = TASK_FLPY => (Holding(TASK_FLPY)' <=> Holding(TASK_FLPY))
    BY DEF Same, Holding
  <2> QED BY <1>1, <2>1 DEF Same, PartOK, FlpyOK
<1>5. p = TASK_FS => FsOK'
  BY <1>1 DEF Same, PartOK, FsOK
<1>6. p = TASK_TTY => TtyOK'
  BY <1>1 DEF Same, PartOK, TtyOK
<1> QED BY <1>1, <1>2, <1>3, <1>4, <1>5, <1>6 DEF PartOK, Free

\* A client that stands in no queue has no successor.
LEMMA ApartClient ==
  ASSUME NEW q \in [Desk -> Seq(Proc)], Queues(q), NEW s \in Desk, NEW p \in Client(s), ~ In(q[s], p)
  PROVE  next_sending[p] = NIL
<1>1. \A o \in Desk : ~ In(q[o], p)
  BY Parties DEF Queues, DeskOK, In
<1> QED BY <1>1, Parties DEF Queues, Apart

\* Nor has a server.
LEMMA ApartServer ==
  ASSUME NEW q \in [Desk -> Seq(Proc)], Queues(q), NEW s \in Desk
  PROVE  next_sending[s] = NIL
<1>1. \A o \in Desk : ~ In(q[o], s)
  BY Parties DEF Queues, DeskOK, In
<1> QED BY <1>1, Parties DEF Queues, Apart

\* The other clients of a desk.
LEMMA OtherClients ==
  ASSUME NEW s \in Desk, NEW q, NEW t, NEW c, DeskOK(s, q),
         \A d \in Client(s) \ {c} : /\ Same(d) /\ q_sending'[d] = q_sending[d]
                                    /\ In(t, d) <=> In(q, d)
                                    /\ Held(s, d)' => Held(s, d)
  PROVE  \A d \in Client(s) \ {c} : ClientInv(s, d, t)'
BY ClientFrame DEF DeskOK

\* A step of a server s and its client c.
LEMMA Together ==
  ASSUME TypeOK, Table, NEW s \in Desk, NEW c \in Client(s) \cup {s},
         NEW q \in [Desk -> Seq(Proc)], Queues(q),
         NEW t \in Seq(Proc), \A p \in Proc : In(t, p) => p \in Client(s),
         Linked(s, t)', DeskInv(s, t)', c \in Client(s) => ClientInv(s, c, t)',
         \A d \in Client(s) \ {c} : (In(t, d) <=> In(q[s], d)) /\ (Held(s, d)' => Held(s, d)),
         \A p \in Proc \ {s, c} : Same(p) /\ q_sending'[p] = q_sending[p],
         \A p \in Proc \ Client(s) : next_sending'[p] = next_sending[p],
         \A p \in Client(s) : ~ In(t, p) => next_sending'[p] = NIL,
         s # TASK_FLPY => irq' = irq, s = TASK_SYS => FifoStep(s, q[s], t),
         kernel' = "up", Runner', PartOK(s)', PartOK(c)'
  PROVE  GoodNext
<1>1. DeskOK(s, t)'
  <2>1. \A d \in Client(s) \ {c} : ClientInv(s, d, t)'
    <3>1. \A d \in Client(s) \ {c} : Same(d) /\ q_sending'[d] = q_sending[d]
      BY Parties
    <3> QED BY <3>1, OtherClients DEF Queues
  <2>2. \A i \in 1 .. Len(t) : t[i] \in Client(s)
    BY DEF In
  <2> QED BY <2>1, <2>2 DEF DeskOK
<1>2. \E qq \in [Desk -> Seq(Proc)] : Queues(qq)'
  BY <1>1, Compose
<1>3. ASSUME NEW p \in Proc PROVE PartOK(p)'
  <2>1. CASE p \in {s, c}
    BY <2>1
  <2>2. CASE p \notin {s, c}
    <3>1. p = TASK_FLPY => s = TASK_SYS /\ TASK_FS \notin {s, c}
      BY <2>2, Parties DEF Desk
    <3>2. p = TASK_FLPY => irq' = irq /\ q_sending'[TASK_FS] = q_sending[TASK_FS]
      BY <3>1, Parties
    <3> QED BY <2>2, <3>2, PartFrame DEF Table
  <2> QED BY <2>1, <2>2
<1>4. Fifo
  <2>1. CASE s = TASK_SYS
    <3>1. q[s] \in Seq(Proc) /\ Linked(s, q[s])
      BY DEF Queues, DeskOK
    <3> QED BY <2>1, <3>1 DEF Fifo
  <2>2. CASE s # TASK_SYS
    <3>1. PICK o \in Desk : o = TASK_SYS
      BY DEF Desk
    <3>2. /\ o \in Proc \ {s, c} /\ \A d \in Client(o) : d \in Proc \ {s, c} /\ d \in Proc \ Client(s)
          /\ DeskOK(o, q[o]) /\ q[o] \in Seq(Proc)
      BY <2>2, <3>1, Parties DEF Queues
    <3>3. DeskOK(o, q[o])'
      BY <3>2, OtherDesk
    <3>4. FifoStep(o, q[o], q[o])
      BY <3>2, FifoRests
    <3> QED BY <3>1, <3>2, <3>3, <3>4 DEF Fifo, DeskOK
  <2> QED BY <2>1, <2>2
<1> QED BY <1>2, <1>3, <1>4 DEF Good, Table, GoodNext

\* A step that only lets senders go on.
LEMMA OnlySweeps ==
  ASSUME TypeOK, Good, \A p \in Proc : Same(p), UNCHANGED <<q_sending, next_sending, irq, kernel>>, Runner'
  PROVE  GoodNext
<1>1. PICK q \in [Desk -> Seq(Proc)] : Queues(q)
  BY DEF Good
<1>2. ASSUME NEW s \in Desk PROVE DeskOK(s, q[s])'
  <2>1. \A c \in Client(s) : Same(c) /\ q_sending'[c] = q_sending[c] /\ next_sending'[c] = next_sending[c]
    BY Parties
  <2>2. Same(s) /\ q_sending'[s] = q_sending[s] /\ DeskOK(s, q[s]) /\ q[s] \in Seq(Proc)
    BY <1>1, Parties DEF Queues
  <2> QED BY <2>1, <2>2, OtherDesk
<1>3. Apart(q)'
  <2>1. \A p \in Proc : \A o \in Desk : In(q[o], p)' <=> In(q[o], p)
    BY DEF In
  <2> QED BY <1>1, <2>1 DEF Queues, Apart
<1>4. \A p \in Proc : PartOK(p)'
  BY PartFrame DEF Good, Table
<1>5. Fifo
  <2>1. PICK s \in Desk : s = TASK_SYS
    BY DEF Desk
  <2>2. s \in Proc /\ Client(s) \subseteq Proc /\ DeskOK(s, q[s]) /\ q[s] \in Seq(Proc)
    BY <1>1, Parties DEF Queues
  <2>3. FifoStep(s, q[s], q[s])
    BY <2>2, FifoRests
  <2> QED BY <1>2, <2>1, <2>2, <2>3 DEF Fifo, DeskOK
<1> QED BY <1>1, <1>2, <1>3, <1>4, <1>5 DEF Good, Queues, Table, GoodNext

\* The clock.
LEMMA TickStep ==
  ASSUME TypeOK, Good, Tick
  PROVE  GoodNext
<1>1. OneFlag
  BY OneReason DEF Good
<1>2. schedule(p_flags, p_recvfrom) /\ p_proc_ready \in Proc /\ p_flags \in [Proc -> SUBSET Flag]
      /\ UNCHANGED <<p_msg, p_recvfrom, p_sendto, has_int_msg, q_sending, next_sending, mem, pc, irq, kernel>>
  BY DEF Tick, TypeOK, tableVars
<1>3. /\ p_proc_ready' \in Proc /\ p_flags'[p_proc_ready'] = {}
      /\ \A p \in Proc : p_flags[p] \in FlagWord => Lets(p_flags, p)
  BY <1>2, ScheduleFlags
<1>4. \A p \in Proc : Lets(p_flags, p)
  BY <1>1, <1>3 DEF OneFlag, FlagWord
<1>5. \A p \in Proc : Same(p)
  BY <1>2, <1>4 DEF Same, Main, Asked
<1> QED BY <1>2, <1>3, <1>5, OnlySweeps DEF Runner

\* A client whose program runs between two calls stands in no queue, its
\* request is not held, and no reply waits for it.
LEMMA Idle ==
  ASSUME NEW q \in [Desk -> Seq(Proc)], Queues(q), NEW s \in Desk, NEW c \in Client(s),
         pc[c] # "recv", p_flags[c] = {}
  PROVE  ~ In(q[s], c) /\ ~ Held(s, c) /\ q_sending[c] = NIL /\ ~ has_int_msg[c]
<1>1. ~ Waiting(s, c) /\ ~ Free(c)
  BY FlagsDiffer DEF Waiting, Free
<1> QED BY <1>1 DEF Queues, DeskOK, ClientInv

\* A client sends its request to a desk that waits for one.
LEMMA CallDelivered ==
  ASSUME TypeOK, Table, NEW q \in [Desk -> Seq(Proc)], Queues(q), NEW s \in Desk, NEW c \in Client(s),
         pc[c] \in {"run", "boot"}, p_flags[c] = {}, NEW type \in Asks(s), Runner, p_proc_ready = c,
         Deliver(c, s, "call", [source |-> c, type |-> type]),
         pc' = [pc EXCEPT ![c] = "recv"], irq' = irq
  PROVE  GoodNext
<1> DEFINE m == [source |-> c, type |-> type]
<1>1. s \in Proc /\ c \in Proc /\ c # s /\ "call" \in {"main", "call"}
  BY Parties
<1>2. m \in Message
  BY <1>1, MessagesBuilt DEF Asks, MsgType, SysCall
<1>3. ~ In(q[s], c) /\ ~ Held(s, c) /\ q_sending[c] = NIL /\ ~ has_int_msg[c]
  BY Idle
<1>4. /\ \A p \in Proc \ {c, s} : Same(p)
      /\ pc'[c] = "recv" /\ p_flags'[c] = {} /\ p_recvfrom'[c] = p_recvfrom[c]
      /\ has_int_msg'[c] = has_int_msg[c] /\ Main(c)' = Main(c) /\ Asked(c)' = m
      /\ pc'[s] = pc[s] /\ p_flags'[s] = p_flags[s] \ {RECEIVING} /\ p_recvfrom'[s] = NO_TASK
      /\ has_int_msg'[s] = has_int_msg[s]
      /\ p_sendto'[s] = p_sendto[s] /\ p_msg'[s] = "null"
      /\ Main(s)' = (IF p_msg[s] = "main" THEN m ELSE Main(s))
      /\ UNCHANGED <<q_sending, next_sending, kernel, p_proc_ready>>
      /\ Receivable(c, s)
  <2>1. Delivered(c, s, "call", m, "recv")
    BY <1>1, <1>2, DeliverEffect, Zenon
  <2> HIDE DEF m
  <2> QED BY <2>1 DEF Delivered
<1>5. DeskOK(s, q[s]) /\ q[s] \in Seq(Proc)
  BY DEF Queues
<1>6. /\ p_flags[s] = {RECEIVING} /\ q[s] = <<>> /\ p_msg[s] = "main"
      /\ pc[s] = "serve" /\ p_recvfrom[s] = ANY_TASK
  <2>1. p_recvfrom[s] = ANY_TASK
    <3>1. PartOK(s) /\ (RECEIVING \in p_flags[s] => p_flags[s] = {RECEIVING})
      BY <1>1, FlagsDiffer DEF Table, PartOK, FlagWord
    <3>2. CASE RECEIVING \in p_flags[s] /\ p_recvfrom[s] = c
      <4>1. s = TASK_SYS \/ s = TASK_FLPY
        BY DEF Desk
      <4> QED BY <1>1, <3>1, <3>2, <4>1, Numbers DEF PartOK, SysOK, FlpyOK
    <3> QED BY <1>4, <3>2 DEF Receivable
  <2> QED BY <1>5, <2>1 DEF DeskOK, DeskInv
<1>7. /\ pc'[s] = "serve" /\ p_flags'[s] = {} /\ Main(s)' = m /\ Holding(s)' /\ Held(s, c)'
      /\ \A d \in Client(s) \ {c} : ~ Held(s, d)'
  <2>1. Main(s)' = m /\ m.type = type /\ m.source = c
    BY <1>4, <1>6
  <2>2. p_flags'[s] = {}
    BY <1>4, <1>6
  <2> HIDE DEF m
  <2> QED BY <1>4, <1>6, <2>1, <2>2 DEF Holding, Held
<1>8. ClientInv(s, c, q[s])'
  <2>1. Waiting(s, c)' /\ p_flags'[c] # {SENDING}
    BY <1>4 DEF Waiting
  <2>2. Asked(c)' \in Request(s, c)
    BY <1>4 DEF Request
  <2>3. ~ In(q[s], c)' /\ q_sending'[c] = NIL
    BY <1>3, <1>4 DEF In
  <2>4. NIL # s
    BY <1>1, Numbers
  <2> QED BY <1>3, <1>4, <2>1, <2>2, <2>3, <2>4 DEF ClientInv
<1>9. DeskInv(s, q[s])'
  <2>1. Main(s)'.source = c
    BY <1>7 DEF Held
  <2> QED BY <1>4, <1>7, <2>1, Numbers DEF DeskInv
<1>10. Linked(s, q[s])'
  BY <1>4, <1>5 DEF DeskOK, Linked
<1>11. PartOK(s)'
  <2>1. PartOK(s) /\ s \notin User /\ (s = TASK_SYS \/ s = TASK_FLPY) /\ s # TASK_TTY /\ s # TASK_FS
    BY <1>1, Parties DEF Table, Desk, Client
  <2>2. p_flags'[s] \in FlagWord /\ ~ Free(s)'
    BY <1>7 DEF FlagWord, Free
  <2>3. s = TASK_SYS => SysOK'
    BY <1>4, <1>7, <2>1 DEF PartOK, SysOK
  <2>4. s = TASK_FLPY => FlpyOK'
    <3>1. s = TASK_FLPY => c = TASK_FS
      BY DEF Client, TASK_FLPY, TASK_SYS
    <3>2. q_sending'[c] = NIL /\ NIL # s
      BY <1>1, <1>3, <1>4, Numbers
    <3> QED BY <1>4, <1>6, <1>7, <2>1, <3>1, <3>2 DEF PartOK, FlpyOK
  <2> QED BY <2>1, <2>2, <2>3, <2>4, Parties DEF PartOK
<1>12. PartOK(c)'
  <2>1. PartOK(c) /\ c # TASK_TTY /\ c # TASK_SYS /\ c # TASK_FLPY /\ (c = TASK_FS \/ c \in User)
    BY <1>1, Parties DEF Table, Desk, Client
  <2>2. p_flags'[c] \in FlagWord /\ ~ Free(c)'
    BY <1>4 DEF FlagWord, Free
  <2> QED BY <1>4, <2>1, <2>2 DEF PartOK, UserOK, FsOK
<1>13. \A p \in Client(s) : ~ In(q[s], p) => next_sending'[p] = NIL
  BY <1>4, ApartClient
<1>14. \A p \in Proc : In(q[s], p) => p \in Client(s)
  BY <1>5 DEF DeskOK, In
<1>15. kernel' = "up" /\ Runner'
  BY <1>4 DEF Table, Runner
<1>fifo. FifoStep(s, q[s], q[s])
  <2>1. Serves(s) = NIL /\ Serves(s)' = c
    <3>1. ~ Holding(s)
      BY <1>5, <1>6 DEF DeskOK, DeskInv, Holding, Asks
    <3> QED BY <1>7, <3>1 DEF Serves, Held
  <2>2. c \notin Opened(s) /\ (Waiting(s, c) \/ Free(c))'
    BY <1>4, FlagsDiffer DEF Opened, Waiting, Free
  <2>3. \A d \in Client(s) \ {c} : (Waiting(s, d) \/ Free(d))' <=> Waiting(s, d) \/ Free(d)
    BY <1>1, <1>4, StillAsking, Parties
  <2>4. Opened(s)' = Opened(s) \cup {c}
    BY <2>2, <2>3 DEF Opened
  <2> QED BY <1>6, <2>1, <2>2, <2>4 DEF FifoStep, Joined
<1> QED BY <1>4, <1>5, <1>7, <1>8, <1>9, <1>10, <1>11, <1>12, <1>13, <1>14, <1>15, <1>fifo, Together

\* A client sends its request to a busy desk and stands at the end of its queue.
LEMMA CallQueued ==
  ASSUME TypeOK, Table, NEW q \in [Desk -> Seq(Proc)], Queues(q), NEW s \in Desk, NEW c \in Client(s),
         pc[c] \in {"run", "boot"}, p_flags[c] = {}, NEW type \in Asks(s),
         Enqueue(c, s, "call", [source |-> c, type |-> type]),
         pc' = [pc EXCEPT ![c] = "recv"], irq' = irq
  PROVE  GoodNext
<1> DEFINE m == [source |-> c, type |-> type]
           t == Append(q[s], c)
<1>1. s \in Proc /\ c \in Proc /\ c # s /\ "call" \in {"main", "call"} /\ OneFlag
  BY Parties, OneReason
<1>2. m \in Message
  BY <1>1, MessagesBuilt DEF Asks, MsgType, SysCall
<1>3. ~ In(q[s], c) /\ ~ Held(s, c) /\ q_sending[c] = NIL /\ ~ has_int_msg[c]
  BY Idle
<1>4. /\ \A p \in Proc \ {c} : Same(p)
      /\ pc'[c] = "recv" /\ p_flags'[c] \in {{}, {SENDING}} /\ p_recvfrom'[c] = p_recvfrom[c]
      /\ p_sendto'[c] = s /\ p_msg'[c] = "call" /\ has_int_msg'[c] = has_int_msg[c]
      /\ Main(c)' = Main(c) /\ Asked(c)' = m
      /\ Runner' /\ UNCHANGED kernel
  <2>1. Queued(c, s, "call", m, "recv")
    BY <1>1, <1>2, EnqueueEffect, Zenon
  <2> HIDE DEF m
  <2> QED BY <2>1 DEF Queued
<1>5. DeskOK(s, q[s]) /\ q[s] \in Seq(Proc) /\ Linked(s, q[s])
  BY DEF Queues, DeskOK
<1>6. /\ Linked(s, t)'
      /\ \A p \in Proc : p # s => q_sending'[p] = q_sending[p]
      /\ \A p \in Proc : p # c /\ ~ In(q[s], p) => next_sending'[p] = next_sending[p]
      /\ next_sending'[c] = NIL
  <2> HIDE DEF m
  <2>1. Enqueue(c, s, "call", m)
    BY DEF m
  <2> QED BY <1>1, <1>3, <1>5, <2>1, LinkAppend
<1>7. t \in Seq(Proc) /\ \A p \in Proc : In(t, p) <=> In(q[s], p) \/ p = c
  <2>1. t \in Seq(Proc) /\ Len(t) = Len(q[s]) + 1 /\ t[Len(q[s]) + 1] = c
        /\ \A i \in 1 .. Len(q[s]) : t[i] = q[s][i]
    BY <1>1, <1>5
  <2>2. Len(q[s]) \in Nat
    BY <1>5
  <2> HIDE DEF t
  <2>3. ASSUME NEW p \in Proc PROVE In(t, p) <=> In(q[s], p) \/ p = c
    <3>1. \A i \in 1 .. Len(q[s]) + 1 : i \in 1 .. Len(q[s]) \/ i = Len(q[s]) + 1
      BY <2>2
    <3>2. \A i \in 1 .. Len(q[s]) : i \in 1 .. Len(q[s]) + 1
      BY <2>2
    <3>3. Len(q[s]) + 1 \in 1 .. Len(q[s]) + 1
      BY <2>2
    <3> QED BY <2>1, <3>1, <3>2, <3>3 DEF In
  <2> QED BY <2>1, <2>3
<1> HIDE DEF t
<1>8. \A d \in Client(s) : Held(s, d)' => Held(s, d)
  BY <1>1, <1>4 DEF Held, Holding, Same
<1>9. ClientInv(s, c, t)'
  <2>1. Waiting(s, c)' /\ Asked(c)' \in Request(s, c) /\ p_flags'[c] # {RECEIVING}
    <3>1. Waiting(s, c)'
      BY <1>4 DEF Waiting
    <3>2. m \in Request(s, c)
      BY DEF Request
    <3>3. {} # {RECEIVING} /\ {SENDING} # {RECEIVING}
      BY FlagsDiffer
    <3> QED BY <1>4, <3>1, <3>2, <3>3
  <2>2. In(t, c) /\ (In(t, c)' <=> In(t, c)) /\ q_sending'[c] = NIL /\ NIL # s /\ ~ Held(s, c)'
    BY <1>1, <1>3, <1>6, <1>7, <1>8, Numbers DEF In
  <2> QED BY <1>3, <1>4, <2>1, <2>2 DEF ClientInv
<1>10. DeskInv(s, t)'
  <2>1. Same(s) /\ DeskInv(s, q[s])
    BY <1>1, <1>4, <1>5 DEF DeskOK
  <2>2. p_recvfrom'[s] # ANY_TASK
    <3>1. p_recvfrom[s] # ANY_TASK
      BY DEF Enqueue, Receivable
    <3> QED BY <2>1, <3>1 DEF Same
  <2>3. (Holding(s)' => Holding(s)) /\ (p_flags'[s] = {SENDING} => p_flags[s] = {SENDING})
    BY <2>1, Blocked DEF Same, Holding
  <2>4. p_flags[s] = {SENDING} => q_sending'[p_sendto[s]] = q_sending[p_sendto[s]]
    BY <1>6, <2>1, Parties DEF DeskInv
  <2> QED BY <2>1, <2>2, <2>3, <2>4 DEF DeskInv, Same
<1>11. PartOK(s)'
  <2>1. s = TASK_FLPY => q_sending'[TASK_FS] = q_sending[TASK_FS]
    BY <1>6, Parties
  <2> QED BY <1>1, <1>4, <2>1, PartFrame DEF Table
<1>12. PartOK(c)'
  <2>1. PartOK(c) /\ c # TASK_TTY /\ c # TASK_SYS /\ c # TASK_FLPY /\ (c = TASK_FS \/ c \in User)
    BY <1>1, Parties DEF Table, Desk, Client
  <2>2. p_flags'[c] \in FlagWord /\ ~ Free(c)' /\ p_flags'[c] # {RECEIVING}
    BY <1>4, FlagsDiffer DEF FlagWord, Free
  <2>3. p_flags[c] # {RECEIVING}
    OBVIOUS
  <2> QED BY <1>4, <2>1, <2>2, <2>3 DEF PartOK, UserOK, FsOK
<1>13. \A p \in Client(s) : ~ In(t, p) => next_sending'[p] = NIL
  BY <1>6, <1>7, ApartClient, Parties
<1>14. \A p \in Proc : In(q[s], p) => p \in Client(s)
  BY <1>5 DEF DeskOK, In
<1>15. \A p \in Proc \ Client(s) : next_sending'[p] = next_sending[p]
  BY <1>6, <1>14
<1>16. kernel' = "up"
  BY <1>4 DEF Table
<1>17. \A p \in Proc : In(t, p) => p \in Client(s)
  BY <1>7, <1>14
<1>18. \A d \in Client(s) \ {c} : (In(t, d) <=> In(q[s], d)) /\ (Held(s, d)' => Held(s, d))
  BY <1>7, <1>8, Parties
<1>19. \A p \in Proc \ {s, c} : Same(p) /\ q_sending'[p] = q_sending[p]
  BY <1>4, <1>6
<1>fifo. FifoStep(s, q[s], t)
  <2>1. Serves(s)' = Serves(s)
    BY <1>1, <1>4 DEF Serves, Holding, Same
  <2>2. c \notin Opened(s) /\ (Waiting(s, c) \/ Free(c))'
    BY <1>4, FlagsDiffer DEF Opened, Waiting, Free
  <2>3. \A d \in Client(s) \ {c} : (Waiting(s, d) \/ Free(d))' <=> Waiting(s, d) \/ Free(d)
    BY <1>1, <1>4, StillAsking, Parties
  <2>4. Opened(s)' = Opened(s) \cup {c}
    BY <2>2, <2>3 DEF Opened
  <2> QED BY <2>1, <2>2, <2>4 DEF FifoStep, Joined, t
<1> QED BY <1>4, <1>6, <1>7, <1>9, <1>10, <1>11, <1>12, <1>13, <1>15, <1>16, <1>17, <1>18, <1>19, <1>fifo, Together

\* A client sends its request.
LEMMA CallStep ==
  ASSUME TypeOK, Good, NEW s \in Desk, NEW c \in Client(s), AtPc(c, "run") \/ AtPc(c, "boot"),
         NEW type \in Asks(s), Call(c, type)
  PROVE  GoodNext
<1>1. PICK q \in [Desk -> Seq(Proc)] : Queues(q)
  BY DEF Good
<1>2. Table /\ Runner /\ p_proc_ready = c /\ p_flags[c] = {} /\ pc[c] \in {"run", "boot"}
  BY DEF Good, Table, Runner, AtPc, Running
<1>3. ServerOf(type) = s
  BY DEF ServerOf, Asks, Desk, SysCall, FsCall
<1>4. msg_send(c, s, "call", [source |-> c, type |-> type]) /\ pc' = [pc EXCEPT ![c] = "recv"] /\ irq' = irq
  BY <1>3 DEF Call, Goto
<1>5. ~ deadlockSpins(c, s)
  BY <1>1, <1>2, NoSpin, Parties
<1>6. \/ Deliver(c, s, "call", [source |-> c, type |-> type])
      \/ Enqueue(c, s, "call", [source |-> c, type |-> type])
  BY <1>4, <1>5 DEF msg_send, SendSpins
<1> QED BY <1>1, <1>2, <1>4, <1>6, CallDelivered, CallQueued

\* What a client that picks up its answer knows.
LEMMA Unanswered ==
  ASSUME NEW q \in [Desk -> Seq(Proc)], Queues(q), NEW s \in Desk, NEW c \in Client(s), pc[c] = "recv"
  PROVE  Asked(c) \in Request(s, c) /\ ServerOf(Asked(c).type) = s /\ ~ has_int_msg[c]
         /\ [Asked(c) EXCEPT !.source = c] = Asked(c)
<1>1. Asked(c) \in Request(s, c) /\ ~ has_int_msg[c]
  BY DEF Queues, DeskOK, ClientInv
<1>2. Asked(c).type \in Asks(s) /\ Asked(c) = [source |-> c, type |-> Asked(c).type]
  BY <1>1 DEF Request
<1>3. ServerOf(Asked(c).type) = s
  BY <1>2 DEF ServerOf, Asks, Desk, SysCall, FsCall
<1> QED BY <1>1, <1>2, <1>3

\* Where the program of a client goes on with its answer.
Then(c) == IF c = TASK_FS THEN "loop" ELSE "run"

\* A client finds the reply in its own queue.
LEMMA AnswerTaken ==
  ASSUME TypeOK, Table, NEW q \in [Desk -> Seq(Proc)], Queues(q), NEW s \in Desk, NEW c \in Client(s),
         pc[c] = "recv", p_flags[c] = {}, Runner,
         TakeQueued(c, s, "call", Asked(c)), pc' = [pc EXCEPT ![c] = Then(c)], irq' = irq
  PROVE  GoodNext
<1>1. s \in Proc /\ c \in Proc /\ c # s /\ "call" \in {"main", "call"} /\ OneFlag /\ s # ANY_TASK
  BY Parties, OneReason, Numbers
<1>2. DeskOK(s, q[s]) /\ q[s] \in Seq(Proc) /\ Linked(s, q[s]) /\ DeskInv(s, q[s]) /\ ClientInv(s, c, q[s])
  BY DEF Queues, DeskOK
<1>3. PICK f \in Proc :
        /\ From(c, s, f) /\ Unlink(c, f)
        /\ mem' = Store(mem, c, "call", Load(Store(mem, c, "call", Asked(c)), f, p_msg[f]))
        /\ p_msg' = [p_msg EXCEPT ![f] = "null"]
        /\ p_sendto' = [p_sendto EXCEPT ![f] = NO_TASK]
        /\ p_flags' = [p_flags EXCEPT ![f] = @ \ {SENDING}]
  BY DEF TakeQueued
<1>4. f = s /\ p_flags[s] = {SENDING} /\ p_sendto[s] = c
  BY <1>1, <1>3, FlagsDiffer DEF From, OneFlag
<1>5. p_msg[s] = "main" /\ pc[s] = "loop" /\ q_sending[c] = s
  BY <1>2, <1>4 DEF DeskInv
<1>6. next_sending[s] = NIL
  BY ApartServer
<1>7. q_sending' = [q_sending EXCEPT ![c] = NIL] /\ UNCHANGED next_sending
  <2>1. /\ q_sending' = [q_sending EXCEPT ![c] = next_sending[s]]
        /\ next_sending' = [next_sending EXCEPT ![s] = NIL]
    BY <1>3, <1>4, <1>5 DEF Unlink
  <2> QED BY <1>6, <2>1 DEF TypeOK
<1>8. /\ \A p \in Proc \ {c, s} : Same(p)
      /\ pc'[c] = Then(c) /\ p_flags'[c] = {} /\ p_recvfrom'[c] = p_recvfrom[c]
      /\ p_sendto'[c] = p_sendto[c] /\ p_msg'[c] = p_msg[c] /\ has_int_msg'[c] = has_int_msg[c]
      /\ Main(c)' = Main(c)
      /\ pc'[s] = pc[s] /\ p_flags'[s] # {SENDING} /\ Lets(p_flags, s)
      /\ p_recvfrom'[s] = p_recvfrom[s] /\ has_int_msg'[s] = has_int_msg[s] /\ Main(s)' = Main(s)
  <2>1. Asked(c) \in Message
    BY <1>1, MessagesBuilt
  <2>2. UNCHANGED <<p_proc_ready, p_recvfrom, has_int_msg>>
    BY DEF TakeQueued
  <2>3. p_msg[s] \in {"main", "call"}
    BY <1>5
  <2>4. Taking(c, s, "call", Then(c))
    <3>1. PICK x \in Message : x = Asked(c)
      BY <2>1
    <3>2. mem' = Store(mem, c, "call", Load(Store(mem, c, "call", x), s, p_msg[s]))
      BY <1>3, <1>4, <3>1
    <3> QED BY <1>1, <1>3, <1>4, <2>2, <2>3, <3>2, TakeEffect, Zenon
  <2> QED BY <2>4 DEF Taking
<1>9. p_flags'[s] = {}
  BY <1>4, <1>8 DEF Lets
<1>10. ~ Holding(s) /\ ~ Holding(s)'
  BY <1>5, <1>8 DEF Holding
<1>11. ClientInv(s, c, q[s])'
  <2>1. ~ In(q[s], c) /\ ~ In(q[s], c)'
    BY <1>2, <1>5 DEF ClientInv, In
  <2>2. p_flags'[c] # {SENDING} /\ pc'[c] # "recv" /\ q_sending'[c] = NIL /\ NIL # s
    BY <1>1, <1>7, <1>8, Numbers DEF TypeOK, Then
  <2> QED BY <1>2, <1>8, <1>10, <2>1, <2>2 DEF ClientInv, Held
<1>12. DeskInv(s, q[s])'
  <2>1. p_recvfrom'[s] # ANY_TASK
    BY <1>2, <1>4, <1>8, FlagsDiffer DEF DeskInv
  <2> QED BY <1>8, <1>10, <2>1 DEF DeskInv
<1>13. Linked(s, q[s])'
  BY <1>1, <1>2, <1>7 DEF Linked, TypeOK
<1>14. PartOK(s)'
  <2>1. PartOK(s) /\ s \notin User /\ (s = TASK_SYS \/ s = TASK_FLPY) /\ s # TASK_TTY /\ s # TASK_FS
    BY <1>1, Parties DEF Table, Desk, Client
  <2>2. p_flags'[s] \in FlagWord /\ ~ Free(s)' /\ p_flags'[s] # {RECEIVING}
    BY <1>9, FlagsDiffer DEF FlagWord, Free
  <2>3. p_flags[s] # {RECEIVING}
    BY <1>4, FlagsDiffer
  <2>4. s = TASK_SYS => SysOK'
    BY <1>5, <1>8, <1>10, <2>1, <2>2, <2>3 DEF PartOK, SysOK
  <2>5. s = TASK_FLPY => FlpyOK'
    <3>1. s = TASK_FLPY => c = TASK_FS
      BY DEF Client, TASK_FLPY, TASK_SYS
    <3>2. q_sending'[c] = NIL /\ NIL # s
      BY <1>1, <1>7, Numbers DEF TypeOK
    <3> QED BY <1>5, <1>8, <2>1, <2>2, <2>3, <3>1, <3>2 DEF PartOK, FlpyOK
  <2> QED BY <2>1, <2>2, <2>4, <2>5 DEF PartOK
<1>15. PartOK(c)'
  <2>1. PartOK(c) /\ c # TASK_TTY /\ c # TASK_SYS /\ c # TASK_FLPY /\ (c = TASK_FS \/ c \in User)
    BY <1>1, Parties DEF Table, Desk, Client
  <2>2. p_flags'[c] \in FlagWord /\ ~ Free(c)' /\ p_flags'[c] # {RECEIVING}
    BY <1>8, FlagsDiffer DEF FlagWord, Free
  <2>3. p_flags[c] # {RECEIVING}
    OBVIOUS
  <2>4. c \in User => UserOK(c)'
    <3>1. c \in User => UserOK(c) /\ c # TASK_FS
      BY <2>1, Parties DEF PartOK
    <3> QED BY <1>8, <2>2, <3>1 DEF UserOK, Then
  <2>5. c = TASK_FS => FsOK'
    <3>1. c = TASK_FS => FsOK
      BY <2>1 DEF PartOK
    <3>2. c = TASK_FS => p_recvfrom[TASK_FS] # ANY_TASK /\ Main(TASK_FS).type = "NONE"
      BY <2>3, <3>1 DEF FsOK
    <3>3. c = TASK_FS => /\ pc'[TASK_FS] = "loop" /\ p_recvfrom'[TASK_FS] = p_recvfrom[TASK_FS]
                         /\ Main(TASK_FS)' = Main(TASK_FS) /\ p_flags'[TASK_FS] # {RECEIVING}
      BY <1>8, <2>2 DEF Then
    <3> QED BY <3>2, <3>3 DEF FsOK
  <2> QED BY <2>1, <2>2, <2>4, <2>5 DEF PartOK
<1>16. \A p \in Client(s) : ~ In(q[s], p) => next_sending'[p] = NIL
  BY <1>7, ApartClient
<1>17. \A p \in Proc : In(q[s], p) => p \in Client(s)
  BY <1>2 DEF DeskOK, In
<1>18. kernel' = "up" /\ Runner'
  <2>1. UNCHANGED <<p_proc_ready, kernel>>
    BY DEF TakeQueued
  <2>2. p_proc_ready # s
    BY <1>4 DEF Runner
  <2> QED BY <1>3, <1>4, <2>1, <2>2 DEF Table, Runner, TypeOK
<1>19. \A d \in Client(s) \ {c} : Held(s, d)' => Held(s, d)
  BY <1>10 DEF Held
<1>20. \A p \in Proc \ {s, c} : Same(p) /\ q_sending'[p] = q_sending[p]
  BY <1>7, <1>8 DEF TypeOK
<1>fifo. FifoStep(s, q[s], q[s])
  <2>1. Serves(s) = NIL /\ Serves(s)' = NIL /\ c # NIL
    BY <1>1, <1>10, Numbers DEF Serves
  <2>2. c \in Opened(s) /\ ~ In(q[s], c)
    BY <1>2, <1>5 DEF Opened, ClientInv
  <2>3. ~ (Waiting(s, c) \/ Free(c))'
    BY <1>8, FlagsDiffer DEF Waiting, Free, Then
  <2>4. \A d \in Client(s) \ {c} : (Waiting(s, d) \/ Free(d))' <=> Waiting(s, d) \/ Free(d)
    BY <1>1, <1>8, StillAsking, Parties
  <2>5. Opened(s)' = Opened(s) \ {c}
    BY <2>3, <2>4 DEF Opened
  <2> QED BY <2>1, <2>2, <2>5 DEF FifoStep, Collected
<1> QED BY <1>2, <1>7, <1>11, <1>12, <1>13, <1>14, <1>15, <1>16, <1>17, <1>18, <1>19, <1>20, <1>fifo, Together

\* A client waits for the reply.
LEMMA AnswerAwaited ==
  ASSUME TypeOK, Table, NEW q \in [Desk -> Seq(Proc)], Queues(q), NEW s \in Desk, NEW c \in Client(s),
         pc[c] = "recv", p_flags[c] = {},
         Await(c, s, "call", Asked(c)), pc' = [pc EXCEPT ![c] = Then(c)], irq' = irq
  PROVE  GoodNext
<1>1. s \in Proc /\ c \in Proc /\ c # s /\ "call" \in {"main", "call"} /\ OneFlag /\ s # ANY_TASK
  BY Parties, OneReason, Numbers
<1>2. DeskOK(s, q[s]) /\ q[s] \in Seq(Proc) /\ Linked(s, q[s]) /\ DeskInv(s, q[s]) /\ ClientInv(s, c, q[s])
  BY DEF Queues, DeskOK
<1>3. /\ \A p \in Proc \ {c} : Same(p)
      /\ pc'[c] = Then(c) /\ p_flags'[c] = {RECEIVING} /\ p_recvfrom'[c] = s
      /\ p_sendto'[c] = p_sendto[c] /\ p_msg'[c] = "call" /\ has_int_msg'[c] = has_int_msg[c]
      /\ Main(c)' = Main(c) /\ Asked(c)' = Asked(c)
      /\ Runner' /\ UNCHANGED <<kernel, q_sending, next_sending>>
  <2>1. Asked(c) \in Message
    BY <1>1, MessagesBuilt
  <2>2. Awaited(c, s, "call", Asked(c), Then(c))
    BY <1>1, <2>1, AwaitEffect, Zenon
  <2> QED BY <2>2 DEF Awaited
<1>4. \A d \in Client(s) : Held(s, d)' <=> Held(s, d)
  BY <1>1, <1>3 DEF Held, Holding, Same
<1>5. ClientInv(s, c, q[s])'
  <2>1. Waiting(s, c) /\ Waiting(s, c)' /\ p_flags'[c] # {SENDING} /\ pc'[c] # "recv"
    <3>1. Waiting(s, c) /\ Waiting(s, c)'
      BY <1>3 DEF Waiting
    <3>2. p_flags'[c] # {SENDING}
      BY <1>3, FlagsDiffer
    <3>3. pc'[c] # "recv"
      BY <1>3 DEF Then
    <3> QED BY <3>1, <3>2, <3>3
  <2>2. In(q[s], c)' <=> In(q[s], c)
    BY DEF In
  <2>3. Asked(c) \in Request(s, c)
    BY <1>2 DEF ClientInv
  <2> QED BY <1>2, <1>3, <1>4, <2>1, <2>2, <2>3 DEF ClientInv
<1>6. DeskInv(s, q[s])'
  BY <1>1, <1>2, <1>3, DeskFrame
<1>7. Linked(s, q[s])'
  BY <1>2, <1>3 DEF Linked
<1>8. PartOK(s)'
  BY <1>1, <1>3, PartFrame DEF Table
<1>9. PartOK(c)'
  <2>1. PartOK(c) /\ c # TASK_TTY /\ c # TASK_SYS /\ c # TASK_FLPY /\ (c = TASK_FS \/ c \in User)
    BY <1>1, Parties DEF Table, Desk, Client
  <2>2. p_flags'[c] \in FlagWord /\ ~ Free(c)'
    BY <1>3, FlagsDiffer DEF FlagWord, Free
  <2>3. (c \in User => s = TASK_SYS) /\ (c = TASK_FS => s = TASK_FLPY)
    BY Parties DEF Desk
  <2> QED BY <1>1, <1>3, <2>1, <2>2, <2>3, Parties DEF PartOK, UserOK, FsOK, Then
<1>10. \A p \in Client(s) : ~ In(q[s], p) => next_sending'[p] = NIL
  BY <1>3, ApartClient
<1>11. \A p \in Proc : In(q[s], p) => p \in Client(s)
  BY <1>2 DEF DeskOK, In
<1>12. kernel' = "up"
  BY <1>3 DEF Table
<1>fifo. FifoStep(s, q[s], q[s])
  <2>1. Serves(s)' = Serves(s)
    BY <1>1, <1>3 DEF Serves, Holding, Same
  <2>2. (Waiting(s, c) \/ Free(c)) /\ (Waiting(s, c) \/ Free(c))'
    BY <1>3 DEF Waiting
  <2>3. \A d \in Client(s) \ {c} : (Waiting(s, d) \/ Free(d))' <=> Waiting(s, d) \/ Free(d)
    BY <1>1, <1>3, StillAsking, Parties
  <2>4. Opened(s)' = Opened(s)
    BY <2>2, <2>3 DEF Opened
  <2> QED BY <2>1, <2>4 DEF FifoStep, Rests
<1> QED BY <1>2, <1>3, <1>4, <1>5, <1>6, <1>7, <1>8, <1>9, <1>10, <1>11, <1>12, <1>fifo, Together

\* A client picks up its answer or waits for it.
LEMMA AnswerStep ==
  ASSUME TypeOK, Good, NEW s \in Desk, NEW c \in Client(s), Answer(c, Then(c))
  PROVE  GoodNext
<1>1. PICK q \in [Desk -> Seq(Proc)] : Queues(q)
  BY DEF Good
<1>2. Table /\ Runner /\ p_flags[c] = {} /\ pc[c] = "recv"
  BY DEF Good, Table, Runner, Answer, AtPc, Running
<1>3. ServerOf(Asked(c).type) = s /\ ~ has_int_msg[c] /\ [Asked(c) EXCEPT !.source = c] = Asked(c)
  BY <1>1, <1>2, Unanswered
<1>4. msg_receive(c, s, "call", Asked(c)) /\ pc' = [pc EXCEPT ![c] = Then(c)] /\ irq' = irq
  BY <1>3 DEF Answer, Goto
<1>5. TakeQueued(c, s, "call", Asked(c)) \/ Await(c, s, "call", Asked(c))
  BY <1>3, <1>4 DEF msg_receive, TakeInt, TakesInt
<1> QED BY <1>1, <1>2, <1>4, <1>5, AnswerTaken, AnswerAwaited

(***************************************************************************)
(* The servers.                                                            *)
(***************************************************************************)

\* A server at its RECEIVE holds no request and no interrupt.
LEMMA AtReceive ==
  ASSUME TypeOK, Table, NEW q \in [Desk -> Seq(Proc)], Queues(q), NEW s \in Desk, Listens(s)
  PROVE  /\ p_flags[s] = {} /\ p_proc_ready = s /\ ~ has_int_msg[s] /\ ~ Holding(s)
         /\ pc[s] \in {"loop", "work"} /\ p_recvfrom[s] # ANY_TASK
         /\ s = TASK_FLPY => irq = FALSE
<1>1. p_flags[s] = {} /\ p_proc_ready = s
  BY DEF Listens, AtPc, Running, Table, Runner
<1>2. p_flags[s] # {RECEIVING} /\ s \in Proc /\ PartOK(s)
  BY <1>1, Parties DEF Table
<1>3. p_recvfrom[s] # ANY_TASK
  BY <1>2 DEF Queues, DeskOK, DeskInv
<1>4. CASE s = TASK_SYS
  <2>1. SysOK /\ s # TASK_FLPY
    BY <1>2, <1>4, Parties DEF PartOK
  <2>2. pc[s] = "loop"
    <3>1. pc[s] = "serve" => Main(s).type \in SysCall
      BY <1>2, <1>4, <2>1 DEF SysOK, Holding, Asks, SysCall
    <3> QED BY <1>4, <2>1, <3>1 DEF Listens, AtPc
  <2>3. ~ has_int_msg[s]
    BY <1>4, <2>1 DEF SysOK
  <2> QED BY <1>1, <1>3, <2>1, <2>2, <2>3 DEF Holding
<1>5. CASE s = TASK_FLPY
  <2>1. FlpyOK /\ s # TASK_SYS
    BY <1>2, <1>5, Parties DEF PartOK
  <2>2. pc[s] = "loop" \/ (pc[s] = "work" /\ Main(s).type # "DEV_READ")
    BY <2>1 DEF Listens, AtPc
  <2>3. ~ Holding(s)
    BY <2>1, <2>2 DEF Holding, Asks
  <2>4. ~ has_int_msg[s] /\ irq = FALSE
    BY <1>2, <1>5, <2>1, <2>2 DEF FlpyOK
  <2> QED BY <1>1, <1>3, <2>2, <2>3, <2>4
<1> QED BY <1>4, <1>5 DEF Desk

\* A desk takes the request of the first in its queue.
LEMMA ListenTaken ==
  ASSUME TypeOK, Table, NEW q \in [Desk -> Seq(Proc)], Queues(q), NEW s \in Desk, Listens(s),
         NEW x \in Message, TakeQueued(s, ANY_TASK, "main", x),
         pc' = [pc EXCEPT ![s] = "serve"], irq' = irq
  PROVE  GoodNext
<1> DEFINE t == Tail(q[s])
<1>1. s \in Proc /\ "main" \in {"main", "call"} /\ OneFlag /\ Client(s) \subseteq Proc /\ s \notin Client(s)
  BY Parties, OneReason
<1>2. DeskOK(s, q[s]) /\ q[s] \in Seq(Proc) /\ Linked(s, q[s]) /\ DeskInv(s, q[s])
      /\ \A d \in Client(s) : ClientInv(s, d, q[s])
  BY DEF Queues, DeskOK
<1>3. PICK f \in Proc :
        /\ From(s, ANY_TASK, f) /\ Unlink(s, f)
        /\ mem' = Store(mem, s, "main", Load(Store(mem, s, "main", x), f, p_msg[f]))
        /\ p_msg' = [p_msg EXCEPT ![f] = "null"]
        /\ p_sendto' = [p_sendto EXCEPT ![f] = NO_TASK]
        /\ p_flags' = [p_flags EXCEPT ![f] = @ \ {SENDING}]
  BY DEF TakeQueued
<1>4. q_sending[s] = f /\ q[s] # <<>> /\ f = q[s][1] /\ 1 \in 1 .. Len(q[s])
  <2>1. q_sending[s] = f
    BY <1>3, Numbers DEF From
  <2>2. q[s] # <<>> /\ f = q[s][1]
    BY <1>2, <2>1, Numbers DEF Linked
  <2> QED BY <1>2, <2>1, <2>2, EmptySeq
<1>5. /\ f \in Client(s) /\ f # s /\ In(q[s], f)
      /\ Waiting(s, f) /\ p_msg[f] = "call" /\ Asked(f) \in Request(s, f) /\ q_sending[f] = NIL
      /\ ~ has_int_msg[f]
  <2>1. f \in Client(s) /\ In(q[s], f)
    BY <1>2, <1>4 DEF DeskOK, In
  <2> QED BY <1>1, <1>2, <2>1 DEF ClientInv
<1>6. /\ q_sending' = [q_sending EXCEPT ![s] = next_sending[q[s][1]]]
      /\ next_sending' = [next_sending EXCEPT ![q[s][1]] = NIL]
  BY <1>3, <1>4 DEF Unlink
<1>7. /\ t \in Seq(Proc) /\ Linked(s, t)'
      /\ \A p \in Proc : In(t, p) <=> In(q[s], p) /\ p # f
  <2>1. /\ t \in Seq(Proc) /\ Linked(s, t)'
        /\ \A p \in Proc : In(t, p) <=> In(q[s], p) /\ p # q[s][1]
    BY <1>1, <1>2, <1>4, <1>6, LinkTail
  <2> QED BY <1>4, <2>1
<1> HIDE DEF t
<1>8. /\ \A p \in Proc \ {s, f} : Same(p)
      /\ pc'[s] = "serve" /\ p_flags'[s] = p_flags[s] /\ p_recvfrom'[s] = p_recvfrom[s]
      /\ p_sendto'[s] = p_sendto[s] /\ p_msg'[s] = p_msg[s] /\ has_int_msg'[s] = has_int_msg[s]
      /\ Main(s)' = Asked(f)
      /\ pc'[f] = pc[f] /\ Lets(p_flags, f) /\ p_flags'[f] # {SENDING}
      /\ p_recvfrom'[f] = p_recvfrom[f] /\ has_int_msg'[f] = has_int_msg[f]
      /\ p_msg'[f] = "null" /\ Main(f)' = Main(f) /\ Asked(f)' = Asked(f)
  <2>1. UNCHANGED <<p_proc_ready, p_recvfrom, has_int_msg>>
    BY DEF TakeQueued
  <2>2. p_msg[f] \in {"main", "call"}
    BY <1>5
  <2>3. Taking(s, f, "main", "serve")
    BY <1>1, <1>3, <1>5, <2>1, <2>2, TakeEffect, Zenon
  <2>4. mem[f][p_msg[f]] = Asked(f)
    BY <1>5 DEF Asked
  <2> QED BY <2>3, <2>4 DEF Taking
<1>9. /\ p_flags[s] = {} /\ p_proc_ready = s /\ ~ has_int_msg[s] /\ pc[s] \in {"loop", "work"}
      /\ p_recvfrom[s] # ANY_TASK
      /\ s = TASK_FLPY => irq = FALSE
  BY AtReceive
<1>10. /\ Main(s)'.type \in Asks(s) /\ Main(s)'.source = f
       /\ Holding(s)' /\ Held(s, f)' /\ \A d \in Client(s) \ {f} : ~ Held(s, d)'
  <2>1. Main(s)'.type \in Asks(s) /\ Main(s)'.source = f
    BY <1>5, <1>8 DEF Request
  <2> QED BY <1>8, <2>1 DEF Holding, Held
<1>11. ClientInv(s, f, t)'
  <2>1. ~ In(t, f)'
    BY <1>7 DEF In
  <2>2. Waiting(s, f)'
    BY <1>5, <1>8, Blocked DEF Waiting
  <2>3. q_sending'[f] = NIL /\ NIL # s
    BY <1>1, <1>5, <1>6, Numbers DEF TypeOK
  <2>4. pc'[f] = "recv" => p_flags'[f] # {RECEIVING}
    BY <1>2, <1>5, <1>8, Blocked DEF ClientInv
  <2> QED BY <1>5, <1>8, <2>1, <2>2, <2>3, <2>4 DEF ClientInv
<1>12. DeskInv(s, t)'
  BY <1>5, <1>8, <1>9, <1>10 DEF DeskInv
<1>13. PartOK(s)'
  <2>1. PartOK(s) /\ s \notin User /\ (s = TASK_SYS \/ s = TASK_FLPY) /\ s # TASK_TTY /\ s # TASK_FS
    BY <1>1, Parties DEF Table, Desk, Client
  <2>2. p_flags'[s] \in FlagWord /\ ~ Free(s)' /\ p_flags'[s] # {RECEIVING}
    BY <1>8, <1>9 DEF FlagWord, Free
  <2>3. s = TASK_SYS => SysOK'
    BY <1>8, <1>9, <1>10, <2>2 DEF SysOK
  <2>4. s = TASK_FLPY => FlpyOK'
    <3>1. s = TASK_FLPY => f = TASK_FS
      BY <1>5 DEF Client, TASK_FLPY, TASK_SYS
    <3>2. s = TASK_FLPY => q_sending'[TASK_FS] # TASK_FLPY
      BY <1>1, <1>5, <1>6, <3>1, Numbers DEF TypeOK
    <3> QED BY <1>8, <1>9, <1>10, <2>2, <3>2 DEF FlpyOK
  <2> QED BY <2>1, <2>2, <2>3, <2>4 DEF PartOK
<1>14. PartOK(f)'
  <2>1. PartOK(f) /\ f # TASK_TTY /\ f # TASK_SYS /\ f # TASK_FLPY /\ (f = TASK_FS \/ f \in User)
    BY <1>1, <1>5, Parties DEF Table, Desk, Client
  <2>2. p_flags'[f] \in FlagWord /\ (Free(f)' <=> Free(f))
        /\ (p_flags'[f] = {RECEIVING} <=> p_flags[f] = {RECEIVING})
    BY <1>8, <2>1, Blocked DEF FlagWord, Free, PartOK, Lets
  <2>3. f \in User => UserOK(f)'
    BY <1>8, <2>1, <2>2 DEF PartOK, UserOK
  <2>4. f = TASK_FS => FsOK'
    BY <1>8, <2>1, <2>2 DEF PartOK, FsOK
  <2> QED BY <2>1, <2>2, <2>3, <2>4 DEF PartOK
<1>15. \A p \in Client(s) : ~ In(t, p) => next_sending'[p] = NIL
  BY <1>1, <1>4, <1>6, <1>7, ApartClient DEF TypeOK
<1>16. \A p \in Proc : In(t, p) => p \in Client(s)
  BY <1>2, <1>7 DEF DeskOK, In
<1>17. kernel' = "up" /\ Runner'
  <2>1. UNCHANGED <<p_proc_ready, kernel>>
    BY DEF TakeQueued
  <2> QED BY <1>1, <1>8, <1>9, <2>1 DEF Table, Runner
<1>18. \A d \in Client(s) \ {f} : (In(t, d) <=> In(q[s], d)) /\ (Held(s, d)' => Held(s, d))
  BY <1>1, <1>7, <1>10
<1>19. \A p \in Proc \ {s, f} : Same(p) /\ q_sending'[p] = q_sending[p]
  BY <1>6, <1>8 DEF TypeOK
<1>20. \A p \in Proc \ Client(s) : next_sending'[p] = next_sending[p]
  BY <1>4, <1>5, <1>6 DEF TypeOK
<1>fifo. FifoStep(s, q[s], t)
  <2>1. Serves(s) = NIL /\ Serves(s)' = q[s][1]
    <3>1. ~ Holding(s)
      BY AtReceive
    <3> QED BY <1>4, <1>10, <3>1 DEF Serves
  <2>2. (Waiting(s, f) \/ Free(f)) /\ (Waiting(s, f) \/ Free(f))'
    BY <1>5, <1>8, Blocked DEF Waiting
  <2>3. \A d \in Client(s) \ {f} : (Waiting(s, d) \/ Free(d))' <=> Waiting(s, d) \/ Free(d)
    BY <1>1, <1>8, StillAsking
  <2>4. Opened(s)' = Opened(s)
    BY <2>2, <2>3 DEF Opened
  <2> QED BY <1>4, <2>1, <2>4 DEF FifoStep, Took, t
<1> QED BY <1>5, <1>7, <1>11, <1>12, <1>13, <1>14, <1>15, <1>16, <1>17, <1>18, <1>19, <1>20, <1>fifo, Together

\* A desk finds its queue empty and waits.
LEMMA ListenAwaited ==
  ASSUME TypeOK, Table, NEW q \in [Desk -> Seq(Proc)], Queues(q), NEW s \in Desk, Listens(s),
         NEW x \in Message, x.type = "NONE", Await(s, ANY_TASK, "main", x),
         pc' = [pc EXCEPT ![s] = "serve"], irq' = irq
  PROVE  GoodNext
<1>1. s \in Proc /\ "main" \in {"main", "call"} /\ OneFlag /\ Client(s) \subseteq Proc /\ s \notin Client(s)
  BY Parties, OneReason
<1>2. DeskOK(s, q[s]) /\ q[s] \in Seq(Proc) /\ Linked(s, q[s]) /\ DeskInv(s, q[s])
      /\ \A d \in Client(s) : ClientInv(s, d, q[s])
  BY DEF Queues, DeskOK
<1>3. q[s] = <<>>
  <2>1. q_sending[s] \notin Proc
    BY <1>1 DEF Await, From
  <2>2. q[s] # <<>> => q[s][1] \in Proc /\ q_sending[s] = q[s][1]
    BY <1>2, EmptySeq DEF Linked
  <2> QED BY <2>1, <2>2
<1>4. /\ p_flags[s] = {} /\ p_proc_ready = s /\ ~ has_int_msg[s] /\ pc[s] \in {"loop", "work"}
      /\ s = TASK_FLPY => irq = FALSE
  BY AtReceive
<1>5. /\ \A p \in Proc \ {s} : Same(p)
      /\ pc'[s] = "serve" /\ p_flags'[s] = {RECEIVING} /\ p_recvfrom'[s] = ANY_TASK
      /\ p_sendto'[s] = p_sendto[s] /\ p_msg'[s] = "main" /\ has_int_msg'[s] = has_int_msg[s]
      /\ Main(s)' = x
      /\ Runner' /\ UNCHANGED <<kernel, q_sending, next_sending>>
  <2>1. Awaited(s, ANY_TASK, "main", x, "serve")
    BY <1>1, <1>4, AwaitEffect, Zenon
  <2> QED BY <2>1 DEF Awaited
<1>6. ~ Holding(s)' /\ Main(s)'.type = "NONE"
  BY <1>5 DEF Holding, Asks
<1>7. p_flags'[s] # {SENDING} /\ {RECEIVING} # {FREE_SLOT}
  BY <1>5, FlagsDiffer
<1>9. DeskInv(s, q[s])'
  BY <1>3, <1>5, <1>6, <1>7 DEF DeskInv
<1>10. Linked(s, q[s])'
  BY <1>2, <1>5 DEF Linked
<1>11. PartOK(s)'
  <2>1. PartOK(s) /\ s \notin User /\ (s = TASK_SYS \/ s = TASK_FLPY) /\ s # TASK_TTY /\ s # TASK_FS
    BY <1>1, Parties DEF Table, Desk, Client
  <2>2. p_flags'[s] \in FlagWord /\ ~ Free(s)'
    BY <1>5, <1>7 DEF FlagWord, Free
  <2>3. s = TASK_SYS => SysOK'
    BY <1>4, <1>5 DEF SysOK
  <2>4. s = TASK_FLPY => FlpyOK'
    <3>2. s = TASK_FLPY => (q_sending'[TASK_FS] = TASK_FLPY =>
            p_sendto'[TASK_FLPY] = TASK_FS /\ p_msg'[TASK_FLPY] = "main")
      BY <1>5, <2>1 DEF PartOK, FlpyOK
    <3>3. s = TASK_FLPY => irq' = FALSE /\ ~ has_int_msg'[s]
      BY <1>4, <1>5
    <3> QED BY <1>5, <3>2, <3>3 DEF FlpyOK
  <2> QED BY <2>1, <2>2, <2>3, <2>4 DEF PartOK
<1>13. \A p \in Client(s) : ~ In(q[s], p) => next_sending'[p] = NIL
  BY <1>5, ApartClient
<1>14. \A p \in Proc : In(q[s], p) => p \in Client(s)
  BY <1>2 DEF DeskOK, In
<1>15. kernel' = "up"
  BY <1>5 DEF Table
<1>16. \A d \in Client(s) : Held(s, d)' => Held(s, d)
  BY <1>6 DEF Held
<1>fifo. FifoStep(s, q[s], q[s])
  <2>1. Serves(s) = NIL /\ Serves(s)' = NIL
    <3>1. ~ Holding(s)
      BY AtReceive
    <3> QED BY <1>6, <3>1 DEF Serves
  <2>2. \A d \in Client(s) : (Waiting(s, d) \/ Free(d))' <=> Waiting(s, d) \/ Free(d)
    BY <1>1, <1>5, StillAsking
  <2>3. Opened(s)' = Opened(s)
    BY <2>2 DEF Opened
  <2> QED BY <2>1, <2>3 DEF FifoStep, Rests
<1> QED BY <1>1, <1>2, <1>5, <1>9, <1>10, <1>11, <1>13, <1>14, <1>15, <1>16, <1>fifo, Together

\* A server takes the request at the head of its queue or waits for one.
LEMMA ListenStep ==
  ASSUME TypeOK, Good, NEW s \in Desk, Listen(s)
  PROVE  GoodNext
<1> DEFINE x == [Zeroed EXCEPT !.source = s]
<1>1. PICK q \in [Desk -> Seq(Proc)] : Queues(q)
  BY DEF Good
<1>2. Table /\ Listens(s) /\ x \in Message /\ x.type = "NONE"
  BY MessagesBuilt, Parties DEF Good, Listen, Zeroed
<1>3. msg_receive(s, ANY_TASK, "main", x) /\ pc' = [pc EXCEPT ![s] = "serve"] /\ irq' = irq
  BY DEF Listen, Goto
<1> HIDE DEF x
<1>4. ~ has_int_msg[s]
  BY <1>1, <1>2, AtReceive
<1>5. TakeQueued(s, ANY_TASK, "main", x) \/ Await(s, ANY_TASK, "main", x)
  BY <1>3, <1>4 DEF msg_receive, TakeInt, TakesInt
<1> QED BY <1>1, <1>2, <1>3, <1>5, ListenTaken, ListenAwaited

\* A server that replies holds the request of the client it replies to, and
\* this client waits for the reply or is gone.
LEMMA AtReply ==
  ASSUME TypeOK, Table, NEW q \in [Desk -> Seq(Proc)], Queues(q), NEW s \in Desk, Handled(s), Runner,
         p_proc_ready = s
  PROVE  /\ Holding(s) /\ Main(s).source \in Client(s) /\ Held(s, Main(s).source)
         /\ p_flags[s] = {} /\ p_recvfrom[s] # ANY_TASK /\ pc[s] # "boot"
         /\ s = TASK_FLPY => irq = FALSE /\ ~ has_int_msg[s] /\ pc[s] \in {"work", "serve"}
<1>1. p_flags[s] = {} /\ p_flags[s] # {RECEIVING} /\ s \in Proc /\ PartOK(s) /\ DeskInv(s, q[s])
  BY Parties DEF Runner, Table, Queues, DeskOK
<1>2. Holding(s) /\ pc[s] # "boot"
  <2>1. CASE s = TASK_SYS
    <3>1. SysOK /\ s # TASK_FLPY /\ s # TASK_FS
      BY <1>1, <2>1, Parties DEF PartOK
    <3>2. pc[s] = "reply" \/ pc[s] = "serve"
      BY <2>1, <3>1 DEF Handled, AtPc
    <3> QED BY <1>1, <2>1, <3>1, <3>2 DEF SysOK
  <2>2. CASE s = TASK_FLPY
    <3>1. FlpyOK /\ s # TASK_SYS /\ s # TASK_FS
      BY <1>1, <2>2, Parties DEF PartOK
    <3>2. pc[s] # "reply"
      BY <2>2, <3>1 DEF FlpyOK
    <3>3. \/ pc[s] = "work" /\ Main(s).type = "DEV_READ"
          \/ pc[s] = "serve"
      BY <2>2, <3>1, <3>2 DEF Handled, AtPc
    <3> QED BY <1>1, <2>2, <3>1, <3>3 DEF FlpyOK, Holding, Asks
  <2> QED BY <2>1, <2>2 DEF Desk
<1>3. s = TASK_FLPY => irq = FALSE /\ ~ has_int_msg[s] /\ pc[s] \in {"work", "serve"}
  <2>1. CASE s = TASK_FLPY
    <3>1. FlpyOK /\ s # TASK_SYS /\ s # TASK_FS
      BY <1>1, <2>1, Parties DEF PartOK
    <3>2. pc[s] # "reply"
      BY <2>1, <3>1 DEF FlpyOK
    <3>3. pc[s] \in {"work", "serve"}
      BY <2>1, <3>1, <3>2 DEF Handled, AtPc
    <3> QED BY <1>1, <2>1, <3>1, <3>3 DEF FlpyOK
  <2> QED BY <2>1
<1>4. Main(s).source \in Client(s) /\ p_recvfrom[s] # ANY_TASK
  BY <1>1, <1>2 DEF DeskInv
<1> QED BY <1>1, <1>2, <1>3, <1>4 DEF Held

\* A desk replies to a client that waits for the reply.
LEMMA ReplyDelivered ==
  ASSUME TypeOK, Table, NEW q \in [Desk -> Seq(Proc)], Queues(q), NEW s \in Desk, Handled(s), Runner,
         p_proc_ready = s, NEW c \in Client(s), Held(s, c), NEW x \in Message, x.type = Main(s).type,
         Deliver(s, c, "main", x), pc' = [pc EXCEPT ![s] = "loop"], irq' = irq
  PROVE  GoodNext
<1>1. s \in Proc /\ c \in Proc /\ s # c /\ "main" \in {"main", "call"} /\ s # TASK_FS /\ s # TASK_TTY
      /\ s \notin User /\ c # TASK_TTY /\ c \notin Desk
  BY Parties DEF Desk, Client
<1>2. DeskOK(s, q[s]) /\ q[s] \in Seq(Proc) /\ Linked(s, q[s]) /\ DeskInv(s, q[s])
      /\ ClientInv(s, c, q[s])
  BY DEF Queues, DeskOK
<1>3. /\ \A p \in Proc \ {s, c} : Same(p)
      /\ pc'[s] = "loop" /\ p_flags'[s] = p_flags[s] /\ p_recvfrom'[s] = p_recvfrom[s]
      /\ p_sendto'[s] = p_sendto[s] /\ p_msg'[s] = p_msg[s] /\ has_int_msg'[s] = has_int_msg[s]
      /\ Main(s)' = x
      /\ pc'[c] = pc[c] /\ p_flags'[c] = p_flags[c] \ {RECEIVING} /\ p_recvfrom'[c] = NO_TASK
      /\ has_int_msg'[c] = has_int_msg[c]
      /\ Main(c)' = (IF p_msg[c] = "main" THEN x ELSE Main(c))
      /\ UNCHANGED <<q_sending, next_sending, kernel, p_proc_ready>>
      /\ Receivable(s, c)
  <2>1. Delivered(s, c, "main", x, "loop")
    BY <1>1, DeliverEffect, Zenon
  <2> QED BY <2>1 DEF Delivered
<1>4. /\ p_flags[s] = {} /\ p_recvfrom[s] # ANY_TASK
      /\ s = TASK_FLPY => irq = FALSE /\ ~ has_int_msg[s] /\ pc[s] \in {"work", "serve"}
  BY AtReply
<1>5. (Waiting(s, c) \/ Free(c)) /\ ~ In(q[s], c) /\ q_sending[c] = NIL /\ ~ has_int_msg[c]
  BY <1>2 DEF ClientInv
<1>6. PartOK(c) /\ PartOK(s)
  BY <1>1 DEF Table
<1>7. /\ p_flags[c] = {RECEIVING} /\ pc[c] # "recv"
  <2>1. RECEIVING \in p_flags[c]
    <3>1. CASE c \in User
      BY <1>3, <1>6, <3>1 DEF Receivable, PartOK, UserOK
    <3>2. CASE c = TASK_FS
      <4>1. p_recvfrom[c] = ANY_TASK => p_flags[c] = {RECEIVING}
        BY <1>6, <3>2 DEF PartOK, FsOK
      <4> QED BY <1>3, <4>1 DEF Receivable
    <3> QED BY <3>1, <3>2 DEF Client
  <2>2. p_flags[c] = {RECEIVING}
    BY <1>6, <2>1, FlagsDiffer DEF PartOK, FlagWord
  <2> QED BY <1>2, <2>2 DEF ClientInv
<1>8. p_flags'[c] = {}
  BY <1>3, <1>7
<1>9. ~ Holding(s)'
  BY <1>3 DEF Holding
<1>10. ClientInv(s, c, q[s])'
  <2>1. ~ In(q[s], c)' /\ NIL # s /\ ~ Held(s, c)' /\ p_flags'[c] # {SENDING}
    BY <1>1, <1>5, <1>8, <1>9, Numbers DEF In, Held
  <2> QED BY <1>3, <1>5, <1>7, <2>1 DEF ClientInv
<1>11. DeskInv(s, q[s])'
  BY <1>3, <1>4, <1>9 DEF DeskInv
<1>12. Linked(s, q[s])'
  BY <1>2, <1>3 DEF Linked
<1>13. PartOK(s)'
  <2>1. (s = TASK_SYS \/ s = TASK_FLPY) /\ p_flags'[s] \in FlagWord /\ ~ Free(s)' /\ p_flags'[s] # {RECEIVING}
    BY <1>3, <1>4 DEF FlagWord, Free, Desk
  <2>2. s = TASK_SYS => SysOK'
    BY <1>3, <1>6, <2>1 DEF SysOK, PartOK
  <2>3. s = TASK_FLPY => FlpyOK'
    <3>1. s = TASK_FLPY => q_sending'[TASK_FS] = NIL /\ NIL # s
      BY <1>1, <1>3, <1>5, Numbers DEF Client, TASK_FLPY, TASK_SYS
    <3> QED BY <1>3, <1>4, <2>1, <3>1 DEF FlpyOK
  <2> QED BY <1>1, <2>1, <2>2, <2>3 DEF PartOK
<1>14. PartOK(c)'
  <2>1. c # TASK_SYS /\ c # TASK_FLPY /\ (c = TASK_FS \/ c \in User)
    BY <1>1 DEF Desk, Client
  <2>2. p_flags'[c] \in FlagWord /\ ~ Free(c)' /\ p_flags'[c] # {RECEIVING}
    BY <1>8 DEF FlagWord, Free
  <2>3. c \in User => UserOK(c)'
    BY <1>3, <1>6, <2>2, Numbers DEF PartOK, UserOK
  <2>4. c = TASK_FS => FsOK'
    <3>1. c = TASK_FS => pc[c] = "loop" /\ p_msg[c] # "main" /\ Main(c).type = "NONE"
      <4>1. c = TASK_FS => s # ANY_TASK /\ p_recvfrom[c] = s
        BY <1>1, <1>5, <1>7, FlagsDiffer, Numbers DEF Waiting, Free
      <4> QED BY <1>6, <1>7, <4>1 DEF PartOK, FsOK
    <3> QED BY <1>3, <2>2, <3>1, Numbers DEF FsOK
  <2> QED BY <1>1, <2>1, <2>2, <2>3, <2>4 DEF PartOK
<1>15. \A p \in Client(s) : ~ In(q[s], p) => next_sending'[p] = NIL
  BY <1>3, ApartClient
<1>16. \A p \in Proc : In(q[s], p) => p \in Client(s)
  BY <1>2 DEF DeskOK, In
<1>17. kernel' = "up" /\ Runner'
  BY <1>3, <1>4 DEF Table, Runner
<1>18. \A d \in Client(s) : Held(s, d)' => Held(s, d)
  BY <1>9 DEF Held
<1>fifo. FifoStep(s, q[s], q[s])
  <2>1. Serves(s) = c /\ c # NIL /\ Serves(s)' = NIL
    BY <1>1, <1>9, Numbers DEF Serves, Held
  <2>2. ~ (Waiting(s, c) \/ Free(c))'
    BY <1>3, <1>7, <1>8, FlagsDiffer DEF Waiting, Free
  <2>3. \A d \in Client(s) \ {c} : (Waiting(s, d) \/ Free(d))' <=> Waiting(s, d) \/ Free(d)
    BY <1>1, <1>3, StillAsking, Parties
  <2>4. Opened(s)' = Opened(s) \ {c}
    BY <2>2, <2>3 DEF Opened
  <2> QED BY <2>1, <2>4 DEF FifoStep, Answered
<1> QED BY <1>2, <1>3, <1>10, <1>11, <1>12, <1>13, <1>14, <1>15, <1>16, <1>17, <1>18, <1>fifo, Together

\* A desk replies to a client that has not received yet or is gone, and is
\* blocked in the reply.
LEMMA ReplyQueued ==
  ASSUME TypeOK, Table, NEW q \in [Desk -> Seq(Proc)], Queues(q), NEW s \in Desk, Handled(s), Runner,
         p_proc_ready = s, NEW c \in Client(s), Held(s, c), NEW x \in Message,
         Enqueue(s, c, "main", x), pc' = [pc EXCEPT ![s] = "loop"], irq' = irq
  PROVE  GoodNext
<1>1. s \in Proc /\ c \in Proc /\ s # c /\ "main" \in {"main", "call"} /\ s # TASK_FS /\ s # TASK_TTY
      /\ s \notin User /\ c # TASK_TTY /\ c \notin Desk /\ OneFlag
  BY Parties, OneReason DEF Desk, Client
<1>2. DeskOK(s, q[s]) /\ q[s] \in Seq(Proc) /\ Linked(s, q[s]) /\ DeskInv(s, q[s])
      /\ ClientInv(s, c, q[s])
  BY DEF Queues, DeskOK
<1>3. /\ p_flags[s] = {} /\ p_recvfrom[s] # ANY_TASK
      /\ s = TASK_FLPY => irq = FALSE /\ ~ has_int_msg[s] /\ pc[s] \in {"work", "serve"}
  BY AtReply
<1>4. /\ \A p \in Proc \ {s} : Same(p)
      /\ pc'[s] = "loop" /\ p_flags'[s] \in {{}, {SENDING}} /\ p_recvfrom'[s] = p_recvfrom[s]
      /\ p_sendto'[s] = c /\ p_msg'[s] = "main" /\ has_int_msg'[s] = has_int_msg[s]
      /\ Runner' /\ UNCHANGED kernel
  <2>1. Queued(s, c, "main", x, "loop")
    BY <1>1, <1>3, EnqueueEffect, Zenon
  <2> QED BY <2>1 DEF Queued
<1>5. (Waiting(s, c) \/ Free(c)) /\ ~ In(q[s], c) /\ q_sending[c] = NIL /\ ~ has_int_msg[c]
  BY <1>2 DEF ClientInv
<1>6. q_sending' = [q_sending EXCEPT ![c] = s] /\ UNCHANGED next_sending
  <2>1. q_sending' = [q_sending EXCEPT ![c] = s] /\ next_sending' = [next_sending EXCEPT ![s] = NIL]
    BY <1>5 DEF Enqueue
  <2>2. next_sending[s] = NIL
    BY ApartServer
  <2> QED BY <2>1, <2>2 DEF TypeOK
<1>7. ~ Holding(s)'
  BY <1>4 DEF Holding
<1>8. ClientInv(s, c, q[s])'
  <2>1. Same(c) /\ q_sending'[c] = s
    BY <1>1, <1>4, <1>6 DEF TypeOK
  <2>2. ~ In(q[s], c)' /\ ~ Held(s, c)'
    BY <1>5, <1>7 DEF In, Held
  <2>3. /\ p_flags'[c] = {SENDING} => p_flags[c] = {SENDING}
        /\ p_flags'[c] = {RECEIVING} <=> p_flags[c] = {RECEIVING}
        /\ Free(c)' <=> Free(c)
        /\ Waiting(s, c)' <=> Waiting(s, c)
    BY <2>1, Blocked DEF Same, Free, Waiting
  <2> QED BY <1>2, <1>5, <2>1, <2>2, <2>3 DEF ClientInv, Same
<1>9. DeskInv(s, q[s])'
  BY <1>1, <1>3, <1>4, <1>6, <1>7 DEF DeskInv, TypeOK
<1>10. Linked(s, q[s])'
  BY <1>1, <1>2, <1>6 DEF Linked, TypeOK
<1>11. PartOK(s)'
  <2>1. (s = TASK_SYS \/ s = TASK_FLPY) /\ PartOK(s)
    BY <1>1 DEF Desk, Table
  <2>2. p_flags'[s] \in FlagWord /\ ~ Free(s)' /\ p_flags'[s] # {RECEIVING}
    BY <1>4, FlagsDiffer DEF FlagWord, Free
  <2>3. s = TASK_SYS => SysOK'
    BY <1>4, <2>1, <2>2 DEF SysOK, PartOK
  <2>4. s = TASK_FLPY => FlpyOK'
    <3>1. s = TASK_FLPY => c = TASK_FS
      BY DEF Client, TASK_FLPY, TASK_SYS
    <3> QED BY <1>3, <1>4, <2>2, <3>1 DEF FlpyOK
  <2> QED BY <1>1, <2>1, <2>2, <2>3, <2>4 DEF PartOK
<1>12. PartOK(c)'
  <2>1. Same(c) /\ c # TASK_FLPY
    BY <1>1, <1>4 DEF Desk
  <2> QED BY <1>1, <2>1, PartFrame DEF Table
<1>13. \A p \in Client(s) : ~ In(q[s], p) => next_sending'[p] = NIL
  BY <1>6, ApartClient
<1>14. \A p \in Proc : In(q[s], p) => p \in Client(s)
  BY <1>2 DEF DeskOK, In
<1>15. kernel' = "up"
  BY <1>4 DEF Table
<1>16. \A d \in Client(s) : Held(s, d)' => Held(s, d)
  BY <1>7 DEF Held
<1>17. \A p \in Proc \ {s, c} : Same(p) /\ q_sending'[p] = q_sending[p]
  BY <1>4, <1>6 DEF TypeOK
<1>fifo. FifoStep(s, q[s], q[s])
  <2>1. Serves(s) = c /\ c # NIL /\ Serves(s)' = NIL
    BY <1>1, <1>7, Numbers DEF Serves, Held
  <2>2. \A d \in Client(s) : (Waiting(s, d) \/ Free(d))' <=> Waiting(s, d) \/ Free(d)
    BY <1>1, <1>4, StillAsking, Parties
  <2>3. Opened(s)' = Opened(s)
    BY <2>2 DEF Opened
  <2> QED BY <2>1, <2>3 DEF FifoStep, Answered
<1> QED BY <1>2, <1>4, <1>6, <1>8, <1>9, <1>10, <1>11, <1>12, <1>13, <1>14, <1>15, <1>16, <1>17, <1>fifo, Together

\* A server replies to the client whose request it holds, and to nobody else.
LEMMA ReplyStep ==
  ASSUME TypeOK, Good, NEW s \in Desk, Reply(s) \/ ReplyOutside(s)
  PROVE  GoodNext
<1>1. PICK q \in [Desk -> Seq(Proc)] : Queues(q)
  BY DEF Good
<1>2. Table /\ Handled(s) /\ Runner /\ p_proc_ready = s
  BY DEF Good, Table, Reply, ReplyOutside, Handled, AtPc, Running
<1> DEFINE c == Main(s).source
           x == [Main(s) EXCEPT !.source = s]
<1>3. c \in Client(s) /\ Held(s, c) /\ c \in Proc
  BY <1>1, <1>2, AtReply, Parties
<1>4. x \in Message /\ x.type = Main(s).type
  <2>1. Main(s) \in Message
    BY MessagesBuilt, Parties
  <2> QED BY <2>1, MessagesBuilt, Parties DEF Message
<1>5. msg_send(s, c, "main", x) /\ pc' = [pc EXCEPT ![s] = "loop"] /\ irq' = irq
  BY <1>3 DEF Reply, ReplyOutside, Goto
<1> HIDE DEF c, x
<1>6. ~ deadlockSpins(s, c)
  <2>1. p_flags[c] # {SENDING}
    BY <1>1, <1>3 DEF Queues, DeskOK, ClientInv
  <2> QED BY <1>1, <1>2, <1>3, <2>1, NoSpin
<1>7. Deliver(s, c, "main", x) \/ Enqueue(s, c, "main", x)
  BY <1>5, <1>6 DEF msg_send, SendSpins
<1> QED BY <1>1, <1>2, <1>3, <1>4, <1>5, <1>7, ReplyDelivered, ReplyQueued

\* do_exit() frees the client whose request the system task holds.
LEMMA ExitStep ==
  ASSUME TypeOK, Good, do_exit
  PROVE  GoodNext
<1>s. PICK s \in Desk : s = TASK_SYS
  BY DEF Desk
<1>u. PICK u : u = Main(TASK_SYS).source
  OBVIOUS
<1>1. PICK q \in [Desk -> Seq(Proc)] : Queues(q)
  BY DEF Good
<1>2. Table /\ Runner /\ p_proc_ready = s /\ p_flags[s] = {} /\ pc[s] = "serve" /\ s \in Desk /\ s \in Proc
  BY <1>s, Parties DEF Good, Table, Runner, do_exit, AtPc, Running, Desk
<1>3. Holding(s) /\ SysOK
  <2>1. SysOK
    BY <1>s, <1>2 DEF Table, PartOK
  <2> QED BY <1>s, <1>2, <2>1 DEF SysOK
<1>4. u \in Client(s) /\ u \in User /\ u \in Proc /\ Held(s, u) /\ u # s
  <2>1. u \in Client(s)
    BY <1>s, <1>u, <1>1, <1>2, <1>3 DEF Queues, DeskOK, DeskInv
  <2> QED BY <1>s, <1>u, <1>2, <1>3, <2>1, Parties DEF Held
<1>5. /\ p_flags' = [p_flags EXCEPT ![u] = {FREE_SLOT}] /\ pc' = [pc EXCEPT ![s] = "reply"]
      /\ UNCHANGED <<p_proc_ready, p_msg, p_recvfrom, p_sendto, has_int_msg, q_sending, next_sending, mem,
                     kernel, irq>>
  BY <1>s, <1>u DEF do_exit, Goto, Quiet
<1>6. DeskOK(s, q[s]) /\ q[s] \in Seq(Proc) /\ Linked(s, q[s]) /\ DeskInv(s, q[s])
      /\ ClientInv(s, u, q[s])
  BY <1>1, <1>2, <1>4 DEF Queues, DeskOK
<1>7. /\ \A p \in Proc \ {s, u} : Same(p)
      /\ p_flags'[u] = {FREE_SLOT} /\ pc'[u] = pc[u] /\ pc'[s] = "reply" /\ p_flags'[s] = {}
      /\ Main(s)' = Main(s) /\ Asked(u)' = Asked(u)
  <2>1. \A p \in Proc : Main(p)' = Main(p) /\ Asked(p)' = Asked(p)
    BY <1>5 DEF Main, Asked
  <2>2. /\ p_flags'[u] = {FREE_SLOT} /\ pc'[u] = pc[u] /\ pc'[s] = "reply" /\ p_flags'[s] = {}
        /\ \A p \in Proc \ {s, u} : pc'[p] = pc[p] /\ p_flags'[p] = p_flags[p]
    BY <1>2, <1>4, <1>5 DEF TypeOK
  <2>3. \A p \in Proc \ {s, u} : Same(p)
    BY <1>5, <2>1, <2>2 DEF Same, Lets
  <2> QED BY <1>2, <1>4, <2>1, <2>2, <2>3
<1>8. \A d \in Client(s) : Held(s, d)' => Held(s, d)
  BY <1>3, <1>7 DEF Held
<1>9. {FREE_SLOT} # {SENDING} /\ {FREE_SLOT} # {RECEIVING} /\ {FREE_SLOT} # {}
  BY FlagsDiffer
<1>10. ClientInv(s, u, q[s])'
  <2>1. ~ In(q[s], u) /\ ~ In(q[s], u)' /\ q_sending[u] = NIL /\ NIL # s /\ Free(u)'
    BY <1>2, <1>4, <1>6, <1>7, Numbers DEF ClientInv, In, Free
  <2> QED BY <1>5, <1>6, <1>7, <1>9, <2>1 DEF ClientInv
<1>11. DeskInv(s, q[s])'
  <2>1. p_recvfrom[s] # ANY_TASK
    BY <1>2, <1>6 DEF DeskInv
  <2> QED BY <1>3, <1>5, <1>6, <1>7, <2>1 DEF DeskInv
<1>12. Linked(s, q[s])'
  BY <1>5, <1>6 DEF Linked
<1>13. PartOK(s)'
  <2>1. s # TASK_FLPY /\ s # TASK_FS /\ s # TASK_TTY /\ s \notin User
    BY <1>s, Parties
  <2>2. p_flags'[s] \in FlagWord /\ ~ Free(s)' /\ p_flags'[s] # {RECEIVING}
    BY <1>7 DEF FlagWord, Free
  <2>3. Holding(s)'
    BY <1>3, <1>7 DEF Holding
  <2>4. SysOK'
    BY <1>s, <1>3, <1>5, <1>7, <2>2, <2>3 DEF SysOK
  <2> QED BY <2>1, <2>2, <2>4 DEF PartOK
<1>14. PartOK(u)'
  <2>1. u # TASK_FLPY /\ u # TASK_FS /\ u # TASK_TTY
    BY <1>4, Parties DEF Desk
  <2>2. p_flags'[u] \in FlagWord
    BY <1>7 DEF FlagWord
  <2>3. UserOK(u)'
    BY <1>2, <1>4, <1>5, <1>7, <1>9 DEF Table, PartOK, UserOK
  <2> QED BY <1>s, <1>4, <2>1, <2>2, <2>3 DEF PartOK
<1>15. \A p \in Client(s) : ~ In(q[s], p) => next_sending'[p] = NIL
  BY <1>1, <1>2, <1>5, ApartClient
<1>16. \A p \in Proc : In(q[s], p) => p \in Client(s)
  BY <1>6 DEF DeskOK, In
<1>17. kernel' = "up" /\ Runner'
  BY <1>2, <1>5, <1>7 DEF Table, Runner
<1>fifo. FifoStep(s, q[s], q[s])
  <2>1. Serves(s)' = Serves(s)
    <3>1. Holding(s)'
      BY <1>3, <1>7 DEF Holding
    <3> QED BY <1>3, <1>7, <3>1 DEF Serves
  <2>2. (Waiting(s, u) \/ Free(u)) /\ (Waiting(s, u) \/ Free(u))'
    BY <1>4, <1>6, <1>7 DEF ClientInv, Free
  <2>3. \A d \in Client(s) \ {u} : (Waiting(s, d) \/ Free(d))' <=> Waiting(s, d) \/ Free(d)
    BY <1>2, <1>7, StillAsking, Parties
  <2>4. Opened(s)' = Opened(s)
    BY <2>2, <2>3 DEF Opened
  <2> QED BY <2>1, <2>4 DEF FifoStep, Rests
<1> QED BY <1>1, <1>2, <1>4, <1>5, <1>6, <1>7, <1>8, <1>10, <1>11, <1>12, <1>13, <1>14, <1>15, <1>16, <1>17, <1>fifo, Together

\* A step that changes nothing of the table but what concerns the driver and
\* its controller.
LEMMA DriverStep ==
  ASSUME TypeOK, Table, NEW q \in [Desk -> Seq(Proc)], Queues(q), NEW l,
         pc' = [pc EXCEPT ![TASK_FLPY] = l],
         \A p \in Proc \ {TASK_FLPY} : Same(p),
         UNCHANGED <<q_sending, next_sending, kernel>>, Runner',
         Main(TASK_FLPY)' = Main(TASK_FLPY), Holding(TASK_FLPY)' => Holding(TASK_FLPY),
         p_flags'[TASK_FLPY] # {SENDING}, p_recvfrom'[TASK_FLPY] # ANY_TASK, PartOK(TASK_FLPY)'
  PROVE  GoodNext
<1> DEFINE s == TASK_FLPY
<1>1. s \in Desk /\ s \in Proc /\ Client(s) \subseteq Proc /\ s \notin Client(s)
  BY Parties DEF Desk
<1>2. DeskOK(s, q[s]) /\ q[s] \in Seq(Proc) /\ Linked(s, q[s]) /\ DeskInv(s, q[s])
  BY <1>1 DEF Queues, DeskOK
<1>3. Linked(s, q[s])'
  BY <1>2 DEF Linked
<1>4. DeskInv(s, q[s])'
  BY <1>2 DEF DeskInv
<1>5. \A p \in Client(s) : ~ In(q[s], p) => next_sending'[p] = NIL
  BY <1>1, ApartClient
<1>6. \A p \in Proc : In(q[s], p) => p \in Client(s)
  BY <1>2 DEF DeskOK, In
<1>7. kernel' = "up"
  BY DEF Table
<1>8. \A d \in Client(s) : Held(s, d)' => Held(s, d)
  BY DEF Held
<1> HIDE DEF s
<1>9. PartOK(s)' /\ (s # TASK_FLPY => irq' = irq) /\ \A p \in Proc \ {s, s} : Same(p) /\ q_sending'[p] = q_sending[p]
  BY DEF s
<1>fifo. s # TASK_SYS
  BY Parties DEF s
<1> QED BY <1>1, <1>2, <1>3, <1>4, <1>5, <1>6, <1>7, <1>8, <1>9, <1>fifo, Together

\* The driver gives the controller a command.
LEMMA CommandStep ==
  ASSUME TypeOK, Good, FlpyCommand
  PROVE  GoodNext
<1> DEFINE s == TASK_FLPY
<1>1. PICK q \in [Desk -> Seq(Proc)] : Queues(q)
  BY DEF Good
<1>2. Table /\ Runner /\ p_flags[s] = {} /\ s \in Desk /\ s \in Proc /\ PartOK(s)
      /\ p_flags[s] # {RECEIVING} /\ p_flags[s] # {SENDING}
  BY Parties DEF Good, Table, Runner, FlpyCommand, AtPc, Running, Desk
<1>3. FlpyOK /\ pc[s] \in {"boot", "work", "serve"}
  BY <1>2 DEF FlpyCommand, AtPc, PartOK
<1>4. ~ has_int_msg[s] /\ irq = FALSE /\ p_recvfrom[s] # ANY_TASK
  BY <1>1, <1>2, <1>3 DEF FlpyOK, Queues, DeskOK, DeskInv
<1>5. /\ pc' = [pc EXCEPT ![s] = "irq"] /\ irq' = TRUE
      /\ UNCHANGED <<p_proc_ready, p_msg, p_recvfrom, p_sendto, has_int_msg, q_sending, next_sending, mem,
                     kernel, p_flags>>
  BY DEF FlpyCommand, Quiet
<1>6. \A p \in Proc \ {s} : Same(p)
  BY <1>5 DEF Same, Lets, Main, Asked, TypeOK
<1>7. pc'[s] = "irq" /\ Main(s)' = Main(s)
  BY <1>2, <1>5 DEF TypeOK, Main
<1>8. Holding(s)' => Holding(s)
  BY <1>2, <1>3, <1>7 DEF Holding, FlpyOK, Asks, TASK_FLPY, TASK_SYS
<1>9. q_sending[TASK_FS] # s
  <2>1. pc[s] = "loop" \/ ~ (q_sending[TASK_FS] = s /\ pc[s] \in {"boot", "work"})
    BY <1>3 DEF FlpyOK
  <2>2. pc[s] = "serve" => Held(s, TASK_FS)
    <3>1. Client(s) = {TASK_FS} /\ DeskInv(s, q[s])
      BY <1>1, <1>2, Parties DEF Queues, DeskOK
    <3> QED BY <1>2, <1>3, <3>1 DEF FlpyOK, DeskInv, Held
  <2>3. ClientInv(s, TASK_FS, q[s])
    BY <1>1, <1>2, Parties DEF Queues, DeskOK
  <2> QED BY <1>3, <2>1, <2>2, <2>3 DEF ClientInv
<1>10. PartOK(s)'
  <2>1. s # TASK_SYS /\ s # TASK_FS /\ s # TASK_TTY /\ s \notin User
    BY Parties DEF Desk
  <2>2. p_flags'[s] \in FlagWord /\ ~ Free(s)' /\ p_flags'[s] # {RECEIVING}
    BY <1>2, <1>5 DEF FlagWord, Free
  <2>3. FlpyOK'
    BY <1>4, <1>5, <1>7, <1>9, <2>2 DEF FlpyOK
  <2> QED BY <2>1, <2>2, <2>3 DEF PartOK
<1>11. Runner'
  BY <1>2, <1>5 DEF Runner
<1> HIDE DEF s
<1>12. p_flags'[s] # {SENDING} /\ p_recvfrom'[s] # ANY_TASK
  BY <1>2, <1>4, <1>5
<1> QED BY <1>1, <1>2, <1>5, <1>6, <1>7, <1>8, <1>10, <1>11, <1>12, DriverStep DEF s

\* The driver waits for the interrupt or finds that it has come.
LEMMA WaitStep ==
  ASSUME TypeOK, Good, flpydsk_wait_irq
  PROVE  GoodNext
<1>s. PICK s \in Desk : s = TASK_FLPY
  BY DEF Desk
<1> DEFINE x == [Zeroed EXCEPT !.source = s]
<1>1. PICK q \in [Desk -> Seq(Proc)] : Queues(q)
  BY DEF Good
<1>2. Table /\ Runner /\ p_flags[s] = {} /\ s \in Proc /\ PartOK(s) /\ pc[s] = "irq" /\ OneFlag
      /\ p_flags[s] # {RECEIVING} /\ p_flags[s] # {SENDING} /\ x \in Message
  BY <1>s, Parties, OneReason, MessagesBuilt DEF Good, Table, Runner, flpydsk_wait_irq, AtPc, Running
<1>3. FlpyOK /\ irq # has_int_msg[s] /\ p_recvfrom[s] # ANY_TASK
  BY <1>s, <1>1, <1>2 DEF PartOK, FlpyOK, Queues, DeskOK, DeskInv
<1>4. msg_receive(s, INTERRUPT, "call", x) /\ pc' = [pc EXCEPT ![s] = "work"] /\ irq' = irq
  BY <1>s DEF flpydsk_wait_irq, Goto
<1> HIDE DEF x
<1>5. ~ TakeQueued(s, INTERRUPT, "call", x)
  <2>1. INTERRUPT # ANY_TASK /\ INTERRUPT \notin Proc
    BY Numbers
  <2> QED BY <2>1 DEF TakeQueued, From
<1>6. q_sending[TASK_FS] # s
  BY <1>s, <1>2, <1>3 DEF FlpyOK
<1>7. s # TASK_SYS /\ s # TASK_FS /\ s # TASK_TTY /\ s \notin User /\ "call" \in {"main", "call"}
  BY <1>s, Parties DEF Desk
<1>8. CASE TakeInt(s, INTERRUPT, "call")
  <2>1. has_int_msg[s] /\ irq = FALSE
    BY <1>2, <1>3, <1>8 DEF TakeInt, TakesInt, TypeOK
  <2>2. /\ has_int_msg' = [has_int_msg EXCEPT ![s] = FALSE]
        /\ mem' = Store(mem, s, "call", [source |-> INTERRUPT, type |-> "HARD_INT"])
        /\ UNCHANGED <<p_proc_ready, p_flags, p_msg, p_recvfrom, p_sendto, q_sending, next_sending, kernel>>
    BY <1>8 DEF TakeInt
  <2>3. Put(mem, mem', s, "call", [source |-> INTERRUPT, type |-> "HARD_INT"])
    <3>1. [source |-> INTERRUPT, type |-> "HARD_INT"] \in Message
      BY DEF Message, Source, MsgType
    <3>2. "call" \in Buf /\ mem \in [Proc -> [Buf -> Message]]
      BY DEF Buf, TypeOK
    <3> QED BY <1>2, <2>2, <3>1, <3>2, StoreCell
  <2>4. Main(s)' = Main(s) /\ \A p \in Proc \ {s} : Main(p)' = Main(p) /\ Asked(p)' = Asked(p)
    BY <1>2, <2>3 DEF Put, Main, Asked
  <2>5. \A p \in Proc \ {s} : Same(p)
    BY <1>4, <2>2, <2>4 DEF Same, Lets, TypeOK
  <2>6. pc'[s] = "work" /\ ~ has_int_msg'[s] /\ p_flags'[s] = {} /\ irq' = FALSE
    BY <1>2, <1>4, <2>1, <2>2 DEF TypeOK
  <2>7. Holding(s)' => Holding(s)
    BY <1>2, <2>4 DEF Holding
  <2>8. PartOK(s)'
    <3>1. p_flags'[s] \in FlagWord /\ ~ Free(s)' /\ p_flags'[s] # {RECEIVING}
      BY <2>6 DEF FlagWord, Free
    <3>2. FlpyOK'
      BY <1>s, <1>6, <2>2, <2>6, <3>1 DEF FlpyOK
    <3> QED BY <1>7, <3>1, <3>2 DEF PartOK
  <2>9. p_flags'[s] # {SENDING} /\ p_recvfrom'[s] # ANY_TASK /\ Runner'
    BY <1>2, <1>3, <2>2, <2>6 DEF Runner
  <2> QED BY <1>s, <1>1, <1>2, <1>4, <2>2, <2>4, <2>5, <2>7, <2>8, <2>9, DriverStep
<1>9. CASE Await(s, INTERRUPT, "call", x)
  <2>1. ~ has_int_msg[s] /\ irq = TRUE
    BY <1>2, <1>3, <1>9 DEF Await, TakesInt, TypeOK
  <2>2. /\ \A p \in Proc \ {s} : Same(p)
        /\ pc'[s] = "work" /\ p_flags'[s] = {RECEIVING} /\ p_recvfrom'[s] = INTERRUPT
        /\ p_msg'[s] = "call" /\ has_int_msg'[s] = has_int_msg[s] /\ Main(s)' = Main(s)
        /\ Runner' /\ UNCHANGED <<kernel, q_sending, next_sending>>
    <3>1. Awaited(s, INTERRUPT, "call", x, "work")
      BY <1>2, <1>4, <1>7, <1>9, AwaitEffect, Zenon
    <3> QED BY <3>1 DEF Awaited
  <2>3. Holding(s)' => Holding(s)
    BY <1>2, <2>2 DEF Holding
  <2>4. p_flags'[s] # {SENDING} /\ ~ Free(s)' /\ p_flags'[s] \in FlagWord /\ p_recvfrom'[s] # ANY_TASK
    BY <2>2, FlagsDiffer, Numbers DEF Free, FlagWord
  <2>5. PartOK(s)'
    <3>1. FlpyOK'
      BY <1>s, <1>4, <1>6, <2>1, <2>2 DEF FlpyOK
    <3> QED BY <1>7, <2>4, <3>1 DEF PartOK
  <2> QED BY <1>s, <1>1, <1>2, <1>4, <2>2, <2>3, <2>4, <2>5, DriverStep
<1> QED BY <1>4, <1>5, <1>8, <1>9 DEF msg_receive

\* The controller interrupts.
LEMMA IrqStep ==
  ASSUME TypeOK, Good, FloppyIrq
  PROVE  GoodNext
<1>s. PICK s \in Desk : s = TASK_FLPY
  BY DEF Desk
<1>1. PICK q \in [Desk -> Seq(Proc)] : Queues(q)
  BY DEF Good
<1>2. Table /\ Runner /\ s \in Proc /\ PartOK(s) /\ FlpyOK /\ p_flags[s] \in FlagWord /\ irq
  BY <1>s, Parties DEF Good, Table, FloppyIrq, PartOK
<1>3. DeskInv(s, q[s])
  BY <1>1 DEF Queues, DeskOK
<1>4. s # TASK_SYS /\ s # TASK_FS /\ s # TASK_TTY /\ s \notin User
  BY <1>s, Parties DEF Desk
<1>5. /\ irq' = FALSE /\ inform_int(s)
      /\ UNCHANGED <<p_proc_ready, p_sendto, q_sending, next_sending, pc, kernel>>
  BY <1>s DEF FloppyIrq
<1>6. ~ has_int_msg[s] /\ \/ pc[s] = "irq"
                          \/ pc[s] = "work" /\ p_flags[s] = {RECEIVING}
  BY <1>s, <1>2 DEF FlpyOK, TypeOK
<1>7. pc[s] = "irq" => p_flags[s] \notin {{SENDING}, {RECEIVING}}
  BY <1>s, <1>2, <1>3 DEF FlpyOK, DeskInv
<1>8. q_sending[TASK_FS] # s
  BY <1>s, <1>2, <1>6 DEF FlpyOK
<1>9. CASE pc[s] = "irq"
  <2>1. ~ (RECEIVING \in p_flags[s])
    BY <1>2, <1>7, <1>9, FlagsDiffer DEF FlagWord
  <2>2. /\ has_int_msg' = [has_int_msg EXCEPT ![s] = TRUE]
        /\ UNCHANGED <<mem, p_msg, p_flags, p_recvfrom>>
    BY <1>5, <2>1 DEF inform_int
  <2>3. \A p \in Proc : Main(p)' = Main(p) /\ Asked(p)' = Asked(p)
    BY <2>2 DEF Main, Asked
  <2>4. \A p \in Proc \ {s} : Same(p)
    BY <1>5, <2>2, <2>3 DEF Same, Lets, TypeOK
  <2>5. Holding(s)' => Holding(s)
    BY <1>2, <1>5, <2>3 DEF Holding
  <2>6. has_int_msg'[s] = TRUE
    BY <1>2, <2>2 DEF TypeOK
  <2>7. p_flags'[s] # {SENDING} /\ p_recvfrom'[s] # ANY_TASK
    BY <1>3, <1>7, <1>9, <2>2 DEF DeskInv
  <2>8. PartOK(s)'
    <3>1. FlpyOK'
      BY <1>s, <1>2, <1>5, <1>7, <1>8, <1>9, <2>2, <2>6 DEF FlpyOK
    <3>2. p_flags'[s] \in FlagWord /\ ~ Free(s)'
      BY <1>2, <1>4, <2>2 DEF PartOK, Free
    <3> QED BY <1>4, <3>1, <3>2 DEF PartOK
  <2>9. pc' = [pc EXCEPT ![s] = "irq"] /\ Runner'
    BY <1>2, <1>5, <1>9, <2>2 DEF TypeOK, Runner
  <2> QED BY <1>s, <1>1, <1>2, <1>5, <2>3, <2>4, <2>5, <2>7, <2>8, <2>9, DriverStep
<1>10. CASE pc[s] = "work" /\ p_flags[s] = {RECEIVING}
  <2>1. p_recvfrom[s] = INTERRUPT /\ p_msg[s] = "call"
    <3>1. p_recvfrom[s] # ANY_TASK
      BY <1>3, <1>10 DEF DeskInv
    <3> QED BY <1>s, <1>2, <1>10, <3>1 DEF FlpyOK
  <2>2. /\ mem' = Store(mem, s, "call", [source |-> INTERRUPT, type |-> "HARD_INT"])
        /\ p_msg' = [p_msg EXCEPT ![s] = "null"]
        /\ has_int_msg' = [has_int_msg EXCEPT ![s] = FALSE]
        /\ p_flags' = [p_flags EXCEPT ![s] = @ \ {RECEIVING}]
        /\ p_recvfrom' = [p_recvfrom EXCEPT ![s] = NO_TASK]
    BY <1>5, <1>10, <2>1 DEF inform_int
  <2>3. Put(mem, mem', s, "call", [source |-> INTERRUPT, type |-> "HARD_INT"])
    <3>1. [source |-> INTERRUPT, type |-> "HARD_INT"] \in Message
      BY DEF Message, Source, MsgType
    <3>2. "call" \in Buf /\ mem \in [Proc -> [Buf -> Message]]
      BY DEF Buf, TypeOK
    <3> QED BY <1>2, <2>2, <3>1, <3>2, StoreCell
  <2>4. Main(s)' = Main(s) /\ \A p \in Proc \ {s} : Main(p)' = Main(p) /\ Asked(p)' = Asked(p)
    BY <1>2, <2>3 DEF Put, Main, Asked
  <2>5. \A p \in Proc \ {s} : Same(p)
    BY <1>5, <2>2, <2>4 DEF Same, Lets, TypeOK
  <2>6. ~ has_int_msg'[s] /\ p_flags'[s] = {} /\ p_recvfrom'[s] = NO_TASK
    BY <1>2, <1>10, <2>2 DEF TypeOK
  <2>7. Holding(s)' => Holding(s)
    BY <1>2, <1>5, <2>4 DEF Holding
  <2>8. PartOK(s)'
    <3>1. p_flags'[s] \in FlagWord /\ ~ Free(s)' /\ p_flags'[s] # {RECEIVING}
      BY <2>6 DEF FlagWord, Free
    <3>2. FlpyOK'
      BY <1>s, <1>5, <1>8, <1>10, <2>6, <3>1 DEF FlpyOK
    <3> QED BY <1>4, <3>1, <3>2 DEF PartOK
  <2>9. p_flags'[s] # {SENDING} /\ p_recvfrom'[s] # ANY_TASK
    BY <2>6, Numbers
  <2>10. pc' = [pc EXCEPT ![s] = "work"] /\ Runner'
    <3>1. p_proc_ready # s
      BY <1>2, <1>10 DEF Runner
    <3> QED BY <1>2, <1>5, <1>10, <2>2, <3>1 DEF TypeOK, Runner
  <2> QED BY <1>s, <1>1, <1>2, <1>5, <2>4, <2>5, <2>7, <2>8, <2>9, <2>10, DriverStep
<1> QED BY <1>6, <1>9, <1>10

\* The file system, which no user asks anything, waits for its first request.
LEMMA FsListenStep ==
  ASSUME TypeOK, Good, Listen(TASK_FS)
  PROVE  GoodNext
<1>f. PICK s \in Desk : s = TASK_FLPY /\ TASK_FS \in Client(s)
  BY Parties DEF Desk
<1>s. PICK c \in Client(s) : s = TASK_FLPY /\ c = TASK_FS
  BY <1>f
<1> DEFINE x == [Zeroed EXCEPT !.source = c]
<1>1. PICK q \in [Desk -> Seq(Proc)] : Queues(q)
  BY DEF Good
<1>2. /\ Table /\ Runner /\ p_flags[c] = {} /\ pc[c] = "loop" /\ s \in Proc /\ c \in Proc /\ s # c /\ OneFlag
      /\ x \in Message /\ x.type = "NONE" /\ c # TASK_SYS /\ c # TASK_TTY /\ c \notin User
      /\ "main" \in {"main", "call"}
  <2>1. s \in Proc /\ c \in Proc /\ s # c /\ c # TASK_SYS /\ c # TASK_TTY /\ c \notin User /\ c # TASK_FLPY
    BY <1>s, Parties DEF Desk
  <2>2. Table /\ Runner /\ OneFlag
    BY OneReason DEF Good, Table
  <2>3. AtPc(c, "loop")
    BY <1>s, <2>1 DEF Listen, Listens
  <2>4. x \in Message /\ x.type = "NONE"
    BY <2>1, MessagesBuilt DEF Zeroed
  <2> QED BY <2>1, <2>2, <2>3, <2>4 DEF Runner, AtPc, Running
<1>3. msg_receive(c, ANY_TASK, "main", x) /\ pc' = [pc EXCEPT ![c] = "serve"] /\ irq' = irq
  BY <1>s DEF Listen, Goto
<1> HIDE DEF x
<1>4. ~ In(q[s], c) /\ ~ Held(s, c) /\ q_sending[c] = NIL /\ ~ has_int_msg[c]
  BY <1>1, <1>2, Idle
<1>5. Await(c, ANY_TASK, "main", x)
  <2>1. ~ TakeQueued(c, ANY_TASK, "main", x)
    BY <1>4, Numbers DEF TakeQueued, From
  <2> QED BY <1>3, <1>4, <2>1 DEF msg_receive, TakeInt, TakesInt
<1>6. /\ \A p \in Proc \ {c} : Same(p)
      /\ pc'[c] = "serve" /\ p_flags'[c] = {RECEIVING} /\ p_recvfrom'[c] = ANY_TASK
      /\ has_int_msg'[c] = has_int_msg[c] /\ Main(c)' = x
      /\ Runner' /\ UNCHANGED <<kernel, q_sending, next_sending>>
  <2>1. Awaited(c, ANY_TASK, "main", x, "serve")
    BY <1>2, <1>3, <1>5, AwaitEffect, Zenon
  <2> QED BY <2>1 DEF Awaited
<1>7. DeskOK(s, q[s]) /\ q[s] \in Seq(Proc) /\ Linked(s, q[s]) /\ DeskInv(s, q[s])
  BY <1>1 DEF Queues, DeskOK
<1>8. \A d \in Client(s) : Held(s, d)' => Held(s, d)
  BY <1>2, <1>6 DEF Held, Holding, Same
<1>9. p_flags'[c] # {SENDING} /\ ~ Free(c)' /\ p_flags'[c] \in FlagWord
  BY <1>6, FlagsDiffer DEF Free, FlagWord
<1>10. ClientInv(s, c, q[s])'
  <2>1. ~ In(q[s], c)' /\ ~ Held(s, c)' /\ NIL # s
    BY <1>2, <1>4, <1>8, Numbers DEF In
  <2> QED BY <1>4, <1>6, <1>9, <2>1 DEF ClientInv
<1>11. DeskInv(s, q[s])'
  BY <1>2, <1>6, <1>7, DeskFrame
<1>12. Linked(s, q[s])'
  BY <1>6, <1>7 DEF Linked
<1>13. PartOK(s)'
  BY <1>2, <1>3, <1>6, PartFrame DEF Table
<1>14. PartOK(c)'
  <2>1. FsOK'
    BY <1>s, <1>2, <1>6 DEF FsOK
  <2>2. c # TASK_FLPY
    BY <1>s, <1>2
  <2> QED BY <1>2, <1>9, <2>1, <2>2 DEF PartOK
<1>15. \A p \in Client(s) : ~ In(q[s], p) => next_sending'[p] = NIL
  BY <1>1, <1>6, ApartClient
<1>16. \A p \in Proc : In(q[s], p) => p \in Client(s)
  BY <1>7 DEF DeskOK, In
<1>17. kernel' = "up"
  BY <1>2, <1>6 DEF Table
<1>18. \A p \in Proc \ {s, c} : Same(p) /\ q_sending'[p] = q_sending[p]
  BY <1>6
<1>fifo. s # TASK_SYS
  BY <1>s, Parties
<1> QED BY <1>1, <1>2, <1>3, <1>6, <1>7, <1>8, <1>10, <1>11, <1>12, <1>13, <1>14, <1>15, <1>16, <1>17, <1>18, <1>fifo, Together

(***************************************************************************)
(* All the steps.                                                          *)
(***************************************************************************)

\* What the users ask for: the system task's calls but EXCUTE.
Short == {"GET_TICKS", "EXIT"}

\* The programs call nothing else.
ShortCalls == \A u \in User : Calls[u] \subseteq Short

\* No user process sends another request in this step.
ShortStep == \A u \in User : UserSend(u) => Asked(u)'.type \in Short

\* The steps of the system task, of the file system, of a user process.
LEMMA SysSteps ==
  ASSUME TypeOK, Good, SysStep
  PROVE  GoodNext
<1>1. TASK_SYS \in Desk /\ TASK_SYS \in Proc
  BY Parties DEF Desk
<1>2. Running(TASK_SYS) => p_flags[TASK_SYS] # {RECEIVING}
  BY DEF Running, Good, Table, Runner
<1>3. SysOK
  BY <1>1 DEF Good, Table, PartOK
<1>4. ~ (ExecRefused \/ ExecStart)
  <2>1. AtPc(TASK_SYS, "serve") => Holding(TASK_SYS)
    BY <1>2, <1>3 DEF AtPc, SysOK
  <2> QED BY <2>1 DEF ExecRefused, ExecStart, Holding, Asks
<1>5. ~ (ExecCall \/ ExecAnswer \/ ExecDone)
  BY <1>3 DEF SysOK, ExecCall, ExecAnswer, ExecDone, Answer, AtPc
<1> QED BY <1>1, <1>4, <1>5, ListenStep, ExitStep, ReplyStep DEF SysStep

LEMMA FsSteps ==
  ASSUME TypeOK, Good, FsStep
  PROVE  GoodNext
<1>f. PICK s \in Desk : s = TASK_FLPY /\ TASK_FS \in Client(s)
  BY Parties DEF Desk
<1>s. PICK c \in Client(s) : s = TASK_FLPY /\ c = TASK_FS
  BY <1>f
<1>1. c \in Proc /\ c # TASK_SYS /\ c # TASK_FLPY /\ TASK_SYS # TASK_FLPY
  BY <1>s, Parties DEF Desk
<1>2. FsOK
  BY <1>s, <1>1 DEF Good, Table, PartOK
<1>3. ~ AtPc(c, "work") /\ ~ AtPc(c, "serve") /\ ~ AtPc(c, "reply")
  <2>1. Running(c) => p_flags[c] # {RECEIVING}
    BY DEF Running, Good, Table, Runner
  <2> QED BY <1>s, <1>2, <2>1 DEF AtPc, FsOK
<1>4. CASE Listen(TASK_FS)
  BY <1>4, FsListenStep
<1>5. CASE FsCallDisk
  <2>1. AtPc(c, "boot") /\ Call(c, "DEV_READ")
    BY <1>s, <1>3, <1>5 DEF FsCallDisk
  <2>2. PICK type \in Asks(s) : type = "DEV_READ"
    BY <1>s, <1>1, Parties DEF Asks
  <2> QED BY <2>1, <2>2, CallStep
<1>6. CASE FsAnswer
  <2>1. Answer(c, "loop")
    BY <1>s, <1>2, <1>6 DEF FsAnswer, FsOK, DiskCall
  <2>2. Then(c) = "loop"
    BY <1>s DEF Then
  <2> QED BY <2>1, <2>2, AnswerStep
<1>7. ~ (Reply(TASK_FS) \/ ReplyOutside(TASK_FS))
  BY <1>s, <1>1, <1>3 DEF Reply, ReplyOutside, Handled
<1> QED BY <1>4, <1>5, <1>6, <1>7 DEF FsStep

\* A user process that makes a call asks for what it called.
LEMMA SentType ==
  ASSUME TypeOK, Good, NEW u \in User, NEW type \in SysCall \cup FsCall, AtPc(u, "run"), Call(u, type)
  PROVE  Asked(u)'.type = type
<1>1. PICK q \in [Desk -> Seq(Proc)] : Queues(q)
  BY DEF Good
<1> DEFINE m == [source |-> u, type |-> type]
<1>d. PICK d \in Server : d = ServerOf(type)
  BY DEF ServerOf, Server
<1>2. u \in Proc /\ d \in Proc /\ u # d /\ "call" \in {"main", "call"} /\ m \in Message
  BY <1>d, MessagesBuilt, Numbers DEF MsgType
<1>3. Table /\ OneFlag /\ p_flags[u] = {}
  BY OneReason DEF Good, Table, Runner, AtPc, Running
<1> HIDE DEF m
<1>4. msg_send(u, d, "call", m) /\ pc' = [pc EXCEPT ![u] = "recv"]
  BY <1>d DEF Call, Goto, m
<1>5. ~ deadlockSpins(u, d)
  BY <1>1, <1>2, <1>3, NoSpin
<1>6. CASE Deliver(u, d, "call", m)
  <2>1. Delivered(u, d, "call", m, "recv")
    BY <1>2, <1>4, <1>6, DeliverEffect, Zenon
  <2> QED BY <2>1 DEF Delivered, m
<1>7. CASE Enqueue(u, d, "call", m)
  <2>1. Queued(u, d, "call", m, "recv")
    BY <1>2, <1>3, <1>4, <1>7, EnqueueEffect, Zenon
  <2> QED BY <2>1 DEF Queued, m
<1> QED BY <1>4, <1>5, <1>6, <1>7 DEF msg_send, SendSpins

LEMMA UserSteps ==
  ASSUME TypeOK, Good, ShortStep, NEW u \in User, UserStep(u)
  PROVE  GoodNext
<1>1. PICK s \in Desk : s = TASK_SYS /\ u \in Client(s) /\ Asks(s) = Short
  BY Parties DEF Desk, Asks, Short
<1>2. CASE UserSend(u)
  <2>1. PICK type \in SysCall \cup FsCall : AtPc(u, "run") /\ Call(u, type)
    BY <1>2, IpcAssumption DEF UserSend
  <2>2. type \in Asks(s)
    BY <1>1, <1>2, <2>1, SentType DEF ShortStep
  <2> QED BY <1>1, <2>1, <2>2, CallStep
<1>3. CASE UserRecv(u)
  <2>1. Then(u) = "run"
    BY Parties DEF Then
  <2> QED BY <1>1, <1>3, <2>1, AnswerStep DEF UserRecv
<1> QED BY <1>2, <1>3 DEF UserStep

\* Processes that may only ask for these do not ask for anything else.
LEMMA ShortAre ==
  ASSUME TypeOK, Good, ShortCalls
  PROVE  ShortStep
<1> SUFFICES ASSUME NEW u \in User, UserSend(u) PROVE Asked(u)'.type \in Short
  BY DEF ShortStep
<1>1. PICK type \in Calls[u] : AtPc(u, "run") /\ Call(u, type)
  BY DEF UserSend
<1>2. type \in SysCall \cup FsCall /\ type \in Short
  BY IpcAssumption DEF ShortCalls
<1> QED BY <1>1, <1>2, SentType

\* Every step keeps the invariant and makes a step of the queue.
LEMMA GoodStep ==
  ASSUME TypeOK, Good, ShortStep, [Next]_vars
  PROVE  GoodNext
<1>1. CASE UNCHANGED vars
  <2>1. UNCHANGED <<p_proc_ready, p_flags, p_msg, p_recvfrom, p_sendto, has_int_msg, q_sending, next_sending,
                    mem, pc, irq, kernel>>
    BY <1>1 DEF vars
  <2>2. \A p \in Proc : Same(p)
    BY <2>1 DEF Same, Lets, Main, Asked
  <2>3. Runner'
    BY <2>1 DEF Good, Table, Runner
  <2> QED BY <2>1, <2>2, <2>3, OnlySweeps
<1>2. CASE FlpyStep
  <2>1. TASK_FLPY \in Desk
    BY DEF Desk
  <2> QED BY <1>2, <2>1, ListenStep, CommandStep, WaitStep, ReplyStep DEF FlpyStep
<1>3. CASE \E u \in User : UserStep(u)
  BY <1>3, UserSteps
<1> QED BY <1>1, <1>2, <1>3, TickStep, IrqStep, SysSteps, FsSteps DEF Next

\* Power-on: every queue is empty and nobody waits.
LEMMA GoodInit ==
  ASSUME Init
  PROVE  Good
<1>1. TypeOK
  BY InitTypes
<1>2. \A p \in Proc : (p \in Started => p_flags[p] = {}) /\ (p \notin Started => p_flags[p] = {FREE_SLOT} /\ p \in User)
  <2>1. \A p \in Proc : p \notin Started => p \in User
    BY IpcAssumption DEF Started, User, Proc, NrProcs, NR_TASKS
  <2> QED BY <2>1 DEF Init
<1>3. /\ \A p \in Proc : /\ p_recvfrom[p] = 0 /\ ~ has_int_msg[p] /\ q_sending[p] = NIL
                         /\ next_sending[p] = NIL /\ Main(p) = Zeroed
      /\ irq = FALSE /\ kernel = "up" /\ p_proc_ready = TASK_TTY
  BY DEF Init, Main, Buf
<1>4. /\ \A p \in Proc : p_flags[p] # {SENDING} /\ p_flags[p] # {RECEIVING} /\ p_recvfrom[p] # ANY_TASK
      /\ Zeroed.type = "NONE" /\ 0 # ANY_TASK
  <2>1. 0 \in Proc
    BY Numbers DEF TASK_TTY
  <2> QED BY <1>2, <1>3, <2>1, FlagsDiffer, Numbers DEF Zeroed
<1>5. /\ \A u \in User : pc[u] = "run"
      /\ pc[TASK_SYS] = "loop" /\ pc[TASK_FLPY] = "boot" /\ pc[TASK_FS] = "boot"
  <2>1. User \subseteq Proc /\ TASK_SYS \in Proc /\ TASK_FLPY \in Proc /\ TASK_FS \in Proc
    BY Numbers DEF Server
  <2>2. \A u \in User : u # TASK_SYS /\ u # TASK_FLPY /\ u # TASK_FS
    BY Numbers DEF Server
  <2>3. TASK_SYS # TASK_FS /\ TASK_SYS # TASK_FLPY
    BY Parties DEF TASK_SYS, TASK_FS
  <2> QED BY <2>1, <2>2, <2>3 DEF Init
<1>6. /\ TASK_TTY \in Started /\ TASK_SYS \in Proc /\ TASK_FLPY \in Proc
      /\ \A s \in Desk : ~ Holding(s)
  <2>1. TASK_TTY \in Started
    BY IpcAssumption DEF Started, TASK_TTY, NR_TASKS
  <2>2. \A s \in Desk : pc[s] \in {"loop", "boot"}
    BY <1>5 DEF Desk
  <2> QED BY <2>1, <2>2, Parties DEF Desk, Holding
<1>7. \A p \in Proc : PartOK(p)
  <2> SUFFICES ASSUME NEW p \in Proc PROVE PartOK(p)
    OBVIOUS
  <2>1. p_flags[p] \in FlagWord /\ (Free(p) => p \in User)
    BY <1>2, FlagsDiffer DEF FlagWord, Free
  <2>2. p \in User => UserOK(p)
    BY <1>4, <1>5 DEF UserOK
  <2>3. p = TASK_SYS => SysOK
    BY <1>3, <1>4, <1>5 DEF SysOK
  <2>4. p = TASK_FLPY => FlpyOK
    <3>1. q_sending[TASK_FS] # TASK_FLPY
      BY <1>3, <1>6, Parties, Numbers
    <3> QED BY <1>3, <1>4, <1>5, <1>6, <3>1 DEF FlpyOK
  <2>5. p = TASK_FS => FsOK
    BY <1>3, <1>4, <1>5 DEF FsOK
  <2>6. p = TASK_TTY => TtyOK
    BY <1>2, <1>4, <1>6 DEF TtyOK
  <2> QED BY <2>1, <2>2, <2>3, <2>4, <2>5, <2>6 DEF PartOK
<1>8. Table
  BY <1>2, <1>3, <1>6, <1>7, Parties DEF Table, Runner
<1>9. PICK q \in [Desk -> Seq(Proc)] : \A s \in Desk : q[s] = <<>>
  <2>1. [s \in Desk |-> <<>>] \in [Desk -> Seq(Proc)]
    OBVIOUS
  <2> QED BY <2>1
<1>10. \A s \in Desk : \A p \in Proc : ~ In(q[s], p)
  BY <1>9 DEF In
<1>11. ASSUME NEW s \in Desk PROVE DeskOK(s, q[s])
  <2>1. s \in Proc /\ Client(s) \subseteq Proc /\ NIL # s
    BY Parties, Numbers
  <2>2. Linked(s, q[s])
    BY <1>3, <1>9, <2>1 DEF Linked
  <2>3. DeskInv(s, q[s])
    BY <1>4, <1>6, <2>1 DEF DeskInv
  <2>4. ASSUME NEW c \in Client(s) PROVE ClientInv(s, c, q[s])
    <3>1. pc[c] # "recv" /\ c \in Proc
      BY <1>5, <2>1 DEF Client
    <3> QED BY <1>3, <1>4, <1>6, <1>10, <2>1, <3>1 DEF ClientInv, Held
  <2> QED BY <1>9, <2>2, <2>3, <2>4 DEF DeskOK
<1> QED BY <1>3, <1>8, <1>11 DEF Good, Queues, Apart

(***************************************************************************)
(* What the invariant says about the properties.                           *)
(***************************************************************************)

\* KernelUp and ExitFromUser.
LEMMA UpAndFreesUsers ==
  ASSUME IInv
  PROVE  KernelUp /\ ExitFromUser
<1>1. PICK q \in [Desk -> Seq(Proc)] : Queues(q)
  BY DEF IInv, Good
<1>2. PICK s \in Desk : s = TASK_SYS /\ Client(s) = User /\ Asks(s) = {"GET_TICKS", "EXIT"}
  BY Parties DEF Desk, Asks
<1>3. Holding(s) => Main(s).source \in User
  BY <1>1, <1>2 DEF Queues, DeskOK, DeskInv
<1>4. ExitFromUser
  BY <1>2, <1>3 DEF ExitFromUser, Holding
<1> QED BY <1>4 DEF IInv, Good, Table, KernelUp

\* SenderQueued.
LEMMA SendersInQueue ==
  ASSUME IInv
  PROVE  SenderQueued
<1>1. PICK q \in [Desk -> Seq(Proc)] : Queues(q)
  BY DEF IInv, Good
<1> SUFFICES ASSUME NEW p \in Proc, SENDING \in p_flags[p]
             PROVE  OnChain(q_sending[p_sendto[p]], p)
  BY DEF SenderQueued
<1>2. p_flags[p] = {SENDING} /\ PartOK(p)
  BY FlagsDiffer DEF IInv, Good, Table, PartOK, FlagWord
<1>3. CASE \E s \in Desk : p \in Client(s)
  <2>1. PICK s \in Desk : p \in Client(s)
    BY <1>3
  <2>2. In(q[s], p) /\ p_sendto[p] = s /\ q[s] \in Seq(Proc) /\ Linked(s, q[s]) /\ s \in Proc
    BY <1>1, <1>2, <2>1, Parties DEF Queues, DeskOK, ClientInv
  <2> QED BY <2>2, OnChainIs
<1>4. CASE p \in Desk
  <2>1. q_sending[p_sendto[p]] = p
    BY <1>1, <1>2, <1>4 DEF Queues, DeskOK, DeskInv
  <2>2. Chain(p)[0] = p /\ 0 \in 0 .. NrProcs
    BY AlongIs, Numbers DEF Chain
  <2> QED BY <2>1, <2>2 DEF OnChain
<1>5. CASE p = TASK_TTY
  BY <1>2, <1>5 DEF PartOK, TtyOK
<1>6. \/ p = TASK_TTY \/ p = TASK_SYS \/ p = TASK_FLPY \/ p = TASK_FS \/ p \in User
  BY IpcAssumption DEF Proc, User, NrProcs, NR_TASKS, TASK_TTY, TASK_SYS, TASK_FLPY, TASK_FS
<1> QED BY <1>3, <1>4, <1>5, <1>6, Parties DEF Desk

\* A walk that starts at an entry without successor meets this entry only.
LEMMA Alone ==
  ASSUME NEW p \in Proc, next_sending[p] = NIL
  PROVE  \A n \in 0 .. NrProcs : Chain(p)[n] = IF n = 0 THEN p ELSE NIL
<1> DEFINE c == Chain(p)
           Bad == {n \in 0 .. NrProcs : c[n] # IF n = 0 THEN p ELSE NIL}
<1>1. NrProcs \in Nat /\ NIL \notin Proc
  BY Numbers
<1>2. c[0] = p /\ \A i \in 1 .. NrProcs : c[i] = IF c[i - 1] \in Proc THEN next_sending[c[i - 1]] ELSE NIL
  BY AlongIs DEF Chain
<1> HIDE DEF c
<1>3. SUFFICES ASSUME Bad # {} PROVE FALSE
  BY DEF c
<1>4. PICK k \in Bad : \A i \in Bad : k <= i
  <2>1. Bad \subseteq Nat
    BY <1>1
  <2> HIDE DEF Bad
  <2> QED BY <1>3, <2>1, Smallest
<1>5. k \in 1 .. NrProcs /\ c[k] # NIL /\ k - 1 \in 0 .. NrProcs
  BY <1>1, <1>2, <1>4
<1>6. k - 1 \notin Bad
  <2>1. ~ (k <= k - 1)
    BY <1>5
  <2> HIDE DEF Bad
  <2> QED BY <1>4, <2>1
<1>7. c[k - 1] = IF k - 1 = 0 THEN p ELSE NIL
  BY <1>5, <1>6
<1> QED BY <1>1, <1>2, <1>5, <1>7

\* QueuedHasMessage.
LEMMA QueuedKeepsMessage ==
  ASSUME IInv
  PROVE  QueuedHasMessage
<1>1. PICK q \in [Desk -> Seq(Proc)] : Queues(q)
  BY DEF IInv, Good
<1> SUFFICES ASSUME NEW p \in Proc, NEW s \in Server, OnChain(q_sending[s], p)
             PROVE  p_sendto[p] = s /\ p_msg[p] # "null"
  BY DEF QueuedHasMessage
<1>2. CASE s \in Desk
  <2>1. q[s] \in Seq(Proc) /\ Linked(s, q[s]) /\ s \in Proc
    BY <1>1, <1>2, Parties DEF Queues, DeskOK
  <2>2. In(q[s], p)
    BY <2>1, OnChainIs
  <2>3. p \in Client(s)
    BY <1>1, <1>2, <2>2 DEF Queues, DeskOK, In
  <2> QED BY <1>1, <1>2, <2>2, <2>3 DEF Queues, DeskOK, ClientInv
<1>3. CASE s = TASK_FS
  <2>1. PICK f \in Desk : f = TASK_FLPY /\ s \in Client(f)
    BY <1>3, Parties DEF Desk
  <2>2. q_sending[s] \in {NIL, f} /\ f \in Proc
    BY <1>1, <2>1, Parties DEF Queues, DeskOK, ClientInv
  <2>3. q_sending[s] = f
    <3>1. \A i \in 1 .. NrProcs : i \in Nat
      BY Numbers
    <3>2. CASE q_sending[s] = NIL
      <4> DEFINE Bad == {i \in 0 .. NrProcs : Chain(NIL)[i] # NIL}
      <4>1. /\ Chain(NIL)[0] = NIL
            /\ \A i \in 1 .. NrProcs : Chain(NIL)[i] = IF Chain(NIL)[i - 1] \in Proc
                                          THEN next_sending[Chain(NIL)[i - 1]] ELSE NIL
        BY AlongIs DEF Chain
      <4>2. Bad # {}
        BY <3>2, Numbers DEF OnChain
      <4>3. PICK k \in Bad : \A i \in Bad : k <= i
        <5>1. Bad \subseteq Nat
          BY Numbers
        <5> HIDE DEF Bad
        <5> QED BY <4>2, <5>1, Smallest
      <4>4. k \in 1 .. NrProcs /\ Chain(NIL)[k] # NIL /\ k - 1 \in 0 .. NrProcs
        BY <4>1, <4>3, Numbers
      <4>5. k - 1 \notin Bad
        <5>1. ~ (k <= k - 1)
          BY <4>4
        <5> HIDE DEF Bad
        <5> QED BY <4>3, <5>1
      <4> QED BY <4>1, <4>4, <4>5, Numbers
    <3> QED BY <2>2, <3>2
  <2>4. next_sending[f] = NIL
    BY <1>1, <2>1, ApartServer
  <2>5. p = f
    BY <2>2, <2>3, <2>4, Alone, Numbers DEF OnChain
  <2>6. FlpyOK
    BY <2>1, <2>2 DEF IInv, Good, Table, PartOK
  <2> QED BY <1>3, <2>1, <2>3, <2>5, <2>6 DEF FlpyOK
<1> QED BY <1>2, <1>3 DEF Server, Desk

\* The walk that starts at an entry of a queue meets the rest of the queue.
LEMMA ChainFrom ==
  ASSUME NEW s \in Proc, NEW q \in Seq(Proc), Linked(s, q), NEW m \in 1 .. Len(q), NEW n \in 0 .. NrProcs
  PROVE  Chain(q[m])[n] = IF m + n <= Len(q) THEN q[m + n] ELSE NIL
<1> DEFINE c == Chain(q[m])
           want(i) == IF m + i <= Len(q) THEN q[m + i] ELSE NIL
           Bad == {i \in 0 .. NrProcs : c[i] # want(i)}
<1>1. NrProcs \in Nat /\ NIL \notin Proc /\ Len(q) \in Nat /\ m \in Nat
  BY Numbers
<1>2. c[0] = q[m] /\ \A i \in 1 .. NrProcs : c[i] = IF c[i - 1] \in Proc THEN next_sending[c[i - 1]] ELSE NIL
  BY AlongIs DEF Chain
<1> HIDE DEF c
<1>3. SUFFICES ASSUME Bad # {} PROVE FALSE
  BY DEF c
<1>4. PICK k \in Bad : \A i \in Bad : k <= i
  <2>1. Bad \subseteq Nat
    BY <1>1
  <2> HIDE DEF Bad
  <2> QED BY <1>3, <2>1, Smallest
<1>5. k \in 0 .. NrProcs /\ c[k] # want(k)
  BY <1>4
<1>6. k # 0
  BY <1>1, <1>2, <1>5
<1>7. k \in 1 .. NrProcs /\ k - 1 \in 0 .. NrProcs
  BY <1>1, <1>5, <1>6
<1>8. k - 1 \notin Bad
  <2>1. ~ (k <= k - 1)
    BY <1>7
  <2> HIDE DEF Bad
  <2> QED BY <1>4, <2>1
<1>9. c[k - 1] = want(k - 1)
  BY <1>7, <1>8
<1>10. CASE m + (k - 1) <= Len(q)
  <2>1. m + (k - 1) \in 1 .. Len(q) /\ q[m + (k - 1)] \in Proc /\ c[k - 1] = q[m + (k - 1)]
    BY <1>1, <1>7, <1>9, <1>10
  <2>2. next_sending[q[m + (k - 1)]] = IF m + (k - 1) = Len(q) THEN NIL ELSE q[(m + (k - 1)) + 1]
    BY <2>1 DEF Linked
  <2>3. c[k] = IF m + (k - 1) = Len(q) THEN NIL ELSE q[(m + (k - 1)) + 1]
    BY <1>2, <1>7, <2>1, <2>2
  <2>4. (m + (k - 1)) + 1 = m + k /\ (m + k <= Len(q) <=> m + (k - 1) # Len(q))
    BY <1>1, <1>7, <1>10
  <2> QED BY <1>5, <2>3, <2>4
<1>11. CASE ~ (m + (k - 1) <= Len(q))
  BY <1>1, <1>2, <1>5, <1>7, <1>9, <1>11
<1> QED BY <1>10, <1>11

\* QueuesEnd.
LEMMA ChainsEnd ==
  ASSUME IInv
  PROVE  QueuesEnd
<1>1. PICK q \in [Desk -> Seq(Proc)] : Queues(q)
  BY DEF IInv, Good
<1> SUFFICES ASSUME NEW p \in Proc
             PROVE  Chain(p)[NrProcs] = NIL
  BY DEF QueuesEnd
<1>2. NrProcs \in Nat /\ NrProcs # 0 /\ NrProcs \in 0 .. NrProcs
  BY Numbers
<1>3. CASE \A s \in Desk : ~ In(q[s], p)
  <2>1. next_sending[p] = NIL
    BY <1>1, <1>3 DEF Queues, Apart
  <2> QED BY <1>2, <2>1, Alone
<1>4. CASE \E s \in Desk : In(q[s], p)
  <2>1. PICK s \in Desk : In(q[s], p)
    BY <1>4
  <2>2. q[s] \in Seq(Proc) /\ Linked(s, q[s]) /\ s \in Proc
    BY <1>1, Parties DEF Queues, DeskOK
  <2>3. PICK m \in 1 .. Len(q[s]) : q[s][m] = p
    BY <2>1 DEF In
  <2>4. Len(q[s]) <= NrProcs /\ Len(q[s]) \in Nat
    BY <2>2, QueueFits DEF Linked
  <2>5. ~ (m + NrProcs <= Len(q[s]))
    BY <1>2, <2>4
  <2> QED BY <1>2, <2>2, <2>3, <2>5, ChainFrom
<1> QED BY <1>3, <1>4

\* ReplyOwed.
LEMMA RepliesOwed ==
  ASSUME IInv
  PROVE  ReplyOwed
<1>1. PICK q \in [Desk -> Seq(Proc)] : Queues(q)
  BY DEF IInv, Good
<1> SUFFICES ASSUME NEW s \in Server, Handled(s)
             PROVE  LET u == Main(s).source
                    IN  /\ u \in Proc
                        /\ \/ pc[u] = "recv" /\ ServerOf(Asked(u).type) = s
                           \/ RECEIVING \in p_flags[u] /\ p_recvfrom[u] = s
                           \/ Free(u)
  BY DEF ReplyOwed
<1>2. Table /\ Runner /\ p_proc_ready = s
  BY DEF IInv, Good, Table, Handled, AtPc, Running
<1>3. CASE s \in Desk
  <2> DEFINE u == Main(s).source
  <2>1. u \in Client(s) /\ Held(s, u) /\ u \in Proc
    BY <1>1, <1>2, <1>3, AtReply, Parties DEF IInv
  <2>2. ClientInv(s, u, q[s])
    BY <1>1, <1>3, <2>1 DEF Queues, DeskOK
  <2>3. Waiting(s, u) \/ Free(u)
    BY <2>1, <2>2 DEF ClientInv
  <2>4. pc[u] = "recv" => ServerOf(Asked(u).type) = s
    BY <1>1, <1>3, <2>1, Unanswered
  <2> HIDE DEF u
  <2>5. \/ pc[u] = "recv" /\ ServerOf(Asked(u).type) = s
        \/ RECEIVING \in p_flags[u] /\ p_recvfrom[u] = s
        \/ Free(u)
    BY <2>3, <2>4 DEF Waiting
  <2> QED BY <2>1, <2>5 DEF u
<1>4. CASE s = TASK_FS
  <2>1. s \in Proc /\ s # TASK_SYS /\ s # TASK_FLPY
    BY <1>4, Parties DEF Desk
  <2>2. FsOK /\ p_flags[s] # {RECEIVING}
    BY <1>2, <1>4, <2>1 DEF Table, PartOK, Runner
  <2> QED BY <1>4, <2>1, <2>2 DEF Handled, AtPc, FsOK
<1> QED BY <1>3, <1>4 DEF Server, Desk

\* With programs that ask only for the clock and for EXIT every state, from
\* power-on, is one of the invariant: each queue is a list of different clients
\* that wait for its server.
THEOREM QueueStates == ASSUME ShortCalls PROVE Spec => []IInv
<1>1. Init => IInv
  BY InitTypes, GoodInit DEF IInv
<1>2. IInv /\ [Next]_vars => IInv'
  BY ShortCalls, ShortAre, StepTypes, GoodStep DEF IInv, GoodNext
<1> QED BY <1>1, <1>2, PTL DEF Spec

\* With short calls the kernel never loops in a walk of deadlock() and never
\* replies to an entry outside proc_table: senders never form a ring.
THEOREM ServesOn == ASSUME ShortCalls PROVE Spec => []KernelUp
<1>1. IInv => KernelUp
  BY UpAndFreesUsers
<1> QED BY <1>1, QueueStates, PTL

\* The slot do_exit() frees is always one of a user process, because no reply
\* finds its way back to the system task as a request.
THEOREM ExitsAreUsers == ASSUME ShortCalls PROVE Spec => []ExitFromUser
<1>1. IInv => ExitFromUser
  BY UpAndFreesUsers
<1> QED BY <1>1, QueueStates, PTL

\* Whatever is appended, taken and swept, a process blocked in msg_send() stands
\* in the queue of the process it sends to: the append loses nobody.
THEOREM SendersStandInQueue == ASSUME ShortCalls PROVE Spec => []SenderQueued
<1>1. IInv => SenderQueued
  BY SendersInQueue
<1> QED BY <1>1, QueueStates, PTL

\* Every entry of the queue of a server still names the server and the buffer its
\* message is in, also when schedule() let its process out of the send.
THEOREM QueuedMessagesStay == ASSUME ShortCalls PROVE Spec => []QueuedHasMessage
<1>1. IInv => QueuedHasMessage
  BY QueuedKeepsMessage
<1> QED BY <1>1, QueueStates, PTL

\* The links of proc_table never form a ring, so the walks of msg_send() and
\* msg_receive() along a queue end.
THEOREM WalksEnd == ASSUME ShortCalls PROVE Spec => []QueuesEnd
<1>1. IInv => QueuesEnd
  BY ChainsEnd
<1> QED BY <1>1, QueueStates, PTL

\* A server replies only to a process that waits for this reply or was freed by
\* do_exit(): no request is answered twice.
THEOREM RepliesAreOwed == ASSUME ShortCalls PROVE Spec => []ReplyOwed
<1>1. IInv => ReplyOwed
  BY RepliesOwed
<1> QED BY <1>1, QueueStates, PTL

\* With short calls the assumption of IpcProofs about do_exit() holds: receivers
\* wait for somebody and stay blocked until a message comes, the processor is at
\* no free slot, a slot that do_excute() has chosen stays free, and the memory of
\* a process that exited is left alone although a reply to it stands in its
\* queue.
THEOREM SlotsAreSafe ==
  ASSUME ShortCalls
  PROVE  Spec => []WaitNamed /\ []RunnerReady /\ []SlotKept /\ ReceiverStays /\ DeadMemory
BY ExitsAreUsers, WaitsNamed, RunnerKeepsSlot, SlotStaysFree, ReceiversWait,
   ExitedIsLeftAlone, PTL

(***************************************************************************)
(* The queue of the system task implements SysQueue.                       *)
(***************************************************************************)

\* In a state of the invariant the mapping of MCIpc reads off the sequence,
\* the request held and the clients that wait.
View ==
  /\ \A q \in Seq(Proc) : Linked(TASK_SYS, q) => QueueOf(TASK_SYS) = q
  /\ Holds(TASK_SYS) <=> Holding(TASK_SYS)
  /\ Asking = Opened(TASK_SYS)

\* The mapping of MCIpc reads off the sequence in the linked list.
LEMMA QueueRead ==
  ASSUME NEW s \in Proc, NEW q \in Seq(Proc), Linked(s, q)
  PROVE  QueueOf(s) = q
<1> DEFINE c == Chain(q_sending[s])
           ends(i) == c[i] = NIL /\ \A j \in 0 .. (i - 1) : c[j] # NIL
<1>1. Len(q) \in Nat /\ Len(q) <= NrProcs /\ NrProcs \in Nat /\ NIL \notin Proc
  BY QueueFits, Numbers DEF Linked
<1>2. \A n \in 0 .. NrProcs : c[n] = IF n < Len(q) THEN q[n + 1] ELSE NIL
  BY ChainIs
<1> HIDE DEF c
<1>3. \A n \in 0 .. NrProcs : n < Len(q) => c[n] # NIL
  <2> SUFFICES ASSUME NEW n \in 0 .. NrProcs, n < Len(q) PROVE c[n] # NIL
    OBVIOUS
  <2>1. n + 1 \in 1 .. Len(q)
    BY <1>1
  <2> QED BY <1>1, <1>2, <2>1
<1>4. Len(q) \in 0 .. NrProcs /\ ends(Len(q))
  <2>1. \A j \in 0 .. (Len(q) - 1) : j \in 0 .. NrProcs /\ j < Len(q)
    BY <1>1
  <2> QED BY <1>1, <1>2, <1>3, <2>1
<1>5. ASSUME NEW i \in 0 .. NrProcs, ends(i) PROVE i = Len(q)
  <2>1. ~ (i < Len(q))
    BY <1>3, <1>5
  <2>2. Len(q) < i => Len(q) \in 0 .. (i - 1)
    BY <1>1
  <2>3. c[Len(q)] = NIL
    BY <1>4
  <2> QED BY <1>1, <1>5, <2>1, <2>2, <2>3
<1>6. (CHOOSE i \in 0 .. NrProcs : ends(i)) = Len(q)
  BY <1>4, <1>5
<1>7. QueueOf(s) = [i \in 1 .. Len(q) |-> c[i - 1]]
  BY <1>6 DEF QueueOf, c
<1>8. ASSUME NEW i \in 1 .. Len(q) PROVE c[i - 1] = q[i]
  <2>1. i - 1 \in 0 .. NrProcs /\ i - 1 < Len(q) /\ (i - 1) + 1 = i
    BY <1>1
  <2> QED BY <1>2, <2>1
<1> QED BY <1>7, <1>8

\* The invariant gives this view.
LEMMA Viewed ==
  ASSUME IInv
  PROVE  View
<1>1. PICK q \in [Desk -> Seq(Proc)] : Queues(q)
  BY DEF IInv, Good
<1>2. TASK_SYS \in Desk /\ TASK_SYS \in Proc /\ Client(TASK_SYS) = User /\ User \subseteq Proc
  BY Parties, Numbers DEF Desk
<1>3. SysOK /\ p_flags[TASK_SYS] \in FlagWord
  BY <1>2 DEF IInv, Good, Table, PartOK
<1>4. Holds(TASK_SYS) <=> Holding(TASK_SYS)
  <2>1. RECEIVING \in p_flags[TASK_SYS] <=> p_flags[TASK_SYS] = {RECEIVING}
    BY <1>3, FlagsDiffer DEF FlagWord
  <2>2. Holding(TASK_SYS) => p_flags[TASK_SYS] # {RECEIVING} /\ pc[TASK_SYS] \in {"serve", "reply"}
    <3>1. DeskInv(TASK_SYS, q[TASK_SYS])
      BY <1>1, <1>2 DEF Queues, DeskOK
    <3> QED BY <1>3, <3>1 DEF SysOK, DeskInv, Holding, Asks
  <2> QED BY <1>3, <2>1, <2>2 DEF Holds, SysOK, Holding
<1>5. ASSUME NEW u \in User
      PROVE  (pc[u] = "recv" \/ RECEIVING \in p_flags[u] \/ Free(u)) <=> (Waiting(TASK_SYS, u) \/ Free(u))
  <2>1. UserOK(u) /\ p_flags[u] \in FlagWord
    BY <1>2 DEF IInv, Good, Table, PartOK
  <2>2. RECEIVING \in p_flags[u] <=> p_flags[u] = {RECEIVING}
    BY <2>1, FlagsDiffer DEF FlagWord
  <2> QED BY <2>1, <2>2 DEF Waiting, Free, UserOK, FlagWord
<1>6. Asking = Opened(TASK_SYS)
  BY <1>2, <1>5 DEF Asking, Opened
<1>7. \A t \in Seq(Proc) : Linked(TASK_SYS, t) => QueueOf(TASK_SYS) = t
  BY <1>2, QueueRead
<1> QED BY <1>4, <1>6, <1>7 DEF View

\* A step of the queue is a step of SysQueue.
LEMMA MapsTo ==
  ASSUME View, View', Fifo, workload' = workload
  PROVE  [Q!Next]_(Q!vars)
<1>1. CASE workload = "sys"
  <2>1. PICK q \in Seq(Proc), t \in Seq(Proc) :
          Linked(TASK_SYS, q) /\ Linked(TASK_SYS, t)' /\ FifoStep(TASK_SYS, q, t)
    BY DEF Fifo
  <2>2. InSys /\ InSys' /\ Client(TASK_SYS) = User
    BY <1>1, Parties DEF InSys
  <2> DEFINE queue == IF InSys THEN QueueOf(TASK_SYS) ELSE <<>>
             served == IF InSys /\ Holds(TASK_SYS) THEN Main(TASK_SYS).source ELSE NIL
             open == IF InSys THEN Asking ELSE {}
  <2>3. queue = q /\ queue' = t
    BY <2>1, <2>2 DEF View
  <2>4. served = Serves(TASK_SYS) /\ served' = Serves(TASK_SYS)'
    BY <2>2 DEF View, Serves
  <2>5. open = Opened(TASK_SYS) /\ open' = Opened(TASK_SYS)'
    BY <2>2 DEF View
  <2> HIDE DEF queue, served, open
  <2>6. CASE Joined(TASK_SYS, q, t)
    <3>1. PICK c \in User : Q!Ask(c)
      BY <2>2, <2>3, <2>4, <2>5, <2>6 DEF Joined, Q!Ask, queue, served, open
    <3> QED BY <3>1 DEF Q!Next
  <2>7. CASE Took(TASK_SYS, q, t)
    <3>1. Head(q) = q[1]
      BY <2>7 DEF Took
    <3>2. Q!Take
      BY <2>3, <2>4, <2>5, <2>7, <3>1 DEF Took, Q!Take, queue, served, open
    <3> QED BY <3>2 DEF Q!Next
  <2>8. CASE Answered(TASK_SYS, q, t)
    BY <2>3, <2>4, <2>5, <2>8 DEF Answered, Q!Next, Q!Answer, queue, served, open
  <2>9. CASE Collected(TASK_SYS, q, t)
    <3>1. PICK c \in User : Q!Collect(c)
      BY <2>2, <2>3, <2>4, <2>5, <2>9 DEF Collected, Opened, In, Q!Collect, queue, served, open
    <3> QED BY <3>1 DEF Q!Next
  <2>10. CASE Rests(TASK_SYS, q, t)
    BY <2>3, <2>4, <2>5, <2>10 DEF Rests, Q!vars, queue, served, open
  <2> QED BY <2>1, <2>6, <2>7, <2>8, <2>9, <2>10 DEF FifoStep
<1>2. CASE workload # "sys"
  BY <1>2 DEF Q!vars, InSys
<1> QED BY <1>1, <1>2

\* The state after boot: the three servers wait for their first request.
LEMMA GoodBooted ==
  ASSUME BootedInit
  PROVE  IInv
<1>1. TypeOK
  <2>1. \A p \in Proc : Zeroed \in Message /\ [Zeroed EXCEPT !.source = p] \in Message
                        /\ [source |-> INTERRUPT, type |-> "HARD_INT"] \in Message
                        /\ [source |-> TASK_FLPY, type |-> "DEV_READ"] \in Message /\ Junk \in Message
    <3>1. 0 \in Source /\ WILD \in Source /\ INTERRUPT \in Source /\ Proc \subseteq Source /\ TASK_FLPY \in Source
      BY Numbers DEF Source, TASK_TTY, Server
    <3>2. {"NONE", "JUNK", "HARD_INT", "DEV_READ"} \subseteq MsgType
      BY DEF MsgType
    <3> QED BY <3>1, <3>2 DEF Message, Zeroed, Junk
  <2>2. mem \in [Proc -> [Buf -> Message]]
    BY <2>1 DEF BootedInit, Buf
  <2> QED BY <2>2, Numbers DEF BootedInit, TypeOK, Buf, Pc, Flag, TASK_TTY
<1>2. /\ \A p \in Proc : /\ q_sending[p] = NIL /\ next_sending[p] = NIL /\ ~ has_int_msg[p]
                         /\ p \in Server => /\ p_flags[p] = {RECEIVING} /\ p_recvfrom[p] = ANY_TASK
                                            /\ p_msg[p] = "main" /\ pc[p] = "serve"
                                            /\ Main(p).type = "NONE"
                         /\ p \notin Server => /\ p_flags[p] = IF p \in Started THEN {} ELSE {FREE_SLOT}
                                               /\ p_recvfrom[p] = 0 /\ pc[p] = "run"
      /\ irq = FALSE /\ kernel = "up" /\ p_proc_ready = TASK_TTY
  BY DEF BootedInit, Main, Buf, Zeroed
<1>3. /\ Server \subseteq Proc /\ Desk \subseteq Server /\ TASK_FS \in Server /\ TASK_TTY \notin Server
      /\ TASK_TTY \in Proc /\ TASK_TTY \in Started /\ 0 # ANY_TASK
      /\ User \cap Server = {} /\ User \subseteq Proc
      /\ \A p \in Proc : p \notin Server /\ p # TASK_TTY => p \in User
  BY IpcAssumption, Numbers DEF Server, Desk, Started, User, Proc, NrProcs, NR_TASKS, TASK_TTY, TASK_SYS,
     TASK_FLPY, TASK_FS, ANY_TASK
<1>4. {RECEIVING} # {SENDING} /\ {RECEIVING} # {} /\ {RECEIVING} # {FREE_SLOT} /\ {FREE_SLOT} # {}
      /\ {FREE_SLOT} # {SENDING}
  BY FlagsDiffer
<1>5. \A s \in Desk : ~ Holding(s)
  BY <1>2, <1>3 DEF Holding, Asks
<1>6. \A p \in Proc : PartOK(p)
  <2> SUFFICES ASSUME NEW p \in Proc PROVE PartOK(p)
    OBVIOUS
  <2>1. p_flags[p] \in FlagWord /\ (Free(p) => p \in User)
    BY <1>2, <1>3, <1>4 DEF FlagWord, Free, Server
  <2>2. p \in User => UserOK(p)
    BY <1>2, <1>3, <1>4 DEF UserOK
  <2>3. p = TASK_SYS => SysOK
    BY <1>2, <1>3, <1>4 DEF SysOK, Desk
  <2>4. p = TASK_FLPY => FlpyOK
    <3>1. q_sending[TASK_FS] # TASK_FLPY /\ TASK_FLPY \in Server
      BY <1>2, <1>3, Numbers DEF Desk
    <3> QED BY <1>2, <1>3, <1>4, <3>1 DEF FlpyOK
  <2>5. p = TASK_FS => FsOK
    BY <1>2, <1>3, <1>4 DEF FsOK
  <2>6. p = TASK_TTY => TtyOK
    BY <1>2, <1>3 DEF TtyOK
  <2> QED BY <2>1, <2>2, <2>3, <2>4, <2>5, <2>6 DEF PartOK
<1>7. Table
  BY <1>2, <1>3, <1>6 DEF Table, Runner
<1>8. PICK q \in [Desk -> Seq(Proc)] : \A s \in Desk : q[s] = <<>>
  <2>1. [s \in Desk |-> <<>>] \in [Desk -> Seq(Proc)]
    OBVIOUS
  <2> QED BY <2>1
<1>9. \A s \in Desk : \A p \in Proc : ~ In(q[s], p)
  BY <1>8 DEF In
<1>10. ASSUME NEW s \in Desk PROVE DeskOK(s, q[s])
  <2>1. s \in Proc /\ Client(s) \subseteq Proc /\ NIL # s /\ s \in Server
    BY <1>3, Parties, Numbers
  <2>2. Linked(s, q[s])
    BY <1>2, <1>8, <2>1 DEF Linked
  <2>3. DeskInv(s, q[s])
    BY <1>2, <1>4, <1>5, <1>8, <2>1 DEF DeskInv
  <2>4. ASSUME NEW c \in Client(s) PROVE ClientInv(s, c, q[s])
    <3>1. pc[c] # "recv" /\ c \in Proc /\ p_flags[c] # {SENDING}
      BY <1>2, <1>4, <2>1
    <3> QED BY <1>2, <1>5, <1>9, <2>1, <3>1 DEF ClientInv, Held
  <2> QED BY <1>8, <2>2, <2>3, <2>4 DEF DeskOK
<1> QED BY <1>1, <1>2, <1>7, <1>10 DEF IInv, Good, Queues, Apart

\* In the workload of the system task the users ask only for the clock and
\* for EXIT.
LEMMA SysIsShort ==
  ASSUME TypeOK, InSys, Forever
  PROVE  ShortStep
<1> SUFFICES ASSUME NEW u \in User, UserSend(u) PROVE Asked(u)'.type \in Short
  BY DEF ShortStep
<1>1. Sent(u)
  BY Numbers DEF UserSend, AtPc, Call, Goto, Sent, TypeOK
<1>2. Uses(workload, u) \subseteq Short
  BY DEF InSys, Uses, Short
<1> QED BY <1>1, <1>2 DEF Forever, Works

\* While any number of user processes ask the system task for the clock, over
\* and over, and one of them exits, its linked list is a queue: each request is
\* taken once and in the order it was sent, whatever the clock tick and the
\* sweep of schedule() do to the clients in it.
THEOREM QueueIsFifo == ForeverSpec => FifoOnce
<1> DEFINE SInv == InSys => IInv
<1>1. Start => SInv /\ Q!Init
  <2> SUFFICES ASSUME Start PROVE SInv /\ Q!Init
    OBVIOUS
  <2>1. SInv
    BY GoodBooted DEF Start, InSys
  <2>2. CASE InSys
    <3>1. TASK_SYS \in Proc /\ TASK_SYS \in Server
      BY Numbers DEF Server
    <3>2. q_sending[TASK_SYS] = NIL /\ p_flags[TASK_SYS] = {RECEIVING}
      BY <2>2, <3>1 DEF Start, InSys, BootedInit
    <3>3. ~ Holds(TASK_SYS)
      BY <3>2 DEF Holds
    <3>4. Linked(TASK_SYS, <<>>)
      BY <3>2 DEF Linked
    <3>5. QueueOf(TASK_SYS) = <<>>
      <4>1. <<>> \in Seq(Proc)
        OBVIOUS
      <4> QED BY <3>1, <3>4, <4>1, QueueRead
    <3> QED BY <2>1, <3>3, <3>5 DEF Q!Init, Asking
  <2>3. CASE ~ InSys
    BY <2>1, <2>3 DEF Q!Init
  <2> QED BY <2>2, <2>3
<1>2. SInv => (InSys => View)
  BY Viewed
<1>3. ASSUME SInv, [Forever]_all, InSys
      PROVE  IInv' /\ GoodNext
  <2>1. IInv /\ [Next]_vars
    BY <1>3 DEF Forever, Works, all
  <2>2. ShortStep
    <3>1. CASE Forever
      BY <1>3, <2>1, <3>1, SysIsShort DEF IInv
    <3>2. CASE UNCHANGED all
      <4>1. ASSUME NEW u \in User, UserSend(u) PROVE FALSE
        <5>1. pc[u] = "run" /\ pc' = pc /\ u \in Proc /\ pc \in [Proc -> Pc]
          BY <2>1, <3>2, <4>1, Numbers DEF all, vars, UserSend, AtPc, IInv, TypeOK
        <5>2. pc' = [pc EXCEPT ![u] = "recv"]
          BY <4>1 DEF UserSend, Call, Goto
        <5> QED BY <5>1, <5>2
      <4> QED BY <4>1 DEF ShortStep
    <3> QED BY <1>3, <3>1, <3>2
  <2> QED BY <2>1, <2>2, StepTypes, GoodStep DEF IInv, GoodNext
<1>4. [Forever]_all => workload' = workload /\ (InSys' <=> InSys)
  BY DEF Forever, Works, all, InSys
<1>5. SInv /\ [Forever]_all => SInv'
  BY <1>3, <1>4
<1>6. (InSys => View) /\ (InSys => View)' /\ SInv /\ [Forever]_all => [Q!Next]_(Q!vars)
  <2> SUFFICES ASSUME (InSys => View), (InSys => View)', SInv, [Forever]_all
               PROVE  [Q!Next]_(Q!vars)
    OBVIOUS
  <2>1. CASE InSys
    <3>1. View /\ View' /\ Fifo
      BY <1>3, <1>4, <2>1 DEF GoodNext
    <3> QED BY <1>4, <3>1, MapsTo
  <2>2. CASE ~ InSys
    BY <1>4, <2>2 DEF Q!vars
  <2> QED BY <2>1, <2>2
<1> QED BY <1>1, <1>2, <1>5, <1>6, PTL DEF ForeverSpec, FifoOnce, Q!Spec

=============================================================================
