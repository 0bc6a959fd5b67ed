------------------------------- MODULE MCIpc -------------------------------
(***************************************************************************)
(* Workloads, starting points and fairness for model checking Ipc, the     *)
(* abstraction of the system task's queue, the liveness properties, and    *)
(* what the comments of ipc.cpp claim.                                     *)
(***************************************************************************)
EXTENDS Ipc, Sequences

CONSTANT Workloads   \* those a run covers
VARIABLES
  workload,   \* what the user processes call, chosen at the start
  issued      \* library calls each made so far, where they are bounded

First == NR_TASKS    \* the first user slot

(***************************************************************************)
(* Workloads.  Limit bounds the library calls of each user process.        *)
(***************************************************************************)
Uses(w, p) ==
  CASE w = "boot" -> {}
    [] w = "sys"  -> IF p = First THEN {"GET_TICKS", "EXIT"} ELSE {"GET_TICKS"}
    [] w = "full" -> IF p = First THEN {"EXCUTE"} ELSE {"GET_TICKS"}
    [] w = "file" -> IF p = First THEN {"OPEN", "CLOSE"} ELSE {}
    [] w = "lone" -> IF p = First THEN {"EXCUTE", "OPEN", "CLOSE"} ELSE {}
    [] w = "exec" -> IF p = First THEN {"EXCUTE"} ELSE {"EXIT", "CLOSE"}
    [] w = "disk" -> IF p = First THEN {"OPEN"} ELSE {"CLOSE"}

Limit(w, p) == IF w = "exec" /\ p = First THEN 1 ELSE 2

AllCalls == [p \in User |-> UNION {Uses(w, p) : w \in Workloads}]

(***************************************************************************)
(* Starting points: power-on, and the state the boot sequence reaches when *)
(* no user process has called anything yet (property BootSettles): the     *)
(* three servers wait for their first request.                             *)
(***************************************************************************)
Listening(p) == p_flags[p] = {RECEIVING} /\ p_recvfrom[p] = ANY_TASK

BootedInit ==
  /\ p_proc_ready = TASK_TTY
  /\ p_flags = [p \in Proc |-> IF p \in Server THEN {RECEIVING}
                               ELSE IF p \in Started THEN {} ELSE {FREE_SLOT}]
  /\ p_msg = [p \in Proc |-> IF p \in Server THEN "main" ELSE "null"]
  /\ p_recvfrom = [p \in Proc |-> IF p \in Server THEN ANY_TASK ELSE 0]
  /\ p_sendto = [p \in Proc |-> IF p = TASK_FS THEN NO_TASK ELSE 0]
  /\ has_int_msg = [p \in Proc |-> FALSE]
  /\ q_sending = [p \in Proc |-> NIL]
  /\ next_sending = [p \in Proc |-> NIL]
  /\ p_base = [p \in Proc |-> FALSE]
  /\ mem = [p \in Proc |-> [b \in Buf |->
       CASE b = "null" -> Junk
         [] b = "main" -> IF p \in Server THEN [Zeroed EXCEPT !.source = p] ELSE Zeroed
         [] b = "call" -> IF p = TASK_FS THEN [source |-> TASK_FLPY, type |-> "DEV_READ"]
                          ELSE IF p = TASK_FLPY
                                 THEN [source |-> INTERRUPT, type |-> "HARD_INT"]
                                 ELSE Zeroed]]
  /\ pc = [p \in Proc |-> IF p \in Server THEN "serve" ELSE "run"]
  /\ child_pid = NIL
  /\ irq = FALSE
  /\ kernel = "up"

(***************************************************************************)
(* Specifications.  The clock never stops; a process that gets the         *)
(* processor again and again ends the call it is in, because a tick        *)
(* interval is much longer than any of the steps; the controller answers   *)
(* each command; the driver and the file system give a request a bounded   *)
(* number of commands and sector reads.  A user process owes nobody a      *)
(* call, but it does receive after it has sent.                            *)
(***************************************************************************)
Sent(p) == pc[p] = "run" /\ pc'[p] = "recv"

Works ==
  /\ Next /\ UNCHANGED workload
  /\ \A p \in User : Sent(p) => Asked(p)'.type \in Uses(workload, p)

Forever == Works /\ UNCHANGED issued

Bounded ==
  /\ Works
  /\ issued' = [p \in User |-> issued[p] + IF Sent(p) THEN 1 ELSE 0]
  /\ \A p \in User : issued'[p] <= Limit(workload, p)

Fairness ==
  /\ WF_vars(Tick) /\ WF_vars(FloppyIrq)
  /\ SF_vars(SysStep) /\ SF_vars(FsStep) /\ SF_vars(FlpyStep)
  /\ SF_vars(Reply(TASK_FS)) /\ SF_vars(Reply(TASK_FLPY)) /\ SF_vars(Listen(TASK_FLPY))
  /\ \A p \in User : SF_vars(UserRecv(p))

all == <<vars, workload, issued>>

Start ==
  /\ workload \in Workloads
  /\ IF workload = "boot" THEN Init ELSE BootedInit
  /\ issued = [p \in User |-> 0]

ForeverSpec == Start /\ [][Forever]_all /\ Fairness
BoundedSpec == Start /\ [][Bounded]_all

(***************************************************************************)
(* The queue of the system task implements SysQueue, while only users      *)
(* have requests for it; in the other workloads the picture stands still.  *)
(***************************************************************************)
QueueOf(s) ==
  LET c == Chain(q_sending[s])
      n == CHOOSE i \in 0 .. NrProcs : c[i] = NIL /\ \A j \in 0 .. (i - 1) : c[j] # NIL
  IN  [i \in 1 .. n |-> c[i - 1]]

Holds(s) == RECEIVING \notin p_flags[s] /\ pc[s] \in {"serve", "reply"}

Asking == {u \in User : pc[u] = "recv" \/ RECEIVING \in p_flags[u] \/ Free(u)}

InSys == workload = "sys"

Q == INSTANCE SysQueue WITH
       Client <- User, NoClient <- NIL,
       queue <- IF InSys THEN QueueOf(TASK_SYS) ELSE <<>>,
       served <- IF InSys /\ Holds(TASK_SYS) THEN Main(TASK_SYS).source ELSE NIL,
       open <- IF InSys THEN Asking ELSE {}

\* The linked list of p_flags, q_sending and next_sending behaves as a queue
\* that gives the system task each request once and in order, whatever the
\* clock tick and the sweep of schedule() do to the clients in it.
FifoOnce == Q!Spec

(***************************************************************************)
(* Liveness.                                                               *)
(***************************************************************************)

\* From power-on the driver and the system task reach their main loops, in
\* whatever order the processes are started and whether an interrupt comes
\* before or after the driver waits for it.  So does the file system, unless
\* it is preempted between the two halves of its first call: then it waits
\* for ever for a reply that stands in its own queue.
BootSettles ==
  workload = "boot" =>
  <>[]( /\ Listening(TASK_SYS) /\ Listening(TASK_FLPY)
        /\ \/ Listening(TASK_FS)
           \/ p_recvfrom[TASK_FS] = TASK_FLPY /\ q_sending[TASK_FS] = TASK_FLPY )

\* Every call is answered, a refused EXCUTE among them: its caller goes on, or
\* it exited, or the reply is lost - it stands in the caller's own queue while
\* the caller waits for it, or the driver's reply stands so in the queue of
\* the file system that the caller waits for.  So every request in a queue is
\* taken, and the reply to a process that has been freed does not stop the
\* system task for good (task_sys).  It speaks of the workloads in which the
\* system task waits for no reply itself.
Calling(p) == pc[p] = "recv" \/ RECEIVING \in p_flags[p]

ReplyLost(p) == RECEIVING \in p_flags[p] /\ OnChain(q_sending[p], p_recvfrom[p])

CallAnswered ==
  workload \in {"sys", "full", "file"} =>
  \A u \in User :
    Calling(u) ~> \/ ~ Calling(u) \/ Free(u) \/ ReplyLost(u)
                  \/ p_recvfrom[u] = TASK_FS /\ ReplyLost(TASK_FS)

(***************************************************************************)
(* What comments and commented assertions of ipc.cpp say, and the code     *)
(* does not do.                                                            *)
(***************************************************************************)

\* ipc.cpp:61, "check for dead lock": the check gives an answer, whatever the
\* processes it follows wait for.  Two clients of the file system are enough to
\* break it: an entry that is not the head stays in its queue, against
\* ipc.cpp:187 ("we should remove it from the queue"), and makes it reply to
\* itself, against the commented assertion of ipc.cpp:59; the chain of p_sendto
\* is then a ring without the caller.
CheckEnds == kernel # "looping"

\* ipc.cpp:214, "nobody's sending msg": a process that is made to wait for s
\* waits because s is not in its queue.
NobodySending ==
  \A p, s \in Proc : RECEIVING \in p_flags[p] /\ p_recvfrom[p] = s =>
     ~ OnChain(q_sending[p], s)

=============================================================================
