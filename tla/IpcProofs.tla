----------------------------- MODULE IpcProofs -----------------------------
(***************************************************************************)
(* Theorems about Ipc, for every number of user slots and every program in *)
(* them.                                                                   *)
(*                                                                         *)
(* The argument: every step is one of a few kinds (StepKinds), and what    *)
(* the flags, p_recvfrom and p_proc_ready become is stated once for each   *)
(* kind of step.                                                           *)
(***************************************************************************)
EXTENDS Ipc, TLAPS

(***************************************************************************)
(* Constants.                                                              *)
(***************************************************************************)

\* The numbers chosen for INTERRUPT, NIL, ANY_TASK and NO_TASK are no process
\* numbers and differ from each other; the tasks come before the users.
LEMMA Numbers ==
  /\ NrProcs \in Nat /\ NrProcs >= 4
  /\ ANY_TASK \notin Proc /\ NO_TASK \notin Proc /\ NIL \notin Proc
  /\ INTERRUPT \notin Proc /\ WILD \notin Proc
  /\ ANY_TASK # NO_TASK /\ ANY_TASK # INTERRUPT /\ NO_TASK # INTERRUPT
  /\ User \subseteq Proc /\ Server \subseteq Proc /\ TASK_TTY \in Proc
  /\ User \cap Server = {}
BY IpcAssumption DEF NrProcs, Proc, User, Server, ANY_TASK, NO_TASK, NIL, WILD,
     INTERRUPT, NR_TASKS, TASK_SYS, TASK_FS, TASK_FLPY, TASK_TTY

\* The entry k places after an entry of proc_table is an entry of it.
LEMMA AtInProc ==
  ASSUME p_proc_ready \in Proc, NEW k \in 1 .. NrProcs
  PROVE  At(k) \in Proc
<1>1. NrProcs \in Nat /\ NrProcs > 0
  BY Numbers
<1>2. p_proc_ready \in Int /\ k \in Int
  BY <1>1 DEF Proc
<1>3. (p_proc_ready + k) % NrProcs \in 0 .. (NrProcs - 1)
  BY <1>1, <1>2
<1> QED BY <1>3 DEF At, Proc

(***************************************************************************)
(* The scheduler hands the processor to an entry with no flag, and changes *)
(* no flag but SENDING, which it can only clear.                           *)
(***************************************************************************)
LEMMA ScheduleSelects ==
  ASSUME p_proc_ready \in Proc, NEW f \in [Proc -> SUBSET Flag], NEW rf,
         schedule(f, rf)
  PROVE  /\ p_proc_ready' \in Proc
         /\ p_flags' \in [Proc -> SUBSET Flag]
         /\ p_flags'[p_proc_ready'] = {}
         /\ \A p \in Proc : p_flags'[p] \in {f[p], f[p] \ {SENDING}}
<1>1. PICK k \in 1 .. NrProcs :
        /\ Swept(f, rf, At(k)) = {}
        /\ p_proc_ready' = At(k)
        /\ p_flags' = [p \in Proc |-> IF \E j \in 1 .. k : At(j) = p
                                        THEN Swept(f, rf, p) ELSE f[p]]
  BY DEF schedule
<1>2. At(k) \in Proc
  BY AtInProc
<1>3. \A p \in Proc : Swept(f, rf, p) \in {f[p], f[p] \ {SENDING}}
  BY DEF Swept
<1>4. \A p \in Proc : f[p] \in SUBSET Flag
  OBVIOUS
<1>5. k \in 1 .. k
  OBVIOUS
<1>6. \A p \in Proc : p_flags'[p] \in {f[p], f[p] \ {SENDING}}
  BY <1>1, <1>3
<1>7. p_flags'[At(k)] = Swept(f, rf, At(k))
  BY <1>1, <1>2, <1>5
<1>8. p_flags' \in [Proc -> SUBSET Flag]
  BY <1>1, <1>3, <1>4
<1> QED BY <1>1, <1>2, <1>6, <1>7, <1>8

(***************************************************************************)
(* A store leaves memory well-formed.                                      *)
(***************************************************************************)
LEMMA StoreType ==
  ASSUME NEW m \in [Proc -> [Buf -> Message]], NEW p \in Proc, NEW b \in Buf,
         NEW content \in Message
  PROVE  Store(m, p, b, content) \in [Proc -> [Buf -> Message]]
<1>1. Cell(p, b) \in Proc
  BY Numbers DEF Cell
<1> QED BY <1>1 DEF Store

(***************************************************************************)
(* The kinds of steps.                                                     *)
(***************************************************************************)
Sends == \E s \in Proc, d \in Proc, b \in Buf, m \in Message :
           Running(s) /\ msg_send(s, d, b, m)

Receives == \E r \in Proc, src \in Server \cup {ANY_TASK, INTERRUPT},
               b \in Buf, m \in Message :
              /\ src = ANY_TASK => r \in Server
              /\ Running(r) /\ msg_receive(r, src, b, m)

Inside ==
  /\ UNCHANGED <<p_proc_ready, p_flags, p_msg, p_recvfrom, p_sendto, has_int_msg,
                 q_sending, next_sending, mem>>
  /\ p_base' \in [Proc -> BOOLEAN]
  /\ kernel = "up" /\ kernel' \in {"up", "corrupt"}

\* The messages the programs build are messages.
LEMMA MessagesBuilt ==
  ASSUME TypeOK, NEW p \in Proc
  PROVE  /\ Main(p) \in Message /\ Asked(p) \in Message
         /\ [Main(p) EXCEPT !.source = p] \in Message
         /\ [Asked(p) EXCEPT !.source = p] \in Message
         /\ [Zeroed EXCEPT !.source = p] \in Message
         /\ \A type \in MsgType : [source |-> p, type |-> type] \in Message
         /\ \A type : ServerOf(type) \in Server
<1>1. Main(p) \in Message /\ Asked(p) \in Message
  BY DEF TypeOK, Main, Asked, Buf
<1>2. p \in Source
  BY DEF Source
<1>3. \A m \in Message : [m EXCEPT !.source = p] \in Message
  BY <1>2 DEF Message
<1>4. Zeroed \in Message
  BY Numbers DEF Zeroed, Message, Source, MsgType, TASK_TTY
<1>5. \A type \in MsgType : [source |-> p, type |-> type] \in Message
  BY <1>2 DEF Message
<1>6. \A type : ServerOf(type) \in Server
  BY DEF ServerOf, Server
<1> QED BY <1>1, <1>3, <1>4, <1>5, <1>6

\* A call of a library stub sends, its second half receives.
LEMMA CallSends ==
  ASSUME TypeOK, NEW p \in Proc, NEW type \in MsgType, Running(p), Call(p, type)
  PROVE  Sends
<1>1. ServerOf(type) \in Proc
  BY MessagesBuilt, Numbers
<1>2. [source |-> p, type |-> type] \in Message
  BY MessagesBuilt
<1>3. "call" \in Buf
  BY DEF Buf
<1> QED BY <1>1, <1>2, <1>3 DEF Call, Sends

LEMMA AnswerReceives ==
  ASSUME TypeOK, NEW p \in Proc, NEW then, Answer(p, then)
  PROVE  Receives
<1>1. /\ ServerOf(Asked(p).type) \in Server \cup {ANY_TASK, INTERRUPT}
      /\ ServerOf(Asked(p).type) # ANY_TASK
  BY MessagesBuilt, Numbers
<1>2. [Asked(p) EXCEPT !.source = p] \in Message
  BY MessagesBuilt
<1>3. "call" \in Buf
  BY DEF Buf
<1> QED BY <1>1, <1>2, <1>3 DEF Answer, AtPc, Receives

\* The steps every server has.
LEMMA ServerSteps ==
  ASSUME TypeOK, NEW p \in Server, Listen(p) \/ Reply(p) \/ ReplyOutside(p)
  PROVE  Sends \/ Receives \/ Inside
<1> p \in Proc
  BY Numbers
<1>1. CASE Listen(p)
  <2>1. [Zeroed EXCEPT !.source = p] \in Message
    BY MessagesBuilt
  <2>2. Running(p)
    BY <1>1 DEF Listen, Listens, AtPc
  <2> QED BY <1>1, <2>1, <2>2 DEF Listen, Receives, Buf
<1>2. CASE Reply(p)
  <2>1. [Main(p) EXCEPT !.source = p] \in Message
    BY MessagesBuilt
  <2>2. Running(p)
    BY <1>2 DEF Reply, Handled, AtPc
  <2> QED BY <1>2, <2>1, <2>2 DEF Reply, Sends, Buf
<1>3. CASE ReplyOutside(p)
  BY <1>3 DEF ReplyOutside, Handled, AtPc, Running, Inside, tableVars, TypeOK
<1> QED BY <1>1, <1>2, <1>3

LEMMA StepKinds ==
  ASSUME TypeOK, Next
  PROVE  Sends \/ Receives \/ do_exit \/ ExecDone \/ Tick \/ FloppyIrq \/ Inside
<1>1. CASE Tick \/ FloppyIrq
  BY <1>1
<1>2. CASE SysStep
  <2> TASK_SYS \in Proc /\ TASK_SYS \in Server
    BY Numbers DEF Server
  <2>1. CASE Listen(TASK_SYS) \/ Reply(TASK_SYS) \/ ReplyOutside(TASK_SYS)
    BY <2>1, ServerSteps
  <2>2. CASE ExecCall
    <3>1. PICK type \in MsgType : Running(TASK_SYS) /\ Call(TASK_SYS, type)
      BY <2>2 DEF ExecCall, AtPc, MsgType, FsCall
    <3> QED BY <3>1, CallSends
  <2>3. CASE ExecAnswer
    BY <2>3, AnswerReceives DEF ExecAnswer
  <2>4. CASE ExecRefused \/ ExecStart
    BY <2>4 DEF ExecRefused, ExecStart, AtPc, Running, Quiet, Inside, TypeOK
  <2> QED BY <1>2, <2>1, <2>2, <2>3, <2>4 DEF SysStep
<1>3. CASE FsStep
  <2> TASK_FS \in Proc /\ TASK_FS \in Server
    BY Numbers DEF Server
  <2>1. CASE Listen(TASK_FS) \/ Reply(TASK_FS) \/ ReplyOutside(TASK_FS)
    BY <2>1, ServerSteps
  <2>2. CASE FsCallDisk
    BY <2>2, CallSends DEF FsCallDisk, AtPc, MsgType
  <2>3. CASE FsAnswer
    BY <2>3, AnswerReceives DEF FsAnswer
  <2> QED BY <1>3, <2>1, <2>2, <2>3 DEF FsStep
<1>4. CASE FlpyStep
  <2> TASK_FLPY \in Proc /\ TASK_FLPY \in Server
    BY Numbers DEF Server
  <2>1. CASE Listen(TASK_FLPY) \/ Reply(TASK_FLPY) \/ ReplyOutside(TASK_FLPY)
    BY <2>1, ServerSteps
  <2>2. CASE FlpyCommand
    BY <2>2 DEF FlpyCommand, AtPc, Running, Quiet, Inside, TypeOK
  <2>3. CASE flpydsk_wait_irq
    <3>1. [Zeroed EXCEPT !.source = TASK_FLPY] \in Message
      BY MessagesBuilt
    <3> QED BY <2>3, <3>1, Numbers DEF flpydsk_wait_irq, AtPc, Receives, Buf
  <2> QED BY <1>4, <2>1, <2>2, <2>3 DEF FlpyStep
<1>5. CASE \E p \in User : UserStep(p)
  <2>1. PICK p \in User : UserStep(p)
    BY <1>5
  <2> p \in Proc
    BY Numbers
  <2>2. CASE UserSend(p)
    <3>1. Calls[p] \subseteq MsgType
      BY IpcAssumption DEF MsgType
    <3>2. PICK type \in Calls[p] : Running(p) /\ Call(p, type)
      BY <2>2 DEF UserSend, AtPc
    <3> QED BY <3>1, <3>2, CallSends
  <2>3. CASE UserRecv(p)
    BY <2>3, AnswerReceives DEF UserRecv
  <2> QED BY <2>1, <2>2, <2>3 DEF UserStep
<1> QED BY <1>1, <1>2, <1>3, <1>4, <1>5 DEF Next

(***************************************************************************)
(* Type correctness.                                                       *)
(***************************************************************************)
TableOK ==
  /\ p_proc_ready \in Proc
  /\ p_flags \in [Proc -> SUBSET Flag]
  /\ p_msg \in [Proc -> Buf]
  /\ p_recvfrom \in [Proc -> Proc \cup {INTERRUPT, ANY_TASK, NO_TASK}]
  /\ p_sendto \in [Proc -> Proc \cup {NO_TASK}]
  /\ has_int_msg \in [Proc -> BOOLEAN]
  /\ q_sending \in [Proc -> Proc \cup {NIL}]
  /\ next_sending \in [Proc -> Proc \cup {NIL}]
  /\ p_base \in [Proc -> BOOLEAN]
  /\ mem \in [Proc -> [Buf -> Message]]
  /\ kernel \in {"up", "looping", "corrupt"}

LEMMA SendTypes ==
  ASSUME TypeOK, NEW s \in Proc, NEW d \in Proc, NEW b \in Buf,
         NEW m \in Message, msg_send(s, d, b, m)
  PROVE  TableOK'
<1> USE DEF TypeOK
<1>1. CASE SendSpins(s, d)
  BY <1>1 DEF SendSpins, tableVars, TableOK
<1>2. CASE Deliver(s, d, b, m)
  <2>1. Store(mem, s, b, m) \in [Proc -> [Buf -> Message]]
    BY StoreType
  <2>2. mem' \in [Proc -> [Buf -> Message]]
    BY <1>2, <2>1, StoreType DEF Deliver
  <2>3. p_msg' \in [Proc -> Buf]
    BY <1>2 DEF Deliver, Buf
  <2>4. p_flags' \in [Proc -> SUBSET Flag]
    BY <1>2 DEF Deliver
  <2>5. p_recvfrom' \in [Proc -> Proc \cup {INTERRUPT, ANY_TASK, NO_TASK}]
    BY <1>2 DEF Deliver
  <2> QED BY <1>2, <2>2, <2>3, <2>4, <2>5 DEF Deliver, TableOK
<1>3. CASE Enqueue(s, d, b, m)
  <2>1. mem' \in [Proc -> [Buf -> Message]]
    BY <1>3, StoreType DEF Enqueue
  <2>2. p_msg' \in [Proc -> Buf] /\ p_sendto' \in [Proc -> Proc \cup {NO_TASK}]
    BY <1>3 DEF Enqueue
  <2>3. /\ q_sending' \in [Proc -> Proc \cup {NIL}]
        /\ next_sending' \in [Proc -> Proc \cup {NIL}]
    <3>1. CASE q_sending[d] = NIL
      <4>1. /\ q_sending' = [q_sending EXCEPT ![d] = s]
            /\ next_sending' = [next_sending EXCEPT ![s] = NIL]
        BY <1>3, <3>1 DEF Enqueue
      <4> QED BY <4>1
    <3>2. CASE q_sending[d] # NIL
      <4>1. UNCHANGED q_sending
        BY <1>3, <3>2 DEF Enqueue
      <4>2. PICK t \in Proc : next_sending' = [next_sending EXCEPT ![t] = s, ![s] = NIL]
        BY <1>3, <3>2 DEF Enqueue
      <4> QED BY <4>1, <4>2
    <3> QED BY <3>1, <3>2
  <2>4. [p_flags EXCEPT ![s] = @ \cup {SENDING}] \in [Proc -> SUBSET Flag]
    BY DEF Flag
  <2>5. p_proc_ready' \in Proc /\ p_flags' \in [Proc -> SUBSET Flag]
    BY <1>3, <2>4, ScheduleSelects DEF Enqueue
  <2> QED BY <1>3, <2>1, <2>2, <2>3, <2>5 DEF Enqueue, TableOK
<1> QED BY <1>1, <1>2, <1>3 DEF msg_send

LEMMA ReceiveTypes ==
  ASSUME TypeOK, NEW r \in Proc, NEW src \in Server \cup {ANY_TASK, INTERRUPT},
         NEW b \in Buf, NEW m \in Message, msg_receive(r, src, b, m)
  PROVE  TableOK'
<1> USE DEF TypeOK
<1> DEFINE HardInt == [source |-> INTERRUPT, type |-> "HARD_INT"]
<1>a. HardInt \in Message
  BY DEF Message, Source, MsgType
<1>1. CASE TakeInt(r, src, b)
  <2>1. mem' \in [Proc -> [Buf -> Message]]
    BY <1>1, <1>a, StoreType DEF TakeInt
  <2>2. has_int_msg' \in [Proc -> BOOLEAN]
    BY <1>1 DEF TakeInt
  <2> QED BY <1>1, <2>1, <2>2 DEF TakeInt, TableOK
<1>2. CASE TakeQueued(r, src, b, m)
  <2>1. PICK f \in Proc :
          /\ Unlink(r, f)
          /\ mem' = Store(mem, r, b, Load(Store(mem, r, b, m), f, p_msg[f]))
          /\ p_msg' = [p_msg EXCEPT ![f] = "null"]
          /\ p_sendto' = [p_sendto EXCEPT ![f] = NO_TASK]
          /\ p_flags' = [p_flags EXCEPT ![f] = @ \ {SENDING}]
    BY <1>2 DEF TakeQueued
  <2>2. Load(Store(mem, r, b, m), f, p_msg[f]) \in Message
    <3>1. Store(mem, r, b, m) \in [Proc -> [Buf -> Message]]
      BY StoreType
    <3>2. Cell(f, p_msg[f]) \in Proc
      BY Numbers DEF Cell
    <3> QED BY <3>1, <3>2 DEF Load
  <2>3. mem' \in [Proc -> [Buf -> Message]]
    BY <2>1, <2>2, StoreType
  <2>4. /\ q_sending' \in [Proc -> Proc \cup {NIL}]
        /\ next_sending' \in [Proc -> Proc \cup {NIL}]
    <3>1. CASE f = q_sending[r]
      <4>1. /\ q_sending' = [q_sending EXCEPT ![r] = next_sending[f]]
            /\ next_sending' = [next_sending EXCEPT ![f] = NIL]
        BY <2>1, <3>1 DEF Unlink
      <4> QED BY <4>1
    <3>2. CASE f # q_sending[r]
      <4>1. PICK prev \in Proc :
              next_sending' = [next_sending EXCEPT ![prev] = next_sending[f], ![f] = NIL]
        BY <2>1, <3>2 DEF Unlink
      <4>2. q_sending' = q_sending
        BY <2>1, <3>2 DEF Unlink
      <4> QED BY <4>1, <4>2
    <3> QED BY <3>1, <3>2
  <2>5. /\ p_msg' \in [Proc -> Buf]
        /\ p_sendto' \in [Proc -> Proc \cup {NO_TASK}]
        /\ p_flags' \in [Proc -> SUBSET Flag]
    BY <2>1 DEF Buf
  <2>6. /\ p_proc_ready' \in Proc /\ has_int_msg' \in [Proc -> BOOLEAN]
        /\ p_recvfrom' \in [Proc -> Proc \cup {INTERRUPT, ANY_TASK, NO_TASK}]
        /\ p_base' \in [Proc -> BOOLEAN] /\ kernel' \in {"up", "looping", "corrupt"}
    BY <1>2 DEF TakeQueued
  <2> QED BY <2>3, <2>4, <2>5, <2>6 DEF TableOK
<1>3. CASE Await(r, src, b, m)
  <2>1. mem' \in [Proc -> [Buf -> Message]]
    BY <1>3, StoreType DEF Await
  <2>2. /\ p_msg' \in [Proc -> Buf]
        /\ p_recvfrom' \in [Proc -> Proc \cup {INTERRUPT, ANY_TASK, NO_TASK}]
    BY <1>3, Numbers DEF Await
  <2>3. [p_flags EXCEPT ![r] = @ \cup {RECEIVING}] \in [Proc -> SUBSET Flag]
    BY DEF Flag
  <2>4. p_proc_ready' \in Proc /\ p_flags' \in [Proc -> SUBSET Flag]
    BY <1>3, <2>3, ScheduleSelects DEF Await
  <2> QED BY <1>3, <2>1, <2>2, <2>4 DEF Await, TableOK
<1> QED BY <1>1, <1>2, <1>3 DEF msg_receive

\* What inform_int() and a tick do to the types.
LEMMA InterruptTypes ==
  ASSUME TypeOK, Tick \/ FloppyIrq
  PROVE  TableOK'
<1> USE DEF TypeOK
<1> TASK_FLPY \in Proc
  BY Numbers DEF Server
<1>1. CASE Tick
  BY <1>1, ScheduleSelects DEF Tick, tableVars, TableOK
<1>2. CASE FloppyIrq
  <2> DEFINE HardInt == [source |-> INTERRUPT, type |-> "HARD_INT"]
  <2>1. HardInt \in Message
    BY DEF Message, Source, MsgType
  <2>2. mem' \in [Proc -> [Buf -> Message]]
    <3>1. \/ mem' = Store(mem, TASK_FLPY, p_msg[TASK_FLPY], HardInt)
          \/ mem' = mem
      BY <1>2 DEF FloppyIrq, inform_int
    <3>2. Store(mem, TASK_FLPY, p_msg[TASK_FLPY], HardInt) \in [Proc -> [Buf -> Message]]
      BY <2>1, StoreType
    <3> QED BY <3>1, <3>2
  <2>3. /\ p_msg' \in [Proc -> Buf]
        /\ has_int_msg' \in [Proc -> BOOLEAN]
        /\ p_flags' \in [Proc -> SUBSET Flag]
        /\ p_recvfrom' \in [Proc -> Proc \cup {INTERRUPT, ANY_TASK, NO_TASK}]
    <3>1. CASE UNCHANGED <<p_msg, p_flags, p_recvfrom>>
      BY <1>2, <3>1 DEF FloppyIrq, inform_int
    <3>2. CASE /\ p_msg' = [p_msg EXCEPT ![TASK_FLPY] = "null"]
               /\ p_flags' = [p_flags EXCEPT ![TASK_FLPY] = @ \ {RECEIVING}]
               /\ p_recvfrom' = [p_recvfrom EXCEPT ![TASK_FLPY] = NO_TASK]
      <4>1. \E b \in BOOLEAN : has_int_msg' = [has_int_msg EXCEPT ![TASK_FLPY] = b]
        BY <1>2 DEF FloppyIrq, inform_int
      <4> QED BY <3>2, <4>1 DEF Buf
    <3> QED BY <1>2, <3>1, <3>2 DEF FloppyIrq, inform_int
  <2>4. /\ p_proc_ready' \in Proc /\ p_sendto' \in [Proc -> Proc \cup {NO_TASK}]
        /\ q_sending' \in [Proc -> Proc \cup {NIL}]
        /\ next_sending' \in [Proc -> Proc \cup {NIL}]
        /\ p_base' \in [Proc -> BOOLEAN] /\ kernel' \in {"up", "looping", "corrupt"}
    BY <1>2 DEF FloppyIrq
  <2> QED BY <2>2, <2>3, <2>4 DEF TableOK
<1> QED BY <1>1, <1>2

\* The program counters and the controller.
ProgramOK ==
  pc \in [Proc -> Pc] /\ irq \in BOOLEAN /\ child_pid \in Proc \cup {NIL}

LEMMA ProgramTypes ==
  ASSUME TypeOK, Next
  PROVE  ProgramOK'
<1> USE DEF TypeOK, ProgramOK
<1>1. ASSUME NEW p \in Proc, NEW l \in Pc, Goto(p, l)
      PROVE  ProgramOK'
  BY <1>1 DEF Goto
<1>2. ASSUME NEW p \in Proc, NEW type, Call(p, type)
      PROVE  ProgramOK'
  BY <1>1, <1>2 DEF Call, Pc
<1>3. ASSUME NEW p \in Proc, NEW l \in Pc, Answer(p, l)
      PROVE  ProgramOK'
  BY <1>1, <1>3 DEF Answer
<1>4. ASSUME NEW p \in Proc, Listen(p) \/ Reply(p) \/ ReplyOutside(p)
      PROVE  ProgramOK'
  BY <1>1, <1>4 DEF Listen, Reply, ReplyOutside, Pc
<1>5. TASK_SYS \in Proc /\ TASK_FS \in Proc /\ TASK_FLPY \in Proc
  BY Numbers DEF Server
<1>6. CASE Tick \/ FloppyIrq
  BY <1>6 DEF Tick, FloppyIrq
<1>7. CASE SysStep
  <2>1. CASE ExecCall
    BY <2>1, <1>2, <1>5 DEF ExecCall
  <2>2. CASE ExecAnswer
    BY <2>2, <1>3, <1>5 DEF ExecAnswer, Pc
  <2>3. CASE ExecDone
    BY <2>3, <1>5 DEF ExecDone, Pc
  <2>4. CASE do_exit \/ ExecRefused
    BY <2>4, <1>1, <1>5 DEF do_exit, ExecRefused, Pc
  <2>5. CASE ExecStart
    BY <2>5, <1>5 DEF ExecStart, Pc
  <2> QED BY <1>7, <1>4, <1>5, <2>1, <2>2, <2>3, <2>4, <2>5 DEF SysStep
<1>8. CASE FsStep
  <2>1. CASE FsCallDisk
    BY <2>1, <1>2, <1>5 DEF FsCallDisk
  <2>2. CASE FsAnswer
    BY <2>2, <1>3, <1>5 DEF FsAnswer, Pc
  <2> QED BY <1>8, <1>4, <1>5, <2>1, <2>2 DEF FsStep
<1>9. CASE FlpyStep
  <2>1. CASE FlpyCommand
    BY <2>1, <1>5 DEF FlpyCommand, Pc
  <2>2. CASE flpydsk_wait_irq
    BY <2>2, <1>1, <1>5 DEF flpydsk_wait_irq, Pc
  <2> QED BY <1>9, <1>4, <1>5, <2>1, <2>2 DEF FlpyStep
<1>10. CASE \E p \in User : UserStep(p)
  BY <1>10, <1>2, <1>3, Numbers DEF UserStep, UserSend, UserRecv, Pc
<1> QED BY <1>6, <1>7, <1>8, <1>9, <1>10 DEF Next

\* The steps that are no call of the kernel and no interrupt.
LEMMA InsideTypes ==
  ASSUME TypeOK, do_exit \/ ExecDone \/ Inside
  PROVE  TableOK'
<1> USE DEF TypeOK
<1>1. CASE do_exit
  <2>1. p_flags' \in [Proc -> SUBSET Flag]
    BY <1>1 DEF do_exit, Flag
  <2> QED BY <1>1, <2>1 DEF do_exit, Quiet, TableOK
<1>2. CASE ExecDone
  <2>1. p_flags' \in [Proc -> SUBSET Flag]
    BY <1>2 DEF ExecDone, Flag
  <2> QED BY <1>2, <2>1 DEF ExecDone, Quiet, TableOK
<1>3. CASE Inside
  BY <1>3 DEF Inside, TableOK
<1> QED BY <1>1, <1>2, <1>3

LEMMA InitTypes == Init => TypeOK
<1> SUFFICES ASSUME Init
             PROVE  TypeOK
  OBVIOUS
<1>1. Zeroed \in Message /\ Junk \in Message
  BY Numbers DEF Zeroed, Junk, Message, Source, MsgType, TASK_TTY
<1>2. mem \in [Proc -> [Buf -> Message]]
  BY <1>1 DEF Init
<1>3. 0 \in Proc
  BY Numbers DEF TASK_TTY
<1>4. pc \in [Proc -> Pc]
  BY DEF Init, Pc
<1> QED BY <1>2, <1>3, <1>4 DEF Init, TypeOK, Flag, Buf, TASK_TTY

LEMMA StepTypes ==
  ASSUME TypeOK, [Next]_vars
  PROVE  TypeOK'
<1>1. CASE UNCHANGED vars
  BY <1>1 DEF vars, TypeOK
<1>2. CASE Next
  <2>1. TableOK'
    <3>1. CASE Sends
      BY <3>1, SendTypes DEF Sends
    <3>2. CASE Receives
      BY <3>2, ReceiveTypes DEF Receives
    <3>3. CASE Tick \/ FloppyIrq
      BY <3>3, InterruptTypes
    <3>4. CASE do_exit \/ ExecDone \/ Inside
      BY <3>4, InsideTypes
    <3> QED BY <1>2, <3>1, <3>2, <3>3, <3>4, StepKinds
  <2> QED BY <1>2, <2>1, ProgramTypes DEF TableOK, ProgramOK, TypeOK
<1> QED BY <1>1, <1>2

\* Whatever the programs call and whenever the clock ticks, proc_table and the
\* buffers hold values of their types: no call stores a sender, a receiver or a
\* queue link that is not a process or one of the marks.
THEOREM TypeCorrect == Spec => []TypeOK
<1>1. Init => TypeOK
  BY InitTypes
<1>2. TypeOK /\ [Next]_vars => TypeOK'
  BY StepTypes
<1> QED BY <1>1, <1>2, PTL DEF Spec

(***************************************************************************)
(* What a step does to the flags, stated once for all the calls.  Steady   *)
(* covers the steps that keep p_proc_ready; a process they touch loses     *)
(* SENDING or, when it is served, RECEIVING.                               *)
(***************************************************************************)
Loses(p, flag) == p_flags'[p] = p_flags[p] \ {flag}

Steady ==
  /\ UNCHANGED p_proc_ready
  /\ \A p \in Proc :
       \/ p_flags'[p] = p_flags[p] /\ p_recvfrom'[p] = p_recvfrom[p]
       \/ Loses(p, SENDING) /\ p_recvfrom'[p] = p_recvfrom[p]
       \/ /\ Loses(p, RECEIVING)
          /\ p_recvfrom'[p] = NO_TASK /\ p_msg'[p] = "null"

\* A step that calls schedule(): a process keeps its flags but SENDING, or
\* starts to wait for somebody.
Waits(p) ==
  /\ RECEIVING \in p_flags'[p]
  /\ FREE_SLOT \in p_flags'[p] => FREE_SLOT \in p_flags[p]
  /\ p_recvfrom'[p] \in Server \cup {ANY_TASK, INTERRUPT}
  /\ p_recvfrom'[p] = ANY_TASK => p \in Server

Yields ==
  /\ p_proc_ready' \in Proc /\ p_flags'[p_proc_ready'] = {}
  /\ \A p \in Proc :
       \/ /\ p_flags'[p] \ {SENDING} = p_flags[p] \ {SENDING}
          /\ p_recvfrom'[p] = p_recvfrom[p]
       \/ Waits(p)

\* A send keeps the processor or yields it.
LEMMA SendEffect ==
  ASSUME TypeOK, Sends
  PROVE  Steady \/ Yields
<1> USE DEF TypeOK
<1>1. PICK s \in Proc, d \in Proc, b \in Buf, m \in Message :
        Running(s) /\ msg_send(s, d, b, m)
  BY DEF Sends
<1>2. CASE SendSpins(s, d)
  BY <1>2 DEF SendSpins, tableVars, Steady
<1>3. CASE Deliver(s, d, b, m)
  BY <1>3 DEF Deliver, Steady, Loses
<1>4. CASE Enqueue(s, d, b, m)
  <2> DEFINE f == [p_flags EXCEPT ![s] = @ \cup {SENDING}]
  <2>1. f \in [Proc -> SUBSET Flag]
    BY DEF Flag
  <2>2. /\ p_proc_ready' \in Proc /\ p_flags'[p_proc_ready'] = {}
        /\ \A p \in Proc : p_flags'[p] \in {f[p], f[p] \ {SENDING}}
    BY <1>4, <2>1, ScheduleSelects DEF Enqueue
  <2>3. UNCHANGED p_recvfrom
    BY <1>4 DEF Enqueue
  <2>4. \A p \in Proc : f[p] \ {SENDING} = p_flags[p] \ {SENDING}
    OBVIOUS
  <2>5. \A p \in Proc : p_flags'[p] \ {SENDING} = p_flags[p] \ {SENDING}
    BY <2>2, <2>4
  <2> QED BY <2>2, <2>3, <2>5 DEF Yields
<1> QED BY <1>1, <1>2, <1>3, <1>4 DEF msg_send

LEMMA ReceiveEffect ==
  ASSUME TypeOK, Receives
  PROVE  Steady \/ Yields
<1> USE DEF TypeOK
<1>1. PICK r \in Proc, src \in Server \cup {ANY_TASK, INTERRUPT},
           b \in Buf, m \in Message :
        /\ src = ANY_TASK => r \in Server
        /\ Running(r) /\ msg_receive(r, src, b, m)
  BY DEF Receives
<1>2. CASE TakeInt(r, src, b)
  BY <1>2 DEF TakeInt, Steady
<1>3. CASE TakeQueued(r, src, b, m)
  <2>1. PICK g \in Proc : p_flags' = [p_flags EXCEPT ![g] = @ \ {SENDING}]
    BY <1>3 DEF TakeQueued
  <2>2. UNCHANGED <<p_proc_ready, p_recvfrom>>
    BY <1>3 DEF TakeQueued
  <2> QED BY <2>1, <2>2 DEF Steady, Loses
<1>4. CASE Await(r, src, b, m)
  <2> DEFINE f == [p_flags EXCEPT ![r] = @ \cup {RECEIVING}]
             rf == [p_recvfrom EXCEPT ![r] = src]
  <2>1. f \in [Proc -> SUBSET Flag]
    BY DEF Flag
  <2>2. /\ p_proc_ready' \in Proc /\ p_flags'[p_proc_ready'] = {}
        /\ \A p \in Proc : p_flags'[p] \in {f[p], f[p] \ {SENDING}}
    BY <1>4, <2>1, ScheduleSelects DEF Await
  <2>3. p_recvfrom' = rf
    BY <1>4 DEF Await
  <2>4. \A p \in Proc : p # r => f[p] = p_flags[p] /\ rf[p] = p_recvfrom[p]
    OBVIOUS
  <2>5. \A p \in Proc : p # r =>
          /\ p_flags'[p] \ {SENDING} = p_flags[p] \ {SENDING}
          /\ p_recvfrom'[p] = p_recvfrom[p]
    BY <2>2, <2>3, <2>4
  <2>6. RECEIVING \in p_flags'[r]
    BY <2>2 DEF RECEIVING, SENDING
  <2>7. p_recvfrom'[r] = src
    BY <2>3
  <2>8. FREE_SLOT \in p_flags'[r] => FREE_SLOT \in p_flags[r]
    BY <2>2 DEF FREE_SLOT, RECEIVING
  <2>9. Waits(r)
    BY <1>1, <2>6, <2>7, <2>8 DEF Waits
  <2> QED BY <2>2, <2>5, <2>9 DEF Yields
<1> QED BY <1>1, <1>2, <1>3, <1>4 DEF msg_receive

LEMMA InterruptEffect ==
  ASSUME TypeOK, Tick \/ FloppyIrq
  PROVE  Steady \/ Yields
<1> USE DEF TypeOK
<1>1. CASE Tick
  <2>1. /\ p_proc_ready' \in Proc /\ p_flags'[p_proc_ready'] = {}
        /\ \A p \in Proc : p_flags'[p] \in {p_flags[p], p_flags[p] \ {SENDING}}
    BY <1>1, ScheduleSelects DEF Tick
  <2>2. UNCHANGED p_recvfrom
    BY <1>1 DEF Tick, tableVars
  <2>3. \A p \in Proc : p_flags'[p] \ {SENDING} = p_flags[p] \ {SENDING}
    BY <2>1
  <2> QED BY <2>1, <2>2, <2>3 DEF Yields
<1>2. CASE FloppyIrq
  BY <1>2 DEF FloppyIrq, inform_int, Steady, Loses
<1> QED BY <1>1, <1>2

LEMMA StepEffect ==
  ASSUME TypeOK, Next
  PROVE  Steady \/ Yields \/ do_exit \/ ExecDone
<1>1. Inside => Steady
  BY DEF Inside, Steady
<1> QED BY <1>1, StepKinds, SendEffect, ReceiveEffect, InterruptEffect

\* No step is taken once the kernel loops or is corrupt.
LEMMA StepWhileUp ==
  ASSUME TypeOK, Next
  PROVE  kernel = "up"
<1>1. CASE Sends
  BY <1>1 DEF Sends, Running
<1>2. CASE Receives
  BY <1>2 DEF Receives, Running
<1>3. CASE do_exit \/ ExecDone
  BY <1>3 DEF do_exit, ExecDone, AtPc, Running
<1>4. CASE Tick \/ FloppyIrq
  BY <1>4 DEF Tick, FloppyIrq
<1>5. CASE Inside
  BY <1>5 DEF Inside
<1> QED BY <1>1, <1>2, <1>3, <1>4, <1>5, StepKinds

\* Only a call that blocks its caller, and a tick, change p_proc_ready.
RunnerUnblocked ==
  kernel = "up" => p_flags[p_proc_ready] \cap {SENDING, RECEIVING} = {}

LEMMA RunnerUnblockedStep ==
  ASSUME TypeOK, RunnerUnblocked, Next
  PROVE  RunnerUnblocked'
<1> SUFFICES ASSUME kernel' = "up"
             PROVE  p_flags'[p_proc_ready'] \cap {SENDING, RECEIVING} = {}
  BY DEF RunnerUnblocked
<1> USE DEF TypeOK
<1>1. kernel = "up"
  BY StepWhileUp
<1>2. p_flags[p_proc_ready] \cap {SENDING, RECEIVING} = {}
  BY <1>1 DEF RunnerUnblocked
<1>3. CASE Steady
  BY <1>2, <1>3 DEF Steady, Loses
<1>4. CASE Yields
  BY <1>4 DEF Yields
<1>5. CASE do_exit
  <2>1. \/ p_flags'[p_proc_ready] = p_flags[p_proc_ready]
        \/ p_flags'[p_proc_ready] = {FREE_SLOT}
    BY <1>5 DEF do_exit
  <2>2. p_proc_ready' = p_proc_ready
    BY <1>5 DEF do_exit, Quiet
  <2> QED BY <1>2, <2>1, <2>2 DEF FREE_SLOT, SENDING, RECEIVING
<1>6. CASE ExecDone
  <2>1. \/ p_flags'[p_proc_ready] = p_flags[p_proc_ready]
        \/ p_flags'[p_proc_ready] = {}
    BY <1>6 DEF ExecDone
  <2>2. p_proc_ready' = p_proc_ready
    BY <1>6 DEF ExecDone, Quiet
  <2> QED BY <1>2, <2>1, <2>2
<1> QED BY <1>3, <1>4, <1>5, <1>6, StepEffect

\* Whatever is called, swept or interrupted, the processor is never at a
\* process that is blocked in msg_send() or msg_receive().
THEOREM RunnerNeverBlocked == Spec => []RunnerUnblocked
<1> DEFINE IInv == TypeOK /\ RunnerUnblocked
<1>1. Init => IInv
  <2>1. Init => RunnerUnblocked
    BY Numbers DEF Init, RunnerUnblocked, Started, FREE_SLOT, SENDING, RECEIVING
  <2> QED BY <2>1, InitTypes
<1>2. IInv /\ [Next]_vars => IInv'
  <2>1. IInv /\ UNCHANGED vars => RunnerUnblocked'
    BY DEF vars, RunnerUnblocked
  <2> QED BY <2>1, StepTypes, RunnerUnblockedStep
<1>3. IInv => RunnerUnblocked
  OBVIOUS
<1> QED BY <1>1, <1>2, <1>3, PTL DEF Spec

(***************************************************************************)
(* What the system task frees and starts.  do_exit() could free a server,  *)
(* the system task itself included, so what it frees is an assumption      *)
(* here; run ipc_exec checks it and QueueProofs proves it for short calls. *)
(***************************************************************************)

\* As long as only user processes are freed, the running process is never one
\* whose slot is free: it never runs on a slot that do_excute() may hand out.
THEOREM RunnerKeepsSlot == Spec /\ []ExitFromUser => []RunnerReady
<1> DEFINE IInv == TypeOK /\ RunnerUnblocked /\ RunnerReady
<1>1. Init => IInv
  <2>1. ASSUME Init
        PROVE  p_flags[p_proc_ready] = {}
    <3>1. TASK_TTY \in Proc /\ TASK_TTY \in Started
      BY Numbers, IpcAssumption DEF Started, TASK_TTY, NR_TASKS
    <3> QED BY <2>1, <3>1 DEF Init
  <2> QED BY <2>1, InitTypes DEF RunnerReady, RunnerUnblocked
<1>2. IInv /\ ExitFromUser /\ [Next]_vars => IInv'
  <2>1. IInv /\ UNCHANGED vars => IInv'
    BY StepTypes DEF vars, RunnerReady, RunnerUnblocked
  <2>2. ASSUME IInv, ExitFromUser, Next
        PROVE  RunnerReady'
    <3> SUFFICES ASSUME kernel' = "up"
                 PROVE  p_flags'[p_proc_ready'] = {}
      BY DEF RunnerReady
    <3> USE <2>2 DEF TypeOK
    <3>1. p_flags[p_proc_ready] = {}
      BY StepWhileUp DEF RunnerReady
    <3>2. CASE Steady
      BY <3>1, <3>2 DEF Steady, Loses
    <3>3. CASE Yields
      BY <3>3 DEF Yields
    <3>4. CASE do_exit
      <4>1. Main(TASK_SYS).source # p_proc_ready
        BY <3>4, Numbers DEF do_exit, AtPc, Running, ExitFromUser, Server
      <4>2. p_flags'[p_proc_ready] = p_flags[p_proc_ready]
        BY <3>4, <4>1 DEF do_exit
      <4> QED BY <3>1, <3>4, <4>2 DEF do_exit, Quiet
    <3>5. CASE ExecDone
      <4>1. p_flags'[p_proc_ready] = {}
        BY <3>1, <3>5 DEF ExecDone
      <4> QED BY <3>5, <4>1 DEF ExecDone, Quiet
    <3> QED BY <3>2, <3>3, <3>4, <3>5, StepEffect
  <2> QED BY <2>1, <2>2, StepTypes, RunnerUnblockedStep
<1>3. IInv => RunnerReady
  OBVIOUS
<1> QED BY <1>1, <1>2, <1>3, PTL DEF Spec

\* A free slot stays free until do_excute() starts one: its process does not
\* run, so it neither sends nor receives, and the sweep leaves FREE_SLOT.
LEMMA FreeStays ==
  ASSUME TypeOK, RunnerReady, Next, ~ ExecDone, NEW c \in Proc, Free(c)
  PROVE  Free(c)'
<1> SUFFICES p_flags'[c] = {FREE_SLOT}
  BY DEF Free
<1> USE DEF TypeOK
<1>1. p_flags[c] = {FREE_SLOT} /\ p_flags[p_proc_ready] = {}
  BY StepWhileUp DEF Free, RunnerReady
<1>2. c # p_proc_ready
  BY <1>1
<1>3. FREE_SLOT # SENDING /\ FREE_SLOT # RECEIVING
  BY DEF FREE_SLOT, SENDING, RECEIVING
<1>4. ASSUME NEW f \in [Proc -> SUBSET Flag], NEW rf, schedule(f, rf), f[c] = {FREE_SLOT}
      PROVE  p_flags'[c] = {FREE_SLOT}
  <2>1. p_proc_ready \in Proc
    OBVIOUS
  <2>2. p_flags'[c] \in {f[c], f[c] \ {SENDING}}
    BY <1>4, <2>1, ScheduleSelects
  <2> QED BY <1>3, <1>4, <2>2
<1>5. CASE Sends
  <2>1. PICK s \in Proc, d \in Proc, b \in Buf, m \in Message :
          Running(s) /\ msg_send(s, d, b, m)
    BY <1>5 DEF Sends
  <2>2. s # c
    BY <1>2, <2>1 DEF Running
  <2>3. CASE SendSpins(s, d)
    BY <1>1, <2>3 DEF SendSpins
  <2>4. CASE Deliver(s, d, b, m)
    BY <1>1, <1>3, <2>4 DEF Deliver
  <2>5. CASE Enqueue(s, d, b, m)
    <3> DEFINE f == [p_flags EXCEPT ![s] = @ \cup {SENDING}]
    <3>1. f \in [Proc -> SUBSET Flag] /\ f[c] = {FREE_SLOT}
      BY <1>1, <2>2 DEF Flag
    <3>2. schedule(f, p_recvfrom)
      BY <2>5 DEF Enqueue
    <3> QED BY <1>4, <3>1, <3>2
  <2> QED BY <2>1, <2>3, <2>4, <2>5 DEF msg_send
<1>6. CASE Receives
  <2>1. PICK r \in Proc, src \in Server \cup {ANY_TASK, INTERRUPT}, b \in Buf, m \in Message :
          Running(r) /\ msg_receive(r, src, b, m)
    BY <1>6 DEF Receives
  <2>2. r # c
    BY <1>2, <2>1 DEF Running
  <2>3. CASE TakeInt(r, src, b)
    BY <1>1, <2>3 DEF TakeInt
  <2>4. CASE TakeQueued(r, src, b, m)
    <3>1. PICK g \in Proc : p_flags' = [p_flags EXCEPT ![g] = @ \ {SENDING}]
      BY <2>4 DEF TakeQueued
    <3> QED BY <1>1, <1>3, <3>1
  <2>5. CASE Await(r, src, b, m)
    <3> DEFINE f  == [p_flags EXCEPT ![r] = @ \cup {RECEIVING}]
               rf == [p_recvfrom EXCEPT ![r] = src]
    <3>1. f \in [Proc -> SUBSET Flag] /\ f[c] = {FREE_SLOT}
      BY <1>1, <2>2 DEF Flag
    <3>2. schedule(f, rf)
      BY <2>5 DEF Await
    <3> QED BY <1>4, <3>1, <3>2
  <2> QED BY <2>1, <2>3, <2>4, <2>5 DEF msg_receive
<1>7. CASE do_exit
  BY <1>1, <1>7 DEF do_exit
<1>8. CASE Tick
  BY <1>1, <1>4, <1>8 DEF Tick
<1>9. CASE FloppyIrq
  BY <1>1, <1>3, <1>9 DEF FloppyIrq, inform_int
<1>10. CASE Inside
  BY <1>1, <1>10 DEF Inside
<1> QED BY <1>5, <1>6, <1>7, <1>8, <1>9, <1>10, StepKinds

\* do_excute() is under way after a step because it chose its slot in this
\* step, or because it was before and keeps the number.
LEMMA LoadingStep ==
  ASSUME TypeOK, Next, Loading'
  PROVE  \/ ExecStart
         \/ Loading /\ child_pid' = child_pid /\ ~ ExecDone
<1> DEFINE Far == pc'[TASK_SYS] = pc[TASK_SYS] /\ child_pid' = child_pid
<1>1. /\ TASK_SYS \in Proc /\ TASK_FS # TASK_SYS /\ TASK_FLPY # TASK_SYS
      /\ \A p \in User : p # TASK_SYS
  BY Numbers DEF Server, User, NR_TASKS, TASK_SYS, TASK_FS, TASK_FLPY
<1>2. ExecDone => pc'[TASK_SYS] = "reply"
  BY <1>1 DEF ExecDone, TypeOK
<1>3. ~ ExecDone
  BY <1>2 DEF Loading
<1>4. Far => Loading /\ child_pid' = child_pid
  BY DEF Loading
<1> HIDE DEF Far
<1>5. ASSUME NEW p, NEW l, p # TASK_SYS, Goto(p, l)
      PROVE  Far
  BY <1>5 DEF Goto, TypeOK, Far
<1>6. CASE Tick \/ FloppyIrq
  <2>1. Far
    BY <1>6 DEF Tick, FloppyIrq, Far
  <2> QED BY <1>3, <1>4, <2>1
<1>7. CASE SysStep
  <2>1. ~ (Listen(TASK_SYS) \/ Reply(TASK_SYS) \/ do_exit \/ ExecRefused)
    BY <1>1 DEF Listen, Reply, do_exit, ExecRefused, Goto, Loading, TypeOK
  <2>2. ~ ReplyOutside(TASK_SYS)
    BY DEF ReplyOutside, Handled, AtPc, Loading, TASK_SYS, TASK_FS, TASK_FLPY
  <2>3. CASE ExecCall
    BY <1>3, <2>3 DEF ExecCall, Call, AtPc, Goto, Loading
  <2>4. CASE ExecAnswer
    BY <1>3, <2>4 DEF ExecAnswer, Answer, AtPc, Goto, Loading
  <2> QED BY <1>3, <1>7, <2>1, <2>2, <2>3, <2>4 DEF SysStep
<1>8. CASE FsStep \/ FlpyStep \/ \E p \in User : UserStep(p)
  <2>1. Far
    <3>1. CASE FsStep
      BY <1>1, <1>5, <3>1
         DEF FsStep, Listen, FsCallDisk, Call, FsAnswer, Answer, Reply, ReplyOutside, Far
    <3>2. CASE FlpyStep
      BY <1>1, <1>5, <3>2
         DEF FlpyStep, Listen, FlpyCommand, flpydsk_wait_irq, Reply, ReplyOutside, Far, TypeOK
    <3>3. CASE \E p \in User : UserStep(p)
      BY <1>1, <1>5, <3>3 DEF UserStep, UserSend, Call, UserRecv, Answer
    <3> QED BY <1>8, <3>1, <3>2, <3>3
  <2> QED BY <1>3, <1>4, <2>1
<1> QED BY <1>3, <1>6, <1>7, <1>8 DEF Next

LEMMA SlotKeptStep ==
  ASSUME TypeOK, RunnerReady, SlotKept, Next
  PROVE  SlotKept'
<1> SUFFICES ASSUME Loading'
             PROVE  child_pid' \in Proc /\ Free(child_pid)'
  BY DEF SlotKept
<1>1. CASE ExecStart
  <2>1. PICK child \in Proc : FirstFree(child) /\ child_pid' = child
    BY <1>1 DEF ExecStart
  <2>2. p_flags' = p_flags
    BY <1>1 DEF ExecStart
  <2> QED BY <2>1, <2>2 DEF FirstFree, Free
<1>2. CASE Loading /\ child_pid' = child_pid /\ ~ ExecDone
  <2>1. child_pid \in Proc /\ Free(child_pid)
    BY <1>2 DEF SlotKept
  <2>2. PICK c \in Proc : c = child_pid
    BY <2>1
  <2>3. Free(c)'
    BY <1>2, <2>1, <2>2, FreeStays
  <2>4. p_flags'[c] = {FREE_SLOT}
    BY <2>3 DEF Free
  <2> QED BY <1>2, <2>1, <2>2, <2>4 DEF Free
<1> QED BY <1>1, <1>2, LoadingStep

\* Under the same assumption the slot do_excute() has chosen is free until it
\* starts it, so what it starts is an entry in which nobody waits or runs.
THEOREM SlotStaysFree == Spec /\ []ExitFromUser => []SlotKept
<1>1. Init => SlotKept
  BY Numbers DEF Init, SlotKept, Loading, TASK_SYS, TASK_FS, TASK_FLPY, Server
<1>2. TypeOK /\ RunnerReady /\ SlotKept /\ [Next]_vars => SlotKept'
  <2>1. SlotKept /\ UNCHANGED vars => SlotKept'
    BY DEF vars, SlotKept, Loading, Free
  <2> QED BY <2>1, SlotKeptStep
<1> QED BY <1>1, <1>2, TypeCorrect, RunnerKeepsSlot, PTL DEF Spec

\* What ExecDone does, given that.
LEMMA DoneStarts ==
  ASSUME SlotKept, ExecDone
  PROVE  /\ child_pid \in Proc /\ Free(child_pid)
         /\ p_flags' = [p_flags EXCEPT ![child_pid] = {}]
         /\ UNCHANGED p_recvfrom
<1>1. Loading
  BY DEF ExecDone, AtPc, Loading
<1> QED BY <1>1 DEF SlotKept, ExecDone, Quiet

\* The sweep of schedule(), which takes senders out of their wait, never takes
\* a receiver out of its wait: a receiver goes on with a message or not at all.
THEOREM ReceiversWait == Spec /\ []ExitFromUser => ReceiverStays
<1>1. ASSUME TypeOK, SlotKept, [Next]_vars
      PROVE  [\A p \in Proc : RECEIVING \in p_flags[p] => Served(p)]_vars
  <2> SUFFICES ASSUME Next, NEW p \in Proc, RECEIVING \in p_flags[p]
               PROVE  Served(p)
    BY <1>1
  <2> USE <1>1 DEF TypeOK
  <2>1. CASE Steady
    BY <2>1 DEF Steady, Loses, Served, SENDING, RECEIVING
  <2>2. CASE Yields
    BY <2>2 DEF Yields, Waits, Served, SENDING, RECEIVING
  <2>3. CASE do_exit
    BY <2>3 DEF do_exit, Served
  <2>4. CASE ExecDone
    <3>1. Free(child_pid) /\ p_flags' = [p_flags EXCEPT ![child_pid] = {}]
      BY <1>1, <2>4, DoneStarts
    <3>2. p # child_pid
      BY <3>1 DEF Free, FREE_SLOT, RECEIVING
    <3> QED BY <3>1, <3>2 DEF Served
  <2> QED BY <2>1, <2>2, <2>3, <2>4, StepEffect
<1> QED BY <1>1, TypeCorrect, SlotStaysFree, PTL DEF Spec, ReceiverStays

(***************************************************************************)
(* The condition of msg_send() reads (A && B) || C, and the sweep looks    *)
(* for NO_TASK: both are sound as long as p_recvfrom tells who waits.      *)
(***************************************************************************)
ServersListen ==
  \A p \in Proc : p_recvfrom[p] = ANY_TASK => p \in Server /\ RECEIVING \in p_flags[p]

LEMMA WaitNamedStep ==
  ASSUME TypeOK, ExitFromUser, SlotKept, WaitNamed, ServersListen, Next
  PROVE  WaitNamed' /\ ServersListen'
<1> SUFFICES ASSUME NEW p \in Proc
             PROVE  /\ RECEIVING \in p_flags'[p] => p_recvfrom'[p] # NO_TASK
                    /\ p_recvfrom'[p] = ANY_TASK => p \in Server /\ RECEIVING \in p_flags'[p]
  BY DEF WaitNamed, ServersListen
<1> USE DEF TypeOK
<1>1. /\ RECEIVING \in p_flags[p] => p_recvfrom[p] # NO_TASK
      /\ p_recvfrom[p] = ANY_TASK => p \in Server /\ RECEIVING \in p_flags[p]
  BY DEF WaitNamed, ServersListen
<1>2. CASE Steady
  BY <1>1, <1>2, Numbers DEF Steady, Loses, SENDING, RECEIVING
<1>3. CASE Yields
  BY <1>1, <1>3, Numbers DEF Yields, Waits, SENDING, RECEIVING
<1>4. CASE do_exit
  <2> DEFINE u == Main(TASK_SYS).source
  <2>1. u \in User
    BY <1>4 DEF do_exit, AtPc, ExitFromUser
  <2>2. p_flags' = [p_flags EXCEPT ![u] = {FREE_SLOT}] /\ UNCHANGED p_recvfrom
    BY <1>4 DEF do_exit, Quiet
  <2>3. CASE p = u
    BY <1>1, <2>1, <2>2, <2>3, Numbers DEF FREE_SLOT, RECEIVING
  <2>4. CASE p # u
    BY <1>1, <2>2, <2>4
  <2> QED BY <2>3, <2>4
<1>5. CASE ExecDone
  BY <1>1, <1>5, DoneStarts DEF Free, FREE_SLOT, RECEIVING
<1> QED BY <1>2, <1>3, <1>4, <1>5, StepEffect

\* As long as only user processes are freed, a receiver waits for somebody and
\* only a receiver accepts messages from anybody: msg_send() never copies a
\* message over the buffer of a process that is not receiving, and the sweep
\* never looks at a receiver.
THEOREM WaitsNamed == Spec /\ []ExitFromUser => []WaitNamed
<1> DEFINE IInv == TypeOK /\ WaitNamed /\ ServersListen
<1>1. Init => IInv
  <2>1. ASSUME Init
        PROVE  WaitNamed /\ ServersListen
    BY <2>1, Numbers DEF Init, WaitNamed, ServersListen, FREE_SLOT, RECEIVING, TASK_TTY
  <2> QED BY <2>1, InitTypes
<1>2. IInv /\ ExitFromUser /\ SlotKept /\ [Next]_vars => IInv'
  <2>1. IInv /\ UNCHANGED vars => WaitNamed' /\ ServersListen'
    BY DEF vars, WaitNamed, ServersListen
  <2> QED BY <2>1, StepTypes, WaitNamedStep
<1>3. IInv => WaitNamed
  OBVIOUS
<1> QED BY <1>1, <1>2, <1>3, SlotStaysFree, PTL DEF Spec

(***************************************************************************)
(* Whose buffers a step writes: those of the running process and of a      *)
(* process that may be given a message, or the cell at address zero that   *)
(* the flat image shares (Cell).                                           *)
(***************************************************************************)
Written(p) ==
  \/ p = p_proc_ready \/ p = TASK_TTY
  \/ RECEIVING \in p_flags[p] \/ p_recvfrom[p] = ANY_TASK

\* A store changes the memory of the process it is for or the shared cell.
LEMMA StoreElsewhere ==
  ASSUME NEW m \in [Proc -> [Buf -> Message]], NEW q \in Proc, NEW b, NEW content,
         NEW p \in Proc, p # q, p # TASK_TTY
  PROVE  Store(m, q, b, content)[p] = m[p]
BY DEF Store, Cell

LEMMA OnlyWritten ==
  ASSUME TypeOK, Next, NEW p \in Proc, ~ Written(p)
  PROVE  mem'[p] = mem[p]
<1> USE DEF TypeOK
<1>1. CASE Sends
  <2>1. PICK s \in Proc, d \in Proc, b \in Buf, m \in Message :
          Running(s) /\ msg_send(s, d, b, m)
    BY <1>1 DEF Sends
  <2>2. p # s /\ p # TASK_TTY
    BY <2>1 DEF Running, Written
  <2>3. CASE SendSpins(s, d)
    BY <2>3 DEF SendSpins, tableVars
  <2>4. CASE Deliver(s, d, b, m)
    <3>1. p # d
      BY <2>4 DEF Deliver, Receivable, Written
    <3> DEFINE n == Store(mem, s, b, m)
    <3>2. n \in [Proc -> [Buf -> Message]]
      BY StoreType
    <3>3. n[p] = mem[p]
      BY <2>2, Numbers DEF Store, Cell, n
    <3>4. mem' = Store(n, d, p_msg[d], m)
      BY <2>4 DEF Deliver
    <3> HIDE DEF n
    <3>5. Store(n, d, p_msg[d], m)[p] = n[p]
      BY <2>2, <3>1, <3>2, Numbers DEF Store, Cell
    <3> QED BY <3>3, <3>4, <3>5
  <2>5. CASE Enqueue(s, d, b, m)
    BY <2>2, <2>5, StoreElsewhere DEF Enqueue
  <2> QED BY <2>1, <2>3, <2>4, <2>5 DEF msg_send
<1>2. CASE Receives
  <2>1. PICK r \in Proc, src \in Server \cup {ANY_TASK, INTERRUPT}, b \in Buf, m \in Message :
          Running(r) /\ msg_receive(r, src, b, m)
    BY <1>2 DEF Receives
  <2>2. p # r /\ p # TASK_TTY
    BY <2>1 DEF Running, Written
  <2>3. \E content : mem' = Store(mem, r, b, content)
    BY <2>1 DEF msg_receive, TakeInt, TakeQueued, Await
  <2> QED BY <2>2, <2>3, StoreElsewhere
<1>3. CASE FloppyIrq
  <2>1. \/ mem' = mem
        \/ /\ RECEIVING \in p_flags[TASK_FLPY]
           /\ \E b, content : mem' = Store(mem, TASK_FLPY, b, content)
    BY <1>3 DEF FloppyIrq, inform_int
  <2>2. TASK_FLPY \in Proc /\ p # TASK_TTY
    BY Numbers DEF Server, Written
  <2>3. ASSUME RECEIVING \in p_flags[TASK_FLPY], NEW b, NEW content,
               mem' = Store(mem, TASK_FLPY, b, content)
        PROVE  mem'[p] = mem[p]
    <3>1. p # TASK_FLPY
      BY <2>3 DEF Written
    <3> QED BY <2>2, <2>3, <3>1, StoreElsewhere
  <2> QED BY <2>1, <2>3
<1>4. CASE do_exit \/ ExecDone \/ Tick \/ Inside
  BY <1>4 DEF do_exit, ExecDone, Quiet, Tick, tableVars, Inside
<1> QED BY <1>1, <1>2, <1>3, <1>4, StepKinds

\* The slots that are free are slots of user processes.
FreesUsers == \A p \in Proc : FREE_SLOT \in p_flags[p] => p \in User

LEMMA FreesUsersStep ==
  ASSUME TypeOK, ExitFromUser, FreesUsers, Next
  PROVE  FreesUsers'
<1> SUFFICES ASSUME NEW p \in Proc, FREE_SLOT \in p_flags'[p]
             PROVE  p \in User
  BY DEF FreesUsers
<1> USE DEF TypeOK
<1>1. FREE_SLOT \in p_flags[p] => p \in User
  BY DEF FreesUsers
<1>2. CASE Steady
  BY <1>1, <1>2 DEF Steady, Loses
<1>3. CASE Yields
  BY <1>1, <1>3 DEF Yields, Waits, FREE_SLOT, SENDING
<1>4. CASE do_exit
  BY <1>1, <1>4 DEF do_exit, AtPc, ExitFromUser
<1>5. CASE ExecDone
  BY <1>1, <1>5 DEF ExecDone
<1> QED BY <1>2, <1>3, <1>4, <1>5, StepEffect

\* Under the same assumption the memory of a process that exited is left
\* alone until its slot is taken again: the reply the system task still owes
\* it is queued and never copied, because a free slot neither runs nor
\* receives.
THEOREM ExitedIsLeftAlone == Spec /\ []ExitFromUser => DeadMemory
<1>1. Init => FreesUsers
  BY IpcAssumption DEF Init, FreesUsers, Started, Proc, NrProcs, User, NR_TASKS, FREE_SLOT
<1>2. TypeOK /\ ExitFromUser /\ FreesUsers /\ [Next]_vars => FreesUsers'
  <2>1. FreesUsers /\ UNCHANGED vars => FreesUsers'
    BY DEF vars, FreesUsers
  <2> QED BY <2>1, FreesUsersStep
<1>3. ASSUME TypeOK, FreesUsers, WaitNamed, RunnerReady, [Next]_vars
      PROVE  [\A p \in Proc : Free(p) => UNCHANGED mem[p]]_vars
  <2> SUFFICES ASSUME Next, NEW p \in Proc, Free(p)
               PROVE  mem'[p] = mem[p]
    BY <1>3
  <2>1. p_flags[p] = {FREE_SLOT}
    BY DEF Free
  <2>2. p # p_proc_ready
    BY <1>3, <2>1, StepWhileUp DEF RunnerReady
  <2>3. p # TASK_TTY
    BY <1>3, <2>1 DEF FreesUsers, User, NR_TASKS, TASK_TTY
  <2>4. RECEIVING \notin p_flags[p]
    BY <2>1 DEF RECEIVING, FREE_SLOT
  <2>5. p_recvfrom[p] # ANY_TASK
    BY <1>3, <2>4 DEF WaitNamed
  <2> QED BY <1>3, <2>2, <2>3, <2>4, <2>5, OnlyWritten DEF Written
<1> QED BY <1>1, <1>2, <1>3, TypeCorrect, WaitsNamed, RunnerKeepsSlot, PTL DEF Spec, DeadMemory

=============================================================================
