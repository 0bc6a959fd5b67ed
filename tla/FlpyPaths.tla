----------------------------- MODULE FlpyPaths -----------------------------
(***************************************************************************)
(* What the procedures of the floppy driver do to its device, for every    *)
(* geometry of the disk and every number of attempts.                      *)
(*                                                                         *)
(* A label is what the driver can know of the device between two of its    *)
(* operations: what the controller is doing, the interrupts to be sensed,  *)
(* the registers, and what the driver is after.  Steps says which label    *)
(* an operation leads to, and under which conditions it is allowed; a      *)
(* Path is a list of operations with a label before and after each.  The   *)
(* lemmas end with InstallGoes, SeekGoes, CalibrateGoes and FoundGoes:     *)
(* each list the driver puts into todo is a path.                          *)
(***************************************************************************)
EXTENDS Flpy, TLAPS, SequenceTheorems

(***************************************************************************)
(* The sector of a sector number.                                          *)
(***************************************************************************)
N == FLPY_SECTORS_PER_TRACK

\* Quotient and remainder are what they are by only one pair of numbers.
LEMMA OneQuotient ==
  ASSUME NEW d \in Nat \ {0}, NEW x \in Nat, NEW q \in Int, NEW r \in 0 .. d - 1,
         x = d * q + r
  PROVE  x \div d = q /\ x % d = r
<1> DEFINE p == x \div d
           s == x % d
<1>1. p \in Int /\ s \in 0 .. d - 1 /\ x = d * p + s
  OBVIOUS
<1> HIDE DEF p, s
<1>2. p = q
  <2>1. CASE p < q
    <3>1. d * q >= d * (p + 1)
      BY <1>1, <2>1
    <3> QED BY <1>1, <3>1
  <2>2. CASE q < p
    <3>1. d * p >= d * (q + 1)
      BY <1>1, <2>2
    <3> QED BY <1>1, <3>1
  <2> QED BY <1>1, <2>1, <2>2
<1>3. s = r
  BY <1>1, <1>2
<1> QED BY <1>2, <1>3 DEF p, s

\* A sector number is its cylinder, the side of it, and the place on the side.
LEMMA Split ==
  ASSUME NEW lba \in Lba
  PROVE  \E t \in Cylinder, h \in 0 .. 1, s \in 0 .. N - 1 :
           /\ lba = (2 * t + h) * N + s
           /\ flpydsk_lba_to_chs(lba) = [head |-> h, track |-> t, sector |-> s + 1]
<1> DEFINE t == lba \div (N * 2)
           r == lba % (N * 2)
           h == r \div N
           s == r % N
<1>1. N \in Nat \ {0} /\ N * 2 \in Nat \ {0} /\ Tracks \in Nat \ {0} /\ lba \in Nat
  BY FlpyAssumption DEF N, Lba
<1>2. t \in Nat /\ r \in 0 .. N * 2 - 1 /\ lba = N * 2 * t + r
  <2> DEFINE d == N * 2
  <2>1. d \in Nat \ {0}
    BY <1>1
  <2> HIDE DEF d
  <2>2. lba \div d \in Int /\ lba % d \in 0 .. d - 1 /\ lba = d * (lba \div d) + (lba % d)
    BY <1>1, <2>1
  <2>3. lba \div d >= 0
    BY <1>1, <2>1, <2>2
  <2> QED BY <2>2, <2>3 DEF d
<1>3. h \in Nat /\ s \in 0 .. N - 1 /\ r = N * h + s
  BY <1>1, <1>2
<1>4. flpydsk_lba_to_chs(lba) = [head |-> h, track |-> t, sector |-> (lba % N) + 1]
  BY DEF flpydsk_lba_to_chs, N
<1> HIDE DEF t, r, h, s
<1>5. h \in 0 .. 1
  <2>1. CASE h > 1
    <3>1. N * h >= N * 2
      BY <1>1, <1>3, <2>1
    <3> QED BY <1>1, <1>2, <1>3, <3>1
  <2> QED BY <1>3, <2>1
<1>6. lba = N * (2 * t + h) + s
  BY <1>1, <1>2, <1>3
<1>7. lba % N = s
  <2>1. 2 * t + h \in Int
    BY <1>2, <1>3
  <2> QED BY <1>1, <1>3, <1>6, <2>1, OneQuotient
<1>8. t \in Cylinder
  <2>1. lba < 2 * Tracks * N
    BY FlpyAssumption DEF Lba, N
  <2>2. CASE t >= Tracks
    <3>1. N * 2 * t >= N * 2 * Tracks
      BY <1>1, <1>2, <2>2
    <3> QED BY <1>1, <1>2, <2>1, <3>1
  <2> QED BY <1>1, <1>2, <2>2 DEF Cylinder
<1> QED BY <1>1, <1>2, <1>3, <1>4, <1>5, <1>6, <1>7, <1>8

\* Every sector number of the disk names a sector of it, and that sector is
\* the one with this number, for every geometry: what RightSector compares
\* the answer of the driver with (flpy.cpp:353).
THEOREM ChsNamesSector ==
  \A lba \in Lba : /\ flpydsk_lba_to_chs(lba) \in Chs
                   /\ LbaOf(flpydsk_lba_to_chs(lba)) = lba
<1> TAKE lba \in Lba
<1>1. PICK t \in Cylinder, h \in 0 .. 1, s \in 0 .. N - 1 :
        /\ lba = (2 * t + h) * N + s
        /\ flpydsk_lba_to_chs(lba) = [head |-> h, track |-> t, sector |-> s + 1]
  BY Split
<1>2. N \in Nat \ {0}
  BY FlpyAssumption DEF N
<1>3. s + 1 \in 1 .. N
  BY <1>2
<1>4. flpydsk_lba_to_chs(lba) \in Chs
  BY <1>1, <1>3 DEF Chs, N
<1>5. LbaOf(flpydsk_lba_to_chs(lba)) = (2 * t + h) * N + (s + 1) - 1
  BY <1>1 DEF LbaOf, N
<1>6. (2 * t + h) * N \in Int
  BY <1>2 DEF Cylinder
<1>7. (2 * t + h) * N + (s + 1) - 1 = (2 * t + h) * N + s
  BY <1>6
<1> QED BY <1>1, <1>4, <1>5, <1>7

(***************************************************************************)
(* Operations and labels.                                                  *)
(***************************************************************************)
Op  == [op : {"out", "in", "wait", "calibrated", "sought", "reply", "fail"},
        port : {"", "dor", "ccr", "fifo", "temp", "unmask1", "chanmask", "flipflop1",
                "mode", "addr2", "count2"},
        val : Nat]
Dma == [flipflop : 0 .. 1, masked : BOOLEAN, mode : Nat, addr : [1 .. 2 -> Nat],
        count : [1 .. 2 -> Nat]]

\* What the driver is after: to install the device, to find the cylinder, to
\* read the sector, to reply with it, to reply with nothing, or no more.
Goal == {"install", "seek", "found", "got", "failed", "over"}

(***************************************************************************)
(* What the driver can know of the device.                                 *)
(***************************************************************************)
Label ==
  [ctl : {"idle", "bytes", "busy", "result", "reset"}, bytes : Seq(Nat), left : Nat,
   senses : 0 .. 4, sure : BOOLEAN, dor : Byte, dma : Dma, job : Lba \cup {-1}, goal : Goal]

Lb(ctl, bytes, left, senses, sure, dr, ch, jb, goal) ==
  [ctl |-> ctl, bytes |-> bytes, left |-> left, senses |-> senses, sure |-> sure,
   dor |-> dr, dma |-> ch, job |-> jb, goal |-> goal]

ReadBytes(at) == <<READ_SECT + 128 + 32 + 64, 4 * at.head, at.track, at.head, at.sector,
                   2, LastSector(at.sector), 27, 255>>

\* The label n after operation o at label k, for each kind of operation: a byte
\* for the digital output register, ...
DorStep(k, o, n) ==
  /\ o.op = "out" /\ o.port = "dor"
  /\ \/ /\ o.val = 0 /\ k.ctl = "idle" /\ k.goal = "install"
        /\ n = Lb("reset", k.bytes, k.left, 0, FALSE, 0, k.dma, k.job, k.goal)
     \/ /\ o.val = 12 /\ k.ctl = "reset" /\ k.senses = 0 /\ k.goal = "install"
        /\ n = Lb("busy", k.bytes, k.left, 0, FALSE, 12, k.dma, k.job, k.goal)
     \/ /\ o.val \in {4, 28} /\ k.ctl = "idle"
        /\ n = Lb("idle", k.bytes, k.left, k.senses, k.sure, o.val, k.dma, k.job, k.goal)

\* ... for another port, ...
PortStep(k, o, n) ==
  /\ o.op = "out" /\ o.port \notin {"dor", "fifo"}
  /\ k.ctl = "idle"
  /\ n = Lb("idle", k.bytes, k.left, k.senses, k.sure, k.dor, Programmed(k.dma, o.port, o.val),
            k.job, k.goal)

\* What the driver knows when it has sent the first bytes of a command.
Sending(k, pre) == Lb("bytes", pre, k.left, k.senses, k.sure, k.dor, k.dma, k.job, k.goal)

\* The last byte of a command.  A command that ends with an interrupt is sent
\* only when there is none to be sensed, with the motor on, and a sector is read
\* only when channel 2 is ready for it.
Ends(k, bytes, n) ==
  \/ /\ bytes[1] % 32 = CHECK_INT /\ k.senses > 0
     /\ n = Lb("result", <<>>, 2, k.senses - 1, TRUE, k.dor, k.dma, k.job, k.goal)
  \/ /\ bytes[1] % 32 = CHECK_INT /\ k.senses = 0
     /\ n = Lb("result", <<>>, 1, 0, FALSE, k.dor, k.dma, k.job, k.goal)
  \/ /\ bytes[1] % 32 = SPECIFY
     /\ n = Lb("idle", <<>>, k.left, k.senses, k.sure, k.dor, k.dma, k.job, k.goal)
  \/ /\ bytes[1] % 32 \in {CALIBRATE, SEEK}
     /\ k.senses = 0 /\ k.dor = 28 /\ k.goal \in {"install", "seek"}
     /\ n = Lb("busy", bytes, k.left, 0, FALSE, 28, k.dma, k.job, k.goal)
  \/ /\ bytes[1] % 32 = READ_SECT
     /\ k.senses = 0 /\ k.dor = 28 /\ k.goal = "found"
     /\ Ready(k.dma) /\ k.dma.flipflop = 0
     /\ bytes = ReadBytes(flpydsk_lba_to_chs(k.job))
     /\ n = Lb("busy", bytes, k.left, 0, FALSE, 28, k.dma, k.job, k.goal)

\* ... for the controller, ...
FifoStep(k, o, n) ==
  /\ o.op = "out" /\ o.port = "fifo"
  /\ k.ctl \in {"idle", "bytes"}
  /\ LET bytes == Append(k.bytes, o.val)
     IN /\ bytes[1] % 32 \in DOMAIN CommandLength
        /\ \/ /\ Len(bytes) < CommandLength[bytes[1] % 32]
              /\ n = Sending(k, bytes)
           \/ /\ Len(bytes) = CommandLength[bytes[1] % 32]
              /\ Ends(k, bytes, n)

\* ... a byte from the controller, ...
InStep(k, o, n) ==
  /\ o.op = "in" /\ k.goal # "failed"
  /\ \/ /\ k.ctl = "result" /\ k.left > 1
        /\ n = Lb("result", <<>>, k.left - 1, k.senses, k.sure, k.dor, k.dma, k.job, k.goal)
     \/ /\ k.ctl = "result" /\ k.left = 1
        /\ n = Lb("idle", <<>>, 0, k.senses, k.sure, k.dor, k.dma, k.job, k.goal)
     \/ /\ k.ctl = "idle"
        /\ n = Lb("idle", <<>>, 0, k.senses, FALSE, k.dor, k.dma, k.job, k.goal)

\* The label of a driver whose interrupt has come.
Woken(k) ==
  IF k.bytes = <<>> THEN Lb("idle", <<>>, 0, 4, FALSE, k.dor, k.dma, k.job, k.goal)
  ELSE IF k.bytes[1] % 32 = READ_SECT
       THEN Lb("result", <<>>, 7, 0, FALSE, k.dor, k.dma, k.job, "got")
       ELSE Lb("idle", <<>>, 0, 1, FALSE, k.dor, k.dma, k.job, k.goal)

\* What the driver knows once it is woken is a label again.
LEMMA WokenLabel == \A k \in Label : Woken(k) \in Label /\ Woken(k).ctl # "busy"
<1>1. "got" \in Goal
  BY DEF Goal
<1> QED BY <1>1 DEF Woken, Lb, Label

\* ... a wait, and a test, whose label is that of its last outcome: for the
\* others the driver puts more into todo.
WaitStep(k, o, n) == o.op = "wait" /\ k.ctl = "busy" /\ n = Woken(k)

TestStep(k, o, n) ==
  /\ k.ctl = "idle" /\ k.senses = 0
  /\ \/ /\ o.op = "calibrated" /\ k.goal = "install" /\ k.dor = 28 /\ k.sure
        /\ n = Lb("idle", <<>>, 0, 0, TRUE, 4, k.dma, k.job, "install")
     \/ /\ \/ o.op = "sought" /\ k.goal = "seek" /\ k.dor = 28 /\ k.sure
           \/ o.op = "reply" /\ k.goal = "got" /\ k.dor = 4
           \/ o.op = "fail" /\ k.goal = "failed" /\ k.dor = 28
        /\ n = Lb("idle", <<>>, 0, 0, FALSE, k.dor, k.dma, k.job, "over")

Steps(k, o, n) ==
  /\ k.goal # "over"
  /\ \/ DorStep(k, o, n) \/ PortStep(k, o, n) \/ FifoStep(k, o, n)
     \/ InStep(k, o, n) \/ WaitStep(k, o, n) \/ TestStep(k, o, n)

\* The operations lead from label a to label b.
Path(ops, a, b) ==
  \E lab \in [1 .. Len(ops) + 1 -> Label] :
    /\ lab[1] = a /\ lab[Len(ops) + 1] = b
    /\ \A i \in 1 .. Len(ops) : Steps(lab[i], ops[i], lab[i + 1])

\* The three ways to make a path.
LEMMA PathNone == ASSUME NEW a \in Label PROVE Path(<<>>, a, a)
<1> DEFINE lab == [i \in 1 .. Len(<<>>) + 1 |-> a]
<1>1. lab \in [1 .. Len(<<>>) + 1 -> Label]
  OBVIOUS
<1>2. lab[1] = a /\ lab[Len(<<>>) + 1] = a
  OBVIOUS
<1>3. \A i \in 1 .. Len(<<>>) : Steps(lab[i], <<>>[i], lab[i + 1])
  OBVIOUS
<1> QED BY <1>1, <1>2, <1>3 DEF Path

\* One step is a path.
LEMMA PathOne ==
  ASSUME NEW a \in Label, NEW b \in Label, NEW o \in Op, Steps(a, o, b)
  PROVE  Path(<<o>>, a, b)
<1> DEFINE lab == [i \in 1 .. Len(<<o>>) + 1 |-> IF i = 1 THEN a ELSE b]
<1>1. lab \in [1 .. Len(<<o>>) + 1 -> Label]
  OBVIOUS
<1>2. lab[1] = a /\ lab[Len(<<o>>) + 1] = b /\ lab[2] = b
  OBVIOUS
<1>3. \A i \in 1 .. Len(<<o>>) : i = 1 /\ <<o>>[i] = o
  OBVIOUS
<1>4. \A i \in 1 .. Len(<<o>>) : Steps(lab[i], <<o>>[i], lab[i + 1])
  BY <1>2, <1>3
<1> QED BY <1>1, <1>2, <1>4 DEF Path

\* A path may go on where another ends.
LEMMA PathJoin ==
  ASSUME NEW p \in Seq(Op), NEW q \in Seq(Op), NEW a, NEW b, NEW c,
         Path(p, a, b), Path(q, b, c)
  PROVE  Path(p \o q, a, c)
<1>1. PICK f \in [1 .. Len(p) + 1 -> Label] :
        /\ f[1] = a /\ f[Len(p) + 1] = b
        /\ \A i \in 1 .. Len(p) : Steps(f[i], p[i], f[i + 1])
  BY DEF Path
<1>2. PICK g \in [1 .. Len(q) + 1 -> Label] :
        /\ g[1] = b /\ g[Len(q) + 1] = c
        /\ \A i \in 1 .. Len(q) : Steps(g[i], q[i], g[i + 1])
  BY DEF Path
<1>3. /\ Len(p) \in Nat /\ Len(q) \in Nat /\ Len(p \o q) = Len(p) + Len(q)
      /\ \A i \in 1 .. Len(p) : (p \o q)[i] = p[i]
      /\ \A i \in Len(p) + 1 .. Len(p) + Len(q) : (p \o q)[i] = q[i - Len(p)]
  OBVIOUS
<1> DEFINE lab == [i \in 1 .. Len(p) + Len(q) + 1 |->
                     IF i <= Len(p) THEN f[i] ELSE g[i - Len(p)]]
<1>4. lab \in [1 .. Len(p) + Len(q) + 1 -> Label]
  <2>1. \A i \in 1 .. Len(p) + Len(q) + 1 : i <= Len(p) => f[i] \in Label
    BY <1>3
  <2>2. ASSUME NEW i \in 1 .. Len(p) + Len(q) + 1, ~ (i <= Len(p))
        PROVE  g[i - Len(p)] \in Label
    <3>1. i - Len(p) \in 1 .. Len(q) + 1
      BY <1>3, <2>2
    <3> QED BY <1>2, <3>1
  <2> QED BY <2>1, <2>2
<1>5. \A i \in 1 .. Len(p) : lab[i] = f[i] /\ lab[i + 1] = f[i + 1]
  <2> TAKE i \in 1 .. Len(p)
  <2>1. lab[i] = f[i]
    BY <1>3
  <2>2. CASE i < Len(p)
    BY <1>3, <2>1, <2>2
  <2>3. CASE i = Len(p)
    <3>1. lab[i + 1] = g[1]
      BY <1>3, <2>3
    <3> QED BY <1>1, <1>2, <2>1, <2>3, <3>1
  <2> QED BY <1>3, <2>2, <2>3
<1>6. \A i \in Len(p) + 1 .. Len(p) + Len(q) :
         lab[i] = g[i - Len(p)] /\ lab[i + 1] = g[(i - Len(p)) + 1]
  BY <1>3
<1>7. lab[1] = a
  <2>1. CASE Len(p) = 0
    BY <1>1, <1>2, <1>3, <2>1
  <2>2. CASE Len(p) > 0
    BY <1>1, <1>3, <2>2
  <2> QED BY <1>3, <2>1, <2>2
<1>8. lab[Len(p) + Len(q) + 1] = c
  BY <1>2, <1>3
<1> HIDE DEF lab
<1>9. \A i \in 1 .. Len(p) + Len(q) : Steps(lab[i], (p \o q)[i], lab[i + 1])
  <2> TAKE i \in 1 .. Len(p) + Len(q)
  <2>1. CASE i \in 1 .. Len(p)
    BY <1>1, <1>3, <1>5, <2>1
  <2>2. CASE i \in Len(p) + 1 .. Len(p) + Len(q)
    <3>1. i - Len(p) \in 1 .. Len(q)
      BY <1>3, <2>2
    <3> QED BY <1>2, <1>3, <1>6, <2>2, <3>1
  <2> QED BY <1>3, <2>1, <2>2
<1> QED BY <1>3, <1>4, <1>7, <1>8, <1>9 DEF Path

\* The first operation of a path leads to a label from which the rest goes on.
LEMMA PathFirst ==
  ASSUME NEW ops \in Seq(Op), ops # <<>>, NEW a, NEW b, Path(ops, a, b)
  PROVE  \E m \in Label : Steps(a, Head(ops), m) /\ Path(Tail(ops), m, b)
<1>1. PICK f \in [1 .. Len(ops) + 1 -> Label] :
        /\ f[1] = a /\ f[Len(ops) + 1] = b
        /\ \A i \in 1 .. Len(ops) : Steps(f[i], ops[i], f[i + 1])
  BY DEF Path
<1>2. /\ Len(ops) \in Nat /\ Len(ops) > 0 /\ Len(Tail(ops)) = Len(ops) - 1
      /\ Head(ops) = ops[1]
      /\ \A i \in 1 .. Len(ops) - 1 : Tail(ops)[i] = ops[i + 1]
  OBVIOUS
<1> DEFINE lab == [i \in 1 .. Len(ops) |-> f[i + 1]]
<1>3. f[2] \in Label /\ Steps(a, Head(ops), f[2])
  <2>1. 1 \in 1 .. Len(ops) /\ 2 \in 1 .. Len(ops) + 1 /\ 1 + 1 = 2
    BY <1>2
  <2> QED BY <1>1, <1>2, <2>1
<1>4. lab \in [1 .. Len(ops) -> Label]
  BY <1>2
<1>5. lab[1] = f[2] /\ lab[Len(ops)] = b
  BY <1>1, <1>2
<1>6. \A i \in 1 .. Len(ops) - 1 : Steps(lab[i], Tail(ops)[i], lab[i + 1])
  <2> TAKE i \in 1 .. Len(ops) - 1
  <2>1. lab[i] = f[i + 1] /\ lab[i + 1] = f[(i + 1) + 1] /\ i + 1 \in 1 .. Len(ops)
    BY <1>2
  <2> QED BY <1>1, <1>2, <2>1
<1>7. Len(Tail(ops)) + 1 = Len(ops)
  BY <1>2
<1>8. Path(Tail(ops), f[2], b)
  BY <1>2, <1>4, <1>5, <1>6, <1>7 DEF Path
<1> QED BY <1>3, <1>8

(***************************************************************************)
(* The procedures.                                                         *)
(***************************************************************************)
Idle(senses, sure, dr, ch, jb, goal) == Lb("idle", <<>>, 0, senses, sure, dr, ch, jb, goal)

\* The bytes of a command are operations.
LEMMA FifoOps ==
  ASSUME NEW bytes \in Seq(Nat)
  PROVE  /\ Fifo(bytes) \in Seq(Op) /\ Len(Fifo(bytes)) = Len(bytes)
         /\ \A i \in 1 .. Len(bytes) : Fifo(bytes)[i] = Out("fifo", bytes[i])
<1>1. DOMAIN bytes = 1 .. Len(bytes) /\ Len(bytes) \in Nat
  OBVIOUS
<1>2. \A i \in 1 .. Len(bytes) : Out("fifo", bytes[i]) \in Op
  BY DEF Out, Op
<1>3. Fifo(bytes) = [i \in 1 .. Len(bytes) |-> Out("fifo", bytes[i])]
  BY <1>1 DEF Fifo
<1> QED BY <1>1, <1>2, <1>3

\* The lengths of the commands.
LEMMA CommandLengths ==
  /\ CommandLength[SPECIFY] = 3 /\ CommandLength[READ_SECT] = 9
  /\ CommandLength[CALIBRATE] = 2 /\ CommandLength[CHECK_INT] = 1
  /\ CommandLength[SEEK] = 3
  /\ DOMAIN CommandLength = {SPECIFY, READ_SECT, CALIBRATE, CHECK_INT, SEEK}
  /\ \A c \in DOMAIN CommandLength : CommandLength[c] \in Nat \ {0}
BY DEF CommandLength, SPECIFY, READ_SECT, CALIBRATE, CHECK_INT, SEEK

\* While a command is sent, only the bytes sent so far change; what ends it is
\* decided by all of them.
LEMMA SendingIs ==
  ASSUME NEW k \in Label, NEW pre \in Seq(Nat)
  PROVE  /\ Sending(k, pre) \in Label
         /\ Sending(k, pre).ctl = "bytes" /\ Sending(k, pre).bytes = pre
         /\ Sending(k, pre).goal = k.goal
         /\ \A more : Sending(Sending(k, pre), more) = Sending(k, more)
         /\ \A bytes, n : Ends(k, bytes, n) => Ends(Sending(k, pre), bytes, n)
<1> DEFINE h == Sending(k, pre)
<1>1. /\ h \in Label /\ h.ctl = "bytes" /\ h.bytes = pre
      /\ h.senses = k.senses /\ h.dor = k.dor /\ h.goal = k.goal /\ h.dma = k.dma
      /\ h.job = k.job /\ h.left = k.left /\ h.sure = k.sure
  BY DEF Label, Sending, Lb
<1> HIDE DEF h
<1>2. \A more : Sending(h, more) = Sending(k, more)
  BY <1>1 DEF Sending
<1>3. \A bytes, n : Ends(k, bytes, n) => Ends(h, bytes, n)
  BY <1>1, ZenonT(40) DEF Ends
<1> QED BY <1>1, <1>2, <1>3 DEF h

\* All bytes of a command, from an idle controller to the end of the command.
LEMMA CommandPath ==
  ASSUME NEW k \in Label, k.ctl = "idle", k.bytes = <<>>, k.goal # "over",
         NEW bytes \in Seq(Nat), bytes # <<>>,
         bytes[1] % 32 \in DOMAIN CommandLength,
         Len(bytes) = CommandLength[bytes[1] % 32],
         NEW n \in Label, Ends(k, bytes, n)
  PROVE  Path(Fifo(bytes), k, n)
<1> DEFINE L == Len(bytes)
           pre(i) == SubSeq(bytes, 1, i - 1)
           lab == [i \in 1 .. L + 1 |->
                     IF i = 1 THEN k ELSE IF i <= L THEN Sending(k, pre(i)) ELSE n]
<1>1. L \in Nat \ {0} /\ k \in Label /\ k.ctl = "idle" /\ k.bytes = <<>> /\ k.goal # "over"
  OBVIOUS
<1>2. \A i \in 1 .. L + 1 : pre(i) \in Seq(Nat) /\ Len(pre(i)) = i - 1
  BY <1>1
<1> HIDE DEF pre
<1>3. \A i \in 1 .. L : Sending(k, pre(i)) \in Label
  BY <1>1, <1>2, SendingIs
<1>4. lab \in [1 .. L + 1 -> Label]
  BY <1>1, <1>3
<1>5. lab[1] = k /\ lab[L + 1] = n
  BY <1>1
<1>a. \A i \in 1 .. L : i # 1 => lab[i] = Sending(k, pre(i))
  BY <1>1
<1> HIDE DEF lab
<1>6. ASSUME NEW i \in 1 .. L
      PROVE  Steps(lab[i], Out("fifo", bytes[i]), lab[i + 1])
  <2> DEFINE o == Out("fifo", bytes[i])
  <2>1. o.op = "out" /\ o.port = "fifo" /\ o.val = bytes[i]
    BY DEF Out
  <2>i. i \in Nat /\ i >= 1 /\ i <= L /\ i + 1 \in 1 .. L + 1 /\ i \in 1 .. L + 1
    BY <1>1
  <2>2. lab[i].ctl \in {"idle", "bytes"} /\ lab[i].goal # "over" /\ lab[i] \in Label
    <3>1. CASE i = 1
      BY <1>1, <1>5, <3>1
    <3>2. CASE i # 1
      <4>1. lab[i] = Sending(k, pre(i)) /\ pre(i) \in Seq(Nat)
        BY <1>2, <1>a, <2>i, <3>2
      <4> QED BY <1>1, <4>1, SendingIs
    <3> QED BY <3>1, <3>2
  <2>3. Append(lab[i].bytes, bytes[i]) = pre(i + 1)
    <3>1. CASE i = 1
      <4>1. lab[i].bytes = <<>>
        BY <1>1, <1>5, <3>1
      <4>2. SubSeq(bytes, 1, 0) = <<>>
        BY <1>1
      <4>3. Append(SubSeq(bytes, 1, 0), bytes[1]) = SubSeq(bytes, 1, 1)
        BY <1>1
      <4> QED BY <3>1, <4>1, <4>2, <4>3 DEF pre
    <3>2. CASE i > 1
      <4>1. lab[i] = Sending(k, pre(i))
        BY <1>a, <3>2
      <4>2. lab[i].bytes = pre(i)
        BY <1>1, <1>2, <4>1, <2>i, SendingIs
      <4>3. Append(SubSeq(bytes, 1, i - 1), bytes[i]) = SubSeq(bytes, 1, i)
        BY <1>1, <3>2
      <4> QED BY <4>2, <4>3, <2>i DEF pre
    <3>3. i = 1 \/ i > 1
      BY <2>i
    <3> QED BY <3>1, <3>2, <3>3
  <2>4. pre(i + 1)[1] = bytes[1] /\ Len(pre(i + 1)) = i
    BY <1>1 DEF pre
  <2>5. CASE i < L
    <3>1. lab[i + 1] = Sending(k, pre(i + 1))
      BY <1>a, <2>5, <2>i
    <3>2. lab[i + 1] = Sending(lab[i], pre(i + 1))
      <4>1. CASE i = 1
        BY <1>5, <3>1, <4>1
      <4>2. CASE i # 1
        <5>1. lab[i] = Sending(k, pre(i))
          BY <1>a, <2>i, <4>2
        <5>2. pre(i) \in Seq(Nat) /\ pre(i + 1) \in Seq(Nat)
          BY <1>2, <2>i
        <5> QED BY <1>1, <3>1, <5>1, <5>2, SendingIs
      <4> QED BY <4>1, <4>2
    <3>3. FifoStep(lab[i], o, lab[i + 1])
      BY <2>1, <2>2, <2>3, <2>4, <2>5, <3>2 DEF FifoStep
    <3> QED BY <2>2, <3>3 DEF Steps
  <2>6. CASE i = L
    <3>1. lab[i + 1] = n
      BY <1>5, <2>6
    <3>2. pre(i + 1) = bytes
      BY <1>1, <2>6 DEF pre
    <3>3. Ends(lab[i], bytes, n)
      <4>1. CASE i = 1
        BY <1>5, <4>1
      <4>2. CASE i # 1
        <5>1. lab[i] = Sending(k, pre(i)) /\ pre(i) \in Seq(Nat)
          BY <1>2, <1>a, <2>i, <4>2
        <5> QED BY <1>1, <5>1, SendingIs
      <4> QED BY <4>1, <4>2
    <3>4. FifoStep(lab[i], o, lab[i + 1])
      BY <2>1, <2>2, <2>3, <2>4, <2>6, <3>1, <3>2, <3>3 DEF FifoStep
    <3> QED BY <2>2, <3>4 DEF Steps
  <2> QED BY <2>i, <2>5, <2>6
<1>7. Len(Fifo(bytes)) = L /\ \A i \in 1 .. L : Fifo(bytes)[i] = Out("fifo", bytes[i])
  BY FifoOps
<1> QED BY <1>4, <1>5, <1>6, <1>7 DEF Path


\* The codes of the commands differ.
LEMMA Commands ==
  /\ SPECIFY = 3 /\ READ_SECT = 6 /\ CALIBRATE = 7 /\ CHECK_INT = 8 /\ SEEK = 15
BY DEF SPECIFY, READ_SECT, CALIBRATE, CHECK_INT, SEEK

\* A single operation is a sequence of them.
LEMMA OneOp ==
  ASSUME NEW o \in Op
  PROVE  <<o>> \in Seq(Op) /\ Len(<<o>>) = 1
OBVIOUS

\* There are bytes of a result to be read.
Result(left, senses, sure, dr, ch, jb, goal) ==
  Lb("result", <<>>, left, senses, sure, dr, ch, jb, goal)

\* The quantities a label is made of.
LEMMA IdleIs ==
  ASSUME NEW senses \in 0 .. 4, NEW sure \in BOOLEAN, NEW dr \in Byte, NEW ch \in Dma,
         NEW jb \in Lba \cup {-1}, NEW goal \in Goal
  PROVE  LET k == Idle(senses, sure, dr, ch, jb, goal)
         IN  /\ k \in Label /\ k.ctl = "idle" /\ k.bytes = <<>> /\ k.left = 0
             /\ k.senses = senses /\ k.sure = sure /\ k.dor = dr /\ k.dma = ch
             /\ k.job = jb /\ k.goal = goal
BY DEF Idle, Lb, Label

\* Reading a byte of a result, and reading one that is not there.
LEMMA ResultPath ==
  ASSUME NEW senses \in 0 .. 4, NEW sure \in BOOLEAN, NEW dr \in Byte, NEW ch \in Dma,
         NEW jb \in Lba \cup {-1}, NEW goal \in Goal, goal \notin {"failed", "over"}
  PROVE  /\ \A l \in Nat \ {0} : Path(<<Do("in")>>, Result(l + 1, senses, sure, dr, ch, jb, goal),
                                                    Result(l, senses, sure, dr, ch, jb, goal))
         /\ Path(<<Do("in")>>, Result(1, senses, sure, dr, ch, jb, goal),
                               Idle(senses, sure, dr, ch, jb, goal))
         /\ Path(<<Do("in")>>, Idle(senses, sure, dr, ch, jb, goal),
                               Idle(senses, FALSE, dr, ch, jb, goal))
<1> DEFINE At(l) == Result(l, senses, sure, dr, ch, jb, goal)
           k0 == Idle(senses, sure, dr, ch, jb, goal)
           k1 == Idle(senses, FALSE, dr, ch, jb, goal)
<1>1. Do("in") \in Op /\ Do("in").op = "in"
  BY DEF Do, Op
<1>2. ASSUME NEW l \in Nat PROVE At(l) \in Label
  BY DEF Result, Lb, Label
<1>3. k0 \in Label /\ k1 \in Label
  BY IdleIs
<1>4. ASSUME NEW l \in Nat \ {0} PROVE Steps(At(l + 1), Do("in"), At(l))
  BY <1>1 DEF Result, Lb, Steps, InStep
<1>5. Steps(At(1), Do("in"), k0)
  BY <1>1 DEF Result, Lb, Steps, InStep, Idle
<1>6. Steps(k0, Do("in"), k1)
  BY <1>1 DEF Lb, Steps, InStep, Idle
<1> HIDE DEF At, k0, k1
<1>7. ASSUME NEW l \in Nat \ {0} PROVE Path(<<Do("in")>>, At(l + 1), At(l))
  <2>1. At(l) \in Label /\ At(l + 1) \in Label
    BY <1>2
  <2> QED BY <1>1, <1>4, <2>1, PathOne
<1>8. Path(<<Do("in")>>, At(1), k0) /\ Path(<<Do("in")>>, k0, k1)
  BY <1>1, <1>2, <1>3, <1>5, <1>6, PathOne
<1> QED BY <1>7, <1>8 DEF At, k0, k1

\* The operations flpydsk_check_int is made of.
LEMMA CheckOps ==
  /\ Do("in") \in Op /\ <<Do("in")>> \in Seq(Op)
  /\ Fifo(<<CHECK_INT>>) \in Seq(Op) /\ <<Do("in")>> \o <<Do("in")>> \in Seq(Op)
  /\ flpydsk_check_int = Fifo(<<CHECK_INT>>) \o (<<Do("in")>> \o <<Do("in")>>)
  /\ flpydsk_check_int \in Seq(Op)
<1>1. Do("in") \in Op
  BY DEF Do, Op
<1>2. <<CHECK_INT>> \in Seq(Nat)
  BY Commands
<1>3. Fifo(<<CHECK_INT>>) \in Seq(Op)
  BY <1>2, FifoOps
<1>4. <<Do("in"), Do("in")>> = <<Do("in")>> \o <<Do("in")>>
  OBVIOUS
<1>5. <<Do("in")>> \in Seq(Op) /\ <<Do("in"), Do("in")>> \in Seq(Op)
  BY <1>1
<1>6. flpydsk_check_int = Fifo(<<CHECK_INT>>) \o <<Do("in"), Do("in")>>
  BY DEF flpydsk_check_int
<1>7. flpydsk_check_int \in Seq(Op)
  BY <1>3, <1>5, <1>6
<1> QED BY <1>1, <1>3, <1>4, <1>5, <1>6, <1>7

\* Sensing an interrupt that is to be sensed gives the cylinder; sensing none
\* is harmless.
LEMMA CheckPath ==
  ASSUME NEW senses \in 0 .. 4, NEW sure \in BOOLEAN, NEW dr \in Byte, NEW ch \in Dma,
         NEW jb \in Lba \cup {-1}, NEW goal \in Goal, goal \notin {"failed", "over"}
  PROVE  Path(flpydsk_check_int, Idle(senses, sure, dr, ch, jb, goal),
              IF senses > 0 THEN Idle(senses - 1, TRUE, dr, ch, jb, goal)
                            ELSE Idle(0, FALSE, dr, ch, jb, goal))
<1> DEFINE k == Idle(senses, sure, dr, ch, jb, goal)
           r(l, s, b) == Result(l, s, b, dr, ch, jb, goal)
           n(s, b) == Idle(s, b, dr, ch, jb, goal)
<1>1. /\ k \in Label /\ k.ctl = "idle" /\ k.bytes = <<>> /\ k.goal # "over" /\ k.goal # "failed"
      /\ k.senses = senses /\ k.dor = dr /\ k.dma = ch /\ k.job = jb /\ k.goal = goal
  BY IdleIs
<1>2. /\ <<CHECK_INT>> \in Seq(Nat) /\ <<CHECK_INT>> # <<>> /\ Len(<<CHECK_INT>>) = 1
      /\ <<CHECK_INT>>[1] % 32 = CHECK_INT
  BY Commands
<1>3. \A m \in Label : Ends(k, <<CHECK_INT>>, m) => Path(Fifo(<<CHECK_INT>>), k, m)
  BY <1>1, <1>2, CommandPath, CommandLengths
<1>a. \A l \in Nat, s \in 0 .. 4, b \in BOOLEAN : r(l, s, b) \in Label
  BY DEF Lb, Label, Result
<1>b. senses > 0 => Ends(k, <<CHECK_INT>>, r(2, senses - 1, TRUE))
  BY <1>1, <1>2 DEF Ends, Result
<1>c. senses = 0 => Ends(k, <<CHECK_INT>>, r(1, 0, FALSE))
  BY <1>1, <1>2 DEF Ends, Result
<1>d. ASSUME NEW s \in 0 .. 4, NEW b \in BOOLEAN
      PROVE  /\ Path(<<Do("in")>>, r(2, s, b), r(1, s, b))
             /\ Path(<<Do("in")>>, r(1, s, b), n(s, b))
             /\ Path(<<Do("in")>>, n(s, b), n(s, FALSE))
  <2>1. 1 + 1 = 2 /\ 1 \in Nat \ {0}
    OBVIOUS
  <2>2. /\ \A l \in Nat \ {0} : Path(<<Do("in")>>, r(l + 1, s, b), r(l, s, b))
        /\ Path(<<Do("in")>>, r(1, s, b), n(s, b))
        /\ Path(<<Do("in")>>, n(s, b), n(s, FALSE))
    BY ResultPath
  <2> HIDE DEF r, n
  <2> QED BY <2>1, <2>2
<1> HIDE DEF r, n, k
<1>4. CASE senses > 0
  <2>1. senses - 1 \in 0 .. 4 /\ 2 \in Nat
    BY <1>4
  <2>2. Path(Fifo(<<CHECK_INT>>), k, r(2, senses - 1, TRUE))
    BY <1>3, <1>a, <1>b, <1>4, <2>1
  <2>3. Path(<<Do("in")>> \o <<Do("in")>>, r(2, senses - 1, TRUE), n(senses - 1, TRUE))
    BY <1>d, <2>1, CheckOps, PathJoin
  <2>4. Path(flpydsk_check_int, k, n(senses - 1, TRUE))
    BY <2>2, <2>3, CheckOps, PathJoin
  <2> QED BY <1>4, <2>4 DEF k, n
<1>5. CASE senses = 0
  <2>1. 0 \in 0 .. 4 /\ 1 \in Nat
    OBVIOUS
  <2>2. Path(Fifo(<<CHECK_INT>>), k, r(1, 0, FALSE))
    BY <1>3, <1>a, <1>c, <1>5, <2>1
  <2>3. Path(<<Do("in")>> \o <<Do("in")>>, r(1, 0, FALSE), n(0, FALSE))
    BY <1>d, <2>1, CheckOps, PathJoin
  <2>4. Path(flpydsk_check_int, k, n(0, FALSE))
    BY <2>2, <2>3, CheckOps, PathJoin
  <2>5. ~ (senses > 0)
    BY <1>5
  <2> QED BY <2>4, <2>5 DEF k, n
<1>6. senses > 0 \/ senses = 0
  OBVIOUS
<1> QED BY <1>4, <1>5, <1>6, Zenon

\* Programming the times of the drive leaves it as it was.
LEMMA DriveDataPath ==
  ASSUME NEW senses \in 0 .. 4, NEW sure \in BOOLEAN, NEW dr \in Byte, NEW ch \in Dma,
         NEW jb \in Lba \cup {-1}, NEW goal \in Goal, goal # "over",
         NEW stepr \in Nat, NEW loadt \in Nat, NEW unloadt \in Nat
  PROVE  /\ flpydsk_drive_data(stepr, loadt, unloadt) \in Seq(Op)
         /\ LET k == Idle(senses, sure, dr, ch, jb, goal)
            IN  Path(flpydsk_drive_data(stepr, loadt, unloadt), k, k)
<1> DEFINE k == Idle(senses, sure, dr, ch, jb, goal)
           x == 16 * (stepr % 16) + (unloadt % 16)
           y == 2 * loadt
<1>1. /\ k \in Label /\ k.ctl = "idle" /\ k.bytes = <<>> /\ k.left = 0 /\ k.goal # "over"
      /\ k.senses = senses /\ k.sure = sure /\ k.dor = dr /\ k.dma = ch /\ k.job = jb
      /\ k.goal = goal
  BY IdleIs
<1>2. x \in Nat /\ y \in Nat
  OBVIOUS
<1> HIDE DEF x, y
<1>3. /\ <<SPECIFY, x, y>> \in Seq(Nat) /\ <<SPECIFY, x, y>> # <<>>
      /\ Len(<<SPECIFY, x, y>>) = 3 /\ <<SPECIFY, x, y>>[1] % 32 = SPECIFY
  BY <1>2, Commands
<1>4. Ends(k, <<SPECIFY, x, y>>, k)
  BY <1>1, <1>3 DEF Ends, Idle
<1> HIDE DEF k
<1>5. Path(Fifo(<<SPECIFY, x, y>>), k, k)
  BY <1>1, <1>3, <1>4, CommandPath, CommandLengths
<1>6. Fifo(<<SPECIFY, x, y>>) \in Seq(Op)
  BY <1>3, FifoOps
<1> QED BY <1>5, <1>6 DEF flpydsk_drive_data, x, y, k

\* The register of the motors.
LEMMA DorPath ==
  ASSUME NEW senses \in 0 .. 4, NEW sure \in BOOLEAN, NEW dr \in Byte, NEW ch \in Dma,
         NEW jb \in Lba \cup {-1}, NEW goal \in Goal, goal # "over", NEW b \in BOOLEAN
  PROVE  /\ flpydsk_control_motor(b) \in Seq(Op)
         /\ Path(flpydsk_control_motor(b), Idle(senses, sure, dr, ch, jb, goal),
                 Idle(senses, sure, IF b THEN 28 ELSE 4, ch, jb, goal))
<1> DEFINE v == IF b THEN 28 ELSE 4
           k == Idle(senses, sure, dr, ch, jb, goal)
           n == Idle(senses, sure, v, ch, jb, goal)
           o == Out("dor", v)
<1>1. o \in Op /\ o.op = "out" /\ o.port = "dor" /\ o.val = v /\ v \in Byte
  BY DEF Out, Op, Byte
<1>2. k \in Label /\ n \in Label
  BY <1>1, IdleIs
<1>3. flpydsk_control_motor(b) = <<o>>
  BY DEF flpydsk_control_motor
<1>4. Steps(k, o, n)
  BY <1>1 DEF Steps, DorStep, Idle, Lb
<1> HIDE DEF k, n, o
<1>5. Path(<<o>>, k, n)
  BY <1>1, <1>2, <1>4, PathOne
<1> QED BY <1>1, <1>3, <1>5, OneOp DEF k, n

\* Operations of the driver, and a path for them.
Goes(ops, a, b) == ops \in Seq(Op) /\ Path(ops, a, b)

\* Paths of operations of the driver are made like other paths.
LEMMA GoesOne ==
  ASSUME NEW a \in Label, NEW b \in Label, NEW o \in Op, Steps(a, o, b)
  PROVE  Goes(<<o>>, a, b)
BY OneOp, PathOne DEF Goes

\* Two lists of operations, one after the other.
LEMMA GoesJoin ==
  ASSUME NEW p, NEW q, NEW a, NEW b, NEW c, Goes(p, a, b), Goes(q, b, c)
  PROVE  Goes(p \o q, a, c)
<1>1. p \in Seq(Op) /\ q \in Seq(Op) /\ Path(p, a, b) /\ Path(q, b, c)
  BY DEF Goes
<1>2. p \o q \in Seq(Op)
  BY <1>1
<1>3. Path(p \o q, a, c)
  BY <1>1, PathJoin
<1> QED BY <1>2, <1>3 DEF Goes

\* The lemmas above, said with Goes.
LEMMA CommandGoes ==
  ASSUME NEW k \in Label, k.ctl = "idle", k.bytes = <<>>, k.goal # "over",
         NEW bytes \in Seq(Nat), bytes # <<>>,
         bytes[1] % 32 \in DOMAIN CommandLength,
         Len(bytes) = CommandLength[bytes[1] % 32],
         NEW n \in Label, Ends(k, bytes, n)
  PROVE  Goes(Fifo(bytes), k, n)
BY CommandPath, FifoOps DEF Goes

\* flpydsk_check_int() senses one of the interrupts the controller holds.
LEMMA CheckGoes ==
  ASSUME NEW s \in 0 .. 4, NEW t \in 0 .. 4, NEW sure \in BOOLEAN, NEW dr \in Byte, NEW ch \in Dma,
         NEW jb \in Lba \cup {-1}, NEW goal \in Goal, goal \notin {"failed", "over"}, s = t - 1
  PROVE  Goes(flpydsk_check_int, Idle(t, sure, dr, ch, jb, goal), Idle(s, TRUE, dr, ch, jb, goal))
<1>1. t > 0
  OBVIOUS
<1>2. Path(flpydsk_check_int, Idle(t, sure, dr, ch, jb, goal),
           IF t > 0 THEN Idle(t - 1, TRUE, dr, ch, jb, goal)
                    ELSE Idle(0, FALSE, dr, ch, jb, goal))
  BY CheckPath
<1> QED BY <1>1, <1>2, CheckOps DEF Goes

\* The controller works on a command.
Busy(bytes, dr, ch, jb, goal) == Lb("busy", bytes, 0, 0, FALSE, dr, ch, jb, goal)

\* The wait for the interrupt of a command.
LEMMA WaitGoes ==
  ASSUME NEW bytes \in Seq(Nat), NEW dr \in Byte, NEW ch \in Dma,
         NEW jb \in Lba \cup {-1}, NEW goal \in Goal, goal # "over"
  PROVE  LET k == Busy(bytes, dr, ch, jb, goal)
         IN  k \in Label /\ Woken(k) \in Label /\ Goes(<<flpydsk_wait_irq>>, k, Woken(k))
<1> DEFINE k == Busy(bytes, dr, ch, jb, goal)
<1>1. /\ k \in Label /\ k.ctl = "busy" /\ k.goal = goal /\ k.dor = dr /\ k.dma = ch /\ k.job = jb
      /\ k.bytes = bytes
  BY DEF Busy, Lb, Label
<1> HIDE DEF k
<1>2. Woken(k) \in Label
  <2>1. "got" \in Goal
    BY DEF Goal
  <2> QED BY <1>1, <2>1 DEF Woken, Lb, Label
<1>3. flpydsk_wait_irq \in Op /\ flpydsk_wait_irq.op = "wait"
  BY DEF flpydsk_wait_irq, Do, Op
<1>4. Steps(k, flpydsk_wait_irq, Woken(k))
  BY <1>1, <1>3 DEF Steps, WaitStep
<1>5. Goes(<<flpydsk_wait_irq>>, k, Woken(k))
  BY <1>1, <1>2, <1>3, <1>4, GoesOne
<1> QED BY <1>1, <1>2, <1>5 DEF k

\* A command that moves the head, the wait for its end and the sensing of it:
\* the byte read last is the cylinder the head is at.
LEMMA MoveGoes ==
  ASSUME NEW sure \in BOOLEAN, NEW ch \in Dma, NEW jb \in Lba \cup {-1},
         NEW goal \in {"install", "seek"}, NEW bytes \in Seq(Nat), bytes # <<>>,
         bytes[1] \in {CALIBRATE, SEEK}, Len(bytes) = CommandLength[bytes[1]]
  PROVE  Goes(Fifo(bytes) \o <<flpydsk_wait_irq>> \o flpydsk_check_int,
              Idle(0, sure, 28, ch, jb, goal), Idle(0, TRUE, 28, ch, jb, goal))
<1> DEFINE k == Idle(0, sure, 28, ch, jb, goal)
           m == Busy(bytes, 28, ch, jb, goal)
           w == Idle(1, FALSE, 28, ch, jb, goal)
           n == Idle(0, TRUE, 28, ch, jb, goal)
<1>1. 28 \in Byte /\ goal \in Goal /\ goal \notin {"failed", "over"} /\ goal # "over"
  BY DEF Byte, Goal
<1>2. /\ bytes[1] % 32 = bytes[1] /\ bytes[1] \in DOMAIN CommandLength
      /\ bytes[1] # READ_SECT
  BY Commands, CommandLengths
<1>3. /\ k \in Label /\ k.ctl = "idle" /\ k.bytes = <<>> /\ k.left = 0 /\ k.senses = 0
      /\ k.sure = sure /\ k.dor = 28 /\ k.dma = ch /\ k.job = jb /\ k.goal = goal
  BY <1>1, IdleIs
<1>4. m \in Label /\ Goes(<<flpydsk_wait_irq>>, m, Woken(m))
  BY <1>1, WaitGoes
<1>5. Woken(m) = w
  BY <1>2 DEF Woken, Busy, Lb, Idle
<1>6. Ends(k, bytes, m)
  BY <1>2, <1>3 DEF Ends, Busy
<1>7. Goes(flpydsk_check_int, w, n)
  <2>1. 0 \in 0 .. 4 /\ 1 \in 0 .. 4 /\ 0 = 1 - 1 /\ FALSE \in BOOLEAN
    OBVIOUS
  <2> QED BY <1>1, <2>1, CheckGoes, Zenon
<1> HIDE DEF k, m, w, n
<1>8. Goes(Fifo(bytes), k, m)
  BY <1>1, <1>2, <1>3, <1>4, <1>6, CommandGoes
<1>9. Goes(Fifo(bytes) \o <<flpydsk_wait_irq>>, k, w)
  BY <1>4, <1>5, <1>8, GoesJoin
<1>10. Goes(Fifo(bytes) \o <<flpydsk_wait_irq>> \o flpydsk_check_int, k, n)
  BY <1>7, <1>9, GoesJoin
<1> QED BY <1>10 DEF k, n

\* The tests, and what is left to do when they succeed.
LEMMA TestGoes ==
  ASSUME NEW o \in Op, NEW ch \in Dma, NEW jb \in Lba \cup {-1}, NEW sure \in BOOLEAN
  PROVE  /\ o.op = "calibrated" =>
              Goes(<<o>>, Idle(0, TRUE, 28, ch, jb, "install"), Idle(0, TRUE, 4, ch, jb, "install"))
         /\ o.op = "sought" =>
              Goes(<<o>>, Idle(0, TRUE, 28, ch, jb, "seek"), Idle(0, FALSE, 28, ch, jb, "over"))
         /\ o.op = "reply" =>
              Goes(<<o>>, Idle(0, sure, 4, ch, jb, "got"), Idle(0, FALSE, 4, ch, jb, "over"))
         /\ o.op = "fail" =>
              Goes(<<o>>, Idle(0, sure, 28, ch, jb, "failed"), Idle(0, FALSE, 28, ch, jb, "over"))
<1>1. 28 \in Byte /\ 4 \in Byte
  BY DEF Byte
<1>2. \A b \in BOOLEAN, dr \in Byte, g \in Goal : Idle(0, b, dr, ch, jb, g) \in Label
  BY IdleIs
<1>3. {"install", "seek", "got", "failed", "over"} \subseteq Goal
  BY DEF Goal
<1>4. CASE o.op = "calibrated"
  <2>1. Steps(Idle(0, TRUE, 28, ch, jb, "install"), o, Idle(0, TRUE, 4, ch, jb, "install"))
    BY <1>4 DEF Steps, TestStep, Idle, Lb
  <2> QED BY <1>1, <1>2, <1>3, <1>4, <2>1, GoesOne
<1>5. CASE o.op = "sought"
  <2>1. Steps(Idle(0, TRUE, 28, ch, jb, "seek"), o, Idle(0, FALSE, 28, ch, jb, "over"))
    BY <1>5 DEF Steps, TestStep, Idle, Lb
  <2> QED BY <1>1, <1>2, <1>3, <1>5, <2>1, GoesOne
<1>6. CASE o.op = "reply"
  <2>1. Steps(Idle(0, sure, 4, ch, jb, "got"), o, Idle(0, FALSE, 4, ch, jb, "over"))
    BY <1>6 DEF Steps, TestStep, Idle, Lb
  <2> QED BY <1>1, <1>2, <1>3, <1>6, <2>1, GoesOne
<1>7. CASE o.op = "fail"
  <2>1. Steps(Idle(0, sure, 28, ch, jb, "failed"), o, Idle(0, FALSE, 28, ch, jb, "over"))
    BY <1>7 DEF Steps, TestStep, Idle, Lb
  <2> QED BY <1>1, <1>2, <1>3, <1>7, <2>1, GoesOne
<1> QED BY <1>4, <1>5, <1>6, <1>7

\* One attempt to calibrate: when it is over the motor is off.
LEMMA CalibrateGoes ==
  ASSUME NEW sure \in BOOLEAN, NEW ch \in Dma, NEW jb \in Lba \cup {-1}
  PROVE  Goes(Calibrate, Idle(0, sure, 28, ch, jb, "install"), Idle(0, TRUE, 4, ch, jb, "install"))
<1>1. /\ <<CALIBRATE, 0>> \in Seq(Nat) /\ <<CALIBRATE, 0>> # <<>>
      /\ <<CALIBRATE, 0>>[1] = CALIBRATE
      /\ Len(<<CALIBRATE, 0>>) = CommandLength[<<CALIBRATE, 0>>[1]]
  BY Commands, CommandLengths
<1>2. Goes(Fifo(<<CALIBRATE, 0>>) \o <<flpydsk_wait_irq>> \o flpydsk_check_int,
           Idle(0, sure, 28, ch, jb, "install"), Idle(0, TRUE, 28, ch, jb, "install"))
  BY <1>1, MoveGoes
<1>3. Do("calibrated") \in Op /\ Do("calibrated").op = "calibrated"
  BY DEF Do, Op
<1>4. Goes(<<Do("calibrated")>>, Idle(0, TRUE, 28, ch, jb, "install"), Idle(0, TRUE, 4, ch, jb, "install"))
  BY <1>3, TestGoes
<1> QED BY <1>2, <1>4, GoesJoin DEF Calibrate

\* One attempt to seek: the request may be over after it.
LEMMA SeekGoes ==
  ASSUME NEW sure \in BOOLEAN, NEW ch \in Dma, NEW jb \in Lba \cup {-1},
         NEW c \in Nat, NEW head \in Nat
  PROVE  Goes(Seek(c, head), Idle(0, sure, 28, ch, jb, "seek"), Idle(0, FALSE, 28, ch, jb, "over"))
<1>1. /\ <<SEEK, 4 * head, c>> \in Seq(Nat) /\ <<SEEK, 4 * head, c>> # <<>>
      /\ <<SEEK, 4 * head, c>>[1] = SEEK
      /\ Len(<<SEEK, 4 * head, c>>) = CommandLength[<<SEEK, 4 * head, c>>[1]]
  BY Commands, CommandLengths
<1>2. Goes(Fifo(<<SEEK, 4 * head, c>>) \o <<flpydsk_wait_irq>> \o flpydsk_check_int,
           Idle(0, sure, 28, ch, jb, "seek"), Idle(0, TRUE, 28, ch, jb, "seek"))
  BY <1>1, MoveGoes
<1>3. Do("sought") \in Op /\ Do("sought").op = "sought"
  BY DEF Do, Op
<1>4. Goes(<<Do("sought")>>, Idle(0, TRUE, 28, ch, jb, "seek"), Idle(0, FALSE, 28, ch, jb, "over"))
  BY <1>3, TestGoes
<1> QED BY <1>2, <1>4, GoesJoin DEF Seek

\* The motor on, or off.
LEMMA MotorGoes ==
  ASSUME NEW sure \in BOOLEAN, NEW dr \in Byte, NEW ch \in Dma,
         NEW jb \in Lba \cup {-1}, NEW goal \in Goal, goal # "over"
  PROVE  /\ Goes(flpydsk_control_motor(TRUE), Idle(0, sure, dr, ch, jb, goal),
                  Idle(0, sure, 28, ch, jb, goal))
         /\ Goes(flpydsk_control_motor(FALSE), Idle(0, sure, dr, ch, jb, goal),
                  Idle(0, sure, 4, ch, jb, goal))
<1>1. \A b \in BOOLEAN :
        /\ flpydsk_control_motor(b) \in Seq(Op)
        /\ Path(flpydsk_control_motor(b), Idle(0, sure, dr, ch, jb, goal),
                 Idle(0, sure, IF b THEN 28 ELSE 4, ch, jb, goal))
  BY DorPath
<1> QED BY <1>1 DEF Goes

\* A port of the DMA controller, or of the data rate.
LEMMA PortGoes ==
  ASSUME NEW sure \in BOOLEAN, NEW dr \in Byte, NEW ch \in Dma, NEW c2 \in Dma,
         NEW jb \in Lba \cup {-1}, NEW goal \in Goal, goal # "over",
         NEW port, NEW v \in Nat, Out(port, v) \in Op, port \notin {"dor", "fifo"},
         c2 = Programmed(ch, port, v)
  PROVE  Goes(<<Out(port, v)>>, Idle(0, sure, dr, ch, jb, goal), Idle(0, sure, dr, c2, jb, goal))
<1>1. Steps(Idle(0, sure, dr, ch, jb, goal), Out(port, v), Idle(0, sure, dr, c2, jb, goal))
  BY DEF Steps, PortStep, Idle, Lb, Out
<1>2. Idle(0, sure, dr, ch, jb, goal) \in Label /\ Idle(0, sure, dr, c2, jb, goal) \in Label
  BY IdleIs
<1> QED BY <1>1, <1>2, GoesOne

\* After its reset the controller has four interrupts to be sensed.
LEMMA ResetGoes ==
  ASSUME NEW sure \in BOOLEAN, NEW ch \in Dma
  PROVE  Goes(<<Out("dor", 0), Out("dor", 4 + 8), flpydsk_wait_irq>>,
              Idle(0, sure, 12, ch, -1, "install"), Idle(4, FALSE, 12, ch, -1, "install"))
<1> DEFINE k == Idle(0, sure, 12, ch, -1, "install")
           r == Lb("reset", <<>>, 0, 0, FALSE, 0, ch, -1, "install")
           b == Busy(<<>>, 12, ch, -1, "install")
           w == Idle(4, FALSE, 12, ch, -1, "install")
<1>1. 12 \in Byte /\ 0 \in Byte /\ "install" \in Goal /\ -1 \in Lba \cup {-1} /\ <<>> \in Seq(Nat)
  BY DEF Byte, Goal
<1>2. k \in Label
  BY <1>1, IdleIs
<1>3. r \in Label
  BY <1>1 DEF Lb, Label
<1>4. b \in Label /\ Goes(<<flpydsk_wait_irq>>, b, Woken(b))
  BY <1>1, WaitGoes
<1>5. Woken(b) = w
  BY DEF Woken, Busy, Lb, Idle
<1>6. Out("dor", 0) \in Op /\ Out("dor", 4 + 8) \in Op
  BY DEF Out, Op
<1>7. Steps(k, Out("dor", 0), r)
  BY DEF Steps, DorStep, Out, Idle, Lb
<1>8. Steps(r, Out("dor", 4 + 8), b)
  BY DEF Steps, DorStep, Out, Busy, Lb
<1> HIDE DEF k, r, b, w
<1>9. Goes(<<Out("dor", 0)>>, k, r) /\ Goes(<<Out("dor", 4 + 8)>>, r, b)
  BY <1>2, <1>3, <1>4, <1>6, <1>7, <1>8, GoesOne
<1>10. Goes(<<Out("dor", 0)>> \o <<Out("dor", 4 + 8)>> \o <<flpydsk_wait_irq>>, k, w)
  BY <1>4, <1>5, <1>9, GoesJoin
<1>11. <<Out("dor", 0), Out("dor", 4 + 8), flpydsk_wait_irq>>
         = <<Out("dor", 0)>> \o <<Out("dor", 4 + 8)>> \o <<flpydsk_wait_irq>>
  OBVIOUS
<1> QED BY <1>10, <1>11 DEF k, w

\* The installation ends with the motor off and nothing to be sensed.
LEMMA InstallGoes ==
  ASSUME NEW sure \in BOOLEAN, NEW ch \in Dma
  PROVE  Goes(flpydsk_install, Idle(0, sure, 12, ch, -1, "install"), Idle(0, TRUE, 4, ch, -1, "install"))
<1> DEFINE k(s, b, dr) == Idle(s, b, dr, ch, -1, "install")
<1>1. 12 \in Byte /\ 4 \in Byte /\ "install" \in Goal /\ "install" \notin {"failed", "over"} /\ "install" # "over" /\ -1 \in Lba \cup {-1}
  BY DEF Byte, Goal
<1>2. Goes(<<Out("dor", 0), Out("dor", 4 + 8), flpydsk_wait_irq>>, k(0, sure, 12), k(4, FALSE, 12))
  BY ResetGoes
<1>3. ASSUME NEW s \in 0 .. 4, NEW t \in 0 .. 4, s = t - 1, NEW b \in BOOLEAN
      PROVE  Goes(flpydsk_check_int, k(t, b, 12), k(s, TRUE, 12))
  BY <1>1, <1>3, CheckGoes
<1>4. Goes(<<Out("ccr", 0)>>, k(0, TRUE, 12), k(0, TRUE, 12))
  <2>1. Out("ccr", 0) \in Op
    BY DEF Out, Op
  <2>2. ch = Programmed(ch, "ccr", 0)
    BY DEF Programmed
  <2> QED BY <1>1, <2>1, <2>2, PortGoes
<1>5. ASSUME NEW dr \in Byte, NEW x \in Nat, NEW y \in Nat, NEW z \in Nat
      PROVE  Goes(flpydsk_drive_data(x, y, z), k(0, TRUE, dr), k(0, TRUE, dr))
  <2>1. 0 \in 0 .. 4 /\ TRUE \in BOOLEAN
    OBVIOUS
  <2>2. /\ flpydsk_drive_data(x, y, z) \in Seq(Op)
        /\ Path(flpydsk_drive_data(x, y, z), k(0, TRUE, dr), k(0, TRUE, dr))
    BY <1>1, <2>1, DriveDataPath, Zenon
  <2> QED BY <2>2 DEF Goes
<1>6. Goes(flpydsk_calibrate, k(0, TRUE, 12), k(0, TRUE, 4))
  <2>1. Goes(flpydsk_control_motor(TRUE), k(0, TRUE, 12), k(0, TRUE, 28))
    BY <1>1, MotorGoes
  <2>2. Goes(Calibrate, k(0, TRUE, 28), k(0, TRUE, 4))
    BY <1>1, CalibrateGoes
  <2> QED BY <2>1, <2>2, GoesJoin DEF flpydsk_calibrate
<1> HIDE DEF k
<1> DEFINE r0 == <<Out("dor", 0), Out("dor", 4 + 8), flpydsk_wait_irq>>
           c == flpydsk_check_int
<1>7. /\ Goes(c, k(4, FALSE, 12), k(3, TRUE, 12)) /\ Goes(c, k(3, TRUE, 12), k(2, TRUE, 12))
      /\ Goes(c, k(2, TRUE, 12), k(1, TRUE, 12)) /\ Goes(c, k(1, TRUE, 12), k(0, TRUE, 12))
  <2>1. /\ 0 \in 0 .. 4 /\ 1 \in 0 .. 4 /\ 2 \in 0 .. 4 /\ 3 \in 0 .. 4 /\ 4 \in 0 .. 4
        /\ 0 = 1 - 1 /\ 1 = 2 - 1 /\ 2 = 3 - 1 /\ 3 = 4 - 1 /\ TRUE \in BOOLEAN /\ FALSE \in BOOLEAN
    OBVIOUS
  <2> HIDE DEF c
  <2> QED BY <1>3, <2>1, Zenon DEF c
<1>8. /\ Goes(flpydsk_drive_data(3, 16, 240), k(0, TRUE, 12), k(0, TRUE, 12))
      /\ Goes(flpydsk_drive_data(13, 1, 15), k(0, TRUE, 4), k(0, TRUE, 4))
  <2>1. 3 \in Nat /\ 16 \in Nat /\ 240 \in Nat /\ 13 \in Nat /\ 1 \in Nat /\ 15 \in Nat
    OBVIOUS
  <2> QED BY <1>1, <1>5, <2>1, Zenon
<1> HIDE DEF r0, c
<1>10. Goes(r0 \o c, k(0, sure, 12), k(3, TRUE, 12))
  BY <1>2, <1>7, GoesJoin DEF r0
<1>11. Goes(r0 \o c \o c, k(0, sure, 12), k(2, TRUE, 12))
  BY <1>7, <1>10, GoesJoin
<1>12. Goes(r0 \o c \o c \o c, k(0, sure, 12), k(1, TRUE, 12))
  BY <1>7, <1>11, GoesJoin
<1>13. Goes(r0 \o c \o c \o c \o c, k(0, sure, 12), k(0, TRUE, 12))
  BY <1>7, <1>12, GoesJoin
<1>14. Goes(r0 \o c \o c \o c \o c \o <<Out("ccr", 0)>>, k(0, sure, 12), k(0, TRUE, 12))
  BY <1>4, <1>13, GoesJoin
<1>15. Goes(r0 \o c \o c \o c \o c \o <<Out("ccr", 0)>> \o flpydsk_drive_data(3, 16, 240),
            k(0, sure, 12), k(0, TRUE, 12))
  BY <1>8, <1>14, GoesJoin, ZenonT(40)
<1>16. Goes(flpydsk_reset, k(0, sure, 12), k(0, TRUE, 4))
  BY <1>6, <1>15, GoesJoin DEF flpydsk_reset, r0, c
<1>17. Goes(flpydsk_install, k(0, sure, 12), k(0, TRUE, 4))
  BY <1>8, <1>16, GoesJoin DEF flpydsk_install
<1> QED BY <1>17 DEF k

\* The bits of the digital output register and of the mask of a channel.
LEMMA Bits ==
  /\ Bit(28, 2) /\ Bit(28, 3) /\ Bit(28, 4) /\ Bit(12, 2) /\ Bit(12, 3)
  /\ Bit(4, 2) /\ ~ Bit(2, 2) /\ ~ Bit(0, 2)
<1>1. 2^2 = 4 /\ 2^3 = 8 /\ 2^4 = 16
  OBVIOUS
<1> QED BY <1>1 DEF Bit

\* What each access to the DMA controller does to channel 2: the record is again
\* one of a channel, and what becomes of its flip-flop, mask, mode, address and count.
Made(n, ff, masked, mode, a0, a1, c0, c1) ==
  /\ n \in Dma /\ n.flipflop = ff /\ n.masked = masked /\ n.mode = mode
  /\ n.addr[1] = a0 /\ n.addr[2] = a1 /\ n.count[1] = c0 /\ n.count[2] = c1

\* What each byte of dma_initialize_floppy() and dma_set_read() makes of the channel.
LEMMA ChannelSteps ==
  ASSUME NEW e \in Dma
  PROVE  /\ LET n == Programmed(e, "temp", 255)
            IN  Made(n, 0, TRUE, e.mode, e.addr[1], e.addr[2], e.count[1], e.count[2])
         /\ LET n == Programmed(e, "chanmask", 2)
            IN  Made(n, e.flipflop, FALSE, e.mode, e.addr[1], e.addr[2], e.count[1], e.count[2])
         /\ LET n == Programmed(e, "mode", 70)
            IN  Made(n, e.flipflop, e.masked, 70, e.addr[1], e.addr[2], e.count[1], e.count[2])
         /\ Programmed(e, "unmask1", 255) = e
         /\ e.flipflop = 0 =>
              LET n == Programmed(e, "addr2", 0)
              IN  Made(n, 1, e.masked, e.mode, 0, e.addr[2], e.count[1], e.count[2])
         /\ e.flipflop = 1 =>
              LET n == Programmed(e, "addr2", 16)
              IN  Made(n, 0, e.masked, e.mode, e.addr[1], 16, e.count[1], e.count[2])
         /\ e.flipflop = 0 =>
              LET n == Programmed(e, "count2", 255)
              IN  Made(n, 1, e.masked, e.mode, e.addr[1], e.addr[2], 255, e.count[2])
         /\ e.flipflop = 1 =>
              LET n == Programmed(e, "count2", 1)
              IN  Made(n, 0, e.masked, e.mode, e.addr[1], e.addr[2], e.count[1], 1)
<1>1. /\ e.flipflop \in 0 .. 1 /\ e.masked \in BOOLEAN /\ e.mode \in Nat
      /\ e.addr \in [1 .. 2 -> Nat] /\ e.count \in [1 .. 2 -> Nat]
      /\ e = [flipflop |-> e.flipflop, masked |-> e.masked, mode |-> e.mode, addr |-> e.addr, count |-> e.count]
  BY DEF Dma
<1>2. ASSUME NEW ff \in 0 .. 1, NEW m \in BOOLEAN, NEW mode \in Nat, NEW a \in [1 .. 2 -> Nat],
             NEW c \in [1 .. 2 -> Nat]
      PROVE  Made([flipflop |-> ff, masked |-> m, mode |-> mode, addr |-> a, count |-> c],
                  ff, m, mode, a[1], a[2], c[1], c[2])
  BY DEF Made, Dma
<1>3. LET n == Programmed(e, "temp", 255)
      IN  Made(n, 0, TRUE, e.mode, e.addr[1], e.addr[2], e.count[1], e.count[2])
  <2>1. Programmed(e, "temp", 255) =
          [flipflop |-> 0, masked |-> TRUE, mode |-> e.mode, addr |-> e.addr, count |-> e.count]
    BY <1>1 DEF Programmed
  <2> DEFINE n == Programmed(e, "temp", 255)
  <2>2. n \in Dma
    <3>0. 0 \in 0 .. 1 /\ TRUE \in BOOLEAN
      OBVIOUS
    <3>1. PICK z \in 0 .. 1, t \in BOOLEAN : z = 0 /\ t = TRUE
      BY <3>0, Zenon
    <3>2. [flipflop |-> z, masked |-> t, mode |-> e.mode, addr |-> e.addr, count |-> e.count] \in Dma
      BY <1>1 DEF Dma
    <3> QED BY <2>1, <3>1, <3>2
  <2>3. n.flipflop = 0 /\ n.masked = TRUE /\ n.mode = e.mode /\ n.addr = e.addr /\ n.count = e.count
    BY <2>1
  <2> HIDE DEF n
  <2>4. Made(n, 0, TRUE, e.mode, e.addr[1], e.addr[2], e.count[1], e.count[2])
    BY <2>2, <2>3 DEF Made
  <2> QED BY <2>4 DEF n
<1>4. LET n == Programmed(e, "chanmask", 2)
      IN  Made(n, e.flipflop, FALSE, e.mode, e.addr[1], e.addr[2], e.count[1], e.count[2])
  <2>1. Bit(2, 2) = FALSE
    BY DEF Bit
  <2>2. Programmed(e, "chanmask", 2) = [e EXCEPT !.masked = Bit(2, 2)]
    BY DEF Programmed, FDC_DMA_CHANNEL
  <2> QED BY <1>1, <2>1, <2>2 DEF Made, Dma
<1>5. LET n == Programmed(e, "mode", 70)
      IN  Made(n, e.flipflop, e.masked, 70, e.addr[1], e.addr[2], e.count[1], e.count[2])
  <2>1. Programmed(e, "mode", 70) = [e EXCEPT !.mode = 70]
    BY DEF Programmed, FDC_DMA_CHANNEL
  <2> QED BY <1>1, <2>1 DEF Made, Dma
<1>6. Programmed(e, "unmask1", 255) = e
  BY DEF Programmed
<1>7. ASSUME NEW v \in Nat
      PROVE  /\ Programmed(e, "addr2", v) =
                  [flipflop |-> 1 - e.flipflop, masked |-> e.masked, mode |-> e.mode,
                   addr |-> [e.addr EXCEPT ![e.flipflop + 1] = v], count |-> e.count]
             /\ Programmed(e, "count2", v) =
                  [flipflop |-> 1 - e.flipflop, masked |-> e.masked, mode |-> e.mode,
                   addr |-> e.addr, count |-> [e.count EXCEPT ![e.flipflop + 1] = v]]
  BY <1>1 DEF Programmed, Half
<1>8. ASSUME NEW v \in Nat, e.flipflop = 0
      PROVE  /\ Made(Programmed(e, "addr2", v), 1, e.masked, e.mode, v, e.addr[2], e.count[1], e.count[2])
             /\ Made(Programmed(e, "count2", v), 1, e.masked, e.mode, e.addr[1], e.addr[2], v, e.count[2])
  BY <1>1, <1>7, <1>8 DEF Made, Dma
<1>9. ASSUME NEW v \in Nat, e.flipflop = 1
      PROVE  /\ Made(Programmed(e, "addr2", v), 0, e.masked, e.mode, e.addr[1], v, e.count[1], e.count[2])
             /\ Made(Programmed(e, "count2", v), 0, e.masked, e.mode, e.addr[1], e.addr[2], e.count[1], v)
  BY <1>1, <1>7, <1>9 DEF Made, Dma
<1>10. 0 \in Nat /\ 1 \in Nat /\ 16 \in Nat /\ 255 \in Nat
  OBVIOUS
<1> QED BY <1>3, <1>4, <1>5, <1>6, <1>8, <1>9, <1>10, ZenonT(40)

\* A sequence of two is two sequences of one.
LEMMA TwoOps ==
  ASSUME NEW S, NEW a \in S, NEW b \in S
  PROVE  <<a, b>> = <<a>> \o <<b>>
<1> DEFINE p == <<a, b>>
           q == <<a>> \o <<b>>
<1>1. /\ <<a>> \in Seq(S) /\ <<b>> \in Seq(S) /\ Len(<<a>>) = 1 /\ Len(<<b>>) = 1
      /\ <<a>>[1] = a /\ <<b>>[1] = b
  OBVIOUS
<1>2. p \in Seq(S) /\ Len(p) = 2 /\ p[1] = a /\ p[2] = b
  OBVIOUS
<1>3. q \in Seq(S) /\ Len(q) = 2
  BY <1>1, ConcatProperties
<1>4. q[1] = a /\ q[2] = b
  <2>1. \A i \in 1 .. 2 : q[i] = IF i <= 1 THEN <<a>>[i] ELSE <<b>>[i - 1]
    BY <1>1, ConcatProperties
  <2> HIDE DEF q
  <2> QED BY <1>1, <2>1
<1> HIDE DEF p, q
<1>5. \A i \in 1 .. Len(p) : p[i] = q[i]
  BY <1>2, <1>4
<1>6. p = q
  BY <1>2, <1>3, <1>5, SeqEqual
<1> QED BY <1>6 DEF p, q

\* The accesses dma_initialize_floppy and dma_set_read are made of.
LEMMA DmaOps ==
  /\ dma_initialize_floppy(DMA_BUFFER, 512) =
       (<<Out("temp", 255)>> \o <<Out("chanmask", 2)>>)
       \o (<<Out("addr2", 0)>> \o <<Out("addr2", 16)>>)
       \o (<<Out("count2", 255)>> \o <<Out("count2", 1)>>)
       \o dma_set_read(2) \o <<Out("unmask1", 255)>>
  /\ dma_set_read(2) = <<Out("chanmask", 2)>> \o <<Out("mode", 70)>> \o <<Out("unmask1", 255)>>
<1> DEFINE t == Out("temp", 255)
           m == Out("chanmask", 2)
           d == Out("mode", 70)
           x == Out("addr2", 0)
           y == Out("addr2", 16)
           z == Out("count2", 255)
           w == Out("count2", 1)
           u == Out("unmask1", 255)
<1>1. t \in Op /\ m \in Op /\ d \in Op /\ x \in Op /\ y \in Op /\ z \in Op /\ w \in Op /\ u \in Op
  BY DEF Out, Op
<1>2. dma_set_read(2) = <<m, d, u>>
  <2>1. 2^(2 - 1) = 2 /\ 2 + 4 + 64 = 70
    OBVIOUS
  <2> QED BY <2>1 DEF dma_set_read, dma_mask_channel, dma_unmask_all
<1>3. <<dma_reset, dma_mask_channel(FDC_DMA_CHANNEL)>> = <<t, m>>
  BY DEF dma_reset, dma_mask_channel, FDC_DMA_CHANNEL
<1>4. dma_reset_flipflop(1) = <<>> /\ dma_unmask_all = u
  BY DEF dma_reset_flipflop, dma_unmask_all
<1>5. dma_set_address(DMA_BUFFER % 256, DMA_BUFFER \div 256) = <<x, y>>
  BY DEF dma_set_address, DMA_BUFFER
<1>6. dma_set_count((512 - 1) % 256, (512 - 1) \div 256) = <<z, w>>
  BY DEF dma_set_count
<1>7. dma_set_read(FDC_DMA_CHANNEL) = dma_set_read(2)
  BY DEF FDC_DMA_CHANNEL
<1>8. dma_initialize_floppy(DMA_BUFFER, 512) =
        <<dma_reset, dma_mask_channel(FDC_DMA_CHANNEL)>> \o dma_reset_flipflop(1)
        \o dma_set_address(DMA_BUFFER % 256, DMA_BUFFER \div 256) \o dma_reset_flipflop(1)
        \o dma_set_count((512 - 1) % 256, (512 - 1) \div 256)
        \o dma_set_read(FDC_DMA_CHANNEL) \o <<dma_unmask_all>>
  BY Zenon DEF dma_initialize_floppy
<1> HIDE DEF t, m, d, x, y, z, w, u
<1>9. dma_initialize_floppy(DMA_BUFFER, 512) =
        <<t, m>> \o <<>> \o <<x, y>> \o <<>> \o <<z, w>> \o dma_set_read(2) \o <<u>>
  <2> DEFINE A == <<dma_reset, dma_mask_channel(FDC_DMA_CHANNEL)>>
             B == dma_set_address(DMA_BUFFER % 256, DMA_BUFFER \div 256)
             C == dma_set_count((512 - 1) % 256, (512 - 1) \div 256)
  <2>1. A = <<t, m>> /\ B = <<x, y>> /\ C = <<z, w>>
    BY <1>3, <1>5, <1>6
  <2>2. dma_initialize_floppy(DMA_BUFFER, 512) =
          A \o dma_reset_flipflop(1) \o B \o dma_reset_flipflop(1) \o C
          \o dma_set_read(FDC_DMA_CHANNEL) \o <<dma_unmask_all>>
    BY <1>8
  <2> HIDE DEF A, B, C
  <2> QED BY <1>4, <1>7, <2>1, <2>2
<1>10. <<t, m>> = <<t>> \o <<m>> /\ <<x, y>> = <<x>> \o <<y>> /\ <<z, w>> = <<z>> \o <<w>>
  BY <1>1, TwoOps
<1>11. /\ <<t, m>> \o <<>> = <<t, m>>
       /\ <<t, m>> \o <<x, y>> \o <<>> = <<t, m>> \o <<x, y>>
  <2>1. <<t, m>> \in Seq(Op) /\ <<x, y>> \in Seq(Op)
    BY <1>1
  <2>2. \A q \in Seq(Op) : q \o <<>> = q
    OBVIOUS
  <2>3. \A p, q \in Seq(Op) : p \o q \in Seq(Op)
    OBVIOUS
  <2> QED BY <2>1, <2>2, <2>3
<1>12. dma_initialize_floppy(DMA_BUFFER, 512) =
        (<<t>> \o <<m>>) \o (<<x>> \o <<y>>) \o (<<z>> \o <<w>>) \o dma_set_read(2) \o <<u>>
  BY <1>9, <1>10, <1>11, Zenon
<1>13. dma_set_read(2) = <<m>> \o <<d>> \o <<u>>
  BY <1>1, <1>2
<1> QED BY <1>12, <1>13, Zenon DEF t, m, d, x, y, z, w, u

\* Whatever channel 2 was, it is then ready for a sector.
LEMMA DmaGoes ==
  ASSUME NEW sure \in BOOLEAN, NEW dr \in Byte, NEW ch \in Dma,
         NEW jb \in Lba \cup {-1}, NEW goal \in Goal, goal # "over"
  PROVE  \E d \in Dma :
           /\ Ready(d) /\ d.flipflop = 0
           /\ Goes(dma_initialize_floppy(DMA_BUFFER, 512) \o dma_set_read(FDC_DMA_CHANNEL),
                   Idle(0, sure, dr, ch, jb, goal), Idle(0, sure, dr, d, jb, goal))
<1> DEFINE k(c) == Idle(0, sure, dr, c, jb, goal)
<1>1. ASSUME NEW c1 \in Dma, NEW c2 \in Dma,
             NEW port \in {"temp", "unmask1", "chanmask", "mode", "addr2", "count2"}, NEW v \in Nat,
             c2 = Programmed(c1, port, v)
      PROVE  Goes(<<Out(port, v)>>, k(c1), k(c2))
  <2>1. Out(port, v) \in Op /\ port \notin {"dor", "fifo"}
    BY DEF Out, Op
  <2> QED BY <1>1, <2>1, PortGoes
<1> DEFINE d1 == Programmed(ch, "temp", 255)
           d2 == Programmed(d1, "chanmask", 2)
           d3 == Programmed(d2, "addr2", 0)
           d4 == Programmed(d3, "addr2", 16)
           d5 == Programmed(d4, "count2", 255)
           d6 == Programmed(d5, "count2", 1)
           d7 == Programmed(d6, "chanmask", 2)
           d8 == Programmed(d7, "mode", 70)
           e1 == Programmed(d8, "chanmask", 2)
           e2 == Programmed(e1, "mode", 70)
<1>a. /\ d1 = Programmed(ch, "temp", 255) /\ d2 = Programmed(d1, "chanmask", 2)
      /\ d3 = Programmed(d2, "addr2", 0) /\ d4 = Programmed(d3, "addr2", 16)
      /\ d5 = Programmed(d4, "count2", 255) /\ d6 = Programmed(d5, "count2", 1)
      /\ d7 = Programmed(d6, "chanmask", 2) /\ d8 = Programmed(d7, "mode", 70)
      /\ e1 = Programmed(d8, "chanmask", 2) /\ e2 = Programmed(e1, "mode", 70)
  BY Zenon
<1> HIDE DEF k, d1, d2, d3, d4, d5, d6, d7, d8, e1, e2
<1>2. d1 \in Dma /\ d1.flipflop = 0
  <2>1. Made(d1, 0, TRUE, ch.mode, ch.addr[1], ch.addr[2], ch.count[1], ch.count[2])
    BY ChannelSteps DEF d1
  <2> QED BY <2>1 DEF Made
<1>3. d2 \in Dma /\ d2.flipflop = 0
  <2>1. Made(d2, d1.flipflop, FALSE, d1.mode, d1.addr[1], d1.addr[2], d1.count[1], d1.count[2])
    BY <1>2, ChannelSteps, ZenonT(40) DEF d2
  <2> QED BY <1>2, <2>1 DEF Made
<1>4. d3 \in Dma /\ d3.flipflop = 1 /\ d3.addr[1] = 0
  <2>1. Made(d3, 1, d2.masked, d2.mode, 0, d2.addr[2], d2.count[1], d2.count[2])
    BY <1>3, ChannelSteps, ZenonT(40) DEF d3
  <2> QED BY <1>3, <2>1 DEF Made
<1>5. d4 \in Dma /\ d4.flipflop = 0 /\ d4.addr[1] = 0 /\ d4.addr[2] = 16
  <2>1. Made(d4, 0, d3.masked, d3.mode, d3.addr[1], 16, d3.count[1], d3.count[2])
    BY <1>4, ChannelSteps, ZenonT(40) DEF d4
  <2> QED BY <1>4, <2>1 DEF Made
<1>6. d5 \in Dma /\ d5.flipflop = 1 /\ d5.addr[1] = 0 /\ d5.addr[2] = 16 /\ d5.count[1] = 255
  <2>1. Made(d5, 1, d4.masked, d4.mode, d4.addr[1], d4.addr[2], 255, d4.count[2])
    BY <1>5, ChannelSteps, ZenonT(40) DEF d5
  <2> QED BY <1>5, <2>1 DEF Made
<1>7. d6 \in Dma /\ d6.flipflop = 0 /\ d6.addr[1] = 0 /\ d6.addr[2] = 16 /\ d6.count[1] = 255 /\ d6.count[2] = 1
  <2>1. Made(d6, 0, d5.masked, d5.mode, d5.addr[1], d5.addr[2], d5.count[1], 1)
    BY <1>6, ChannelSteps, ZenonT(40) DEF d6
  <2> QED BY <1>6, <2>1 DEF Made
<1>8. d7 \in Dma /\ d7.flipflop = 0 /\ d7.addr[1] = 0 /\ d7.addr[2] = 16 /\ d7.count[1] = 255 /\ d7.count[2] = 1
      /\ d7.masked = FALSE
  <2>1. Made(d7, d6.flipflop, FALSE, d6.mode, d6.addr[1], d6.addr[2], d6.count[1], d6.count[2])
    BY <1>7, ChannelSteps, ZenonT(40) DEF d7
  <2> QED BY <1>7, <2>1 DEF Made
<1>9. d8 \in Dma /\ d8.flipflop = 0 /\ d8.addr[1] = 0 /\ d8.addr[2] = 16 /\ d8.count[1] = 255 /\ d8.count[2] = 1
  <2>1. Made(d8, d7.flipflop, d7.masked, 70, d7.addr[1], d7.addr[2], d7.count[1], d7.count[2])
    BY <1>8, ChannelSteps, ZenonT(40) DEF d8
  <2> QED BY <1>8, <2>1 DEF Made
<1>10. e1 \in Dma /\ e1.flipflop = 0 /\ e1.addr[1] = 0 /\ e1.addr[2] = 16 /\ e1.count[1] = 255 /\ e1.count[2] = 1
       /\ e1.masked = FALSE
  <2>1. Made(e1, d8.flipflop, FALSE, d8.mode, d8.addr[1], d8.addr[2], d8.count[1], d8.count[2])
    BY <1>9, ChannelSteps, ZenonT(40) DEF e1
  <2> QED BY <1>9, <2>1 DEF Made
<1>11. e2 \in Dma /\ e2.flipflop = 0 /\ e2.addr[1] = 0 /\ e2.addr[2] = 16 /\ e2.count[1] = 255 /\ e2.count[2] = 1
       /\ e2.masked = FALSE /\ e2.mode = 70
  <2>1. Made(e2, e1.flipflop, e1.masked, 70, e1.addr[1], e1.addr[2], e1.count[1], e1.count[2])
    BY <1>10, ChannelSteps, ZenonT(40) DEF e2
  <2> QED BY <1>10, <2>1 DEF Made
<1>12. d8 = Programmed(d8, "unmask1", 255) /\ e2 = Programmed(e2, "unmask1", 255)
  BY <1>9, <1>11, ChannelSteps
<1>13. Ready(e2)
  <2>1. /\ 4096 % 256 = 0 /\ 4096 \div 256 = 16 /\ 511 % 256 = 255 /\ 511 \div 256 = 1
        /\ 2 + 4 + 64 = 70
    OBVIOUS
  <2>2. e2.addr \in [1 .. 2 -> Nat] /\ e2.count \in [1 .. 2 -> Nat]
    BY <1>11 DEF Dma
  <2>3. e2.addr = <<0, 16>> /\ e2.count = <<255, 1>>
    BY <1>11, <2>2
  <2> QED BY <1>11, <2>1, <2>3 DEF Ready, FDC_DMA_CHANNEL, DMA_BUFFER
<1>14. 0 \in Nat /\ 1 \in Nat /\ 2 \in Nat /\ 16 \in Nat /\ 70 \in Nat /\ 255 \in Nat
  OBVIOUS
<1>15. /\ Goes(<<Out("temp", 255)>>, k(ch), k(d1))
      /\ Goes(<<Out("chanmask", 2)>>, k(d1), k(d2))
      /\ Goes(<<Out("addr2", 0)>>, k(d2), k(d3))
      /\ Goes(<<Out("addr2", 16)>>, k(d3), k(d4))
      /\ Goes(<<Out("count2", 255)>>, k(d4), k(d5))
      /\ Goes(<<Out("count2", 1)>>, k(d5), k(d6))
  <2>1. Goes(<<Out("temp", 255)>>, k(ch), k(d1))
    BY <1>2, <1>1, <1>14, <1>a
  <2>2. Goes(<<Out("chanmask", 2)>>, k(d1), k(d2))
    BY <1>2, <1>3, <1>1, <1>14, <1>a
  <2>3. Goes(<<Out("addr2", 0)>>, k(d2), k(d3))
    BY <1>3, <1>4, <1>1, <1>14, <1>a
  <2>4. Goes(<<Out("addr2", 16)>>, k(d3), k(d4))
    BY <1>4, <1>5, <1>1, <1>14, <1>a
  <2>5. Goes(<<Out("count2", 255)>>, k(d4), k(d5))
    BY <1>5, <1>6, <1>1, <1>14, <1>a
  <2>6. Goes(<<Out("count2", 1)>>, k(d5), k(d6))
    BY <1>6, <1>7, <1>1, <1>14, <1>a
  <2> QED BY <2>1, <2>2, <2>3, <2>4, <2>5, <2>6, Zenon
<1>16. /\ Goes(<<Out("chanmask", 2)>>, k(d6), k(d7))
      /\ Goes(<<Out("mode", 70)>>, k(d7), k(d8))
      /\ Goes(<<Out("unmask1", 255)>>, k(d8), k(d8))
      /\ Goes(<<Out("chanmask", 2)>>, k(d8), k(e1))
      /\ Goes(<<Out("mode", 70)>>, k(e1), k(e2))
      /\ Goes(<<Out("unmask1", 255)>>, k(e2), k(e2))
  <2>1. Goes(<<Out("chanmask", 2)>>, k(d6), k(d7))
    BY <1>7, <1>8, <1>1, <1>14, <1>a
  <2>2. Goes(<<Out("mode", 70)>>, k(d7), k(d8))
    BY <1>8, <1>9, <1>1, <1>14, <1>a
  <2>3. Goes(<<Out("unmask1", 255)>>, k(d8), k(d8))
    BY <1>9, <1>12, <1>1, <1>14, <1>a
  <2>4. Goes(<<Out("chanmask", 2)>>, k(d8), k(e1))
    BY <1>9, <1>10, <1>1, <1>14, <1>a
  <2>5. Goes(<<Out("mode", 70)>>, k(e1), k(e2))
    BY <1>10, <1>11, <1>1, <1>14, <1>a
  <2>6. Goes(<<Out("unmask1", 255)>>, k(e2), k(e2))
    BY <1>11, <1>12, <1>1, <1>14, <1>a
  <2> QED BY <2>1, <2>2, <2>3, <2>4, <2>5, <2>6, Zenon
<1>17. Goes(dma_set_read(2), k(d6), k(d8)) /\ Goes(dma_set_read(2), k(d8), k(e2))
  <2> DEFINE p == <<Out("chanmask", 2)>>
             q == <<Out("mode", 70)>>
             r == <<Out("unmask1", 255)>>
  <2>1. dma_set_read(2) = p \o q \o r
    BY DmaOps
  <2>2. /\ Goes(p, k(d6), k(d7)) /\ Goes(q, k(d7), k(d8)) /\ Goes(r, k(d8), k(d8))
        /\ Goes(p, k(d8), k(e1)) /\ Goes(q, k(e1), k(e2)) /\ Goes(r, k(e2), k(e2))
    BY <1>16
  <2> HIDE DEF p, q, r
  <2>3. Goes(p \o q, k(d6), k(d8)) /\ Goes(p \o q, k(d8), k(e2))
    BY <2>2, GoesJoin
  <2>4. Goes(p \o q \o r, k(d6), k(d8)) /\ Goes(p \o q \o r, k(d8), k(e2))
    BY <2>2, <2>3, GoesJoin
  <2> QED BY <2>1, <2>4
<1>18. Goes(<<Out("temp", 255)>> \o <<Out("chanmask", 2)>>, k(ch), k(d2))
  BY <1>15, GoesJoin
<1>19. Goes(<<Out("addr2", 0)>> \o <<Out("addr2", 16)>>, k(d2), k(d4))
  BY <1>15, GoesJoin
<1>20. Goes(<<Out("count2", 255)>> \o <<Out("count2", 1)>>, k(d4), k(d6))
  BY <1>15, GoesJoin
<1> DEFINE A == <<Out("temp", 255)>> \o <<Out("chanmask", 2)>>
           B == <<Out("addr2", 0)>> \o <<Out("addr2", 16)>>
           C == <<Out("count2", 255)>> \o <<Out("count2", 1)>>
           U == <<Out("unmask1", 255)>>
<1>21. dma_initialize_floppy(DMA_BUFFER, 512) = A \o B \o C \o dma_set_read(2) \o U
  BY DmaOps
<1>22. Goes(A, k(ch), k(d2)) /\ Goes(B, k(d2), k(d4)) /\ Goes(C, k(d4), k(d6)) /\ Goes(U, k(d8), k(d8))
  BY <1>16, <1>18, <1>19, <1>20
<1> HIDE DEF A, B, C, U
<1>23. Goes(A \o B \o C, k(ch), k(d6))
  BY <1>22, GoesJoin
<1>24. Goes(A \o B \o C \o dma_set_read(2), k(ch), k(d8))
  BY <1>17, <1>23, GoesJoin
<1>25. Goes(dma_initialize_floppy(DMA_BUFFER, 512), k(ch), k(d8))
  BY <1>21, <1>22, <1>24, GoesJoin
<1>26. Goes(dma_initialize_floppy(DMA_BUFFER, 512) \o dma_set_read(2), k(ch), k(e2))
  BY <1>17, <1>25, GoesJoin
<1> QED BY <1>11, <1>13, <1>26 DEF k, FDC_DMA_CHANNEL

\* A function on 1 .. n is a sequence.
LEMMA FunctionIsSeq ==
  ASSUME NEW S, NEW n \in Nat, NEW f \in [1 .. n -> S]
  PROVE  f \in Seq(S) /\ Len(f) = n
<1>1. f \in UNION {[1 .. j -> S] : j \in Nat}
  OBVIOUS
<1>2. f \in Seq(S)
  BY <1>1, SeqDef
<1>3. DOMAIN f = 1 .. n
  OBVIOUS
<1> QED BY <1>2, <1>3

\* The seven bytes of the result of a read.
LEMMA StatusGoes ==
  ASSUME NEW dr \in Byte, NEW ch \in Dma, NEW jb \in Lba \cup {-1}, NEW goal \in Goal, goal \notin {"failed", "over"}
  PROVE  Goes([i \in 1 .. 7 |-> Do("in")], Result(7, 0, FALSE, dr, ch, jb, goal),
              Idle(0, FALSE, dr, ch, jb, goal))
<1> DEFINE r(l) == Result(l, 0, FALSE, dr, ch, jb, goal)
           n == Idle(0, FALSE, dr, ch, jb, goal)
           ops == [i \in 1 .. 7 |-> Do("in")]
           lab == [i \in 1 .. 8 |-> IF i = 8 THEN n ELSE r(8 - i)]
<1>1. Do("in") \in Op /\ Do("in").op = "in"
  BY DEF Do, Op
<1>2. ops \in Seq(Op) /\ Len(ops) = 7
  <2>1. ops \in [1 .. 7 -> Op] /\ 7 \in Nat
    BY <1>1
  <2> HIDE DEF ops
  <2>2. ASSUME NEW j \in Nat, ops \in [1 .. j -> Op] PROVE ops \in Seq(Op) /\ Len(ops) = j
    BY <2>2, FunctionIsSeq
  <2> QED BY <2>1, <2>2
<1>3. n \in Label
  <2>1. 0 \in 0 .. 4 /\ FALSE \in BOOLEAN
    OBVIOUS
  <2> QED BY <2>1, IdleIs, Zenon
<1>4. \A l \in Nat : r(l) \in Label
  BY DEF Result, Lb, Label
<1>5. ASSUME NEW i \in 1 .. 6 PROVE Steps(r(8 - i), Do("in"), r(8 - (i + 1)))
  BY <1>1 DEF Result, Lb, Steps, InStep
<1>6. Steps(r(1), Do("in"), n)
  BY <1>1 DEF Result, Lb, Steps, InStep, Idle
<1> HIDE DEF r, n
<1>7. lab \in [1 .. 8 -> Label]
  BY <1>3, <1>4
<1>8. lab[1] = r(7) /\ lab[7] = r(1) /\ lab[8] = n
  <2>1. 8 - 1 = 7 /\ 8 - 7 = 1
    OBVIOUS
  <2> QED BY <2>1
<1>9. \A i \in 1 .. 6 : lab[i] = r(8 - i) /\ lab[i + 1] = r(8 - (i + 1))
  OBVIOUS
<1> HIDE DEF lab
<1>10. ASSUME NEW i \in 1 .. 7 PROVE Steps(lab[i], ops[i], lab[i + 1])
  <2>1. ops[i] = Do("in")
    OBVIOUS
  <2>2. CASE i = 7
    <3>1. lab[i] = r(1) /\ lab[i + 1] = n
      BY <1>8, <2>2
    <3> QED BY <1>6, <2>1, <3>1
  <2>3. CASE i # 7
    <3>1. i \in 1 .. 6
      BY <2>3
    <3> QED BY <1>5, <1>9, <2>1, <3>1
  <2> QED BY <2>2, <2>3
<1> HIDE DEF ops
<1>11. Path(ops, r(7), n)
  <2>1. Len(ops) + 1 = 8
    BY <1>2
  <2> QED BY <1>2, <1>7, <1>8, <1>10, <2>1 DEF Path
<1> QED BY <1>2, <1>11 DEF Goes, r, n, ops

\* Sensing when there is nothing to be sensed.
LEMMA CheckNoneGoes ==
  ASSUME NEW sure \in BOOLEAN, NEW dr \in Byte, NEW ch \in Dma,
         NEW jb \in Lba \cup {-1}, NEW goal \in Goal, goal \notin {"failed", "over"}
  PROVE  Goes(flpydsk_check_int, Idle(0, sure, dr, ch, jb, goal), Idle(0, FALSE, dr, ch, jb, goal))
<1>1. ASSUME NEW t \in 0 .. 4, t = 0
      PROVE  Goes(flpydsk_check_int, Idle(t, sure, dr, ch, jb, goal), Idle(0, FALSE, dr, ch, jb, goal))
  <2>1. ~ (t > 0)
    BY <1>1
  <2>2. Path(flpydsk_check_int, Idle(t, sure, dr, ch, jb, goal),
             IF t > 0 THEN Idle(t - 1, TRUE, dr, ch, jb, goal)
                      ELSE Idle(0, FALSE, dr, ch, jb, goal))
    BY CheckPath
  <2> QED BY <2>1, <2>2, CheckOps DEF Goes
<1>2. 0 \in 0 .. 4 /\ 0 = 0
  OBVIOUS
<1> QED BY <1>1, <1>2, Zenon

\* From the cylinder of the sector to the reply: the driver programs channel 2,
\* reads the sector, and puts the motor off.
LEMMA FoundGoes ==
  ASSUME NEW sure \in BOOLEAN, NEW ch \in Dma, NEW jb \in Lba
  PROVE  LET at == flpydsk_lba_to_chs(jb)
         IN  \E d \in Dma :
               Goes(flpydsk_read_sector_imp(at) \o flpydsk_control_motor(FALSE) \o <<Do("reply")>>,
                    Idle(0, sure, 28, ch, jb, "found"), Idle(0, FALSE, 4, d, jb, "over"))
<1> DEFINE at == flpydsk_lba_to_chs(jb)
           bytes == ReadBytes(at)
           prog == dma_initialize_floppy(DMA_BUFFER, 512) \o dma_set_read(FDC_DMA_CHANNEL)
           status == [i \in 1 .. 7 |-> Do("in")]
<1>1. /\ 28 \in Byte /\ 4 \in Byte /\ "found" \in Goal /\ "got" \in Goal
      /\ "found" # "over" /\ "got" # "over" /\ "got" \notin {"failed", "over"}
      /\ jb \in Lba \cup {-1}
  BY DEF Byte, Goal
<1>2. at.track \in Nat /\ at.head \in Nat /\ at.sector \in Nat
  BY ChsNamesSector, FlpyAssumption DEF Chs, Cylinder
<1>3. LastSector(at.sector) \in Nat
  BY <1>2, FlpyAssumption DEF LastSector
<1>4. /\ bytes \in Seq(Nat) /\ bytes # <<>> /\ Len(bytes) = 9 /\ bytes[1] = 230
  BY <1>2, <1>3, Commands DEF ReadBytes
<1>5. bytes[1] % 32 = READ_SECT /\ bytes[1] % 32 \in DOMAIN CommandLength
      /\ Len(bytes) = CommandLength[bytes[1] % 32]
  BY <1>4, Commands, CommandLengths
<1>6. PICK d \in Dma :
        /\ Ready(d) /\ d.flipflop = 0
        /\ Goes(prog, Idle(0, sure, 28, ch, jb, "found"), Idle(0, sure, 28, d, jb, "found"))
  BY <1>1, DmaGoes
<1> DEFINE k == Idle(0, sure, 28, d, jb, "found")
           b == Busy(bytes, 28, d, jb, "found")
           r == Result(7, 0, FALSE, 28, d, jb, "got")
           g == Idle(0, FALSE, 28, d, jb, "got")
           h == Idle(0, FALSE, 4, d, jb, "got")
           n == Idle(0, FALSE, 4, d, jb, "over")
<1> HIDE DEF bytes
<1>7. /\ k \in Label /\ k.ctl = "idle" /\ k.bytes = <<>> /\ k.left = 0 /\ k.senses = 0
      /\ k.sure = sure /\ k.dor = 28 /\ k.dma = d /\ k.job = jb /\ k.goal = "found"
  BY <1>1, IdleIs
<1>8. b \in Label /\ Goes(<<flpydsk_wait_irq>>, b, Woken(b))
  BY <1>1, <1>4, WaitGoes
<1>9. Woken(b) = r
  BY <1>4, <1>5 DEF Woken, Busy, Lb, Result
<1>10. Ends(k, bytes, b)
  <2>1. bytes = ReadBytes(flpydsk_lba_to_chs(k.job))
    BY <1>7 DEF bytes
  <2> HIDE DEF k
  <2> QED BY <1>5, <1>6, <1>7, <2>1, ZenonT(40) DEF Ends, Busy
<1>11. Goes(status, r, g)
  BY <1>1, StatusGoes
<1>12. Goes(flpydsk_check_int, g, g)
  BY <1>1, CheckNoneGoes
<1>13. Goes(flpydsk_control_motor(FALSE), g, h)
  BY <1>1, MotorGoes
<1>14. Goes(<<Do("reply")>>, h, n)
  <2>1. Do("reply") \in Op /\ Do("reply").op = "reply"
    BY DEF Do, Op
  <2> QED BY <1>1, <2>1, TestGoes
<1>15. Goes(Fifo(bytes), k, b)
  <2> HIDE DEF k, b
  <2> QED BY <1>4, <1>5, <1>7, <1>8, <1>10, CommandGoes, SMTT(30)
<1>16. flpydsk_read_sector_imp(at) = prog \o Fifo(bytes) \o <<flpydsk_wait_irq>> \o status \o flpydsk_check_int
  BY DEF flpydsk_read_sector_imp, bytes, ReadBytes
<1> DEFINE k0 == Idle(0, sure, 28, ch, jb, "found")
<1>17. Goes(prog, k0, k)
  BY <1>6
<1> HIDE DEF k0, k, b, r, g, h, n, prog, status, at
<1>18. Goes(prog \o Fifo(bytes), k0, b)
  BY <1>15, <1>17, GoesJoin
<1>19. Goes(prog \o Fifo(bytes) \o <<flpydsk_wait_irq>>, k0, r)
  BY <1>8, <1>9, <1>18, GoesJoin
<1>20. Goes(prog \o Fifo(bytes) \o <<flpydsk_wait_irq>> \o status, k0, g)
  BY <1>11, <1>19, GoesJoin
<1>21. Goes(flpydsk_read_sector_imp(at), k0, g)
  BY <1>12, <1>16, <1>20, GoesJoin
<1>22. Goes(flpydsk_read_sector_imp(at) \o flpydsk_control_motor(FALSE), k0, h)
  BY <1>13, <1>21, GoesJoin
<1>23. Goes(flpydsk_read_sector_imp(at) \o flpydsk_control_motor(FALSE) \o <<Do("reply")>>, k0, n)
  BY <1>14, <1>22, GoesJoin
<1> QED BY <1>23 DEF k0, n, at

=============================================================================
