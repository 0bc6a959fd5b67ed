----------------------------- MODULE FlpyProofs -----------------------------
(***************************************************************************)
(* Theorems about Flpy, for every geometry of the disk, every number of    *)
(* attempts and every sequence of requests.                                *)
(*                                                                         *)
(* The argument: what is left to do (todo) is a path (FlpyPaths) from some *)
(* label to rest, and the device is as that label says (Match).  While the *)
(* controller works it has all it needs (Working); when it has ended, its  *)
(* state is that of the label the driver wakes up at (Ended).  One lemma   *)
(* for every action shows that it leads from a label to the next.          *)
(***************************************************************************)
EXTENDS FlpyPaths

(***************************************************************************)
(* The invariant.                                                          *)
(***************************************************************************)
\* The state of the controller.
Fdc == [phase : {"reset", "starting", "idle", "command", "execute", "result"},
        bytes : Seq(Nat), results : Seq(Byte), senses : 0 .. 4, pcn : Cylinder]

Types ==
  /\ todo \in Seq(Op)
  /\ tries \in 1 .. Tries /\ cyl \in Byte /\ job \in Lba \cup {-1}
  /\ answer \in Chs \cup {Nothing} /\ buffer \in Chs \cup {Nothing}
  /\ has_int_msg \in BOOLEAN /\ irq \in BOOLEAN /\ recv \in {"no", "tested", "blocked"}
  /\ dor \in Byte /\ fdc \in Fdc /\ dma \in Dma

\* The last answer is right.
Served ==
  job # -1 =>
    IF answer = Nothing THEN tries = 1 /\ cyl # flpydsk_lba_to_chs(job).track
    ELSE LbaOf(answer) = job

\* What a goal says of the request and of the device.
GoalMet(goal) ==
  /\ goal = "install" => job = -1
  /\ goal \in {"seek", "found", "got", "failed"} => job \in Lba
  /\ goal = "found" => fdc.pcn = flpydsk_lba_to_chs(job).track
  /\ goal = "got" => buffer = flpydsk_lba_to_chs(job)
  /\ goal = "failed" => tries = 1 /\ cyl # flpydsk_lba_to_chs(job).track
  /\ goal = "over" => Served

\* The device is as the label of the driver says.
Settled(k) ==
  /\ job = k.job /\ GoalMet(k.goal)
  /\ k.goal # "over" => dor = k.dor /\ dma = k.dma
  /\ fdc.senses = k.senses /\ fdc.bytes = k.bytes
  /\ k.ctl = "bytes" => fdc.phase = "command"
  /\ k.ctl # "bytes" => fdc.phase = k.ctl /\ k.bytes = <<>>
  /\ k.ctl = "result" => Len(fdc.results) = k.left /\ k.left > 0
  /\ k.ctl # "result" => k.left = 0
  /\ k.sure => IF k.ctl = "result" THEN fdc.results[k.left] = fdc.pcn ELSE cyl = fdc.pcn

\* No interrupt is pending, and the driver does not wait for one.
Quiet == ~ irq /\ ~ has_int_msg /\ recv = "no"

\* The controller works, and has all it needs for it.
Working(k) ==
  /\ ~ irq /\ ~ has_int_msg
  /\ job = k.job /\ GoalMet(k.goal)
  /\ dor = k.dor /\ dma = k.dma /\ fdc.bytes = k.bytes /\ fdc.senses = 0
  /\ k.bytes = <<>> => fdc.phase = "starting" /\ dor = 12 /\ k.goal = "install"
  /\ k.bytes # <<>> =>
       /\ fdc.phase = "execute" /\ dor = 28
       /\ \/ /\ k.bytes[1] % 32 \in {CALIBRATE, SEEK} /\ k.goal \in {"install", "seek"}
          \/ /\ k.bytes[1] % 32 = READ_SECT /\ k.goal = "found"
             /\ k.bytes = ReadBytes(flpydsk_lba_to_chs(job)) /\ Ready(dma) /\ dma.flipflop = 0

\* It has ended, and its interrupt is raised or announced.
Ended(k) == Settled(Woken(k)) /\ irq = ~ has_int_msg

\* The device is as a label says.
Match(k) ==
  /\ k.ctl # "busy" => Settled(k) /\ Quiet
  /\ k.ctl = "busy" => Working(k) \/ Ended(k)

\* The driver has nothing to do.
AtRest(r) == r.ctl = "idle" /\ r.senses = 0 /\ r.goal \in {"install", "over"}

Tracked == \E k, r \in Label : Path(todo, k, r) /\ AtRest(r) /\ Match(k)

IInv == Types /\ Tracked

\* The first state is in the types.
LEMMA TypesInit == Init => Types
<1> SUFFICES ASSUME Init PROVE Types
  OBVIOUS
<1>1. "install" \in Goal
  BY DEF Goal
<1>2. dma \in Dma
  <2>1. /\ <<0, 0>> \in [1 .. 2 -> Nat] /\ FDC_DMA_CHANNEL + 4 + 64 \in Nat
    BY DEF FDC_DMA_CHANNEL
  <2> QED BY <2>1 DEF Init, Dma
<1>3. todo \in Seq(Op)
  <2>1. Goes(flpydsk_install, Idle(0, TRUE, 12, dma, -1, "install"), Idle(0, TRUE, 4, dma, -1, "install"))
    BY <1>2, InstallGoes
  <2> QED BY <2>1 DEF Goes, Init
<1>4. Tries \in 1 .. Tries
  BY FlpyAssumption
<1>5. fdc \in Fdc
  <2>1. <<>> \in Seq(Nat) /\ <<>> \in Seq(Byte) /\ 0 \in 0 .. 4
    OBVIOUS
  <2> QED BY <2>1 DEF Init, Fdc
<1>6. 12 \in Byte /\ 4 + 8 = 12 /\ 0 \in Byte
  BY DEF Byte
<1> QED BY <1>2, <1>3, <1>4, <1>5, <1>6 DEF Init, Types

\* The installation is a path from the first state to the first rest.
LEMMA TrackedInit == Init => Tracked
<1> SUFFICES ASSUME Init PROVE Tracked
  OBVIOUS
<1>1. dma \in Dma /\ job = -1
  BY TypesInit DEF Types, Init
<1> DEFINE k == Idle(0, FALSE, 12, dma, -1, "install")
           r == Idle(0, TRUE, 4, dma, -1, "install")
<1>2. Path(todo, k, r)
  BY <1>1, InstallGoes DEF Goes, Init
<1>3. /\ k \in Label /\ k.ctl = "idle" /\ k.bytes = <<>> /\ k.left = 0 /\ k.senses = 0
      /\ k.sure = FALSE /\ k.dor = 12 /\ k.dma = dma /\ k.job = -1 /\ k.goal = "install"
  <2>1. 0 \in 0 .. 4 /\ 12 \in Byte /\ "install" \in Goal /\ -1 \in Lba \cup {-1}
    BY DEF Byte, Goal
  <2> QED BY <1>1, <2>1 DEF Idle, Lb, Label
<1>4. r \in Label /\ AtRest(r)
  <2>1. 0 \in 0 .. 4 /\ 4 \in Byte /\ "install" \in Goal /\ -1 \in Lba \cup {-1}
    BY DEF Byte, Goal
  <2> QED BY <1>1, <2>1 DEF AtRest, Idle, Lb, Label
<1> HIDE DEF k, r
<1>5. Settled(k)
  BY <1>1, <1>3 DEF Settled, GoalMet, Init
<1>6. Match(k)
  BY <1>3, <1>5 DEF Match, Quiet, Init
<1> QED BY <1>2, <1>3, <1>4, <1>6 DEF Tracked

(***************************************************************************)
(* The steps of the device.                                                *)
(***************************************************************************)
LEMMA ResetSteps ==
  ASSUME NEW v \in Nat, fdc \in Fdc
  PROVE  /\ v = 0 => Reset(v) = [phase |-> "reset", bytes |-> <<>>, results |-> <<>>, senses |-> 0,
                                 pcn |-> fdc.pcn]
         /\ v = 12 /\ fdc.phase = "reset" =>
              Reset(v) = [phase |-> "starting", bytes |-> fdc.bytes, results |-> fdc.results,
                          senses |-> fdc.senses, pcn |-> fdc.pcn]
         /\ v \in {4, 28} /\ fdc.phase # "reset" => Reset(v) = fdc
<1>1. /\ Bit(0, 2) = FALSE /\ Bit(12, 2) = TRUE /\ Bit(4, 2) = TRUE /\ Bit(28, 2) = TRUE
  BY DEF Bit
<1>2. fdc = [phase |-> fdc.phase, bytes |-> fdc.bytes, results |-> fdc.results,
             senses |-> fdc.senses, pcn |-> fdc.pcn]
  BY DEF Fdc
<1>3. ASSUME v = 0
      PROVE  Reset(v) = [phase |-> "reset", bytes |-> <<>>, results |-> <<>>, senses |-> 0, pcn |-> fdc.pcn]
  BY <1>1, <1>2, <1>3 DEF Reset
<1>4. ASSUME v = 12, fdc.phase = "reset"
      PROVE  Reset(v) = [phase |-> "starting", bytes |-> fdc.bytes, results |-> fdc.results,
                         senses |-> fdc.senses, pcn |-> fdc.pcn]
  BY <1>1, <1>2, <1>4 DEF Reset
<1>5. ASSUME v \in {4, 28}, fdc.phase # "reset" PROVE Reset(v) = fdc
  BY <1>1, <1>5 DEF Reset
<1> QED BY <1>3, <1>4, <1>5

\* The controller with another phase and other bytes of the command.
LEMMA FdcSet ==
  ASSUME NEW f \in Fdc, NEW p, NEW b, NEW g, g = [f EXCEPT !.phase = p, !.bytes = b]
  PROVE  g = [phase |-> p, bytes |-> b, results |-> f.results, senses |-> f.senses, pcn |-> f.pcn]
<1>1. f = [phase |-> f.phase, bytes |-> f.bytes, results |-> f.results, senses |-> f.senses, pcn |-> f.pcn]
  BY DEF Fdc
<1> QED BY <1>1

\* The controller after a byte of the result is read.
LEMMA FdcRead ==
  ASSUME NEW f \in Fdc, f.phase = "result", NEW g,
         g = [f EXCEPT !.results = Tail(@), !.phase = IF Len(f.results) = 1 THEN "idle" ELSE @]
  PROVE  g = [phase |-> IF Len(f.results) = 1 THEN "idle" ELSE "result", bytes |-> f.bytes,
              results |-> Tail(f.results), senses |-> f.senses, pcn |-> f.pcn]
<1>1. f = [phase |-> f.phase, bytes |-> f.bytes, results |-> f.results, senses |-> f.senses, pcn |-> f.pcn]
  BY DEF Fdc
<1> QED BY <1>1

\* What a byte does to the controller.
LEMMA TakingSteps ==
  ASSUME fdc \in Fdc, NEW b \in Nat, NEW bytes, bytes = Append(fdc.bytes, b),
         bytes[1] % 32 \in DOMAIN CommandLength
  PROVE  /\ Len(bytes) < CommandLength[bytes[1] % 32] =>
              Taking(b) = [phase |-> "command", bytes |-> bytes, results |-> fdc.results,
                           senses |-> fdc.senses, pcn |-> fdc.pcn]
         /\ Len(bytes) = CommandLength[bytes[1] % 32] =>
              /\ bytes[1] % 32 = CHECK_INT => Taking(b) = Sensed
              /\ bytes[1] % 32 = SPECIFY =>
                   Taking(b) = [phase |-> "idle", bytes |-> <<>>, results |-> fdc.results,
                                senses |-> fdc.senses, pcn |-> fdc.pcn]
              /\ bytes[1] % 32 \notin {CHECK_INT, SPECIFY} =>
                   Taking(b) = [phase |-> "execute", bytes |-> bytes, results |-> fdc.results,
                                senses |-> fdc.senses, pcn |-> fdc.pcn]
<1>1. SPECIFY # CHECK_INT
  BY Commands
<1> DEFINE begun     == [fdc EXCEPT !.phase = "command", !.bytes = bytes]
           specified == [fdc EXCEPT !.phase = "idle", !.bytes = <<>>]
           working   == [fdc EXCEPT !.phase = "execute", !.bytes = bytes]
<1>2. Taking(b) = IF Len(bytes) < CommandLength[bytes[1] % 32] THEN begun
                  ELSE CASE bytes[1] % 32 = CHECK_INT -> Sensed
                         [] bytes[1] % 32 = SPECIFY   -> specified
                         [] OTHER                     -> working
  BY DEF Taking
<1>3. /\ begun = [phase |-> "command", bytes |-> bytes, results |-> fdc.results,
                  senses |-> fdc.senses, pcn |-> fdc.pcn]
      /\ specified = [phase |-> "idle", bytes |-> <<>>, results |-> fdc.results,
                      senses |-> fdc.senses, pcn |-> fdc.pcn]
      /\ working = [phase |-> "execute", bytes |-> bytes, results |-> fdc.results,
                    senses |-> fdc.senses, pcn |-> fdc.pcn]
  BY FdcSet
<1> HIDE DEF begun, specified, working
<1>4. /\ Len(bytes) \in Nat /\ CommandLength[bytes[1] % 32] \in Nat
  <2>1. bytes \in Seq(Nat)
    BY DEF Fdc
  <2>2. \A c \in DOMAIN CommandLength : CommandLength[c] \in Nat
    BY CommandLengths
  <2> QED BY <2>1, <2>2
<1>5. ASSUME Len(bytes) < CommandLength[bytes[1] % 32]
      PROVE  Taking(b) = [phase |-> "command", bytes |-> bytes, results |-> fdc.results,
                          senses |-> fdc.senses, pcn |-> fdc.pcn]
  BY <1>2, <1>5, <1>3
<1>6. ASSUME Len(bytes) = CommandLength[bytes[1] % 32]
      PROVE  ~ (Len(bytes) < CommandLength[bytes[1] % 32])
  BY <1>4, <1>6
<1>7. ASSUME Len(bytes) = CommandLength[bytes[1] % 32], bytes[1] % 32 = CHECK_INT
      PROVE  Taking(b) = Sensed
  BY <1>1, <1>2, <1>6, <1>7
<1>8. ASSUME Len(bytes) = CommandLength[bytes[1] % 32], bytes[1] % 32 = SPECIFY
      PROVE  Taking(b) = [phase |-> "idle", bytes |-> <<>>, results |-> fdc.results,
                          senses |-> fdc.senses, pcn |-> fdc.pcn]
  BY <1>1, <1>2, <1>6, <1>8, <1>3
<1>9. ASSUME Len(bytes) = CommandLength[bytes[1] % 32], bytes[1] % 32 \notin {CHECK_INT, SPECIFY}
      PROVE  Taking(b) = [phase |-> "execute", bytes |-> bytes, results |-> fdc.results,
                          senses |-> fdc.senses, pcn |-> fdc.pcn]
  BY <1>2, <1>6, <1>9, <1>3
<1> QED BY <1>5, <1>7, <1>8, <1>9

\* What sensing an interrupt does to the controller.
LEMMA SensedSteps ==
  ASSUME fdc \in Fdc
  PROVE  /\ fdc.senses > 0 =>
              Sensed = [phase |-> "result", bytes |-> <<>>, results |-> <<32, fdc.pcn>>,
                        senses |-> fdc.senses - 1, pcn |-> fdc.pcn]
         /\ fdc.senses = 0 =>
              Sensed = [phase |-> "result", bytes |-> <<>>, results |-> <<128>>,
                        senses |-> fdc.senses, pcn |-> fdc.pcn]
<1>1. /\ fdc = [phase |-> fdc.phase, bytes |-> fdc.bytes, results |-> fdc.results,
                senses |-> fdc.senses, pcn |-> fdc.pcn]
      /\ fdc.senses \in 0 .. 4
  BY DEF Fdc
<1>2. ASSUME fdc.senses > 0
      PROVE  Sensed = [phase |-> "result", bytes |-> <<>>, results |-> <<32, fdc.pcn>>,
                       senses |-> fdc.senses - 1, pcn |-> fdc.pcn]
  <2>1. Sensed = [fdc EXCEPT !.phase = "result", !.bytes = <<>>, !.results = <<32, fdc.pcn>>, !.senses = @ - 1]
    BY <1>2 DEF Sensed
  <2> QED BY <1>1, <2>1
<1>3. ASSUME fdc.senses = 0
      PROVE  Sensed = [phase |-> "result", bytes |-> <<>>, results |-> <<128>>,
                       senses |-> fdc.senses, pcn |-> fdc.pcn]
  <2>1. Sensed = [fdc EXCEPT !.phase = "result", !.bytes = <<>>, !.results = <<128>>]
    BY <1>3 DEF Sensed
  <2> QED BY <1>1, <2>1
<1> QED BY <1>2, <1>3

(***************************************************************************)
(* One lemma for every action: it leads from the label before to the next. *)
(***************************************************************************)
LEMMA Popped ==
  ASSUME NEW ops \in Seq(Op)
  PROVE  <<>> \o ops = ops /\ ops \o <<>> = ops
OBVIOUS

\* The driver takes its next operation.
LEMMA Advance ==
  ASSUME todo \in Seq(Op), todo # <<>>, NEW k \in Label, NEW r \in Label, Path(todo, k, r), Then(<<>>)
  PROVE  /\ Head(todo) \in Op /\ todo' \in Seq(Op)
         /\ \E m \in Label : Steps(k, Head(todo), m) /\ Path(todo', m, r)
<1>1. Head(todo) \in Op /\ Tail(todo) \in Seq(Op)
  OBVIOUS
<1>2. todo' = Tail(todo)
  BY <1>1, Popped DEF Then
<1> QED BY <1>1, <1>2, PathFirst

\* The fields of a label that a step leads to.
LEMMA LbIs ==
  ASSUME NEW c, NEW bytes, NEW left, NEW senses, NEW sure, NEW dr, NEW ch, NEW jb, NEW goal,
         NEW m, m = Lb(c, bytes, left, senses, sure, dr, ch, jb, goal)
  PROVE  /\ m.ctl = c /\ m.bytes = bytes /\ m.left = left /\ m.senses = senses /\ m.sure = sure
         /\ m.dor = dr /\ m.dma = ch /\ m.job = jb /\ m.goal = goal
BY DEF Lb

\* A byte for the digital output register.
LEMMA DorMatch ==
  ASSUME Types, NEW k \in Label, NEW m \in Label, NEW o \in Op, Settled(k), Quiet, k.goal # "over",
         DorStep(k, o, m), dor' = o.val, fdc' = Reset(o.val), dma' = dma,
         UNCHANGED <<tries, cyl, job, answer, has_int_msg, recv, irq, buffer>>
  PROVE  Match(m)' /\ fdc' \in Fdc /\ dor' \in Byte
<1>1. fdc \in Fdc /\ k.senses \in 0 .. 4 /\ k.bytes \in Seq(Nat) /\ o.val \in Nat
  BY DEF Types, Label, Op
<1>2. CASE /\ o.val = 0 /\ k.ctl = "idle" /\ k.goal = "install"
           /\ m = Lb("reset", k.bytes, k.left, 0, FALSE, 0, k.dma, k.job, k.goal)
  <2>1. /\ m.ctl = "reset" /\ m.bytes = k.bytes /\ m.left = k.left /\ m.senses = 0 /\ m.sure = FALSE
        /\ m.dor = 0 /\ m.dma = k.dma /\ m.job = k.job /\ m.goal = "install"
    BY <1>2 DEF Lb
  <2>2. fdc' = [phase |-> "reset", bytes |-> <<>>, results |-> <<>>, senses |-> 0, pcn |-> fdc.pcn]
    BY <1>1, <1>2, ResetSteps
  <2>3. /\ fdc'.phase = "reset" /\ fdc'.bytes = <<>> /\ fdc'.senses = 0
        /\ k.bytes = <<>> /\ k.left = 0 /\ job = -1
    BY <1>2, <2>2 DEF Settled, GoalMet
  <2>4. fdc' \in Fdc /\ dor' \in Byte
    <3>1. 0 \in 0 .. 4 /\ 0 \in Byte /\ <<>> \in Seq(Nat) /\ <<>> \in Seq(Byte) /\ fdc.pcn \in Cylinder
      BY <1>1 DEF Byte, Fdc
    <3>2. fdc' \in Fdc
      BY <2>2, <3>1 DEF Fdc
    <3> QED BY <1>2, <3>1, <3>2
  <2>5. Settled(m)'
    BY <1>2, <2>1, <2>3 DEF Settled, GoalMet
  <2> QED BY <2>1, <2>4, <2>5 DEF Match, Quiet
<1>3. CASE /\ o.val = 12 /\ k.ctl = "reset" /\ k.senses = 0 /\ k.goal = "install"
           /\ m = Lb("busy", k.bytes, k.left, 0, FALSE, 12, k.dma, k.job, k.goal)
  <2>1. /\ m.ctl = "busy" /\ m.bytes = k.bytes /\ m.left = k.left /\ m.senses = 0 /\ m.sure = FALSE
        /\ m.dor = 12 /\ m.dma = k.dma /\ m.job = k.job /\ m.goal = k.goal
    BY <1>3 DEF Lb
  <2>2. fdc.phase = "reset" /\ k.bytes = <<>> /\ fdc.bytes = <<>>
    BY <1>3 DEF Settled
  <2>3. fdc' = [phase |-> "starting", bytes |-> fdc.bytes, results |-> fdc.results,
                senses |-> fdc.senses, pcn |-> fdc.pcn]
    BY <1>1, <1>3, <2>2, ResetSteps
  <2>4. fdc' \in Fdc /\ dor' \in Byte
    BY <1>1, <1>3, <2>3 DEF Fdc, Byte
  <2>5. fdc'.phase = "starting" /\ fdc'.bytes = <<>> /\ fdc'.senses = 0
    BY <1>3, <2>2, <2>3 DEF Settled
  <2>6. Working(m)'
    BY <1>3, <2>1, <2>2, <2>5 DEF Working, Settled, GoalMet, Quiet
  <2> QED BY <2>1, <2>4, <2>6 DEF Match
<1>4. CASE /\ o.val \in {4, 28} /\ k.ctl = "idle"
           /\ m = Lb("idle", k.bytes, k.left, k.senses, k.sure, o.val, k.dma, k.job, k.goal)
  <2>1. /\ m.ctl = "idle" /\ m.bytes = k.bytes /\ m.left = k.left /\ m.senses = k.senses /\ m.sure = k.sure
        /\ m.dor = o.val /\ m.dma = k.dma /\ m.job = k.job /\ m.goal = k.goal
    BY <1>4 DEF Lb
  <2>2. fdc.phase = "idle"
    BY <1>4 DEF Settled
  <2>3. fdc' = fdc
    BY <1>1, <1>4, <2>2, ResetSteps
  <2>4. dor' \in Byte
    BY <1>4 DEF Byte
  <2>5. Settled(m)'
    BY <1>4, <2>1, <2>3 DEF Settled, GoalMet, Served
  <2> QED BY <1>1, <2>1, <2>3, <2>4, <2>5 DEF Match, Quiet
<1> QED BY <1>2, <1>3, <1>4 DEF DorStep

\* A byte for the DMA controller or the data rate.
LEMMA PortMatch ==
  ASSUME Types, NEW k \in Label, NEW m \in Label, NEW o \in Op, Settled(k), Quiet, k.goal # "over",
         PortStep(k, o, m), dor' = dor, fdc' = fdc, dma' = Programmed(dma, o.port, o.val),
         UNCHANGED <<tries, cyl, job, answer, has_int_msg, recv, irq, buffer>>
  PROVE  Match(m)' /\ dma' \in Dma
<1>1. /\ k.ctl = "idle"
      /\ m = Lb("idle", k.bytes, k.left, k.senses, k.sure, k.dor, Programmed(k.dma, o.port, o.val), k.job, k.goal)
  BY DEF PortStep
<1>2. /\ m.ctl = "idle" /\ m.bytes = k.bytes /\ m.left = k.left /\ m.senses = k.senses /\ m.sure = k.sure
      /\ m.dor = k.dor /\ m.dma = Programmed(k.dma, o.port, o.val) /\ m.job = k.job /\ m.goal = k.goal
  BY <1>1 DEF Lb
<1>3. dor = k.dor /\ dma = k.dma
  BY DEF Settled
<1>4. dma' = m.dma /\ m.dma \in Dma
  BY <1>2, <1>3 DEF Label
<1>5. Settled(m)'
  BY <1>1, <1>2, <1>3, <1>4 DEF Settled, GoalMet
<1> QED BY <1>2, <1>4, <1>5 DEF Match, Quiet

\* The number of a cylinder is a byte.
LEMMA CylinderByte == \A c \in Cylinder : c \in Byte
BY FlpyAssumption DEF Cylinder, Byte

\* The last byte of a command.
LEMMA EndsMatch ==
  ASSUME Types, NEW k \in Label, NEW m \in Label, NEW b \in Nat, NEW bytes,
         bytes = Append(k.bytes, b), bytes[1] % 32 \in DOMAIN CommandLength,
         Len(bytes) = CommandLength[bytes[1] % 32],
         Settled(k), Quiet, k.goal # "over", k.ctl \in {"idle", "bytes"},
         Ends(k, bytes, m), dor' = dor, fdc' = Taking(b), dma' = dma,
         UNCHANGED <<tries, cyl, job, answer, has_int_msg, recv, irq, buffer>>
  PROVE  Match(m)' /\ fdc' \in Fdc
<1>1. /\ fdc \in Fdc /\ fdc.bytes = k.bytes /\ fdc.senses = k.senses /\ dor = k.dor /\ dma = k.dma
      /\ job = k.job /\ k.left = 0 /\ k.senses \in 0 .. 4 /\ bytes = Append(fdc.bytes, b)
      /\ fdc.pcn \in Cylinder /\ fdc.results \in Seq(Byte)
  BY DEF Types, Label, Settled, Fdc
<1>2. bytes \in Seq(Nat) /\ bytes # <<>>
  BY <1>1 DEF Fdc
<1>3. /\ bytes[1] % 32 = CHECK_INT => fdc' = Sensed
      /\ bytes[1] % 32 = SPECIFY =>
           fdc' = [phase |-> "idle", bytes |-> <<>>, results |-> fdc.results, senses |-> fdc.senses, pcn |-> fdc.pcn]
      /\ bytes[1] % 32 \notin {CHECK_INT, SPECIFY} =>
           fdc' = [phase |-> "execute", bytes |-> bytes, results |-> fdc.results, senses |-> fdc.senses,
                   pcn |-> fdc.pcn]
  BY <1>1, TakingSteps
<1>4. CASE /\ bytes[1] % 32 = CHECK_INT /\ k.senses > 0
           /\ m = Lb("result", <<>>, 2, k.senses - 1, TRUE, k.dor, k.dma, k.job, k.goal)
  <2>1. /\ m.ctl = "result" /\ m.bytes = <<>> /\ m.left = 2 /\ m.senses = k.senses - 1 /\ m.sure = TRUE
        /\ m.dor = k.dor /\ m.dma = k.dma /\ m.job = k.job /\ m.goal = k.goal
    BY <1>4 DEF Lb
  <2>2. fdc' = [phase |-> "result", bytes |-> <<>>, results |-> <<32, fdc.pcn>>,
                senses |-> fdc.senses - 1, pcn |-> fdc.pcn]
    BY <1>1, <1>3, <1>4, SensedSteps
  <2>3. <<32, fdc.pcn>> \in Seq(Byte) /\ Len(<<32, fdc.pcn>>) = 2 /\ <<32, fdc.pcn>>[2] = fdc.pcn
    <3>1. fdc.pcn \in Byte
      BY <1>1, CylinderByte
    <3>2. 32 \in Byte
      BY DEF Byte
    <3> QED BY <3>1, <3>2
  <2>4. fdc' \in Fdc
    BY <1>1, <1>4, <2>2, <2>3 DEF Fdc
  <2>5. fdc'.phase = "result" /\ fdc'.bytes = <<>> /\ Len(fdc'.results) = 2 /\ fdc'.results[2] = fdc'.pcn
        /\ fdc'.senses = m.senses /\ fdc'.pcn = fdc.pcn
    BY <1>1, <2>1, <2>2, <2>3
  <2>6. Settled(m)'
    BY <1>1, <2>1, <2>5 DEF Settled, GoalMet
  <2> QED BY <2>1, <2>4, <2>6 DEF Match, Quiet
<1>5. CASE /\ bytes[1] % 32 = CHECK_INT /\ k.senses = 0
           /\ m = Lb("result", <<>>, 1, 0, FALSE, k.dor, k.dma, k.job, k.goal)
  <2>1. /\ m.ctl = "result" /\ m.bytes = <<>> /\ m.left = 1 /\ m.senses = 0 /\ m.sure = FALSE
        /\ m.dor = k.dor /\ m.dma = k.dma /\ m.job = k.job /\ m.goal = k.goal
    BY <1>5 DEF Lb
  <2>2. fdc' = [phase |-> "result", bytes |-> <<>>, results |-> <<128>>, senses |-> fdc.senses, pcn |-> fdc.pcn]
    BY <1>1, <1>3, <1>5, SensedSteps
  <2>3. <<128>> \in Seq(Byte) /\ Len(<<128>>) = 1
    BY DEF Byte
  <2>4. fdc' \in Fdc
    BY <1>1, <2>2, <2>3 DEF Fdc
  <2>5. fdc'.phase = "result" /\ fdc'.bytes = <<>> /\ Len(fdc'.results) = 1 /\ fdc'.senses = 0 /\ fdc'.pcn = fdc.pcn
    BY <1>1, <1>5, <2>2, <2>3
  <2>6. Settled(m)'
    BY <1>1, <2>1, <2>5 DEF Settled, GoalMet
  <2> QED BY <2>1, <2>4, <2>6 DEF Match, Quiet
<1>6. CASE /\ bytes[1] % 32 = SPECIFY
           /\ m = Lb("idle", <<>>, k.left, k.senses, k.sure, k.dor, k.dma, k.job, k.goal)
  <2>1. /\ m.ctl = "idle" /\ m.bytes = <<>> /\ m.left = k.left /\ m.senses = k.senses /\ m.sure = k.sure
        /\ m.dor = k.dor /\ m.dma = k.dma /\ m.job = k.job /\ m.goal = k.goal
    BY <1>6 DEF Lb
  <2>2. fdc' = [phase |-> "idle", bytes |-> <<>>, results |-> fdc.results, senses |-> fdc.senses, pcn |-> fdc.pcn]
    BY <1>3, <1>6
  <2>3. fdc' \in Fdc
    BY <1>1, <2>2 DEF Fdc
  <2>4. k.sure => cyl = fdc.pcn
    BY DEF Settled
  <2>5. Settled(m)'
    BY <1>1, <2>1, <2>2, <2>4 DEF Settled, GoalMet
  <2> QED BY <2>1, <2>3, <2>5 DEF Match, Quiet
<1>7. CASE /\ bytes[1] % 32 \in {CALIBRATE, SEEK}
           /\ k.senses = 0 /\ k.dor = 28 /\ k.goal \in {"install", "seek"}
           /\ m = Lb("busy", bytes, k.left, 0, FALSE, 28, k.dma, k.job, k.goal)
  <2>1. /\ m.ctl = "busy" /\ m.bytes = bytes /\ m.dor = 28 /\ m.dma = k.dma /\ m.job = k.job /\ m.goal = k.goal
    BY <1>7 DEF Lb
  <2>2. fdc' = [phase |-> "execute", bytes |-> bytes, results |-> fdc.results, senses |-> fdc.senses, pcn |-> fdc.pcn]
    BY <1>3, <1>7, Commands
  <2>3. fdc' \in Fdc
    BY <1>1, <1>2, <2>2 DEF Fdc
  <2>4. fdc'.phase = "execute" /\ fdc'.bytes = bytes /\ fdc'.senses = 0
    BY <1>1, <1>7, <2>2
  <2>5. GoalMet(m.goal)'
    BY <1>7, <2>1 DEF Settled, GoalMet
  <2>6. Working(m)'
    BY <1>1, <1>2, <1>7, <2>1, <2>4, <2>5 DEF Working, Quiet
  <2> QED BY <2>1, <2>3, <2>6 DEF Match
<1>8. CASE /\ bytes[1] % 32 = READ_SECT
           /\ k.senses = 0 /\ k.dor = 28 /\ k.goal = "found"
           /\ Ready(k.dma) /\ k.dma.flipflop = 0
           /\ bytes = ReadBytes(flpydsk_lba_to_chs(k.job))
           /\ m = Lb("busy", bytes, k.left, 0, FALSE, 28, k.dma, k.job, k.goal)
  <2>1. /\ m.ctl = "busy" /\ m.bytes = bytes /\ m.dor = 28 /\ m.dma = k.dma /\ m.job = k.job /\ m.goal = "found"
    BY <1>8 DEF Lb
  <2>2. fdc' = [phase |-> "execute", bytes |-> bytes, results |-> fdc.results, senses |-> fdc.senses, pcn |-> fdc.pcn]
    BY <1>3, <1>8, Commands
  <2>3. fdc' \in Fdc
    BY <1>1, <1>2, <2>2 DEF Fdc
  <2>4. fdc'.phase = "execute" /\ fdc'.bytes = bytes /\ fdc'.pcn = fdc.pcn /\ fdc'.senses = 0
    BY <1>1, <1>8, <2>2
  <2>5. GoalMet(m.goal)'
    BY <1>8, <2>1, <2>4 DEF Settled, GoalMet
  <2>6. Ready(dma)' /\ dma'.flipflop = 0 /\ bytes = ReadBytes(flpydsk_lba_to_chs(job'))
    BY <1>1, <1>8 DEF Ready
  <2>7. Working(m)'
    BY <1>1, <1>2, <1>8, <2>1, <2>4, <2>5, <2>6 DEF Working, Quiet
  <2> QED BY <2>1, <2>3, <2>7 DEF Match
<1> QED BY <1>4, <1>5, <1>6, <1>7, <1>8 DEF Ends

\* A byte for the controller.
LEMMA FifoMatch ==
  ASSUME Types, NEW k \in Label, NEW m \in Label, NEW o \in Op, Settled(k), Quiet, k.goal # "over",
         FifoStep(k, o, m), dor' = dor, fdc' = Taking(o.val), dma' = dma,
         UNCHANGED <<tries, cyl, job, answer, has_int_msg, recv, irq, buffer>>
  PROVE  Match(m)' /\ fdc' \in Fdc
<1> DEFINE bytes == Append(k.bytes, o.val)
<1>1. o.val \in Nat /\ k.ctl \in {"idle", "bytes"} /\ bytes[1] % 32 \in DOMAIN CommandLength
  BY DEF Op, FifoStep
<1>2. /\ fdc \in Fdc /\ fdc.bytes = k.bytes /\ fdc.senses = k.senses /\ dor = k.dor /\ dma = k.dma
      /\ job = k.job /\ k.left = 0 /\ bytes = Append(fdc.bytes, o.val)
  BY <1>1 DEF Types, Settled
<1>3. bytes \in Seq(Nat)
  BY <1>1 DEF Label
<1>4. CASE Len(bytes) < CommandLength[bytes[1] % 32] /\ m = Sending(k, bytes)
  <2>1. m = Lb("bytes", bytes, k.left, k.senses, k.sure, k.dor, k.dma, k.job, k.goal)
    BY <1>4 DEF Sending
  <2> HIDE DEF bytes
  <2>2. /\ m.ctl = "bytes" /\ m.bytes = bytes /\ m.left = k.left /\ m.senses = k.senses /\ m.sure = k.sure
        /\ m.dor = k.dor /\ m.dma = k.dma /\ m.job = k.job /\ m.goal = k.goal
    BY <2>1 DEF Lb
  <2>3. fdc' = [phase |-> "command", bytes |-> bytes, results |-> fdc.results, senses |-> fdc.senses, pcn |-> fdc.pcn]
    BY <1>1, <1>2, <1>4, TakingSteps
  <2>4. fdc' \in Fdc
    BY <1>2, <1>3, <2>3 DEF Fdc
  <2>5. k.sure => cyl = fdc.pcn
    BY <1>1 DEF Settled
  <2>6. Settled(m)'
    BY <1>2, <2>2, <2>3, <2>5 DEF Settled, GoalMet
  <2> QED BY <2>2, <2>4, <2>6 DEF Match, Quiet
<1>5. CASE Len(bytes) = CommandLength[bytes[1] % 32] /\ Ends(k, bytes, m)
  BY <1>1, <1>5, EndsMatch
<1> QED BY <1>4, <1>5 DEF FifoStep

\* A byte is written to a port.
LEMMA OutStep == IInv /\ out_byte => IInv'
<1> SUFFICES ASSUME IInv, out_byte PROVE IInv'
  OBVIOUS
<1>1. Types
  BY DEF IInv
<1>2. PICK k \in Label, r \in Label : Path(todo, k, r) /\ AtRest(r) /\ Match(k)
  BY DEF IInv, Tracked
<1> DEFINE o == Head(todo)
<1>3. /\ todo # <<>> /\ o.op = "out" /\ Then(<<>>) /\ todo \in Seq(Op)
      /\ UNCHANGED <<tries, cyl, job, answer, has_int_msg, recv, irq, buffer>>
  BY <1>1 DEF out_byte, Doing, NextOp, Types
<1>4. /\ dor' = IF o.port = "dor" THEN o.val ELSE dor
      /\ fdc' = IF o.port = "dor" THEN Reset(o.val)
                ELSE IF o.port = "fifo" /\ TakesByte THEN Taking(o.val)
                ELSE fdc
      /\ dma' = Programmed(dma, o.port, o.val)
  BY DEF out_byte, NextOp
<1>5. o \in Op /\ todo' \in Seq(Op)
  BY <1>2, <1>3, Advance
<1>6. PICK m \in Label : Steps(k, o, m) /\ Path(todo', m, r)
  BY <1>2, <1>3, Advance
<1> HIDE DEF o
<1>7. k.goal # "over" /\ (DorStep(k, o, m) \/ PortStep(k, o, m) \/ FifoStep(k, o, m))
  BY <1>3, <1>6 DEF Steps, InStep, WaitStep, TestStep
<1>8. Settled(k) /\ Quiet
  BY <1>2, <1>7 DEF Match, DorStep, PortStep, FifoStep
<1>9. Match(m)' /\ fdc' \in Fdc /\ dor' \in Byte /\ dma' \in Dma
  <2>1. CASE DorStep(k, o, m)
    <3>1. o.port = "dor"
      BY <2>1 DEF DorStep
    <3>2. dor' = o.val /\ fdc' = Reset(o.val) /\ dma' = dma
      BY <1>4, <3>1 DEF Programmed
    <3> QED BY <1>1, <1>3, <1>5, <1>7, <1>8, <2>1, <3>2, DorMatch DEF Types
  <2>2. CASE PortStep(k, o, m)
    <3>1. o.port # "dor" /\ o.port # "fifo"
      BY <2>2 DEF PortStep
    <3>2. dor' = dor /\ fdc' = fdc
      BY <1>4, <3>1
    <3> QED BY <1>1, <1>3, <1>4, <1>5, <1>7, <1>8, <2>2, <3>2, PortMatch DEF Types
  <2>3. CASE FifoStep(k, o, m)
    <3>1. o.port = "fifo" /\ TakesByte
      BY <1>8, <2>3 DEF FifoStep, Settled, TakesByte
    <3>2. dor' = dor /\ fdc' = Taking(o.val) /\ dma' = dma
      BY <1>4, <3>1 DEF Programmed
    <3> QED BY <1>1, <1>3, <1>5, <1>7, <1>8, <2>3, <3>2, FifoMatch DEF Types
  <2> QED BY <1>7, <2>1, <2>2, <2>3
<1>10. Types'
  BY <1>1, <1>3, <1>5, <1>9 DEF Types
<1> QED BY <1>2, <1>6, <1>9, <1>10 DEF IInv, Tracked, AtRest

\* A byte is read from the controller.
LEMMA InMatch ==
  ASSUME Types, NEW k \in Label, NEW m \in Label, NEW o \in Op, Settled(k), Quiet, k.goal # "over",
         InStep(k, o, m), flpydsk_read_data
  PROVE  Match(m)' /\ fdc' \in Fdc /\ cyl' \in Byte
<1>1. /\ fdc \in Fdc /\ fdc.results \in Seq(Byte) /\ fdc.pcn \in Cylinder
      /\ k.left \in Nat /\ k.goal # "failed"
  BY DEF Types, Fdc, Label, InStep
<1>2. UNCHANGED <<tries, job, answer, has_int_msg, recv, irq, dor, dma, buffer>>
  BY DEF flpydsk_read_data
<1>3. ASSUME NEW g \in Fdc, g.pcn = fdc.pcn, fdc' = g PROVE GoalMet(k.goal)'
  BY <1>1, <1>2, <1>3 DEF Settled, GoalMet
<1>4. CASE k.ctl = "result"
  <2>1. fdc.phase = "result" /\ Len(fdc.results) = k.left /\ k.left > 0 /\ k.bytes = <<>> /\ fdc.bytes = <<>>
    BY <1>4 DEF Settled
  <2>2. /\ Head(fdc.results) = fdc.results[1] /\ Head(fdc.results) \in Byte
        /\ Tail(fdc.results) \in Seq(Byte) /\ Len(Tail(fdc.results)) = k.left - 1
        /\ \A i \in 1 .. k.left - 1 : Tail(fdc.results)[i] = fdc.results[i + 1]
    BY <1>1, <2>1
  <2> DEFINE ph == IF k.left = 1 THEN "idle" ELSE "result"
  <2>3. /\ cyl' = fdc.results[1]
        /\ fdc' = [fdc EXCEPT !.results = Tail(@), !.phase = IF Len(fdc.results) = 1 THEN "idle" ELSE @]
    BY <2>1, <2>2 DEF flpydsk_read_data
  <2>4. fdc' = [phase |-> ph, bytes |-> fdc.bytes, results |-> Tail(fdc.results), senses |-> fdc.senses,
                pcn |-> fdc.pcn]
    BY <1>1, <2>1, <2>3, FdcRead
  <2>5. /\ fdc'.phase = ph /\ fdc'.bytes = <<>> /\ fdc'.results = Tail(fdc.results)
        /\ fdc'.senses = fdc.senses /\ fdc'.pcn = fdc.pcn
    BY <2>1, <2>4
  <2>6. fdc' \in Fdc
    BY <1>1, <2>2, <2>4 DEF Fdc
  <2>7. GoalMet(k.goal)'
    BY <1>3, <2>5, <2>6
  <2>8. CASE k.left > 1
    <3>1. /\ m.ctl = "result" /\ m.bytes = <<>> /\ m.left = k.left - 1 /\ m.senses = k.senses /\ m.sure = k.sure
          /\ m.dor = k.dor /\ m.dma = k.dma /\ m.job = k.job /\ m.goal = k.goal
      BY <1>4, <2>8 DEF InStep, Lb
    <3>2. m.left > 0 /\ fdc'.phase = "result" /\ Len(fdc'.results) = m.left
      BY <1>1, <2>2, <2>5, <2>8, <3>1
    <3>3. m.sure => fdc'.results[m.left] = fdc'.pcn
      <4>1. k.left - 1 \in 1 .. k.left - 1 /\ (k.left - 1) + 1 = k.left
        BY <1>1, <2>8
      <4>2. k.sure => fdc.results[k.left] = fdc.pcn
        BY <1>4 DEF Settled
      <4> QED BY <2>2, <2>5, <3>1, <4>1, <4>2
    <3>4. Settled(m)'
      BY <1>2, <2>5, <2>7, <3>1, <3>2, <3>3 DEF Settled
    <3> QED BY <1>2, <2>2, <2>3, <2>6, <3>1, <3>4 DEF Match, Quiet
  <2>9. CASE k.left = 1
    <3>1. /\ m.ctl = "idle" /\ m.bytes = <<>> /\ m.left = 0 /\ m.senses = k.senses /\ m.sure = k.sure
          /\ m.dor = k.dor /\ m.dma = k.dma /\ m.job = k.job /\ m.goal = k.goal
      BY <1>4, <2>9 DEF InStep, Lb
    <3>2. fdc'.phase = "idle"
      BY <2>5, <2>9
    <3>3. m.sure => cyl' = fdc'.pcn
      BY <1>4, <2>3, <2>5, <2>9, <3>1 DEF Settled
    <3>4. Settled(m)'
      BY <1>2, <2>5, <2>7, <3>1, <3>2, <3>3 DEF Settled
    <3> QED BY <1>2, <2>2, <2>3, <2>6, <3>1, <3>4 DEF Match, Quiet
  <2> QED BY <1>1, <2>1, <2>8, <2>9
<1>5. CASE k.ctl = "idle"
  <2>1. fdc.phase = "idle" /\ k.bytes = <<>> /\ fdc.bytes = <<>> /\ fdc.senses = k.senses
    BY <1>5 DEF Settled
  <2>2. cyl' = 0 /\ fdc' = fdc
    BY <2>1 DEF flpydsk_read_data
  <2>3. /\ m.ctl = "idle" /\ m.bytes = <<>> /\ m.left = 0 /\ m.senses = k.senses /\ m.sure = FALSE
        /\ m.dor = k.dor /\ m.dma = k.dma /\ m.job = k.job /\ m.goal = k.goal
    BY <1>5 DEF InStep, Lb
  <2>4. GoalMet(k.goal)'
    BY <1>1, <1>3, <2>2
  <2>5. Settled(m)'
    BY <1>2, <2>1, <2>2, <2>3, <2>4 DEF Settled
  <2>6. 0 \in Byte
    BY DEF Byte
  <2> QED BY <1>1, <1>2, <2>2, <2>3, <2>5, <2>6 DEF Match, Quiet
<1> QED BY <1>4, <1>5 DEF InStep

\* The driver has read a byte of the controller.
LEMMA InSteps == IInv /\ flpydsk_read_data => IInv'
<1> SUFFICES ASSUME IInv, flpydsk_read_data PROVE IInv'
  OBVIOUS
<1>1. Types
  BY DEF IInv
<1>2. PICK k \in Label, r \in Label : Path(todo, k, r) /\ AtRest(r) /\ Match(k)
  BY DEF IInv, Tracked
<1> DEFINE o == Head(todo)
<1>3. /\ todo # <<>> /\ o.op = "in" /\ Then(<<>>) /\ todo \in Seq(Op)
      /\ UNCHANGED <<tries, job, answer, has_int_msg, recv, irq, dor, dma, buffer>>
  BY <1>1 DEF flpydsk_read_data, Doing, NextOp, Types
<1>4. o \in Op /\ todo' \in Seq(Op)
  BY <1>2, <1>3, Advance
<1>5. PICK m \in Label : Steps(k, o, m) /\ Path(todo', m, r)
  BY <1>2, <1>3, Advance
<1> HIDE DEF o
<1>6. k.goal # "over" /\ InStep(k, o, m)
  BY <1>3, <1>5 DEF Steps, DorStep, PortStep, FifoStep, WaitStep, TestStep
<1>7. Settled(k) /\ Quiet
  BY <1>2, <1>6 DEF Match, InStep
<1>8. Match(m)' /\ fdc' \in Fdc /\ cyl' \in Byte
  BY <1>1, <1>4, <1>6, <1>7, InMatch
<1>9. Types'
  BY <1>1, <1>3, <1>4, <1>8 DEF Types
<1> QED BY <1>2, <1>5, <1>8, <1>9 DEF IInv, Tracked, AtRest

\* A driver with a command in the works waits for its interrupt.
LEMMA BusyWaits ==
  ASSUME todo \in Seq(Op), NEW k \in Label, NEW r \in Label, Path(todo, k, r), AtRest(r), k.ctl = "busy"
  PROVE  /\ Doing("wait")
         /\ Then(<<>>) => todo' \in Seq(Op) /\ Woken(k) \in Label /\ Path(todo', Woken(k), r)
<1>1. todo # <<>>
  <2>1. SUFFICES ASSUME todo = <<>> PROVE FALSE
    OBVIOUS
  <2>2. k = r
    BY <2>1 DEF Path
  <2> QED BY <2>2 DEF AtRest
<1>2. PICK m \in Label : Steps(k, Head(todo), m) /\ Path(Tail(todo), m, r)
  BY <1>1, PathFirst
<1>3. WaitStep(k, Head(todo), m)
  BY <1>2 DEF Steps, DorStep, PortStep, FifoStep, InStep, TestStep
<1>4. Doing("wait") /\ m = Woken(k)
  BY <1>1, <1>3 DEF WaitStep, Doing, NextOp
<1>5. ASSUME Then(<<>>)
      PROVE  todo' \in Seq(Op) /\ Woken(k) \in Label /\ Path(todo', Woken(k), r)
  <2>1. Tail(todo) \in Seq(Op)
    BY <1>1
  <2>2. todo' = Tail(todo)
    BY <1>5, <2>1, Popped DEF Then
  <2> QED BY <1>2, <1>4, <2>1, <2>2
<1> QED BY <1>4, <1>5

\* When it is woken, the controller is as it expects.
LEMMA WokenMatch ==
  ASSUME NEW k \in Label, Settled(Woken(k)), ~ irq', ~ has_int_msg', recv' = "no",
         UNCHANGED <<tries, cyl, job, answer, dor, fdc, dma, buffer>>
  PROVE  Match(Woken(k))'
<1>1. Settled(Woken(k))'
  BY DEF Settled, GoalMet, Served
<1>2. Woken(k).ctl # "busy"
  BY DEF Woken, Lb
<1> QED BY <1>1, <1>2 DEF Match, Quiet

\* The wait: an interrupt that came before it, one that comes inside it, and
\* one that wakes the driver.
LEMMA WaitSteps == IInv /\ (ReceiveTest \/ ReceiveBlock \/ i86_flpy_irq) => IInv'
<1> SUFFICES ASSUME IInv, ReceiveTest \/ ReceiveBlock \/ i86_flpy_irq PROVE IInv'
  OBVIOUS
<1>1. Types /\ todo \in Seq(Op)
  BY DEF IInv, Types
<1>2. PICK k \in Label, r \in Label : Path(todo, k, r) /\ AtRest(r) /\ Match(k)
  BY DEF IInv, Tracked
<1>3. /\ UNCHANGED <<tries, cyl, job, answer, dor, fdc, dma, buffer>>
      /\ has_int_msg' \in BOOLEAN /\ irq' \in BOOLEAN /\ recv' \in {"no", "tested", "blocked"}
  BY <1>1 DEF ReceiveTest, ReceiveBlock, i86_flpy_irq, driver, device, Types
<1>4. k.ctl = "busy"
  <2>1. CASE ReceiveTest
    <3>1. /\ todo # <<>> /\ Head(todo).op = "wait"
      BY <2>1 DEF ReceiveTest, Doing, NextOp
    <3>2. PICK m \in Label : Steps(k, Head(todo), m)
      BY <1>1, <1>2, <3>1, PathFirst
    <3> QED BY <3>1, <3>2 DEF Steps, DorStep, PortStep, FifoStep, InStep, WaitStep, TestStep
  <2>2. CASE ReceiveBlock
    BY <1>2, <2>2 DEF ReceiveBlock, Match, Quiet
  <2>3. CASE i86_flpy_irq
    BY <1>2, <2>3 DEF i86_flpy_irq, Match, Quiet
  <2> QED BY <2>1, <2>2, <2>3
<1>5. CASE Then(<<>>) /\ Settled(Woken(k)) /\ ~ irq' /\ ~ has_int_msg' /\ recv' = "no"
  <2>1. todo' \in Seq(Op) /\ Woken(k) \in Label /\ Path(todo', Woken(k), r)
    BY <1>1, <1>2, <1>4, <1>5, BusyWaits
  <2>2. Match(Woken(k))'
    BY <1>3, <1>5, WokenMatch
  <2>3. Types'
    BY <1>1, <1>3, <2>1 DEF Types
  <2> QED BY <1>2, <2>1, <2>2, <2>3 DEF IInv, Tracked, AtRest
<1>6. CASE todo' = todo /\ (Working(k) => ~ irq' /\ ~ has_int_msg') /\ (Ended(k) => irq' = ~ has_int_msg')
  <2>1. Match(k)'
    <3>1. Working(k) => Working(k)'
      BY <1>3, <1>6 DEF Working, GoalMet, Served, Ready
    <3>2. Ended(k) => Ended(k)'
      BY <1>3, <1>6 DEF Ended, Settled, GoalMet, Served
    <3> QED BY <1>2, <1>4, <3>1, <3>2 DEF Match
  <2>2. Types'
    BY <1>1, <1>3, <1>6 DEF Types
  <2> QED BY <1>2, <1>6, <2>1, <2>2 DEF IInv, Tracked, AtRest
<1>7. Working(k) \/ Ended(k)
  BY <1>2, <1>4 DEF Match
<1>8. CASE ReceiveTest
  <2>1. CASE has_int_msg
    <3>1. Ended(k)
      BY <1>7, <2>1 DEF Working
    <3> QED BY <1>5, <1>8, <2>1, <3>1 DEF ReceiveTest, Ended, device
  <2>2. CASE ~ has_int_msg
    BY <1>6, <1>8, <2>2 DEF ReceiveTest, Working, Ended, device
  <2> QED BY <2>1, <2>2
<1>9. CASE ReceiveBlock
  BY <1>6, <1>9 DEF ReceiveBlock, Working, Ended, driver, device
<1>10. CASE i86_flpy_irq
  <2>1. irq /\ irq' = FALSE
    BY <1>10 DEF i86_flpy_irq
  <2>2. Ended(k)
    BY <1>7, <2>1 DEF Working
  <2>3. CASE recv = "blocked"
    BY <1>5, <1>10, <2>1, <2>2, <2>3 DEF i86_flpy_irq, Ended
  <2>4. CASE recv # "blocked"
    BY <1>6, <1>10, <2>1, <2>2, <2>4 DEF i86_flpy_irq, Working
  <2> QED BY <2>3, <2>4
<1> QED BY <1>8, <1>9, <1>10

\* What is known when the controller is working.
LEMMA WorkingOnly ==
  ASSUME NEW k \in Label, Match(k), fdc.phase \in {"starting", "execute"}
  PROVE  k.ctl = "busy" /\ Working(k)
<1>1. ASSUME NEW n \in Label, n.ctl # "busy", Settled(n) PROVE FALSE
  BY <1>1 DEF Settled, Label
<1>2. k.ctl = "busy"
  BY <1>1 DEF Match
<1>3. Woken(k) \in Label /\ Woken(k).ctl # "busy"
  BY WokenLabel
<1> QED BY <1>1, <1>2, <1>3 DEF Match, Ended

\* The controller is ready after its reset.
LEMMA StartedStep == IInv /\ Started => IInv'
<1> SUFFICES ASSUME IInv, Started PROVE IInv'
  OBVIOUS
<1>1. Types /\ fdc \in Fdc
  BY DEF IInv, Types
<1>2. PICK k \in Label, r \in Label : Path(todo, k, r) /\ AtRest(r) /\ Match(k)
  BY DEF IInv, Tracked
<1>3. /\ fdc.phase = "starting" /\ Raises /\ fdc' = [fdc EXCEPT !.phase = "idle", !.senses = 4]
      /\ UNCHANGED <<todo, tries, cyl, job, answer, has_int_msg, recv, dor, dma, buffer>>
  BY DEF Started, driver
<1>4. k.ctl = "busy" /\ Working(k)
  BY <1>2, <1>3, WorkingOnly
<1>5. k.bytes = <<>> /\ fdc.bytes = <<>> /\ dor = 12 /\ k.goal = "install" /\ ~ has_int_msg
  BY <1>3, <1>4 DEF Working
<1>6. irq' = TRUE
  BY <1>3, <1>5, Bits DEF Raises
<1>7. fdc' = [phase |-> "idle", bytes |-> fdc.bytes, results |-> fdc.results, senses |-> 4, pcn |-> fdc.pcn]
  <2>1. fdc = [phase |-> fdc.phase, bytes |-> fdc.bytes, results |-> fdc.results, senses |-> fdc.senses,
               pcn |-> fdc.pcn]
    BY <1>1 DEF Fdc
  <2> QED BY <1>3, <2>1
<1>8. fdc' \in Fdc
  BY <1>1, <1>7 DEF Fdc
<1>9. fdc'.phase = "idle" /\ fdc'.bytes = <<>> /\ fdc'.senses = 4
  BY <1>5, <1>7
<1> DEFINE w == Woken(k)
<1>10. /\ w.ctl = "idle" /\ w.bytes = <<>> /\ w.left = 0 /\ w.senses = 4 /\ w.sure = FALSE
       /\ w.dor = k.dor /\ w.dma = k.dma /\ w.job = k.job /\ w.goal = "install"
  BY <1>5 DEF Woken, Lb
<1> HIDE DEF w
<1>11. Settled(w)'
  BY <1>3, <1>4, <1>9, <1>10 DEF Settled, Working, GoalMet
<1>12. Match(k)'
  BY <1>3, <1>4, <1>5, <1>6, <1>11 DEF Match, Ended, w
<1>13. Types'
  BY <1>1, <1>3, <1>6, <1>8 DEF Types
<1> QED BY <1>2, <1>3, <1>12, <1>13 DEF IInv, Tracked, AtRest

\* The head has moved, to whatever cylinder.
LEMMA MovedStep == \A c \in Cylinder : IInv /\ Moved(c) => IInv'
<1> SUFFICES ASSUME NEW c \in Cylinder, IInv, Moved(c) PROVE IInv'
  OBVIOUS
<1>1. Types /\ fdc \in Fdc
  BY DEF IInv, Types
<1>2. PICK k \in Label, r \in Label : Path(todo, k, r) /\ AtRest(r) /\ Match(k)
  BY DEF IInv, Tracked
<1>3. /\ fdc.phase = "execute" /\ fdc.bytes[1] % 32 \in {SEEK, CALIBRATE} /\ Raises
      /\ fdc' = [fdc EXCEPT !.phase = "idle", !.bytes = <<>>, !.senses = 1, !.pcn = c]
      /\ UNCHANGED <<todo, tries, cyl, job, answer, has_int_msg, recv, dor, dma, buffer>>
  BY DEF Moved, driver, Command
<1>4. k.ctl = "busy" /\ Working(k)
  BY <1>2, <1>3, WorkingOnly
<1>5. /\ k.bytes # <<>> /\ fdc.bytes = k.bytes /\ dor = 28 /\ ~ has_int_msg
      /\ k.bytes[1] % 32 # READ_SECT /\ k.goal \in {"install", "seek"}
  BY <1>3, <1>4, Commands DEF Working
<1>6. irq' = TRUE
  BY <1>3, <1>5, Bits DEF Raises
<1>7. fdc' = [phase |-> "idle", bytes |-> <<>>, results |-> fdc.results, senses |-> 1, pcn |-> c]
  <2>1. fdc = [phase |-> fdc.phase, bytes |-> fdc.bytes, results |-> fdc.results, senses |-> fdc.senses,
               pcn |-> fdc.pcn]
    BY <1>1 DEF Fdc
  <2> QED BY <1>3, <2>1
<1>8. fdc' \in Fdc
  BY <1>1, <1>7 DEF Fdc
<1>9. fdc'.phase = "idle" /\ fdc'.bytes = <<>> /\ fdc'.senses = 1
  BY <1>7
<1> DEFINE w == Woken(k)
<1>10. /\ w.ctl = "idle" /\ w.bytes = <<>> /\ w.left = 0 /\ w.senses = 1 /\ w.sure = FALSE
       /\ w.dor = k.dor /\ w.dma = k.dma /\ w.job = k.job /\ w.goal = k.goal
  BY <1>5 DEF Woken, Lb
<1> HIDE DEF w
<1>11. Settled(w)'
  BY <1>3, <1>4, <1>5, <1>9, <1>10 DEF Settled, Working, GoalMet
<1>12. Match(k)'
  BY <1>3, <1>4, <1>5, <1>6, <1>11 DEF Match, Ended, w
<1>13. Types'
  BY <1>1, <1>3, <1>6, <1>8 DEF Types
<1> QED BY <1>2, <1>3, <1>12, <1>13 DEF IInv, Tracked, AtRest

\* The sector that is read is the one asked for.
LEMMA ReadStep == IInv /\ ReadDone => IInv'
<1> SUFFICES ASSUME IInv, ReadDone PROVE IInv'
  OBVIOUS
<1>1. Types /\ fdc \in Fdc /\ job \in Lba \cup {-1}
  BY DEF IInv, Types
<1>2. PICK k \in Label, r \in Label : Path(todo, k, r) /\ AtRest(r) /\ Match(k)
  BY DEF IInv, Tracked
<1>3. /\ fdc.phase = "execute" /\ fdc.bytes[1] % 32 = READ_SECT /\ Raises
      /\ buffer' = IF Ready(dma) /\ Bit(dor, 4) /\ fdc.bytes[3] = fdc.pcn /\ fdc.bytes[5] <= fdc.bytes[7]
                   THEN [track |-> fdc.bytes[3], head |-> fdc.bytes[4], sector |-> fdc.bytes[5]]
                   ELSE buffer
      /\ fdc' = [fdc EXCEPT !.phase = "result", !.bytes = <<>>, !.results = [i \in 1 .. 7 |-> 0]]
      /\ UNCHANGED <<todo, tries, cyl, job, answer, has_int_msg, recv, dor, dma>>
  BY DEF ReadDone, driver, Command
<1>4. k.ctl = "busy" /\ Working(k)
  BY <1>2, <1>3, WorkingOnly
<1>5. /\ k.bytes # <<>> /\ fdc.bytes = k.bytes /\ dor = 28 /\ ~ has_int_msg /\ k.goal = "found"
      /\ k.bytes = ReadBytes(flpydsk_lba_to_chs(job)) /\ Ready(dma) /\ k.bytes[1] % 32 = READ_SECT
  BY <1>3, <1>4, Commands DEF Working
<1> DEFINE at == flpydsk_lba_to_chs(job)
<1>6. job \in Lba /\ fdc.pcn = at.track /\ at \in Chs
  BY <1>4, <1>5, ChsNamesSector DEF Working, GoalMet
<1> HIDE DEF at
<1>7. buffer' = at
  <2>1. fdc.bytes[3] = at.track /\ fdc.bytes[4] = at.head /\ fdc.bytes[5] = at.sector
        /\ fdc.bytes[7] = LastSector(at.sector)
    BY <1>5 DEF ReadBytes, at
  <2>2. at.sector <= LastSector(at.sector)
    BY <1>6, FlpyAssumption DEF Chs, LastSector
  <2>3. at = [track |-> at.track, head |-> at.head, sector |-> at.sector]
    BY <1>6 DEF Chs
  <2> QED BY <1>3, <1>5, <1>6, <2>1, <2>2, <2>3, Bits
<1>8. irq' = TRUE
  BY <1>3, <1>5, Bits DEF Raises
<1> DEFINE zeros == [i \in 1 .. 7 |-> 0]
<1>9. zeros \in Seq(Byte) /\ Len(zeros) = 7
  <2>1. zeros \in [1 .. 7 -> Byte] /\ 7 \in Nat
    BY DEF Byte
  <2> HIDE DEF zeros
  <2>2. ASSUME NEW j \in Nat, zeros \in [1 .. j -> Byte] PROVE zeros \in Seq(Byte) /\ Len(zeros) = j
    BY <2>2, FunctionIsSeq
  <2> QED BY <2>1, <2>2
<1>10. fdc' = [phase |-> "result", bytes |-> <<>>, results |-> zeros, senses |-> fdc.senses, pcn |-> fdc.pcn]
  <2>1. fdc = [phase |-> fdc.phase, bytes |-> fdc.bytes, results |-> fdc.results, senses |-> fdc.senses,
               pcn |-> fdc.pcn]
    BY <1>1 DEF Fdc
  <2>2. fdc' = [fdc EXCEPT !.phase = "result", !.bytes = <<>>, !.results = zeros]
    BY <1>3
  <2> HIDE DEF zeros
  <2> QED BY <2>1, <2>2
<1> HIDE DEF zeros
<1>11. fdc' \in Fdc
  BY <1>1, <1>9, <1>10 DEF Fdc
<1>12. fdc'.phase = "result" /\ fdc'.bytes = <<>> /\ fdc'.senses = fdc.senses /\ Len(fdc'.results) = 7
  BY <1>9, <1>10
<1> DEFINE w == Woken(k)
<1>13. /\ w.ctl = "result" /\ w.bytes = <<>> /\ w.left = 7 /\ w.senses = 0 /\ w.sure = FALSE
       /\ w.dor = k.dor /\ w.dma = k.dma /\ w.job = k.job /\ w.goal = "got"
  BY <1>5 DEF Woken, Lb
<1> HIDE DEF w
<1>14. GoalMet(w.goal)'
  BY <1>3, <1>6, <1>7, <1>13 DEF GoalMet, at
<1>15. job' = w.job /\ dor' = w.dor /\ dma' = w.dma /\ fdc'.senses = w.senses /\ fdc'.bytes = w.bytes
  BY <1>3, <1>4, <1>12, <1>13 DEF Working
<1>16. Settled(w)'
  BY <1>12, <1>13, <1>14, <1>15 DEF Settled
<1>17. Match(k)'
  BY <1>3, <1>4, <1>5, <1>8, <1>16 DEF Match, Ended, w
<1>18. Types'
  BY <1>1, <1>3, <1>6, <1>7, <1>8, <1>11 DEF Types
<1> QED BY <1>2, <1>3, <1>17, <1>18 DEF IInv, Tracked, AtRest

\* An idle label is what it is made of.
LEMMA IdleLabel ==
  ASSUME NEW k \in Label, k.ctl = "idle", k.bytes = <<>>, k.left = 0, k.senses = 0
  PROVE  k = Idle(0, k.sure, k.dor, k.dma, k.job, k.goal)
BY DEF Label, Idle, Lb

\* A test: the driver is idle, and its rest is a path from the label after it.
LEMMA TestTakes ==
  ASSUME IInv, todo # <<>>, Head(todo).op \in {"calibrated", "sought", "reply", "fail"}
  PROVE  /\ Tail(todo) \in Seq(Op)
         /\ \E k \in Label, m \in Label, r \in Label :
              /\ TestStep(k, Head(todo), m) /\ k.goal # "over" /\ Path(Tail(todo), m, r) /\ AtRest(r)
              /\ Settled(k) /\ Quiet
              /\ k = Idle(0, k.sure, k.dor, k.dma, k.job, k.goal)
<1>1. todo \in Seq(Op)
  BY DEF IInv, Types
<1>2. PICK k \in Label, r \in Label : Path(todo, k, r) /\ AtRest(r) /\ Match(k)
  BY DEF IInv, Tracked
<1>3. PICK m \in Label : Steps(k, Head(todo), m) /\ Path(Tail(todo), m, r)
  BY <1>1, <1>2, PathFirst
<1>4. TestStep(k, Head(todo), m) /\ k.goal # "over"
  BY <1>3 DEF Steps, DorStep, PortStep, FifoStep, InStep, WaitStep
<1>5. Settled(k) /\ Quiet
  BY <1>2, <1>4 DEF Match, TestStep
<1>6. k.bytes = <<>> /\ k.left = 0
  BY <1>4, <1>5 DEF Settled, TestStep
<1>7. k = Idle(0, k.sure, k.dor, k.dma, k.job, k.goal)
  BY <1>4, <1>6, IdleLabel DEF TestStep
<1>8. Tail(todo) \in Seq(Op)
  BY <1>1
<1> QED BY <1>2, <1>3, <1>4, <1>5, <1>7, <1>8

\* A request that is over has nothing after it.
LEMMA OverEnds ==
  ASSUME NEW ops \in Seq(Op), NEW m \in Label, NEW r, m.goal = "over", Path(ops, m, r)
  PROVE  ops = <<>> /\ m = r
<1>1. ops = <<>>
  <2>1. SUFFICES ASSUME ops # <<>> PROVE FALSE
    OBVIOUS
  <2>2. PICK n \in Label : Steps(m, Head(ops), n)
    BY <2>1, PathFirst
  <2> QED BY <2>2 DEF Steps
<1>2. m = r
  BY <1>1 DEF Path
<1> QED BY <1>1, <1>2

\* The driver has calibrated the drive, or tries once more.
LEMMA CalibratedStep == IInv /\ Calibrated => IInv'
<1> SUFFICES ASSUME IInv, Calibrated PROVE IInv'
  OBVIOUS
<1>1. /\ todo # <<>> /\ Head(todo).op = "calibrated" /\ Types
      /\ UNCHANGED <<cyl, job, answer, has_int_msg, recv, irq, dor, fdc, dma, buffer>>
  BY DEF Calibrated, Doing, NextOp, device, IInv
<1>2. PICK k \in Label, m \in Label, r \in Label :
        /\ TestStep(k, Head(todo), m) /\ Path(Tail(todo), m, r) /\ AtRest(r)
        /\ Settled(k) /\ Quiet
        /\ k = Idle(0, k.sure, k.dor, k.dma, k.job, k.goal)
  BY <1>1, TestTakes
<1>3. /\ k.ctl = "idle" /\ k.goal = "install" /\ k.dor = 28 /\ k.sure
      /\ m = Lb("idle", <<>>, 0, 0, TRUE, 4, k.dma, k.job, "install")
  BY <1>1, <1>2 DEF TestStep
<1>4. k.sure = TRUE /\ k.sure \in BOOLEAN /\ k.dma \in Dma /\ k.job \in Lba \cup {-1}
  BY <1>3 DEF Label
<1>5. k = Idle(0, TRUE, 28, k.dma, k.job, "install") /\ m = Idle(0, TRUE, 4, k.dma, k.job, "install")
  BY <1>2, <1>3, <1>4 DEF Idle
<1>6. 28 \in Byte /\ "install" \in Goal /\ "install" # "over"
  BY DEF Byte, Goal
<1>7. Goes(flpydsk_control_motor(FALSE), k, m)
  BY <1>4, <1>5, <1>6, MotorGoes
<1>8. Goes(Calibrate, k, m)
  BY <1>4, <1>5, CalibrateGoes
<1>9. \E ops : Goes(ops, k, m) /\ todo' = ops \o Tail(todo) /\ tries' \in 1 .. Tries
  <2>1. CASE cyl = 0 \/ tries = 1
    <3>1. todo' = flpydsk_control_motor(FALSE) \o Tail(todo) /\ tries' = tries
      BY <2>1 DEF Calibrated, Then
    <3> QED BY <1>1, <1>7, <3>1 DEF Types
  <2>2. CASE ~ (cyl = 0 \/ tries = 1)
    <3>1. todo' = Calibrate \o Tail(todo) /\ tries' = tries - 1
      BY <2>2 DEF Calibrated, Then
    <3>2. tries - 1 \in 1 .. Tries
      BY <1>1, <2>2, FlpyAssumption DEF Types
    <3> QED BY <1>8, <3>1, <3>2
  <2> QED BY <2>1, <2>2
<1>10. todo' \in Seq(Op) /\ Path(todo', k, r)
  <2>1. Goes(Tail(todo), m, r)
    BY <1>1, <1>2, TestTakes DEF Goes
  <2> QED BY <1>9, <2>1, GoesJoin DEF Goes
<1>11. Settled(k)'
  BY <1>1, <1>2, <1>3 DEF Settled, GoalMet
<1>12. Match(k)'
  BY <1>1, <1>2, <1>3, <1>11 DEF Match, Quiet
<1>13. Types'
  BY <1>1, <1>9, <1>10 DEF Types
<1> QED BY <1>2, <1>10, <1>12, <1>13 DEF IInv, Tracked, AtRest

\* The driver has found the cylinder, tries once more, or gives up.
LEMMA SoughtStep == IInv /\ Sought => IInv'
<1> SUFFICES ASSUME IInv, Sought PROVE IInv'
  OBVIOUS
<1>1. /\ todo # <<>> /\ Head(todo).op = "sought" /\ Types
      /\ UNCHANGED <<cyl, job, answer, has_int_msg, recv, irq, dor, fdc, dma, buffer>>
  BY DEF Sought, Doing, NextOp, device, IInv
<1>2. PICK k \in Label, m \in Label, r \in Label :
        /\ TestStep(k, Head(todo), m) /\ Path(Tail(todo), m, r) /\ AtRest(r)
        /\ Settled(k) /\ Quiet
        /\ k = Idle(0, k.sure, k.dor, k.dma, k.job, k.goal)
  BY <1>1, TestTakes
<1>3. /\ k.ctl = "idle" /\ k.goal = "seek" /\ k.dor = 28 /\ k.sure /\ k.senses = 0
      /\ m = Lb("idle", <<>>, 0, 0, FALSE, k.dor, k.dma, k.job, "over")
  BY <1>1, <1>2 DEF TestStep
<1>4. k.sure = TRUE /\ k.sure \in BOOLEAN /\ k.dma \in Dma
  BY <1>3 DEF Label
<1>5. job = k.job /\ job \in Lba /\ dor = 28 /\ dma = k.dma /\ cyl = fdc.pcn /\ fdc.phase = "idle"
      /\ fdc.senses = 0 /\ fdc.bytes = <<>>
  BY <1>2, <1>3 DEF Settled, GoalMet
<1> DEFINE at == flpydsk_lba_to_chs(k.job)
<1>6. /\ k = Idle(0, TRUE, 28, k.dma, k.job, "seek")
      /\ m = Idle(0, FALSE, 28, k.dma, k.job, "over") /\ m.goal = "over" /\ m.ctl = "idle" /\ m.senses = 0
  BY <1>2, <1>3, <1>4, <1>5 DEF Idle, Lb
<1>7. Tail(todo) = <<>> /\ r = m
  <2>1. Tail(todo) \in Seq(Op)
    BY <1>1, TestTakes
  <2> QED BY <1>2, <1>6, <2>1, OverEnds
<1>8. at.track \in Nat /\ at.head \in Nat
  BY <1>5, ChsNamesSector, FlpyAssumption DEF Chs, Cylinder
<1>9. /\ "seek" \in Goal /\ "found" \in Goal /\ "failed" \in Goal /\ "over" \in Goal
      /\ 28 \in Byte /\ 4 \in Byte /\ TRUE \in BOOLEAN /\ k.job \in Lba /\ k.job \in Lba \cup {-1}
  BY <1>5 DEF Goal, Byte
<1>10. CASE cyl = at.track
  <2> DEFINE ops == flpydsk_read_sector_imp(at) \o flpydsk_control_motor(FALSE) \o <<Do("reply")>>
             n == Idle(0, TRUE, 28, k.dma, k.job, "found")
  <2>1. todo' = ops \o Tail(todo) /\ tries' = tries
    BY <1>5, <1>10 DEF Sought, Then
  <2>2. PICK d \in Dma : Goes(ops, n, Idle(0, FALSE, 4, d, k.job, "over"))
    BY <1>4, <1>5, <1>9, FoundGoes
  <2> DEFINE e == Idle(0, FALSE, 4, d, k.job, "over")
  <2>3. e \in Label /\ AtRest(e)
    BY <1>9 DEF Idle, Lb, Label, AtRest
  <2>4. /\ n \in Label /\ n.ctl = "idle" /\ n.bytes = <<>> /\ n.left = 0 /\ n.senses = 0 /\ n.sure = TRUE
        /\ n.dor = 28 /\ n.dma = k.dma /\ n.job = k.job /\ n.goal = "found"
    BY <1>4, <1>5, <1>9 DEF Idle, Lb, Label
  <2> HIDE DEF n, e, ops
  <2>5. todo' = ops
    BY <1>7, <2>1, <2>2, Popped DEF Goes
  <2>6. todo' \in Seq(Op) /\ Path(todo', n, e)
    BY <2>2, <2>5 DEF Goes, e
  <2>7. GoalMet(n.goal)'
    BY <1>1, <1>5, <1>10, <2>4 DEF GoalMet, at
  <2>8. Settled(n)'
    BY <1>1, <1>5, <2>4, <2>7 DEF Settled
  <2>9. Match(n)'
    BY <1>1, <1>2, <2>4, <2>8 DEF Match, Quiet
  <2>10. Types'
    BY <1>1, <2>1, <2>6 DEF Types
  <2> QED BY <2>3, <2>4, <2>6, <2>9, <2>10 DEF IInv, Tracked, AtRest
<1>11. CASE cyl # at.track /\ tries = 1
  <2> DEFINE n == Idle(0, TRUE, 28, k.dma, k.job, "failed")
  <2>1. todo' = <<Do("fail")>> \o Tail(todo) /\ tries' = tries
    BY <1>5, <1>11 DEF Sought, Then
  <2>2. Do("fail") \in Op /\ Do("fail").op = "fail"
    BY DEF Do, Op
  <2>3. Goes(<<Do("fail")>>, n, m)
    BY <1>4, <1>6, <1>9, <2>2, TestGoes
  <2>4. AtRest(m)
    BY <1>6 DEF AtRest
  <2>5. /\ n \in Label /\ n.ctl = "idle" /\ n.bytes = <<>> /\ n.left = 0 /\ n.senses = 0 /\ n.sure = TRUE
        /\ n.dor = 28 /\ n.dma = k.dma /\ n.job = k.job /\ n.goal = "failed"
    BY <1>4, <1>5, <1>9 DEF Idle, Lb, Label
  <2> HIDE DEF n
  <2>6. todo' = <<Do("fail")>>
    BY <1>7, <2>1, <2>3, Popped DEF Goes
  <2>7. todo' \in Seq(Op) /\ Path(todo', n, m)
    BY <2>3, <2>6 DEF Goes
  <2>8. GoalMet(n.goal)'
    BY <1>1, <1>5, <1>11, <2>1, <2>5 DEF GoalMet, at
  <2>9. Settled(n)'
    BY <1>1, <1>5, <2>5, <2>8 DEF Settled
  <2>10. Match(n)'
    BY <1>1, <1>2, <2>5, <2>9 DEF Match, Quiet
  <2>11. Types'
    BY <1>1, <2>1, <2>7 DEF Types
  <2> QED BY <1>7, <2>4, <2>5, <2>7, <2>10, <2>11 DEF IInv, Tracked, AtRest
<1>12. CASE cyl # at.track /\ tries # 1
  <2>1. todo' = Seek(at.track, at.head) \o Tail(todo) /\ tries' = tries - 1
    BY <1>5, <1>12 DEF Sought, Then
  <2>2. Goes(Seek(at.track, at.head), k, m)
    <3>1. ASSUME NEW c \in Nat, NEW h \in Nat
          PROVE  Goes(Seek(c, h), Idle(0, TRUE, 28, k.dma, k.job, "seek"), Idle(0, FALSE, 28, k.dma, k.job, "over"))
      BY <1>4, <1>9, SeekGoes
    <3> HIDE DEF at
    <3> QED BY <1>6, <1>8, <3>1
  <2>3. todo' = Seek(at.track, at.head)
    BY <1>7, <2>1, <2>2, Popped DEF Goes
  <2>4. todo' \in Seq(Op) /\ Path(todo', k, m)
    BY <2>2, <2>3 DEF Goes
  <2>5. Settled(k)'
    BY <1>1, <1>2, <1>3 DEF Settled, GoalMet
  <2>6. Match(k)'
    BY <1>1, <1>2, <1>3, <2>5 DEF Match, Quiet
  <2>7. tries - 1 \in 1 .. Tries
    BY <1>1, <1>12, FlpyAssumption DEF Types
  <2>8. Types'
    BY <1>1, <2>1, <2>4, <2>7 DEF Types
  <2> QED BY <1>2, <1>7, <2>4, <2>6, <2>8 DEF IInv, Tracked, AtRest
<1> QED BY <1>10, <1>11, <1>12

\* The client is answered: with the sector it asked for, or with nothing when
\* the last attempt has missed the cylinder.
LEMMA ReplyStep == IInv /\ Reply => IInv'
<1> SUFFICES ASSUME IInv, Reply PROVE IInv'
  OBVIOUS
<1>1. /\ todo # <<>> /\ Head(todo).op \in {"reply", "fail"} /\ Types /\ todo \in Seq(Op)
      /\ answer' = IF Head(todo).op = "reply" THEN buffer ELSE Nothing
      /\ Then(<<>>)
      /\ UNCHANGED <<tries, cyl, job, has_int_msg, recv, irq, dor, fdc, dma, buffer>>
  BY DEF Reply, Doing, NextOp, device, IInv, Types
<1>2. PICK k \in Label, m \in Label, r \in Label :
        /\ TestStep(k, Head(todo), m) /\ Path(Tail(todo), m, r) /\ AtRest(r)
        /\ Settled(k) /\ Quiet
        /\ k = Idle(0, k.sure, k.dor, k.dma, k.job, k.goal)
  BY <1>1, TestTakes
<1>3. /\ k.ctl = "idle" /\ k.senses = 0 /\ k.goal # "over"
      /\ Head(todo).op = "reply" => k.goal = "got"
      /\ Head(todo).op = "fail" => k.goal = "failed"
      /\ m = Lb("idle", <<>>, 0, 0, FALSE, k.dor, k.dma, k.job, "over")
  BY <1>1, <1>2 DEF TestStep
<1>4. /\ m.ctl = "idle" /\ m.bytes = <<>> /\ m.left = 0 /\ m.senses = 0 /\ m.sure = FALSE
      /\ m.job = k.job /\ m.goal = "over"
  BY <1>3 DEF Lb
<1>5. todo' = Tail(todo) /\ todo' \in Seq(Op)
  <2>1. Tail(todo) \in Seq(Op)
    BY <1>1
  <2> QED BY <1>1, <2>1, Popped DEF Then
<1>6. job \in Lba /\ job = k.job
  BY <1>1, <1>2, <1>3 DEF Settled, GoalMet
<1>7. Served'
  <2>1. CASE Head(todo).op = "reply"
    <3>1. answer' = flpydsk_lba_to_chs(job)
      BY <1>1, <1>2, <1>3, <2>1 DEF Settled, GoalMet
    <3>2. answer' # Nothing
      BY <1>6, <3>1, ChsNamesSector DEF Chs, Nothing
    <3>3. LbaOf(answer') = job
      BY <1>6, <3>1, ChsNamesSector
    <3> QED BY <1>1, <3>2, <3>3 DEF Served, LbaOf
  <2>2. CASE Head(todo).op = "fail"
    <3>1. tries = 1 /\ cyl # flpydsk_lba_to_chs(job).track
      BY <1>2, <1>3, <2>2 DEF Settled, GoalMet
    <3>2. answer' = Nothing
      BY <1>1, <2>2
    <3> QED BY <1>1, <3>1, <3>2 DEF Served
  <2> QED BY <1>1, <2>1, <2>2
<1>8. answer' \in Chs \cup {Nothing}
  BY <1>1 DEF Types
<1>9. Settled(m)'
  <2>1. GoalMet(m.goal)'
    BY <1>4, <1>7 DEF GoalMet
  <2> QED BY <1>1, <1>2, <1>3, <1>4, <1>6, <2>1 DEF Settled
<1>10. Match(m)'
  BY <1>1, <1>2, <1>4, <1>9 DEF Match, Quiet
<1>11. Types'
  BY <1>1, <1>5, <1>8 DEF Types
<1> QED BY <1>2, <1>5, <1>10, <1>11 DEF IInv, Tracked, AtRest

\* A request is taken when the driver is at rest.
LEMMA RequestStep == \A lba \in Lba : IInv /\ Request(lba) => IInv'
<1> SUFFICES ASSUME NEW lba \in Lba, IInv, Request(lba) PROVE IInv'
  OBVIOUS
<1>1. /\ todo = <<>> /\ job' = lba /\ tries' = Tries /\ answer' = Nothing /\ Types
      /\ UNCHANGED <<cyl, has_int_msg, recv, irq, dor, fdc, dma, buffer>>
  BY DEF Request, device, IInv
<1>2. PICK k \in Label, r \in Label : Path(todo, k, r) /\ AtRest(r) /\ Match(k)
  BY DEF IInv, Tracked
<1>3. k = r /\ k.ctl = "idle" /\ k.senses = 0
  BY <1>1, <1>2 DEF Path, AtRest
<1>4. Settled(k) /\ Quiet
  BY <1>2, <1>3 DEF Match
<1>5. fdc.phase = "idle" /\ fdc.senses = 0 /\ fdc.bytes = <<>>
  BY <1>3, <1>4 DEF Settled
<1> DEFINE at == flpydsk_lba_to_chs(lba)
<1>6. at.track \in Nat /\ at.head \in Nat
  BY ChsNamesSector, FlpyAssumption DEF Chs, Cylinder
<1>7. /\ 0 \in 0 .. 4 /\ FALSE \in BOOLEAN /\ 28 \in Byte /\ "seek" \in Goal /\ "seek" # "over"
      /\ "over" \in Goal /\ lba \in Lba \cup {-1}
  BY DEF Byte, Goal
<1>8. PICK dr \in Byte, ch \in Dma : dr = dor /\ ch = dma
  BY <1>1 DEF Types
<1> DEFINE n == Idle(0, FALSE, dr, ch, lba, "seek")
           on == Idle(0, FALSE, 28, ch, lba, "seek")
           e == Idle(0, FALSE, 28, ch, lba, "over")
<1>9. Goes(flpydsk_control_motor(TRUE), n, on)
  BY <1>7, MotorGoes
<1>10. Goes(Seek(at.track, at.head), on, e)
  <2>1. ASSUME NEW c \in Nat, NEW h \in Nat PROVE Goes(Seek(c, h), on, e)
    BY <1>7, SeekGoes
  <2> HIDE DEF at, on, e
  <2> QED BY <1>6, <2>1
<1>11. todo' = flpydsk_control_motor(TRUE) \o Seek(at.track, at.head)
  BY DEF Request
<1>12. e \in Label /\ AtRest(e)
  BY <1>7 DEF Idle, Lb, Label, AtRest
<1>13. /\ n \in Label /\ n.ctl = "idle" /\ n.bytes = <<>> /\ n.left = 0 /\ n.senses = 0 /\ n.sure = FALSE
       /\ n.dor = dr /\ n.dma = ch /\ n.job = lba /\ n.goal = "seek"
  BY <1>7 DEF Idle, Lb, Label
<1> HIDE DEF n, on, e, at
<1>14. todo' \in Seq(Op) /\ Path(todo', n, e)
  BY <1>9, <1>10, <1>11, GoesJoin DEF Goes
<1>15. Settled(n)'
  BY <1>1, <1>5, <1>8, <1>13 DEF Settled, GoalMet
<1>16. Match(n)'
  BY <1>1, <1>4, <1>13, <1>15 DEF Match, Quiet
<1>17. Types'
  <2>1. Tries \in 1 .. Tries
    BY FlpyAssumption
  <2> QED BY <1>1, <1>14, <2>1 DEF Types
<1> QED BY <1>12, <1>13, <1>14, <1>16, <1>17 DEF IInv, Tracked

\* Steps that leave the driver and its device alone.
LEMMA Stuttering == IInv /\ UNCHANGED vars => IInv'
<1> SUFFICES ASSUME IInv, UNCHANGED vars PROVE IInv'
  OBVIOUS
<1>1. UNCHANGED <<todo, tries, cyl, job, answer, has_int_msg, recv, irq, dor, fdc, dma, buffer>>
  BY DEF vars, driver, device
<1>2. Types'
  BY <1>1 DEF IInv, Types
<1>3. PICK k \in Label, r \in Label : Path(todo, k, r) /\ AtRest(r) /\ Match(k)
  BY DEF IInv, Tracked
<1>4. \A n \in Label : Settled(n) => Settled(n)'
  BY <1>1 DEF Settled, GoalMet, Served
<1>5. Quiet => Quiet'
  BY <1>1 DEF Quiet
<1>6. Working(k) => Working(k)'
  BY <1>1 DEF Working, GoalMet, Served, Ready
<1>7. Ended(k) => Ended(k)'
  BY <1>1, <1>4, WokenLabel DEF Ended
<1>8. Match(k)'
  BY <1>3, <1>4, <1>5, <1>6, <1>7 DEF Match
<1> QED BY <1>1, <1>2, <1>3, <1>8 DEF IInv, Tracked, AtRest

\* The driver is always on a path to its next rest, and the device is as the
\* first label of that path says.
LEMMA Inductive == Spec => []IInv
<1>1. Init => IInv
  BY TypesInit, TrackedInit DEF IInv
<1>2. IInv /\ [Next]_vars => IInv'
  <2> SUFFICES ASSUME IInv, [Next]_vars PROVE IInv'
    OBVIOUS
  <2>1. CASE Thread
    BY <2>1, OutStep, InSteps, WaitSteps, CalibratedStep, SoughtStep, ReplyStep DEF Thread
  <2>2. CASE i86_flpy_irq
    BY <2>2, WaitSteps
  <2>3. CASE Controller
    BY <2>3, StartedStep, MovedStep, ReadStep DEF Controller
  <2>4. CASE \E lba \in Lba : Request(lba)
    BY <2>4, RequestStep
  <2>5. CASE UNCHANGED vars
    BY <2>5, Stuttering
  <2> QED BY <2>1, <2>2, <2>3, <2>4, <2>5 DEF Next
<1> QED BY <1>1, <1>2, PTL DEF Spec

-----------------------------------------------------------------------------
\* The driver's variables, the registers and the state of the controller stay
\* in their types: no cylinder but one of the disk, never more than four
\* interrupts to be sensed, and an attempt is left whenever a loop of
\* flpydsk_seek() or flpydsk_calibrate() is in progress.
THEOREM TypeCorrect == Spec => []TypeOK
<1>1. IInv => TypeOK
  <2> SUFFICES ASSUME Types PROVE TypeOK
    BY DEF IInv
  <2>1. \A i \in DOMAIN todo : todo[i].op \in {"out", "in", "wait", "calibrated", "sought", "reply", "fail"}
    <3>1. \A i \in DOMAIN todo : todo[i] \in Op
      BY DEF Types
    <3> QED BY <3>1 DEF Op
  <2>2. /\ fdc.phase \in {"reset", "starting", "idle", "command", "execute", "result"}
        /\ fdc.senses \in 0 .. 4 /\ fdc.pcn \in Cylinder
        /\ dma.flipflop \in 0 .. 1 /\ dma.masked \in BOOLEAN
    BY DEF Types, Fdc, Dma
  <2> QED BY <2>1, <2>2 DEF Types, TypeOK
<1> QED BY <1>1, Inductive, PTL

\* The driver and the controller never lose step, for every geometry and every
\* number of attempts: no byte of a command is written while the controller
\* cannot take it and none is read while it has none (flpy.cpp:112 and 122 lose
\* it silently), and each wait has an interrupt to come (flpy.cpp:26).
THEOREM InStepWithController == Spec => []PhasesAgree
<1>1. IInv => PhasesAgree
  <2> SUFFICES ASSUME IInv PROVE PhasesAgree
    OBVIOUS
  <2>1. PICK k \in Label, r \in Label : Path(todo, k, r) /\ AtRest(r) /\ Match(k)
    BY DEF IInv, Tracked
  <2>2. ASSUME todo # <<>> PROVE \E m \in Label : Steps(k, Head(todo), m)
    BY <2>1, <2>2, PathFirst DEF IInv, Types
  <2>3. ASSUME Doing("out"), NextOp.port = "fifo" PROVE TakesByte
    <3>1. k.ctl \in {"idle", "bytes"}
      BY <2>2, <2>3 DEF Doing, NextOp, Steps, DorStep, PortStep, FifoStep, InStep, WaitStep, TestStep
    <3> QED BY <2>1, <3>1 DEF Match, Settled, TakesByte
  <2>4. ASSUME Doing("in") PROVE fdc.phase \in {"result", "idle"}
    <3>1. k.ctl \in {"idle", "result"}
      BY <2>2, <2>4 DEF Doing, NextOp, Steps, DorStep, PortStep, FifoStep, InStep, WaitStep, TestStep
    <3> QED BY <2>1, <3>1 DEF Match, Settled
  <2>5. ASSUME Doing("wait") PROVE fdc.phase \in {"starting", "execute"} \/ irq \/ has_int_msg
    <3>1. k.ctl = "busy"
      BY <2>2, <2>5 DEF Doing, NextOp, Steps, DorStep, PortStep, FifoStep, InStep, WaitStep, TestStep
    <3>2. Working(k) \/ Ended(k)
      BY <2>1, <3>1 DEF Match
    <3>3. irq \in BOOLEAN /\ has_int_msg \in BOOLEAN
      BY DEF IInv, Types
    <3> QED BY <3>2, <3>3 DEF Working, Ended
  <2> QED BY <2>3, <2>4, <2>5 DEF PhasesAgree
<1> QED BY <1>1, Inductive, PTL

\* Whenever the controller works, the gate of its interrupt is open, the motor
\* runs, and for a sector channel 2 takes 512 bytes to DMA_BUFFER, although the
\* driver never clears the flip-flop of the channel by itself (flpy.cpp:82-92)
\* and closes the gate with the motor (flpy.cpp:205).
THEOREM ControllerProvided == Spec => []DeviceSet
<1>1. IInv => DeviceSet
  <2> SUFFICES ASSUME IInv, fdc.phase \in {"starting", "execute"}
               PROVE  DeviceSet
    BY DEF DeviceSet
  <2>1. PICK k \in Label : Match(k)
    BY DEF IInv, Tracked
  <2>2. Working(k)
    BY <2>1, WorkingOnly
  <2>3. /\ fdc.phase = "starting" => dor = 12
        /\ fdc.phase = "execute" =>
             dor = 28 /\ (fdc.bytes[1] % 32 = READ_SECT => Ready(dma) /\ dma.flipflop = 0)
    BY <2>2, Commands DEF Working
  <2> QED BY <2>3, Bits DEF DeviceSet, Command
<1> QED BY <1>1, Inductive, PTL

\* Every answer is the sector the client asked for, for every geometry and every
\* sequence of requests; or it is a null pointer, and that only after the last
\* attempt has missed the cylinder (flpy.cpp:386).
THEOREM AnswerIsRight == Spec => []RightSector
<1>1. IInv => RightSector
  <2> SUFFICES ASSUME IInv, todo = <<>>, job # -1
               PROVE  Served
    BY DEF RightSector, Served
  <2>1. PICK k \in Label, r \in Label : Path(todo, k, r) /\ AtRest(r) /\ Match(k)
    BY DEF IInv, Tracked
  <2>2. k = r
    BY <2>1 DEF Path
  <2>3. Settled(k) /\ k.goal \in {"install", "over"}
    BY <2>1, <2>2 DEF AtRest, Match
  <2> QED BY <2>3 DEF Settled, GoalMet
<1> QED BY <1>1, Inductive, PTL

\* A driver that waits for a request leaves no interrupt pending, announced or
\* unsensed, which it would take for one (flpy.cpp:26).
THEOREM NothingPending == Spec => []NoneLeftOver
<1>1. IInv => NoneLeftOver
  <2> SUFFICES ASSUME IInv, todo = <<>>
               PROVE  ~ irq /\ ~ has_int_msg /\ recv = "no" /\ fdc.phase = "idle" /\ fdc.senses = 0
    BY DEF NoneLeftOver
  <2>1. PICK k \in Label, r \in Label : Path(todo, k, r) /\ AtRest(r) /\ Match(k)
    BY DEF IInv, Tracked
  <2>2. k = r
    BY <2>1 DEF Path
  <2> QED BY <2>1, <2>2 DEF AtRest, Match, Settled, Quiet
<1> QED BY <1>1, Inductive, PTL
=============================================================================
