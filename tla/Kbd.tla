-------------------------------- MODULE Kbd --------------------------------
(***************************************************************************)
(* The keyboard path: the keyboard sends the scan codes of each key that   *)
(* goes down or up, the interrupt handler puts them into the ring kbd_in,  *)
(* and keyboard_read(), called by the terminal task in its loop, takes     *)
(* them out and decodes them into keys for in_process().                   *)
(*                                                                         *)
(* The handler acknowledges the interrupt and enables interrupts before it *)
(* touches the ring, so it can be interrupted by the next scan code; its   *)
(* steps are those of the compiled code (Release/kbd.asm).  The reader     *)
(* takes a code with interrupts disabled, in one step.                     *)
(***************************************************************************)
EXTENDS Integers, Sequences

CONSTANTS
  KB_IN_BYTES,   \* size of the ring
  Key,           \* the keys the typist uses
  MaxNest        \* bound: handlers in progress at a time

(***************************************************************************)
(* Scan codes, as the keyboard sends them.                                 *)
(***************************************************************************)
MakeCode ==
  [a |-> <<\h1E>>, shift |-> <<\h2A>>, ctrl |-> <<\h1D>>, ctrlr |-> <<\hE0, \h1D>>,
   up |-> <<\hE0, \h48>>, prtsc |-> <<\hE0, \h2A, \hE0, \h37>>,
   pause |-> <<\hE1, \h1D, \h45, \hE1, \h9D, \hC5>>]

BreakCode ==
  [a |-> <<\h9E>>, shift |-> <<\hAA>>, ctrl |-> <<\h9D>>, ctrlr |-> <<\hE0, \h9D>>,
   up |-> <<\hE0, \hC8>>, prtsc |-> <<\hE0, \hB7, \hE0, \hAA>>]

Byte == 0 .. 255

ASSUME KbdAssumption ==
  /\ KB_IN_BYTES \in Nat \ {0} /\ MaxNest \in Nat \ {0}
  /\ Key \subseteq DOMAIN MakeCode

VARIABLES
  down,         \* keyboard: the keys that are held down
  line,         \* keyboard: scan codes it has still to send
  scan_code,    \* the global the interrupt reads port 0x60 into
  acts,         \* the handlers in progress, the interrupted ones first
  buf, p_head, p_tail, count,   \* kbd_in
  got,          \* keyboard_read: the codes of the sequence it is in
  mods,         \* shift_l, ctrl_l, ctrl_r, ...: the flags that are set
  key           \* the last key given to in_process(), with its flags

ring == <<buf, p_head, p_tail, count>>
vars == <<down, line, scan_code, acts, ring, got, mods, key>>

(***************************************************************************)
(* The keyboard.  It sends the codes of one key before those of the next;  *)
(* the pause key has no break code.                                        *)
(***************************************************************************)
Keyboard(codes) ==
  /\ line = <<>> /\ line' = codes
  /\ UNCHANGED <<scan_code, acts, ring, got, mods, key>>

Press(k) ==
  /\ k \notin down
  /\ down' = IF k \in DOMAIN BreakCode THEN down \cup {k} ELSE down
  /\ Keyboard(MakeCode[k])

Release(k) ==
  /\ k \in down
  /\ down' = down \ {k}
  /\ Keyboard(BreakCode[k])

(***************************************************************************)
(* The interrupt handler.  keyboard_irq() reads the code and starts        *)
(* keyboard_irq_handler(); at is the next instruction of an activation,    *)
(* ptr and code are its registers.                                         *)
(***************************************************************************)
keyboard_irq ==
  /\ line # <<>> /\ Len(acts) < MaxNest
  /\ scan_code' = Head(line) /\ line' = Tail(line)
  /\ acts' = Append(acts, [at |-> "check", ptr |-> 0, code |-> 0])
  /\ UNCHANGED <<down, ring, got, mods, key>>

Top == acts[Len(acts)]

Handler(at) ==
  /\ acts # <<>> /\ Top.at = at
  /\ UNCHANGED <<down, line, scan_code, p_tail, got, mods, key>>

Becomes(act) == acts' = [acts EXCEPT ![Len(acts)] = act]
Returns      == acts' = SubSeq(acts, 1, Len(acts) - 1)

\* Mutant: one code more than there is room for.
CheckFull ==
  /\ Handler("check")
  /\ IF count <= KB_IN_BYTES THEN Becomes([Top EXCEPT !.at = "load"]) ELSE Returns
  /\ UNCHANGED <<buf, p_head, count>>

CheckRoom ==
  /\ Handler("check")
  /\ IF count < KB_IN_BYTES THEN Becomes([Top EXCEPT !.at = "load"]) ELSE Returns
  /\ UNCHANGED <<buf, p_head, count>>

LoadCode ==
  /\ Handler("load")
  /\ Becomes([at |-> "write", ptr |-> p_head, code |-> scan_code])
  /\ UNCHANGED <<buf, p_head, count>>

\* p_head may stand behind the ring while an interrupted handler has not
\* wrapped it yet; the code is then written behind kbd_in.
WriteCode ==
  /\ Handler("write")
  /\ buf' = IF Top.ptr < KB_IN_BYTES THEN [buf EXCEPT ![Top.ptr] = Top.code] ELSE buf
  /\ Becomes([at |-> "fetch", ptr |-> 0, code |-> 0])
  /\ UNCHANGED <<p_head, count>>

FetchHead ==
  /\ Handler("fetch")
  /\ Becomes([at |-> "store", ptr |-> p_head + 1, code |-> 0])
  /\ UNCHANGED <<buf, p_head, count>>

\* Mutant: the pointer wraps one element too early.
StoreEarly ==
  /\ Handler("store")
  /\ p_head' = Top.ptr
  /\ Becomes([at |-> IF Top.ptr >= KB_IN_BYTES - 1 THEN "wrap" ELSE "count", ptr |-> 0, code |-> 0])
  /\ UNCHANGED <<buf, count>>

StoreHead ==
  /\ Handler("store")
  /\ p_head' = Top.ptr
  /\ Becomes([at |-> IF Top.ptr = KB_IN_BYTES THEN "wrap" ELSE "count", ptr |-> 0, code |-> 0])
  /\ UNCHANGED <<buf, count>>

WrapHead ==
  /\ Handler("wrap")
  /\ p_head' = 0
  /\ Becomes([Top EXCEPT !.at = "count"])
  /\ UNCHANGED <<buf, count>>

CountCode ==
  /\ Handler("count")
  /\ count' = count + 1
  /\ Returns
  /\ UNCHANGED <<buf, p_head>>

keyboard_irq_handler ==
  CheckRoom \/ LoadCode \/ WriteCode \/ FetchHead \/ StoreHead \/ WrapHead \/ CountCode

(***************************************************************************)
(* keyboard_read().  It goes on reading as long as the codes read so far   *)
(* are the beginning of one of three sequences; codes that lead nowhere    *)
(* are swallowed.  Then it decodes: the row of the code in keymap, column  *)
(* 3 after 0xE0, else 2 with a shift key held, else 1.                     *)
(***************************************************************************)
pause_scode == <<\hE1, \h1D, \h45, \hE1, \h9D, \hC5>>
Whole == {pause_scode, <<\hE0, \h2A, \hE0, \h37>>, <<\hE0, \hB7, \hE0, \hAA>>}

\* Mutant: the decoder waits for a code after the last one of a sequence.
PartialLonger(codes) == \E w \in Whole : Len(codes) <= Len(w) /\ SubSeq(w, 1, Len(codes)) = codes

Partial(codes) ==
  \E w \in Whole : Len(codes) < Len(w) /\ SubSeq(w, 1, Len(codes)) = codes

keymap(code) ==
  CASE code = \h1E -> <<"a", "A", "0">>
    [] code = \h2A -> <<"SHIFT_L", "SHIFT_L", "0">>
    [] code = \h1D -> <<"CTRL_L", "CTRL_L", "CTRL_R">>
    [] code = \h48 -> <<"PAD_UP", "8", "UP">>
    [] OTHER       -> <<"0", "0", "0">>

Modifier == {"SHIFT_L", "CTRL_L", "CTRL_R"}

\* Mutant: a code after 0xE0 is taken from the column of a plain one.
ColumnPlain(codes, flags) == IF "SHIFT_L" \in flags THEN 2 ELSE 1

Column(codes, flags) ==
  IF codes[1] = \hE0 THEN 3 ELSE IF "SHIFT_L" \in flags THEN 2 ELSE 1

\* What the whole sequence codes does: nothing, or a key that goes down or up.
Decoded(codes, flags) ==
  LET code == IF codes[1] = \hE0 THEN codes[2] ELSE codes[1]
      sym  == keymap(code % 128)[Column(codes, flags)]
      make == code < 128
      next == IF sym \notin Modifier THEN flags
              ELSE IF make THEN flags \cup {sym} ELSE flags \ {sym}
  IN  IF codes \in Whole THEN [flags |-> flags, make |-> FALSE, key |-> "0"]
                         ELSE [flags |-> next, make |-> make, key |-> sym]

\* Mutant: the reader's pointer wraps one element too late.
ByteWrapsLate ==
  /\ count > 0
  /\ p_tail' = IF p_tail = KB_IN_BYTES THEN 0 ELSE p_tail + 1
  /\ count' = count - 1
  /\ UNCHANGED <<buf, p_head>>

get_byte_from_kbuf ==
  /\ count > 0
  /\ p_tail' = IF p_tail + 1 = KB_IN_BYTES THEN 0 ELSE p_tail + 1
  /\ count' = count - 1
  /\ UNCHANGED <<buf, p_head>>

keyboard_read ==
  /\ acts = <<>>
  /\ get_byte_from_kbuf
  /\ LET codes == Append(got, buf[p_tail])
         d     == Decoded(codes, mods)
     IN  \/ /\ Partial(codes)
            /\ got' = codes /\ UNCHANGED <<mods, key>>
         \/ /\ ~ Partial(codes)
            /\ got' = <<>> /\ mods' = d.flags
            /\ key' = IF d.make THEN [sym |-> d.key, flags |-> d.flags] ELSE key
  /\ UNCHANGED <<down, line, scan_code, acts>>

NoKey == [sym |-> "0", flags |-> {}]

Init ==
  /\ down = {} /\ line = <<>> /\ scan_code = 0 /\ acts = <<>>
  /\ buf = [i \in 0 .. (KB_IN_BYTES - 1) |-> 0]
  /\ p_head = 0 /\ p_tail = 0 /\ count = 0
  /\ got = <<>> /\ mods = {} /\ key = NoKey

Next ==
  \/ \E k \in Key : Press(k) \/ Release(k)
  \/ keyboard_irq \/ keyboard_irq_handler \/ keyboard_read

Spec == Init /\ [][Next]_vars

Activation ==
  [at : {"check", "load", "write", "fetch", "store", "wrap", "count"},
   ptr : Int, code : Byte]

\* Types.  The pointer of the reader never leaves the ring, however deep the
\* handlers nest; that of the handlers does, until the wrap.
TypeOK ==
  /\ down \subseteq Key \cap DOMAIN BreakCode /\ line \in Seq(Byte) /\ scan_code \in Byte
  /\ acts \in Seq(Activation) /\ Len(acts) <= MaxNest
  /\ buf \in [0 .. (KB_IN_BYTES - 1) -> Byte]
  /\ p_head \in Int /\ p_tail \in 0 .. (KB_IN_BYTES - 1) /\ count \in Int
  /\ got \in Seq(Byte) /\ mods \subseteq Modifier

\* The two pointers and the count of kbd_in agree whenever no handler runs:
\* the interrupt and the reader, which move them with no lock in common,
\* leave neither a code lost in the ring nor one that is read twice.
RingShape ==
  acts = <<>> =>
    /\ count \in 0 .. KB_IN_BYTES
    /\ p_head \in 0 .. (KB_IN_BYTES - 1) /\ p_tail \in 0 .. (KB_IN_BYTES - 1)
    /\ p_head - p_tail \in {count, count - KB_IN_BYTES}

(***************************************************************************)
(* The ring implements the abstract queue BoundedFifo.                     *)
(***************************************************************************)
Waiting == [i \in 1 .. count |-> buf[(p_tail + i - 1) % KB_IN_BYTES]]

(* The code a handler is putting into the ring counts as being there.      *)
Stored ==
  IF acts # <<>> /\ count < KB_IN_BYTES THEN Append(Waiting, scan_code) ELSE Waiting

F == INSTANCE BoundedFifo WITH Capacity <- KB_IN_BYTES, source <- line, q <- Stored

\* kbd_in is a bounded queue of scan codes: with one handler at a time, what
\* the keyboard sends is read in order and dropped only when the ring is full.
RingQueue == F!Spec

=============================================================================
