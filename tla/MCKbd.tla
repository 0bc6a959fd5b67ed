------------------------------- MODULE MCKbd -------------------------------
(***************************************************************************)
(* Model checking of Kbd: typists, the two abstractions it implements, and *)
(* what happens when the handler interrupts itself.                        *)
(***************************************************************************)
EXTENDS Kbd, FiniteSets

CONSTANTS
  MaxDown,   \* bound: keys held down at a time
  Typists    \* those a run covers
VARIABLES
  typist,    \* "hurried", "paced" or "nested", chosen at the start
  heard      \* where handlers nest: the codes received and not yet read

(* The keys each typist uses, and the codes these put on the line.         *)
Uses == IF typist = "paced" THEN Key \ {"up"} ELSE {"a", "up"}

Codes(k) == {MakeCode[k]} \cup IF k \in DOMAIN BreakCode THEN {BreakCode[k]} ELSE {}

OwnKeys == line = <<>> /\ line' # <<>> => line' \in UNION {Codes(k) : k \in Uses}

(* The paced typist never has more codes on the way than the ring has room *)
(* for; so has the nested one, where a handler may interrupt another.      *)
Received == Len(acts') > Len(acts)

Room == Received => count + Len(acts) < KB_IN_BYTES

Typing ==
  /\ Next /\ UNCHANGED typist
  /\ OwnKeys /\ Cardinality(down') <= MaxDown
  /\ typist \in {"paced", "nested"} => Room
  /\ heard' = IF typist # "nested" THEN heard
              ELSE IF Received THEN Append(heard, scan_code')
              ELSE IF count' < count THEN Tail(heard) ELSE heard

Start == Init /\ heard = <<>> /\ typist \in Typists
all   == <<vars, typist, heard>>

(***************************************************************************)
(* Fairness: a handler that has begun ends; the keyboard sends what is on  *)
(* the line; the terminal task, which never blocks, is given the processor *)
(* again and again while no handler runs.                                  *)
(***************************************************************************)
NestedSpec == Start /\ [][Typing]_all

TypingSpec ==
  /\ NestedSpec
  /\ WF_vars(keyboard_irq_handler) /\ SF_vars(Typing /\ keyboard_irq) /\ SF_vars(keyboard_read)

\* kbd.cpp:207, "the handler just save received scan code": when no handler
\* runs, the codes in the ring are the codes received and not yet read.
HandlerSaves == acts = <<>> => Waiting = heard

(***************************************************************************)
(* The decoder.  The codes that are anywhere on their way to it, decoded   *)
(* from the state of its flags, give the keys it will still report.        *)
(***************************************************************************)
Coming == got \o Stored \o line

RECURSIVE Reports(_, _, _)
Reports(begun, codes, flags) ==
  IF codes = <<>> THEN <<>>
  ELSE LET now == Append(begun, Head(codes))
           d   == Decoded(now, flags)
       IN  IF Partial(now) THEN Reports(now, Tail(codes), flags)
           ELSE (IF d.make THEN <<[sym |-> d.key, flags |-> d.flags]>> ELSE <<>>)
                  \o Reports(<<>>, Tail(codes), d.flags)

Flags(held) ==
  (IF "shift" \in held THEN {"SHIFT_L"} ELSE {}) \cup
  (IF "ctrl" \in held THEN {"CTRL_L"} ELSE {}) \cup
  (IF "ctrlr" \in held THEN {"CTRL_R"} ELSE {})

Report(k, held) ==
  [sym |-> CASE k = "a" -> IF "shift" \in held THEN "A" ELSE "a"
             [] k = "shift" -> "SHIFT_L" [] k = "ctrl" -> "CTRL_L"
             [] k = "ctrlr" -> "CTRL_R"  [] k = "up" -> "UP",
   flags |-> Flags(held)]

InPace == typist = "paced"

K == INSTANCE KeyStream WITH
       Silent <- {"prtsc", "pause"}, held <- IF InPace THEN down ELSE {},
       typed <- IF InPace THEN Reports(<<>>, Coming, mods) ELSE <<>>,
       last <- IF InPace THEN key ELSE <<>>

\* Every key the paced typist presses is given to in_process() once, in
\* order, with the modifiers held when it was pressed, wherever the
\* interrupts fall.
KeysInOrder == K!Spec

\* keyboard_read() never stays in its busy-wait inside a sequence of codes:
\* the terminal task comes back to its loop and goes on echoing.
DecoderReturns == InPace /\ got # <<>> ~> got = <<>>

=============================================================================
