----------------------------- MODULE KbdProofs -----------------------------
(***************************************************************************)
(* Theorems about Kbd, for every size of the ring and every choice of      *)
(* keys: its types, and that with one handler at a time the ring stays     *)
(* well-formed.                                                            *)
(***************************************************************************)
EXTENDS Kbd, SequenceTheorems, TLAPS

(***************************************************************************)
(* The codes the keyboard sends are bytes.                                 *)
(***************************************************************************)
LEMMA CodesAreBytes ==
  /\ \A k \in Key : MakeCode[k] \in Seq(Byte)
  /\ \A k \in DOMAIN BreakCode : BreakCode[k] \in Seq(Byte)
<1>1. \A b \in {\h1D, \h1E, \h2A, \h37, \h45, \h48, \h9D, \h9E, \hAA, \hB7, \hC5, \hC8, \hE0, \hE1} : b \in Byte
  BY DEF Byte
<1>2. ASSUME NEW k \in DOMAIN MakeCode PROVE MakeCode[k] \in Seq(Byte)
  <2>1. MakeCode["a"] \in Seq(Byte)
    BY <1>1 DEF MakeCode
  <2>2. MakeCode["shift"] \in Seq(Byte)
    BY <1>1 DEF MakeCode
  <2>3. MakeCode["ctrl"] \in Seq(Byte)
    BY <1>1 DEF MakeCode
  <2>4. MakeCode["ctrlr"] \in Seq(Byte)
    BY <1>1 DEF MakeCode
  <2>5. MakeCode["up"] \in Seq(Byte)
    BY <1>1 DEF MakeCode
  <2>6. MakeCode["prtsc"] \in Seq(Byte)
    BY <1>1 DEF MakeCode
  <2>7. MakeCode["pause"] \in Seq(Byte)
    BY <1>1 DEF MakeCode
  <2>8. k \in {"a", "shift", "ctrl", "ctrlr", "up", "prtsc", "pause"}
    BY DEF MakeCode
  <2> QED BY <2>1, <2>2, <2>3, <2>4, <2>5, <2>6, <2>7, <2>8
<1>3. ASSUME NEW k \in DOMAIN BreakCode PROVE BreakCode[k] \in Seq(Byte)
  <2>1. BreakCode["a"] \in Seq(Byte)
    BY <1>1 DEF BreakCode
  <2>2. BreakCode["shift"] \in Seq(Byte)
    BY <1>1 DEF BreakCode
  <2>3. BreakCode["ctrl"] \in Seq(Byte)
    BY <1>1 DEF BreakCode
  <2>4. BreakCode["ctrlr"] \in Seq(Byte)
    BY <1>1 DEF BreakCode
  <2>5. BreakCode["up"] \in Seq(Byte)
    BY <1>1 DEF BreakCode
  <2>6. BreakCode["prtsc"] \in Seq(Byte)
    BY <1>1 DEF BreakCode
  <2>7. k \in {"a", "shift", "ctrl", "ctrlr", "up", "prtsc"}
    BY DEF BreakCode
  <2> QED BY <2>1, <2>2, <2>3, <2>4, <2>5, <2>6, <2>7
<1> QED BY <1>2, <1>3, KbdAssumption

(***************************************************************************)
(* The stack of handlers.                                                  *)
(***************************************************************************)

\* Replacing the activation on top, and removing it, leave a stack.
LEMMA Stack ==
  ASSUME acts \in Seq(Activation), acts # <<>>, NEW act \in Activation
  PROVE  /\ Len(acts) \in Nat \ {0} /\ Top \in Activation
         /\ [acts EXCEPT ![Len(acts)] = act] \in Seq(Activation)
         /\ Len([acts EXCEPT ![Len(acts)] = act]) = Len(acts)
         /\ [acts EXCEPT ![Len(acts)] = act][Len(acts)] = act
         /\ SubSeq(acts, 1, Len(acts) - 1) \in Seq(Activation)
         /\ Len(SubSeq(acts, 1, Len(acts) - 1)) = Len(acts) - 1
<1>1. Len(acts) \in Nat \ {0}
  BY EmptySeq
<1>2. Len(acts) \in 1 .. Len(acts) /\ Top \in Activation
  BY <1>1, ElementOfSeq DEF Top
<1>3. /\ [acts EXCEPT ![Len(acts)] = act] \in Seq(Activation)
      /\ Len([acts EXCEPT ![Len(acts)] = act]) = Len(acts)
      /\ [acts EXCEPT ![Len(acts)] = act][Len(acts)] = act
  BY <1>2, ExceptSeq
<1>4. \A i \in 1 .. (Len(acts) - 1) : acts[i] \in Activation
  BY <1>1, ElementOfSeq
<1>5. /\ SubSeq(acts, 1, Len(acts) - 1) \in Seq(Activation)
      /\ Len(SubSeq(acts, 1, Len(acts) - 1)) = Len(acts) - 1
  <2> DEFINE n == Len(acts) - 1
  <2>1. n \in Int /\ n >= 0
    BY <1>1
  <2>2. \A i \in 1 .. n : acts[i] \in Activation
    BY <1>4
  <2> HIDE DEF n
  <2>3. SubSeq(acts, 1, n) \in Seq(Activation) /\ Len(SubSeq(acts, 1, n)) = IF 1 <= n THEN n - 1 + 1 ELSE 0
    BY <2>1, <2>2, SubSeqProperties
  <2>4. Len(SubSeq(acts, 1, n)) = n
    BY <2>1, <2>3
  <2> QED BY <2>3, <2>4 DEF n
<1> QED BY <1>1, <1>2, <1>3, <1>5

(***************************************************************************)
(* Types.                                                                  *)
(***************************************************************************)

\* TypeOK is kept by every step of the keyboard, the handlers and the reader.
LEMMA TypeStep == TypeOK /\ [Next]_vars => TypeOK'
<1> SUFFICES ASSUME TypeOK, [Next]_vars PROVE TypeOK'
  OBVIOUS
<1> USE KbdAssumption
<1>1. ASSUME NEW k \in Key, Press(k) PROVE TypeOK'
  BY <1>1, CodesAreBytes DEF Press, Keyboard, TypeOK, ring
<1>2. ASSUME NEW k \in Key, Release(k) PROVE TypeOK'
  <2>1. BreakCode[k] \in Seq(Byte)
    BY <1>2, CodesAreBytes DEF Release, TypeOK
  <2> QED BY <1>2, <2>1 DEF Release, Keyboard, TypeOK, ring
<1>3. ASSUME keyboard_irq PROVE TypeOK'
  <2> DEFINE new == [at |-> "check", ptr |-> 0, code |-> 0]
  <2>1. new \in Activation
    BY DEF Activation, Byte
  <2>2. Append(acts, new) \in Seq(Activation) /\ Len(Append(acts, new)) = Len(acts) + 1
    BY <2>1, AppendProperties DEF TypeOK
  <2>3. Head(line) \in Byte /\ Tail(line) \in Seq(Byte)
    BY <1>3, HeadTailProperties DEF TypeOK, keyboard_irq
  <2>4. Len(acts) \in Nat
    BY LenProperties DEF TypeOK
  <2>5. Len(acts') <= MaxNest /\ acts' \in Seq(Activation)
    BY <1>3, <2>2, <2>4 DEF keyboard_irq
  <2> HIDE DEF new
  <2> QED BY <1>3, <2>3, <2>5 DEF keyboard_irq, TypeOK, ring
<1>4. ASSUME keyboard_irq_handler PROVE TypeOK'
  <2>1. acts \in Seq(Activation) /\ acts # <<>> /\ scan_code \in Byte
    BY <1>4 DEF TypeOK, keyboard_irq_handler, CheckRoom, LoadCode, WriteCode,
       FetchHead, StoreHead, WrapHead, CountCode, Handler
  <2>2. Top \in Activation /\ Len(acts) \in Nat
    BY <2>1, Stack
  <2>3. ASSUME NEW act \in Activation, Becomes(act)
        PROVE  acts' \in Seq(Activation) /\ Len(acts') <= MaxNest
    BY <2>1, <2>3, Stack DEF TypeOK, Becomes
  <2>4. ASSUME Returns
        PROVE  acts' \in Seq(Activation) /\ Len(acts') <= MaxNest
    BY <2>1, <2>2, <2>4, Stack DEF TypeOK, Returns
  <2>5. /\ [Top EXCEPT !.at = "load"] \in Activation
        /\ [Top EXCEPT !.at = "count"] \in Activation
    BY <2>2 DEF Activation
  <2>6. CASE CheckRoom
    BY <2>3, <2>4, <2>5, <2>6 DEF CheckRoom, Handler, TypeOK
  <2>7. CASE LoadCode
    <3>1. [at |-> "write", ptr |-> p_head, code |-> scan_code] \in Activation
      BY DEF Activation, TypeOK
    <3> QED BY <2>3, <2>7, <3>1 DEF LoadCode, Handler, TypeOK
  <2>8. CASE WriteCode
    <3>1. [at |-> "fetch", ptr |-> 0, code |-> 0] \in Activation
      BY DEF Activation, Byte
    <3>2. Top.code \in Byte
      BY <2>2 DEF Activation
    <3>3. buf' \in [0 .. (KB_IN_BYTES - 1) -> Byte]
      BY <2>8, <3>2 DEF WriteCode, TypeOK
    <3> QED BY <2>3, <2>8, <3>1, <3>3 DEF WriteCode, Handler, TypeOK
  <2>9. CASE FetchHead
    <3>1. [at |-> "store", ptr |-> p_head + 1, code |-> 0] \in Activation
      BY DEF Activation, TypeOK, Byte
    <3> QED BY <2>3, <2>9, <3>1 DEF FetchHead, Handler, TypeOK
  <2>10. CASE StoreHead
    <3>1. \A at \in {"wrap", "count"} : [at |-> at, ptr |-> 0, code |-> 0] \in Activation
      BY DEF Activation, Byte
    <3>2. Top.ptr \in Int
      BY <2>2 DEF Activation
    <3> QED BY <2>3, <2>10, <3>1, <3>2 DEF StoreHead, Handler, TypeOK
  <2>11. CASE WrapHead
    BY <2>3, <2>5, <2>11 DEF WrapHead, Handler, TypeOK
  <2>12. CASE CountCode
    BY <2>4, <2>12 DEF CountCode, Handler, TypeOK
  <2> QED BY <1>4, <2>6, <2>7, <2>8, <2>9, <2>10, <2>11, <2>12 DEF keyboard_irq_handler
<1>5. ASSUME keyboard_read PROVE TypeOK'
  <2>1. buf[p_tail] \in Byte
    BY DEF TypeOK
  <2>2. p_tail' \in 0 .. (KB_IN_BYTES - 1) /\ count' \in Int
    BY <1>5 DEF keyboard_read, get_byte_from_kbuf, TypeOK
  <2>3. got' \in Seq(Byte)
    <3>1. Append(got, buf[p_tail]) \in Seq(Byte)
      BY <2>1, AppendProperties DEF TypeOK
    <3>2. got' \in {<<>>, Append(got, buf[p_tail])}
      BY <1>5 DEF keyboard_read
    <3> QED BY <3>1, <3>2, EmptySeq
  <2>4. \A codes : Decoded(codes, mods).flags \subseteq Modifier
    BY DEF Decoded, TypeOK
  <2>5. mods' \subseteq Modifier
    <3>1. mods' \in {mods, Decoded(Append(got, buf[p_tail]), mods).flags}
      BY <1>5 DEF keyboard_read
    <3> QED BY <2>4, <3>1 DEF TypeOK
  <2> QED BY <1>5, <2>2, <2>3, <2>5 DEF keyboard_read, get_byte_from_kbuf, TypeOK
<1>6. ASSUME UNCHANGED vars PROVE TypeOK'
  BY <1>6 DEF vars, ring, TypeOK
<1> QED BY <1>1, <1>2, <1>3, <1>4, <1>5, <1>6 DEF Next

\* The types of the keyboard path hold in every behaviour, however deep the
\* handlers nest.
THEOREM TypeCorrect == Spec => []TypeOK
<1>1. Init => TypeOK
  BY KbdAssumption DEF Init, TypeOK, Byte, Modifier
<1> QED BY <1>1, TypeStep, PTL DEF Spec

(***************************************************************************)
(* The ring, with one handler at a time.  While the handler is between two *)
(* steps, p_head may have moved already and the count not yet.             *)
(***************************************************************************)

\* From p_tail to p_head there are n codes, once around the ring at most.
Distance(n) == p_head - p_tail \in {n, n - KB_IN_BYTES}

Between(at) ==
  CASE at = "wrap"  -> p_head = KB_IN_BYTES /\ Distance(count + 1) /\ count < KB_IN_BYTES
    [] at = "count" -> p_head < KB_IN_BYTES /\ Distance(count + 1) /\ count < KB_IN_BYTES
    [] at = "check" -> p_head < KB_IN_BYTES /\ Distance(count)
    [] OTHER        -> p_head < KB_IN_BYTES /\ Distance(count) /\ count < KB_IN_BYTES

RingInv ==
  /\ count \in 0 .. KB_IN_BYTES /\ p_head \in 0 .. KB_IN_BYTES
  /\ acts = <<>> => p_head < KB_IN_BYTES /\ Distance(count)
  /\ acts # <<>> => Between(Top.at) /\ (Top.at = "store" => Top.ptr = p_head + 1)

\* With MaxNest = 1 a handler's step leaves it on top, or leaves no handler.
LEMMA OneHandler ==
  ASSUME TypeOK, MaxNest = 1, acts # <<>>
  PROVE  /\ Top \in Activation
         /\ \A act \in Activation : Becomes(act) => acts' # <<>> /\ Top' = act
         /\ Returns => acts' = <<>>
<1>1. Len(acts) = 1 /\ acts \in Seq(Activation)
  <2>1. Len(acts) \in Nat \ {0}
    BY EmptySeq DEF TypeOK
  <2>2. Len(acts) <= MaxNest /\ acts \in Seq(Activation)
    BY DEF TypeOK
  <2>3. Len(acts) = 1
    BY <2>1, <2>2
  <2> QED BY <2>2, <2>3
<1>2. ASSUME NEW act \in Activation, Becomes(act) PROVE acts' # <<>> /\ Top' = act
  <2>1. Len(acts') = Len(acts) /\ acts'[Len(acts)] = act
    BY <1>1, <1>2, Stack DEF Becomes
  <2> QED BY <1>1, <2>1, EmptySeq DEF Top
<1>3. ASSUME Returns PROVE acts' = <<>>
  BY <1>1, <1>3, SubSeqEmpty DEF Returns
<1>4. Top \in Activation
  BY <1>1, ElementOfSeq DEF Top
<1> QED BY <1>2, <1>3, <1>4

\* The strengthened invariant of the ring is inductive.
LEMMA RingStep == TypeOK /\ MaxNest = 1 /\ RingInv /\ [Next]_vars => RingInv'
<1> SUFFICES ASSUME TypeOK, MaxNest = 1, RingInv, [Next]_vars PROVE RingInv'
  OBVIOUS
<1> USE KbdAssumption
<1>1. p_tail \in 0 .. (KB_IN_BYTES - 1) /\ KB_IN_BYTES \in Nat \ {0}
  BY DEF TypeOK
<1>2. ASSUME UNCHANGED <<acts, ring>> PROVE RingInv'
  <2>1. /\ acts' = acts /\ Top' = Top /\ count' = count
        /\ p_head' = p_head /\ p_tail' = p_tail
    BY <1>2 DEF ring, Top
  <2> QED BY <2>1 DEF RingInv, Between, Distance
<1>3. ASSUME NEW k \in Key, Press(k) \/ Release(k) PROVE RingInv'
  BY <1>2, <1>3 DEF Press, Release, Keyboard
<1>4. ASSUME keyboard_irq PROVE RingInv'
  <2> DEFINE new == [at |-> "check", ptr |-> 0, code |-> 0]
  <2>1. acts = <<>>
    BY <1>4, EmptySeq DEF keyboard_irq, TypeOK
  <2>2. new \in Activation
    BY DEF Activation, Byte
  <2>3. acts' # <<>> /\ Top' = new
    BY <1>4, <2>1, <2>2, AppendProperties, EmptySeq DEF keyboard_irq, TypeOK, Top
  <2>4. new.at = "check"
    OBVIOUS
  <2>5. UNCHANGED ring
    BY <1>4 DEF keyboard_irq
  <2> HIDE DEF new
  <2> QED BY <2>1, <2>3, <2>4, <2>5 DEF ring, RingInv, Between, Distance
<1>5. ASSUME keyboard_irq_handler PROVE RingInv'
  <2>1. acts # <<>>
    BY <1>5 DEF keyboard_irq_handler, CheckRoom, LoadCode, WriteCode,
       FetchHead, StoreHead, WrapHead, CountCode, Handler
  <2>2. Top \in Activation
    BY <2>1, OneHandler
  <2>3. ASSUME NEW act \in Activation, Becomes(act) PROVE acts' # <<>> /\ Top' = act
    BY <2>1, <2>3, OneHandler
  <2>4. ASSUME Returns PROVE acts' = <<>>
    BY <2>1, <2>4, OneHandler
  <2>5. scan_code \in Byte /\ 0 \in Byte /\ p_head \in Int /\ p_head + 1 \in Int
    BY DEF TypeOK, Byte
  <2>6. CASE CheckRoom
    <3>1. CASE count < KB_IN_BYTES
      <4>1. [Top EXCEPT !.at = "load"] \in Activation /\ [Top EXCEPT !.at = "load"].at = "load"
        BY <2>2 DEF Activation
      <4>2. acts' # <<>> /\ Top'.at = "load"
        BY <2>3, <2>6, <3>1, <4>1 DEF CheckRoom
      <4> QED BY <2>1, <2>6, <3>1, <4>2 DEF CheckRoom, Handler, RingInv, Between, Distance
    <3>2. CASE ~ (count < KB_IN_BYTES)
      <4>1. acts' = <<>>
        BY <2>4, <2>6, <3>2 DEF CheckRoom
      <4> QED BY <2>1, <2>6, <4>1 DEF CheckRoom, Handler, RingInv, Between, Distance
    <3> QED BY <3>1, <3>2
  <2>7. CASE LoadCode
    <3>1. acts' # <<>> /\ Top'.at = "write"
      BY <2>3, <2>5, <2>7 DEF LoadCode, Activation
    <3> QED BY <2>1, <2>7, <3>1 DEF LoadCode, Handler, RingInv, Between, Distance
  <2>8. CASE WriteCode
    <3>1. acts' # <<>> /\ Top'.at = "fetch"
      BY <2>3, <2>5, <2>8 DEF WriteCode, Activation
    <3> QED BY <2>1, <2>8, <3>1 DEF WriteCode, Handler, RingInv, Between, Distance
  <2>9. CASE FetchHead
    <3>1. acts' # <<>> /\ Top'.at = "store" /\ Top'.ptr = p_head + 1
      BY <2>3, <2>5, <2>9 DEF FetchHead, Activation
    <3> QED BY <2>1, <2>9, <3>1 DEF FetchHead, Handler, RingInv, Between, Distance
  <2>10. CASE StoreHead
    <3>1. /\ acts' # <<>> /\ p_head' = p_head + 1
          /\ Top'.at = IF p_head + 1 = KB_IN_BYTES THEN "wrap" ELSE "count"
      BY <2>1, <2>3, <2>5, <2>10 DEF StoreHead, Handler, RingInv, Activation
    <3> QED BY <2>1, <2>10, <3>1, <1>1 DEF StoreHead, Handler, RingInv, Between, Distance
  <2>11. CASE WrapHead
    <3>1. [Top EXCEPT !.at = "count"] \in Activation /\ [Top EXCEPT !.at = "count"].at = "count"
      BY <2>2 DEF Activation
    <3>2. acts' # <<>> /\ Top'.at = "count"
      BY <2>3, <2>11, <3>1 DEF WrapHead
    <3> QED BY <2>1, <2>11, <3>2, <1>1 DEF WrapHead, Handler, RingInv, Between, Distance
  <2>12. CASE CountCode
    <3>1. acts' = <<>>
      BY <2>4, <2>12 DEF CountCode
    <3> QED BY <2>1, <2>12, <3>1, <1>1 DEF CountCode, Handler, RingInv, Between, Distance
  <2> QED BY <1>5, <2>6, <2>7, <2>8, <2>9, <2>10, <2>11, <2>12 DEF keyboard_irq_handler
<1>6. ASSUME keyboard_read PROVE RingInv'
  BY <1>1, <1>6 DEF keyboard_read, get_byte_from_kbuf, RingInv, Distance
<1>7. ASSUME UNCHANGED vars PROVE RingInv'
  BY <1>2, <1>7 DEF vars
<1> QED BY <1>3, <1>4, <1>5, <1>6, <1>7 DEF Next

\* With one handler at a time the pointers and the count of kbd_in agree
\* whenever no handler runs, for every size of the ring.
THEOREM RingStays == Spec => [](MaxNest = 1 => RingShape)
<1> DEFINE Inv == MaxNest = 1 => RingInv
<1>1. Init => Inv
  BY KbdAssumption DEF Init, RingInv, Distance
<1>2. TypeOK /\ Inv /\ [Next]_vars => Inv'
  BY RingStep
<1>3. TypeOK /\ Inv => (MaxNest = 1 => RingShape)
  BY KbdAssumption DEF TypeOK, RingInv, RingShape, Distance
<1> HIDE DEF Inv
<1> QED BY <1>1, <1>2, <1>3, TypeCorrect, PTL DEF Spec

(***************************************************************************)
(* The ring as a queue.  A window of n codes from position t of the ring.  *)
(***************************************************************************)
Around(x) == x % KB_IN_BYTES

Window(b, t, n) == [i \in 1 .. n |-> b[Around(t + i - 1)]]

\* Going round the ring once is subtracting its size.
LEMMA AroundOnce ==
  ASSUME NEW x \in 0 .. (2 * KB_IN_BYTES - 1)
  PROVE  Around(x) = IF x < KB_IN_BYTES THEN x ELSE x - KB_IN_BYTES
<1> USE KbdAssumption
<1> DEFINE q == x \div KB_IN_BYTES
           r == x % KB_IN_BYTES
<1>1. q \in Int /\ r \in 0 .. (KB_IN_BYTES - 1) /\ x = KB_IN_BYTES * q + r
  OBVIOUS
<1> HIDE DEF q, r
<1>2. q = 0 \/ q = 1
  <2>1. CASE q < 0
    <3>1. KB_IN_BYTES * q <= KB_IN_BYTES * (-1)
      BY <1>1, <2>1
    <3> QED BY <1>1, <3>1
  <2>2. CASE q > 1
    <3>1. KB_IN_BYTES * q >= KB_IN_BYTES * 2
      BY <1>1, <2>2
    <3> QED BY <1>1, <3>1
  <2> QED BY <1>1, <2>1, <2>2
<1>3. x = r \/ x = KB_IN_BYTES + r
  BY <1>1, <1>2
<1> QED BY <1>1, <1>3 DEF Around, r

LEMMA WindowSeq ==
  ASSUME NEW b \in [0 .. (KB_IN_BYTES - 1) -> Byte], NEW t \in 0 .. (KB_IN_BYTES - 1),
         NEW n \in 0 .. KB_IN_BYTES
  PROVE  /\ Window(b, t, n) \in Seq(Byte) /\ Len(Window(b, t, n)) = n
         /\ \A i \in 1 .. n : Window(b, t, n)[i] = b[Around(t + i - 1)]
         /\ \A i \in 1 .. n + 1 : Around(t + i - 1) \in 0 .. (KB_IN_BYTES - 1)
<1> USE KbdAssumption
<1>1. ASSUME NEW i \in 1 .. n + 1 PROVE Around(t + i - 1) \in 0 .. (KB_IN_BYTES - 1)
  <2>1. t + i - 1 \in 0 .. (2 * KB_IN_BYTES - 1)
    OBVIOUS
  <2> QED BY <2>1, AroundOnce
<1>2. \A i \in 1 .. n : b[Around(t + i - 1)] \in Byte
  BY <1>1
<1> QED BY <1>1, <1>2 DEF Window

\* The code behind a window extends it.
LEMMA WindowGrows ==
  ASSUME NEW b \in [0 .. (KB_IN_BYTES - 1) -> Byte], NEW t \in 0 .. (KB_IN_BYTES - 1),
         NEW n \in 0 .. (KB_IN_BYTES - 1)
  PROVE  Window(b, t, n + 1) = Append(Window(b, t, n), b[Around(t + n)])
<1> DEFINE w == Window(b, t, n)
           v == Window(b, t, n + 1)
           c == b[Around(t + n)]
<1> USE KbdAssumption
<1>1. /\ w \in Seq(Byte) /\ Len(w) = n /\ v \in Seq(Byte) /\ Len(v) = n + 1
      /\ \A i \in 1 .. n : w[i] = b[Around(t + i - 1)]
      /\ \A i \in 1 .. n + 1 : v[i] = b[Around(t + i - 1)]
  <2>1. n \in 0 .. KB_IN_BYTES /\ n + 1 \in 0 .. KB_IN_BYTES
    OBVIOUS
  <2>2. w \in Seq(Byte) /\ Len(w) = n /\ \A i \in 1 .. n : w[i] = b[Around(t + i - 1)]
    BY <2>1, WindowSeq
  <2>3. /\ v \in Seq(Byte) /\ Len(v) = n + 1
        /\ \A i \in 1 .. n + 1 : v[i] = b[Around(t + i - 1)]
    BY <2>1, WindowSeq
  <2> QED BY <2>2, <2>3
<1>2. t + (n + 1) - 1 = t + n
  OBVIOUS
<1>3. v[n + 1] = c /\ c \in Byte
  <2>1. v[n + 1] = b[Around(t + (n + 1) - 1)]
    BY <1>1
  <2>2. v[n + 1] \in Byte
    BY <1>1, ElementOfSeq
  <2> QED BY <1>2, <2>1, <2>2
<1> HIDE DEF w, v, c
<1>4. /\ Append(w, c) \in Seq(Byte) /\ Len(Append(w, c)) = n + 1
      /\ \A i \in 1 .. n : Append(w, c)[i] = w[i]
      /\ Append(w, c)[n + 1] = c
  BY <1>1, <1>3, AppendProperties
<1>5. \A i \in 1 .. n + 1 : v[i] = Append(w, c)[i]
  <2> SUFFICES ASSUME NEW i \in 1 .. n + 1 PROVE v[i] = Append(w, c)[i]
    OBVIOUS
  <2>1. CASE i = n + 1
    BY <1>3, <1>4, <2>1
  <2>2. CASE i \in 1 .. n
    BY <1>1, <1>4, <2>2
  <2>3. n \in Nat /\ i \in Nat /\ 1 <= i /\ i <= n + 1
    OBVIOUS
  <2>4. i = n + 1 \/ i \in 1 .. n
    BY <2>3
  <2> QED BY <2>1, <2>2, <2>4
<1>6. v = Append(w, c)
  BY <1>1, <1>4, <1>5, SeqEqual
<1> QED BY <1>6 DEF w, v, c

\* The reader's step leaves the rest of the window.
LEMMA WindowShrinks ==
  ASSUME NEW b \in [0 .. (KB_IN_BYTES - 1) -> Byte], NEW t \in 0 .. (KB_IN_BYTES - 1),
         NEW n \in 1 .. KB_IN_BYTES, NEW u, u = IF t + 1 = KB_IN_BYTES THEN 0 ELSE t + 1
  PROVE  Window(b, t, n) # <<>> /\ Window(b, u, n - 1) = Tail(Window(b, t, n))
<1> DEFINE w == Window(b, t, n)
           v == Window(b, u, n - 1)
<1> USE KbdAssumption
<1>1. u \in 0 .. (KB_IN_BYTES - 1)
  OBVIOUS
<1>2. /\ w \in Seq(Byte) /\ Len(w) = n /\ v \in Seq(Byte) /\ Len(v) = n - 1
      /\ \A i \in 1 .. n : w[i] = b[Around(t + i - 1)]
      /\ \A i \in 1 .. n - 1 : v[i] = b[Around(u + i - 1)]
  <2>1. n \in 0 .. KB_IN_BYTES /\ n - 1 \in 0 .. KB_IN_BYTES
    OBVIOUS
  <2>2. w \in Seq(Byte) /\ Len(w) = n /\ \A i \in 1 .. n : w[i] = b[Around(t + i - 1)]
    BY <2>1, WindowSeq
  <2>3. /\ v \in Seq(Byte) /\ Len(v) = n - 1
        /\ \A i \in 1 .. n - 1 : v[i] = b[Around(u + i - 1)]
    <3> DEFINE m == n - 1
    <3>1. m \in 0 .. KB_IN_BYTES
      BY <2>1
    <3> HIDE DEF m
    <3>2. /\ Window(b, u, m) \in Seq(Byte) /\ Len(Window(b, u, m)) = m
          /\ \A i \in 1 .. m : Window(b, u, m)[i] = b[Around(u + i - 1)]
      BY <1>1, <3>1, WindowSeq
    <3> QED BY <3>2 DEF m
  <2> QED BY <2>2, <2>3
<1>3. ASSUME NEW i \in 1 .. n - 1 PROVE v[i] = w[i + 1]
  <2>1. Around(u + i - 1) = Around(t + i)
    <3>1. /\ u + i - 1 \in 0 .. (2 * KB_IN_BYTES - 1)
          /\ t + i \in 0 .. (2 * KB_IN_BYTES - 1)
      BY <1>1
    <3> QED BY <3>1, AroundOnce
  <2>2. i + 1 \in 1 .. n /\ t + (i + 1) - 1 = t + i
    OBVIOUS
  <2> QED BY <1>2, <2>1, <2>2
<1> HIDE DEF w, v
<1>4. w # <<>>
  BY <1>2, EmptySeq
<1>5. /\ Tail(w) \in Seq(Byte) /\ Len(Tail(w)) = n - 1
      /\ \A i \in 1 .. n - 1 : Tail(w)[i] = w[i + 1]
  BY <1>2, <1>4, HeadTailProperties
<1>6. v = Tail(w)
  BY <1>2, <1>3, <1>5, SeqEqual
<1> QED BY <1>4, <1>6 DEF w, v

\* A write behind a window that is not the whole ring leaves it alone.
LEMMA WindowApart ==
  ASSUME NEW b \in [0 .. (KB_IN_BYTES - 1) -> Byte], NEW t \in 0 .. (KB_IN_BYTES - 1),
         NEW n \in 0 .. (KB_IN_BYTES - 1), NEW d,
         \A p \in 0 .. (KB_IN_BYTES - 1) : p # Around(t + n) => d[p] = b[p]
  PROVE  Window(d, t, n) = Window(b, t, n)
<1> USE KbdAssumption
<1>1. ASSUME NEW i \in 1 .. n
      PROVE  /\ Around(t + i - 1) \in 0 .. (KB_IN_BYTES - 1)
             /\ Around(t + i - 1) # Around(t + n)
  <2>1. /\ t + i - 1 \in 0 .. (2 * KB_IN_BYTES - 1)
        /\ t + n \in 0 .. (2 * KB_IN_BYTES - 1)
    OBVIOUS
  <2> QED BY <2>1, AroundOnce
<1>2. \A i \in 1 .. n : d[Around(t + i - 1)] = b[Around(t + i - 1)]
  BY <1>1
<1> QED BY <1>2 DEF Window

(***************************************************************************)
(* The refinement.  A handler holds the code it received in its register   *)
(* until it has written it to the element after the window.                *)
(***************************************************************************)
CodeInv ==
  acts # <<>> =>
    /\ Top.at = "write" => Top.ptr = p_head /\ Top.code = scan_code
    /\ Top.at \in {"fetch", "store", "wrap", "count"} =>
         buf[Around(p_tail + count)] = scan_code

LEMMA WaitingWindow == Waiting = Window(buf, p_tail, count)
BY DEF Waiting, Window, Around

\* Where a handler writes is the element after the window.
LEMMA HeadPlace ==
  ASSUME TypeOK, RingInv, acts # <<>>, Top.at = "write"
  PROVE  /\ count \in 0 .. (KB_IN_BYTES - 1) /\ p_head = Around(p_tail + count)
         /\ p_head \in 0 .. (KB_IN_BYTES - 1)
<1> USE KbdAssumption
<1>1. /\ count \in 0 .. KB_IN_BYTES /\ p_head \in 0 .. KB_IN_BYTES
      /\ p_head < KB_IN_BYTES /\ Distance(count) /\ count < KB_IN_BYTES
  BY DEF RingInv, Between
<1>2. p_tail \in 0 .. (KB_IN_BYTES - 1)
  BY DEF TypeOK
<1>3. p_tail + count \in 0 .. (2 * KB_IN_BYTES - 1)
  BY <1>1, <1>2
<1>4. Around(p_tail + count) = IF p_tail + count < KB_IN_BYTES THEN p_tail + count
                               ELSE p_tail + count - KB_IN_BYTES
  <2> DEFINE x == p_tail + count
  <2>1. x \in 0 .. (2 * KB_IN_BYTES - 1)
    BY <1>3
  <2> HIDE DEF x
  <2>2. Around(x) = IF x < KB_IN_BYTES THEN x ELSE x - KB_IN_BYTES
    BY <2>1, AroundOnce
  <2> QED BY <1>1, <1>2, <2>2 DEF x
<1> QED BY <1>1, <1>2, <1>4 DEF Distance

\* A step that leaves the ring and the handler alone changes nothing stored.
LEMMA SameStored ==
  ASSUME UNCHANGED <<acts, ring, scan_code>>
  PROVE  Stored' = Stored /\ (CodeInv => CodeInv')
BY DEF ring, Stored, Waiting, CodeInv, Top, Around

\* The keyboard puts codes on an empty line.
LEMMA TypingSends ==
  ASSUME TypeOK, NEW k \in Key, Press(k) \/ Release(k)
  PROVE  F!Send /\ UNCHANGED <<acts, ring, scan_code>>
<1>1. UNCHANGED <<acts, ring, scan_code>> /\ line = <<>>
  BY DEF Press, Release, Keyboard
<1>2. CASE Press(k)
  <2>1. k \in DOMAIN MakeCode
    BY KbdAssumption
  <2>2. MakeCode[k] # <<>>
    BY <2>1 DEF MakeCode
  <2> QED BY <1>1, <1>2, <2>2, SameStored DEF Press, Keyboard, F!Send
<1>3. CASE Release(k)
  <2>1. k \in DOMAIN BreakCode
    BY <1>3 DEF Release, TypeOK
  <2>2. BreakCode[k] # <<>>
    BY <2>1 DEF BreakCode
  <2> QED BY <1>1, <1>3, <2>2, SameStored DEF Release, Keyboard, F!Send
<1> QED BY <1>1, <1>2, <1>3

\* The interrupt takes a code from the line; it is lost only if the ring is
\* full.
LEMMA InterruptArrives ==
  ASSUME TypeOK, MaxNest = 1, RingInv, keyboard_irq
  PROVE  F!Arrive /\ CodeInv'
<1> DEFINE new == [at |-> "check", ptr |-> 0, code |-> 0]
<1>1. acts = <<>>
  BY EmptySeq DEF keyboard_irq, TypeOK
<1>2. new \in Activation
  BY DEF Activation, Byte
<1>3. acts' # <<>> /\ Top' = new
  BY <1>1, <1>2, AppendProperties, EmptySeq DEF keyboard_irq, TypeOK, Top
<1>4. new.at = "check"
  OBVIOUS
<1> HIDE DEF new
<1>5. CodeInv'
  BY <1>3, <1>4 DEF CodeInv
<1>6. Waiting' = Waiting /\ count' = count
  BY DEF keyboard_irq, ring, Waiting
<1>7. Stored = Waiting
  BY <1>1 DEF Stored
<1>8. Stored' = IF count < KB_IN_BYTES THEN Append(Waiting, Head(line)) ELSE Waiting
  BY <1>3, <1>6 DEF Stored, keyboard_irq
<1>9. Len(Waiting) = count
  BY WaitingWindow, WindowSeq DEF TypeOK, RingInv
<1> QED BY <1>5, <1>7, <1>8, <1>9 DEF F!Arrive, keyboard_irq

\* What a step of the handler does is not seen from outside.
LEMMA HandlerHides ==
  ASSUME TypeOK, MaxNest = 1, RingInv, CodeInv, keyboard_irq_handler
  PROVE  CodeInv' /\ UNCHANGED <<line, Stored>>
<1> USE KbdAssumption
<1>1. /\ acts # <<>> /\ Top.at \in {"check", "load", "write", "fetch", "store", "wrap", "count"}
      /\ UNCHANGED <<line, scan_code, p_tail>>
  BY DEF keyboard_irq_handler, CheckRoom, LoadCode, WriteCode,
     FetchHead, StoreHead, WrapHead, CountCode, Handler
<1>2. /\ Top \in Activation
      /\ \A act \in Activation : Becomes(act) => acts' # <<>> /\ Top' = act
      /\ Returns => acts' = <<>>
  BY <1>1, OneHandler
<1>3. /\ buf \in [0 .. (KB_IN_BYTES - 1) -> Byte] /\ p_tail \in 0 .. (KB_IN_BYTES - 1)
      /\ count \in 0 .. KB_IN_BYTES /\ scan_code \in Byte /\ 0 \in Byte /\ p_head \in Int
      /\ p_head + 1 \in Int
  BY DEF TypeOK, RingInv, Byte
<1>4. ASSUME acts' # <<>>, UNCHANGED <<buf, count>> PROVE Stored' = Stored
  BY <1>1, <1>4 DEF Stored, Waiting
<1>5. CASE CheckRoom
  <2>1. UNCHANGED <<buf, count>>
    BY <1>5 DEF CheckRoom
  <2>2. CASE count < KB_IN_BYTES
    <3>1. [Top EXCEPT !.at = "load"] \in Activation /\ [Top EXCEPT !.at = "load"].at = "load"
      BY <1>2 DEF Activation
    <3>2. acts' # <<>> /\ Top'.at = "load"
      BY <1>2, <1>5, <2>2, <3>1 DEF CheckRoom
    <3> QED BY <1>1, <1>4, <2>1, <3>2 DEF CodeInv
  <2>3. CASE ~ (count < KB_IN_BYTES)
    <3>1. acts' = <<>>
      BY <1>2, <1>5, <2>3 DEF CheckRoom
    <3>2. Stored' = Stored
      BY <1>1, <2>1, <2>3, <3>1 DEF Stored, Waiting
    <3> QED BY <1>1, <3>1, <3>2 DEF CodeInv
  <2> QED BY <2>2, <2>3
<1>6. CASE LoadCode
  <2>1. [at |-> "write", ptr |-> p_head, code |-> scan_code] \in Activation
    BY <1>3 DEF Activation
  <2>2. /\ acts' # <<>> /\ Top'.at = "write" /\ Top'.ptr = p_head /\ Top'.code = scan_code
        /\ UNCHANGED <<buf, p_head, count>>
    BY <1>2, <1>6, <2>1 DEF LoadCode
  <2> QED BY <1>1, <1>4, <2>2 DEF CodeInv
<1>7. CASE WriteCode
  <2>1. [at |-> "fetch", ptr |-> 0, code |-> 0] \in Activation
    BY <1>3 DEF Activation
  <2>2. acts' # <<>> /\ Top'.at = "fetch" /\ count' = count /\ Top.at = "write"
    BY <1>2, <1>7, <2>1 DEF WriteCode, Handler
  <2>3. /\ count \in 0 .. (KB_IN_BYTES - 1) /\ p_head = Around(p_tail + count)
        /\ p_head \in 0 .. (KB_IN_BYTES - 1)
    BY <1>1, <2>2, HeadPlace
  <2>4. buf' = [buf EXCEPT ![Around(p_tail + count)] = scan_code]
    <3>1. Top.ptr = p_head /\ Top.code = scan_code
      BY <1>1, <2>2 DEF CodeInv
    <3>2. Top.ptr < KB_IN_BYTES
      BY <2>3, <3>1
    <3>3. buf' = [buf EXCEPT ![Top.ptr] = Top.code]
      BY <1>7, <3>2 DEF WriteCode
    <3> QED BY <2>3, <3>1, <3>3
  <2>5. Window(buf', p_tail, count) = Window(buf, p_tail, count)
    <3>1. \A p \in 0 .. (KB_IN_BYTES - 1) : p # Around(p_tail + count) => buf'[p] = buf[p]
      BY <1>3, <2>4
    <3> QED BY <1>3, <2>3, <3>1, WindowApart
  <2>6. Waiting' = Waiting
    BY <1>1, <2>2, <2>5 DEF Waiting, Window, Around
  <2>7. buf'[Around(p_tail + count)] = scan_code
    BY <1>3, <2>3, <2>4
  <2>8. CodeInv'
    BY <1>1, <2>2, <2>7 DEF CodeInv, Around
  <2> QED BY <1>1, <2>2, <2>6, <2>8 DEF Stored
<1>8. CASE FetchHead
  <2>1. [at |-> "store", ptr |-> p_head + 1, code |-> 0] \in Activation
    BY <1>3 DEF Activation
  <2>2. acts' # <<>> /\ Top'.at = "store" /\ UNCHANGED <<buf, count>> /\ Top.at = "fetch"
    BY <1>2, <1>8, <2>1 DEF FetchHead, Handler
  <2> QED BY <1>1, <1>4, <2>2 DEF CodeInv, Around
<1>9. CASE StoreHead
  <2>1. \A at \in {"wrap", "count"} : [at |-> at, ptr |-> 0, code |-> 0] \in Activation
    BY <1>3 DEF Activation
  <2>2. /\ acts' # <<>> /\ Top'.at \in {"wrap", "count"} /\ Top.at = "store"
        /\ UNCHANGED <<buf, count>>
    BY <1>2, <1>9, <2>1 DEF StoreHead, Handler
  <2> QED BY <1>1, <1>4, <2>2 DEF CodeInv, Around
<1>10. CASE WrapHead
  <2>1. [Top EXCEPT !.at = "count"] \in Activation /\ [Top EXCEPT !.at = "count"].at = "count"
    BY <1>2 DEF Activation
  <2>2. acts' # <<>> /\ Top'.at = "count" /\ Top.at = "wrap" /\ UNCHANGED <<buf, count>>
    BY <1>2, <1>10, <2>1 DEF WrapHead, Handler
  <2> QED BY <1>1, <1>4, <2>2 DEF CodeInv, Around
<1>11. CASE CountCode
  <2>1. acts' = <<>> /\ buf' = buf /\ count' = count + 1 /\ Top.at = "count"
    BY <1>2, <1>11 DEF CountCode, Handler
  <2>2. count \in 0 .. (KB_IN_BYTES - 1)
    BY <1>1, <1>3, <2>1 DEF RingInv, Between
  <2>3. Window(buf, p_tail, count + 1) = Append(Window(buf, p_tail, count), scan_code)
    BY <1>1, <1>3, <2>1, <2>2, WindowGrows DEF CodeInv
  <2>4. Waiting' = Append(Waiting, scan_code)
    BY <1>1, <2>1, <2>3 DEF Waiting, Window, Around
  <2>5. Stored = Append(Waiting, scan_code) /\ Stored' = Waiting'
    BY <1>1, <2>1, <2>2 DEF Stored
  <2> QED BY <1>1, <2>1, <2>4, <2>5 DEF CodeInv
<1> QED BY <1>5, <1>6, <1>7, <1>8, <1>9, <1>10, <1>11 DEF keyboard_irq_handler

\* The reader takes the oldest code.
LEMMA ReaderLeaves ==
  ASSUME TypeOK, RingInv, keyboard_read
  PROVE  F!Leave /\ CodeInv'
<1>1. /\ acts = <<>> /\ acts' = <<>> /\ line' = line /\ buf' = buf /\ count' = count - 1
      /\ p_tail' = IF p_tail + 1 = KB_IN_BYTES THEN 0 ELSE p_tail + 1
      /\ count > 0
  BY DEF keyboard_read, get_byte_from_kbuf
<1>2. count \in 1 .. KB_IN_BYTES
  BY <1>1, KbdAssumption DEF RingInv
<1>3. /\ Window(buf, p_tail, count) # <<>>
      /\ Window(buf, p_tail', count - 1) = Tail(Window(buf, p_tail, count))
  BY <1>1, <1>2, WindowShrinks DEF TypeOK
<1>4. Waiting # <<>> /\ Waiting' = Tail(Waiting)
  BY <1>1, <1>3 DEF Waiting, Window, Around
<1>5. Stored = Waiting /\ Stored' = Waiting'
  BY <1>1 DEF Stored
<1> QED BY <1>1, <1>4, <1>5 DEF F!Leave, CodeInv

LEMMA QueueStep ==
  TypeOK /\ MaxNest = 1 /\ RingInv /\ CodeInv /\ [Next]_vars => CodeInv' /\ [F!Next]_(F!vars)
<1> SUFFICES ASSUME TypeOK, MaxNest = 1, RingInv, CodeInv, [Next]_vars
             PROVE  CodeInv' /\ [F!Next]_(F!vars)
  OBVIOUS
<1>1. ASSUME NEW k \in Key, Press(k) \/ Release(k) PROVE CodeInv' /\ [F!Next]_(F!vars)
  BY <1>1, TypingSends, SameStored DEF F!Next
<1>2. CASE keyboard_irq
  BY <1>2, InterruptArrives DEF F!Next
<1>3. CASE keyboard_irq_handler
  BY <1>3, HandlerHides DEF F!vars
<1>4. CASE keyboard_read
  BY <1>4, ReaderLeaves DEF F!Next
<1>5. CASE UNCHANGED vars
  <2>1. UNCHANGED <<acts, ring, scan_code>> /\ line' = line
    BY <1>5 DEF vars
  <2> QED BY <2>1, SameStored DEF F!vars
<1> QED BY <1>1, <1>2, <1>3, <1>4, <1>5 DEF Next

\* With one handler at a time kbd_in is a bounded queue: for every size of
\* the ring, the codes are read in the order they were sent, and one is
\* dropped only when the ring is full.
THEOREM RingIsQueue == MaxNest = 1 => (Spec => RingQueue)
<1> SUFFICES ASSUME MaxNest = 1 PROVE Spec => RingQueue
  OBVIOUS
<1> DEFINE Inv == RingInv /\ CodeInv
<1>1. Init => Inv /\ F!Init
  <2> SUFFICES ASSUME Init PROVE Inv /\ F!Init
    OBVIOUS
  <2>1. Inv
    BY KbdAssumption DEF Init, RingInv, Distance, CodeInv
  <2>2. Waiting = <<>>
    <3>1. Waiting \in Seq(Byte) /\ Len(Waiting) = 0
      <4>1. TypeOK /\ count = 0
        BY KbdAssumption DEF Init, TypeOK, Byte, Modifier
      <4> QED BY <4>1, WaitingWindow, WindowSeq, KbdAssumption DEF TypeOK
    <3> QED BY <3>1, EmptySeq
  <2>3. F!Init
    BY <2>2 DEF Init, F!Init, Stored
  <2> QED BY <2>1, <2>3
<1>2. TypeOK /\ Inv /\ [Next]_vars => Inv' /\ [F!Next]_(F!vars)
  BY RingStep, QueueStep
<1> HIDE DEF Inv
<1> QED BY <1>1, <1>2, TypeCorrect, PTL DEF Spec, RingQueue, F!Spec

=============================================================================
