----------------------------- MODULE TtyProofs -----------------------------
(***************************************************************************)
(* Proofs about Tty, for every size of screen, line and video memory that  *)
(* TtyAssumption allows: where cursors, letters and screens can be, what   *)
(* the display shows, and that typed characters are echoed in time.        *)
(***************************************************************************)
EXTENDS Tty, SequenceTheorems, TLAPS

(***************************************************************************)
(* Where the cells of a console are.                                       *)
(***************************************************************************)
LEMMA Cells ==
  ASSUME NEW c \in Console
  PROVE  original_addr(c) \in Nat /\ limit(c) \in Nat /\ limit(c) = original_addr(c) + V_MEM_LIMIT
<1>1. c \in Nat /\ V_MEM_LIMIT \in Nat
  BY TtyAssumption DEF Console
<1>2. c * V_MEM_LIMIT \in Nat
  BY <1>1
<1> QED BY <1>1, <1>2 DEF original_addr, limit

LEMMA Sizes ==
  /\ SCREEN_WIDTH \in Nat \ {0} /\ SCREEN_SIZE \in Nat /\ V_MEM_LIMIT \in Nat
  /\ 2 < SCREEN_SIZE /\ 2 < V_MEM_LIMIT /\ SCREEN_WIDTH <= V_MEM_LIMIT
  /\ 0 \in Console
BY TtyAssumption DEF Console

\* A newline goes to the beginning of the next line, which is in the console.
LEMMA NewlineMoves ==
  ASSUME NEW c \in Console, NEW r \in Nat, original_addr(c) <= r, r < limit(c) - SCREEN_WIDTH
  PROVE  Moved(c, r, "newline") \in original_addr(c) .. limit(c) - 1
<1> DEFINE o == original_addr(c)
           d == r - o
           q == d \div SCREEN_WIDTH
<1>1. o \in Nat /\ limit(c) \in Nat /\ SCREEN_WIDTH \in Nat \ {0} /\ d \in Nat
  BY Cells, Sizes
<1>2. q \in Nat /\ d >= SCREEN_WIDTH * q
  <2> HIDE DEF d
  <2> QED BY <1>1
<1>3. Moved(c, r, "newline") = o + SCREEN_WIDTH * (q + 1)
  BY DEF Moved
<1>4. SCREEN_WIDTH * (q + 1) = SCREEN_WIDTH * q + SCREEN_WIDTH /\ SCREEN_WIDTH * q \in Nat
  <2> HIDE DEF q
  <2> QED BY <1>1, <1>2
<1>5. d = r - o
  OBVIOUS
<1> HIDE DEF o, d, q
<1> QED BY <1>1, <1>2, <1>3, <1>4, <1>5 DEF o

(***************************************************************************)
(* What an activation becomes.                                             *)
(***************************************************************************)
Place == {"enter", "put", "move", "test", "compare", "scroll", "store",
          "flush", "set_start", "read", "write"}

LEMMA CallIs ==
  ASSUME NEW at \in Place, NEW c \in Console, NEW r \in Nat, NEW ret \in {"read", "write", "user"},
         NEW ch \in Char
  PROVE  /\ Calls(at, c, r, ret) \in Activation
         /\ [Calls(at, c, r, ret) EXCEPT !.ch = ch] \in Activation
         /\ [Calls(at, c, r, ret) EXCEPT !.ch = ch] =
              [at |-> at, con |-> c, ch |-> ch, reg |-> r, ret |-> ret]
BY DEF Calls, Activation, Place, Char

LEMMA TopIs ==
  ASSUME TypeOK
  PROVE  /\ Len(acts) \in 1 .. 2 /\ Top = acts[Len(acts)] /\ Top \in Activation
         /\ \A i \in 1 .. Len(acts) : acts[i] \in Activation
         /\ Top.at \in Place /\ Top.con \in Console /\ Top.ch \in Char /\ Top.reg \in Nat
         /\ Top.ret \in {"read", "write", "user"}
         /\ Len(acts) = 2 <=> Top.ret = "user"
<1>1. acts \in Seq(Activation) /\ Len(acts) \in 1 .. 2
  BY DEF TypeOK
<1>2. Top = acts[Len(acts)]
  BY DEF Top
<1>3. \A i \in 1 .. Len(acts) : acts[i] \in Activation
  BY <1>1
<1>4. Top \in Activation
  BY <1>1, <1>2, <1>3
<1>5. Len(acts) = 2 <=> Top.ret = "user"
  <2>1. acts[1].ret # "user" /\ (Len(acts) = 2 => acts[2].ret = "user")
    BY DEF TypeOK
  <2> QED BY <1>1, <1>2, <2>1
<1>6. /\ Top.at \in Place /\ Top.con \in Console /\ Top.ch \in Char /\ Top.reg \in Nat
      /\ Top.ret \in {"read", "write", "user"}
  BY <1>4 DEF Activation, Place
<1> QED BY <1>1, <1>2, <1>3, <1>4, <1>5, <1>6

LEMMA BecomesGives ==
  ASSUME TypeOK, NEW a \in Activation, Becomes(a), (a.ret = "user") <=> (Len(acts) = 2)
  PROVE  /\ acts' \in Seq(Activation) /\ Len(acts') = Len(acts)
         /\ acts'[Len(acts)] = a
         /\ \A i \in 1 .. Len(acts) : i # Len(acts) => acts'[i] = acts[i]
         /\ acts'[1].ret # "user" /\ (Len(acts') = 2 => acts'[2].ret = "user")
<1>1. acts \in Seq(Activation) /\ Len(acts) \in 1 .. 2
  BY DEF TypeOK
<1>2. acts' = [acts EXCEPT ![Len(acts)] = a]
  BY DEF Becomes
<1>3. /\ acts' \in Seq(Activation) /\ Len(acts') = Len(acts) /\ acts'[Len(acts)] = a
      /\ \A i \in 1 .. Len(acts) : i # Len(acts) => acts'[i] = acts[i]
  BY <1>1, <1>2
<1>4. acts[1].ret # "user" /\ (Len(acts) = 2 => acts[2].ret = "user")
  BY DEF TypeOK
<1>5. CASE Len(acts) = 1
  BY <1>1, <1>3, <1>5
<1>6. CASE Len(acts) = 2
  BY <1>1, <1>3, <1>4, <1>6
<1> QED BY <1>1, <1>3, <1>5, <1>6

LEMMA LoadsGives ==
  ASSUME TypeOK, NEW r \in Nat, NEW at \in Place, Loads(r, at)
  PROVE  /\ acts' \in Seq(Activation) /\ Len(acts') = Len(acts)
         /\ acts'[Len(acts)] = [at |-> at, con |-> Top.con, ch |-> Top.ch, reg |-> r, ret |-> Top.ret]
         /\ \A i \in 1 .. Len(acts) : i # Len(acts) => acts'[i] = acts[i]
         /\ acts'[1].ret # "user" /\ (Len(acts') = 2 => acts'[2].ret = "user")
<1> DEFINE a == [at |-> at, con |-> Top.con, ch |-> Top.ch, reg |-> r, ret |-> Top.ret]
<1>1. a \in Activation /\ Becomes(a)
  BY TopIs, CallIs DEF Loads
<1>2. (a.ret = "user") <=> (Len(acts) = 2)
  BY TopIs
<1> QED BY <1>1, <1>2, BecomesGives

LEMMA ReturnsGives ==
  ASSUME TypeOK, Returns
  PROVE  /\ acts' \in Seq(Activation) /\ Len(acts') = 1 /\ acts'[1].ret # "user"
         /\ \/ Len(acts) = 2 /\ acts'[1] = acts[1]
            \/ Len(acts) = 1 /\ acts'[1] = Loop(acts[1].ret) /\ acts[1].ret \in {"read", "write"}
<1>1. CASE Len(acts) = 2
  <2>1. acts' = <<acts[1]>>
    BY <1>1, TopIs DEF Returns
  <2> QED BY <1>1, <2>1, TopIs DEF TypeOK
<1>2. CASE Len(acts) = 1
  <2>1. Top = acts[1] /\ acts[1].ret \in {"read", "write"}
    BY <1>2, TopIs
  <2>2. acts' = <<Loop(acts[1].ret)>>
    BY <2>1 DEF Returns
  <2>3. Loop(acts[1].ret) \in Activation /\ Loop(acts[1].ret).ret = acts[1].ret
    BY <2>1, Sizes DEF Loop, Calls, Activation, Char
  <2> QED BY <1>2, <2>1, <2>2, <2>3
<1> QED BY <1>1, <1>2, TopIs

(***************************************************************************)
(* The invariant about cells.  A cursor read into a register is good for   *)
(* the write that follows; that of sys_printx() is still the cursor, that  *)
(* of the terminal task may be old, but leaves room for one letter.        *)
(***************************************************************************)
CursorOf(c) == console_table[c].cursor

Placed(a) ==
  /\ a.at = "put" =>
       a.ch = "letter" /\ original_addr(a.con) <= a.reg /\ a.reg < limit(a.con) - 1
  /\ a.at = "move" =>
       \/ a.ch = "newline" /\ original_addr(a.con) <= a.reg /\ a.reg < limit(a.con) - SCREEN_WIDTH
       \/ a.ch = "backspace" /\ original_addr(a.con) < a.reg /\ a.reg <= limit(a.con)
  /\ a.at = "store" => \E k \in Nat : a.reg = original_addr(a.con) + k * SCREEN_WIDTH

StartsOnLine ==
  \A c \in Console : \E k \in Nat : console_table[c].start = original_addr(c) + k * SCREEN_WIDTH

AllPlaced == \A i \in 1 .. Len(acts) : Placed(acts[i])

RoomForOne == acts[1].at = "put" => CursorOf(acts[1].con) < limit(acts[1].con)

KernelFresh ==
  Len(acts) = 2 /\ acts[2].at \in {"put", "move"} => acts[2].reg = CursorOf(acts[2].con)

CellInv == TypeOK /\ CursorInConsole /\ StartsOnLine /\ AllPlaced /\ RoomForOne /\ KernelFresh

RestTyped ==
  /\ in_buf \in [Console -> Seq(Char)] /\ nr_current_console \in Console
  /\ crtc \in [cursor : Console, start : Console]

LEMMA CellInit == Init => CellInv
<1> SUFFICES ASSUME Init PROVE CellInv
  OBVIOUS
<1>1. \A c \in Console :
        console_table[c].start = original_addr(c) /\ console_table[c].cursor = FirstCursor(c)
  BY DEF Init
<1>2. \A c \in Console : FirstCursor(c) \in original_addr(c) .. limit(c)
  <2> SUFFICES ASSUME NEW c \in Console PROVE FirstCursor(c) \in original_addr(c) .. limit(c)
    OBVIOUS
  <2>1. original_addr(c) \in Nat /\ limit(c) = original_addr(c) + V_MEM_LIMIT /\ V_MEM_LIMIT \in Nat /\ 2 < V_MEM_LIMIT
    BY Cells, Sizes
  <2>2. c = 0 => original_addr(c) = 0
    BY Sizes DEF original_addr
  <2> QED BY <2>1, <2>2 DEF FirstCursor
<1>3. acts = <<Calls("flush", 0, 0, "read")>> /\ Calls("flush", 0, 0, "read") \in Activation
  BY Sizes, CallIs DEF Init, Place, Char
<1>4. Len(acts) = 1 /\ acts \in Seq(Activation) /\ acts[1].at = "flush" /\ acts[1].ret = "read"
  BY <1>3 DEF Calls
<1>5. console_table \in [Console -> [start : Nat, cursor : Nat]]
  BY <1>2, Cells DEF Init
<1>6. RestTyped
  BY Sizes, TtyAssumption DEF Init, RestTyped, Console
<1>7. TypeOK
  BY <1>4, <1>5, <1>6 DEF TypeOK, RestTyped
<1>8. StartsOnLine
  <2> SUFFICES ASSUME NEW c \in Console
               PROVE  \E k \in Nat : console_table[c].start = original_addr(c) + k * SCREEN_WIDTH
    BY DEF StartsOnLine
  <2>1. console_table[c].start = original_addr(c) /\ original_addr(c) \in Nat
    BY <1>1, Cells
  <2>2. 0 * SCREEN_WIDTH = 0
    BY Sizes
  <2>3. console_table[c].start = original_addr(c) + 0 * SCREEN_WIDTH
    BY <2>1, <2>2
  <2> QED BY <2>3
<1>9. CursorInConsole
  <2> SUFFICES ASSUME NEW c \in Console PROVE console_table[c].cursor \in original_addr(c) .. limit(c)
    BY DEF CursorInConsole
  <2>1. console_table[c].cursor = FirstCursor(c)
    BY <1>1
  <2> QED BY <1>2, <2>1
<1> QED BY <1>4, <1>7, <1>8, <1>9 DEF CellInv, AllPlaced, Placed, RoomForOne, KernelFresh

\* A step that changes the running activation, and no console.
LEMMA ActsStep ==
  ASSUME CellInv, console_table' = console_table, RestTyped',
         acts' \in Seq(Activation), Len(acts') = Len(acts),
         acts'[1].ret # "user", Len(acts') = 2 => acts'[2].ret = "user",
         \A i \in 1 .. Len(acts) : i # Len(acts) => acts'[i] = acts[i],
         NEW a \in Activation, acts'[Len(acts)] = a, Placed(a),
         a.at \in {"put", "move"} => a.reg = CursorOf(a.con)
  PROVE  CellInv'
<1>1. TypeOK'
  BY DEF CellInv, TypeOK, RestTyped
<1>2. Len(acts) \in 1 .. 2
  BY DEF CellInv, TypeOK
<1>3. CursorInConsole' /\ StartsOnLine'
  BY DEF CellInv, CursorInConsole, StartsOnLine
<1>4. AllPlaced'
  <2> SUFFICES ASSUME NEW i \in 1 .. Len(acts) PROVE Placed(acts'[i])
    BY DEF AllPlaced, Placed
  <2>1. CASE i = Len(acts)
    BY <2>1
  <2>2. CASE i # Len(acts)
    BY <2>2 DEF CellInv, AllPlaced
  <2> QED BY <2>1, <2>2
<1>5. CASE Len(acts) = 1
  <2>1. acts'[1] = a /\ a.con \in Console /\ a.reg \in Nat
    BY <1>5 DEF Activation
  <2>2. a.at = "put" => CursorOf(a.con) < limit(a.con)
    BY <2>1, Cells DEF Placed
  <2>3. RoomForOne'
    BY <2>1, <2>2 DEF RoomForOne, CursorOf
  <2>4. KernelFresh'
    BY <1>5 DEF KernelFresh
  <2> QED BY <1>1, <1>3, <1>4, <2>3, <2>4 DEF CellInv
<1>6. CASE Len(acts) = 2
  <2>1. acts'[1] = acts[1] /\ acts'[2] = a
    BY <1>6
  <2>2. RoomForOne' /\ KernelFresh'
    BY <1>6, <2>1 DEF CellInv, RoomForOne, KernelFresh, CursorOf
  <2> QED BY <1>1, <1>3, <1>4, <2>2 DEF CellInv
<1> QED BY <1>2, <1>5, <1>6

\* out_char() returns; the start of a screen may have changed.
LEMMA ReturnStep ==
  ASSUME CellInv, Returns, RestTyped', StartsOnLine',
         console_table' \in [Console -> [start : Nat, cursor : Nat]],
         \A c \in Console : console_table'[c].cursor = console_table[c].cursor
  PROVE  CellInv'
<1>1. /\ acts' \in Seq(Activation) /\ Len(acts') = 1 /\ acts'[1].ret # "user"
      /\ \/ Len(acts) = 2 /\ acts'[1] = acts[1]
         \/ Len(acts) = 1 /\ acts'[1] = Loop(acts[1].ret) /\ acts[1].ret \in {"read", "write"}
  BY ReturnsGives DEF CellInv
<1>2. TypeOK'
  BY <1>1 DEF TypeOK, RestTyped
<1>3. CursorInConsole'
  BY DEF CellInv, CursorInConsole
<1>4. Placed(acts'[1]) /\ (acts'[1].at = "put" => acts'[1] = acts[1])
  BY <1>1 DEF CellInv, AllPlaced, Placed, Loop, Calls
<1>5. AllPlaced'
  BY <1>1, <1>4 DEF AllPlaced, Placed
<1>6. RoomForOne'
  <2>1. acts[1] \in Activation
    BY TopIs DEF CellInv, TypeOK
  <2>2. acts[1].con \in Console
    BY <2>1 DEF Activation
  <2> QED BY <1>4, <2>2 DEF CellInv, RoomForOne, CursorOf
<1>7. KernelFresh'
  BY <1>1 DEF KernelFresh
<1> QED BY <1>2, <1>3, <1>5, <1>6, <1>7 DEF CellInv

(***************************************************************************)
(* The steps of out_char().                                                *)
(***************************************************************************)
LEMMA CellTypes ==
  ASSUME CellInv
  PROVE  /\ TypeOK /\ RestTyped
         /\ Top \in Activation /\ Top.con \in Console /\ Top.reg \in Nat /\ Top.ch \in Char
         /\ Top.ret \in {"read", "write", "user"} /\ (Len(acts) = 2 <=> Top.ret = "user")
         /\ Placed(Top) /\ Len(acts) \in 1 .. 2 /\ Top = acts[Len(acts)]
         /\ \A c \in Console : /\ console_table[c].start \in Nat
                               /\ console_table[c].cursor \in original_addr(c) .. limit(c)
<1>1. TypeOK
  BY DEF CellInv
<1>2. RestTyped
  BY <1>1 DEF TypeOK, RestTyped
<1>3. Placed(Top)
  <2>1. Top = acts[Len(acts)] /\ Len(acts) \in 1 .. 2
    BY <1>1, TopIs
  <2>3. Len(acts) \in 1 .. Len(acts)
    BY <2>1
  <2>2. Placed(acts[Len(acts)])
    BY <2>3 DEF CellInv, AllPlaced
  <2> QED BY <2>1, <2>2
<1>4. \A c \in Console : console_table[c].start \in Nat
  BY <1>1 DEF TypeOK
<1> QED BY <1>1, <1>2, <1>3, <1>4, TopIs DEF CellInv, CursorInConsole

\* The running activation goes to another step of the same call.
LEMMA LoadsStep ==
  ASSUME CellInv, console_table' = console_table, RestTyped',
         NEW at \in Place, NEW r \in Nat, Loads(r, at),
         Placed([at |-> at, con |-> Top.con, ch |-> Top.ch, reg |-> r, ret |-> Top.ret]),
         at \in {"put", "move"} => r = CursorOf(Top.con)
  PROVE  CellInv'
<1> DEFINE a == [at |-> at, con |-> Top.con, ch |-> Top.ch, reg |-> r, ret |-> Top.ret]
<1>1. /\ acts' \in Seq(Activation) /\ Len(acts') = Len(acts) /\ acts'[Len(acts)] = a
      /\ \A i \in 1 .. Len(acts) : i # Len(acts) => acts'[i] = acts[i]
      /\ acts'[1].ret # "user" /\ (Len(acts') = 2 => acts'[2].ret = "user")
  BY CellTypes, LoadsGives
<1>2. a \in Activation
  BY CellTypes DEF Activation, Place
<1>3. a.at \in {"put", "move"} => a.reg = CursorOf(a.con)
  OBVIOUS
<1>4. Placed(a)
  OBVIOUS
<1> HIDE DEF a
<1> QED BY <1>1, <1>2, <1>3, <1>4, ActsStep

\* It goes to another step with a letter for the character, as in a new call.
LEMMA CallsStep ==
  ASSUME CellInv, console_table' = console_table, RestTyped',
         NEW at \in Place \ {"put", "move"}, NEW c \in Console, NEW r \in Nat,
         NEW ch \in Char, NEW ret \in {"read", "write", "user"},
         (ret = "user") <=> (Len(acts) = 2),
         at = "store" => \E k \in Nat : r = original_addr(c) + k * SCREEN_WIDTH,
         Becomes([at |-> at, con |-> c, ch |-> ch, reg |-> r, ret |-> ret])
  PROVE  CellInv'
<1> DEFINE a == [at |-> at, con |-> c, ch |-> ch, reg |-> r, ret |-> ret]
<1>1. a \in Activation
  BY DEF Activation, Place
<1>2. /\ acts' \in Seq(Activation) /\ Len(acts') = Len(acts) /\ acts'[Len(acts)] = a
      /\ \A i \in 1 .. Len(acts) : i # Len(acts) => acts'[i] = acts[i]
      /\ acts'[1].ret # "user" /\ (Len(acts') = 2 => acts'[2].ret = "user")
  <2>1. Becomes(a) /\ ((a.ret = "user") <=> (Len(acts) = 2))
    OBVIOUS
  <2> HIDE DEF a
  <2> QED BY <1>1, <2>1, CellTypes, BecomesGives
<1>3. Placed(a) /\ a.at \notin {"put", "move"}
  BY DEF Placed
<1> HIDE DEF a
<1> QED BY <1>1, <1>2, <1>3, ActsStep

LEMMA ReadCursorKeeps == ASSUME CellInv, ReadCursor PROVE CellInv'
<1> DEFINE r == Cursor
<1>1. console_table' = console_table /\ RestTyped'
  BY CellTypes DEF ReadCursor, RestTyped
<1>2. r = CursorOf(Top.con) /\ r \in Nat /\ r \in original_addr(Top.con) .. limit(Top.con)
  BY CellTypes, Cells DEF Cursor, CursorOf
<1>3. /\ Top.ch \in Char /\ Top.con \in Console /\ SCREEN_WIDTH \in Nat
      /\ original_addr(Top.con) \in Nat /\ limit(Top.con) \in Nat
  BY CellTypes, Cells, Sizes
<1>4. CASE HasRoom(Top.con, r, Top.ch)
  <2>1. CASE Top.ch = "letter"
    <3>1. r < limit(Top.con) - 1 /\ Loads(r, "put")
      BY <1>4, <2>1 DEF ReadCursor, HasRoom
    <3>2. Placed([at |-> "put", con |-> Top.con, ch |-> Top.ch, reg |-> r, ret |-> Top.ret])
      BY <1>2, <2>1, <3>1 DEF Placed
    <3> HIDE DEF r
    <3> QED BY <1>1, <1>2, <3>1, <3>2, LoadsStep DEF Place
  <2>2. CASE Top.ch # "letter"
    <3>1. Loads(r, "move")
      BY <1>4, <2>2 DEF ReadCursor
    <3>2. Placed([at |-> "move", con |-> Top.con, ch |-> Top.ch, reg |-> r, ret |-> Top.ret])
      <4> HIDE DEF r
      <4>1. CASE Top.ch = "newline"
        BY <1>2, <1>3, <1>4, <4>1 DEF Placed, HasRoom
      <4>2. CASE Top.ch = "backspace"
        BY <1>2, <1>3, <1>4, <4>2 DEF Placed, HasRoom
      <4> QED BY <1>3, <2>2, <4>1, <4>2 DEF Char
    <3> HIDE DEF r
    <3> QED BY <1>1, <1>2, <3>1, <3>2, LoadsStep DEF Place
  <2> QED BY <2>1, <2>2
<1>5. CASE ~ HasRoom(Top.con, r, Top.ch)
  <2>1. Becomes(Calls("test", Top.con, 0, Top.ret))
    BY <1>5 DEF ReadCursor
  <2>2. Becomes([at |-> "test", con |-> Top.con, ch |-> "letter", reg |-> 0, ret |-> Top.ret])
    BY <2>1 DEF Calls
  <2>3. "test" \in Place \ {"put", "move"} /\ "letter" \in Char
    BY DEF Place, Char
  <2> QED BY <1>1, <2>2, <2>3, CellTypes, CallsStep
<1> QED BY <1>4, <1>5

\* A write of the cursor that is good for the console of the running call.
LEMMA CursorStep ==
  ASSUME CellInv, RestTyped', Becomes(Calls("test", Top.con, 0, Top.ret)),
         NEW a \in original_addr(Top.con) .. limit(Top.con), SetCursor(a),
         Len(acts) = 2 => a < limit(Top.con)
  PROVE  CellInv'
<1> DEFINE b == Calls("test", Top.con, 0, Top.ret)
<1>0. TypeOK /\ Top.con \in Console /\ original_addr(Top.con) \in Nat /\ a \in Nat
  BY CellTypes, Cells
<1>1. b \in Activation /\ b.at = "test" /\ (b.ret = "user" <=> Len(acts) = 2)
  BY CellTypes, CallIs DEF Place, Calls, Char
<1>2. /\ acts' \in Seq(Activation) /\ Len(acts') = Len(acts) /\ acts'[Len(acts)] = b
      /\ \A i \in 1 .. Len(acts) : i # Len(acts) => acts'[i] = acts[i]
      /\ acts'[1].ret # "user" /\ (Len(acts') = 2 => acts'[2].ret = "user")
  <2> HIDE DEF b
  <2> QED BY <1>0, <1>1, BecomesGives DEF b
<1> HIDE DEF b
<1>3. /\ console_table' \in [Console -> [start : Nat, cursor : Nat]]
      /\ \A c \in Console : console_table'[c].start = console_table[c].start
      /\ console_table'[Top.con].cursor = a
      /\ \A c \in Console : c # Top.con => console_table'[c].cursor = console_table[c].cursor
  BY <1>0 DEF SetCursor, TypeOK
<1>4. TypeOK'
  BY <1>2, <1>3, CellTypes DEF TypeOK, RestTyped
<1>5. CursorInConsole' /\ StartsOnLine'
  BY <1>3, CellTypes DEF CellInv, CursorInConsole, StartsOnLine
<1>6. AllPlaced'
  <2> SUFFICES ASSUME NEW i \in 1 .. Len(acts) PROVE Placed(acts'[i])
    BY <1>2 DEF AllPlaced, Placed
  <2>1. CASE i = Len(acts)
    BY <1>1, <1>2, <2>1 DEF Placed
  <2>2. CASE i # Len(acts)
    BY <1>2, <2>2 DEF CellInv, AllPlaced
  <2> QED BY <2>1, <2>2
<1>7. KernelFresh'
  BY <1>1, <1>2 DEF KernelFresh
<1>8. RoomForOne'
  <2>1. CASE Len(acts) = 1
    BY <1>1, <1>2, <2>1 DEF RoomForOne
  <2>2. CASE Len(acts) = 2
    <3>1. acts'[1] = acts[1] /\ acts[1].con \in Console
      BY <1>2, <2>2, TopIs, <1>0 DEF Activation
    <3>2. CASE acts[1].con = Top.con
      BY <1>3, <2>2, <3>1, <3>2 DEF RoomForOne, CursorOf
    <3>3. CASE acts[1].con # Top.con
      BY <1>3, <3>1, <3>3 DEF CellInv, RoomForOne, CursorOf
    <3> QED BY <3>2, <3>3
  <2> QED BY <2>1, <2>2, CellTypes
<1> QED BY <1>4, <1>5, <1>6, <1>7, <1>8 DEF CellInv

LEMMA PutLetterKeeps == ASSUME CellInv, PutLetter PROVE CellInv'
<1>1. RestTyped' /\ Becomes(Calls("test", Top.con, 0, Top.ret)) /\ SetCursor(Cursor + 1)
  BY CellTypes DEF PutLetter, RestTyped
<1>2. Cursor \in original_addr(Top.con) .. limit(Top.con) /\ Top.con \in Console
  BY CellTypes DEF Cursor
<1>3. /\ original_addr(Top.con) \in Nat /\ limit(Top.con) \in Nat /\ Top.at = "put"
      /\ Top.reg \in Nat /\ Top.reg < limit(Top.con) - 1
  BY CellTypes, Cells DEF PutLetter, At, Placed
<1>4. CASE Len(acts) = 1
  <2>1. Cursor < limit(Top.con)
    BY <1>3, <1>4, CellTypes DEF CellInv, RoomForOne, Cursor, CursorOf
  <2>2. Cursor + 1 \in original_addr(Top.con) .. limit(Top.con)
    BY <1>2, <1>3, <2>1
  <2> QED BY <1>1, <1>4, <2>2, CursorStep
<1>5. CASE Len(acts) = 2
  <2>1. Cursor = Top.reg
    BY <1>3, <1>5, CellTypes DEF CellInv, KernelFresh, Cursor, CursorOf
  <2>2. Cursor + 1 \in original_addr(Top.con) .. limit(Top.con) /\ Cursor + 1 < limit(Top.con)
    BY <1>2, <1>3, <2>1
  <2> QED BY <1>1, <2>2, CursorStep
<1> QED BY <1>4, <1>5, CellTypes

LEMMA MoveCursorKeeps == ASSUME CellInv, MoveCursor PROVE CellInv'
<1> DEFINE c == Top.con
           r == Top.reg
           a == Moved(c, r, Top.ch)
<1>1. RestTyped' /\ Becomes(Calls("test", Top.con, 0, Top.ret)) /\ SetCursor(a)
  BY CellTypes DEF MoveCursor, RestTyped
<1>2. /\ c \in Console /\ original_addr(c) \in Nat /\ limit(c) \in Nat /\ r \in Nat
      /\ \/ Top.ch = "newline" /\ original_addr(c) <= r /\ r < limit(c) - SCREEN_WIDTH
         \/ Top.ch = "backspace" /\ original_addr(c) < r /\ r <= limit(c)
  BY CellTypes, Cells DEF MoveCursor, At, Placed
<1>3. a \in original_addr(c) .. limit(c) - 1
  <2>1. CASE Top.ch = "newline" /\ original_addr(c) <= r /\ r < limit(c) - SCREEN_WIDTH
    BY <1>2, <2>1, NewlineMoves
  <2>2. CASE Top.ch = "backspace" /\ original_addr(c) < r /\ r <= limit(c)
    BY <1>2, <2>2 DEF Moved
  <2> QED BY <1>2, <2>1, <2>2
<1>4. a \in original_addr(c) .. limit(c) /\ a < limit(c)
  <2> HIDE DEF a, c
  <2> QED BY <1>2, <1>3
<1> QED BY <1>1, <1>4, CursorStep

LEMMA ReadStartKeeps == ASSUME CellInv, ReadStart PROVE CellInv'
<1>1. /\ console_table' = console_table /\ RestTyped'
      /\ Loads(Start + SCREEN_SIZE, "compare") /\ Start + SCREEN_SIZE \in Nat
  <2>1. Top.con \in Console /\ Start \in Nat
    BY CellTypes DEF Start
  <2>2. Start + SCREEN_SIZE \in Nat
    BY <2>1, Sizes
  <2>3. console_table' = console_table /\ Loads(Start + SCREEN_SIZE, "compare")
    BY DEF ReadStart
  <2>4. RestTyped'
    BY CellTypes DEF ReadStart, RestTyped
  <2> QED BY <2>2, <2>3, <2>4
<1>2. Placed([at |-> "compare", con |-> Top.con, ch |-> Top.ch,
              reg |-> Start + SCREEN_SIZE, ret |-> Top.ret])
  BY DEF Placed
<1> QED BY <1>1, <1>2, LoadsStep DEF Place

\* A step to a place where nothing is expected of the register.
LEMMA GoesStep ==
  ASSUME CellInv, console_table' = console_table, RestTyped',
         NEW at \in Place \ {"put", "move", "store"}, Goes(at)
  PROVE  CellInv'
<1>1. Placed([at |-> at, con |-> Top.con, ch |-> Top.ch, reg |-> 0, ret |-> Top.ret])
  BY DEF Placed
<1> QED BY <1>1, LoadsStep DEF Goes

LEMMA SamePlaces ==
  ASSUME CellInv, console_table' = console_table
  PROVE  /\ StartsOnLine' /\ console_table' \in [Console -> [start : Nat, cursor : Nat]]
         /\ \A c \in Console : console_table'[c].cursor = console_table[c].cursor
BY DEF CellInv, TypeOK, StartsOnLine

LEMMA CompareKeeps == ASSUME CellInv, Compare PROVE CellInv'
<1>1. console_table' = console_table /\ RestTyped'
  BY CellTypes DEF Compare, RestTyped
<1>2. CASE Goes("scroll")
  BY <1>1, <1>2, GoesStep DEF Place
<1>3. CASE Goes("flush")
  BY <1>1, <1>3, GoesStep DEF Place
<1>4. CASE Returns
  BY <1>1, <1>4, ReturnStep, SamePlaces
<1> QED BY <1>2, <1>3, <1>4 DEF Compare

LEMMA NextLine ==
  ASSUME NEW o \in Nat, NEW k \in Nat
  PROVE  o + k * SCREEN_WIDTH + SCREEN_WIDTH = o + (k + 1) * SCREEN_WIDTH
<1>1. SCREEN_WIDTH \in Nat /\ k * SCREEN_WIDTH \in Nat
  BY Sizes
<1>2. (k + 1) * SCREEN_WIDTH = k * SCREEN_WIDTH + SCREEN_WIDTH
  BY <1>1
<1> QED BY <1>1, <1>2

LEMMA LineBefore ==
  ASSUME NEW o \in Nat, NEW k \in Nat, NEW e \in Nat, e = o + k * SCREEN_WIDTH, e > o
  PROVE  k - 1 \in Nat /\ e - SCREEN_WIDTH \in Nat /\ e - SCREEN_WIDTH = o + (k - 1) * SCREEN_WIDTH
<1>1. SCREEN_WIDTH \in Nat /\ k * SCREEN_WIDTH \in Nat
  BY Sizes
<1>2. k # 0
  BY <1>1
<1>3. (k - 1) * SCREEN_WIDTH = k * SCREEN_WIDTH - SCREEN_WIDTH /\ k - 1 \in Nat
  BY <1>1, <1>2
<1>4. (k - 1) * SCREEN_WIDTH \in Nat
  BY <1>1, <1>3
<1> QED BY <1>1, <1>3, <1>4

LEMMA ScrollDownKeeps == ASSUME CellInv, ScrollDown PROVE CellInv'
<1>1. /\ console_table' = console_table /\ RestTyped' /\ Top.con \in Console
      /\ original_addr(Top.con) \in Nat
  BY CellTypes, Cells DEF ScrollDown, RestTyped
<1>2. CASE Goes("test")
  BY <1>1, <1>2, GoesStep DEF Place
<1>3. CASE Loads(Start + SCREEN_WIDTH, "store")
  <2>1. PICK k \in Nat : Start = original_addr(Top.con) + k * SCREEN_WIDTH
    BY <1>1 DEF CellInv, StartsOnLine, Start
  <2>2. Start + SCREEN_WIDTH = original_addr(Top.con) + (k + 1) * SCREEN_WIDTH /\ k + 1 \in Nat
    BY <1>1, <2>1, NextLine
  <2>3. Placed([at |-> "store", con |-> Top.con, ch |-> Top.ch,
                reg |-> Start + SCREEN_WIDTH, ret |-> Top.ret])
    BY <2>2 DEF Placed
  <2>4. Start + SCREEN_WIDTH \in Nat
    BY <1>1, CellTypes, Sizes DEF Start
  <2> QED BY <1>1, <1>3, <2>3, <2>4, LoadsStep DEF Place
<1> QED BY <1>2, <1>3 DEF ScrollDown

LEMMA StoreStartKeeps == ASSUME CellInv, StoreStart PROVE CellInv'
<1>1. /\ RestTyped' /\ Top.con \in Console /\ Top.reg \in Nat
      /\ \E k \in Nat : Top.reg = original_addr(Top.con) + k * SCREEN_WIDTH
  BY CellTypes DEF StoreStart, RestTyped, At, Placed
<1>2. /\ console_table' \in [Console -> [start : Nat, cursor : Nat]]
      /\ \A c \in Console : console_table'[c].cursor = console_table[c].cursor
      /\ console_table'[Top.con].start = Top.reg
      /\ \A c \in Console : c # Top.con => console_table'[c].start = console_table[c].start
  BY <1>1 DEF StoreStart, SetStart, CellInv, TypeOK
<1>3. StartsOnLine'
  BY <1>1, <1>2 DEF CellInv, StartsOnLine
<1>4. CASE Returns
  BY <1>1, <1>2, <1>3, <1>4, ReturnStep
<1>5. CASE Goes("test")
  <2> DEFINE a == [at |-> "test", con |-> Top.con, ch |-> Top.ch, reg |-> 0, ret |-> Top.ret]
  <2>1. /\ acts' \in Seq(Activation) /\ Len(acts') = Len(acts) /\ acts'[Len(acts)] = a
        /\ \A i \in 1 .. Len(acts) : i # Len(acts) => acts'[i] = acts[i]
        /\ acts'[1].ret # "user" /\ (Len(acts') = 2 => acts'[2].ret = "user")
    BY <1>5, CellTypes, LoadsGives DEF Goes, Place
  <2>2. TypeOK' /\ CursorInConsole'
    BY <1>1, <1>2, <2>1, CellTypes DEF TypeOK, RestTyped, CellInv, CursorInConsole
  <2>3. AllPlaced'
    <3> SUFFICES ASSUME NEW i \in 1 .. Len(acts) PROVE Placed(acts'[i])
      BY <2>1 DEF AllPlaced, Placed
    <3>1. CASE i = Len(acts)
      BY <2>1, <3>1 DEF Placed
    <3>2. CASE i # Len(acts)
      BY <2>1, <3>2 DEF CellInv, AllPlaced
    <3> QED BY <3>1, <3>2
  <2>4. KernelFresh'
    BY <2>1 DEF KernelFresh
  <2>5. RoomForOne'
    <3>1. CASE Len(acts) = 1
      BY <2>1, <3>1 DEF RoomForOne
    <3>2. CASE Len(acts) = 2
      <4>1. acts'[1] = acts[1] /\ acts[1].con \in Console
        BY <2>1, <3>2, TopIs DEF Activation, CellInv
      <4> QED BY <1>2, <4>1 DEF CellInv, RoomForOne, CursorOf
    <3> QED BY <3>1, <3>2, CellTypes
  <2> QED BY <1>3, <2>2, <2>3, <2>4, <2>5 DEF CellInv
<1> QED BY <1>4, <1>5 DEF StoreStart

LEMMA FlushKeeps ==
  ASSUME CellInv, set_cursor \/ set_video_start_addr
  PROVE  CellInv'
<1>1. console_table' = console_table /\ RestTyped'
  BY CellTypes DEF set_cursor, set_video_start_addr, RestTyped
<1>2. CASE set_cursor
  BY <1>1, <1>2, GoesStep DEF set_cursor, Place
<1>3. CASE set_video_start_addr
  BY <1>1, <1>3, ReturnStep, SamePlaces DEF set_video_start_addr
<1> QED BY <1>2, <1>3

(***************************************************************************)
(* The steps of the terminal task and of sys_printx().                     *)
(***************************************************************************)
\* The task, in no call, goes to a step of its own or into a call.
LEMMA TaskStep ==
  ASSUME CellInv, Len(acts) = 1, console_table' = console_table, RestTyped',
         NEW at \in Place \ {"put", "move"}, NEW c \in Console, NEW r \in Nat,
         NEW ret \in {"read", "write"},
         at = "store" => \E k \in Nat : r = original_addr(c) + k * SCREEN_WIDTH,
         Becomes(Calls(at, c, r, ret))
  PROVE  CellInv'
<1>1. Becomes([at |-> at, con |-> c, ch |-> "letter", reg |-> r, ret |-> ret])
  BY DEF Calls
<1>2. "letter" \in Char /\ ret \in {"read", "write", "user"} /\ ((ret = "user") <=> (Len(acts) = 2))
  BY DEF Char
<1> QED BY <1>1, <1>2, CallsStep

LEMMA LoopStep ==
  ASSUME CellInv, Len(acts) = 1, console_table' = console_table, RestTyped',
         NEW at \in {"read", "write"}, Becomes(Loop(at))
  PROVE  CellInv'
<1>1. Becomes(Calls(at, 0, 0, at)) /\ 0 \in Console /\ at \in Place \ {"put", "move"} /\ at # "store"
  BY Sizes DEF Loop, Place
<1> QED BY <1>1, TaskStep

LEMMA PutKeyKeeps == ASSUME CellInv, Len(acts) = 1, NEW k \in Key, put_key(k) PROVE CellInv'
<1>1. RestTyped /\ Typed[k] \in Char
  BY CellTypes DEF put_key, Typed, Char
<1>2. RestTyped'
  BY <1>1 DEF put_key, RestTyped
<1> QED BY <1>2, LoopStep DEF put_key

LEMMA ArrowKeyKeeps == ASSUME CellInv, Len(acts) = 1, NEW k \in Key, ArrowKey(k) PROVE CellInv'
<1> DEFINE c == nr_current_console
           s == console_table[c].start
<1>1. /\ console_table' = console_table /\ RestTyped' /\ c \in Console
      /\ original_addr(c) \in Nat /\ s \in Nat
  BY CellTypes, Cells DEF ArrowKey, RestTyped
<1>2. PICK n \in Nat : s = original_addr(c) + n * SCREEN_WIDTH
  BY <1>1 DEF CellInv, StartsOnLine
<1>3. CASE Becomes(Loop("write"))
  BY <1>1, <1>3, LoopStep
<1>4. CASE Becomes(Calls("store", c, s + SCREEN_WIDTH, "write"))
  <2>1. /\ s + SCREEN_WIDTH = original_addr(c) + (n + 1) * SCREEN_WIDTH /\ n + 1 \in Nat
        /\ s + SCREEN_WIDTH \in Nat /\ "store" \in Place \ {"put", "move"}
    BY <1>1, <1>2, NextLine, Sizes DEF Place
  <2> HIDE DEF c, s
  <2> QED BY <1>1, <1>4, <2>1, TaskStep
<1>5. CASE CanScrollUp(c, s) /\ Becomes(Calls("store", c, s - SCREEN_WIDTH, "write"))
  <2>1. s > original_addr(c)
    BY <1>5 DEF CanScrollUp
  <2>2. s \in Nat /\ original_addr(c) \in Nat /\ s = original_addr(c) + n * SCREEN_WIDTH
    BY <1>1, <1>2
  <2> HIDE DEF c, s
  <2>3. s - SCREEN_WIDTH = original_addr(c) + (n - 1) * SCREEN_WIDTH /\ n - 1 \in Nat
        /\ s - SCREEN_WIDTH \in Nat
    BY <2>1, <2>2, LineBefore
  <2>4. "store" \in Place \ {"put", "move"}
    BY DEF Place
  <2> QED BY <1>1, <1>5, <2>3, <2>4, TaskStep
<1> QED BY <1>3, <1>4, <1>5 DEF ArrowKey

LEMMA SelectKeeps == ASSUME CellInv, Len(acts) = 1, NEW k \in Key, select_console(k) PROVE CellInv'
<1>1. console_table' = console_table
  BY DEF select_console
<1>2. CASE Function[k] \in Console
  <2>1. Becomes(Calls("flush", Function[k], 0, "write")) /\ RestTyped'
    BY <1>2, CellTypes DEF select_console, RestTyped
  <2> QED BY <1>1, <1>2, <2>1, TaskStep DEF Place
<1>3. CASE Function[k] \notin Console
  <2>1. Becomes(Loop("write")) /\ RestTyped'
    BY <1>3, CellTypes DEF select_console, RestTyped
  <2> QED BY <1>1, <2>1, LoopStep
<1> QED BY <1>2, <1>3

LEMMA WriteKeeps == ASSUME CellInv, tty_do_write PROVE CellInv'
<1> DEFINE c  == nr_current_console
           ch == Head(in_buf[c])
<1>1. /\ console_table' = console_table /\ c \in Console /\ Len(acts) = 1 /\ RestTyped
      /\ in_buf[c] \in Seq(Char)
  BY CellTypes DEF tty_do_write, TaskAt, RestTyped
<1>2. CASE in_buf[c] # <<>>
  <2>1. ch \in Char /\ Tail(in_buf[c]) \in Seq(Char)
    BY <1>1, <1>2
  <2>2. RestTyped'
    BY <1>1, <1>2, <2>1 DEF tty_do_write, RestTyped
  <2>3. Becomes([Calls("enter", c, 0, "read") EXCEPT !.ch = ch])
    BY <1>2 DEF tty_do_write
  <2>4. "enter" \in Place \ {"put", "move"} /\ ("read" = "user" <=> Len(acts) = 2)
    BY <1>1 DEF Place
  <2> HIDE DEF c, ch
  <2>5. Becomes([at |-> "enter", con |-> c, ch |-> ch, reg |-> 0, ret |-> "read"])
    BY <1>1, <2>1, <2>3, <2>4, CallIs
  <2> QED BY <1>1, <2>1, <2>2, <2>4, <2>5, CallsStep
<1>3. CASE in_buf[c] = <<>>
  <2>1. Becomes(Loop("read")) /\ RestTyped'
    BY <1>1, <1>3 DEF tty_do_write, RestTyped
  <2> QED BY <1>1, <2>1, LoopStep
<1> QED BY <1>2, <1>3

LEMMA AppendSecond ==
  ASSUME NEW S, NEW seq \in Seq(S), NEW e \in S, Len(seq) = 1
  PROVE  /\ Append(seq, e) \in Seq(S) /\ Len(Append(seq, e)) = 2
         /\ Append(seq, e)[1] = seq[1] /\ Append(seq, e)[2] = e
<1>1. Append(seq, e) \in Seq(S)
  BY AppendProperties
<1>5. Append(seq, e)[1] = seq[1]
  OBVIOUS
<1>2. Len(Append(seq, e)) = Len(seq) + 1
  BY AppendProperties
<1>3. Append(seq, e)[Len(seq) + 1] = e
  BY AppendProperties
<1>4. Len(seq) + 1 = 2
  OBVIOUS
<1> QED BY <1>1, <1>2, <1>3, <1>4, <1>5, Zenon

LEMMA PrintxKeeps ==
  ASSUME CellInv, NEW c \in Printing, NEW ch \in Char, sys_printx(c, ch)
  PROVE  CellInv'
<1> DEFINE a == [Calls("enter", c, 0, "user") EXCEPT !.ch = ch]
<1>1. c \in Console /\ a \in Activation /\ a.at = "enter" /\ a.ret = "user"
  <2>1. c \in Console
    BY TtyAssumption
  <2>2. a = [at |-> "enter", con |-> c, ch |-> ch, reg |-> 0, ret |-> "user"]
    BY DEF Calls
  <2>3. a.at = "enter" /\ a.ret = "user"
    BY DEF Calls
  <2>4. [at |-> "enter", con |-> c, ch |-> ch, reg |-> 0, ret |-> "user"] \in Activation
    BY <2>1 DEF Activation
  <2> HIDE DEF a
  <2> QED BY <2>1, <2>2, <2>3, <2>4
<1>2. TypeOK /\ RestTyped /\ acts \in Seq(Activation) /\ Len(acts) = 1
  BY CellTypes DEF sys_printx, TypeOK
<1>3. acts' = Append(acts, a) /\ console_table' = console_table /\ RestTyped'
  BY <1>2 DEF sys_printx, RestTyped
<1> HIDE DEF a
<1>4. acts' \in Seq(Activation) /\ Len(acts') = 2 /\ acts'[1] = acts[1] /\ acts'[2] = a
  <2>1. acts' = Append(acts, a) /\ acts \in Seq(Activation) /\ Len(acts) = 1 /\ a \in Activation
    BY <1>1, <1>2, <1>3
  <2> QED BY <2>1, AppendSecond
<1>5. TypeOK'
  <2>1. acts[1].ret # "user" /\ console_table' \in [Console -> [start : Nat, cursor : Nat]]
    BY <1>2, <1>3 DEF TypeOK
  <2>2. acts'[1].ret # "user" /\ acts'[2].ret = "user" /\ Len(acts') \in 1 .. 2
    BY <1>1, <1>4, <2>1
  <2> QED BY <1>3, <1>4, <2>1, <2>2 DEF TypeOK, RestTyped
<1>6. CursorInConsole' /\ StartsOnLine'
  BY <1>3 DEF CellInv, CursorInConsole, StartsOnLine
<1>9. RoomForOne'
  BY <1>3, <1>4 DEF CellInv, RoomForOne, CursorOf
<1>7. AllPlaced'
  <2>1. Placed(acts[1])
    BY <1>2 DEF CellInv, AllPlaced
  <2>2. Placed(a)
    BY <1>1 DEF Placed
  <2>3. \A i \in 1 .. 2 : Placed(acts'[i])
    BY <1>4, <2>1, <2>2
  <2> QED BY <1>4, <2>3 DEF AllPlaced, Placed
<1>8. KernelFresh'
  BY <1>1, <1>4 DEF KernelFresh
<1> QED BY <1>5, <1>6, <1>7, <1>8, <1>9 DEF CellInv

LEMMA CellStep == CellInv /\ [Next]_vars => CellInv'
<1> SUFFICES ASSUME CellInv, [Next]_vars PROVE CellInv'
  OBVIOUS
<1>1. CASE out_char
  BY <1>1, ReadCursorKeeps, PutLetterKeeps, MoveCursorKeeps, ReadStartKeeps, CompareKeeps,
     ScrollDownKeeps, StoreStartKeeps, FlushKeeps DEF out_char
<1>2. CASE NoKey
  <2>1. Len(acts) = 1 /\ console_table' = console_table /\ RestTyped' /\ Becomes(Loop("write"))
    BY <1>2, CellTypes DEF NoKey, TaskAt, RestTyped
  <2> QED BY <2>1, LoopStep
<1>3. CASE \E k \in Key : in_process(k)
  BY <1>3, PutKeyKeeps, ArrowKeyKeeps, SelectKeeps DEF in_process, TaskAt
<1>4. CASE tty_do_write
  BY <1>4, WriteKeeps
<1>5. CASE \E c \in Printing, ch \in Char : sys_printx(c, ch)
  BY <1>5, PrintxKeeps
<1>6. CASE UNCHANGED vars
  BY <1>6 DEF vars, CellInv, TypeOK, CursorInConsole, StartsOnLine, AllPlaced, Placed,
     RoomForOne, KernelFresh, CursorOf
<1> QED BY <1>1, <1>2, <1>3, <1>4, <1>5, <1>6 DEF Next, task_tty

LEMMA CellAlways == Spec => []CellInv
BY CellInit, CellStep, PTL DEF Spec

(***************************************************************************)
(* Type correctness, and the places of cursors, letters and screens.       *)
(***************************************************************************)

(* Type correctness, for every size of the consoles and every typist; it   *)
(* says that sys_printx() interrupts nothing but the terminal task.        *)
THEOREM TypeCorrect == Spec => []TypeOK
<1>1. CellInv => TypeOK
  BY DEF CellInv
<1> QED BY <1>1, CellAlways, PTL

(* The cursor of a console never leaves the cells of the console, whoever  *)
(* prints between the reading of a cursor and the writing of it.           *)
THEOREM CursorStays == Spec => []CursorInConsole
<1>1. CellInv => CursorInConsole
  BY DEF CellInv
<1> QED BY <1>1, CellAlways, PTL

(* The cells out_char() writes are cells of the console it was called for. *)
THEOREM LettersInConsole == Spec => []OwnCells
<1>1. ASSUME CellInv PROVE OwnCells
  <2> SUFFICES ASSUME NEW i \in 1 .. Len(acts)
               PROVE  LET a == acts[i]
                      IN /\ a.at = "put" => a.reg \in original_addr(a.con) .. limit(a.con) - 1
                         /\ a.at = "move" /\ a.ch = "backspace" =>
                              a.reg - 1 \in original_addr(a.con) .. limit(a.con) - 1
    BY DEF OwnCells
  <2>1. Placed(acts[i]) /\ acts[i].con \in Console /\ acts[i].reg \in Nat
    BY <1>1, TopIs DEF CellInv, AllPlaced, Activation
  <2>2. original_addr(acts[i].con) \in Nat /\ limit(acts[i].con) \in Nat
    BY <2>1, Cells
  <2> QED BY <2>1, <2>2 DEF Placed
<1> QED BY <1>1, CellAlways, PTL

(* While the cursor is below the screen there is a line left to scroll to: *)
(* the loop of out_char() does not spin.  The sizes have to agree with     *)
(* TtyAssumption: no screen ends exactly where its console ends.           *)
THEOREM ScrollLoopEnds == Spec => []ScrollEnds
<1>1. ASSUME CellInv PROVE ScrollEnds
  <2> SUFFICES ASSUME NEW c \in Console,
                      console_table[c].cursor >= console_table[c].start + SCREEN_SIZE
               PROVE  CanScrollDown(c, console_table[c].start)
    BY DEF ScrollEnds
  <2> DEFINE o == original_addr(c)
  <2>1. /\ o \in Nat /\ limit(c) = o + V_MEM_LIMIT /\ console_table[c].start \in Nat
        /\ console_table[c].cursor \in o .. limit(c)
    BY <1>1, Cells, CellTypes
  <2>2. PICK k \in Nat : console_table[c].start = o + k * SCREEN_WIDTH
    BY <1>1 DEF CellInv, StartsOnLine
  <2> DEFINE w == k * SCREEN_WIDTH
  <2>3. w \in Nat /\ k <= w
    <3>1. k * (SCREEN_WIDTH - 1) \in Nat /\ w = k * (SCREEN_WIDTH - 1) + k
      BY Sizes
    <3> HIDE DEF w
    <3> QED BY <3>1
  <2>4. k \in 0 .. V_MEM_LIMIT => w + SCREEN_SIZE # V_MEM_LIMIT
    BY TtyAssumption
  <2> HIDE DEF o, w
  <2>5. console_table[c].start = o + w
    BY <2>2 DEF w
  <2> QED BY <2>1, <2>3, <2>4, <2>5, Sizes DEF CanScrollDown
<1> QED BY <1>1, CellAlways, PTL

(***************************************************************************)
(* The echo: characters wait only while the task is about to write.        *)
(***************************************************************************)
Quiet ==
  /\ acts[1].at # "write" => \A c \in Console : in_buf[c] = <<>>
  /\ \A c \in Console : c # nr_current_console => in_buf[c] = <<>>
  /\ Len(in_buf[nr_current_console]) <= 1

\* What a step of out_char() leaves alone.
LEMMA OutCharLeaves ==
  ASSUME TypeOK, out_char
  PROVE  /\ in_buf' = in_buf /\ nr_current_console' = nr_current_console
         /\ Top.at \notin {"read", "write"}
         /\ Len(acts) = 2 => acts'[1] = acts[1]
<1>1. /\ in_buf' = in_buf /\ nr_current_console' = nr_current_console
      /\ Top.at \notin {"read", "write"}
  BY DEF out_char, ReadCursor, PutLetter, MoveCursor, ReadStart, Compare, ScrollDown, StoreStart,
         set_cursor, set_video_start_addr, At
<1>2. Returns \/ \E a : Becomes(a)
  BY DEF out_char, ReadCursor, PutLetter, MoveCursor, ReadStart, Compare, ScrollDown, StoreStart,
         set_cursor, set_video_start_addr, Goes, Loads
<1>3. ASSUME Len(acts) = 2 PROVE acts'[1] = acts[1]
  <2>1. CASE Returns
    BY <1>3, <2>1, ReturnsGives
  <2>2. ASSUME NEW a, Becomes(a) PROVE acts'[1] = acts[1]
    <3>1. acts' = [acts EXCEPT ![2] = a] /\ acts \in Seq(Activation)
      BY <1>3, <2>2 DEF Becomes, TypeOK
    <3> QED BY <1>3, <3>1
  <2> QED BY <1>2, <2>1, <2>2
<1> QED BY <1>1, <1>3

LEMMA QuietStep == CellInv /\ Quiet /\ [Next]_vars => Quiet'
<1> SUFFICES ASSUME CellInv, Quiet, [Next]_vars PROVE Quiet'
  OBVIOUS
<1>0. TypeOK /\ RestTyped /\ Len(acts) \in 1 .. 2 /\ Top = acts[Len(acts)] /\ acts \in Seq(Activation)
  BY CellTypes DEF TypeOK
<1>1. CASE out_char
  <2>1. /\ in_buf' = in_buf /\ nr_current_console' = nr_current_console
        /\ Top.at \notin {"read", "write"} /\ (Len(acts) = 2 => acts'[1] = acts[1])
    BY <1>0, <1>1, OutCharLeaves
  <2> QED BY <1>0, <2>1 DEF Quiet
<1>2. ASSUME NEW k \in Key, in_process(k) PROVE Quiet'
  <2>1. \A c \in Console : in_buf[c] = <<>>
    BY <1>0, <1>2 DEF in_process, TaskAt, At, Quiet
  <2>2. CASE put_key(k)
    <3> DEFINE n == nr_current_console
    <3>1. acts'[1].at = "write" /\ n \in Console
      BY <1>0, <1>2, <2>2 DEF in_process, TaskAt, put_key, Becomes, Loop, Calls, RestTyped
    <3>2. in_buf' = in_buf \/ in_buf' = [in_buf EXCEPT ![n] = Append(@, Typed[k])]
      BY <2>2 DEF put_key
    <3>3. nr_current_console' = n /\ Typed[k] \in Char /\ in_buf[n] = <<>> /\ in_buf \in [Console -> Seq(Char)]
      BY <1>0, <2>1, <2>2, <3>1 DEF put_key, Typed, Char, RestTyped
    <3>4. Len(Append(in_buf[n], Typed[k])) = 1
      BY <3>3
    <3> HIDE DEF n
    <3>5. \A c \in Console : c # n => in_buf'[c] = <<>>
      BY <2>1, <3>2, <3>3
    <3>6. Len(in_buf'[n]) <= 1
      <4>1. CASE in_buf' = in_buf
        BY <3>3, <4>1
      <4>2. CASE in_buf' = [in_buf EXCEPT ![n] = Append(@, Typed[k])]
        <5>1. in_buf'[n] = Append(in_buf[n], Typed[k])
          BY <3>1, <3>3, <4>2
        <5> QED BY <3>4, <5>1
      <4> QED BY <3>2, <4>1, <4>2
    <3> QED BY <3>1, <3>3, <3>5, <3>6 DEF Quiet
  <2>3. CASE ArrowKey(k) \/ select_console(k)
    <3>1. in_buf' = in_buf /\ nr_current_console' \in Console
      BY <1>0, <2>3 DEF ArrowKey, select_console, RestTyped
    <3> QED BY <2>1, <3>1 DEF Quiet
  <2> QED BY <1>2, <2>2, <2>3 DEF in_process
<1>3. CASE NoKey
  BY <1>0, <1>3 DEF NoKey, TaskAt, At, Quiet
<1>4. CASE tty_do_write
  <2> DEFINE n == nr_current_console
  <2>1. n \in Console /\ in_buf \in [Console -> Seq(Char)] /\ nr_current_console' = n
    BY <1>0, <1>4 DEF RestTyped, tty_do_write
  <2>2. \/ in_buf[n] = <<>> /\ in_buf' = in_buf
        \/ in_buf[n] # <<>> /\ in_buf' = [in_buf EXCEPT ![n] = Tail(@)]
    BY <1>4 DEF tty_do_write
  <2>3. Len(in_buf[n]) <= 1 /\ in_buf[n] \in Seq(Char)
    BY <2>1 DEF Quiet
  <2>4. in_buf[n] # <<>> => Tail(in_buf[n]) = <<>>
    BY <2>3
  <2> HIDE DEF n
  <2>5. \A c \in Console : in_buf'[c] = <<>>
    <3>1. \A c \in Console : c # n => in_buf[c] = <<>>
      BY DEF Quiet, n
    <3> QED BY <2>1, <2>2, <2>4, <3>1
  <2> QED BY <2>1, <2>5 DEF Quiet
<1>5. CASE \E c \in Printing, ch \in Char : sys_printx(c, ch)
  <2>1. PICK a : acts' = Append(acts, a) /\ in_buf' = in_buf /\ nr_current_console' = nr_current_console
    BY <1>5 DEF sys_printx
  <2>2. Append(acts, a)[1] = acts[1]
    BY <1>0
  <2> QED BY <2>1, <2>2 DEF Quiet
<1>6. CASE UNCHANGED vars
  BY <1>6 DEF vars, Quiet
<1> QED BY <1>1, <1>2, <1>3, <1>4, <1>5, <1>6 DEF Next, task_tty

(* A typed character is echoed before the next key is read, on the console *)
(* it was typed on, for every number of consoles.                          *)
THEOREM EchoInTime == Spec => []EchoedFirst
<1>1. Init => Quiet
  <2> SUFFICES ASSUME Init PROVE Quiet
    OBVIOUS
  <2>1. \A c \in Console : in_buf[c] = <<>> /\ Len(in_buf[c]) <= 1
    BY DEF Init
  <2>2. nr_current_console \in Console
    BY Sizes DEF Init
  <2> QED BY <2>1, <2>2 DEF Quiet
<1>2. Quiet => EchoedFirst
  BY DEF Quiet, EchoedFirst
<1> QED BY <1>1, <1>2, QuietStep, CellAlways, PTL DEF Spec

(***************************************************************************)
(* The display.  Who flushes does so for the console that is shown; in     *)
(* select_console() the cursor register is right before the start address. *)
(***************************************************************************)
Flushing == {"flush", "set_start"}

ShowInv ==
  /\ \A i \in 1 .. Len(acts) : acts[i].at \in Flushing => acts[i].con = nr_current_console
  /\ acts[1].at = "set_start" => crtc.cursor = nr_current_console
  /\ ShowsCurrent

\* A step that flushes nothing, and at most begins to for the shown console.
LEMMA ShowBecomes ==
  ASSUME TypeOK, ShowInv, crtc' = crtc, nr_current_console' = nr_current_console,
         Top.at \notin Flushing, NEW a \in Activation, Becomes(a),
         a.at # "set_start", a.at = "flush" => a.con = nr_current_console
  PROVE  ShowInv'
<1>1. /\ acts \in Seq(Activation) /\ Len(acts) \in 1 .. 2 /\ Top = acts[Len(acts)]
      /\ acts' = [acts EXCEPT ![Len(acts)] = a]
  BY TopIs DEF TypeOK, Becomes
<1>2. Len(acts') = Len(acts) /\ acts'[Len(acts)] = a
      /\ \A i \in 1 .. Len(acts) : i # Len(acts) => acts'[i] = acts[i]
  BY <1>1
<1>3. CASE Len(acts) = 1
  BY <1>1, <1>2, <1>3 DEF ShowInv, ShowsCurrent, Selecting, Flushing
<1>4. CASE Len(acts) = 2
  <2>1. acts'[1] = acts[1] /\ acts'[2] = a
    BY <1>2, <1>4
  <2> QED BY <1>2, <1>4, <2>1 DEF ShowInv, ShowsCurrent, Selecting, Flushing
<1> QED BY <1>1, <1>3, <1>4

LEMMA ShowLoads ==
  ASSUME TypeOK, ShowInv, crtc' = crtc, nr_current_console' = nr_current_console,
         Top.at \notin Flushing, NEW at \in Place, NEW r \in Nat, Loads(r, at),
         at # "set_start", at = "flush" => Top.con = nr_current_console
  PROVE  ShowInv'
<1> DEFINE a == [at |-> at, con |-> Top.con, ch |-> Top.ch, reg |-> r, ret |-> Top.ret]
<1>1. Becomes(a) /\ a \in Activation
  BY TopIs, CallIs DEF Loads
<1>2. a.at # "set_start" /\ (a.at = "flush" => a.con = nr_current_console)
  OBVIOUS
<1> HIDE DEF a
<1> QED BY <1>1, <1>2, ShowBecomes

LEMMA ShowCalls ==
  ASSUME TypeOK, ShowInv, crtc' = crtc, nr_current_console' = nr_current_console,
         Top.at \notin Flushing, NEW at \in Place \ Flushing, NEW c \in Console, NEW r \in Nat,
         NEW ret \in {"read", "write", "user"}, NEW ch \in Char,
         \/ Becomes(Calls(at, c, r, ret))
         \/ Becomes([Calls(at, c, r, ret) EXCEPT !.ch = ch])
  PROVE  ShowInv'
<1> DEFINE a(x) == [at |-> at, con |-> c, ch |-> x, reg |-> r, ret |-> ret]
<1>1. \A x \in Char : a(x) \in Activation /\ a(x).at \notin Flushing
  BY DEF Activation, Place
<1>2. Becomes(a("letter")) \/ Becomes(a(ch))
  BY CallIs DEF Calls
<1>3. "letter" \in Char /\ \A x \in Char : a(x).at # "set_start" /\ a(x).at # "flush"
  BY DEF Char, Flushing
<1> HIDE DEF a
<1> QED BY <1>1, <1>2, <1>3, ShowBecomes

LEMMA ShowReturns ==
  ASSUME TypeOK, ShowInv, Returns, nr_current_console' = nr_current_console,
         \/ Top.at \notin Flushing /\ crtc' = crtc
         \/ Top.at = "set_start" /\ crtc' = [crtc EXCEPT !.start = Top.con]
  PROVE  ShowInv'
<1>1. /\ Len(acts') = 1 /\ Len(acts) \in 1 .. 2 /\ Top = acts[Len(acts)]
      /\ \/ Len(acts) = 2 /\ acts'[1] = acts[1]
         \/ Len(acts) = 1 /\ acts'[1] = Loop(acts[1].ret) /\ acts[1].ret \in {"read", "write"}
  BY ReturnsGives, TopIs
<1>2. Top.at = "set_start" => Top.con = nr_current_console
  BY <1>1 DEF ShowInv, Flushing
<1>3. crtc \in [cursor : Console, start : Console] /\ nr_current_console \in Console
  BY DEF TypeOK
<1>4. CASE Len(acts) = 1
  <2>1. acts'[1].at \notin Flushing
    BY <1>1, <1>4 DEF Loop, Calls, Flushing
  <2>2. crtc' = [cursor |-> nr_current_console, start |-> nr_current_console]
    BY <1>1, <1>2, <1>3, <1>4 DEF ShowInv, ShowsCurrent, Selecting, Flushing
  <2> QED BY <1>1, <2>1, <2>2 DEF ShowInv, ShowsCurrent, Flushing
<1>5. CASE Len(acts) = 2
  <2>1. crtc'.cursor = crtc.cursor /\ (~ Selecting => crtc' = crtc)
    BY <1>2, <1>3 DEF ShowInv, ShowsCurrent
  <2>2. acts'[1] = acts[1]
    BY <1>1, <1>5
  <2> QED BY <1>1, <1>5, <2>1, <2>2 DEF ShowInv, ShowsCurrent, Selecting
<1> QED BY <1>1, <1>4, <1>5

LEMMA ShowSetCursor == ASSUME TypeOK, ShowInv, set_cursor PROVE ShowInv'
<1> DEFINE a == [at |-> "set_start", con |-> Top.con, ch |-> Top.ch, reg |-> 0, ret |-> Top.ret]
<1>1. /\ Len(acts') = Len(acts) /\ acts'[Len(acts)] = a
      /\ \A i \in 1 .. Len(acts) : i # Len(acts) => acts'[i] = acts[i]
  BY LoadsGives DEF set_cursor, Goes, Place
<1>2. Len(acts) \in 1 .. 2 /\ Top = acts[Len(acts)] /\ Top.con = nr_current_console
  BY TopIs DEF set_cursor, At, ShowInv, Flushing
<1>3. crtc \in [cursor : Console, start : Console] /\ nr_current_console' = nr_current_console
      /\ crtc' = [crtc EXCEPT !.cursor = nr_current_console]
  BY <1>2 DEF TypeOK, set_cursor
<1>4. a.at = "set_start" /\ a.con = nr_current_console
  BY <1>2
<1> HIDE DEF a
<1>5. CASE Len(acts) = 1
  BY <1>1, <1>3, <1>4, <1>5 DEF ShowInv, ShowsCurrent, Selecting, Flushing
<1>6. CASE Len(acts) = 2
  <2>1. acts'[1] = acts[1] /\ acts'[2] = a
    BY <1>1, <1>6
  <2>2. crtc'.cursor = nr_current_console /\ (~ Selecting => crtc' = crtc)
    BY <1>3 DEF ShowInv, ShowsCurrent
  <2> QED BY <1>1, <1>3, <1>4, <1>6, <2>1, <2>2 DEF ShowInv, ShowsCurrent, Selecting, Flushing
<1> QED BY <1>2, <1>5, <1>6

LEMMA ShowOutChar == ASSUME CellInv, ShowInv, out_char PROVE ShowInv'
<1>1. /\ TypeOK /\ Top.con \in Console /\ Top.ret \in {"read", "write", "user"}
      /\ Cursor \in Nat /\ Start \in Nat /\ SCREEN_WIDTH \in Nat /\ SCREEN_SIZE \in Nat
  BY CellTypes, Sizes DEF TypeOK, Cursor, Start
<1>2. nr_current_console' = nr_current_console
  BY <1>1, OutCharLeaves
<1>3. CASE set_cursor
  BY <1>1, <1>3, ShowSetCursor
<1>4. CASE set_video_start_addr
  BY <1>1, <1>2, <1>4, ShowReturns DEF set_video_start_addr, At
<1>5. CASE ReadCursor \/ PutLetter \/ MoveCursor \/ ReadStart \/ Compare \/ ScrollDown \/ StoreStart
  <2>1. crtc' = crtc /\ Top.at \notin Flushing
    BY <1>5 DEF ReadCursor, PutLetter, MoveCursor, ReadStart, Compare, ScrollDown, StoreStart,
                At, Flushing
  <2>2. \/ \E at \in {"put", "move", "compare", "scroll", "store", "test"}, r \in Nat : Loads(r, at)
        \/ Becomes(Calls("test", Top.con, 0, Top.ret))
        \/ Returns
        \/ Top.con = nr_current_console /\ Loads(0, "flush")
    BY <1>1, <1>5 DEF ReadCursor, PutLetter, MoveCursor, ReadStart, Compare, ScrollDown,
                      StoreStart, Goes
  <2>3. ASSUME NEW at \in {"put", "move", "compare", "scroll", "store", "test"}, NEW r \in Nat,
               Loads(r, at)
        PROVE  ShowInv'
    BY <1>1, <1>2, <2>1, <2>3, ShowLoads DEF Place
  <2>4. CASE Becomes(Calls("test", Top.con, 0, Top.ret))
    BY <1>1, <1>2, <2>1, <2>4, ShowCalls DEF Place, Flushing, Char
  <2>5. CASE Returns
    BY <1>1, <1>2, <2>1, <2>5, ShowReturns
  <2>6. CASE Top.con = nr_current_console /\ Loads(0, "flush")
    BY <1>1, <1>2, <2>1, <2>6, ShowLoads DEF Place
  <2> QED BY <2>2, <2>3, <2>4, <2>5, <2>6
<1> QED BY <1>3, <1>4, <1>5 DEF out_char

LEMMA ShowTask == ASSUME CellInv, ShowInv, task_tty PROVE ShowInv'
<1>1. /\ TypeOK /\ RestTyped /\ Len(acts) = 1 /\ Top.at \notin Flushing /\ crtc' = crtc
      /\ Top = acts[1] /\ nr_current_console \in Console /\ acts \in Seq(Activation)
      /\ \A c \in Console : console_table[c].start \in Nat
  BY CellTypes DEF task_tty, NoKey, in_process, put_key, ArrowKey, select_console, tty_do_write,
     TaskAt, At, Flushing, TypeOK
<1>2. ASSUME NEW at \in {"read", "write"}, Becomes(Loop(at)),
             nr_current_console' = nr_current_console
      PROVE  ShowInv'
  BY <1>1, <1>2, Sizes, ShowCalls DEF Loop, Place, Flushing, Char
<1>3. CASE NoKey
  BY <1>2, <1>3 DEF NoKey
<1>4. ASSUME NEW k \in Key, put_key(k) PROVE ShowInv'
  BY <1>2, <1>4 DEF put_key
<1>5. ASSUME NEW k \in Key, ArrowKey(k) PROVE ShowInv'
  <2> DEFINE c == nr_current_console
             s == console_table[c].start
  <2>1. CASE Becomes(Loop("write"))
    BY <1>2, <1>5, <2>1 DEF ArrowKey
  <2>2. ASSUME NEW r \in Nat, Becomes(Calls("store", c, r, "write")) PROVE ShowInv'
    BY <1>1, <1>5, <2>2, ShowCalls DEF ArrowKey, Place, Flushing, Char
  <2>3. s + SCREEN_WIDTH \in Nat
    BY <1>1, Sizes
  <2>4. CanScrollUp(c, s) => s - SCREEN_WIDTH \in Nat
    <3>1. PICK n \in Nat : s = original_addr(c) + n * SCREEN_WIDTH
      BY <1>1 DEF CellInv, StartsOnLine
    <3>2. original_addr(c) \in Nat /\ s \in Nat
      BY <1>1, Cells
    <3> HIDE DEF c, s
    <3> QED BY <3>1, <3>2, LineBefore DEF CanScrollUp
  <2> QED BY <1>5, <2>1, <2>2, <2>3, <2>4 DEF ArrowKey
<1>6. ASSUME NEW k \in Key, select_console(k) PROVE ShowInv'
  <2>1. CASE Becomes(Loop("write")) /\ nr_current_console' = nr_current_console
    BY <1>2, <2>1
  <2>2. CASE nr_current_console' = Function[k] /\ Becomes(Calls("flush", Function[k], 0, "write"))
    <3>1. acts' = [acts EXCEPT ![1] = Calls("flush", Function[k], 0, "write")]
      BY <1>1, <2>2 DEF Becomes
    <3>2. Len(acts') = 1 /\ acts'[1].at = "flush" /\ acts'[1].con = nr_current_console'
      BY <1>1, <2>2, <3>1 DEF Calls
    <3> QED BY <3>2 DEF ShowInv, ShowsCurrent, Selecting, Flushing
  <2> QED BY <1>6, <2>1, <2>2 DEF select_console
<1>7. CASE tty_do_write
  <2> DEFINE c  == nr_current_console
             ch == Head(in_buf[c])
  <2>1. CASE in_buf[c] = <<>>
    BY <1>2, <1>7, <2>1 DEF tty_do_write
  <2>2. CASE in_buf[c] # <<>>
    <3>1. Becomes([Calls("enter", c, 0, "read") EXCEPT !.ch = ch]) /\ nr_current_console' = c
      BY <1>7, <2>2 DEF tty_do_write
    <3>2. ch \in Char /\ c \in Console
      BY <1>1, <2>2 DEF RestTyped
    <3> HIDE DEF ch
    <3> QED BY <1>1, <3>1, <3>2, ShowCalls DEF Place, Flushing
  <2> QED BY <2>1, <2>2
<1> QED BY <1>3, <1>4, <1>5, <1>6, <1>7 DEF task_tty, in_process

LEMMA ShowStep == CellInv /\ ShowInv /\ [Next]_vars => ShowInv'
<1> SUFFICES ASSUME CellInv, ShowInv, [Next]_vars PROVE ShowInv'
  OBVIOUS
<1>1. CASE out_char
  BY <1>1, ShowOutChar
<1>2. CASE task_tty
  BY <1>2, ShowTask
<1>3. ASSUME NEW c \in Printing, NEW ch \in Char, sys_printx(c, ch) PROVE ShowInv'
  <2> DEFINE a == [Calls("enter", c, 0, "user") EXCEPT !.ch = ch]
  <2>1. /\ acts' = Append(acts, a) /\ acts \in Seq(Activation) /\ Len(acts) = 1
        /\ crtc' = crtc /\ nr_current_console' = nr_current_console
    BY <1>3, CellTypes DEF sys_printx, TypeOK
  <2>2. a \in Activation /\ a.at = "enter"
    <3>1. c \in Console
      BY TtyAssumption
    <3> QED BY <3>1 DEF Calls, Activation
  <2> HIDE DEF a
  <2>3. Len(acts') = 2 /\ acts'[1] = acts[1] /\ acts'[2] = a
    BY <2>1, <2>2, AppendSecond
  <2> QED BY <2>1, <2>2, <2>3 DEF ShowInv, ShowsCurrent, Selecting, Flushing
<1>4. CASE UNCHANGED vars
  BY <1>4 DEF vars, ShowInv, ShowsCurrent, Selecting
<1> QED BY <1>1, <1>2, <1>3, <1>4 DEF Next

(* The display shows the selected console, whatever the other processes    *)
(* print, except while the task selects one.                               *)
THEOREM DisplayShows == Spec => []ShowsCurrent
<1>1. Init => ShowInv
  BY DEF Init, ShowInv, ShowsCurrent, Selecting, Flushing, Calls
<1>2. ShowInv => ShowsCurrent
  BY DEF ShowInv
<1> QED BY <1>1, <1>2, ShowStep, CellAlways, PTL DEF Spec
=============================================================================
