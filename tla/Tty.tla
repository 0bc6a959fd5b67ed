-------------------------------- MODULE Tty --------------------------------
(***************************************************************************)
(* The terminal: the consoles, which share the video memory, the terminal  *)
(* task, which echoes what is typed on the console that is shown, and      *)
(* sys_printx(), by which the kernel writes for a process on the console   *)
(* of that process.                                                        *)
(*                                                                         *)
(* Both write with out_char().  sys_printx() runs to its end, as a process *)
(* is not switched while it is in the kernel, but it can begin between any *)
(* two instructions of the terminal task.  The steps of out_char() and of  *)
(* flush() are the accesses to memory and to the hardware of the compiled  *)
(* code (Release/tty.asm); what is between them uses registers only.       *)
(***************************************************************************)
EXTENDS Integers, Sequences

CONSTANTS
  NR_CONSOLES,    \* number of consoles
  SCREEN_WIDTH,   \* cells in a line
  SCREEN_SIZE,    \* cells on a screen
  V_MEM_LIMIT,    \* con_v_mem_size: cells of the video memory each console has
  TTY_IN_BYTES,   \* size of the input ring of a terminal
  Printing,       \* the consoles processes have (nr_tty)
  Key             \* the keys the typist uses

Console == 0 .. NR_CONSOLES - 1
Char    == {"letter", "newline", "backspace"}

\* The keys in_process() acts on; the arrows are those with a shift key held,
\* the function keys those with alt held.
Typed    == [a |-> "letter", enter |-> "newline", backspace |-> "backspace"]
Function == [f1 |-> 0, f2 |-> 1, f3 |-> 2, f4 |-> 3]

ASSUME TtyAssumption ==
  /\ NR_CONSOLES \in Nat \ {0} /\ TTY_IN_BYTES \in Nat \ {0}
  /\ SCREEN_WIDTH \in Nat \ {0} /\ SCREEN_SIZE \in Nat /\ V_MEM_LIMIT \in Nat
  /\ 2 < SCREEN_SIZE /\ 2 < V_MEM_LIMIT /\ SCREEN_WIDTH <= V_MEM_LIMIT
  /\ \A k \in 0 .. V_MEM_LIMIT : k * SCREEN_WIDTH + SCREEN_SIZE # V_MEM_LIMIT
  /\ Printing \subseteq Console
  /\ Key \subseteq DOMAIN Typed \cup DOMAIN Function \cup {"up", "down"}

VARIABLES
  console_table,        \* current_start_addr and cursor of each console
  in_buf,               \* the characters typed on each terminal and not yet echoed
  nr_current_console,   \* the console that is shown
  crtc,                 \* the display hardware: the console whose cursor and screen it shows
  acts                  \* <<the terminal task>>, or <<the terminal task, sys_printx()>>

vars == <<console_table, in_buf, nr_current_console, crtc, acts>>

original_addr(c) == c * V_MEM_LIMIT
limit(c)         == original_addr(c) + V_MEM_LIMIT

\* at is the next step, con and ch the arguments of out_char(), reg its register,
\* ret where it returns to.
Top == acts[Len(acts)]

At(at) == Top.at = at

Becomes(act) == acts' = [acts EXCEPT ![Len(acts)] = act]

Calls(at, c, r, ret) == [at |-> at, con |-> c, ch |-> "letter", reg |-> r, ret |-> ret]
Loads(r, at)         == Becomes([Calls(at, Top.con, r, Top.ret) EXCEPT !.ch = Top.ch])
Goes(at)             == Loads(0, at)
Loop(at)             == Calls(at, 0, 0, at)

Returns == acts' = IF Top.ret = "user" THEN <<acts[1]>> ELSE <<Loop(Top.ret)>>

Start  == console_table[Top.con].start
Cursor == console_table[Top.con].cursor

SetStart(a)  == console_table' = [console_table EXCEPT ![Top.con].start = a]
SetCursor(a) == console_table' = [console_table EXCEPT ![Top.con].cursor = a]

(***************************************************************************)
(* out_char().  The character is written at the cell of the register, at   *)
(* the step "put"; "\b" writes its blank after the cursor was moved.       *)
(***************************************************************************)
\* Where a newline, and a backspace, move a cursor that stands at r.
Moved(c, r, ch) ==
  IF ch = "newline"
  THEN original_addr(c) + SCREEN_WIDTH * (((r - original_addr(c)) \div SCREEN_WIDTH) + 1)
  ELSE r - 1

\* Mutants: no cell, no line, or not the first cell, is kept back.
RoomNoCell(c, r, ch) ==
  CASE ch = "letter"    -> r < limit(c)
    [] ch = "newline"   -> r < limit(c) - SCREEN_WIDTH
    [] ch = "backspace" -> r > original_addr(c)

RoomNoLine(c, r, ch) ==
  CASE ch = "letter"    -> r < limit(c) - 1
    [] ch = "newline"   -> r < limit(c)
    [] ch = "backspace" -> r > original_addr(c)

RoomNoFirst(c, r, ch) ==
  CASE ch = "letter"    -> r < limit(c) - 1
    [] ch = "newline"   -> r < limit(c) - SCREEN_WIDTH
    [] ch = "backspace" -> r >= original_addr(c)

\* Whether the character fits, with the cursor at r.
HasRoom(c, r, ch) ==
  CASE ch = "letter"    -> r < limit(c) - 1
    [] ch = "newline"   -> r < limit(c) - SCREEN_WIDTH
    [] ch = "backspace" -> r > original_addr(c)

ReadCursor ==
  /\ At("enter")
  /\ LET r == Cursor
     IN IF HasRoom(Top.con, r, Top.ch)
        THEN Loads(r, IF Top.ch = "letter" THEN "put" ELSE "move")
        ELSE Becomes(Calls("test", Top.con, 0, Top.ret))
  /\ UNCHANGED <<console_table, in_buf, nr_current_console, crtc>>

PutLetter ==
  /\ At("put")
  /\ SetCursor(Cursor + 1)
  /\ Becomes(Calls("test", Top.con, 0, Top.ret))
  /\ UNCHANGED <<in_buf, nr_current_console, crtc>>

MoveCursor ==
  /\ At("move")
  /\ SetCursor(Moved(Top.con, Top.reg, Top.ch))
  /\ Becomes(Calls("test", Top.con, 0, Top.ret))
  /\ UNCHANGED <<in_buf, nr_current_console, crtc>>

\* The loop that scrolls down until the cursor is on the screen.
ReadStart ==
  /\ At("test")
  /\ Loads(Start + SCREEN_SIZE, "compare")
  /\ UNCHANGED <<console_table, in_buf, nr_current_console, crtc>>

\* Mutant: the display follows every console.
CompareOnly ==
  /\ At("compare")
  /\ Goes(IF Cursor >= Top.reg THEN "scroll" ELSE "flush")
  /\ UNCHANGED <<console_table, in_buf, nr_current_console, crtc>>

Compare ==
  /\ At("compare")
  /\ IF Cursor >= Top.reg THEN Goes("scroll")
     ELSE IF nr_current_console = Top.con THEN Goes("flush")
     ELSE Returns
  /\ UNCHANGED <<console_table, in_buf, nr_current_console, crtc>>

\* Mutant: the last line is not reached.
ScrollsShort(c, s) == s + SCREEN_SIZE + SCREEN_WIDTH < limit(c)

\* scroll_screen(): whether there is a line to scroll to.
CanScrollDown(c, s) == s + SCREEN_SIZE < limit(c)
CanScrollUp(c, s)   == s > original_addr(c)

ScrollDown ==
  /\ At("scroll")
  /\ IF CanScrollDown(Top.con, Start) THEN Loads(Start + SCREEN_WIDTH, "store") ELSE Goes("test")
  /\ UNCHANGED <<console_table, in_buf, nr_current_console, crtc>>

StoreStart ==
  /\ At("store")
  /\ SetStart(Top.reg)
  /\ IF Top.ret = "write" THEN Returns ELSE Goes("test")
  /\ UNCHANGED <<in_buf, nr_current_console, crtc>>

(***************************************************************************)
(* flush().  Of the registers of the display is kept whose cursor and      *)
(* whose start address they hold.                                          *)
(***************************************************************************)
set_cursor ==
  /\ At("flush")
  /\ crtc' = [crtc EXCEPT !.cursor = Top.con]
  /\ Goes("set_start")
  /\ UNCHANGED <<console_table, in_buf, nr_current_console>>

set_video_start_addr ==
  /\ At("set_start")
  /\ crtc' = [crtc EXCEPT !.start = Top.con]
  /\ Returns
  /\ UNCHANGED <<console_table, in_buf, nr_current_console>>

out_char ==
  \/ ReadCursor \/ PutLetter \/ MoveCursor
  \/ ReadStart \/ Compare \/ ScrollDown \/ StoreStart
  \/ set_cursor \/ set_video_start_addr

(***************************************************************************)
(* The terminal task.  tty_do_read() takes at most one key from the        *)
(* keyboard and gives it to in_process(); tty_do_write() echoes at most    *)
(* one character, on the console that is shown by then.                    *)
(***************************************************************************)
TaskAt(at) == Len(acts) = 1 /\ At(at)

NoKey ==
  /\ TaskAt("read")
  /\ Becomes(Loop("write"))
  /\ UNCHANGED <<console_table, in_buf, nr_current_console, crtc>>

put_key(k) ==
  /\ k \in DOMAIN Typed
  /\ in_buf' = IF Len(in_buf[nr_current_console]) < TTY_IN_BYTES
               THEN [in_buf EXCEPT ![nr_current_console] = Append(@, Typed[k])]
               ELSE in_buf
  /\ Becomes(Loop("write"))
  /\ UNCHANGED <<console_table, nr_current_console, crtc>>

\* scroll_screen() for the arrow keys; it does not flush.
ArrowKey(k) ==
  LET c == nr_current_console
      s == console_table[c].start
      to(a) == Becomes(Calls("store", c, a, "write"))
  IN /\ \/ k = "up" /\ CanScrollDown(c, s) /\ to(s + SCREEN_WIDTH)
        \/ k = "down" /\ CanScrollUp(c, s) /\ to(s - SCREEN_WIDTH)
        \/ k = "up" /\ ~ CanScrollDown(c, s) /\ Becomes(Loop("write"))
        \/ k = "down" /\ ~ CanScrollUp(c, s) /\ Becomes(Loop("write"))
     /\ UNCHANGED <<console_table, in_buf, nr_current_console, crtc>>

\* Mutant: one console too many.
SelectBehind(k) ==
  /\ k \in DOMAIN Function
  /\ IF Function[k] <= NR_CONSOLES
     THEN /\ nr_current_console' = Function[k]
          /\ Becomes(Calls("flush", Function[k], 0, "write"))
     ELSE Becomes(Loop("write")) /\ UNCHANGED nr_current_console
  /\ UNCHANGED <<console_table, in_buf, crtc>>

select_console(k) ==
  /\ k \in DOMAIN Function
  /\ IF Function[k] \in Console
     THEN /\ nr_current_console' = Function[k]
          /\ Becomes(Calls("flush", Function[k], 0, "write"))
     ELSE Becomes(Loop("write")) /\ UNCHANGED nr_current_console
  /\ UNCHANGED <<console_table, in_buf, crtc>>

in_process(k) ==
  /\ TaskAt("read")
  /\ put_key(k) \/ ArrowKey(k) \/ select_console(k)

\* Mutant: the loop goes on with the first terminal (p_tty in task_tty()).
WriteFirst ==
  /\ TaskAt("write")
  /\ IF in_buf[0] # <<>>
     THEN /\ in_buf' = [in_buf EXCEPT ![0] = Tail(@)]
          /\ Becomes([Calls("enter", 0, 0, "read") EXCEPT !.ch = Head(in_buf[0])])
     ELSE Becomes(Loop("read")) /\ UNCHANGED in_buf
  /\ UNCHANGED <<console_table, nr_current_console, crtc>>

tty_do_write ==
  /\ TaskAt("write")
  /\ LET c == nr_current_console
     IN IF in_buf[c] # <<>>
        THEN /\ in_buf' = [in_buf EXCEPT ![c] = Tail(@)]
             /\ Becomes([Calls("enter", c, 0, "read") EXCEPT !.ch = Head(in_buf[c])])
        ELSE Becomes(Loop("read")) /\ UNCHANGED in_buf
  /\ UNCHANGED <<console_table, nr_current_console, crtc>>

(***************************************************************************)
(* sys_printx(): tty_write() of one character on the terminal of the       *)
(* caller; a longer text is several of these.                              *)
(***************************************************************************)
sys_printx(c, ch) ==
  /\ Len(acts) = 1
  /\ acts' = Append(acts, [Calls("enter", c, 0, "user") EXCEPT !.ch = ch])
  /\ UNCHANGED <<console_table, in_buf, nr_current_console, crtc>>

(***************************************************************************)
(* init_tty() has run for every terminal: init_screen() wrote the number   *)
(* of the console and "#" on all but the first, and set the cursor to that *)
(* of the last.  The task is at select_console(0).                         *)
(***************************************************************************)
FirstCursor(c) == IF c = 0 THEN 0 ELSE original_addr(c) + 2

Init ==
  /\ console_table = [c \in Console |-> [start |-> original_addr(c), cursor |-> FirstCursor(c)]]
  /\ in_buf = [c \in Console |-> <<>>]
  /\ nr_current_console = 0
  /\ crtc = [cursor |-> NR_CONSOLES - 1, start |-> 0]
  /\ acts = <<Calls("flush", 0, 0, "read")>>

task_tty == NoKey \/ (\E k \in Key : in_process(k)) \/ tty_do_write

Next ==
  \/ out_char
  \/ task_tty
  \/ \E c \in Printing, ch \in Char : sys_printx(c, ch)

\* The kernel runs when it was called; the scheduler returns to the task
\* however often other processes print.
Fairness ==
  /\ WF_vars(Len(acts) = 2 /\ out_char)
  /\ SF_vars(Len(acts) = 1 /\ (out_char \/ NoKey \/ tty_do_write))

Spec == Init /\ [][Next]_vars /\ Fairness

-----------------------------------------------------------------------------
Activation ==
  [at  : {"enter", "put", "move", "test", "compare", "scroll", "store",
          "flush", "set_start", "read", "write"},
   con : Console, ch : Char, reg : Nat, ret : {"read", "write", "user"}]

(* Type correctness: among them the shown console exists, and sys_printx()  *)
(* interrupts nothing but the task.                                         *)
TypeOK ==
  /\ console_table \in [Console -> [start : Nat, cursor : Nat]]
  /\ in_buf \in [Console -> Seq(Char)]
  /\ nr_current_console \in Console
  /\ crtc \in [cursor : Console, start : Console]
  /\ acts \in Seq(Activation) /\ Len(acts) \in 1 .. 2
  /\ acts[1].ret # "user" /\ (Len(acts) = 2 => acts[2].ret = "user")

(* The cursor of a console stays among its cells, though the check of its  *)
(* place and the change of it (tty.cpp:137 and 140) are two accesses, and  *)
(* a process may print between them.  It may stand behind the last cell.   *)
CursorInConsole ==
  \A c \in Console : console_table[c].cursor \in original_addr(c) .. limit(c)

(* No letter and no blank is written to a cell of another console, even    *)
(* with a cursor read before other processes printed (tty.cpp:119).        *)
OwnCells ==
  \A i \in 1 .. Len(acts) :
    LET a == acts[i]
    IN /\ a.at = "put" => a.reg \in original_addr(a.con) .. limit(a.con) - 1
       /\ a.at = "move" /\ a.ch = "backspace" =>
            a.reg - 1 \in original_addr(a.con) .. limit(a.con) - 1

(* As long as the cursor is below the screen scroll_screen() can scroll:   *)
(* the loop at tty.cpp:145 never spins on a screen that is at its end.     *)
ScrollEnds ==
  \A c \in Console :
    LET p == console_table[c]
    IN p.cursor >= p.start + SCREEN_SIZE => CanScrollDown(c, p.start)

(* The display shows the console that is selected: no output to another    *)
(* console moves the screen or its cursor (tty.cpp:148), except while the  *)
(* task is in select_console().                                            *)
Selecting == acts[1].at \in {"flush", "set_start"}

ShowsCurrent ==
  ~ Selecting => crtc = [cursor |-> nr_current_console, start |-> nr_current_console]

(* A key is echoed on the console it was typed on, before the next is      *)
(* read: no character waits in a ring when the task reads a key, and so    *)
(* the ring of a terminal is never full (tty.cpp:34).                      *)
EchoedFirst ==
  acts[1].at = "read" => \A c \in Console : in_buf[c] = <<>>

(* The task gets back to the keyboard, and every printx returns, however   *)
(* their output interleaves (tty.cpp:145).                                 *)
OutCharReturns ==
  /\ acts[1].at # "read" ~> acts[1].at = "read"
  /\ Len(acts) = 2 ~> Len(acts) = 1
=============================================================================
