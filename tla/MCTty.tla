------------------------------- MODULE MCTty -------------------------------
(***************************************************************************)
(* Two consoles of seven cells, with screens of two lines of two cells: as  *)
(* in the real terminal a console holds a few screens and no whole number  *)
(* of lines.  Two processes print, each on a console of its own.           *)
(***************************************************************************)
EXTENDS Tty

MCKey == {"a", "enter", "backspace", "up", "down", "f1", "f2", "f3"}
=============================================================================
