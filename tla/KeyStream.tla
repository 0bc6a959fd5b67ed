------------------------------ MODULE KeyStream ------------------------------
(***************************************************************************)
(* What the keyboard path promises a typist: every key that is pressed is  *)
(* reported once, in order, with the modifiers that were held when it was  *)
(* pressed.                                                                *)
(***************************************************************************)
EXTENDS Sequences

CONSTANTS
  Key,            \* the keys that are held down and released
  Report(_, _),   \* Report(k, held): what pressing k with held down reports
  Silent          \* keys that report nothing

VARIABLES
  held,           \* the keys that are down
  typed,          \* the reports not yet made
  last            \* the report made last

vars == <<held, typed, last>>

Press(k) ==
  /\ k \notin held
  /\ held' = held \cup {k}
  /\ typed' = IF k \in Silent THEN typed ELSE Append(typed, Report(k, held'))
  /\ UNCHANGED last

Release(k) ==
  /\ k \in held
  /\ held' = held \ {k}
  /\ UNCHANGED <<typed, last>>

Deliver ==
  /\ typed # <<>>
  /\ last' = Head(typed) /\ typed' = Tail(typed)
  /\ UNCHANGED held

Init == held = {} /\ typed = <<>>

Next == Deliver \/ \E k \in Key : Press(k) \/ Release(k)

Spec == Init /\ [][Next]_vars

=============================================================================
