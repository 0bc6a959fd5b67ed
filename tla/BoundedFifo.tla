----------------------------- MODULE BoundedFifo -----------------------------
(***************************************************************************)
(* What an input ring promises: what arrives is given out once and in the  *)
(* order of arrival; it is dropped when Capacity items wait, and only then.*)
(***************************************************************************)
EXTENDS Naturals, Sequences

CONSTANT Capacity

VARIABLES
  source,   \* what is on its way
  q         \* what waits to be taken

vars == <<source, q>>

Send == source = <<>> /\ source' # <<>> /\ UNCHANGED q

Arrive ==
  /\ source # <<>> /\ source' = Tail(source)
  /\ q' = IF Len(q) < Capacity THEN Append(q, Head(source)) ELSE q

Leave == q # <<>> /\ q' = Tail(q) /\ UNCHANGED source

Init == source = <<>> /\ q = <<>>

Next == Send \/ Arrive \/ Leave

Spec == Init /\ [][Next]_vars

=============================================================================
