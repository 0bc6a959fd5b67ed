------------------------------- MODULE MCFlpy ------------------------------
(***************************************************************************)
(* A disk of two cylinders, two heads and three sectors to a track, and    *)
(* two attempts: a seek may fail once and succeed, or fail for good.       *)
(***************************************************************************)
EXTENDS Flpy
=============================================================================
