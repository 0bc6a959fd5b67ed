-------------------------------- MODULE MCFs --------------------------------
(***************************************************************************)
(* Fs with a small disk and a bound on the files a client has open.        *)
(***************************************************************************)
EXTENDS Fs, TLC

CONSTANT MaxHeld   \* bound: files a client has open at a time

\* A file of three clusters and 1400 bytes, one of four whose second cluster is
\* odd, a file of one cluster, a directory.  In the first layout the first file
\* is read right to its end, in the second it has consecutive clusters.
TheDir == ("long"  :> [first |-> 2, size |-> 1400, file |-> TRUE]) @@
          ("mixed" :> [first |-> 10, size |-> 1600, file |-> TRUE]) @@
          ("short" :> [first |-> 5, size |-> 512, file |-> TRUE]) @@
          ("sub"   :> [first |-> 8, size |-> 0, file |-> FALSE])

Others == (10 :> 13) @@ (13 :> 14) @@ (14 :> 15) @@ (15 :> LAST) @@ (5 :> LAST) @@ (8 :> LAST)
EvenFat == (2 :> 4) @@ (4 :> 6) @@ (6 :> LAST) @@ Others
OddFat  == (2 :> 3) @@ (3 :> 4) @@ (4 :> LAST) @@ Others

BoundedNext == Next /\ \A c \in Client : Cardinality(held'[c]) <= MaxHeld
BoundedSpec == Init /\ [][BoundedNext]_vars

\* "set next cluster" (fat12.cpp:139): after a sector has been copied, the
\* file stands at the cluster that the allocation table names as the next one.
NextClusterSet ==
  [][\A i \in Slot :
       file_table'[i].current_cluster # file_table[i].current_cluster /\ reading # Idle =>
         file_table'[i].current_cluster = Fat[file_table[i].current_cluster]]_vars
=============================================================================
