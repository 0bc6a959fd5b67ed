------------------------------- MODULE MCPmm -------------------------------
(***************************************************************************)
(* Words of four frames, the first for the system; three frames are not    *)
(* memory, and of two of these memset() clears the bit.  A program takes   *)
(* three frames and gives back six.                                        *)
(***************************************************************************)
EXTENDS Pmm, TLC

MCAvailable == (0 .. MaxBlocks - 1) \ {3, 6, 7}

Symmetry == Permutations(Slots)

\* pmm.cpp:32, "find the first free bit": the frame found for a file of one
\* frame is not in use by a program, also not by the one being loaded.
BufferApart == \A s \in running : sysbuf.n = 1 => sysbuf.first \notin Region(base[s], ImageFrames)
=============================================================================
