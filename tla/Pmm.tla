-------------------------------- MODULE Pmm --------------------------------
(***************************************************************************)
(* The page frames (pmm.cpp) and the one task that takes and gives them    *)
(* back: the system task, when a program is started (do_excute) and when   *)
(* it ends (do_exit).  The bitmap is the set of frames marked as used.     *)
(*                                                                         *)
(* The searches read the words of the map up to the number of frames, not  *)
(* of words, and bits far from the one they start at: what they find       *)
(* outside the map is the contents of unrelated memory, here any value.    *)
(***************************************************************************)
EXTENDS Integers, FiniteSets

CONSTANTS
  W,                 \* frames to a word of the map, 32
  MaxBlocks,         \* _pmmgr_max_blocks
  Available,         \* frames in the memory regions of type 1
  SystemFrames,      \* frames of the first two megabytes
  ImageFrames,       \* 256, for each program
  PMMGR_BLOCK_SIZE,  \* 4096
  Slots,             \* slots of the process table for programs
  BufferSizes,       \* frames for the file of a program
  Width              \* range of uint32_t

ASSUME PmmAssumption ==
  /\ W \in Nat \ {0} /\ MaxBlocks \in Nat /\ Available \subseteq 0 .. MaxBlocks - 1
  /\ SystemFrames \in Nat /\ SystemFrames % W = 0
  /\ 0 < SystemFrames /\ SystemFrames <= MaxBlocks
  /\ ImageFrames \in Nat \ {0, 1} /\ PMMGR_BLOCK_SIZE \in Nat \ {0}
  /\ BufferSizes \subseteq Nat \ {0} /\ Width \in Nat \ {0}

Frame   == 0 .. MaxBlocks - 1
Outside == MaxBlocks            \* stands for every frame past the map

VARIABLES
  memory_map,    \* the frames marked as used
  used_blocks,   \* _pmmgr_used_blocks
  running,       \* the slots that are not FREE_SLOT
  base,          \* p->base of each slot, in frames; 0 is the null pointer
  sysbuf         \* frames of the last buffer a file was read to: first and number

vars == <<memory_map, used_blocks, running, base, sysbuf>>

Region(first, n) == (first .. first + n - 1) \cap Frame

pmmgr_get_free_block_count(count) == (MaxBlocks - count) % Width

(***************************************************************************)
(* Bit j of word i of the map is frame i * W + j.  mmap_first_free() tests *)
(* the bits i << j of word i at once, and when none is set returns frame   *)
(* i * W + j.  For several frames the frame is tested and then as many     *)
(* frames are counted from i * W + (1 << j); at the sign bit the position  *)
(* is negative.                                                            *)
(***************************************************************************)
WordFull(map, i) == \A j \in 0 .. W - 1 : i * W + j \in map

Bit(v, b) == (v \div 2^b) % 2 = 1

ShiftClear(map, f) ==
  LET i == f \div W
      j == f % W
  IN \A b \in 0 .. W - 1 : Bit(i * 2^j, b) => i * W + b \notin map

Window(f, n) ==
  IF f % W = W - 1 THEN {}
  ELSE LET start == (f \div W) * W + 2^(f % W) IN (start .. start + n) \cap Frame

\* Frames where the search must stop, and where it may, with bits outside.
Certain(map, n) ==
  {f \in Frame : /\ ~ WordFull(map, f \div W)
                 /\ IF n = 1 THEN ShiftClear(map, f)
                    ELSE f \notin map /\ Cardinality(Window(f, n) \ map) >= n}

Possible(map, n) ==
  {f \in Frame : /\ ~ WordFull(map, f \div W)
                 /\ IF n = 1 THEN ShiftClear(map, f)
                    ELSE f \notin map /\ Cardinality(Window(f, n) \cap map) <= 1}

\* Mutant: a program of many frames is placed like one frame.
FirstFreeAnyway(map, n) ==
  {f \in Possible(map, 1) : \A g \in Certain(map, 1) : f <= g}
  \cup IF Certain(map, 1) = {} THEN {-1, Outside} ELSE {}

\* What mmap_first_free_s() may return; mmap_first_free() for one frame.
mmap_first_free_s(map, n) ==
  {f \in Possible(map, n) : \A g \in Certain(map, n) : f <= g}
  \cup IF Certain(map, n) = {} THEN {-1, Outside} ELSE {}

\* What pmmgr_alloc_blocks() may give: the frame, 0 for none, and the map.
pmmgr_alloc_blocks(map, count, n) ==
  IF pmmgr_get_free_block_count(count) <= n
  THEN {[frame |-> 0, map |-> map, count |-> count]}
  ELSE {IF f = -1 THEN [frame |-> 0, map |-> map, count |-> count]
        ELSE [frame |-> f, map |-> map \cup Region(f, n), count |-> (count + n) % Width] :
          f \in mmap_first_free_s(map, n)}

\* pmmgr_free_blocks().
Freed(map, first, n) == map \ Region(first, n)

(***************************************************************************)
(* Power-on: memset() writes 15 to each byte of the map, the available     *)
(* regions are freed, and the first two megabytes are taken.               *)
(***************************************************************************)
Init ==
  /\ memory_map = ({f \in Frame : f % 8 < 4} \ Available) \cup Region(0, SystemFrames)
  /\ used_blocks = (MaxBlocks - Cardinality(Available) + SystemFrames) % Width
  /\ running = {} /\ base = [s \in Slots |-> 0]
  /\ sysbuf = [first |-> 0, n |-> 0]

\* A program is started.  That an allocation fails is not noticed.
do_excute(s, n) ==
  /\ s \notin running
  /\ \E image \in pmmgr_alloc_blocks(memory_map, used_blocks, ImageFrames) :
       \E buffer \in pmmgr_alloc_blocks(image.map, image.count, n) :
         /\ memory_map' = buffer.map /\ used_blocks' = buffer.count
         /\ base' = [base EXCEPT ![s] = image.frame]
         /\ sysbuf' = [first |-> buffer.frame, n |-> n]
  /\ running' = running \cup {s}

\* The file cannot be opened: the image stays taken, the slot free.
NoSuchFile(s) ==
  /\ s \notin running
  /\ \E image \in pmmgr_alloc_blocks(memory_map, used_blocks, ImageFrames) :
       /\ memory_map' = image.map /\ used_blocks' = image.count
       /\ base' = [base EXCEPT ![s] = image.frame]
  /\ UNCHANGED <<running, sysbuf>>

\* Mutant: also a program without frames of its own gives back.
ExitAlways(s) ==
  /\ s \in running
  /\ memory_map' = Freed(memory_map, base[s], ImageFrames * PMMGR_BLOCK_SIZE)
  /\ used_blocks' = (used_blocks - ImageFrames * PMMGR_BLOCK_SIZE) % Width
  /\ running' = running \ {s}
  /\ UNCHANGED <<base, sysbuf>>

\* Mutant: the counter is signed.
ExitSigned(s) ==
  /\ s \in running
  /\ IF base[s] # 0
     THEN /\ memory_map' = Freed(memory_map, base[s], ImageFrames * PMMGR_BLOCK_SIZE)
          /\ used_blocks' = used_blocks - ImageFrames * PMMGR_BLOCK_SIZE
     ELSE UNCHANGED <<memory_map, used_blocks>>
  /\ running' = running \ {s}
  /\ UNCHANGED <<base, sysbuf>>

\* The size is given in bytes where pmmgr_free_blocks() takes frames.
do_exit(s) ==
  /\ s \in running
  /\ IF base[s] # 0
     THEN LET n == ImageFrames * PMMGR_BLOCK_SIZE
          IN /\ memory_map' = Freed(memory_map, base[s], n)
             /\ used_blocks' = (used_blocks - n) % Width
     ELSE UNCHANGED <<memory_map, used_blocks>>
  /\ running' = running \ {s}
  /\ UNCHANGED <<base, sysbuf>>

Next ==
  \E s \in Slots :
    \/ \E n \in BufferSizes : do_excute(s, n)
    \/ NoSuchFile(s)
    \/ do_exit(s)

Spec == Init /\ [][Next]_vars

-----------------------------------------------------------------------------
(* Type correctness: the counter of frames wraps and is never negative.    *)
TypeOK ==
  /\ memory_map \subseteq Frame
  /\ used_blocks \in 0 .. Width - 1
  /\ running \subseteq Slots
  /\ base \in [Slots -> 0 .. Outside]
  /\ sysbuf \in [first : 0 .. Outside, n : Nat]

(* No frame of the first two megabytes is ever given out or given back,    *)
(* though the searches miss the frames they mean, an allocation that fails *)
(* is used as an address, and a program gives back thousands of frames it  *)
(* never had (pmm.cpp:113 and main.cpp:64).                                *)
SystemKept ==
  /\ Region(0, SystemFrames) \subseteq memory_map
  /\ \A s \in Slots : base[s] = 0 \/ base[s] >= SystemFrames
  /\ sysbuf.first = 0 \/ sysbuf.first >= SystemFrames

(* The first frame of a program was not in use when it was placed, however *)
(* little the search knows of the others (pmm.cpp:59).                     *)
ImageStartsFree ==
  [][\A s \in Slots : base'[s] # base[s] /\ base'[s] \in Frame \ {0} => base'[s] \notin memory_map]_vars
=============================================================================
