----------------------------- MODULE PmmProofs -----------------------------
(***************************************************************************)
(* Proofs about Pmm: what the searches may return, and that whatever is    *)
(* returned the frames of the system stay in use.                          *)
(***************************************************************************)
EXTENDS Pmm, FiniteSetTheorems, TLAPS

(***************************************************************************)
(* The frames of the system fill whole words.                              *)
(***************************************************************************)
LEMMA Division ==
  ASSUME NEW n \in Nat
  PROVE  n \div W \in Nat /\ n % W \in 0 .. W - 1 /\ n = W * (n \div W) + (n % W)
BY PmmAssumption

LEMMA WordBelow ==
  ASSUME NEW f \in Nat, f < SystemFrames, NEW j \in 0 .. W - 1
  PROVE  (f \div W) * W + j \in 0 .. SystemFrames - 1
<1> DEFINE i == f \div W
           k == SystemFrames \div W
<1>1. i \in Nat /\ k \in Nat /\ W \in Nat \ {0} /\ SystemFrames \in Nat
  BY Division, PmmAssumption
<1>2. f >= i * W
  BY Division, <1>1
<1>3. SystemFrames = k * W
  BY Division, PmmAssumption, <1>1
<1>4. i < k
  <2>1. SUFFICES ASSUME i >= k PROVE FALSE
    BY <1>1
  <2>2. i * W >= k * W
    BY <1>1, <2>1
  <2> QED BY <1>1, <1>2, <1>3, <2>2
<1>5. (i + 1) * W <= k * W
  BY <1>1, <1>4
<1>6. (i + 1) * W = i * W + W /\ i * W \in Nat
  BY <1>1
<1> QED BY <1>1, <1>3, <1>5, <1>6

(***************************************************************************)
(* The searches.  Whatever the test of the frame is, it is made only in a  *)
(* word that is not full.                                                  *)
(***************************************************************************)
SystemUsed(map) == Region(0, SystemFrames) \subseteq map

LEMMA FoundPastSystem ==
  ASSUME NEW map, SystemUsed(map), NEW n, NEW f \in mmap_first_free_s(map, n)
  PROVE  f = -1 \/ (f \in 0 .. Outside /\ f >= SystemFrames)
<1>1. CASE f \in {-1, Outside}
  BY <1>1, PmmAssumption DEF Outside
<1>2. CASE f \in Possible(map, n)
  <2>1. f \in Nat /\ f < MaxBlocks /\ MaxBlocks \in Nat /\ ~ WordFull(map, f \div W)
    BY <1>2, PmmAssumption DEF Possible, Frame
  <2>2. ASSUME f < SystemFrames PROVE FALSE
    <3>1. \A j \in 0 .. W - 1 : (f \div W) * W + j \in 0 .. SystemFrames - 1
      BY <2>1, <2>2, WordBelow
    <3>2. 0 .. SystemFrames - 1 \subseteq map
      BY PmmAssumption DEF SystemUsed, Region, Frame
    <3>3. WordFull(map, f \div W)
      BY <3>1, <3>2 DEF WordFull
    <3> QED BY <2>1, <3>3
  <2> QED BY <2>1, <2>2, PmmAssumption DEF Outside
<1> QED BY <1>1, <1>2 DEF mmap_first_free_s

LEMMA FoundSeveralFree ==
  ASSUME NEW map, NEW n, n # 1, NEW f \in mmap_first_free_s(map, n), f \in Frame
  PROVE  f \notin map
<1>1. f # -1 /\ f # Outside
  BY PmmAssumption DEF Frame, Outside
<1> QED BY <1>1 DEF mmap_first_free_s, Possible

LEMMA AllocGives ==
  ASSUME NEW map \in SUBSET Frame, SystemUsed(map), NEW count \in 0 .. Width - 1,
         NEW n \in Nat \ {0}, NEW a \in pmmgr_alloc_blocks(map, count, n)
  PROVE  /\ a.frame \in 0 .. Outside /\ (a.frame = 0 \/ a.frame >= SystemFrames)
         /\ a.map \in SUBSET Frame /\ map \subseteq a.map
         /\ a.count \in 0 .. Width - 1
         /\ n # 1 /\ a.frame \in Frame \ {0} => a.frame \notin map
<1>1. CASE a = [frame |-> 0, map |-> map, count |-> count]
  BY <1>1, PmmAssumption DEF Outside
<1>2. CASE \E f \in mmap_first_free_s(map, n) :
             /\ f # -1
             /\ a = [frame |-> f, map |-> map \cup Region(f, n), count |-> (count + n) % Width]
  <2>1. PICK f \in mmap_first_free_s(map, n) :
          /\ f # -1
          /\ a = [frame |-> f, map |-> map \cup Region(f, n), count |-> (count + n) % Width]
    BY <1>2
  <2>2. f \in 0 .. Outside /\ f >= SystemFrames
    BY <2>1, FoundPastSystem
  <2>3. Region(f, n) \subseteq Frame
    BY DEF Region
  <2>4. (count + n) % Width \in 0 .. Width - 1
    BY PmmAssumption
  <2>5. n # 1 /\ f \in Frame => f \notin map
    BY <2>1, FoundSeveralFree
  <2> QED BY <2>1, <2>2, <2>3, <2>4, <2>5
<1> QED BY <1>1, <1>2 DEF pmmgr_alloc_blocks

(***************************************************************************)
(* The invariant.  SystemKept is inductive with the types.                 *)
(***************************************************************************)
PmmInv == TypeOK /\ SystemKept

LEMMA PmmInit == Init => PmmInv
<1> SUFFICES ASSUME Init PROVE PmmInv
  OBVIOUS
<1>1. Cardinality(Available) \in Nat
  <2>1. IsFiniteSet(0 .. MaxBlocks - 1)
    BY PmmAssumption, FS_Interval
  <2> QED BY <2>1, PmmAssumption, FS_Subset, FS_CardinalityType
<1>2. used_blocks \in 0 .. Width - 1
  BY <1>1, PmmAssumption DEF Init
<1>3. memory_map \subseteq Frame /\ Region(0, SystemFrames) \subseteq memory_map
  BY DEF Init, Region
<1>4. base \in [Slots -> 0 .. Outside] /\ \A s \in Slots : base[s] = 0
  BY PmmAssumption DEF Init, Outside
<1>5. sysbuf \in [first : 0 .. Outside, n : Nat] /\ sysbuf.first = 0
  BY PmmAssumption DEF Init, Outside
<1>6. running \subseteq Slots
  BY DEF Init
<1> QED BY <1>2, <1>3, <1>4, <1>5, <1>6 DEF PmmInv, TypeOK, SystemKept

\* The image of a program that is being loaded.
LEMMA ImageGives ==
  ASSUME PmmInv,
         NEW image \in pmmgr_alloc_blocks(memory_map, used_blocks, ImageFrames)
  PROVE  /\ image.frame \in 0 .. Outside /\ (image.frame = 0 \/ image.frame >= SystemFrames)
         /\ image.map \in SUBSET Frame /\ memory_map \subseteq image.map
         /\ image.count \in 0 .. Width - 1
         /\ image.frame \in Frame \ {0} => image.frame \notin memory_map
<1>1. memory_map \in SUBSET Frame /\ SystemUsed(memory_map) /\ used_blocks \in 0 .. Width - 1
  BY DEF PmmInv, TypeOK, SystemKept, SystemUsed
<1>2. ImageFrames \in Nat \ {0} /\ ImageFrames # 1
  BY PmmAssumption
<1> QED BY <1>1, <1>2, AllocGives

LEMMA LoadKeeps ==
  ASSUME PmmInv, NEW s \in Slots, NEW n \in BufferSizes, do_excute(s, n)
  PROVE  PmmInv'
<1>1. PICK image \in pmmgr_alloc_blocks(memory_map, used_blocks, ImageFrames) :
      \E buffer \in pmmgr_alloc_blocks(image.map, image.count, n) :
        /\ memory_map' = buffer.map /\ used_blocks' = buffer.count
        /\ base' = [base EXCEPT ![s] = image.frame]
        /\ sysbuf' = [first |-> buffer.frame, n |-> n]
  BY DEF do_excute
<1>2. PICK buffer \in pmmgr_alloc_blocks(image.map, image.count, n) :
        /\ memory_map' = buffer.map /\ used_blocks' = buffer.count
        /\ base' = [base EXCEPT ![s] = image.frame]
        /\ sysbuf' = [first |-> buffer.frame, n |-> n]
  BY <1>1
<1>3. /\ image.frame \in 0 .. Outside /\ (image.frame = 0 \/ image.frame >= SystemFrames)
      /\ image.map \in SUBSET Frame /\ SystemUsed(image.map) /\ image.count \in 0 .. Width - 1
  BY ImageGives DEF PmmInv, SystemKept, SystemUsed
<1>4. n \in Nat \ {0}
  BY PmmAssumption
<1>5. /\ buffer.frame \in 0 .. Outside /\ (buffer.frame = 0 \/ buffer.frame >= SystemFrames)
      /\ buffer.map \in SUBSET Frame /\ image.map \subseteq buffer.map
      /\ buffer.count \in 0 .. Width - 1
  BY <1>3, <1>4, AllocGives
<1>6. /\ memory_map' \subseteq Frame /\ Region(0, SystemFrames) \subseteq memory_map'
      /\ used_blocks' \in 0 .. Width - 1
  BY <1>2, <1>3, <1>5 DEF SystemUsed
<1>7. /\ base' \in [Slots -> 0 .. Outside]
      /\ \A t \in Slots : base'[t] = 0 \/ base'[t] >= SystemFrames
  BY <1>2, <1>3 DEF PmmInv, TypeOK, SystemKept
<1>8. /\ sysbuf' \in [first : 0 .. Outside, n : Nat]
      /\ sysbuf'.first = 0 \/ sysbuf'.first >= SystemFrames
  BY <1>2, <1>4, <1>5
<1>9. running' \subseteq Slots
  BY DEF do_excute, PmmInv, TypeOK
<1> QED BY <1>6, <1>7, <1>8, <1>9 DEF PmmInv, TypeOK, SystemKept, Region, Frame, Outside

LEMMA MissingKeeps ==
  ASSUME PmmInv, NEW s \in Slots, NoSuchFile(s)
  PROVE  PmmInv'
<1>1. PICK image \in pmmgr_alloc_blocks(memory_map, used_blocks, ImageFrames) :
        /\ memory_map' = image.map /\ used_blocks' = image.count
        /\ base' = [base EXCEPT ![s] = image.frame]
  BY DEF NoSuchFile
<1>2. /\ image.frame \in 0 .. Outside /\ (image.frame = 0 \/ image.frame >= SystemFrames)
      /\ image.map \in SUBSET Frame /\ memory_map \subseteq image.map
      /\ image.count \in 0 .. Width - 1
  BY ImageGives
<1>3. /\ memory_map' \subseteq Frame /\ Region(0, SystemFrames) \subseteq memory_map'
      /\ used_blocks' \in 0 .. Width - 1
  BY <1>1, <1>2 DEF PmmInv, SystemKept
<1>4. /\ base' \in [Slots -> 0 .. Outside]
      /\ \A t \in Slots : base'[t] = 0 \/ base'[t] >= SystemFrames
  BY <1>1, <1>2 DEF PmmInv, TypeOK, SystemKept
<1> QED BY <1>3, <1>4 DEF PmmInv, TypeOK, SystemKept, NoSuchFile, Region, Frame, Outside

\* What a program gives back lies past the frames of the system.
LEMMA ExitKeeps ==
  ASSUME PmmInv, NEW s \in Slots, do_exit(s)
  PROVE  PmmInv'
<1> DEFINE n == ImageFrames * PMMGR_BLOCK_SIZE
<1>1. n \in Nat /\ SystemFrames \in Nat
  BY PmmAssumption
<1>2. CASE base[s] # 0
  <2>1. memory_map' = memory_map \ Region(base[s], n) /\ used_blocks' = (used_blocks - n) % Width
    BY <1>2 DEF do_exit, Freed
  <2>2. base[s] >= SystemFrames /\ base[s] \in Int
    BY <1>2, PmmAssumption DEF PmmInv, SystemKept, TypeOK, Outside
  <2>3. Region(base[s], n) \cap Region(0, SystemFrames) = {}
    <3> HIDE DEF n
    <3> QED BY <1>1, <2>2 DEF Region, Frame
  <2>4. used_blocks' \in 0 .. Width - 1
    <3> HIDE DEF n
    <3> QED BY <1>1, <2>1, PmmAssumption DEF PmmInv, TypeOK
  <2>5. Region(0, SystemFrames) \subseteq memory_map' /\ memory_map' \subseteq Frame
    BY <2>1, <2>3 DEF PmmInv, SystemKept, TypeOK
  <2> QED BY <2>4, <2>5 DEF PmmInv, TypeOK, SystemKept, do_exit, Region, Frame, Outside
<1>3. CASE base[s] = 0
  BY <1>3 DEF PmmInv, TypeOK, SystemKept, do_exit, Region, Frame, Outside
<1> QED BY <1>2, <1>3

LEMMA PmmStep == PmmInv /\ [Next]_vars => PmmInv'
<1> SUFFICES ASSUME PmmInv, [Next]_vars PROVE PmmInv'
  OBVIOUS
<1>1. ASSUME NEW s \in Slots, NEW n \in BufferSizes, do_excute(s, n) PROVE PmmInv'
  BY <1>1, LoadKeeps
<1>2. ASSUME NEW s \in Slots, NoSuchFile(s) PROVE PmmInv'
  BY <1>2, MissingKeeps
<1>3. ASSUME NEW s \in Slots, do_exit(s) PROVE PmmInv'
  BY <1>3, ExitKeeps
<1>4. CASE UNCHANGED vars
  BY <1>4 DEF PmmInv, TypeOK, SystemKept, vars, Region, Frame, Outside
<1> QED BY <1>1, <1>2, <1>3, <1>4 DEF Next

LEMMA PmmAlways == Spec => []PmmInv
BY PmmInit, PmmStep, PTL DEF Spec

\* Type correctness: the map stays within the frames there are, and the
\* counter of used frames wraps as an unsigned number does.
THEOREM TypeCorrect == Spec => []TypeOK
<1>1. PmmInv => TypeOK
  BY DEF PmmInv
<1> QED BY <1>1, PmmAlways, PTL

\* The frames of the first two megabytes stay in use and no program or file
\* buffer is put there, for every size of memory, image and buffer.
THEOREM SystemFramesKept == Spec => []SystemKept
<1>1. PmmInv => SystemKept
  BY DEF PmmInv
<1> QED BY <1>1, PmmAlways, PTL

\* A program starts at a frame that was free, for every map.
THEOREM ProgramStartsFree == Spec => ImageStartsFree
<1> DEFINE A == \A s \in Slots :
       base'[s] # base[s] /\ base'[s] \in Frame \ {0} => base'[s] \notin memory_map
<1>1. PmmInv /\ [Next]_vars => [A]_vars
  <2> SUFFICES ASSUME PmmInv, Next PROVE A
    BY DEF vars
  <2>1. ASSUME NEW t \in Slots,
               NEW image \in pmmgr_alloc_blocks(memory_map, used_blocks, ImageFrames),
               base' = [base EXCEPT ![t] = image.frame]
        PROVE  A
    <3>1. image.frame \in Frame \ {0} => image.frame \notin memory_map
      BY ImageGives
    <3> QED BY <2>1, <3>1 DEF PmmInv, TypeOK
  <2>2. ASSUME NEW t \in Slots, NEW n \in BufferSizes, do_excute(t, n) PROVE A
    BY <2>1, <2>2 DEF do_excute
  <2>3. ASSUME NEW t \in Slots, NoSuchFile(t) PROVE A
    BY <2>1, <2>3 DEF NoSuchFile
  <2>4. ASSUME NEW t \in Slots, do_exit(t) PROVE A
    BY <2>4 DEF do_exit
  <2> QED BY <2>2, <2>3, <2>4 DEF Next
<1> QED BY <1>1, PmmAlways, PTL DEF Spec, ImageStartsFree
=============================================================================
