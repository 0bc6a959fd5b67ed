--------------------------------- MODULE Fs ---------------------------------
(***************************************************************************)
(* The file system task (fs.cpp) on a FAT12 floppy (fat12.cpp): the table  *)
(* of open files and the requests OPEN, SIZE, READ and CLOSE.              *)
(*                                                                         *)
(* The task serves one request after the other.  A READ is one step for    *)
(* each sector, because the task waits for the driver in between and the   *)
(* other processes run; the other requests change nothing before they end  *)
(* and are one step each.  Every client does what do_excute() does with a  *)
(* file (open, size, read of the whole file, close), but may leave steps   *)
(* out and may exit whenever it is not waiting.                            *)
(***************************************************************************)
EXTENDS Integers, Sequences, FiniteSets

CONSTANTS
  MAX_OPEN_FILE,   \* slots of file_table
  Client,          \* the processes that use files
  Name,            \* the names they ask for
  TooLong,         \* of these, the names of MAX_PATH characters and more
  Dir,             \* the root directory: name -> first cluster, size, file or not
  Fat              \* the allocation table: cluster -> the cluster that follows

SECTOR_SIZE == 512
Slot        == 0 .. (MAX_OPEN_FILE - 1)
Bit         == {0, 1}
FS_FILE      == 0
FS_DIRECTORY == 1
FS_INVALID   == 2
FreshCode    == 3              \* mutant: a constant of its own
FS_NOTHING   == FS_INVALID
NoName       == "no name"

Cluster == DOMAIN Fat
LAST    == 4095                \* in Fat: no cluster follows

ASSUME FsAssumption ==
  /\ MAX_OPEN_FILE \in Nat \ {0}
  /\ Cluster \subseteq 2 .. 4079 /\ \A c \in Cluster : Fat[c] \in Cluster \cup {LAST}
  /\ NoName \notin Name /\ DOMAIN Dir \subseteq Name
  /\ \A f \in DOMAIN Dir : Dir[f].first \in Cluster /\ Dir[f].size \in Nat

VARIABLES
  file_table,   \* per slot: flags, name, file_len, current_cluster, eof
  held,         \* per client: what it knows of each file it has open
  reading       \* the READ being served, if any

vars == <<file_table, held, reading>>

Idle == [state |-> "idle"]

(***************************************************************************)
(* The disk.  An entry of the table takes twelve bits; FatByte is byte i   *)
(* of its packed form.                                                     *)
(***************************************************************************)
Entry(c) == IF c \in Cluster THEN Fat[c] ELSE 0

FatByte(i) ==
  LET c == 2 * (i \div 3)
  IN  CASE i % 3 = 0 -> Entry(c) % 256
        [] i % 3 = 1 -> Entry(c) \div 256 + 16 * (Entry(c + 1) % 16)
        [] i % 3 = 2 -> Entry(c + 1) \div 16

\* The sixteen bits at the entry of cluster c.  The shift for the entry of an
\* odd cluster is computed and dropped.
Word(c) == LET FAT_Offset == c + c \div 2
           IN  FatByte(FAT_Offset) + 256 * FatByte(FAT_Offset + 1)

Unmasked(c)    == Word(c)      \* mutant: no case for the even entries
nextCluster(c) == IF c % 2 = 1 THEN Word(c) ELSE Word(c) % 4096

\* The file after its current cluster has been copied.
fsys_fat_read(file) ==
  LET next == nextCluster(file.current_cluster)
  IN  IF next >= 4088 THEN [file EXCEPT !.eof = 1]
                      ELSE [file EXCEPT !.current_cluster = next]

(***************************************************************************)
(* OPEN.  A name that is not that of a file in the root directory gives a  *)
(* FILE whose only field that is set is flags.                             *)
(***************************************************************************)
Unset(junk) ==
  [flags |-> FS_INVALID, name |-> NoName, file_len |-> 0,
   current_cluster |-> 0, eof |-> junk]

fsys_fat_directory(f, junk) ==
  IF f \in DOMAIN Dir
    THEN [flags |-> IF Dir[f].file THEN FS_FILE ELSE FS_DIRECTORY, name |-> f,
          file_len |-> Dir[f].size, current_cluster |-> Dir[f].first, eof |-> 0]
    ELSE Unset(junk)

fsys_fat_open(f, junk) ==
  LET file == fsys_fat_directory(f, junk)
  IN  IF file.flags = FS_FILE THEN file ELSE Unset(junk)

\* mutant: the search looks at the flags of slot 0 only
NotTested(i) == i = 0 \/ file_table[0].flags # FS_NOTHING

FreeSlot(i) ==
  /\ file_table[i].flags = FS_NOTHING
  /\ \A j \in Slot : j < i => file_table[j].flags # FS_NOTHING

\* mutant: descriptors counted from one
FromOne(fd, f) == [fd |-> fd + 1, name |-> f, len |-> -1, got |-> <<>>]

NewHold(fd, f) == [fd |-> fd, name |-> f, len |-> -1, got |-> <<>>]

fsys_do_open(c, f) ==
  /\ reading = Idle
  /\ IF f \in TooLong THEN UNCHANGED <<file_table, held>>
     ELSE \/ \E i \in Slot, junk \in Bit :
               /\ FreeSlot(i)
               /\ file_table' = [file_table EXCEPT ![i] = fsys_fat_open(f, junk)]
               /\ held' = IF file_table'[i].flags = FS_INVALID THEN held
                          ELSE [held EXCEPT ![c] = @ \cup {NewHold(i, f)}]
          \/ /\ \A i \in Slot : ~ FreeSlot(i)
             /\ UNCHANGED <<file_table, held>>
  /\ UNCHANGED reading

(***************************************************************************)
(* SIZE and CLOSE, for a file h that client c has open.                    *)
(***************************************************************************)
Update(c, h, new) == held' = [held EXCEPT ![c] = (@ \ {h}) \cup {new}]

fsys_get_file_len(c, h) ==
  /\ reading = Idle
  /\ Update(c, h, [h EXCEPT !.len = file_table[h.fd].file_len])
  /\ UNCHANGED <<file_table, reading>>

fsys_do_close(c, h) ==
  /\ reading = Idle
  /\ file_table' = [file_table EXCEPT ![h.fd].flags = FS_INVALID]
  /\ held' = [held EXCEPT ![c] = @ \ {h}]
  /\ UNCHANGED reading

(***************************************************************************)
(* READ: whole sectors until the loop stops, and one more unless the file  *)
(* has ended.  The loop looks at the end-of-file mark of the slot whose    *)
(* number is the number of the sector, and behind the table at whatever    *)
(* the memory holds there.                                                 *)
(***************************************************************************)
fsys_do_read(c, h) ==
  /\ reading = Idle /\ h.len >= 0 /\ h.got = <<>>
  /\ reading' = [state |-> "reading", client |-> c, file |-> h,
                 n |-> h.len \div SECTOR_SIZE, got |-> <<>>]
  /\ UNCHANGED <<file_table, held>>

LoopEof(i) == IF i \in Slot THEN {file_table[i].eof} ELSE Bit

\* i, the sectors copied so far, and the file as it stands.
Copied == Len(reading.got)

Here == file_table[reading.file.fd]

Copy == file_table' = [file_table EXCEPT ![reading.file.fd] = fsys_fat_read(@)]

ReadSector ==
  /\ reading # Idle
  /\ Copied < reading.n /\ 0 \in LoopEof(Copied)
  /\ Copy
  /\ reading' = [reading EXCEPT !.got = Append(@, Here.current_cluster)]
  /\ UNCHANGED held

Answer(got) ==
  /\ Update(reading.client, reading.file, [reading.file EXCEPT !.got = got])
  /\ reading' = Idle

ReadRest ==
  /\ reading # Idle
  /\ Copied = reading.n \/ 1 \in LoopEof(Copied)
  /\ IF Here.eof = 1
       THEN Answer(reading.got) /\ UNCHANGED file_table
       ELSE Answer(Append(reading.got, Here.current_cluster)) /\ Copy

(***************************************************************************)
(* A program that exits tells the file system nothing; the next program in *)
(* its slot of the process table has no file open.                         *)
(***************************************************************************)
Waits(c) == reading # Idle /\ reading.client = c

Exit(c) ==
  /\ ~ Waits(c)
  /\ held' = [held EXCEPT ![c] = {}]
  /\ UNCHANGED <<file_table, reading>>

(***************************************************************************)
(* init_fsys() sets the flags of the slots and nothing else.               *)
(***************************************************************************)
Init ==
  /\ \E left \in [Slot -> Bit] :
       file_table = [i \in Slot |-> [Unset(left[i]) EXCEPT !.flags = FS_NOTHING]]
  /\ held = [c \in Client |-> {}]
  /\ reading = Idle

Next ==
  \/ \E c \in Client :
       \/ Exit(c)
       \/ \E f \in Name : fsys_do_open(c, f)
       \/ \E h \in held[c] : fsys_get_file_len(c, h) \/ fsys_do_read(c, h) \/ fsys_do_close(c, h)
  \/ ReadSector \/ ReadRest

Spec == Init /\ [][Next]_vars

(***************************************************************************)
(* Safety.                                                                 *)
(***************************************************************************)
ClusterNo == 0 .. 4087

FILE == [flags : {FS_FILE, FS_DIRECTORY, FS_INVALID, FS_NOTHING}, name : Name \cup {NoName},
         file_len : Nat, current_cluster : ClusterNo, eof : Bit]
Hold == [fd : Slot, name : Name, len : Nat \cup {-1}, got : Seq(ClusterNo)]
Read == [state : {"reading"}, client : Client, file : Hold, n : Nat, got : Seq(ClusterNo)]

TypeOK ==
  /\ file_table \in [Slot -> FILE]
  /\ held \in [Client -> SUBSET Hold]
  /\ reading \in Read \cup {Idle}

\* An open descriptor belongs to one client and stands for the file that the
\* client opened, whatever is opened, closed, refused or read by others and
\* whoever exits (fsys_do_open, fsys_do_close).
HeldFile ==
  \A c, d \in Client : \A g \in held[c], h \in held[d] :
    /\ g.fd \in Slot /\ file_table[g.fd].flags = FS_FILE
    /\ file_table[g.fd].name = g.name /\ file_table[g.fd].file_len = Dir[g.name].size
    /\ g.fd = h.fd => c = d /\ g = h

\* The clusters after which the code goes astray: the entry of an odd cluster
\* comes out right only at the end of a file (nextCluster).
Astray(c) == c % 2 = 1 /\ Entry(c) # LAST

Exact(got, k) == \A j \in 1 .. (k - 1) : ~ Astray(got[j])

\* The cluster where a file stands when c has been copied.
After(c) == IF Entry(c) = LAST THEN c ELSE Entry(c)

\* The sectors got are no more than file f has, and they, and the cluster where
\* the file stands after them, are those of the chain of f up to the first
\* cluster, included, after which the code goes astray.
Follows(f, got, file) ==
  LET walk == Append(got, file.current_cluster)
  IN  /\ Len(got) <= Dir[f].size \div SECTOR_SIZE + 1
      /\ \A k \in 1 .. Len(walk) :
           Exact(got, k) => walk[k] = IF k = 1 THEN Dir[f].first ELSE After(got[k - 1])
      /\ Exact(got, Len(walk)) =>
           (file.eof = 1 <=> got # <<>> /\ Entry(got[Len(got)]) = LAST)

\* The sectors a read has copied are those of the first clusters of the file,
\* in the order of its chain, and the file stands at the cluster after them or
\* at its end; so it is between any two sectors and for every open file, until
\* an odd cluster has been copied that is not the last of its file: what then
\* follows is fs_odd (fsys_do_read, fsys_fat_read).  A read may end early: the
\* property does not say that it copies the whole file.
ReadPrefix ==
  /\ \A c \in Client : \A h \in held[c] :
       ~ (Waits(c) /\ reading.file = h) => Follows(h.name, h.got, file_table[h.fd])
  /\ reading # Idle => Follows(reading.file.name, reading.got, Here)

\* Slots that are taken although no client has them open.
Lost == {i \in Slot : /\ file_table[i].flags # FS_NOTHING
                      /\ \A c \in Client : \A h \in held[c] : h.fd # i}

\* A slot gets lost only to a program that exits with the file open; a failed
\* open and a close give back what they took (fsys_do_open, fsys_do_close).
LostByExit ==
  [][\A i \in Lost' \ Lost :
       \E c \in Client : held'[c] = {} /\ \E h \in held[c] : h.fd = i /\ UNCHANGED file_table]_vars

=============================================================================
