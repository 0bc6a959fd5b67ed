------------------------------ MODULE FsProofs ------------------------------
(***************************************************************************)
(* Theorems about Fs, for every size of the table, every set of clients    *)
(* and every disk: types, that descriptors keep their file, that only an   *)
(* exit loses a slot, and that reads follow the chain of the file.         *)
(***************************************************************************)
EXTENDS Fs, TLAPS

USE DEF FS_FILE, FS_DIRECTORY, FS_INVALID, FS_NOTHING

(***************************************************************************)
(* What the operators on files give.                                       *)
(***************************************************************************)

LEMMA ClusterRange ==
  ASSUME NEW c \in Cluster
  PROVE  c \in Nat /\ c < 4088 /\ c \in ClusterNo /\ c # LAST
<1>1. Cluster \subseteq 2 .. 4079
  BY FsAssumption
<1>2. c \in 2 .. 4079
  BY <1>1
<1> QED BY <1>2 DEF ClusterNo, LAST

\* The entries, the bytes and the word read for a cluster are naturals.
LEMMA EntryNat == ASSUME NEW d PROVE Entry(d) \in Nat
<1>1. \A k \in Cluster : k \in Nat
  BY FsAssumption
<1>2. CASE d \in Cluster
  <2>1. Fat[d] \in Cluster \cup {4095}
    BY <1>2, FsAssumption DEF LAST
  <2> QED BY <1>1, <1>2, <2>1 DEF Entry
<1>3. CASE d \notin Cluster
  BY <1>3 DEF Entry
<1> QED BY <1>2, <1>3

LEMMA NextNat == ASSUME NEW c \in Nat PROVE nextCluster(c) \in Nat
<1>1. \A d : Entry(d) \in Nat
  BY EntryNat
<1>2. \A i \in Nat : FatByte(i) \in Nat
  <2> SUFFICES ASSUME NEW i \in Nat PROVE FatByte(i) \in Nat
    OBVIOUS
  <2> DEFINE d == 2 * (i \div 3)
  <2>1. Entry(d) \in Nat /\ Entry(d + 1) \in Nat
    BY <1>1
  <2>2. i % 3 \in {0, 1, 2}
    OBVIOUS
  <2> HIDE DEF d
  <2>3. FatByte(i) = CASE i % 3 = 0 -> Entry(d) % 256
                       [] i % 3 = 1 -> Entry(d) \div 256 + 16 * (Entry(d + 1) % 16)
                       [] i % 3 = 2 -> Entry(d + 1) \div 16
    BY DEF FatByte, d
  <2> QED BY <2>1, <2>2, <2>3
<1>3. c + c \div 2 \in Nat /\ c + c \div 2 + 1 \in Nat
  OBVIOUS
<1>4. Word(c) \in Nat
  BY <1>2, <1>3 DEF Word
<1> QED BY <1>4 DEF nextCluster

\* A copied sector moves the file and leaves what it is alone.
LEMMA CopyGives ==
  ASSUME NEW file \in FILE
  PROVE  /\ fsys_fat_read(file) \in FILE
         /\ fsys_fat_read(file).flags = file.flags
         /\ fsys_fat_read(file).name = file.name
         /\ fsys_fat_read(file).file_len = file.file_len
<1> DEFINE next == nextCluster(file.current_cluster)
<1>1. ASSUME NEW c, c \in ClusterNo PROVE nextCluster(c) \in Nat
  <2>1. c \in Nat
    BY <1>1 DEF ClusterNo
  <2> QED BY <2>1, NextNat
<1>2. next \in Nat
  <2>1. file.current_cluster \in ClusterNo
    BY DEF FILE
  <2> QED BY <2>1, <1>1
<1> HIDE DEF next
<1>3. CASE next >= 4088
  <2>1. fsys_fat_read(file) = [file EXCEPT !.eof = 1]
    BY <1>3 DEF fsys_fat_read, next
  <2> QED BY <2>1 DEF FILE, Bit
<1>4. CASE ~ (next >= 4088)
  <2>1. fsys_fat_read(file) = [file EXCEPT !.current_cluster = next]
    BY <1>4 DEF fsys_fat_read, next
  <2>2. next \in ClusterNo
    BY <1>2, <1>4 DEF ClusterNo
  <2> QED BY <2>1, <2>2 DEF FILE
<1> QED BY <1>3, <1>4

\* An open that succeeds gives the file at its first cluster.
LEMMA OpenGives ==
  ASSUME NEW f \in Name, NEW junk \in Bit, NEW file, file = fsys_fat_open(f, junk)
  PROVE  /\ file \in FILE
         /\ file.flags \in {FS_FILE, FS_INVALID}
         /\ file.flags = FS_FILE =>
              /\ f \in DOMAIN Dir /\ Dir[f].file /\ file.name = f /\ file.file_len = Dir[f].size
              /\ file.current_cluster = Dir[f].first /\ file.eof = 0
<1>1. Unset(junk) \in FILE /\ Unset(junk).flags = FS_INVALID
  BY DEF Unset, FILE, ClusterNo
<1>2. CASE f \notin DOMAIN Dir
  BY <1>1, <1>2 DEF fsys_fat_open, fsys_fat_directory
<1>3. CASE f \in DOMAIN Dir /\ ~ Dir[f].file
  BY <1>1, <1>3 DEF fsys_fat_open, fsys_fat_directory
<1>4. CASE f \in DOMAIN Dir /\ Dir[f].file
  <2>1. Dir[f].size \in Nat /\ Dir[f].first \in Cluster
    BY <1>4, FsAssumption
  <2>3. Dir[f].first \in ClusterNo
    BY <2>1, ClusterRange
  <2>2. file = [flags |-> FS_FILE, name |-> f, file_len |-> Dir[f].size,
                current_cluster |-> Dir[f].first, eof |-> 0]
    BY <1>4 DEF fsys_fat_open, fsys_fat_directory
  <2> QED BY <1>4, <2>1, <2>2, <2>3 DEF FILE, Bit
<1> QED BY <1>2, <1>3, <1>4

(***************************************************************************)
(* The inductive invariant: beside the types and HeldFile, the read that   *)
(* is being served is of a file that its client has open, and the only     *)
(* length a client knows is the right one.                                 *)
(***************************************************************************)
ReadingHeld == reading # Idle => reading.file \in held[reading.client]

Sized == \A c \in Client : \A h \in held[c] :
           h.name \in DOMAIN Dir /\ Dir[h.name].file /\ h.len \in {-1, Dir[h.name].size}

TableInv == TypeOK /\ HeldFile /\ ReadingHeld /\ Sized

LEMMA Busy ==
  ASSUME TypeOK, reading # Idle
  PROVE  /\ reading \in Read
         /\ reading.client \in Client /\ reading.file \in Hold /\ reading.file.fd \in Slot
         /\ reading.n \in Nat /\ reading.got \in Seq(ClusterNo)
         /\ Here \in FILE
<1>1. reading \in Read
  BY DEF TypeOK
<1>2. /\ reading.client \in Client /\ reading.file \in Hold
      /\ reading.n \in Nat /\ reading.got \in Seq(ClusterNo)
  BY <1>1 DEF Read
<1>3. reading.file.fd \in Slot
  BY <1>2 DEF Hold
<1>4. file_table \in [Slot -> FILE]
  BY DEF TypeOK
<1>5. Here \in FILE
  BY <1>3, <1>4 DEF Here
<1> QED BY <1>1, <1>2, <1>3, <1>5

LEMMA TableInit == Init => TableInv
<1> SUFFICES ASSUME Init PROVE TableInv
  OBVIOUS
<1>1. file_table \in [Slot -> FILE]
  <2>1. \A b \in Bit : [Unset(b) EXCEPT !.flags = FS_NOTHING] \in FILE
    BY DEF Unset, FILE, ClusterNo
  <2> QED BY <2>1 DEF Init
<1>2. held \in [Client -> SUBSET Hold] /\ \A c \in Client : held[c] = {}
  BY DEF Init
<1> QED BY <1>1, <1>2 DEF Init, TableInv, TypeOK, HeldFile, ReadingHeld, Sized

\* Replacing a file h by one that differs in what its client knows of it.
LEMMA UpdateKeeps ==
  ASSUME TableInv, NEW c \in Client, NEW h \in held[c], NEW new \in Hold,
         new.fd = h.fd, new.name = h.name, new.len \in {-1, Dir[h.name].size},
         Update(c, h, new), file_table' \in [Slot -> FILE],
         \A i \in Slot : /\ file_table'[i].flags = file_table[i].flags
                         /\ file_table'[i].name = file_table[i].name
                         /\ file_table'[i].file_len = file_table[i].file_len
  PROVE  held' \in [Client -> SUBSET Hold] /\ HeldFile' /\ Sized'
<1>1. held' \in [Client -> SUBSET Hold]
  BY DEF Update, TableInv, TypeOK
<1>2. \A d \in Client : \A g \in held'[d] :
        (d = c /\ g = new) \/ (g \in held[d] /\ ~ (d = c /\ g = h))
  BY DEF Update, TableInv, TypeOK
<1>3. Sized'
  BY <1>2 DEF Sized, TableInv
<1>4. \A d \in Client : \A g \in held[d] : g.fd = h.fd => d = c /\ g = h
  BY DEF TableInv, HeldFile
<1>5. HeldFile'
  <2> SUFFICES ASSUME NEW d \in Client, NEW e \in Client, NEW g \in held'[d], NEW k \in held'[e]
               PROVE  /\ g.fd \in Slot /\ file_table'[g.fd].flags = FS_FILE
                      /\ file_table'[g.fd].name = g.name
                      /\ file_table'[g.fd].file_len = Dir[g.name].size
                      /\ g.fd = k.fd => d = e /\ g = k
    BY DEF HeldFile
  <2>1. \E g1 \in held[d] : g1.fd = g.fd /\ g1.name = g.name
    BY <1>2
  <2>2. /\ g.fd \in Slot /\ file_table[g.fd].flags = FS_FILE
        /\ file_table[g.fd].name = g.name
        /\ file_table[g.fd].file_len = Dir[g.name].size
    BY <2>1 DEF TableInv, HeldFile
  <2>3. g.fd = k.fd => d = e /\ g = k
    BY <1>2, <1>4 DEF TableInv, HeldFile
  <2> QED BY <2>2, <2>3
<1> QED BY <1>1, <1>3, <1>5

\* The next sector of the file being read.
LEMMA CopyKeeps ==
  ASSUME TypeOK, reading # Idle, Copy
  PROVE  /\ file_table' \in [Slot -> FILE]
         /\ \A i \in Slot : /\ file_table'[i].flags = file_table[i].flags
                            /\ file_table'[i].name = file_table[i].name
                            /\ file_table'[i].file_len = file_table[i].file_len
<1>1. reading.file.fd \in Slot
  BY Busy
<1>2. file_table[reading.file.fd] \in FILE
  BY <1>1 DEF TypeOK
<1> QED BY <1>1, <1>2, CopyGives DEF Copy, TypeOK

\* A client of the read that is served has its file open, under a slot of its
\* own, so no other descriptor is for that slot.
LEMMA ReadingFile ==
  ASSUME TableInv, reading # Idle
  PROVE  /\ reading.file \in held[reading.client]
         /\ reading.file.name \in DOMAIN Dir /\ Dir[reading.file.name].file
         /\ reading.file.len \in {-1, Dir[reading.file.name].size}
         /\ \A c \in Client : \A h \in held[c] :
              h.fd = reading.file.fd => c = reading.client /\ h = reading.file
BY Busy DEF TableInv, ReadingHeld, Sized, HeldFile

(***************************************************************************)
(* Every step keeps the invariant.                                         *)
(***************************************************************************)
LEMMA OpenKeeps ==
  ASSUME TableInv, NEW c \in Client, NEW f \in Name, fsys_do_open(c, f)
  PROVE  TableInv'
<1>1. reading = Idle /\ reading' = Idle
  BY DEF fsys_do_open
<1>2. CASE UNCHANGED <<file_table, held>>
  BY <1>1, <1>2 DEF TableInv, TypeOK, HeldFile, ReadingHeld, Sized
<1>3. ASSUME NEW i \in Slot, NEW junk \in Bit, FreeSlot(i),
             file_table' = [file_table EXCEPT ![i] = fsys_fat_open(f, junk)],
             held' = IF file_table'[i].flags = FS_INVALID THEN held
                     ELSE [held EXCEPT ![c] = @ \cup {NewHold(i, f)}]
      PROVE  TableInv'
  <2> DEFINE file == fsys_fat_open(f, junk)
             new  == NewHold(i, f)
  <2>1. /\ file \in FILE
        /\ file.flags \in {FS_FILE, FS_INVALID}
        /\ file.flags = FS_FILE =>
              /\ f \in DOMAIN Dir /\ Dir[f].file /\ file.name = f /\ file.file_len = Dir[f].size
    BY OpenGives
  <2>2. new \in Hold /\ new.fd = i /\ new.name = f /\ new.len = -1
    <3>1. <<>> \in Seq(ClusterNo)
      OBVIOUS
    <3> QED BY <3>1 DEF NewHold, Hold
  <2> HIDE DEF file, new
  <2>3. file_table' = [file_table EXCEPT ![i] = file]
    BY <1>3 DEF file
  <2>4. /\ file_table' \in [Slot -> FILE] /\ file_table'[i] = file
        /\ \A j \in Slot : j # i => file_table'[j] = file_table[j]
    BY <2>1, <2>3 DEF TableInv, TypeOK
  <2>5. \A d \in Client : \A h \in held[d] : h.fd # i
    BY <1>3 DEF FreeSlot, TableInv, HeldFile
  <2>6. CASE file.flags = FS_INVALID
    <3>1. held' = held
      BY <1>3, <2>4, <2>6
    <3>2. HeldFile'
      BY <2>4, <2>5, <3>1 DEF TableInv, HeldFile
    <3> QED BY <1>1, <2>4, <3>1, <3>2 DEF TableInv, TypeOK, ReadingHeld, Sized
  <2>7. CASE file.flags = FS_FILE
    <3>1. held' = [held EXCEPT ![c] = @ \cup {new}]
      BY <1>3, <2>4, <2>7 DEF new
    <3>2. held' \in [Client -> SUBSET Hold]
      BY <2>2, <3>1 DEF TableInv, TypeOK
    <3>3. \A d \in Client : \A h \in held'[d] : (d = c /\ h = new) \/ h \in held[d]
      BY <3>1 DEF TableInv, TypeOK
    <3>4. Sized'
      BY <2>1, <2>2, <2>7, <3>3 DEF TableInv, Sized
    <3>5. HeldFile'
      <4> SUFFICES ASSUME NEW d \in Client, NEW e \in Client, NEW g \in held'[d], NEW k \in held'[e]
                   PROVE  /\ g.fd \in Slot /\ file_table'[g.fd].flags = FS_FILE
                          /\ file_table'[g.fd].name = g.name
                          /\ file_table'[g.fd].file_len = Dir[g.name].size
                          /\ g.fd = k.fd => d = e /\ g = k
        BY DEF HeldFile
      <4>1. CASE g = new /\ d = c
        BY <2>1, <2>2, <2>4, <2>5, <2>7, <3>3, <4>1
      <4>2. CASE g \in held[d]
        <5>1. /\ g.fd \in Slot /\ file_table[g.fd].flags = FS_FILE
              /\ file_table[g.fd].name = g.name
              /\ file_table[g.fd].file_len = Dir[g.name].size
          BY <4>2 DEF TableInv, HeldFile
        <5>2. CASE k = new /\ e = c
          BY <2>2, <2>4, <2>5, <4>2, <5>1, <5>2
        <5>3. CASE k \in held[e]
          BY <2>4, <2>5, <4>2, <5>1, <5>3 DEF TableInv, HeldFile
        <5> QED BY <3>3, <5>2, <5>3
      <4> QED BY <3>3, <4>1, <4>2
    <3> QED BY <1>1, <2>4, <3>2, <3>4, <3>5 DEF TableInv, TypeOK, ReadingHeld
  <2> QED BY <2>1, <2>6, <2>7
<1> QED BY <1>2, <1>3 DEF fsys_do_open

\* What is in a held file.
LEMMA HeldIs ==
  ASSUME TableInv, NEW c \in Client, NEW h \in held[c]
  PROVE  /\ h \in Hold /\ h.fd \in Slot /\ h.name \in DOMAIN Dir
         /\ h.len \in {-1, Dir[h.name].size}
         /\ file_table[h.fd].flags = FS_FILE /\ file_table[h.fd].name = h.name
         /\ file_table[h.fd].file_len = Dir[h.name].size
<1>1. h \in Hold
  BY DEF TableInv, TypeOK
<1> QED BY <1>1 DEF TableInv, HeldFile, Sized

LEMMA SizeKeeps ==
  ASSUME TableInv, NEW c \in Client, NEW h \in held[c], fsys_get_file_len(c, h)
  PROVE  TableInv'
<1> DEFINE new == [h EXCEPT !.len = file_table[h.fd].file_len]
<1>1. new \in Hold /\ new.fd = h.fd /\ new.name = h.name /\ new.len = Dir[h.name].size
  <2> DEFINE len == file_table[h.fd].file_len
  <2>1. Dir[h.name].size \in Nat /\ len = Dir[h.name].size
    BY HeldIs, FsAssumption
  <2>2. h \in Hold /\ len \in Nat \cup {-1}
    BY <2>1, HeldIs
  <2> HIDE DEF len
  <2>3. /\ [h EXCEPT !.len = len].fd = h.fd /\ [h EXCEPT !.len = len].name = h.name
        /\ [h EXCEPT !.len = len].len = len
    BY <2>2 DEF Hold
  <2>4. [h EXCEPT !.len = len] \in Hold
    <3> DEFINE L == Nat \cup {-1}
               Q == Seq(ClusterNo)
    <3>1. h \in [fd : Slot, name : Name, len : L, got : Q] /\ len \in L
      BY <2>2 DEF Hold
    <3>2. Hold = [fd : Slot, name : Name, len : L, got : Q]
      BY DEF Hold
    <3> HIDE DEF L, Q
    <3>3. [h EXCEPT !.len = len] \in [fd : Slot, name : Name, len : L, got : Q]
      BY <3>1
    <3> QED BY <3>2, <3>3
  <2> QED BY <2>1, <2>3, <2>4 DEF len
<1> HIDE DEF new
<1>2. Update(c, h, new) /\ UNCHANGED <<file_table, reading>> /\ reading = Idle
  BY DEF fsys_get_file_len, new
<1>3. held' \in [Client -> SUBSET Hold] /\ HeldFile' /\ Sized'
  BY <1>1, <1>2, UpdateKeeps DEF TableInv, TypeOK
<1> QED BY <1>2, <1>3 DEF TableInv, TypeOK, ReadingHeld

LEMMA CloseKeeps ==
  ASSUME TableInv, NEW c \in Client, NEW h \in held[c], fsys_do_close(c, h)
  PROVE  TableInv'
<1>1. reading = Idle /\ reading' = Idle
  BY DEF fsys_do_close
<1>2. /\ file_table' \in [Slot -> FILE]
      /\ \A i \in Slot : i # h.fd => file_table'[i] = file_table[i]
  <2>1. h.fd \in Slot /\ file_table[h.fd] \in FILE
    BY HeldIs DEF TableInv, TypeOK
  <2> DEFINE file == [file_table[h.fd] EXCEPT !.flags = FS_INVALID]
  <2>2. file \in FILE
    <3> DEFINE old == file_table[h.fd]
    <3>1. old \in FILE
      BY <2>1
    <3> HIDE DEF old
    <3>2. [old EXCEPT !.flags = FS_INVALID] \in FILE
      BY <3>1 DEF FILE
    <3> QED BY <3>2 DEF old
  <2>3. file_table' = [file_table EXCEPT ![h.fd] = file]
    BY DEF fsys_do_close
  <2> HIDE DEF file
  <2> QED BY <2>1, <2>2, <2>3 DEF TableInv, TypeOK
<1>3. held' \in [Client -> SUBSET Hold]
  BY DEF fsys_do_close, TableInv, TypeOK
<1>4. \A d \in Client : \A g \in held'[d] : g \in held[d] /\ g.fd # h.fd
  BY DEF fsys_do_close, TableInv, TypeOK, HeldFile
<1>5. HeldFile' /\ Sized'
  BY <1>2, <1>4 DEF TableInv, HeldFile, Sized
<1> QED BY <1>1, <1>2, <1>3, <1>5 DEF TableInv, TypeOK, ReadingHeld

LEMMA ReadKeeps ==
  ASSUME TableInv, NEW c \in Client, NEW h \in held[c], fsys_do_read(c, h)
  PROVE  TableInv'
<1>1. h \in Hold /\ h.len \in Nat
  <2>1. h \in Hold /\ h.len >= 0
    BY HeldIs DEF fsys_do_read
  <2> QED BY <2>1 DEF Hold
<1>2. h.len \div SECTOR_SIZE \in Nat
  BY <1>1 DEF SECTOR_SIZE
<1>3. <<>> \in Seq(ClusterNo)
  OBVIOUS
<1>4. reading' \in Read /\ reading'.file = h /\ reading'.client = c
  BY <1>1, <1>2, <1>3 DEF fsys_do_read, Read
<1>5. UNCHANGED <<file_table, held>>
  BY DEF fsys_do_read
<1> QED BY <1>4, <1>5 DEF TableInv, TypeOK, HeldFile, ReadingHeld, Sized

LEMMA SectorKeeps ==
  ASSUME TableInv, ReadSector
  PROVE  TableInv'
<1>1. /\ reading # Idle /\ Copy /\ UNCHANGED held
      /\ reading' = [reading EXCEPT !.got = Append(@, Here.current_cluster)]
  BY DEF ReadSector
<1>2. reading' \in Read /\ reading'.file = reading.file /\ reading'.client = reading.client
  <2>1. reading \in Read /\ reading.got \in Seq(ClusterNo) /\ Here \in FILE
    BY <1>1, Busy DEF TableInv
  <2>2. Here.current_cluster \in ClusterNo
    BY <2>1 DEF FILE
  <2>3. Append(reading.got, Here.current_cluster) \in Seq(ClusterNo)
    BY <2>1, <2>2
  <2> DEFINE got1 == Append(reading.got, Here.current_cluster)
  <2>4. reading' = [reading EXCEPT !.got = got1]
    BY <1>1
  <2>5. got1 \in Seq(ClusterNo)
    BY <2>3
  <2> HIDE DEF got1
  <2> QED BY <2>1, <2>4, <2>5 DEF Read
<1>3. /\ file_table' \in [Slot -> FILE]
      /\ \A i \in Slot : /\ file_table'[i].flags = file_table[i].flags
                         /\ file_table'[i].name = file_table[i].name
                         /\ file_table'[i].file_len = file_table[i].file_len
  BY <1>1, CopyKeeps DEF TableInv
<1>4. HeldFile'
  BY <1>1, <1>3 DEF TableInv, HeldFile
<1> QED BY <1>1, <1>2, <1>3, <1>4 DEF TableInv, TypeOK, ReadingHeld, Sized

LEMMA RestKeeps ==
  ASSUME TableInv, ReadRest
  PROVE  TableInv'
<1> DEFINE got1 == Append(reading.got, Here.current_cluster)
           new(got) == [reading.file EXCEPT !.got = got]
<1>1. reading # Idle
  BY DEF ReadRest
<1>2. /\ reading.client \in Client /\ reading.file \in Hold /\ reading.got \in Seq(ClusterNo)
      /\ Here \in FILE /\ reading.file \in held[reading.client]
      /\ reading.file.len \in {-1, Dir[reading.file.name].size}
  BY <1>1, Busy, ReadingFile DEF TableInv
<1>3. got1 \in Seq(ClusterNo)
  <2>1. Here.current_cluster \in ClusterNo
    BY <1>2 DEF FILE
  <2> QED BY <1>2, <2>1
<1>4. ASSUME NEW got \in Seq(ClusterNo)
      PROVE  /\ new(got) \in Hold /\ new(got).fd = reading.file.fd
             /\ new(got).name = reading.file.name /\ new(got).len = reading.file.len
  <2> DEFINE file == reading.file
  <2>1. file \in Hold
    BY <1>2
  <2> HIDE DEF file
  <2>2. [file EXCEPT !.got = got] \in Hold
    BY <2>1 DEF Hold
  <2>3. /\ [file EXCEPT !.got = got].fd = file.fd
        /\ [file EXCEPT !.got = got].name = file.name
        /\ [file EXCEPT !.got = got].len = file.len
    BY <2>1 DEF Hold
  <2> QED BY <2>2, <2>3 DEF file
<1> HIDE DEF got1
<1>5. \E got \in Seq(ClusterNo) :
        Answer(got) /\ (UNCHANGED file_table \/ Copy)
  <2>1. CASE Here.eof = 1
    <3>1. Answer(reading.got) /\ UNCHANGED file_table
      BY <2>1 DEF ReadRest
    <3> QED BY <1>2, <3>1
  <2>2. CASE Here.eof # 1
    <3>1. Answer(got1) /\ Copy
      BY <2>2 DEF ReadRest, got1
    <3> QED BY <1>3, <3>1
  <2> QED BY <2>1, <2>2
<1>6. PICK got \in Seq(ClusterNo) : Answer(got) /\ (UNCHANGED file_table \/ Copy)
  BY <1>5
<1>7. /\ new(got) \in Hold /\ new(got).fd = reading.file.fd
      /\ new(got).name = reading.file.name /\ new(got).len = reading.file.len
  BY <1>4
<1>8. Update(reading.client, reading.file, new(got)) /\ reading' = Idle
  BY <1>6 DEF Answer
<1> HIDE DEF new
<1>9. /\ file_table' \in [Slot -> FILE]
      /\ \A i \in Slot : /\ file_table'[i].flags = file_table[i].flags
                         /\ file_table'[i].name = file_table[i].name
                         /\ file_table'[i].file_len = file_table[i].file_len
  BY <1>1, <1>6, CopyKeeps DEF TableInv, TypeOK
<1>10. held' \in [Client -> SUBSET Hold] /\ HeldFile' /\ Sized'
  BY <1>2, <1>7, <1>8, <1>9, UpdateKeeps
<1> QED BY <1>8, <1>9, <1>10 DEF TableInv, TypeOK, ReadingHeld

LEMMA ExitKeeps ==
  ASSUME TableInv, NEW c \in Client, Exit(c)
  PROVE  TableInv'
<1>1. UNCHANGED <<file_table, reading>> /\ held' = [held EXCEPT ![c] = {}]
  BY DEF Exit
<1>2. held' \in [Client -> SUBSET Hold]
  BY <1>1 DEF TableInv, TypeOK
<1>3. \A d \in Client : held'[d] = IF d = c THEN {} ELSE held[d]
  BY <1>1 DEF TableInv, TypeOK
<1>4. HeldFile' /\ Sized'
  BY <1>1, <1>3 DEF TableInv, HeldFile, Sized
<1>5. ReadingHeld'
  BY <1>1, <1>3, Busy DEF TableInv, ReadingHeld, Exit, Waits
<1> QED BY <1>1, <1>2, <1>4, <1>5 DEF TableInv, TypeOK

LEMMA TableStep == TableInv /\ [Next]_vars => TableInv'
<1> SUFFICES ASSUME TableInv, [Next]_vars PROVE TableInv'
  OBVIOUS
<1>1. CASE UNCHANGED vars
  BY <1>1 DEF vars, TableInv, TypeOK, HeldFile, ReadingHeld, Sized
<1>2. CASE ReadSector
  BY <1>2, SectorKeeps
<1>3. CASE ReadRest
  BY <1>3, RestKeeps
<1>4. ASSUME NEW c \in Client, Exit(c) PROVE TableInv'
  BY <1>4, ExitKeeps
<1>5. ASSUME NEW c \in Client, NEW f \in Name, fsys_do_open(c, f) PROVE TableInv'
  BY <1>5, OpenKeeps
<1>6. ASSUME NEW c \in Client, NEW h \in held[c],
             fsys_get_file_len(c, h) \/ fsys_do_read(c, h) \/ fsys_do_close(c, h)
      PROVE TableInv'
  BY <1>6, SizeKeeps, ReadKeeps, CloseKeeps
<1> QED BY <1>1, <1>2, <1>3, <1>4, <1>5, <1>6 DEF Next

LEMMA TableAlways == Spec => []TableInv
BY TableInit, TableStep, PTL DEF Spec

\* The table of open files, what clients know and the read in progress keep
\* their types (fsys_do_open, fsys_do_read, fsys_do_close).
THEOREM TypeCorrect == Spec => []TypeOK
<1>1. TableInv => TypeOK
  BY DEF TableInv
<1> QED BY <1>1, TableAlways, PTL

\* A descriptor stands for the file that was opened and is nobody else's,
\* whatever the others do (fsys_do_open, fsys_do_close).
THEOREM DescriptorsKeepFile == Spec => []HeldFile
<1>1. TableInv => HeldFile
  BY DEF TableInv
<1> QED BY <1>1, TableAlways, PTL

(***************************************************************************)
(* Only an exit loses a slot.                                              *)
(***************************************************************************)
LEMMA LossStep ==
  ASSUME TableInv, [Next]_vars, NEW i \in Lost' \ Lost
  PROVE  \E c \in Client : held'[c] = {} /\ \E h \in held[c] : h.fd = i /\ UNCHANGED file_table
<1>1. i \in Slot /\ file_table'[i].flags # FS_NOTHING
  BY DEF Lost
<1>2. \A c \in Client : \A h \in held'[c] : h.fd # i
  BY DEF Lost
<1>3. file_table[i].flags # FS_NOTHING => \E c \in Client : \E h \in held[c] : h.fd = i
  BY <1>1 DEF Lost
<1>4. ASSUME file_table[i].flags # FS_NOTHING,
             \A c \in Client : \A h \in held[c] : h.fd = i => \E g \in held'[c] : g.fd = i
      PROVE  FALSE
  BY <1>2, <1>3, <1>4
<1>5. CASE UNCHANGED vars
  BY <1>1, <1>4, <1>5 DEF vars
<1>6. CASE ReadSector
  <2>1. file_table[i].flags # FS_NOTHING
    BY <1>1, <1>6, CopyKeeps DEF ReadSector, TableInv
  <2> QED BY <1>4, <1>6, <2>1 DEF ReadSector
<1>7. CASE ReadRest
  <2>1. file_table[i].flags # FS_NOTHING
    BY <1>1, <1>7, CopyKeeps DEF ReadRest, TableInv
  <2>2. reading # Idle /\ reading.file \in Hold /\ reading.client \in Client
    BY <1>7, Busy DEF ReadRest, TableInv
  <2>3. \E got : Answer(got)
    BY <1>7 DEF ReadRest
  <2>4. PICK got : Answer(got)
    BY <2>3
  <2>5. held' = [held EXCEPT ![reading.client] = (@ \ {reading.file}) \cup {[reading.file EXCEPT !.got = got]}]
    BY <2>4 DEF Answer, Update
  <2>6. [reading.file EXCEPT !.got = got].fd = reading.file.fd
    BY <2>2 DEF Hold
  <2> QED BY <1>4, <2>1, <2>2, <2>5, <2>6 DEF TableInv, TypeOK
<1>8. ASSUME NEW c \in Client, Exit(c)
      PROVE  \E d \in Client : held'[d] = {} /\ \E h \in held[d] : h.fd = i /\ UNCHANGED file_table
  <2>1. file_table[i].flags # FS_NOTHING
    BY <1>1, <1>8 DEF Exit
  <2>2. \A d \in Client : held'[d] = IF d = c THEN {} ELSE held[d]
    BY <1>8 DEF Exit, TableInv, TypeOK
  <2>3. PICK d \in Client : \E h \in held[d] : h.fd = i
    BY <1>3, <2>1
  <2>4. d = c
    BY <1>2, <2>2, <2>3
  <2> QED BY <1>8, <2>2, <2>3, <2>4 DEF Exit
<1>9. ASSUME NEW c \in Client, NEW f \in Name, fsys_do_open(c, f) PROVE FALSE
  <2>1. \A d \in Client : \A h \in held[d] : h \in held'[d]
    BY <1>9 DEF fsys_do_open, TableInv, TypeOK
  <2>2. file_table[i].flags = FS_NOTHING
    BY <1>4, <2>1
  <2>3. PICK j \in Slot, junk \in Bit :
          /\ FreeSlot(j)
          /\ file_table' = [file_table EXCEPT ![j] = fsys_fat_open(f, junk)]
          /\ held' = IF file_table'[j].flags = FS_INVALID THEN held
                     ELSE [held EXCEPT ![c] = @ \cup {NewHold(j, f)}]
    BY <1>1, <1>9, <2>2 DEF fsys_do_open
  <2>4. i = j
    BY <1>1, <2>2, <2>3 DEF TableInv, TypeOK
  <2>5. NewHold(j, f) \in held'[c]
    BY <1>1, <2>3, <2>4 DEF TableInv, TypeOK
  <2> QED BY <1>2, <2>4, <2>5 DEF NewHold
<1>10. ASSUME NEW c \in Client, NEW h \in held[c], fsys_get_file_len(c, h) PROVE FALSE
  <2>1. file_table[i].flags # FS_NOTHING
    BY <1>1, <1>10 DEF fsys_get_file_len
  <2> DEFINE len == file_table[h.fd].file_len
  <2>2. held' = [held EXCEPT ![c] = (@ \ {h}) \cup {[h EXCEPT !.len = len]}]
    BY <1>10 DEF fsys_get_file_len, Update
  <2> HIDE DEF len
  <2>3. [h EXCEPT !.len = len].fd = h.fd
    BY HeldIs DEF Hold
  <2> QED BY <1>4, <2>1, <2>2, <2>3 DEF TableInv, TypeOK
<1>11. ASSUME NEW c \in Client, NEW h \in held[c], fsys_do_read(c, h) PROVE FALSE
  BY <1>1, <1>4, <1>11 DEF fsys_do_read
<1>12. ASSUME NEW c \in Client, NEW h \in held[c], fsys_do_close(c, h) PROVE FALSE
  <2>1. h.fd \in Slot /\ file_table[h.fd] \in FILE
    BY HeldIs DEF TableInv, TypeOK
  <2> DEFINE file == file_table[h.fd]
  <2>6. [file EXCEPT !.flags = FS_INVALID].flags = FS_INVALID
    <3>1. file \in FILE
      BY <2>1
    <3> HIDE DEF file
    <3> QED BY <3>1 DEF FILE
  <2>7. file_table' = [file_table EXCEPT ![h.fd] = [file EXCEPT !.flags = FS_INVALID]]
    BY <1>12 DEF fsys_do_close
  <2> HIDE DEF file
  <2>2. file_table'[h.fd].flags = FS_INVALID
    BY <2>1, <2>6, <2>7 DEF TableInv, TypeOK
  <2>3. i # h.fd
    BY <1>1, <2>2
  <2>4. file_table[i].flags # FS_NOTHING
    BY <1>1, <1>12, <2>1, <2>3 DEF fsys_do_close, TableInv, TypeOK
  <2>5. \A d \in Client : \A g \in held[d] : g # h => g \in held'[d]
    BY <1>12 DEF fsys_do_close, TableInv, TypeOK
  <2> QED BY <1>4, <2>3, <2>4, <2>5
<1> QED BY <1>5, <1>6, <1>7, <1>8, <1>9, <1>10, <1>11, <1>12 DEF Next

\* A slot is lost only to a program that exits with the file open; failed
\* opens and closes give back what they took (fsys_do_open, fsys_do_close).
THEOREM OnlyExitLoses == Spec => LostByExit
<1>1. TableInv /\ [Next]_vars =>
        [\A i \in Lost' \ Lost :
           \E c \in Client : held'[c] = {} /\ \E h \in held[c] : h.fd = i /\ UNCHANGED file_table]_vars
  BY LossStep
<1> QED BY <1>1, TableAlways, PTL DEF Spec, LostByExit

(***************************************************************************)
(* Reads follow the chain, on every disk: what nextCluster gives for the   *)
(* clusters after which the code does not go astray.                       *)
(***************************************************************************)

\* The entry of an even cluster comes out right, that of an odd one only when
\* it is the last.
LEMMA EvenNext ==
  ASSUME NEW c \in Cluster, c % 2 = 0
  PROVE  nextCluster(c) = Fat[c]
<1>1. c \in Nat /\ Fat[c] \in Nat /\ Fat[c] < 4096
  <2>1. \A k \in Cluster : k \in Nat /\ k < 4088
    BY ClusterRange
  <2>2. Fat[c] \in Cluster \/ Fat[c] = 4095
    BY FsAssumption DEF LAST
  <2> QED BY <2>1, <2>2
<1>2. PICK m \in Nat : c = 2 * m
  <2>1. c = 2 * (c \div 2) /\ c \div 2 \in Nat
    BY <1>1
  <2> QED BY <2>1
<1>3. c + c \div 2 = 3 * m
  BY <1>2
<1>4. (3 * m) % 3 = 0 /\ (3 * m) \div 3 = m /\ (3 * m + 1) % 3 = 1 /\ (3 * m + 1) \div 3 = m
  BY <1>2
<1>5. Entry(2 * m) = Fat[c]
  BY <1>2 DEF Entry
<1>6. FatByte(3 * m) = Fat[c] % 256
  BY <1>4, <1>5 DEF FatByte
<1>7. FatByte(3 * m + 1) = Fat[c] \div 256 + 16 * (Entry(2 * m + 1) % 16)
  BY <1>4, <1>5 DEF FatByte
<1>8. Entry(2 * m + 1) \in Nat
  BY EntryNat
<1>9. PICK y \in Nat : FatByte(3 * m + 1) = Fat[c] \div 256 + 16 * y
  BY <1>7, <1>8
<1>10. Word(c) = (Fat[c] % 256) + 256 * (Fat[c] \div 256 + 16 * y)
  BY <1>3, <1>6, <1>9 DEF Word
<1>11. \A x \in Nat : x < 4096 => ((x % 256) + 256 * (x \div 256 + 16 * y)) % 4096 = x
  OBVIOUS
<1> QED BY <1>1, <1>10, <1>11 DEF nextCluster

LEMMA OddLast ==
  ASSUME NEW c \in Cluster, c % 2 = 1, Fat[c] = LAST
  PROVE  nextCluster(c) >= 4088
<1>1. c \in Nat
  BY ClusterRange
<1>2. PICK m \in Nat : c = 2 * m + 1
  <2>1. c = 2 * (c \div 2) + 1 /\ c \div 2 \in Nat
    BY <1>1
  <2> QED BY <2>1
<1>3. c + c \div 2 = 3 * m + 1
  BY <1>2
<1>4. (3 * m + 1) % 3 = 1 /\ (3 * m + 1) \div 3 = m /\ (3 * m + 2) % 3 = 2 /\ (3 * m + 2) \div 3 = m
  BY <1>2
<1>5. Entry(2 * m + 1) = 4095
  BY <1>2 DEF Entry, LAST
<1>6. FatByte(3 * m + 1) = Entry(2 * m) \div 256 + 16 * 15
  BY <1>4, <1>5 DEF FatByte
<1>7. FatByte(3 * m + 2) = 255
  BY <1>4, <1>5 DEF FatByte
<1>8. Entry(2 * m) \in Nat
  BY EntryNat
<1>9. PICK y \in Nat : FatByte(3 * m + 1) = y + 240
  BY <1>6, <1>8
<1>10. Word(c) = y + 240 + 256 * 255
  BY <1>3, <1>7, <1>9 DEF Word
<1> QED BY <1>10 DEF nextCluster

LEMMA NextOf ==
  ASSUME NEW c \in Cluster, ~ Astray(c)
  PROVE  /\ After(c) \in Cluster
         /\ Entry(c) = LAST => nextCluster(c) >= 4088
         /\ Entry(c) # LAST => nextCluster(c) = After(c)
<1>1. Entry(c) = Fat[c]
  BY DEF Entry
<1>2. c \in Nat
  BY ClusterRange
<1>3. c % 2 = 0 \/ c % 2 = 1
  BY <1>2
<1>4. CASE Entry(c) = LAST
  <2>1. Fat[c] = LAST
    BY <1>1, <1>4
  <2>2. nextCluster(c) >= 4088
    <3>1. CASE c % 2 = 0
      <4>1. nextCluster(c) = LAST
        BY <2>1, <3>1, EvenNext
      <4> QED BY <4>1 DEF LAST
    <3>2. CASE c % 2 = 1
      BY <2>1, <3>2, OddLast
    <3> QED BY <1>3, <3>1, <3>2
  <2> QED BY <1>4, <2>2 DEF After
<1>5. CASE Entry(c) # LAST
  <2>1. c % 2 = 0
    BY <1>3, <1>5 DEF Astray
  <2>2. nextCluster(c) = Fat[c]
    BY <2>1, EvenNext
  <2>3. Fat[c] \in Cluster
    BY <1>1, <1>5, FsAssumption
  <2> QED BY <1>1, <1>5, <2>2, <2>3 DEF After
<1> QED BY <1>4, <1>5

\* got and the file behind it follow the chain, and where they do they are at
\* clusters of the disk.
Along(f, got, file) ==
  /\ Follows(f, got, file)
  /\ \A k \in 1 .. (Len(got) + 1) :
       Exact(got, k) => Append(got, file.current_cluster)[k] \in Cluster

\* The invariant behind ReadPrefix: every file is along its chain, and a read
\* copies the whole sectors of its file before it copies the rest.
WalkInv ==
  /\ \A c \in Client : \A h \in held[c] :
       ~ (Waits(c) /\ reading.file = h) => Along(h.name, h.got, file_table[h.fd])
  /\ reading # Idle => /\ Along(reading.file.name, reading.got, Here)
                       /\ reading.n = Dir[reading.file.name].size \div SECTOR_SIZE
                       /\ Len(reading.got) <= reading.n

\* A file that is opened is at the beginning of its chain.
LEMMA AlongStart ==
  ASSUME NEW f \in DOMAIN Dir, NEW file,
         file.eof = 0, file.current_cluster = Dir[f].first
  PROVE  Along(f, <<>>, file)
<1> DEFINE c == file.current_cluster
<1>1. c \in Cluster /\ Dir[f].size \div SECTOR_SIZE + 1 \in Nat
  <2>1. c \in Cluster /\ Dir[f].size \in Nat
    BY FsAssumption
  <2> HIDE DEF c
  <2> QED BY <2>1 DEF SECTOR_SIZE
<1> HIDE DEF c
<1>2. Append(<<>>, c) = <<c>> /\ Len(<<c>>) = 1 /\ <<c>>[1] = c /\ Len(<<>>) = 0
  OBVIOUS
<1>3. Dir[f].size \div SECTOR_SIZE + 1 >= 0
  BY <1>1
<1> QED BY <1>1, <1>2, <1>3 DEF Along, Follows, c

\* A copied sector is the next one of the chain.
LEMMA AlongCopy ==
  ASSUME NEW f \in DOMAIN Dir, NEW file \in FILE,
         NEW got \in Seq(ClusterNo), Along(f, got, file),
         Len(got) <= Dir[f].size \div SECTOR_SIZE
  PROVE  Along(f, Append(got, file.current_cluster), fsys_fat_read(file))
<1> DEFINE n    == Len(got)
           c    == file.current_cluster
           got1 == Append(got, c)
           new  == fsys_fat_read(file)
           d    == new.current_cluster
           walk == Append(got1, d)
<1>1. new = IF nextCluster(c) >= 4088 THEN [file EXCEPT !.eof = 1]
                                      ELSE [file EXCEPT !.current_cluster = nextCluster(c)]
  BY DEF fsys_fat_read
<1>2. c \in ClusterNo /\ d \in ClusterNo /\ n \in Nat
  <2>1. new \in FILE
    BY CopyGives
  <2> HIDE DEF new
  <2> QED BY <2>1 DEF FILE
<1>3. file.eof \in Bit /\ Dir[f].size \div SECTOR_SIZE \in Nat
  <2>1. file.eof \in Bit
    BY DEF FILE
  <2>2. Dir[f].size \in Nat
    BY FsAssumption
  <2> QED BY <2>1, <2>2 DEF SECTOR_SIZE
<1>4. /\ \A k \in 1 .. (n + 1) :
           Exact(got, k) => got1[k] = IF k = 1 THEN Dir[f].first ELSE After(got[k - 1])
      /\ \A k \in 1 .. (n + 1) : Exact(got, k) => got1[k] \in Cluster
      /\ Exact(got, n + 1) => (file.eof = 1 <=> got # <<>> /\ Entry(got[n]) = LAST)
  BY <1>2 DEF Along, Follows
<1> HIDE DEF c, d, new
<1>5. /\ Len(got1) = n + 1 /\ Len(walk) = n + 2 /\ got1[n + 1] = c /\ walk[n + 2] = d
      /\ \A k \in 1 .. n : got1[k] = got[k]
      /\ \A k \in 1 .. (n + 1) : walk[k] = got1[k]
      /\ got1 # <<>>
  BY <1>2
<1> HIDE DEF n, got1, walk
<1>6. ASSUME NEW k \in 1 .. (n + 1) PROVE Exact(got1, k) <=> Exact(got, k)
  <2>1. \A j \in 1 .. (k - 1) : got1[j] = got[j]
    BY <1>2, <1>5
  <2> QED BY <2>1 DEF Exact
<1>7. ASSUME Exact(got1, n + 2)
      PROVE  d = After(c) /\ d \in Cluster /\ (new.eof = 1 <=> Entry(c) = LAST)
  <2>1. Exact(got, n + 1) /\ ~ Astray(c)
    <3>1. Exact(got1, n + 1) /\ ~ Astray(got1[n + 1])
      BY <1>2, <1>7 DEF Exact
    <3> QED BY <1>2, <1>5, <1>6, <3>1
  <2>2. c \in Cluster
    BY <1>2, <1>4, <1>5, <2>1
  <2>3. CASE Entry(c) = LAST
    <3>1. new = [file EXCEPT !.eof = 1]
      BY <1>1, <2>1, <2>2, <2>3, NextOf
    <3>2. new.eof = 1 /\ d = c
      BY <3>1 DEF FILE, c, d
    <3> QED BY <2>2, <2>3, <3>2 DEF After
  <2>4. CASE Entry(c) # LAST
    <3>1. nextCluster(c) = After(c) /\ After(c) \in Cluster
      BY <2>1, <2>2, <2>4, NextOf
    <3>2. PICK e \in Cluster : e = After(c)
      BY <3>1
    <3>3. e \in Nat /\ e < 4088
      BY ClusterRange
    <3>4. new = [file EXCEPT !.current_cluster = e]
      BY <1>1, <3>1, <3>2, <3>3
    <3>5. new.eof = file.eof /\ d = e
      BY <3>4 DEF FILE, d
    <3>6. file.eof # 1
      <4>1. ASSUME got # <<>>, Entry(got[n]) = LAST PROVE FALSE
        <5>1. n >= 1 /\ n + 1 \in 1 .. (n + 1) /\ (n + 1) - 1 = n /\ n + 1 # 1
          BY <1>2, <4>1 DEF n
        <5>2. c = After(got[n])
          BY <1>4, <1>5, <2>1, <5>1
        <5> QED BY <2>4, <4>1, <5>2 DEF After
      <4> QED BY <1>4, <2>1, <4>1
    <3> QED BY <2>4, <3>1, <3>2, <3>5, <3>6
  <2> QED BY <2>3, <2>4
<1>8. ASSUME NEW k \in 1 .. (n + 2), Exact(got1, k)
      PROVE  walk[k] \in Cluster /\ walk[k] = IF k = 1 THEN Dir[f].first ELSE After(got1[k - 1])
  <2>1. CASE k = n + 2
    <3>1. k - 1 = n + 1 /\ k # 1
      BY <1>2, <2>1
    <3> QED BY <1>5, <1>7, <1>8, <2>1, <3>1
  <2>2. CASE k # n + 2
    <3>1. k \in 1 .. (n + 1) /\ (k # 1 => k - 1 \in 1 .. n)
      BY <1>2, <2>2
    <3>2. Exact(got, k)
      BY <1>6, <1>8, <3>1
    <3> QED BY <1>4, <1>5, <3>1, <3>2
  <2> QED BY <2>1, <2>2
<1>9. Len(got1) <= Dir[f].size \div SECTOR_SIZE + 1
  BY <1>2, <1>3, <1>5 DEF n
<1>10. Exact(got1, Len(walk)) => (new.eof = 1 <=> got1 # <<>> /\ Entry(got1[Len(got1)]) = LAST)
  BY <1>5, <1>7
<1>11. Len(got1) + 1 = n + 2
  BY <1>2, <1>5
<1> QED BY <1>5, <1>8, <1>9, <1>10, <1>11 DEF Along, Follows, walk, got1, d, c, new

\* WalkInv holds at first and every step keeps it.
LEMMA WalkStart == Init => WalkInv
BY DEF Init, WalkInv

LEMMA WalkOpen ==
  ASSUME TableInv, WalkInv, NEW c \in Client, NEW f \in Name, fsys_do_open(c, f)
  PROVE  WalkInv'
<1>1. reading = Idle /\ reading' = Idle
  BY DEF fsys_do_open
<1>2. CASE UNCHANGED <<file_table, held>>
  BY <1>1, <1>2 DEF WalkInv, Waits
<1>3. ASSUME NEW i \in Slot, NEW junk \in Bit, FreeSlot(i),
             file_table' = [file_table EXCEPT ![i] = fsys_fat_open(f, junk)],
             held' = IF file_table'[i].flags = FS_INVALID THEN held
                     ELSE [held EXCEPT ![c] = @ \cup {NewHold(i, f)}]
      PROVE  WalkInv'
  <2> DEFINE file == fsys_fat_open(f, junk)
             new  == NewHold(i, f)
  <2>1. file.flags \in {FS_FILE, FS_INVALID} /\
        (file.flags = FS_FILE =>
           /\ f \in DOMAIN Dir /\ Dir[f].file
           /\ file.current_cluster = Dir[f].first /\ file.eof = 0)
    BY OpenGives
  <2>2. new.fd = i /\ new.name = f /\ new.got = <<>>
    BY DEF NewHold
  <2> HIDE DEF file, new
  <2>3. /\ file_table'[i] = file
        /\ \A j \in Slot : j # i => file_table'[j] = file_table[j]
    BY <1>3 DEF file, TableInv, TypeOK
  <2>4. \A d \in Client : \A h \in held[d] : h.fd # i /\ h.fd \in Slot
    BY <1>3 DEF FreeSlot, TableInv, HeldFile
  <2>5. \A d \in Client : \A h \in held'[d] :
          h \in held[d] \/ (h = new /\ file.flags # FS_INVALID)
    BY <1>3, <2>3 DEF new, TableInv, TypeOK
  <2>6. \A d \in Client : \A h \in held[d] : Along(h.name, h.got, file_table'[h.fd])
    BY <1>1, <2>3, <2>4 DEF WalkInv, Waits
  <2>7. file.flags # FS_INVALID => Along(new.name, new.got, file_table'[new.fd])
    BY <2>1, <2>2, <2>3, AlongStart
  <2> QED BY <1>1, <2>5, <2>6, <2>7 DEF WalkInv
<1> QED BY <1>2, <1>3 DEF fsys_do_open

\* The files of the other clients, when one slot changes.
LEMMA OthersStay ==
  ASSUME TableInv, WalkInv, NEW c \in Client, NEW h \in held[c],
         \A i \in Slot : i # h.fd => file_table'[i] = file_table[i],
         NEW d \in Client, NEW g \in held[d], g # h \/ d # c,
         ~ (Waits(d) /\ reading.file = g)
  PROVE  Along(g.name, g.got, file_table'[g.fd])
<1>1. g.fd \in Slot /\ g.fd # h.fd
  BY HeldIs DEF TableInv, HeldFile
<1>2. Along(g.name, g.got, file_table[g.fd])
  BY DEF WalkInv
<1> QED BY <1>1, <1>2

LEMMA WalkSize ==
  ASSUME TableInv, WalkInv, NEW c \in Client, NEW h \in held[c], fsys_get_file_len(c, h)
  PROVE  WalkInv'
<1> DEFINE len == file_table[h.fd].file_len
           new == [h EXCEPT !.len = len]
<1>1. new.fd = h.fd /\ new.name = h.name /\ new.got = h.got
  BY HeldIs DEF Hold
<1>2. /\ reading = Idle /\ reading' = Idle /\ file_table' = file_table
      /\ held' = [held EXCEPT ![c] = (@ \ {h}) \cup {new}]
  BY DEF fsys_get_file_len, Update
<1> HIDE DEF new
<1>3. \A d \in Client : \A g \in held'[d] : g = new \/ g \in held[d]
  BY <1>2 DEF TableInv, TypeOK
<1>4. \A d \in Client : \A g \in held[d] : Along(g.name, g.got, file_table[g.fd])
  BY <1>2 DEF WalkInv, Waits
<1> QED BY <1>1, <1>2, <1>3, <1>4 DEF WalkInv

LEMMA WalkClose ==
  ASSUME TableInv, WalkInv, NEW c \in Client, NEW h \in held[c], fsys_do_close(c, h)
  PROVE  WalkInv'
<1>1. /\ reading = Idle /\ reading' = Idle
      /\ \A i \in Slot : i # h.fd => file_table'[i] = file_table[i]
      /\ \A d \in Client : \A g \in held'[d] : g \in held[d] /\ (g # h \/ d # c)
  BY HeldIs DEF fsys_do_close, TableInv, TypeOK
<1>2. \A d \in Client : \A g \in held'[d] : Along(g.name, g.got, file_table'[g.fd])
  BY <1>1, OthersStay DEF Waits
<1> QED BY <1>1, <1>2 DEF WalkInv

LEMMA WalkRead ==
  ASSUME TableInv, WalkInv, NEW c \in Client, NEW h \in held[c], fsys_do_read(c, h)
  PROVE  WalkInv'
<1>1. /\ reading = Idle /\ h.len >= 0 /\ h.got = <<>> /\ UNCHANGED <<file_table, held>>
      /\ reading'.client = c /\ reading'.file = h /\ reading'.got = <<>>
      /\ reading'.n = h.len \div SECTOR_SIZE
  BY DEF fsys_do_read
<1>2. \A d \in Client : \A g \in held[d] : Along(g.name, g.got, file_table[g.fd])
  BY <1>1 DEF WalkInv, Waits
<1>3. h.len \in {-1, Dir[h.name].size} /\ Dir[h.name].size \in Nat
  <2>1. h.name \in DOMAIN Dir /\ h.len \in {-1, Dir[h.name].size}
    BY HeldIs
  <2> QED BY <2>1, FsAssumption
<1>4. h.len = Dir[h.name].size
  BY <1>1, <1>3
<1>5. Len(<<>>) <= h.len \div SECTOR_SIZE
  BY <1>3, <1>4 DEF SECTOR_SIZE
<1>6. Along(h.name, <<>>, file_table[h.fd])
  BY <1>1, <1>2
<1> QED BY <1>1, <1>2, <1>4, <1>5, <1>6 DEF WalkInv, Here

\* What holds while a read is served.
LEMMA ReadingIs ==
  ASSUME TableInv, WalkInv, reading # Idle
  PROVE  /\ reading.client \in Client /\ reading.file \in held[reading.client]
         /\ reading.file \in Hold /\ reading.file.fd \in Slot
         /\ reading.file.name \in DOMAIN Dir /\ Dir[reading.file.name].file
         /\ reading.got \in Seq(ClusterNo) /\ reading.n \in Nat /\ Here \in FILE
         /\ Along(reading.file.name, reading.got, Here)
         /\ reading.n = Dir[reading.file.name].size \div SECTOR_SIZE
         /\ Len(reading.got) <= reading.n
BY Busy, ReadingFile DEF TableInv, WalkInv

LEMMA CopyWalks ==
  ASSUME TableInv, WalkInv, reading # Idle, Copy
  PROVE  /\ Along(reading.file.name, Append(reading.got, Here.current_cluster),
                  file_table'[reading.file.fd])
         /\ \A i \in Slot : i # reading.file.fd => file_table'[i] = file_table[i]
<1>1. /\ file_table'[reading.file.fd] = fsys_fat_read(Here)
      /\ \A i \in Slot : i # reading.file.fd => file_table'[i] = file_table[i]
  BY ReadingIs DEF Copy, Here, TableInv, TypeOK
<1> QED BY <1>1, ReadingIs, AlongCopy

LEMMA WalkSector ==
  ASSUME TableInv, WalkInv, ReadSector
  PROVE  WalkInv'
<1> DEFINE got1 == Append(reading.got, Here.current_cluster)
<1>1. /\ reading # Idle /\ Len(reading.got) < reading.n /\ Copy /\ held' = held
      /\ reading' = [reading EXCEPT !.got = got1]
  BY DEF ReadSector, Copied
<1>2. reading \in Read
  BY <1>1, Busy DEF TableInv
<1> HIDE DEF got1
<1>3. /\ reading'.file = reading.file /\ reading'.client = reading.client
      /\ reading'.n = reading.n /\ reading'.got = got1 /\ reading'.state = "reading"
  BY <1>1, <1>2 DEF Read
<1>4. Len(got1) = Len(reading.got) + 1 /\ Len(got1) <= reading.n
  <2>1. reading.got \in Seq(ClusterNo) /\ reading.n \in Nat
    BY <1>1, ReadingIs
  <2> QED BY <1>1, <2>1 DEF got1
<1>5. /\ Along(reading.file.name, got1, file_table'[reading.file.fd])
      /\ \A i \in Slot : i # reading.file.fd => file_table'[i] = file_table[i]
  BY <1>1, CopyWalks DEF got1
<1>6. \A d \in Client : \A g \in held'[d] :
        ~ (Waits(d) /\ reading.file = g) => Along(g.name, g.got, file_table'[g.fd])
  BY <1>1, <1>5, ReadingIs, OthersStay DEF Waits
<1>7. reading' # Idle
  BY <1>3 DEF Idle
<1>8. \A d : Waits(d)' <=> Waits(d)
  BY <1>1, <1>3, <1>7 DEF Waits
<1> QED BY <1>1, <1>3, <1>4, <1>5, <1>6, <1>8, ReadingIs DEF WalkInv, Here

LEMMA WalkRest ==
  ASSUME TableInv, WalkInv, ReadRest
  PROVE  WalkInv'
<1> DEFINE c == reading.client
           h == reading.file
           new(got) == [h EXCEPT !.got = got]
<1>1. reading # Idle
  BY DEF ReadRest
<1>2. /\ c \in Client /\ h \in held[c] /\ h \in Hold /\ h.fd \in Slot
      /\ reading.got \in Seq(ClusterNo) /\ Along(h.name, reading.got, Here)
      /\ h.name \in DOMAIN Dir /\ Dir[h.name].file
  BY <1>1, ReadingIs
<1>3. PICK got : /\ Answer(got)
                 /\ Along(h.name, got, file_table'[h.fd])
                 /\ \A i \in Slot : i # h.fd => file_table'[i] = file_table[i]
  <2>1. CASE Here.eof = 1
    <3>1. Answer(reading.got) /\ file_table' = file_table
      BY <2>1 DEF ReadRest
    <3> QED BY <1>2, <3>1 DEF Here
  <2>2. CASE Here.eof # 1
    <3>1. Answer(Append(reading.got, Here.current_cluster)) /\ Copy
      BY <2>2 DEF ReadRest
    <3> QED BY <1>1, <3>1, CopyWalks
  <2> QED BY <2>1, <2>2
<1>4. reading' = Idle /\ held' = [held EXCEPT ![c] = (@ \ {h}) \cup {new(got)}]
  BY <1>3 DEF Answer, Update
<1>5. new(got).fd = h.fd /\ new(got).name = h.name /\ new(got).got = got
  BY <1>2 DEF Hold
<1> HIDE DEF new
<1>6. \A d \in Client : \A g \in held'[d] :
        (d = c /\ g = new(got)) \/ (g \in held[d] /\ (g # h \/ d # c))
  BY <1>4 DEF TableInv, TypeOK
<1>7. \A d \in Client : \A g \in held[d] :
        g # h \/ d # c => Along(g.name, g.got, file_table'[g.fd])
  BY <1>2, <1>3, OthersStay DEF Waits
<1>8. Along(new(got).name, new(got).got, file_table'[new(got).fd])
  BY <1>3, <1>5
<1> QED BY <1>4, <1>6, <1>7, <1>8 DEF WalkInv

LEMMA WalkExit ==
  ASSUME TableInv, WalkInv, NEW c \in Client, Exit(c)
  PROVE  WalkInv'
<1>1. /\ UNCHANGED <<file_table, reading>>
      /\ \A d \in Client : held'[d] \subseteq held[d]
  BY DEF Exit, TableInv, TypeOK
<1> QED BY <1>1 DEF WalkInv, Waits, Here

LEMMA WalkStep ==
  ASSUME TableInv, WalkInv, [Next]_vars
  PROVE  WalkInv'
<1>1. CASE UNCHANGED vars
  BY <1>1 DEF vars, WalkInv, Waits, Here
<1>2. CASE ReadSector
  BY <1>2, WalkSector
<1>3. CASE ReadRest
  BY <1>3, WalkRest
<1>4. ASSUME NEW c \in Client, Exit(c) PROVE WalkInv'
  BY <1>4, WalkExit
<1>5. ASSUME NEW c \in Client, NEW f \in Name, fsys_do_open(c, f) PROVE WalkInv'
  BY <1>5, WalkOpen
<1>6. ASSUME NEW c \in Client, NEW h \in held[c],
             fsys_get_file_len(c, h) \/ fsys_do_read(c, h) \/ fsys_do_close(c, h)
      PROVE WalkInv'
  BY <1>6, WalkSize, WalkRead, WalkClose
<1> QED BY <1>1, <1>2, <1>3, <1>4, <1>5, <1>6 DEF Next

\* On every disk a read copies the sectors of the chain of its file in order,
\* no more of them than the file has, and the file stands behind what has been
\* copied, however the requests of the clients interleave, up to the first odd
\* cluster that is not the last of its file (fsys_do_read, fsys_fat_read).
THEOREM ReadsFollowChain == Spec => []ReadPrefix
<1>1. WalkInv => ReadPrefix
  BY DEF WalkInv, ReadPrefix, Along
<1>2. TableInv /\ WalkInv /\ [Next]_vars => WalkInv'
  BY WalkStep
<1> QED BY <1>1, <1>2, TableAlways, WalkStart, PTL DEF Spec

=============================================================================
