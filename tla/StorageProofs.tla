--------------------------- MODULE StorageProofs ---------------------------
(***************************************************************************)
(* Proofs about the sector cache and about the file system calls above it. *)
(*                                                                         *)
(* The cache.  A read returns what the drive holds, for every drive, cache *)
(* and read-ahead size and every pattern of failed transfers.  ReadsDisk   *)
(* is not inductive: a hit copies what the cache holds.  The invariant     *)
(* adds that the cache agrees with the drive (Coherent) and, because a     *)
(* write changes the drive before it updates the cache, that the sectors   *)
(* it still has to insert are in its buffer (ToInsert).                    *)
(*                                                                         *)
(* The calls.  For any set of tasks, of paths and of disks: a living       *)
(* task's descriptor table is what its own calls made of it (OwnView), and *)
(* an accepted partition table is scanned completely (TableIsScanned).     *)
(***************************************************************************)
EXTENDS BlockCache, Files, SequenceTheorems, TLAPS

-----------------------------------------------------------------------------
(* The cache *)

Fills == {"fillread", "fillahead", "fillwrite"}

Shape ==
  /\ disk \in [Lbas -> Data]
  /\ valid \subseteq EntryNo
  /\ lba \in [EntryNo -> Lbas] /\ data \in [EntryNo -> Data]
  /\ next \in EntryNo
  /\ pc \in {"idle", "read", "ahead"} \cup Fills
  /\ req \in [lba : Nat, count : Nat]
  /\ at \in Nat
  /\ fill \in Nat \X Nat
  /\ pc \in Fills => fill[2] <= Sectors
  /\ pc = "idle" => at = 0
  /\ unsure \subseteq Lbas

\* Write-through: a cached sector is what the drive holds, except while a
\* write is still updating the cache and for sectors a failed write may have
\* reached (write() returns the error before it touches the cache).
Coherent ==
  \A s \in valid :
    \/ data[s] = disk[lba[s]]
    \/ lba[s] \in unsure
    \/ pc = "fillwrite" /\ fill[1] <= lba[s] /\ lba[s] < fill[2]

ToInsert ==
  pc = "fillwrite" =>
    \A s \in Lbas : fill[1] <= s /\ s < fill[2] => buf[s - req.lba] = disk[s]

CacheInv == Shape /\ Coherent /\ ToInsert /\ ReadsDisk

\* The clock hand stays on the cache.
LEMMA HandWraps == (next \in EntryNo) => (next + 1) % Slots \in EntryNo
  BY CacheAssumption DEF EntryNo

\* An empty cache agrees with every drive.
LEMMA CacheInvInit == CacheInit => CacheInv
<1> SUFFICES ASSUME CacheInit PROVE CacheInv
  BY Zenon
<1>1. Shape
  BY CacheAssumption DEF CacheInit, Shape, Fills, NoCall, EntryNo, Lbas
<1> QED
  BY <1>1, Zenon DEF CacheInit, CacheInv, Coherent, ToInsert, ReadsDisk

\* insert(): the sector of the drive, or of the buffer of a write, goes into the
\* entry that has it or into the one the hand found; no other entry of that sector
\* keeps an old value.
LEMMA CacheFill ==
  ASSUME CacheInv, Fill
  PROVE  CacheInv'
<1> USE DEF CacheInv
<1>1. fill[1] \in Lbas /\ fill[1] < fill[2] /\ pc \in Fills /\ fill[2] <= Sectors
  BY CacheAssumption DEF Fill, Filling, Shape, Lbas, Fills
<1>2. Value(fill[1]) = disk[fill[1]] /\ disk[fill[1]] \in Data
  BY <1>1 DEF Value, Shape, ToInsert, Fills
<1>3. /\ fill' = <<fill[1] + 1, fill[2]>>
      /\ unsure' = IF pc = "fillwrite" THEN unsure \ {fill[1]} ELSE unsure
      /\ UNCHANGED <<disk, seqEnd, pc, req, buf, at, sequential>>
  BY Zenon DEF Fill
<1>4. fill' \in Nat \X Nat /\ fill'[1] = fill[1] + 1 /\ fill'[2] = fill[2]
  BY <1>3 DEF Shape
<1>5. CASE Contains(fill[1]) /\ Refresh(fill[1], Value(fill[1]))
  <2>1. /\ data' = [s \in EntryNo |-> IF s \in Holding(fill[1]) THEN disk[fill[1]] ELSE data[s]]
        /\ UNCHANGED <<valid, lba, next>>
    BY <1>2, <1>5, Zenon DEF Refresh
  <2>2. Shape'
    BY <1>1, <1>2, <1>3, <1>4, <2>1, Zenon DEF Shape
  <2>3. Coherent'
    <3> SUFFICES ASSUME NEW s \in valid
                 PROVE  \/ data'[s] = disk[lba[s]]
                        \/ lba[s] \in unsure'
                        \/ pc = "fillwrite" /\ fill'[1] <= lba[s] /\ lba[s] < fill'[2]
      BY <1>3, <2>1, Zenon DEF Coherent
    <3>1. s \in EntryNo /\ lba[s] \in Nat
      BY DEF Shape, Lbas
    <3>2. CASE lba[s] = fill[1]
      BY <2>1, <3>1, <3>2, Zenon DEF Holding
    <3>3. CASE lba[s] # fill[1]
      <4>1. data'[s] = data[s]
        BY <2>1, <3>1, <3>3, Zenon DEF Holding
      <4>2. lba[s] \in unsure => lba[s] \in unsure'
        BY <1>3, <3>3, Zenon
      <4>3. fill[1] <= lba[s] => fill'[1] <= lba[s]
        BY <1>1, <1>4, <3>1, <3>3 DEF Lbas
      <4> QED
        BY <1>4, <4>1, <4>2, <4>3, Zenon DEF Coherent
    <3> QED
      BY <3>2, <3>3, Zenon
  <2>4. ToInsert' /\ ReadsDisk'
    BY <1>1, <1>3, <1>4 DEF Shape, ToInsert, ReadsDisk, Lbas, Fills
  <2> QED
    BY <2>2, <2>3, <2>4, Zenon
<1>6. CASE ~Contains(fill[1]) /\ Place(fill[1], Value(fill[1]))
  <2>1. /\ lba' = [lba EXCEPT ![next] = fill[1]]
        /\ data' = [data EXCEPT ![next] = disk[fill[1]]]
        /\ valid' = valid \cup {next}
        /\ next' \in EntryNo
        /\ \A s \in valid : lba[s] # fill[1]
    BY <1>2, <1>6, HandWraps, Zenon DEF Place, Contains, Holding, Shape
  <2>2. Shape'
    BY <1>1, <1>2, <1>3, <1>4, <2>1, Zenon DEF Shape
  <2>3. Coherent'
    <3> SUFFICES ASSUME NEW s \in valid \cup {next}
                 PROVE  \/ data'[s] = disk[lba'[s]]
                        \/ lba'[s] \in unsure'
                        \/ pc = "fillwrite" /\ fill'[1] <= lba'[s] /\ lba'[s] < fill'[2]
      BY <1>3, <2>1, Zenon DEF Coherent
    <3>1. s \in EntryNo /\ lba[s] \in Nat
      BY DEF Shape, Lbas
    <3>2. CASE s = next
      BY <2>1, <3>1, <3>2, Zenon DEF Shape
    <3>3. CASE s # next
      <4>1. s \in valid /\ lba[s] # fill[1] /\ data'[s] = data[s] /\ lba'[s] = lba[s]
        BY <2>1, <3>1, <3>3, Zenon DEF Shape
      <4>2. lba[s] \in unsure => lba[s] \in unsure'
        BY <1>3, <4>1, Zenon
      <4>3. fill[1] <= lba[s] => fill'[1] <= lba[s]
        BY <1>1, <1>4, <3>1, <4>1 DEF Lbas
      <4> QED
        BY <1>4, <4>1, <4>2, <4>3, Zenon DEF Coherent
    <3> QED
      BY <3>2, <3>3, Zenon
  <2>4. ToInsert' /\ ReadsDisk'
    BY <1>1, <1>3, <1>4 DEF Shape, ToInsert, ReadsDisk, Lbas, Fills
  <2> QED
    BY <2>2, <2>3, <2>4, Zenon
<1> QED
  BY <1>5, <1>6, Zenon DEF Fill

\* A hit copies a coherent entry; a miss copies the drive.
LEMMA CacheRead ==
  ASSUME CacheInv, Hit \/ Miss
  PROVE  CacheInv'
<1> USE DEF CacheInv
<1>1. pc = "read" /\ req.lba \in Nat /\ req.count \in Nat /\ at \in Nat
      /\ UNCHANGED <<disk, valid, lba, data, next, req, unsure>>
  BY Zenon DEF Hit, Miss, cache, Shape
<1>2. CASE Hit
  <2>1. PICK s \in valid : /\ lba[s] = req.lba + at
                           /\ buf' = [i \in 0..at |-> IF i = at THEN data[s] ELSE buf[i]]
    BY <1>2, Zenon DEF Hit, Holding, Here
  <2>2. at' = at + 1 /\ UNCHANGED <<pc, fill>>
    BY <1>2, Zenon DEF Hit
  <2>3. data[s] = disk[req.lba + at] \/ req.lba + at \in unsure
    BY <1>1, <2>1, Zenon DEF Coherent
  <2>4. ReadsDisk'
    <3> SUFFICES ASSUME NEW i \in 0..at
                 PROVE  req.lba + i \in unsure \/ buf'[i] = disk[req.lba + i]
      BY <1>1, <2>2 DEF ReadsDisk
    <3> QED
      BY <1>1, <2>1, <2>3 DEF ReadsDisk
  <2> QED
    BY <1>1, <2>2, <2>4 DEF Shape, Coherent, ToInsert, Fills
<1>3. CASE Miss
  <2>1. PICK run \in 1..MaxCount :
          /\ req.lba + at + run <= Sectors
          /\ buf' = [i \in 0..(at + run - 1) |-> IF i < at THEN buf[i] ELSE disk[req.lba + i]]
          /\ fill' = <<req.lba + at, req.lba + at + run>>
          /\ at' = at + run
    BY <1>3, Zenon DEF Miss, Here
  <2>2. pc' = "fillread"
    BY <1>3, Zenon DEF Miss
  <2>3. run \in Nat \ {0}
    BY <2>1, CacheAssumption
  <2>4. ReadsDisk'
    <3>1. ASSUME NEW i \in 0..(at + run - 1)
          PROVE  req.lba + i \in unsure \/ buf'[i] = disk[req.lba + i]
      <4>1. buf'[i] = IF i < at THEN buf[i] ELSE disk[req.lba + i]
        BY <2>1, Zenon
      <4>2. CASE i < at
        <5>1. i \in 0..(at - 1)
          BY <1>1, <2>3, <4>2
        <5> QED
          BY <1>1, <4>1, <4>2, <5>1, Zenon DEF ReadsDisk
      <4> QED
        BY <4>1, <4>2, Zenon
    <3>2. at' = at + run /\ UNCHANGED <<req, disk, unsure>>
      BY <1>1, <2>1, Zenon
    <3>3. \A i \in 0..(at' - 1) : req.lba + i \in unsure \/ buf'[i] = disk[req.lba + i]
      <4>1. at' - 1 = at + run - 1
        BY <1>1, <2>3, <3>2
      <4> QED
        BY <3>1, <4>1, Zenon
    <3> QED
      BY <3>2, <3>3, Zenon DEF ReadsDisk
  <2>5. Shape'
    BY <1>1, <2>1, <2>2, <2>3 DEF Shape, Fills
  <2> QED
    BY <1>1, <2>2, <2>4, <2>5, Zenon DEF Coherent, ToInsert
<1> QED
  BY <1>2, <1>3, Zenon

\* The ends of a call and the steps of the read-ahead touch neither the drive nor
\* an entry.
LEMMA CacheControl ==
  ASSUME CacheInv,
         \/ MissFails \/ ReadDone \/ AheadCached \/ Ahead \/ AheadDone \/ FillDone
         \/ \E r \in Requests : StartRead(r)
  PROVE  CacheInv'
<1> USE DEF CacheInv, cache
<1>0. NoCall \in [lba : Nat, count : Nat]
  BY Zenon DEF NoCall
<1>1. CASE MissFails \/ ReadDone \/ AheadDone
  <2>1. /\ pc' \in {"idle", "ahead"} /\ at' = 0 /\ fill' = <<0, 0>>
        /\ pc # "fillwrite"
        /\ UNCHANGED <<disk, valid, lba, data, next, unsure>>
    BY <1>1, Zenon DEF MissFails, ReadDone, AheadDone, EndCall
  <2>2. req' \in [lba : Nat, count : Nat]
    BY <1>0, <1>1 DEF MissFails, ReadDone, AheadDone, EndCall, Shape
  <2> QED
    BY <2>1, <2>2, Zenon DEF Shape, Coherent, ToInsert, ReadsDisk, Fills
<1>2. CASE AheadCached
  BY <1>2 DEF AheadCached, Shape, Coherent, ToInsert, ReadsDisk, Fills
<1>3. CASE Ahead
  <2>1. PICK run \in 1..READ_AHEAD :
          /\ at' = at + run
          /\ \/ /\ req.lba + at + run <= Sectors /\ pc' = "fillahead"
                /\ fill' = <<req.lba + at, req.lba + at + run>>
             \/ UNCHANGED <<pc, fill>>
    BY <1>3, Zenon DEF Ahead, Here
  <2>2. pc = "ahead" /\ UNCHANGED <<disk, valid, lba, data, next, req, unsure>>
    BY <1>3, Zenon DEF Ahead
  <2>3. run \in Nat
    BY <2>1, CacheAssumption
  <2> QED
    BY <2>1, <2>2, <2>3 DEF Shape, Coherent, ToInsert, ReadsDisk, Fills
<1>4. CASE FillDone
  <2>1. /\ fill[1] = fill[2] /\ UNCHANGED <<disk, valid, lba, data, next, unsure>>
        /\ \/ pc = "fillread" /\ pc' = "read" /\ UNCHANGED <<req, buf, at, fill>>
           \/ pc = "fillahead" /\ pc' = "ahead" /\ UNCHANGED <<req, buf, at, fill>>
           \/ pc = "fillwrite" /\ pc' = "idle" /\ req' = NoCall /\ at' = 0 /\ fill' = <<0, 0>>
    BY <1>4, Zenon DEF FillDone, EndCall
  <2>2. Shape'
    BY <1>0, <2>1 DEF Shape, Fills
  <2>3. Coherent'
    BY <2>1 DEF Shape, Coherent, Lbas
  <2> QED
    BY <2>1, <2>2, <2>3, Zenon DEF ToInsert, ReadsDisk
<1>5. ASSUME NEW r \in Requests, StartRead(r)
      PROVE  CacheInv'
  BY <1>5, CacheAssumption DEF StartRead, Requests, Lbas, Shape, Coherent, ToInsert, ReadsDisk, Fills
<1> QED
  BY <1>1, <1>2, <1>3, <1>4, <1>5, Zenon

\* A write changes the drive where it will update the cache, or, if it fails, where it
\* leaves the cache in doubt; flush() empties the cache; the hand only moves.
LEMMA CacheWrite ==
  ASSUME CacheInv,
         \/ \E r \in Requests : \E content \in Contents(r.count) :
              Write(r, content) \/ WriteFails(r, content)
         \/ Flush \/ FillSweep
  PROVE  CacheInv'
<1> USE DEF CacheInv, cache
<1>1. ASSUME NEW r \in Requests, NEW content \in Contents(r.count), NEW n \in 0..r.count,
             r.lba + n <= Sectors
      PROVE  /\ Written(r, content, n) \in [Lbas -> Data]
             /\ \A s \in Lbas : Written(r, content, n)[s] =
                   IF r.lba <= s /\ s < r.lba + n THEN content[s - r.lba] ELSE disk[s]
  <2>1. r.lba \in Nat /\ r.count \in Nat /\ n \in Nat /\ n <= r.count
    BY CacheAssumption DEF Requests, Lbas
  <2>2. \A s \in Lbas : s \in r.lba..(r.lba + n - 1) <=> r.lba <= s /\ s < r.lba + n
    BY <2>1 DEF Lbas
  <2>3. \A s \in Lbas : r.lba <= s /\ s < r.lba + n => content[s - r.lba] \in Data
    BY <2>1 DEF Lbas, Contents
  <2> QED
    BY <2>2, <2>3, Zenon DEF Written, Shape
<1>2. ASSUME NEW r \in Requests, NEW content \in Contents(r.count), Write(r, content)
      PROVE  CacheInv'
  <2>1. r.lba \in Nat /\ r.count \in Nat /\ r.lba + r.count <= Sectors
    BY <1>2, CacheAssumption DEF Write, Requests, Lbas
  <2>2. /\ disk' \in [Lbas -> Data]
        /\ \A s \in Lbas : disk'[s] =
              IF r.lba <= s /\ s < r.lba + r.count THEN content[s - r.lba] ELSE disk[s]
    <3>1. r.count \in 0..r.count
      BY <2>1
    <3> QED
      BY <1>1, <1>2, <2>1, <3>1, ZenonT(40) DEF Write
  <2>3. /\ pc' = "fillwrite" /\ req' = r /\ buf' = content /\ pc = "idle"
        /\ fill' = <<r.lba, r.lba + r.count>>
        /\ UNCHANGED <<valid, lba, data, next, at, unsure>>
    BY <1>2, Zenon DEF Write
  <2>4. Shape'
    BY <2>1, <2>2, <2>3 DEF Shape, Fills, Requests
  <2>5. Coherent'
    BY <2>1, <2>2, <2>3, Zenon DEF Shape, Coherent, Lbas
  <2>6. ToInsert' /\ ReadsDisk'
    BY <2>1, <2>2, <2>3, Zenon DEF ToInsert, ReadsDisk, Lbas
  <2> QED
    BY <2>4, <2>5, <2>6, Zenon
<1>3. ASSUME NEW r \in Requests, NEW content \in Contents(r.count), WriteFails(r, content)
      PROVE  CacheInv'
  <2>1. PICK n \in 0..r.count : /\ r.lba + n <= Sectors
                                /\ disk' = Written(r, content, n)
                                /\ unsure' = unsure \cup r.lba..(r.lba + n - 1)
    BY <1>3, Zenon DEF WriteFails
  <2>2. r.lba \in Nat /\ n \in Nat
    BY CacheAssumption DEF Requests, Lbas
  <2>3. /\ disk' \in [Lbas -> Data]
        /\ \A s \in Lbas : disk'[s] =
              IF r.lba <= s /\ s < r.lba + n THEN content[s - r.lba] ELSE disk[s]
    BY <1>1, <2>1, Zenon
  <2>4. pc = "idle" /\ UNCHANGED <<valid, lba, data, next, pc, req, at, fill>>
    BY <1>3, Zenon DEF WriteFails, ongoing
  <2>5. Shape'
    <3>1. r.lba..(r.lba + n - 1) \subseteq Lbas
      BY <2>1, <2>2, CacheAssumption DEF Lbas
    <3> QED
      BY <2>1, <2>3, <2>4, <3>1, Zenon DEF Shape
  <2>6. Coherent'
    <3> SUFFICES ASSUME NEW s \in valid
                 PROVE  data[s] = disk'[lba[s]] \/ lba[s] \in unsure'
      BY <2>4, Zenon DEF Coherent
    <3>1. lba[s] \in Lbas /\ lba[s] \in Nat
      BY DEF Shape, Lbas
    <3>2. data[s] = disk[lba[s]] \/ lba[s] \in unsure
      BY <2>4, Zenon DEF Coherent
    <3>3. CASE r.lba <= lba[s] /\ lba[s] < r.lba + n
      <4>1. lba[s] \in r.lba..(r.lba + n - 1)
        BY <2>2, <3>1, <3>3
      <4> QED
        BY <2>1, <4>1, Zenon
    <3>4. CASE ~(r.lba <= lba[s] /\ lba[s] < r.lba + n)
      BY <2>1, <2>3, <3>1, <3>2, <3>4, Zenon
    <3> QED
      BY <3>3, <3>4, Zenon
  <2> QED
    BY <2>4, <2>5, <2>6, Zenon DEF ToInsert, ReadsDisk
<1>4. CASE Flush
  BY <1>4, Zenon DEF Flush, ongoing, Shape, Coherent, ToInsert, ReadsDisk, Fills
<1>5. CASE FillSweep
  <2>1. next' \in EntryNo
    BY <1>5, HandWraps, Zenon DEF FillSweep, Pass, Shape
  <2>2. UNCHANGED <<disk, valid, lba, data, pc, req, buf, at, fill, unsure>>
    BY <1>5, Zenon DEF FillSweep, Pass, ongoing
  <2> QED
    BY <2>1, <2>2, Zenon DEF Shape, Coherent, ToInsert, ReadsDisk
<1> QED
  BY <1>2, <1>3, <1>4, <1>5, Zenon

\* What a read has put into the caller's buffer is what the drive holds, in every
\* state of every behaviour: read(), write(), insert() and flush() of blkcache.rs.
THEOREM ReadsReturnDisk == CacheSpec => []ReadsDisk
<1>1. ASSUME CacheInv, [CacheNext]_cacheVars
      PROVE  CacheInv'
  <2>1. CASE UNCHANGED cacheVars
    BY <1>1, <2>1, Zenon DEF cacheVars, cache, ongoing, CacheInv, Shape, Coherent, ToInsert, ReadsDisk
  <2> QED
    BY <1>1, <2>1, CacheRead, CacheControl, CacheWrite, CacheFill, Zenon DEF CacheNext, Step
<1>2. CacheInv => ReadsDisk
  BY Zenon DEF CacheInv
<1> QED
  BY CacheInvInit, <1>1, <1>2, PTL DEF CacheSpec
-----------------------------------------------------------------------------
(* Descriptors and partition tables *)

\* A task that has dropped its own table and not yet recorded its exit.
Leaving(t) == call[t].op = "exit" /\ call[t].pc = "record"

(***************************************************************************)
(* The table of a task is dropped by the task itself as it exits, or by a  *)
(* task that has killed it before: whoever is about to drop the table of a *)
(* living task is that task.                                               *)
(***************************************************************************)
FdsInv ==
  /\ DOMAIN state = Tasks /\ DOMAIN call = Tasks /\ DOMAIN own = Tasks
  /\ \A t \in Tasks : {"op", "pc"} \subseteq DOMAIN call[t]
  /\ \A t \in Tasks : call[t].pc = "drop" =>
       /\ call[t].path \in Tasks
       /\ state[call[t].path] = "live" => call[t].path = t /\ call[t].op = "exit"
  /\ \A t \in Tasks : state[t] = "live" /\ ~Leaving(t) => TableOf(t) = own[t]

\* The scan of a GPT that has come to the entry array has accepted its header, and asks for
\* the sectors the geometry takes.
BlockInv ==
  /\ DOMAIN block = {"pc", "disk", "want", "got", "parts", "failed"}
  /\ block.pc \in {"header", "array"} =>
       block.disk \in Disks /\ block.disk.table[1].kind = "protective"
  /\ block.pc = "array" =>
       /\ block.disk.magic = "EFI PART"
       /\ ValidateGptGeometry(block.disk.size, Len(block.disk.entries))
       /\ block.want = WantSectors(block.disk)
  /\ TableIsScanned
-----------------------------------------------------------------------------
(* Descriptors *)

\* Making, filling or touching one task's table leaves the others as they are.
LEMMA TableSet ==
  ASSUME NEW t, NEW table, SetTable(t, table)
  PROVE  \A u : TableOf(u)' = IF u = t THEN table ELSE TableOf(u)
  BY Zenon DEF SetTable, TableOf

LEMMA TableTouched ==
  ASSUME NEW t, TouchTable(t)
  PROVE  \A u : TableOf(u)' = TableOf(u)
  BY TableSet DEF TouchTable

LEMMA TableDropped ==
  ASSUME NEW t, DropTable(t)
  PROVE  \A u : u # t => TableOf(u)' = TableOf(u)
  BY Zenon DEF DropTable, TableOf

\* A step of one task's call that drops no table, and after which the task's own view of its
\* table is the table.
LEMMA CallStep ==
  ASSUME FdsInv, NEW t \in Tasks, NEW c, call' = [call EXCEPT ![t] = c],
         {"op", "pc"} \subseteq DOMAIN c, c.pc \notin {"drop", "record"},
         state' = state, DOMAIN own' = Tasks,
         \A u \in Tasks \ {t} : TableOf(u)' = TableOf(u) /\ own'[u] = own[u],
         state[t] = "live" => TableOf(t)' = own'[t]
  PROVE  FdsInv'
<1>1. call'[t] = c /\ DOMAIN call' = Tasks /\ \A u \in Tasks \ {t} : call'[u] = call[u]
  BY Zenon DEF FdsInv
<1>2. ASSUME NEW u \in Tasks
      PROVE  /\ {"op", "pc"} \subseteq DOMAIN call'[u]
             /\ call'[u].pc = "drop" =>
                  /\ call'[u].path \in Tasks
                  /\ state[call'[u].path] = "live" => call'[u].path = u /\ call'[u].op = "exit"
             /\ state[u] = "live" /\ ~Leaving(u)' => TableOf(u)' = own'[u]
  <2>1. CASE u = t
    BY <1>1, <2>1, Zenon
  <2>2. CASE u # t
    <3>1. call'[u] = call[u] /\ TableOf(u)' = TableOf(u) /\ own'[u] = own[u]
      BY <1>1, <2>2, Zenon
    <3>2. Leaving(u)' = Leaving(u)
      BY <3>1, Zenon DEF Leaving
    <3> QED
      BY <3>1, <3>2, Zenon DEF FdsInv
  <2> QED
    BY <2>1, <2>2, Zenon
<1> QED
  BY <1>1, <1>2, Zenon DEF FdsInv

\* The same for a step that touches no descriptor.
LEMMA CallOnly ==
  ASSUME FdsInv, NEW t \in Tasks, NEW c, call' = [call EXCEPT ![t] = c],
         {"op", "pc"} \subseteq DOMAIN c, c.pc \notin {"drop", "record"},
         call[t].pc # "record", state' = state, own' = own,
         \A u : TableOf(u)' = TableOf(u)
  PROVE  FdsInv'
<1>1. state[t] = "live" => TableOf(t)' = own'[t]
  BY Zenon DEF FdsInv, Leaving
<1>2. DOMAIN own' = Tasks
  BY Zenon DEF FdsInv
<1> QED
  BY <1>1, <1>2, CallStep, ZenonT(40)

LEMMA IdleCall == {"op", "pc"} \subseteq DOMAIN Idle /\ Idle.pc = "idle"
  BY Zenon DEF Idle

LEMMA NewCall ==
  ASSUME NEW op, NEW stage, NEW path, NEW fd, NEW len
  PROVE  /\ {"op", "pc"} \subseteq DOMAIN Call(op, stage, path, fd, len)
         /\ Call(op, stage, path, fd, len).pc = stage /\ Call(op, stage, path, fd, len).op = op
         /\ Call(op, stage, path, fd, len).path = path
  BY Zenon DEF Call

LEMMA FdsInit == Init => FdsInv
<1> SUFFICES ASSUME Init PROVE FdsInv
  BY Zenon
<1>1. /\ DOMAIN state = Tasks /\ DOMAIN call = Tasks /\ DOMAIN own = Tasks
      /\ \A t \in Tasks : call[t] = Idle /\ own[t] = EmptyTable
  BY Zenon DEF Init
<1>2. \A t \in Tasks : TableOf(t) = EmptyTable
  BY DEF Init, TableOf
<1> QED
  BY <1>1, <1>2, IdleCall, Zenon DEF FdsInv

\* A call begins.
LEMMA EnterKeeps ==
  ASSUME FdsInv, NEW t \in Tasks, NEW c, Enter(t, c),
         {"op", "pc"} \subseteq DOMAIN c, c.pc \notin {"drop", "record"}
  PROVE  FdsInv'
<1>1. /\ call' = [call EXCEPT ![t] = c] /\ state' = state /\ own' = own /\ fds' = fds
      /\ call[t].pc = "idle"
  BY Zenon DEF Enter
<1>2. \A u : TableOf(u)' = TableOf(u)
  BY <1>1, Zenon DEF TableOf
<1> QED
  BY <1>1, <1>2, CallOnly, Zenon

LEMMA StartKeeps ==
  ASSUME FdsInv, NEW t \in Tasks, StartOnPath(t) \/ StartOnFd(t) \/ StartWritev(t)
  PROVE  FdsInv'
<1>1. PICK c : Enter(t, c) /\ {"op", "pc"} \subseteq DOMAIN c /\ c.pc \notin {"drop", "record"}
  <2>1. CASE StartOnPath(t)
    <3>1. CASE \E p \in Paths, op \in {"open", "unlink", "mkdir", "stat", "ls"} :
                 Enter(t, Call(op, "mounts", p, 0, 0))
      BY <3>1, NewCall
    <3>2. CASE \E p, q \in Paths : Enter(t, [Call("rename", "mounts", p, 0, 0) EXCEPT !.to = q])
      BY <3>2 DEF Call
    <3> QED
      BY <2>1, <3>1, <3>2, Zenon DEF StartOnPath
  <2>2. CASE StartOnFd(t)
    BY <2>2, NewCall DEF StartOnFd
  <2>3. CASE StartWritev(t)
    BY <2>3 DEF StartWritev, Call
  <2> QED
    BY <2>1, <2>2, <2>3, Zenon
<1> QED
  BY <1>1, EnterKeeps, Zenon

\* A task begins to exit, or to kill another one.
LEMMA EndKeeps ==
  ASSUME FdsInv, NEW t \in Tasks, NEW u \in Tasks, StartExit(t) \/ Kill(t, u)
  PROVE  FdsInv'
<1>0. UNCHANGED <<fds, own>> /\ call[t].pc = "idle" /\ \A x : TableOf(x)' = TableOf(x)
  BY Zenon DEF StartExit, Enter, Kill, TableOf
<1>1. CASE StartExit(t)
  <2> DEFINE c == Call("exit", "drop", t, 0, 0)
  <2>1. call' = [call EXCEPT ![t] = c] /\ state' = state
    BY <1>1, Zenon DEF StartExit, Enter
  <2>2. {"op", "pc"} \subseteq DOMAIN c /\ c.pc = "drop" /\ c.op = "exit" /\ c.path = t
    BY NewCall
  <2> HIDE DEF c
  <2> QED
    BY <1>0, <2>1, <2>2, Zenon DEF FdsInv, Leaving
<1>2. CASE Kill(t, u)
  <2> DEFINE c == Call("kill", "drop", u, 0, 0)
  <2>1. call' = [call EXCEPT ![t] = c] /\ t # u
    BY <1>2, Zenon DEF Kill
  <2>2. state' = [state EXCEPT ![u] = "dying"] \/ state' = [state EXCEPT ![u] = "gone"]
    BY <1>2, Zenon DEF Kill
  <2>3. {"op", "pc"} \subseteq DOMAIN c /\ c.pc = "drop" /\ c.op = "kill" /\ c.path = u
    BY NewCall
  <2> HIDE DEF c
  <2>4. /\ DOMAIN state' = Tasks /\ DOMAIN call' = Tasks /\ state'[u] # "live"
        /\ \A x \in Tasks : state'[x] = "live" => state[x] = "live"
        /\ call'[t] = c /\ \A x \in Tasks : x # t => call'[x] = call[x]
    BY <2>1, <2>2, Zenon DEF FdsInv
  <2>5. ASSUME NEW x \in Tasks
        PROVE  /\ {"op", "pc"} \subseteq DOMAIN call'[x]
               /\ call'[x].pc = "drop" =>
                    /\ call'[x].path \in Tasks
                    /\ state'[call'[x].path] = "live" =>
                         call'[x].path = x /\ call'[x].op = "exit"
               /\ state'[x] = "live" /\ ~Leaving(x)' => TableOf(x)' = own'[x]
    <3>1. CASE x = t
      BY <1>0, <2>3, <2>4, <3>1, Zenon DEF FdsInv, Leaving
    <3>2. CASE x # t
      BY <1>0, <2>4, <3>2 DEF FdsInv, Leaving
    <3> QED
      BY <3>1, <3>2, Zenon
  <2> QED
    BY <1>0, <2>4, <2>5 DEF FdsInv
<1> QED
  BY <1>1, <1>2, Zenon

\* Only a table whose task is ending goes.
LEMMA DropKeeps ==
  ASSUME FdsInv, NEW t \in Tasks, Drop(t, call[t])
  PROVE  FdsInv'
<1> DEFINE dead == call[t].path
<1>1. /\ call[t].pc = "drop" /\ UNCHANGED <<state, own>> /\ dead \in Tasks
      /\ state[dead] = "live" => dead = t /\ call[t].op = "exit"
  BY Zenon DEF Drop, FdsInv
<1>2. \A u : u # dead => TableOf(u)' = TableOf(u)
  BY TableDropped, Zenon DEF Drop
<1> HIDE DEF dead
<1>3. CASE call[t].op = "exit"
  <2>1. call' = [call EXCEPT ![t].pc = "record"]
    BY <1>3, Zenon DEF Drop, Goto
  <2>2. /\ DOMAIN call' = Tasks /\ \A x \in Tasks \ {t} : call'[x] = call[x]
        /\ {"op", "pc"} \subseteq DOMAIN call'[t] /\ call'[t].pc = "record"
        /\ call'[t].op = "exit"
    BY <1>3, <2>1, Zenon DEF FdsInv
  <2>3. ASSUME NEW x \in Tasks, state[x] = "live", ~Leaving(x)'
        PROVE  TableOf(x)' = own[x]
    <3>1. x # t
      BY <2>2, <2>3, Zenon DEF Leaving
    <3>2. x # dead
      BY <1>1, <2>3, <3>1, Zenon
    <3>3. ~Leaving(x)
      BY <2>2, <2>3, <3>1, Zenon DEF Leaving
    <3> QED
      BY <1>2, <2>3, <3>2, <3>3, Zenon DEF FdsInv
  <2>4. \A x \in Tasks : {"op", "pc"} \subseteq DOMAIN call'[x]
    BY <2>2, Zenon DEF FdsInv
  <2>5. ASSUME NEW x \in Tasks, call'[x].pc = "drop"
        PROVE  /\ call'[x].path \in Tasks
               /\ state'[call'[x].path] = "live" => call'[x].path = x /\ call'[x].op = "exit"
    <3>1. x # t
      BY <2>2, <2>5, Zenon
    <3> QED
      BY <1>1, <2>2, <2>5, <3>1 DEF FdsInv
  <2>6. DOMAIN state' = Tasks /\ DOMAIN call' = Tasks /\ DOMAIN own' = Tasks
    BY <1>1, <2>2, Zenon DEF FdsInv
  <2>7. \A x \in Tasks : state'[x] = "live" /\ ~Leaving(x)' => TableOf(x)' = own'[x]
    BY <1>1, <2>3, Zenon
  <2> QED
    BY <2>4, <2>5, <2>6, <2>7, Zenon DEF FdsInv
<1>4. CASE call[t].op # "exit"
  <2>1. call' = [call EXCEPT ![t] = Idle]
    BY <1>4, Zenon DEF Drop, Return
  <2>2. /\ DOMAIN call' = Tasks /\ \A x \in Tasks \ {t} : call'[x] = call[x]
        /\ call'[t] = Idle
    BY <2>1, Zenon DEF FdsInv
  <2>3. ASSUME NEW x \in Tasks, state[x] = "live", ~Leaving(x)'
        PROVE  TableOf(x)' = own[x]
    <3>1. x # dead
      BY <1>1, <1>4, <2>3, Zenon
    <3>2. ~Leaving(x)
      BY <1>1, <2>2, <2>3, Zenon DEF Leaving
    <3> QED
      BY <1>2, <2>3, <3>1, <3>2, Zenon DEF FdsInv
  <2> QED
    BY <1>1, <2>2, <2>3, IdleCall DEF FdsInv
<1> QED
  BY <1>3, <1>4, Zenon

\* A task is gone.
LEMMA GoneKeeps ==
  ASSUME FdsInv, NEW t \in Tasks, RecordExit(t) \/ Deschedule(t)
  PROVE  FdsInv'
<1>1. /\ state' = [state EXCEPT ![t] = "gone"] /\ UNCHANGED <<fds, own>>
      /\ call' = [call EXCEPT ![t] = Idle] \/ call' = call
  BY Zenon DEF RecordExit, Deschedule, Return
<1>2. /\ DOMAIN state' = Tasks /\ DOMAIN call' = Tasks /\ state'[t] # "live"
      /\ \A x \in Tasks : state'[x] = "live" => state[x] = "live" /\ x # t
      /\ \A x \in Tasks \ {t} : call'[x] = call[x]
      /\ call'[t] = call[t] \/ call'[t] = Idle
  BY <1>1, Zenon DEF FdsInv
<1>3. \A x : TableOf(x)' = TableOf(x)
  BY <1>1, Zenon DEF TableOf
<1>4. ASSUME NEW x \in Tasks
      PROVE  /\ {"op", "pc"} \subseteq DOMAIN call'[x]
             /\ call'[x].pc = "drop" =>
                  /\ call'[x].path \in Tasks
                  /\ state'[call'[x].path] = "live" => call'[x].path = x /\ call'[x].op = "exit"
             /\ state'[x] = "live" /\ ~Leaving(x)' => TableOf(x)' = own'[x]
  BY <1>1, <1>2, <1>3, IdleCall DEF FdsInv, Leaving
<1> QED
  BY <1>1, <1>2, <1>4, Zenon DEF FdsInv

\* with_fd: a call looks at its descriptor, and later updates it.
LEMMA LookUpKeeps ==
  ASSUME FdsInv, NEW t \in Tasks, NEW e, call[t].pc = "fd", LookUp(t, call[t], e)
  PROVE  FdsInv'
<1> DEFINE c == [call[t] EXCEPT !.path = e.name, !.off = e.pos,
                   !.pc = IF call[t].op \in {"set", "cur"} THEN "seek" ELSE "mounts",
                   !.len = IF call[t].op = "cur" THEN e.pos + call[t].len ELSE call[t].len]
<1>1. /\ UNCHANGED <<state, own>> /\ TouchTable(t)
      /\ call' = [call EXCEPT ![t] = IF e.open = "no" THEN Idle ELSE c]
  BY Zenon DEF LookUp
<1>2. {"op", "pc"} \subseteq DOMAIN c /\ c.pc \in {"seek", "mounts"}
  BY Zenon DEF FdsInv
<1> HIDE DEF c
<1>3. \A u : TableOf(u)' = TableOf(u)
  BY <1>1, TableTouched, Zenon
<1>4. CASE e.open = "no"
  BY <1>1, <1>3, <1>4, IdleCall, CallOnly, Zenon
<1>5. CASE e.open # "no"
  BY <1>1, <1>2, <1>3, <1>5, CallOnly, ZenonT(40)
<1> QED
  BY <1>4, <1>5, Zenon

LEMMA UpdateKeeps ==
  ASSUME FdsInv, NEW t \in Tasks, NEW pos, Update(t, call[t], pos), call[t].pc # "record",
         NEW c, call' = [call EXCEPT ![t] = c],
         {"op", "pc"} \subseteq DOMAIN c, c.pc \notin {"drop", "record"}
  PROVE  FdsInv'
<1> DEFINE fd == call[t].fd
           Moved(table) == [table EXCEPT ![fd].pos = IF table[fd].open = "no" THEN @ ELSE pos]
<1>1. state' = state /\ SetTable(t, Moved(TableOf(t))) /\ own' = [own EXCEPT ![t] = Moved(own[t])]
  BY Zenon DEF Update
<1> HIDE DEF Moved
<1>2. \A u : TableOf(u)' = IF u = t THEN Moved(TableOf(t)) ELSE TableOf(u)
  BY <1>1, TableSet, Zenon
<1>3. DOMAIN own' = Tasks /\ own'[t] = Moved(own[t]) /\ \A u \in Tasks \ {t} : own'[u] = own[u]
  BY <1>1, Zenon DEF FdsInv
<1>4. state[t] = "live" => TableOf(t) = own[t]
  BY Zenon DEF FdsInv, Leaving
<1>5. state[t] = "live" => TableOf(t)' = own'[t]
  BY <1>2, <1>3, <1>4, Zenon
<1> QED
  BY <1>1, <1>2, <1>3, <1>5, CallStep, ZenonT(40)

LEMMA SeekKeeps ==
  ASSUME FdsInv, NEW t \in Tasks, Seek(t, call[t]) \/ Advance(t, call[t])
  PROVE  FdsInv'
<1>1. CASE Seek(t, call[t])
  BY <1>1, IdleCall, UpdateKeeps, Zenon DEF Seek, Return
<1>2. CASE Advance(t, call[t])
  <2> DEFINE c == [call[t] EXCEPT !.pc = "fd", !.more = 0, !.len = 1]
             after == IF call[t].more = 0 THEN Idle ELSE c
  <2>1. {"op", "pc"} \subseteq DOMAIN c /\ c.pc = "fd"
    BY Zenon DEF FdsInv
  <2>2. {"op", "pc"} \subseteq DOMAIN after /\ after.pc \notin {"drop", "record"}
    BY <2>1, IdleCall, Zenon
  <2>3. /\ call[t].pc = "advance" /\ call' = [call EXCEPT ![t] = after]
        /\ Update(t, call[t], TableOf(t)[call[t].fd].pos + call[t].len)
    BY <1>2, Zenon DEF Advance
  <2> HIDE DEF after
  <2> QED
    BY <2>2, <2>3, UpdateKeeps, ZenonT(40)
<1> QED
  BY <1>1, <1>2, Zenon

\* sys_close, and sys_open's choice of a descriptor.
LEMMA SlotKeeps ==
  ASSUME FdsInv, NEW t \in Tasks, NEW free, Close(t, call[t]) \/ Slot(t, call[t], free)
  PROVE  FdsInv'
<1>1. /\ state' = state /\ call' = [call EXCEPT ![t] = Idle] /\ call[t].pc \in {"fd", "slot"}
  BY Zenon DEF Close, Slot, Return
<1>2. CASE TouchTable(t) /\ own' = own
  <2>1. \A u : TableOf(u)' = TableOf(u)
    BY <1>2, TableTouched, Zenon
  <2> QED
    BY <1>1, <1>2, <2>1, IdleCall, CallOnly, ZenonT(40)
<1>3. CASE \E i, e : SetTable(t, [TableOf(t) EXCEPT ![i] = e]) /\ own' = [own EXCEPT ![t][i] = e]
  <2>1. PICK i, e : SetTable(t, [TableOf(t) EXCEPT ![i] = e]) /\ own' = [own EXCEPT ![t][i] = e]
    BY <1>3, ZenonT(40)
  <2>2. \A u : TableOf(u)' = IF u = t THEN [TableOf(t) EXCEPT ![i] = e] ELSE TableOf(u)
    BY <2>1, TableSet, Zenon
  <2>3. /\ DOMAIN own' = Tasks /\ own'[t] = [own[t] EXCEPT ![i] = e]
        /\ \A u \in Tasks \ {t} : own'[u] = own[u]
    BY <2>1, Zenon DEF FdsInv
  <2>4. state[t] = "live" => TableOf(t) = own[t]
    BY <1>1, Zenon DEF FdsInv, Leaving
  <2>5. state[t] = "live" => TableOf(t)' = own'[t]
    BY <2>2, <2>3, <2>4, Zenon
  <2> QED
    BY <1>1, <2>2, <2>3, <2>5, IdleCall, CallStep, ZenonT(40)
<1> QED
  BY <1>2, <1>3, Zenon DEF Close, Slot

\* The file system operations: no descriptor changes.
LEMMA FsKeeps ==
  ASSUME FdsInv, NEW t \in Tasks,
         TakeMounts(t, call[t]) \/ Operate(t, call[t]) \/ Rename(t, call[t])
  PROVE  FdsInv'
<1>1. UNCHANGED <<state, fds, own>> /\ call[t].pc \in {"mounts", "disk"}
  BY Zenon DEF TakeMounts, Operate, Rename
<1>2. \A u : TableOf(u)' = TableOf(u)
  BY <1>1, Zenon DEF TableOf
<1>3. \E c : /\ call' = [call EXCEPT ![t] = c] /\ {"op", "pc"} \subseteq DOMAIN c
            /\ c.pc \notin {"drop", "record"}
  <2>1. CASE call' = [call EXCEPT ![t] = Idle]
    BY <2>1, IdleCall, Zenon
  <2>2. CASE call' = [call EXCEPT ![t].pc = "disk"]
    <3> DEFINE c == [call[t] EXCEPT !.pc = "disk"]
    <3>1. call' = [call EXCEPT ![t] = c]
      BY <2>2, Zenon
    <3>2. {"op", "pc"} \subseteq DOMAIN c /\ c.pc = "disk"
      BY Zenon DEF FdsInv
    <3> HIDE DEF c
    <3> QED
      BY <3>1, <3>2, Zenon
  <2>3. CASE \E r : call' = [call EXCEPT ![t] = After(call[t], r)]
    <3>1. PICK r : call' = [call EXCEPT ![t] = After(call[t], r)]
      BY <2>3, ZenonT(40)
    <3> DEFINE c == After(call[t], r)
    <3>2. {"op", "pc"} \subseteq DOMAIN c /\ c.pc \notin {"drop", "record"}
      BY IdleCall, Zenon DEF After, FdsInv
    <3> HIDE DEF c
    <3> QED
      BY <3>1, <3>2, Zenon DEF c
  <2> QED
    BY <2>1, <2>2, <2>3, Zenon DEF TakeMounts, Operate, Rename, Return, Goto
<1> QED
  BY <1>1, <1>2, <1>3, CallOnly, Zenon

LEMMA FdsStep == FdsInv /\ [Next]_vars => FdsInv'
<1> SUFFICES ASSUME FdsInv, [Next]_vars PROVE FdsInv'
  BY Zenon
<1>1. CASE UNCHANGED vars \/ Boot
  <2>1. UNCHANGED <<state, fds, call, own>>
    BY <1>1, Zenon DEF vars, Boot, MountFat, SelfTestDisk, SelfTestMounts, MountExt2
  <2> QED
    BY <2>1, Zenon DEF FdsInv, TableOf, Leaving
<1>2. CASE \E t \in Tasks : StartOnPath(t) \/ StartOnFd(t) \/ StartWritev(t)
  BY <1>2, StartKeeps, Zenon
<1>3. CASE \E t \in Tasks : StartExit(t) \/ \E u \in Tasks : Kill(t, u)
  BY <1>3, EndKeeps, Zenon
<1>4. CASE \E t \in Tasks : Work(t) \/ Deschedule(t)
  <2>1. PICK t \in Tasks : Work(t) \/ Deschedule(t)
    BY <1>4, Zenon
  <2> QED
    BY <2>1, DropKeeps, GoneKeeps, LookUpKeeps, SeekKeeps, SlotKeeps, FsKeeps, Zenon DEF Work
<1> QED
  BY <1>1, <1>2, <1>3, <1>4, Zenon DEF Next

\* sys_open, sys_read, sys_write, sys_seek and sys_close of any number of tasks, interleaved
\* at their lock scopes and with exits and kills: a living task finds in its table what its
\* own calls put there.
THEOREM TasksOwnTheirTables == FairSpec => []OwnView
<1>1. FdsInv => OwnView
  BY Zenon DEF FdsInv, OwnView, Leaving
<1> QED
  BY FdsInit, FdsStep, <1>1, PTL DEF FairSpec
-----------------------------------------------------------------------------
(* The scan of the partition table *)

\* Enough whole sectors for n units, and no entry ends behind the last one.
LEMMA SectorsHold ==
  ASSUME NEW n \in Nat
  PROVE  LET q == (n + SECTOR - 1) \div SECTOR IN q \in Nat /\ n <= q * SECTOR
<1>1. SECTOR \in Nat /\ SECTOR > 0
  BY PartitionsAssumption
<1> DEFINE m == n + SECTOR - 1
           q == m \div SECTOR
<1>2. m \in Nat
  BY <1>1
<1> HIDE DEF m
<1>3. q \in Nat /\ m = SECTOR * q + (m % SECTOR) /\ m % SECTOR < SECTOR /\ m % SECTOR \in Nat
  BY <1>1, <1>2
<1> HIDE DEF q
<1>4. SECTOR * q = q * SECTOR /\ q * SECTOR \in Int
  BY <1>1, <1>3
<1> QED
  BY <1>1, <1>3, <1>4 DEF m, q

LEMMA TimesGrows ==
  ASSUME NEW k \in Nat, NEW m \in Nat, NEW n \in Nat, m <= n
  PROVE  k * m <= k * n
  OBVIOUS

\* Units enough for n entries hold n entries.
LEMMA EntriesHeld ==
  ASSUME NEW size \in Nat \ {0}, NEW n \in Nat, NEW x \in Nat, size * n <= x
  PROVE  n <= x \div size
<1> DEFINE q == x \div size
           r == x % size
<1>1. q \in Nat /\ r \in Nat /\ r < size /\ x = size * q + r
  OBVIOUS
<1> HIDE DEF q, r
<1>2. CASE q < n
  <2>1. size * (q + 1) <= size * n
    BY <1>1, <1>2, TimesGrows
  <2>2. size * (q + 1) = size * q + size /\ size * q \in Nat /\ size * n \in Nat
    BY <1>1
  <2> QED
    BY <1>1, <2>1, <2>2
<1> QED
  BY <1>1, <1>2 DEF q

\* The sectors asked for hold every entry the cap allows.
LEMMA ArrayWhole ==
  ASSUME NEW d \in Disks, ValidateGptGeometry(d.size, Len(d.entries))
  PROVE  ScanGpt(d, WantSectors(d)) = ScanMbr(EntriesIn(d, GPT_MAX_SECTORS)) \o ScanMbr(d.table)
<1> DEFINE count == Len(d.entries)
           n == d.size * count
           q == (n + SECTOR - 1) \div SECTOR
<1>1. SECTOR \in Nat \ {0} /\ GPT_MAX_SECTORS \in Nat
  BY PartitionsAssumption, Zenon
<1>2. d.size \in Nat \ {0}
  <2>1. d.size \in Nat /\ GPT_ENTRY_MIN \in Nat \ {0} /\ GPT_ENTRY_MIN <= d.size
    BY DisksAssumption, PartitionsAssumption, Zenon DEF ValidateGptGeometry
  <2> QED
    BY <2>1
<1>3. count \in Nat
  BY DisksAssumption, LenProperties, ZenonT(40)
<1> HIDE DEF count
<1>4. n \in Nat
  BY <1>2, <1>3
<1>5. q \in Nat /\ n <= q * SECTOR
  BY <1>4, SectorsHold, Zenon
<1>6. WantSectors(d) = Smaller(q, GPT_MAX_SECTORS)
  BY Zenon DEF WantSectors, count
<1> HIDE DEF q
<1>7. CASE WantSectors(d) = GPT_MAX_SECTORS
  BY <1>7, Zenon DEF ScanGpt
<1>8. CASE WantSectors(d) # GPT_MAX_SECTORS
  <2>1. WantSectors(d) = q /\ q <= GPT_MAX_SECTORS
    BY <1>1, <1>5, <1>6, <1>8 DEF Smaller
  <2>2. q * SECTOR \in Nat /\ GPT_MAX_SECTORS * SECTOR \in Nat
        /\ q * SECTOR = SECTOR * q /\ GPT_MAX_SECTORS * SECTOR = SECTOR * GPT_MAX_SECTORS
    BY <1>1, <1>5
  <2>3. SECTOR * q <= SECTOR * GPT_MAX_SECTORS
    BY <1>1, <1>5, <2>1, TimesGrows
  <2>4. n <= q * SECTOR /\ n <= GPT_MAX_SECTORS * SECTOR
    <3> HIDE DEF n
    <3> QED
      BY <1>4, <1>5, <2>2, <2>3
  <2>5. count <= (q * SECTOR) \div d.size /\ count <= (GPT_MAX_SECTORS * SECTOR) \div d.size
    BY <1>2, <1>3, <2>2, <2>4, EntriesHeld, Zenon
  <2>6. (q * SECTOR) \div d.size \in Nat /\ (GPT_MAX_SECTORS * SECTOR) \div d.size \in Nat
    BY <1>2, <2>2
  <2>7. /\ Smaller(count, (q * SECTOR) \div d.size) = count
        /\ Smaller(count, (GPT_MAX_SECTORS * SECTOR) \div d.size) = count
    <3> DEFINE a == (q * SECTOR) \div d.size
               b == (GPT_MAX_SECTORS * SECTOR) \div d.size
    <3>1. a \in Nat /\ b \in Nat /\ count <= a /\ count <= b
      BY <2>5, <2>6, Zenon
    <3> HIDE DEF a, b
    <3>2. Smaller(count, a) = count /\ Smaller(count, b) = count
      BY <1>3, <3>1 DEF Smaller
    <3> QED
      BY <3>2, Zenon DEF a, b
  <2>8. EntriesIn(d, q) = EntriesIn(d, GPT_MAX_SECTORS)
    BY <2>7, Zenon DEF EntriesIn, count
  <2> QED
    BY <2>1, <2>8, Zenon DEF ScanGpt
<1> QED
  BY <1>7, <1>8, Zenon

LEMMA ReadyIs ==
  ASSUME NEW b, NEW parts, DOMAIN b = {"pc", "disk", "want", "got", "parts", "failed"}
  PROVE  /\ DOMAIN Ready(b, parts) = DOMAIN b
         /\ Ready(b, parts).pc = "ready" /\ Ready(b, parts).parts = parts
         /\ Ready(b, parts).disk = b.disk /\ Ready(b, parts).failed = b.failed
  BY Zenon DEF Ready

LEMMA BlockInit == Init => BlockInv
  BY DEF Init, NoBlock, BlockInv, TableIsScanned

\* One step of the scan.
LEMMA ScanKeeps ==
  ASSUME BlockInv, ScanDisk
  PROVE  BlockInv'
<1>0. DOMAIN block = {"pc", "disk", "want", "got", "parts", "failed"}
  BY Zenon DEF BlockInv
<1>1. ASSUME NEW d \in Disks, Probe(d)
      PROVE  BlockInv'
  <2>1. CASE block' = [block EXCEPT !.pc = "none"]
    BY <1>0, <2>1, Zenon DEF BlockInv, TableIsScanned
  <2>2. CASE d.table[1].kind # "protective"
             /\ block' = Ready([block EXCEPT !.disk = d], ScanMbr(d.table))
    <3> DEFINE b == [block EXCEPT !.disk = d]
    <3>1. DOMAIN b = DOMAIN block /\ b.disk = d
      BY <1>0, Zenon
    <3> HIDE DEF b
    <3>2. DOMAIN block' = DOMAIN block /\ block'.pc = "ready" /\ block'.disk = d
          /\ block'.parts = ScanMbr(d.table)
      BY <1>0, <2>2, <3>1, ReadyIs DEF b
    <3> QED
      BY <1>0, <2>2, <3>2, Zenon DEF BlockInv, TableIsScanned
  <2>3. CASE d.table[1].kind = "protective" /\ block' = [block EXCEPT !.pc = "header", !.disk = d]
    BY <1>0, <2>3, Zenon DEF BlockInv, TableIsScanned
  <2> QED
    BY <1>1, <2>1, <2>2, <2>3, Zenon DEF Probe
<1>2. CASE block' = [Ready(block, <<>>) EXCEPT !.failed = "yes"]
  <2>1. DOMAIN block' = DOMAIN block /\ block'.pc = "ready" /\ block'.failed = "yes"
    BY <1>0, <1>2, ReadyIs
  <2> QED
    BY <1>0, <2>1, Zenon DEF BlockInv, TableIsScanned
<1>3. CASE ScanHeader
  <2>1. CASE /\ \/ block.disk.magic # "EFI PART"
                \/ ~ValidateGptGeometry(block.disk.size, Len(block.disk.entries))
             /\ block' = Ready(block, <<>>)
    <3>1. DOMAIN block' = DOMAIN block /\ block'.pc = "ready" /\ block'.disk = block.disk
          /\ block'.parts = <<>>
      BY <1>0, <2>1, ReadyIs, Zenon
    <3>2. block.disk.table[1].kind = "protective"
      BY <1>3, Zenon DEF ScanHeader, BlockInv
    <3> QED
      BY <1>0, <2>1, <3>1, <3>2, Zenon DEF BlockInv, TableIsScanned
  <2>2. CASE /\ block.disk.magic = "EFI PART"
             /\ ValidateGptGeometry(block.disk.size, Len(block.disk.entries))
             /\ block' = [block EXCEPT !.pc = "array", !.want = WantSectors(block.disk)]
    <3>1. DOMAIN block' = DOMAIN block /\ block'.pc = "array" /\ block'.disk = block.disk
          /\ block'.want = WantSectors(block.disk)
      BY <1>0, <2>2, Zenon
    <3>2. block.disk \in Disks /\ block.disk.table[1].kind = "protective"
      BY <1>3, Zenon DEF ScanHeader, BlockInv
    <3> QED
      BY <1>0, <2>2, <3>1, <3>2, Zenon DEF BlockInv, TableIsScanned
  <2> QED
    BY <1>2, <1>3, <2>1, <2>2, Zenon DEF ScanHeader
<1>4. CASE ReadArray
  <2>1. /\ block.pc = "array" /\ block.disk \in Disks /\ block.disk.magic = "EFI PART"
        /\ ValidateGptGeometry(block.disk.size, Len(block.disk.entries))
        /\ block.want = WantSectors(block.disk) /\ block.disk.table[1].kind = "protective"
    BY <1>4, Zenon DEF ReadArray, BlockInv
  <2>2. CASE \E n : block' = [block EXCEPT !.got = n]
    BY <1>0, <2>1, <2>2, Zenon DEF BlockInv, TableIsScanned
  <2>3. CASE block' = Ready(block, ScanGpt(block.disk, block.want))
    <3>1. /\ DOMAIN block' = DOMAIN block /\ block'.pc = "ready" /\ block'.disk = block.disk
          /\ block'.parts = ScanGpt(block.disk, WantSectors(block.disk))
      <4> DEFINE parts == ScanGpt(block.disk, block.want)
      <4>1. block' = Ready(block, parts) /\ parts = ScanGpt(block.disk, WantSectors(block.disk))
        BY <2>1, <2>3, Zenon
      <4> HIDE DEF parts
      <4> QED
        BY <1>0, <4>1, ReadyIs
    <3>2. block'.parts = ScanMbr(EntriesIn(block.disk, GPT_MAX_SECTORS))
                           \o ScanMbr(block.disk.table)
      BY <2>1, <3>1, ArrayWhole, Zenon
    <3>3. TableIsScanned'
      BY <2>1, <3>1, <3>2, Zenon DEF TableIsScanned
    <3> QED
      BY <1>0, <3>1, <3>3, Zenon DEF BlockInv
  <2> QED
    BY <1>2, <1>4, <2>2, <2>3, Zenon DEF ReadArray
<1> QED
  BY <1>1, <1>3, <1>4, Zenon DEF ScanDisk

\* Unless a transfer fails, the scan lists every partition of an MBR, every partition of an
\* accepted GPT whose entry lies in the first GPT_MAX_SECTORS sectors of the array, and nothing of
\* a refused one: for every geometry, and however many transfers the array takes.
THEOREM TablesAreScanned == FairSpec => []TableIsScanned
<1>1. ASSUME BlockInv, [Next]_vars PROVE BlockInv'
  <2>1. CASE block' = block
    BY <1>1, <2>1, Zenon DEF BlockInv, TableIsScanned
  <2>2. CASE ScanDisk
    BY <1>1, <2>2, ScanKeeps, Zenon
  <2>3. CASE \E t \in Tasks : \/ StartOnPath(t) \/ StartOnFd(t) \/ StartWritev(t) \/ StartExit(t)
                              \/ Deschedule(t) \/ \E u \in Tasks : Kill(t, u)
    BY <2>1, <2>3 DEF StartOnPath, StartOnFd, StartWritev, StartExit, Enter, Deschedule, Kill,
         Machine
  <2>4. CASE \E t \in Tasks : Work(t)
    BY <2>1, <2>4, Zenon DEF Work, Drop, RecordExit, LookUp, Seek, Advance, Update, Close, Slot,
         TakeMounts, Operate, Rename, Machine
  <2> QED
    BY <1>1, <2>1, <2>2, <2>3, <2>4, Zenon DEF Next, Boot, vars, MountFat, SelfTestDisk,
         SelfTestMounts, MountExt2
<1>2. BlockInv => TableIsScanned
  BY Zenon DEF BlockInv
<1> QED
  BY BlockInit, <1>1, <1>2, PTL DEF FairSpec
=============================================================================
