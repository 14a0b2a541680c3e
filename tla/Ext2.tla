-------------------------------- MODULE Ext2 --------------------------------
(***************************************************************************)
(* The ext2 driver, kernel/src/ext2.rs: one block group, bitmaps, inodes   *)
(* with direct, single- and double-indirect blocks, and directories of     *)
(* variable-length records.  Between calls the driver keeps the free       *)
(* counts and the place of the inode table in memory (mem).  A call runs   *)
(* with the mount table and the drive locked, so what it writes follows    *)
(* from the volume it starts on: an operation below runs the driver's code *)
(* on a copy of the volume and logs its disk writes, each with the memory  *)
(* at the moment it is issued; Step carries them out one by one and Cut    *)
(* abandons the rest after a failed transfer.                              *)
(*                                                                         *)
(* Sizes are in blocks: a block of file data is one value.  A directory    *)
(* block is Units four-byte units, tiled by records; a name n needs        *)
(* Span[n] of them, header included.                                       *)
(***************************************************************************)
EXTENDS Naturals, Sequences, FiniteSets, FiniteSetsExt, Functions

CONSTANTS
    Blocks,         \* block numbers of the data area (a set of positive numbers)
    Inodes,         \* inode numbers in use or allocatable; the root is one
    DIRECT, PTRS,   \* direct blocks of an inode, pointers of a table
    Units,          \* units of a directory block
    Names, Span,    \* the names and the units each needs
    FilePaths, DirPaths,
    Writes,         \* the <<first block, number of blocks>> a write may cover
    Data,
    MaxCuts,
    Remounts        \* how often the volume may be mounted again

ROOT_INO == 2
Table == 5          \* where mkext2 puts the inode table, below the data area
Paths == FilePaths \cup DirPaths

(* The bitmap of an 8 MiB volume has one bit more than the volume has      *)
(* blocks, and it is clear.                                                *)
Bits == Blocks \cup {Max(Blocks) + 1}

ASSUME Ext2Assumption ==
    /\ Blocks \subseteq Nat \ (0..Table) /\ Inodes \subseteq Nat \ {0, 1} /\ ROOT_INO \in Inodes
    /\ DIRECT \in Nat \ {0} /\ PTRS \in Nat \ {0}
    /\ IsFiniteSet(Blocks) /\ Blocks # {} /\ IsFiniteSet(Inodes)
    /\ Units \in Nat /\ Names \cap {".", "..", ""} = {}
    /\ Span \in [Names \cup {".", ".."} -> 3..Units] /\ Span["."] + Span[".."] <= Units
    /\ Paths \subseteq Seq(Names) \ {<<>>}
    /\ Writes \subseteq Nat \X Nat

VARIABLES
    vol,    \* the volume: bitmaps, free counts, descriptor, inodes, blocks
    mem,    \* the Ext2 value of the mounted file system
    todo,   \* the disk writes the running call has still to issue
    job,    \* the running call: its kind and the paths it changes
    files,  \* what each path should hold, by the calls that were made
    cuts,   \* the kinds of the calls a failed transfer cut short, in order
    mounts,
    clean   \* no call was cut short, ran out of space or reached too far
vars == <<vol, mem, todo, job, files, cuts, mounts, clean>>

Zero == [kind |-> "zero"]
Datum(d) == [kind |-> "data", val |-> d]
Pointers(f) == [kind |-> "table", ptr |-> f]
Records(rs) == [kind |-> "dir", recs |-> rs]
Spilt == [kind |-> "inode"]
Rec(i, n, len) == [ino |-> i, name |-> n, len |-> len]

FreeInode == [mode |-> "none", size |-> 0, direct |-> [i \in 1..DIRECT |-> 0],
              single |-> 0, double |-> 0]
NewInode(mode) == [FreeInode EXCEPT !.mode = mode]

Absent == [kind |-> "absent"]
IsDir == [kind |-> "dir"]
File(f) == [kind |-> "file", cells |-> f]
Unsure == [kind |-> "unsure"]
Broken == [kind |-> "broken"]
Idle == [kind |-> "idle", paths |-> {}]
----------------------------------------------------------------------------
(* Reading a volume v *)

(* A pointer of a table; a zeroed block is a table of holes. *)
IndirectLookup(v, tbl, i) ==
    IF tbl = 0 THEN 0 ELSE IF v.blk[tbl].kind = "table" THEN v.blk[tbl].ptr[i] ELSE 0

(* The block behind logical block idx of an inode, 0 for a hole. *)
MapBlock(v, ino, idx) ==
    LET one == idx - DIRECT
        two == one - PTRS
    IN  IF idx < DIRECT THEN ino.direct[idx + 1]
        ELSE IF one < PTRS THEN IndirectLookup(v, ino.single, one)
        ELSE IndirectLookup(v, IndirectLookup(v, ino.double, two \div PTRS), two % PTRS)

(* A record of length zero makes the whole directory unreadable. *)
DirOk(v, ino) ==
    \A k \in 1..ino.size : \A b \in {MapBlock(v, ino, k - 1)} \ {0} : v.blk[b].kind = "dir"

(* The records of a directory with the block and the place of each. *)
DirEntries(v, ino) ==
    UNION {UNION {{[blk |-> b, no |-> k, at |-> i, rec |-> v.blk[b].recs[i]] :
                      i \in DOMAIN v.blk[b].recs} :
                  b \in {MapBlock(v, ino, k - 1)} \ {0}} : k \in 1..ino.size}

Before(e, f) == e.no < f.no \/ (e.no = f.no /\ e.at <= f.at)
FirstOf(es) == CHOOSE e \in es : \A f \in es : Before(e, f)
FirstIno(es) == IF es = {} THEN 0 ELSE FirstOf(es).rec.ino

(* The inode a name leads to in the directory with inode number dir: 0 for *)
(* none, and 0 all the way once it is 0.                                   *)
LookupIn(v, dir, n) ==
    IF dir = 0 THEN 0
    ELSE IF v.inode[dir].mode # "dir" \/ ~DirOk(v, v.inode[dir]) THEN 0
    ELSE FirstIno({e \in DirEntries(v, v.inode[dir]) : e.rec.ino # 0 /\ e.rec.name = n})

Resolve(v, p) ==
    LET at[k \in 0..Len(p)] == IF k = 0 THEN ROOT_INO ELSE LookupIn(v, at[k - 1], p[k])
    IN  at[Len(p)]
ResolveParent(v, p) == Resolve(v, SubSeq(p, 1, Len(p) - 1))
Leaf(p) == p[Len(p)]

(* A read of a whole file; holes read as zeros. *)
ReadAt(v, ino) ==
    [k \in 1..ino.size |->
        IF MapBlock(v, ino, k - 1) = 0 THEN Zero ELSE v.blk[MapBlock(v, ino, k - 1)]]
----------------------------------------------------------------------------
(* The driver's helpers, run on a copy: st.vol and st.mem are the volume   *)
(* and the memory so far, st.log the disk writes, st.ino the inode in      *)
(* hand, st.got the block found or allocated last, and st.ok is FALSE once *)
(* a helper has returned NoSpace, or NotSupported for a block behind the   *)
(* double-indirect ones.                                                   *)

Apply(v, w) ==
    IF w.key = 0 THEN [v EXCEPT ![w.part] = w.val] ELSE [v EXCEPT ![w.part][w.key] = w.val]

Log(st, w) == [st EXCEPT !.vol = Apply(@, w), !.log = Append(@, w)]
Put(st, part, key, val) ==
    Log(st, [part |-> part, key |-> key, val |-> val, mem |-> st.mem])

Begin == [vol |-> vol, mem |-> mem, log |-> <<>>, ino |-> FreeInode, got |-> 0, ok |-> TRUE]

(* The superblock, then the group descriptor.  The counts go to bytes 8 to *)
(* 11 of the descriptor, which is where mount reads the inode table from.  *)
SyncFreeCounts(st) ==
    Put(Put(st, "super", 0, [blocks |-> st.mem.blocks, inodes |-> st.mem.inodes]),
        "desc", 0, (st.mem.blocks % 2^16) + 2^16 * (st.mem.inodes % 2^16))

AllocBlock(st) ==
    LET free == Bits \ st.vol.used
    IN  IF ~st.ok \/ st.mem.blocks = 0 \/ free = {} THEN [st EXCEPT !.ok = FALSE]
        ELSE Put(SyncFreeCounts([Put(st, "used", 0, st.vol.used \cup {Min(free)})
                                    EXCEPT !.mem.blocks = @ - 1, !.got = Min(free)]),
                 "blk", Min(free), Zero)

(* The inode bitmap has more bits than the table has inodes.  Once the     *)
(* count is ahead of it, the record of a new inode falls behind the table, *)
(* on the first data block, which is the root directory's, and no path     *)
(* leads anywhere; what the call goes on to write is left out.             *)
SpillInode(st) == [Put(st, "blk", Min(Blocks), Spilt) EXCEPT !.ok = FALSE]

(* The inode number allocated is left in got. *)
AllocInode(st) ==
    LET free == Inodes \ st.vol.taken
    IN  IF st.mem.inodes = 0 THEN [st EXCEPT !.ok = FALSE]
        ELSE IF free = {} THEN SpillInode(st)
        ELSE SyncFreeCounts([Put(st, "taken", 0, st.vol.taken \cup {Min(free)})
                                EXCEPT !.mem.inodes = @ - 1, !.got = Min(free)])

(* The table in a field of the inode in hand, allocated when missing. *)
InField(st, field) == IF st.ok THEN [st EXCEPT !.ino[field] = st.got] ELSE st
EnsureIndirect(st, field) ==
    IF st.ino[field] # 0 THEN [st EXCEPT !.got = st.ino[field]]
    ELSE InField(AllocBlock(st), field)

(* The block behind pointer i of the table tbl, allocated and linked when  *)
(* missing.                                                                *)
PointersOf(st, tbl) == [j \in 0..(PTRS - 1) |-> IndirectLookup(st.vol, tbl, j)]
Link(st, tbl, i) ==
    IF st.ok THEN Put(st, "blk", tbl, Pointers([PointersOf(st, tbl) EXCEPT ![i] = st.got])) ELSE st
EnsureSlot(st, tbl, i) ==
    IF ~st.ok THEN st
    ELSE IF PointersOf(st, tbl)[i] # 0 THEN [st EXCEPT !.got = PointersOf(st, tbl)[i]]
    ELSE Link(AllocBlock(st), tbl, i)

(* The same for the table that was found or allocated last. *)
InTable(st, i) == EnsureSlot(st, st.got, i)

InDirect(st, i) == IF st.ok THEN [st EXCEPT !.ino.direct[i] = st.got] ELSE st
EnsureBlock(st, idx) ==
    LET one == idx - DIRECT
        two == one - PTRS
    IN  IF ~st.ok THEN st
        ELSE IF idx < DIRECT
        THEN IF st.ino.direct[idx + 1] # 0 THEN [st EXCEPT !.got = st.ino.direct[idx + 1]]
             ELSE InDirect(AllocBlock(st), idx + 1)
        ELSE IF one < PTRS THEN InTable(EnsureIndirect(st, "single"), one)
        ELSE IF two < PTRS * PTRS
        THEN InTable(InTable(EnsureIndirect(st, "double"), two \div PTRS), two % PTRS)
        ELSE [st EXCEPT !.ok = FALSE]

(* The records of a block after name -> i is put into record at: in front  *)
(* of the rest of a free record, or in the slack of a live one.            *)
InsertRec(recs, at, n, i) ==
    LET r == recs[at]
        need == Span[n]
        new == IF r.ino = 0
               THEN IF r.len - need >= 2 THEN <<Rec(i, n, need), Rec(0, "", r.len - need)>>
                    ELSE <<Rec(i, n, r.len)>>
               ELSE <<[r EXCEPT !.len = Span[r.name]], Rec(i, n, r.len - Span[r.name])>>
    IN  SubSeq(recs, 1, at - 1) \o new \o SubSeq(recs, at + 1, Len(recs))

(* The first record with room takes the entry, else the directory grows by *)
(* a block: its inode is written before the block is.                      *)
Room(r) == IF r.ino = 0 THEN r.len ELSE r.len - Span[r.name]
InRecord(st, e, n, i) ==
    Put(st, "blk", e.blk, Records(InsertRec(st.vol.blk[e.blk].recs, e.at, n, i)))
InNewBlock(st, dir, n, i) ==
    IF ~st.ok THEN st
    ELSE Put(Put(st, "inode", dir, [st.ino EXCEPT !.size = @ + 1]),
             "blk", st.got, Records(<<Rec(i, n, Units)>>))
AddDirEntry(st, dir, n, i) ==
    LET ino == st.vol.inode[dir]
        fits == {e \in DirEntries(st.vol, ino) : Room(e.rec) >= Span[n]}
    IN  IF ~st.ok THEN st
        ELSE IF fits # {} THEN InRecord(st, FirstOf(fits), n, i)
        ELSE InNewBlock(EnsureBlock([st EXCEPT !.ino = ino], ino.size), dir, n, i)

(* A new file: the inode, then the entry.  ino and got are the inode's. *)
InInode(st, dir, n) ==
    IF ~st.ok THEN st
    ELSE [AddDirEntry(Put(st, "inode", st.got, NewInode("file")), dir, n, st.got)
             EXCEPT !.got = st.got, !.ino = NewInode("file")]
CreateIn(st, dir, n) == InInode(AllocInode(st), dir, n)

(* The block with the two dot entries, the inode, the entry. *)
Dots(st, i, dir) ==
    IF ~st.ok THEN st
    ELSE Put(Put(st, "blk", st.got, Records(<<Rec(i, ".", Span["."]),
                                              Rec(dir, "..", Units - Span["."])>>)),
             "inode", i, [st.ino EXCEPT !.size = 1])
MakeDir(st, dir, n) ==
    IF ~st.ok THEN st
    ELSE AddDirEntry(Dots(EnsureBlock([st EXCEPT !.ino = NewInode("dir")], 0), st.got, dir),
                     dir, n, st.got)
MkdirIn(st, dir, n) == MakeDir(AllocInode(st), dir, n)

(* The blocks of an inode, its tables included. *)
CollectBlocks(v, ino) ==
    LET Of(t) == {IndirectLookup(v, t, i) : i \in 0..(PTRS - 1)}
    IN  (Range(ino.direct) \cup {ino.single, ino.double} \cup Of(ino.single)
            \cup Of(ino.double) \cup UNION {Of(t) : t \in Of(ino.double)}) \ {0}

\* Variant: the tables stay allocated.
FreeInodeBlocksData(st, ino) ==
    LET list == CollectBlocks(st.vol, ino) \ {ino.single, ino.double}
        st2 == [st EXCEPT !.mem.blocks = @ + Cardinality(list \cap st.vol.used)]
    IN  IF list = {} THEN st ELSE Put(st2, "used", 0, st.vol.used \ list)

(* The count goes up before the bitmap is written; there is no sync. *)
FreeInodeBlocks(st, ino) ==
    LET list == CollectBlocks(st.vol, ino)
        st2 == [st EXCEPT !.mem.blocks = @ + Cardinality(list \cap st.vol.used)]
    IN  IF list = {} THEN st ELSE Put(st2, "used", 0, st.vol.used \ list)

FreeInodeNo(st, i) ==
    SyncFreeCounts(Put([st EXCEPT !.mem.inodes = @ + Cardinality({i} \cap st.vol.taken)],
                       "taken", 0, st.vol.taken \ {i}))
----------------------------------------------------------------------------
(* What a path leads to, and what the calls lead one to expect *)

Content(v, i) ==
    IF i = 0 THEN Absent
    ELSE IF v.inode[i].mode = "dir" THEN (IF DirOk(v, v.inode[i]) THEN IsDir ELSE Broken)
    ELSE File(ReadAt(v, v.inode[i]))
Holds(v, p) == Content(v, Resolve(v, p))

Overwritten(cells, first, n, d) ==
    [k \in 1..(IF n = 0 THEN Len(cells) ELSE Max({Len(cells), first + n})) |->
        IF k \in (first + 1)..(first + n) THEN Datum(d)
        ELSE IF k <= Len(cells) THEN cells[k] ELSE Zero]

Expect(ps, value) == [p \in Paths |-> IF p \in ps THEN value ELSE files[p]]

(* A call that issues the writes of st; grow marks one that extends a      *)
(* directory.                                                              *)
Start(kind, ps, st, expected) ==
    LET grows == \E i \in Inodes : vol.inode[i].mode = "dir" /\ st.vol.inode[i].mode = "dir"
                                   /\ vol.inode[i].size # st.vol.inode[i].size
    IN  /\ todo' = st.log
        /\ job' = IF st.log = <<>> THEN Idle
                  ELSE [kind |-> IF grows THEN "grow" ELSE kind, paths |-> ps]
        /\ files' = expected
        /\ clean' = (clean /\ st.ok)
        /\ UNCHANGED <<vol, mem, cuts, mounts>>

(* The directory a call works in: there, and readable; and the inode a     *)
(* path leads to.  At most one each.                                       *)
Parent(p) ==
    {i \in {ResolveParent(vol, p)} \ {0} :
        vol.inode[i].mode = "dir" /\ DirOk(vol, vol.inode[i])}
Target(p) == {Resolve(vol, p)} \ {0}

(* The data of a write, block by block; the inode goes last, and not at    *)
(* all when space runs out.                                                *)
Fill(st, d) == IF st.ok THEN Put(st, "blk", st.got, Datum(d)) ELSE st
FillBlocks(st, first, n, d) ==
    LET after[k \in 0..n] ==
            IF k = 0 THEN st ELSE Fill(EnsureBlock(after[k - 1], first + k - 1), d)
    IN  after[n]
SetSize(st, i, first, n) ==
    IF n = 0 \/ ~st.ok THEN st
    ELSE Put(st, "inode", i, [st.ino EXCEPT !.size = Max({@, first + n})])

\* Variant: the inode is written before the data blocks are allocated.
WriteBlocksInodeFirst(st, i, first, n, d) == FillBlocks(SetSize(st, i, first, n), first, n, d)

WriteBlocks(st, i, first, n, d) == SetSize(FillBlocks(st, first, n, d), i, first, n)

(* What p holds after the writes of st: a new file that got no space is    *)
(* there and empty, an old one may have any part of the data.              *)
WriteTo(p, old, st, first, n, d) ==
    Start(IF old = Absent THEN "create" ELSE "write", {p}, st,
          Expect({p}, IF old = Unsure \/ (old # Absent /\ ~st.ok) THEN Unsure
                      ELSE IF ~st.ok THEN File(<<>>)
                      ELSE File(Overwritten(IF old = Absent THEN <<>> ELSE old.cells, first, n, d))))

Create(p, st, first, n, d) ==
    IF st.ok THEN WriteTo(p, Absent, WriteBlocks(st, st.got, first, n, d), first, n, d)
    ELSE Start("create", {p}, st, Expect({p}, Absent))

WriteAt(p, first, n, d) ==
    \/ /\ Target(p) = {}
       /\ \E dir \in Parent(p) : Create(p, CreateIn(Begin, dir, Leaf(p)), first, n, d)
    \/ /\ Parent(p) # {}
       /\ \E i \in Target(p) :
             /\ vol.inode[i].mode # "dir"
             /\ WriteTo(p, files[p], WriteBlocks([Begin EXCEPT !.ino = vol.inode[i]], i, first, n, d),
                        first, n, d)

Mkdir(p) ==
    /\ Target(p) = {}
    /\ \E dir \in Parent(p) : \E st \in {MkdirIn(Begin, dir, Leaf(p))} :
          Start("mkdir", {p}, st, Expect({p}, IF st.ok THEN IsDir ELSE Absent))

(* The record of inode i in directory dir, and overwriting it. *)
EntryOf(dir, i) ==
    FirstOf({e \in DirEntries(vol, vol.inode[dir]) : e.rec.ino = i})
PutRecord(st, e, r) ==
    Put(st, "blk", e.blk, Records([vol.blk[e.blk].recs EXCEPT ![e.at] = r]))

\* Variant: the blocks are freed before the record is.
UnlinkFreesFirst(p) ==
    \E dir \in Parent(p) : \E i \in Target(p) : \E e \in {EntryOf(dir, i)} :
        /\ vol.inode[i].mode # "dir"
        /\ Start("unlink", {p},
                 PutRecord(FreeInodeNo(FreeInodeBlocks(Begin, vol.inode[i]), i),
                           e, Rec(0, "", e.rec.len)),
                 Expect({p}, Absent))

Unlink(p) ==
    \E dir \in Parent(p) : \E i \in Target(p) : \E e \in {EntryOf(dir, i)} :
        /\ vol.inode[i].mode # "dir"
        /\ Start("unlink", {p},
                 FreeInodeNo(FreeInodeBlocks(PutRecord(Begin, e, Rec(0, "", e.rec.len)),
                                             vol.inode[i]), i),
                 Expect({p}, Absent))

\* Variant: the new name is not held against the record's length.
RenameUnbounded(p, q) ==
    \E dir \in Parent(p) : \E i \in Target(p) : \E e \in {EntryOf(dir, i)} :
        /\ dir \in Parent(q) /\ Target(q) = {}
        /\ Start("rename", {p, q}, PutRecord(Begin, e, [e.rec EXCEPT !.name = Leaf(q)]),
                 [Expect({p}, Absent) EXCEPT ![q] = files[p]])

Rename(p, q) ==
    \E dir \in Parent(p) : \E i \in Target(p) : \E e \in {EntryOf(dir, i)} :
        /\ dir \in Parent(q) /\ Target(q) = {}
        /\ Span[Leaf(q)] <= e.rec.len
        /\ Start("rename", {p, q}, PutRecord(Begin, e, [e.rec EXCEPT !.name = Leaf(q)]),
                 [Expect({p}, Absent) EXCEPT ![q] = files[p]])

(* The inode is written again as it is. *)
Fsync(p) ==
    \E i \in Target(p) : Start("fsync", {}, Put(Begin, "inode", i, vol.inode[i]), files)

Mounted == mem.table = Table

Call ==
    /\ job = Idle /\ Mounted
    /\ \/ \E p \in FilePaths, w \in Writes, d \in Data : WriteAt(p, w[1], w[2], d)
       \/ \E p \in FilePaths : Unlink(p)
       \/ \E p, q \in FilePaths : Rename(p, q)
       \/ \E p \in DirPaths : Mkdir(p)
       \/ \E p \in FilePaths : Fsync(p)

Step ==
    /\ todo # <<>>
    /\ vol' = Apply(vol, Head(todo))
    /\ mem' = Head(todo).mem
    /\ todo' = Tail(todo)
    /\ job' = IF Len(todo) = 1 THEN Idle ELSE job
    /\ UNCHANGED <<files, cuts, mounts, clean>>

(* A transfer fails and the call returns its error, or the power goes. *)
Cut ==
    /\ todo # <<>> /\ Len(cuts) < MaxCuts
    /\ cuts' = Append(cuts, job.kind)
    /\ mem' = Head(todo).mem
    /\ todo' = <<>> /\ job' = Idle
    /\ files' = Expect(job.paths, Unsure)
    /\ clean' = FALSE
    /\ UNCHANGED <<vol, mounts>>

(* mount, on a volume that was in use: the counts come from the            *)
(* superblock, the inode table from bytes 8 to 11 of the descriptor.  When *)
(* these do not name the table, BadFs or not, nothing more is done.        *)
Mount(v) == [blocks |-> v.super.blocks, inodes |-> v.super.inodes,
             table |-> IF v.desc \in 1..Max(Blocks) THEN v.desc ELSE 0]

Remount ==
    /\ job = Idle /\ Mounted /\ mounts < Remounts /\ cuts = <<>>
    /\ mounts' = mounts + 1
    /\ mem' = Mount(vol)
    /\ UNCHANGED <<vol, todo, job, files, cuts, clean>>

(* A volume as mkext2 makes it: a root directory and nothing else. *)
Fresh ==
    LET b == Min(Blocks) IN
    [used |-> {b}, taken |-> {ROOT_INO},
     super |-> [blocks |-> Cardinality(Blocks) - 1, inodes |-> Cardinality(Inodes) - 1],
     desc |-> Table,
     inode |-> [i \in Inodes |->
                   IF i = ROOT_INO
                   THEN [NewInode("dir") EXCEPT !.size = 1, !.direct[1] = b] ELSE FreeInode],
     blk |-> [k \in Bits |->
                 IF k = b THEN Records(<<Rec(ROOT_INO, ".", Span["."]),
                                         Rec(ROOT_INO, "..", Units - Span["."])>>) ELSE Zero]]

Init ==
    /\ vol = Fresh
    /\ mem = Mount(vol)
    /\ todo = <<>> /\ job = Idle
    /\ files = [p \in Paths |-> Absent]
    /\ cuts = <<>> /\ mounts = 0 /\ clean = TRUE

Next == Call \/ Step \/ Cut \/ Remount

Spec == Init /\ [][Next]_vars
----------------------------------------------------------------------------
(* Properties *)

(* A directory on the way to p was lost: a call was cut short between the  *)
(* inode of the directory it extends and the new block, whose zeros stop   *)
(* every scan (add_dir_entry); or a cut unlink left the inode count ahead, *)
(* and an inode was spilt on the root directory (free_inode, alloc_inode). *)
WayTo(p) == {Resolve(vol, SubSeq(p, 1, k)) : k \in 0..Len(p)} \ {0}
Lost(p) ==
    \E i \in WayTo(p) : vol.inode[i].mode = "dir" /\
        \E k \in 1..vol.inode[i].size : \E b \in {MapBlock(vol, vol.inode[i], k - 1)} \ {0} :
            \/ vol.blk[b] = Zero /\ "grow" \in Range(cuts)
            \/ vol.blk[b] = Spilt /\ "unlink" \in Range(cuts)

(* write_at, unlink, rename, mkdir: between calls every path holds what    *)
(* the calls made on it say, whatever was done to other files and wherever *)
(* a call on another path was cut short, unless a directory on the way to  *)
(* it was lost in one of the two ways of Lost.                             *)
ReadsBack ==
    job = Idle =>
        \A p \in Paths : files[p] # Unsure => Holds(vol, p) = files[p] \/ Lost(p)

(* alloc_block, alloc_inode, free_inode_blocks, free_inode,                *)
(* sync_free_counts: between calls the counts in memory are those of the   *)
(* superblock, and as long as no call was cut short or ran out of space    *)
(* they are the numbers of free bits, which are the bits of no reachable   *)
(* inode or block.                                                         *)
Reachable == {ROOT_INO} \cup ({Resolve(vol, p) : p \in Paths} \ {0})
CountsMatch ==
    (job = Idle /\ clean) =>
        /\ vol.super = [blocks |-> mem.blocks, inodes |-> mem.inodes]
        /\ mem.blocks = Cardinality(Blocks \ vol.used)
        /\ mem.inodes = Cardinality(Inodes \ vol.taken)
        /\ vol.taken = Reachable
        /\ vol.used = UNION {CollectBlocks(vol, vol.inode[i]) : i \in Reachable}

(* ensure_block against unlink: at every write, finished call or cut, the  *)
(* blocks of the inodes a path leads to are marked in the bitmap and       *)
(* shared with no other such inode, and the inode itself is marked.  No    *)
(* block marked lies behind the volume, though the scan of the bitmap in   *)
(* alloc_block stops at the free count only, unless an unlink was cut      *)
(* short: free_inode_blocks counts the blocks before it frees them.        *)
NoDoubleUse ==
    LET own == UNION {{<<i, b>> : b \in CollectBlocks(vol, vol.inode[i])} : i \in Reachable}
    IN  /\ Reachable \subseteq vol.taken
        /\ {o[2] : o \in own} \subseteq vol.used
        /\ vol.used \subseteq Blocks \/ "unlink" \in Range(cuts)
        /\ Cardinality({o[2] : o \in own}) = Cardinality(own)

(* The units the records of a block add up to. *)
Covered(recs) ==
    LET upto[k \in 0..Len(recs)] == IF k = 0 THEN 0 ELSE upto[k - 1] + recs[k].len
    IN  upto[Len(recs)]

(* add_dir_entry, unlink, rename: the records of a directory block cover   *)
(* it exactly and each is long enough for its name, on which the           *)
(* subtraction rec_len - span in add_dir_entry relies, for as long as no   *)
(* inode is spilt on the block (Lost).                                     *)
DirTiled ==
    \A b \in vol.used : vol.blk[b].kind = "dir" =>
        /\ Covered(vol.blk[b].recs) = Units
        /\ \A r \in Range(vol.blk[b].recs) :
               r.len >= 2 /\ (r.ino # 0 => r.len >= Span[r.name])

(* mount after sync_free_counts ("the kernel's sync_free_counts writes the *)
(* same fields"): a volume that was mounted can be mounted again.          *)
SurvivesRemount == Mounted
=============================================================================
