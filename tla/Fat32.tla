------------------------------- MODULE Fat32 -------------------------------
(***************************************************************************)
(* The FAT32 driver, kernel/src/fat.rs, one volume with a root directory   *)
(* and subdirectories.  The driver keeps nothing in memory between calls:  *)
(* its state is the volume.  The VFS holds the mount table and the drive   *)
(* for the whole of a call, so a call sees one volume from start to end    *)
(* and what it writes is a function of what it finds: each operation below *)
(* computes its disk writes, in the order the code issues them, and Step   *)
(* carries them out one by one.  Cut abandons the rest, which is both what *)
(* the `?` after a failed transfer does and what losing power does.        *)
(*                                                                         *)
(* A cluster is Slots cells.  A cell is 32 bytes: a directory slot in a    *)
(* directory, a unit of file data in a file.  Only the first FAT is kept;  *)
(* the driver writes the mirrors after it and never reads them.  A name is *)
(* an element of ShortNames (it fits 8.3) or of LongNames (it needs LFN    *)
(* long-name slots and an alias STEM~k; all long names share the stem).    *)
(***************************************************************************)
EXTENDS Naturals, Sequences, FiniteSets, SequencesExt, FiniteSetsExt

CONSTANTS
    ShortNames, LongNames,
    LFN,            \* long-name slots of a long name
    Slots,          \* cells of a cluster
    Total,          \* clusters of the volume, the root directory's included
    MAX_ALIAS,      \* highest k of an alias STEM~k (99 in the code)
    FilePaths,      \* the paths the callers use for files
    DirPaths,       \* and for directories
    Writes,         \* offset and length of the writes tried
    Data,           \* what the cells of a write may hold
    MaxCuts         \* bound on the calls cut short

Root == 2
ClusterIds == 2..(1 + Total)
EOC == 2 + Total
Paths == FilePaths \cup DirPaths

ASSUME FatAssumption ==
    /\ LFN \in Nat \ {0} /\ Slots > LFN + 2 /\ Total \in Nat \ {0}
    /\ Writes \subseteq Nat \X Nat /\ MaxCuts \in Nat
    /\ ShortNames \cap LongNames = {}
    /\ \A p \in Paths : p \in Seq(ShortNames \cup LongNames) /\ p # <<>>

VARIABLES
    fat,    \* the first FAT
    disk,   \* the cells of every cluster
    todo,   \* the disk writes the running call has still to issue
    job,    \* the running call: its kind and the paths it changes
    files,  \* what each path should hold, by the calls that were made
    cuts,   \* calls cut short so far
    torn,   \* one of them was a rename or a write that gives clusters up
    clean   \* no call was cut short or ran out of space
vars == <<fat, disk, todo, job, files, cuts, torn, clean>>

End == [kind |-> "end"]                     \* first byte 0x00
Del == [kind |-> "del"]                     \* first byte 0xE5
Byte(d) == [kind |-> "data", val |-> d]
LongSlot(n, k, s) == [kind |-> "lfn", name |-> n, order |-> k, sum |-> s]
Entry(s, c, z, isdir) ==
    [kind |-> "short", short |-> s, first |-> c, size |-> z, dir |-> isdir]

Absent == [kind |-> "absent"]           \* what a path holds: nothing,
IsDir == [kind |-> "dir"]               \* a directory,
File(cs) == [kind |-> "file", cells |-> cs]
Unsure == [kind |-> "unsure"]           \* or whatever a call cut short left
Gone == [kind |-> "gone"]               \* a cell of a file whose cluster was given up
Idle == [kind |-> "idle", paths |-> {}]
----------------------------------------------------------------------------
(* Reading the volume *)

RECURSIVE Walk(_, _)
Walk(c, max) ==
    IF max <= 1 \/ fat[c] \notin ClusterIds THEN <<c>>
    ELSE <<c>> \o Walk(fat[c], max - 1)
(* The chain from a first cluster, empty for 0, the first cluster of an    *)
(* empty file; it is sound when the walk reaches an end-of-chain mark.     *)
Chain(c) == IF c = 0 THEN <<>> ELSE Walk(c, Total)
ChainOk(c) == IF c = 0 THEN TRUE ELSE Len(Chain(c)) = Total \/ fat[Last(Chain(c))] = EOC

(* The place of the i-th cell of a chain: its cluster and its index there. *)
ClusterOf(c, i) == Chain(c)[1 + ((i - 1) \div Slots)]
SlotOf(i) == 1 + ((i - 1) % Slots)

RECURSIVE Contents(_)
Contents(chain) == IF chain = <<>> THEN <<>> ELSE disk[Head(chain)] \o Contents(Tail(chain))
Cells(c) == Contents(Chain(c))

(* The 8.3 form of a name that has one; the forms of the others are        *)
(* aliases <<"~", k>>.  The checksum of a form takes few values.           *)
ShortName(n) == <<n, 0>>
NeedsLfn(n) == n \in LongNames
Checksum(s) == s[2] % 2

(* The long name in front of a short slot counts only when the whole run   *)
(* is there and carries the checksum of that short name.                   *)
NameAt(cs, i) ==
    IF i > LFN /\ \A k \in 1..LFN : /\ cs[i - k].kind = "lfn"
                                    /\ cs[i - k].order = k
                                    /\ cs[i - k].sum = Checksum(cs[i].short)
    THEN cs[i - 1].name ELSE cs[i].short[1]

(* The scan ends at the first 0x00 slot, whatever lies behind it. *)
Seen(cs) == {i \in 1..Len(cs) : cs[i].kind = "short" /\ \A j \in 1..i : cs[j] # End}
Listed(cs, dir) ==
    {[name |-> NameAt(cs, i), short |-> cs[i].short, first |-> cs[i].first,
      size |-> cs[i].size, dir |-> cs[i].dir, at |-> i, in |-> dir] : i \in Seen(cs)}
ScanDir(dir) == Listed(Cells(dir), dir)

(* What a name or a path leads to is a set of at most one element.  A      *)
(* directory whose chain is broken cannot be scanned.                      *)
FirstOf(es) == {e \in es : \A f \in es : e.at <= f.at}
FindIn(dir, n) == FirstOf({e \in ScanDir(dir) : e.name = n \/ e.short = ShortName(n)})

Enter(dirs, n) ==
    {e.first : e \in {f \in UNION {FindIn(d, n) : d \in dirs} :
                         f.dir /\ f.first >= 2 /\ ChainOk(f.first)}}
ResolveParent(p) == FoldLeft(Enter, {Root}, Front(p))
Resolve(p) == UNION {FindIn(d, Last(p)) : d \in ResolveParent(p)}

(* A read of a whole file: no further than its size and than its chain. *)
ReadAt(e) ==
    SubSeq(Cells(e.first), 1, Min({e.size, Len(Cells(e.first))}))

Content(e) ==
    IF e.dir THEN IsDir ELSE IF ChainOk(e.first) THEN File(ReadAt(e)) ELSE Unsure
Holds(p) ==
    IF Resolve(p) = {} THEN Absent ELSE CHOOSE h \in {Content(e) : e \in Resolve(p)} : TRUE

Dirs == {Root} \cup {e.first : e \in {d \in ScanDir(Root) : d.dir}}
Entries == UNION {{e \in ScanDir(d) : e.name \notin {".", ".."}} : d \in Dirs}
Used(e) == ToSet(Chain(e.first))
----------------------------------------------------------------------------
(* The disk writes of the driver's helpers *)

SetFatEntry(c, v) == [kind |-> "fat", cluster |-> c, val |-> v]
WriteCells(c, i, cs) == [kind |-> "cells", cluster |-> c, at |-> i, cells |-> cs]

FreeClusters == {c \in ClusterIds : fat[c] = 0}

(* The free clusters some entry's chain still runs into: a call cut short  *)
(* inside free_from leaves them, and so does removing one of the two names *)
(* that a rename cut short gave to a chain.                                *)
Dangling == {c \in FreeClusters : \E e \in Entries : c \in Used(e)}

(* alloc_cluster marks a cluster before it links it; it does not clear it. *)
AllocCluster(c, prev) ==
    <<SetFatEntry(c, EOC)>> \o (IF prev = 0 THEN <<>> ELSE <<SetFatEntry(prev, c)>>)

(* Variant: the last kept cluster keeps its link. *)
FreeFromOpen(chain, keep) ==
    [i \in 1..(Len(chain) - keep) |-> SetFatEntry(chain[keep + i], 0)]

FreeFrom(chain, keep) ==
    [i \in 1..(Len(chain) - keep) |-> SetFatEntry(chain[keep + i], 0)]
        \o (IF keep > 0 THEN <<SetFatEntry(chain[keep], EOC)>> ELSE <<>>)

UniqueShort(taken) == <<"~", Min({k \in 1..MAX_ALIAS : <<"~", k>> \notin taken})>>

(* The 8.3 form of a name: its own, or the first alias no visible entry    *)
(* has, the entry being renamed left out of the count.                     *)
DeriveName(dir, n, except) ==
    IF NeedsLfn(n) THEN UniqueShort({e.short : e \in ScanDir(dir)} \ {except})
    ELSE ShortName(n)

(* The long-name slots in disk order: the one next to the short slot has   *)
(* order 1.                                                                *)
LfnSlots(n, s) ==
    IF NeedsLfn(n) THEN [k \in 1..LFN |-> LongSlot(n, LFN + 1 - k, Checksum(s))] ELSE <<>>

\* Variant: the slot behind the new entry is made the end of the directory.
RunTerminated(n, cell) == LfnSlots(n, cell.short) \o <<cell, End>>

Run(n, cell) == LfnSlots(n, cell.short) \o <<cell>>

(* The first stretch of `need` free slots inside one cluster, else a new   *)
(* cluster at the end of the directory's chain; `free` is what the FAT has *)
(* left.  No element: NoSpace.                                             *)
Fits(cs, need) ==
    {i \in 1..Len(cs) : /\ SlotOf(i) + need - 1 <= Slots
                        /\ \A k \in 0..(need - 1) : cs[i + k].kind \in {"end", "del"}}
AllocRun(dir, need, free) ==
    LET fits == Fits(Cells(dir), need)
    IN  IF fits # {}
        THEN {[cluster |-> ClusterOf(dir, Min(fits)), slot |-> SlotOf(Min(fits)),
               writes |-> <<>>, free |-> free]}
        ELSE IF free # {}
        THEN {[cluster |-> Min(free), slot |-> 1, free |-> free \ {Min(free)},
               writes |-> AllocCluster(Min(free), Last(Chain(dir)))]}
        ELSE {}

(* alloc_run, then write_run: slot is the place of the short entry. *)
AddEntry(dir, n, cell, free) ==
    {[cell |-> cell, cluster |-> r.cluster, slot |-> r.slot + Len(Run(n, cell)) - 1,
      writes |-> Append(r.writes, WriteCells(r.cluster, r.slot, Run(n, cell))),
      free |-> r.free] : r \in AllocRun(dir, Len(Run(n, cell)), free)}

CreateEntry(dir, n, first, isdir, free) ==
    AddEntry(dir, n, Entry(DeriveName(dir, n, <<>>), first, 0, isdir), free)

WriteDirent(c, i, s, first, size) == WriteCells(c, i, <<Entry(s, first, size, FALSE)>>)

(* The slot of an entry and the long-name slots right before it, as far as *)
(* they lie in its cluster.  A deleted long-name slot never separates an   *)
(* entry from its run, so walking through one changes nothing.             *)
RemoveDirSlots(e) ==
    LET c == ClusterOf(e.in, e.at)
        s == SlotOf(e.at)
        back == Max({k \in 0..(s - 1) : \A j \in 1..k : disk[c][s - j].kind = "lfn"})
    IN  <<WriteCells(c, s - back, [k \in 1..(back + 1) |-> Del])>>
----------------------------------------------------------------------------
(* The calls *)

Start(kind, ps, writes) ==
    /\ writes # <<>>
    /\ job' = [kind |-> kind, paths |-> ps]
    /\ todo' = writes
    /\ UNCHANGED <<fat, disk, cuts, torn>>

Expect(p, v) == files' = [files EXCEPT ![p] = IF @ = Unsure THEN Unsure ELSE v]

Overwritten(old, off, buf) ==
    [i \in 1..Max({Len(old), off + Len(buf)}) |->
        IF i \in (off + 1)..(off + Len(buf)) THEN buf[i - off] ELSE old[i]]

(* A write that ends in an earlier cluster than the file gives up the      *)
(* clusters behind it, though the size stays.                              *)
GiveUp(cs, need) == [i \in 1..Len(cs) |-> IF i > need * Slots THEN Gone ELSE cs[i]]

(* The writes that put buf at offset off of the clusters of a chain. *)
DataWrites(chain, off, buf) ==
    LET lo == off \div Slots
        hi == (off + Len(buf) - 1) \div Slots
    IN  [k \in 1..(IF buf = <<>> THEN 0 ELSE hi - lo + 1) |->
            LET idx == lo + k - 1
                from == Max({off, idx * Slots})
                upto == Min({off + Len(buf), (idx + 1) * Slots})
            IN  WriteCells(chain[idx + 1], from - idx * Slots + 1,
                           SubSeq(buf, from - off + 1, upto - off))]

(* The entry write_at works on: the one the path leads to, else a new one. *)
Opened(p) ==
    IF Resolve(p) = {}
    THEN UNION {CreateEntry(d, Last(p), 0, FALSE, FreeClusters) : d \in ResolveParent(p)}
    ELSE {[cell |-> Entry(e.short, e.first, e.size, FALSE), free |-> FreeClusters,
           cluster |-> ClusterOf(e.in, e.at), slot |-> SlotOf(e.at), writes |-> <<>>] :
              e \in {f \in Resolve(p) : ~f.dir /\ ChainOk(f.first)}}

(* The first n free clusters, as many as there are, and linking them. *)
Take(n, free) == SubSeq(SetToSortSeq(free, <), 1, Min({n, Cardinality(free)}))
Links(chain, got) ==
    FlattenSeq([k \in 1..Len(got) |->
        AllocCluster(got[k], IF k > 1 THEN got[k - 1]
                             ELSE IF chain = <<>> THEN 0 ELSE Last(chain))])

(* Bring the chain of the opened entry o to `need` clusters, write the     *)
(* data, then the size and the first cluster.  Running out of clusters     *)
(* returns after linking those it got.                                     *)
WriteOpened(p, off, buf, o, chain, need) ==
    LET got == Take(Max({0, need - Len(chain)}), o.free)
        full == chain \o got
        enough == Len(full) >= need
        spare == IF Len(chain) > need THEN FreeFrom(chain, need) ELSE <<>>
        slot == WriteDirent(o.cluster, o.slot, o.cell.short, IF full = <<>> THEN 0 ELSE full[1],
                            Max({o.cell.size, off + Len(buf)}))
        old == IF files[p] \in {Absent, Unsure} THEN <<>> ELSE files[p].cells
    IN  /\ Start(IF spare = <<>> THEN "write" ELSE "shrink", {p},
                 o.writes \o Links(chain, got)
                    \o (IF enough THEN spare \o DataWrites(full, off, buf) \o <<slot>> ELSE <<>>))
        /\ Expect(p, IF ToSet(got) \cap Dangling # {} THEN Unsure
                     ELSE File(IF enough THEN GiveUp(Overwritten(old, off, buf), need) ELSE old))
        /\ clean' = (clean /\ enough)

(* write_at.  sys_write never passes an empty buffer; sys_open does, to    *)
(* create a file.                                                          *)
WriteAt(p, off, buf) ==
    \E o \in Opened(p) :
        WriteOpened(p, off, buf, o, Chain(o.cell.first), (off + Len(buf) + Slots - 1) \div Slots)

(* unlink takes the entry away before it frees the chain. *)
Unlink(p) ==
    \E e \in Resolve(p) :
        /\ ~e.dir
        /\ Start("unlink", {p}, RemoveDirSlots(e)
                 \o (IF ChainOk(e.first) THEN FreeFrom(Chain(e.first), 0) ELSE <<>>))
        /\ files' = [files EXCEPT ![p] = Absent]
        /\ UNCHANGED clean

(* The run of q that takes over the entry e. *)
RenamedRun(e, q) ==
    AddEntry(e.in, Last(q), Entry(DeriveName(e.in, Last(q), e.short), e.first, e.size, e.dir),
             FreeClusters)

\* Variant: the old entry goes before the new one is written.
RenameRemovesFirst(p, q) ==
    \E e \in Resolve(p) : \E run \in RenamedRun(e, q) :
        /\ Resolve(q) = {} /\ e.in \in ResolveParent(q)
        /\ Start("rename", {p, q}, RemoveDirSlots(e) \o run.writes)
        /\ files' = [files EXCEPT ![p] = Absent, ![q] = files[p]]
        /\ UNCHANGED clean

(* rename, inside one directory: the new run first, then the old slots go. *)
Rename(p, q) ==
    \E e \in Resolve(p) : \E run \in RenamedRun(e, q) :
        /\ Resolve(q) = {} /\ e.in \in ResolveParent(q)
        /\ Start("rename", {p, q}, run.writes \o RemoveDirSlots(e))
        /\ files' = [files EXCEPT ![p] = Absent, ![q] = files[p]]
        /\ UNCHANGED clean

(* mkdir: a cluster with `.` and `..` in it, then the entry in the parent, *)
(* for which there may be no space any more.                               *)
Mkdir(p) ==
    \E dir \in ResolveParent(p) :
        LET c == Min(FreeClusters)
            dots == <<Entry(<<".", 0>>, c, 0, TRUE),
                      Entry(<<"..", 0>>, IF dir = Root THEN 0 ELSE dir, 0, TRUE)>>
            run == CreateEntry(dir, Last(p), c, TRUE, FreeClusters \ {c})
        IN  /\ Resolve(p) = {} /\ FreeClusters # {}
            /\ Start("mkdir", {p}, AllocCluster(c, 0)
                     \o <<WriteCells(c, 1, dots \o [k \in 1..(Slots - 2) |-> End])>>
                     \o (IF run = {} THEN <<>> ELSE (CHOOSE r \in run : TRUE).writes))
            /\ Expect(p, IF run = {} THEN Absent ELSE IsDir)
            /\ clean' = (clean /\ run # {})

(* The next disk write of the running call. *)
Step ==
    /\ todo # <<>>
    /\ LET w == Head(todo)
       IN  IF w.kind = "fat"
           THEN fat' = [fat EXCEPT ![w.cluster] = w.val] /\ UNCHANGED disk
           ELSE /\ disk' = [disk EXCEPT ![w.cluster] =
                        [i \in 1..Slots |-> IF i \in w.at..(w.at + Len(w.cells) - 1)
                                            THEN w.cells[i - w.at + 1] ELSE @[i]]]
                /\ UNCHANGED fat
    /\ todo' = Tail(todo)
    /\ job' = IF Tail(todo) = <<>> THEN Idle ELSE job
    /\ UNCHANGED <<files, cuts, torn, clean>>

(* A transfer fails or the power goes: the rest of the call never happens. *)
Cut ==
    /\ todo # <<>> /\ cuts < MaxCuts
    /\ todo' = <<>>
    /\ cuts' = cuts + 1
    /\ torn' = (torn \/ job.kind \in {"rename", "shrink"})
    /\ clean' = FALSE
    /\ files' = [p \in Paths |-> IF p \in job.paths THEN Unsure ELSE files[p]]
    /\ job' = Idle
    /\ UNCHANGED <<fat, disk>>

Init ==
    /\ fat = [c \in ClusterIds |-> IF c = Root THEN EOC ELSE 0]
    /\ disk = [c \in ClusterIds |-> [i \in 1..Slots |-> End]]
    /\ todo = <<>> /\ job = Idle
    /\ files = [p \in Paths |-> Absent]
    /\ cuts = 0 /\ torn = FALSE /\ clean = TRUE

(* The writes a caller makes: from the start of the file or at its end.    *)
Sizes(p) == IF Resolve(p) = {} THEN {0} ELSE {e.size : e \in Resolve(p)}
Offsets(p, len) ==
    {off \in {0} \cup Sizes(p) : <<off, len>> \in Writes /\ (len = 0 => Resolve(p) = {})}

(* The VFS serialises the calls: one starts when none is running. *)
Call ==
    /\ job = Idle
    /\ \/ \E p \in FilePaths, w \in Writes, d \in Data :
                w[1] \in Offsets(p, w[2]) /\ WriteAt(p, w[1], [i \in 1..w[2] |-> Byte(d)])
       \/ \E p \in FilePaths : Unlink(p)
       \/ \E p, q \in FilePaths : Rename(p, q)
       \/ \E p \in DirPaths : Mkdir(p)

Next == Call \/ Step \/ Cut

Spec == Init /\ [][Next]_vars
----------------------------------------------------------------------------
(* Properties *)

(* What is read at a path is what the calls on it wrote there: all of it,  *)
(* but for the cells whose cluster a write gave up.                        *)
Agrees(h, f) ==
    /\ h.kind = f.kind
    /\ f.kind = "file" =>
          /\ Len(h.cells) <= Len(f.cells)
          /\ \A i \in 1..Len(f.cells) :
                f.cells[i] # Gone => i <= Len(h.cells) /\ h.cells[i] = f.cells[i]

(* A path holds what the calls on it wrote there, whatever any call on     *)
(* another path is doing, has failed to do or was cut short in: reading it *)
(* back through the directory, the chain and the clusters (resolve,        *)
(* read_at) gives exactly those cells.  The code breaks this in two ways,  *)
(* and nothing is promised there: a write that ends in an earlier cluster  *)
(* than the file loses the cells behind it, which read as nothing or, once *)
(* the file grows again, as whatever the new cluster held before (Gone);   *)
(* and a file that takes a free cluster another chain still runs into      *)
(* shares it with that file from then on (Dangling).                       *)
ReadsBack ==
    \A p \in Paths \ job.paths : files[p] # Unsure => Agrees(Holds(p), files[p])

InUse == UNION {Used(e) : e \in Entries} \cup ToSet(Chain(Root))

(* Between calls no cluster belongs to two entries or to an entry and the  *)
(* root directory, and every chain ends in an end-of-chain mark, whatever  *)
(* the calls were and wherever one was cut short outside rename and the    *)
(* free_from of a write: these two leave a chain with two names, and one   *)
(* that runs into a free cluster.  As long as no call was cut short or ran *)
(* out of space every allocated cluster can be reached from the root:      *)
(* unlink, rename and a write that shrinks the chain leak nothing.         *)
ClustersOwned ==
    job = Idle /\ ~torn =>
        /\ \A e, f \in Entries : e # f => Used(e) \cap Used(f) = {}
        /\ \A e \in Entries : /\ Used(e) \cap ToSet(Chain(Root)) = {}
                              /\ ChainOk(e.first)
        /\ clean => InUse = ClusterIds \ FreeClusters

(* rename writes the new slot before it frees the old one, so at no moment *)
(* of it, and wherever it is cut short, is the file without a name: one of *)
(* the two paths still leads to all that the calls wrote to the file.      *)
RenameKeepsName ==
    \A q \in job.paths :
        job.kind = "rename" /\ files[q] \notin {Absent, Unsure} =>
            \E p \in job.paths : Agrees(Holds(p), files[q])

(* What lfn_self_test asserts after every create ("This is the assertion   *)
(* that matters"): a name that was created is found in the directory.      *)
CreatedIsListed ==
    \A p \in FilePaths : job = Idle /\ files[p] \notin {Absent, Unsure} => Resolve(p) # {}
=============================================================================
