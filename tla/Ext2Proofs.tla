----------------------------- MODULE Ext2Proofs -----------------------------
(***************************************************************************)
(* The records of an ext2 directory tile its blocks, whatever operations   *)
(* run and wherever a crash cuts their writes.                             *)
(*                                                                         *)
(* DirTiled is not inductive: it speaks of the directory blocks on disk,   *)
(* and the next write may put any block there.  The invariant, Shaped,     *)
(* says as much of the writes still to come as of the volume: each of them *)
(* is of a block that is zero, file data, a table of block numbers or a    *)
(* tiling, of an inode whose pointers and size are in range, or of a       *)
(* bitmap.  An operation logs such writes only: it starts on a volume that *)
(* has this shape and changes a directory only once it could read it all   *)
(* (DirOk).  A cut call loses the end of its log, which spoils nothing.    *)
(***************************************************************************)
EXTENDS Ext2Layout

-----------------------------------------------------------------------------
(* Adding an entry *)

\* add_dir_entry, in a record with room or in a new block of the directory.
LEMMA AddDirEntryKeeps ==
  ASSUME NEW st, Good(st), NEW dir \in Inodes, NEW n \in Names, NEW i \in Inodes,
         st.ok => DirOk(st.vol, st.vol.inode[dir])
  PROVE  Good(AddDirEntry(st, dir, n, i))
<1> DEFINE ino == st.vol.inode[dir]
           fits == {e \in DirEntries(st.vol, ino) : Room(e.rec) >= Span[n]}
           t == AddDirEntry(st, dir, n, i)
<1>0. st.vol \in VolT
  BY Zenon DEF Good
<1>1. ino \in InodeT
  BY <1>0 DEF VolT
<1>2. CASE ~st.ok
  <2>1. t = st
    BY <1>2, Zenon DEF AddDirEntry
  <2> QED BY <2>1, Zenon
<1>3. CASE st.ok /\ fits # {}
  <2> DEFINE e == FirstOf(fits)
             rs == st.vol.blk[e.blk].recs
             new == InsertRec(rs, e.at, n, i)
  <2>1. t = Put(st, "blk", e.blk, Records(new))
    BY <1>3, Zenon DEF AddDirEntry, InRecord
  <2>2. e \in fits
    <3>1. fits \in SUBSET DirEntries(st.vol, ino)
      BY Zenon
    <3> HIDE DEF fits, ino
    <3> QED BY <1>0, <1>1, <1>3, <3>1, FirstEntry, Zenon DEF ino
  <2>3. e \in DirEntries(st.vol, ino) /\ Room(e.rec) >= Span[n]
    BY <2>2, Zenon
  <2> HIDE DEF e
  <2>4. e.blk \in Bits /\ rs \in Tilings /\ e.at \in 1..Len(rs) /\ e.rec = rs[e.at]
    <3> HIDE DEF ino
    <3> QED BY <1>0, <1>1, <1>3, <2>3, EntryIs, Zenon DEF ino
  <2> HIDE DEF rs
  <2>5. new \in Tilings
    BY <2>3, <2>4, InsertTiles, Zenon
  <2> HIDE DEF new
  <2>6. Records(new) \in BlockT
    BY <2>5, RecordsBlock, Zenon
  <2> QED BY <2>1, <2>4, <2>6, PutBlk, Zenon
<1>4. CASE st.ok /\ fits = {}
  <2> DEFINE a == [st EXCEPT !.ino = ino]
             b == EnsureBlock(a, ino.size)
             new == [b.ino EXCEPT !.size = @ + 1]
             c == Put(b, "inode", dir, new)
             blk == Records(<<Rec(i, n, Units)>>)
  <2>1. t = InNewBlock(b, dir, n, i)
    BY <1>4, Zenon DEF AddDirEntry
  <2>2. Good(a) /\ a.ino = ino
    BY <1>1, InoGood, Zenon
  <2>3. ino.size \in Nat
    <3> HIDE DEF ino
    <3> QED BY <1>1, LimitNat DEF InodeT
  <2> HIDE DEF a
  <2>4. Good(b) /\ b.ino.size = ino.size /\ (b.ok => b.got \in Bits /\ ino.size < Limit)
    BY <2>2, <2>3, EnsureBlockKeeps, Zenon
  <2> HIDE DEF b
  <2>5. CASE ~b.ok
    <3>1. t = b
      BY <2>1, <2>5, Zenon DEF InNewBlock
    <3> QED BY <2>4, <3>1, Zenon
  <2>6. CASE b.ok
    <3>1. t = Put(c, "blk", b.got, blk)
      BY <2>1, <2>6, Zenon DEF InNewBlock
    <3>2. b.ino \in InodeT
      BY <2>4, Zenon DEF Good
    <3>3. new \in InodeT
      <4> HIDE DEF ino
      <4>1. b.ino.size \in Nat /\ b.ino.size < Limit
        BY <2>3, <2>4, <2>6
      <4> DEFINE j == b.ino
                 L == Limit
      <4>2. j \in InodeT /\ j.size \in Nat /\ j.size < L
        BY <3>2, <4>1
      <4>3. L \in Nat
        BY LimitNat
      <4> HIDE DEF L
      <4>4. j.size + 1 \in 0..L
        BY <4>2, <4>3
      <4> HIDE DEF j
      <4>5. [j EXCEPT !.size = @ + 1] \in InodeT
        BY <4>2, <4>4 DEF InodeT, L
      <4> QED BY <4>5 DEF j
    <3> HIDE DEF new
    <3>4. Good(c) /\ c.got = b.got
      BY <2>4, <3>3, PutInode, Zenon DEF Alike
    <3>5. blk \in BlockT
      BY OneTiles, RecordsBlock, Zenon
    <3> HIDE DEF c, blk
    <3> QED BY <2>4, <2>6, <3>1, <3>4, <3>5, PutBlk, Zenon
  <2> QED BY <2>5, <2>6, Zenon
<1> QED BY <1>2, <1>3, <1>4, Zenon
-----------------------------------------------------------------------------
(* Creating files and directories *)

\* A free inode and a new one have the right shape.
LEMMA InodesTyped ==
  /\ FreeInode \in InodeT
  /\ \A m \in {"file", "dir"} : /\ NewInode(m) \in InodeT /\ NewInode(m).size = 0
                                /\ NewInode(m).direct[1] = 0
<1>1. 0 \in Ptr /\ 0 \in 0..Limit /\ 1 \in 1..DIRECT
  <2>1. DIRECT \in Nat /\ DIRECT > 0
    BY Consts, Zenon
  <2> QED BY <2>1, LimitNat DEF Ptr
<1>2. /\ FreeInode \in InodeT /\ FreeInode.size = 0 /\ FreeInode.direct[1] = 0
  BY <1>1 DEF FreeInode, InodeT
<1> DEFINE f == FreeInode
<1> HIDE DEF f
<1>3. ASSUME NEW m \in {"file", "dir"}
      PROVE  LET g == [f EXCEPT !.mode = m] IN g \in InodeT /\ g.size = 0 /\ g.direct[1] = 0
  <2>1. f \in InodeT /\ f.size = 0 /\ f.direct[1] = 0
    BY <1>2 DEF f
  <2> QED BY <2>1 DEF InodeT
<1> QED BY <1>2, <1>3, Zenon DEF f, NewInode

\* A call starts on a good copy when volume and memory have their types.
LEMMA BeginGood ==
  ASSUME vol \in VolT, mem \in MemT
  PROVE  /\ Good(Begin) /\ Begin.ok /\ Begin.vol = vol /\ Begin.mem = mem /\ Begin.log = <<>>
<1> DEFINE t == Begin
           o == TRUE
<1>1. FreeInode \in InodeT /\ <<>> \in Seq(WriteT) /\ 0 \in Nat
  BY InodesTyped
<1>2. t = CopyOf(vol, mem, <<>>, FreeInode, 0, o)
  BY Zenon DEF CopyOf, Begin
<1> HIDE DEF t, o
<1>3. Good(t) /\ t.vol = vol /\ t.mem = mem /\ t.log = <<>> /\ t.ok = o
  <2> DEFINE l == <<>>
             z == 0
  <2>1. l \in Seq(WriteT) /\ z \in Nat /\ t = CopyOf(vol, mem, l, FreeInode, z, o)
    BY <1>1, <1>2
  <2> HIDE DEF l, z
  <2>2. Good(t) /\ t.vol = vol /\ t.mem = mem /\ t.log = l /\ t.ok = o
    BY <1>1, <2>1, CopyGood
  <2> QED BY <2>2, Zenon DEF l
<1> QED BY <1>3, Zenon DEF t, o

\* Whether a directory is readable depends on the blocks only.
LEMMA DirOkBlk ==
  ASSUME NEW v, NEW w, NEW ino, v.blk = w.blk, DirOk(v, ino)
  PROVE  DirOk(w, ino)
<1>1. \A t, i : IndirectLookup(v, t, i) = IndirectLookup(w, t, i)
  BY DEF IndirectLookup
<1>2. \A idx : MapBlock(v, ino, idx) = MapBlock(w, ino, idx)
  BY <1>1, Zenon DEF MapBlock
<1> QED BY <1>2, Zenon DEF DirOk

\* A directory stays readable when some block becomes a directory's.
LEMMA DirOkRecords ==
  ASSUME NEW v \in VolT, NEW w \in VolT, NEW ino \in InodeT, DirOk(v, ino), NEW g \in Bits,
         NEW rs \in Tilings, w.blk = [v.blk EXCEPT ![g] = Records(rs)]
  PROVE  DirOk(w, ino)
<1>0. v.blk \in [Bits -> BlockT] /\ 0 \notin Bits /\ w.blk[g] = Records(rs)
      /\ \A b \in Bits \ {g} : w.blk[b] = v.blk[b]
  <2>1. v.blk \in [Bits -> BlockT]
    BY DEF VolT
  <2>2. 0 \notin Bits
    BY BitsOf
  <2> QED BY <2>1, <2>2
<1>1. Records(rs).kind = "dir"
  BY RecordsBlock, Zenon
<1>2. ASSUME NEW t \in Ptr, NEW i
      PROVE  IndirectLookup(w, t, i) \in {0, IndirectLookup(v, t, i)}
  <2>1. CASE t = 0
    BY <2>1 DEF IndirectLookup
  <2>2. CASE t = g
    <3>1. w.blk[t].kind # "table"
      BY <1>0, <1>1, <2>2
    <3> QED BY <3>1 DEF IndirectLookup
  <2>3. CASE t \in Bits \ {g}
    BY <1>0, <2>3 DEF IndirectLookup
  <2> QED BY <2>1, <2>2, <2>3 DEF Ptr
<1>3. ASSUME NEW idx \in Nat, idx < Limit
      PROVE  MapBlock(w, ino, idx) \in {0, MapBlock(v, ino, idx)}
  <2> DEFINE one == idx - DIRECT
             two == one - PTRS
             q == two \div PTRS
             r == two % PTRS
  <2>0. ino.single \in Ptr /\ ino.double \in Ptr
    BY DEF InodeT
  <2>1. CASE idx < DIRECT
    BY <2>1, Zenon DEF MapBlock
  <2>2. CASE ~(idx < DIRECT) /\ one < PTRS
    <3>1. MapBlock(w, ino, idx) = IndirectLookup(w, ino.single, one)
      BY <2>2, Zenon DEF MapBlock
    <3>2. MapBlock(v, ino, idx) = IndirectLookup(v, ino.single, one)
      BY <2>2, Zenon DEF MapBlock
    <3> QED BY <1>2, <2>0, <3>1, <3>2, Zenon
  <2>3. CASE ~(idx < DIRECT) /\ ~(one < PTRS)
    <3> DEFINE a == IndirectLookup(v, ino.double, q)
               b == IndirectLookup(w, ino.double, q)
    <3>0. q \in 0..(PTRS - 1)
      BY <1>3, <2>3, Reach, Zenon
    <3>1. MapBlock(w, ino, idx) = IndirectLookup(w, b, r)
      BY <2>3, Zenon DEF MapBlock
    <3>2. MapBlock(v, ino, idx) = IndirectLookup(v, a, r)
      BY <2>3, Zenon DEF MapBlock
    <3>3. b \in {0, a}
      BY <1>2, <2>0, Zenon
    <3>4. a \in Ptr
      BY <2>0, <3>0, LookupType, Zenon
    <3> HIDE DEF a, b, r
    <3>5. CASE b = 0
      BY <3>1, <3>5, Zenon DEF IndirectLookup
    <3>6. CASE b = a
      BY <1>2, <3>1, <3>2, <3>4, <3>6, Zenon
    <3> QED BY <3>3, <3>5, <3>6, Zenon
  <2> QED BY <2>1, <2>2, <2>3, Zenon
<1>4. ASSUME NEW k \in 1..ino.size, NEW b \in {MapBlock(w, ino, k - 1)} \ {0}
      PROVE  w.blk[b].kind = "dir"
  <2>1. k - 1 \in Nat /\ k - 1 < Limit
    <3>1. ino.size \in 0..Limit
      BY DEF InodeT
    <3> QED BY <3>1, LimitNat
  <2>2. b = MapBlock(v, ino, k - 1) /\ b # 0
    BY <1>3, <2>1
  <2>3. v.blk[b].kind = "dir"
    BY <2>2 DEF DirOk
  <2>4. b \in Bits
    <3>1. b \in Ptr
      BY <2>1, <2>2, MapType, Zenon
    <3> QED BY <2>2, <3>1 DEF Ptr
  <2> QED BY <1>0, <1>1, <2>3, <2>4
<1> QED BY <1>4, Zenon DEF DirOk

\* An inode without blocks is readable.
LEMMA DirOkEmpty ==
  ASSUME NEW v, NEW ino, ino.size = 0
  PROVE  DirOk(v, ino)
BY DEF DirOk

\* The first block of an inode that has none.
LEMMA EnsureFirst ==
  ASSUME NEW st, Good(st), st.ok, st.ino.direct[1] = 0
  PROVE  LET t == EnsureBlock(st, 0)
         IN  /\ Good(t)
             /\ t.ok => /\ t.got \in Bits \ st.vol.used /\ t.vol.inode = st.vol.inode
                        /\ t.vol.used = st.vol.used \cup {t.got} /\ t.vol.taken = st.vol.taken
                        /\ t.vol.blk = [st.vol.blk EXCEPT ![t.got] = Zero]
                        /\ t.ino = [st.ino EXCEPT !.direct[1] = t.got]
<1> DEFINE t == EnsureBlock(st, 0)
           a == AllocBlock(st)
<1>0. 0 < DIRECT /\ 0 + 1 = 1 /\ 1 \in 1..DIRECT
  <2>1. DIRECT \in Nat /\ DIRECT > 0
    BY Consts, Zenon
  <2> QED BY <2>1
<1>1. t = InDirect(a, 0 + 1)
  <2>1. st.ino.direct[0 + 1] = 0
    BY <1>0, Zenon
  <2> QED BY <1>0, <2>1, Zenon DEF EnsureBlock
<1>2. /\ Good(a) /\ a.ino = st.ino
      /\ a.ok => /\ st.ok /\ a.got \in Bits \ st.vol.used
                 /\ a.vol.used = st.vol.used \cup {a.got} /\ a.vol.taken = st.vol.taken
                 /\ a.vol.inode = st.vol.inode
                 /\ a.vol.blk = [st.vol.blk EXCEPT ![a.got] = Zero]
  BY AllocBlockKeeps, Zenon
<1> HIDE DEF a
<1>3. CASE ~a.ok
  <2>1. t = a
    BY <1>1, <1>3, Zenon DEF InDirect
  <2> QED BY <1>2, <1>3, <2>1, Zenon
<1>4. CASE a.ok
  <2> DEFINE i == [a.ino EXCEPT !.direct[1] = a.got]
  <2>1. t = [a EXCEPT !.ino.direct[1] = a.got]
    BY <1>0, <1>1, <1>4 DEF InDirect
  <2>2. t = [a EXCEPT !.ino = i]
    BY <2>1
  <2>3. a.ino \in InodeT /\ a.got \in Ptr
    BY <1>2, <1>4 DEF Good, Ptr
  <2>4. i \in InodeT
    BY <1>0, <2>3, Zenon DEF InodeT
  <2>5. i = [st.ino EXCEPT !.direct[1] = a.got]
    BY <1>2
  <2> HIDE DEF i, t
  <2>6. Good(t) /\ t.got = a.got /\ t.ino = i /\ t.vol = a.vol
    BY <1>2, <2>2, <2>4, InoGood
  <2>7. /\ t.got \in Bits \ st.vol.used /\ t.vol.inode = st.vol.inode
        /\ t.vol.used = st.vol.used \cup {t.got} /\ t.vol.taken = st.vol.taken
        /\ t.vol.blk = [st.vol.blk EXCEPT ![t.got] = Zero]
    BY <1>2, <1>4, <2>6, Zenon
  <2>8. t.ino = [st.ino EXCEPT !.direct[1] = t.got]
    BY <2>5, <2>6, Zenon
  <2> QED BY <2>6, <2>7, <2>8, Zenon DEF t
<1> QED BY <1>3, <1>4, Zenon

\* create: the inode, then the entry.
LEMMA CreateInKeeps ==
  ASSUME NEW st, Good(st), st.ok, NEW dir \in Inodes, NEW n \in Names,
         DirOk(st.vol, st.vol.inode[dir])
  PROVE  LET t == CreateIn(st, dir, n) IN Good(t) /\ (t.ok => t.got \in Inodes)
<1> DEFINE t == CreateIn(st, dir, n)
           a == AllocInode(st)
           new == NewInode("file")
           b == Put(a, "inode", a.got, new)
           c == AddDirEntry(b, dir, n, a.got)
<1>1. t = InInode(a, dir, n)
  BY Zenon DEF CreateIn
<1>2. /\ Good(a)
      /\ a.ok => a.vol.inode = st.vol.inode /\ a.vol.blk = st.vol.blk /\ a.got \in Inodes
  BY AllocInodeKeeps, Zenon
<1> HIDE DEF a
<1>3. CASE ~a.ok
  <2>1. t = a
    BY <1>1, <1>3, Zenon DEF InInode
  <2> QED BY <1>2, <1>3, <2>1, Zenon
<1>4. CASE a.ok
  <2>1. t = [c EXCEPT !.got = a.got, !.ino = new]
    BY <1>1, <1>4, Zenon DEF InInode
  <2>2. new \in InodeT /\ new.size = 0
    BY InodesTyped
  <2> HIDE DEF new
  <2>0. b = Put(a, "inode", a.got, new)
    OBVIOUS
  <2> HIDE DEF b
  <2>3. /\ Good(b) /\ b.vol.inode = [a.vol.inode EXCEPT ![a.got] = new]
        /\ b.vol.blk = a.vol.blk
    BY <1>2, <1>4, <2>0, <2>2, PutInodeIs
  <2>4. b.vol.inode = [st.vol.inode EXCEPT ![a.got] = new] /\ b.vol.blk = st.vol.blk
    BY <1>2, <1>4, <2>3, Zenon
  <2>5. DirOk(b.vol, b.vol.inode[dir])
    <3>1. st.vol.inode \in [Inodes -> InodeT]
      BY DEF Good, VolT
    <3>2. CASE a.got = dir
      <4>1. b.vol.inode[dir] = new
        BY <2>4, <3>1, <3>2
      <4> QED BY <2>2, <4>1, DirOkEmpty, Zenon
    <3>3. CASE a.got # dir
      <4>1. b.vol.inode[dir] = st.vol.inode[dir]
        BY <2>4, <3>1, <3>3
      <4> QED BY <2>4, <4>1, DirOkBlk, Zenon
    <3> QED BY <3>2, <3>3, Zenon
  <2>6. Good(c)
    BY <1>2, <1>4, <2>3, <2>5, AddDirEntryKeeps, Zenon
  <2> HIDE DEF c
  <2>7. t = CopyOf(c.vol, c.mem, c.log, new, a.got, c.ok)
    BY <2>1, <2>6, CopyGotIno, Zenon
  <2>8. /\ c.vol \in VolT /\ c.mem \in MemT /\ c.log \in Seq(WriteT)
    BY <2>6, Zenon DEF Good
  <2>9. a.got \in Nat
    BY <1>2, Zenon DEF Good
  <2> HIDE DEF t
  <2>10. Good(t) /\ t.got = a.got
    BY <2>2, <2>7, <2>8, <2>9, CopyGood
  <2> QED BY <1>2, <1>4, <2>10, Zenon DEF t
<1> QED BY <1>3, <1>4, Zenon

\* mkdir: the block with the dot entries, the inode, the entry.
LEMMA MkdirInKeeps ==
  ASSUME NEW st, Good(st), st.ok, NEW dir \in Inodes, NEW n \in Names,
         DirOk(st.vol, st.vol.inode[dir])
  PROVE  Good(MkdirIn(st, dir, n))
<1> DEFINE a == AllocInode(st)
           new == NewInode("dir")
           b == [a EXCEPT !.ino = new]
           c == EnsureBlock(b, 0)
           d == Dots(c, a.got, dir)
           t == MkdirIn(st, dir, n)
<1>1. t = MakeDir(a, dir, n)
  BY Zenon DEF MkdirIn
<1>2. /\ Good(a)
      /\ a.ok => a.vol.inode = st.vol.inode /\ a.vol.blk = st.vol.blk /\ a.got \in Inodes
  BY AllocInodeKeeps, Zenon
<1> HIDE DEF a
<1>3. CASE ~a.ok
  <2>1. t = a
    BY <1>1, <1>3, Zenon DEF MakeDir
  <2> QED BY <1>2, <1>3, <2>1, Zenon
<1>4. CASE a.ok
  <2>1. t = AddDirEntry(d, dir, n, a.got)
    BY <1>1, <1>4, Zenon DEF MakeDir
  <2>2. new \in InodeT /\ new.direct[1] = 0
    BY InodesTyped
  <2> HIDE DEF new
  <2>3. Good(b) /\ b.ino = new /\ b.vol = a.vol /\ b.got = a.got /\ b.ok = a.ok
    BY <1>2, <2>2, InoGood, Zenon
  <2> HIDE DEF b
  <2>4. /\ Good(c)
        /\ c.ok => /\ c.got \in Bits \ b.vol.used /\ c.vol.inode = b.vol.inode
                   /\ c.vol.blk = [b.vol.blk EXCEPT ![c.got] = Zero]
                   /\ c.ino = [b.ino EXCEPT !.direct[1] = c.got]
    BY <1>4, <2>2, <2>3, EnsureFirst, Zenon
  <2> HIDE DEF c
  <2>5. Good(d) /\ (d.ok => DirOk(d.vol, d.vol.inode[dir]))
    <3>1. CASE ~c.ok
      <4>1. d = c
        BY <3>1, Zenon DEF Dots
      <4> QED BY <2>4, <3>1, <4>1, Zenon
    <3>2. CASE c.ok
      <4> DEFINE rs == <<Rec(a.got, ".", Span["."]), Rec(dir, "..", Units - Span["."])>>
                 x == Records(rs)
                 i == [c.ino EXCEPT !.size = 1]
                 e == Put(c, "blk", c.got, x)
      <4>1. d = Put(e, "inode", a.got, i)
        BY <3>2, Zenon DEF Dots
      <4>2. rs \in Tilings
        BY <1>2, <1>4, DotsTile, Zenon
      <4> HIDE DEF rs
      <4>3. x \in BlockT /\ x.kind = "dir"
        BY <4>2, RecordsBlock, Zenon
      <4> HIDE DEF x
      <4>4. c.ino \in InodeT
        BY <2>4, Zenon DEF Good
      <4>5. i \in InodeT /\ i.size = 1 /\ i.direct = c.ino.direct
        <5> DEFINE j == c.ino
        <5> HIDE DEF j
        <5>1. 1 \in 0..Limit
          <6>1. PTRS \in Nat /\ DIRECT \in Nat /\ DIRECT > 0 /\ Limit \in Nat
            BY Consts, LimitNat, Zenon
          <6>2. PTRS * PTRS \in Nat
            BY <6>1
          <6> QED BY <6>1, <6>2 DEF Limit
        <5>2. j \in InodeT => LET k == [j EXCEPT !.size = 1]
                              IN  k \in InodeT /\ k.size = 1 /\ k.direct = j.direct
          BY <5>1 DEF InodeT
        <5> QED BY <4>4, <5>2, Zenon DEF j
      <4>6. i.direct[1] = c.got
        <5>1. c.ino.direct[1] = c.got
          <6> DEFINE z == b.ino
          <6>1. z \in InodeT /\ c.ino = [z EXCEPT !.direct[1] = c.got]
            BY <2>4, <2>2, <2>3, <3>2, Zenon
          <6>2. 1 \in 1..DIRECT
            <7>1. DIRECT \in Nat /\ DIRECT > 0
              BY Consts, Zenon
            <7> QED BY <7>1
          <6> HIDE DEF z
          <6>3. [z EXCEPT !.direct[1] = c.got].direct[1] = c.got
            BY <6>1, <6>2, Zenon DEF InodeT
          <6> QED BY <6>1, <6>3, Zenon
        <5> QED BY <4>5, <5>1, Zenon
      <4> HIDE DEF i
      <4>7. e = Put(c, "blk", c.got, x)
        OBVIOUS
      <4> HIDE DEF e, d
      <4>8. Good(e) /\ e.vol.inode = c.vol.inode /\ e.vol.blk = [c.vol.blk EXCEPT ![c.got] = x]
        BY <2>4, <3>2, <4>3, <4>7, PutBlkIs
      <4>9. /\ Good(d) /\ d.vol.inode = [e.vol.inode EXCEPT ![a.got] = i]
            /\ d.vol.blk = e.vol.blk
        BY <1>2, <1>4, <4>1, <4>5, <4>8, PutInodeIs
      <4>10. /\ d.vol.inode = [st.vol.inode EXCEPT ![a.got] = i]
             /\ d.vol.blk = [[st.vol.blk EXCEPT ![c.got] = Zero] EXCEPT ![c.got] = x]
        <5>1. e.vol.inode = st.vol.inode
          BY <1>2, <1>4, <2>3, <2>4, <3>2, <4>8, Zenon
        <5>2. c.vol.blk = [st.vol.blk EXCEPT ![c.got] = Zero]
          BY <1>2, <1>4, <2>3, <2>4, <3>2, Zenon
        <5> QED BY <4>8, <4>9, <5>1, <5>2, Zenon
      <4>11. st.vol \in VolT /\ d.vol \in VolT
        BY <4>9, Zenon DEF Good
      <4>12. st.vol.inode \in [Inodes -> InodeT] /\ st.vol.blk \in [Bits -> BlockT]
        BY <4>11 DEF VolT
      <4>13. d.vol.blk = [st.vol.blk EXCEPT ![c.got] = x] /\ c.got \in Bits
        BY <2>4, <3>2, <4>10, <4>12
      <4>14. CASE a.got = dir
        <5>1. d.vol.inode[dir] = i
          BY <4>10, <4>12, <4>14
        <5>2. MapBlock(d.vol, i, 1 - 1) = c.got
          <6>1. 1 - 1 < DIRECT /\ 1 - 1 + 1 = 1
            <7>1. DIRECT \in Nat /\ DIRECT > 0
              BY Consts, Zenon
            <7> QED BY <7>1
          <6> QED BY <4>6, <6>1 DEF MapBlock
        <5>3. d.vol.blk[c.got].kind = "dir"
          BY <4>3, <4>12, <4>13
        <5>4. DirOk(d.vol, i)
          BY <4>5, <5>2, <5>3 DEF DirOk
        <5> QED BY <4>9, <5>1, <5>4, Zenon
      <4>15. CASE a.got # dir
        <5>1. d.vol.inode[dir] = st.vol.inode[dir] /\ st.vol.inode[dir] \in InodeT
          BY <4>10, <4>12, <4>15
        <5>2. DirOk(d.vol, st.vol.inode[dir])
          BY <4>2, <4>11, <4>13, <5>1, DirOkRecords, Zenon DEF x
        <5> QED BY <4>9, <5>1, <5>2, Zenon
      <4> QED BY <4>14, <4>15, Zenon
    <3> QED BY <3>1, <3>2, Zenon
  <2> HIDE DEF d
  <2> QED BY <1>2, <1>4, <2>1, <2>5, AddDirEntryKeeps, Zenon
<1> QED BY <1>3, <1>4, Zenon
-----------------------------------------------------------------------------
(* Writing and freeing *)

\* One block of a write.
LEMMA FillKeeps ==
  ASSUME NEW st, Good(st), NEW idx \in Nat, NEW d \in Data
  PROVE  LET t == Fill(EnsureBlock(st, idx), d)
         IN  Good(t) /\ (t.ok => idx < Limit)
<1> DEFINE a == EnsureBlock(st, idx)
           t == Fill(a, d)
<1>1. Good(a) /\ (a.ok => a.got \in Bits /\ idx < Limit)
  BY EnsureBlockKeeps, Zenon
<1> HIDE DEF a
<1>2. CASE ~a.ok
  <2>1. t = a
    BY <1>2, Zenon DEF Fill
  <2> QED BY <1>1, <1>2, <2>1, Zenon DEF a
<1>3. CASE a.ok
  <2> DEFINE x == Datum(d)
  <2>1. t = Put(a, "blk", a.got, x)
    BY <1>3, Zenon DEF Fill
  <2>2. x \in BlockT
    BY Zenon DEF BlockT
  <2> HIDE DEF x
  <2>3. Good(t)
    BY <1>1, <1>3, <2>1, <2>2, PutBlk, Zenon
  <2> QED BY <1>1, <1>3, <2>3, Zenon DEF a
<1> QED BY <1>2, <1>3, Zenon

\* The data of a write, and only for blocks the inode can reach.
LEMMA FillBlocksKeeps ==
  ASSUME NEW st, Good(st), NEW first \in Nat, NEW N \in Nat, NEW d \in Data
  PROVE  LET t == FillBlocks(st, first, N, d)
         IN  Good(t) /\ (t.ok /\ N # 0 => first + N - 1 < Limit)
<1> DEFINE P(t, n) == Good(t) /\ (t.ok /\ n # 0 => first + n - 1 < Limit)
<1>1. PICK f : FillBlocksRun(f, st, first, N, d)
  BY FillBlocksSteps, Zenon
<1>2. /\ f[0] = st /\ FillBlocks(st, first, N, d) = f[N]
      /\ \A n \in 1..N : f[n] = Fill(EnsureBlock(f[n-1], first + n - 1), d)
  BY <1>1, Zenon DEF FillBlocksRun
<1> DEFINE S == {k \in Nat : k <= N => P(f[k], k)}
<1>3. 0 \in S
  BY <1>2, Zenon
<1>4. ASSUME NEW k \in Nat, k \in S PROVE k + 1 \in S
  <2>1. ASSUME k + 1 <= N PROVE P(f[k+1], k + 1)
    <3>1. k <= N /\ k + 1 \in 1..N /\ k + 1 - 1 = k /\ k + 1 # 0
      BY <2>1
    <3> DEFINE idx == first + (k + 1) - 1
               t == f[k+1]
    <3>2. idx \in Nat
      OBVIOUS
    <3>3. Good(f[k])
      BY <1>4, <3>1, Zenon
    <3>4. t = Fill(EnsureBlock(f[k], idx), d)
      <4>1. t = Fill(EnsureBlock(f[k+1-1], first + (k+1) - 1), d)
        <5> DEFINE m == k + 1
        <5>1. m \in 1..N
          BY <3>1
        <5> HIDE DEF m
        <5>2. f[m] = Fill(EnsureBlock(f[m-1], first + m - 1), d)
          BY <1>2, <5>1, Zenon
        <5> QED BY <5>2 DEF m
      <4>2. f[k+1-1] = f[k]
        BY <3>1
      <4> QED BY <4>1, <4>2, Zenon
    <3> HIDE DEF t
    <3>5. Good(t) /\ (t.ok => idx < Limit)
      <4> HIDE DEF idx
      <4> QED BY <3>2, <3>3, <3>4, FillKeeps, Zenon
    <3> QED BY <3>5, Zenon DEF t
  <2>2. k + 1 \in Nat
    OBVIOUS
  <2> QED BY <2>1, <2>2, Zenon
<1>5. N \in S
  BY <1>3, <1>4, Induction, Zenon
<1>6. N <= N
  OBVIOUS
<1>7. P(f[N], N)
  BY <1>5, <1>6, Zenon
<1> QED BY <1>2, <1>7, Zenon

\* The greater of two sizes is one of them.
LEMMA MaxTwo ==
  ASSUME NEW a \in Nat, NEW b \in Nat
  PROVE  Max({a, b}) \in {a, b}
<1>1. IsFiniteSet({a}) /\ {a} \cup {b} = {a, b}
  BY FS_Singleton
<1>2. IsFiniteSet({a, b})
  BY <1>1, FS_AddElement, Zenon
<1> QED BY <1>2, MaxOf

\* The size written to the inode stays within its reach,
LEMMA SetSizeKeeps ==
  ASSUME NEW st, Good(st), NEW i \in Inodes, NEW first \in Nat, NEW n \in Nat,
         st.ok /\ n # 0 => first + n - 1 < Limit
  PROVE  Good(SetSize(st, i, first, n))
<1> DEFINE t == SetSize(st, i, first, n)
<1>1. CASE n = 0 \/ ~st.ok
  <2>1. t = st
    BY <1>1, Zenon DEF SetSize
  <2> QED BY <2>1, Zenon
<1>2. CASE ~(n = 0 \/ ~st.ok)
  <2> DEFINE ino == st.ino
             z == Max({ino.size, first + n})
             new == [ino EXCEPT !.size = z]
  <2>1. t = Put(st, "inode", i, new)
    BY <1>2 DEF SetSize
  <2>2. ino \in InodeT
    BY Zenon DEF Good
  <2> HIDE DEF ino
  <2>3. z \in 0..Limit
    <3>1. ino.size \in 0..Limit
      BY <2>2 DEF InodeT
    <3>2. first + n \in Nat /\ first + n - 1 < Limit /\ ino.size \in Nat
      BY <1>2, <3>1, LimitNat
    <3>3. z \in {ino.size, first + n}
      BY <3>2, MaxTwo, Zenon
    <3> QED BY <3>1, <3>2, <3>3, LimitNat
  <2> HIDE DEF z
  <2>4. new \in InodeT
    BY <2>2, <2>3 DEF InodeT
  <2> HIDE DEF new
  <2> QED BY <2>1, <2>4, PutInode, Zenon
<1> QED BY <1>1, <1>2, Zenon

\* so a whole write_at keeps the copy good.
LEMMA WriteBlocksKeeps ==
  ASSUME NEW st, Good(st), NEW i \in Inodes, NEW first \in Nat, NEW n \in Nat, NEW d \in Data
  PROVE  Good(WriteBlocks(st, i, first, n, d))
<1> DEFINE a == FillBlocks(st, first, n, d)
<1>1. Good(a) /\ (a.ok /\ n # 0 => first + n - 1 < Limit)
  BY FillBlocksKeeps, Zenon
<1> HIDE DEF a
<1>2. Good(SetSize(a, i, first, n))
  BY <1>1, SetSizeKeeps, Zenon
<1> QED BY <1>2, Zenon DEF a, WriteBlocks

\* collect_blocks lists block numbers.
LEMMA CollectSub ==
  ASSUME NEW v \in VolT, NEW ino \in InodeT
  PROVE  CollectBlocks(v, ino) \subseteq Bits
<1> DEFINE Of(t) == {IndirectLookup(v, t, i) : i \in 0..(PTRS - 1)}
<1>1. ASSUME NEW t \in Ptr PROVE Of(t) \subseteq Ptr
  BY LookupType, Zenon
<1>2. ino.single \in Ptr /\ ino.double \in Ptr /\ Range(ino.direct) \subseteq Ptr
  BY Zenon DEF InodeT, Range
<1>3. Of(ino.double) \subseteq Ptr /\ Of(ino.single) \subseteq Ptr
  BY <1>1, <1>2, Zenon
<1>4. \A t \in Of(ino.double) : Of(t) \subseteq Ptr
  BY <1>1, <1>3, Zenon
<1>5. CollectBlocks(v, ino) = (Range(ino.direct) \cup {ino.single, ino.double} \cup Of(ino.single)
            \cup Of(ino.double) \cup UNION {Of(t) : t \in Of(ino.double)}) \ {0}
  BY Zenon DEF CollectBlocks
<1> HIDE DEF Of
<1>6. CollectBlocks(v, ino) \subseteq Ptr \ {0}
  BY <1>2, <1>3, <1>4, <1>5
<1> QED BY <1>6 DEF Ptr

\* free_inode_blocks,
LEMMA FreeInodeBlocksKeeps ==
  ASSUME NEW st, Good(st), NEW ino \in InodeT
  PROVE  Good(FreeInodeBlocks(st, ino))
<1> DEFINE list == CollectBlocks(st.vol, ino)
           t == FreeInodeBlocks(st, ino)
<1>0. /\ st.vol \in VolT /\ st.mem \in MemT /\ st.log \in Seq(WriteT) /\ st.ino \in InodeT
      /\ st.got \in Nat
  BY Zenon DEF Good
<1>1. CASE list = {}
  <2>1. t = st
    BY <1>1, Zenon DEF FreeInodeBlocks
  <2> QED BY <2>1, Zenon
<1>2. CASE list # {}
  <2> DEFINE c == Cardinality(list \cap st.vol.used)
             m == [st.mem EXCEPT !.blocks = @ + c]
             a == [st EXCEPT !.mem = m]
             u == st.vol.used \ list
  <2>1. t = Put(a, "used", 0, u)
    <3>1. t = Put([st EXCEPT !.mem.blocks = @ + c], "used", 0, u)
      BY <1>2, Zenon DEF FreeInodeBlocks
    <3>2. [st EXCEPT !.mem.blocks = @ + c] = a
      OBVIOUS
    <3> QED BY <3>1, <3>2, Zenon
  <2>2. c \in Nat /\ u \in SUBSET Bits
    <3>1. st.vol.used \in SUBSET Bits
      BY <1>0 DEF VolT
    <3>2. list \cap st.vol.used \subseteq Bits /\ IsFiniteSet(Bits)
      BY <3>1, BitsOf
    <3>3. IsFiniteSet(list \cap st.vol.used)
      BY <3>2, FS_Subset, Zenon
    <3>4. c \in Nat
      BY <3>3, FS_CardinalityType, Zenon
    <3> QED BY <3>1, <3>4
  <2> HIDE DEF c, u
  <2>3. m \in MemT
    BY <1>0, <2>2 DEF MemT
  <2> HIDE DEF m
  <2>4. a = CopyOf(st.vol, m, st.log, st.ino, st.got, st.ok)
    BY CopyMem, Zenon
  <2> HIDE DEF a
  <2>5. Good(a)
    BY <1>0, <2>3, <2>4, CopyGood
  <2> QED BY <2>1, <2>2, <2>5, PutUsed, Zenon
<1> QED BY <1>1, <1>2, Zenon

\* and free_inode.
LEMMA FreeInodeNoKeeps ==
  ASSUME NEW st, Good(st), NEW i \in Inodes
  PROVE  Good(FreeInodeNo(st, i))
<1> DEFINE c == Cardinality({i} \cap st.vol.taken)
           m == [st.mem EXCEPT !.inodes = @ + c]
           a == [st EXCEPT !.mem = m]
           u == st.vol.taken \ {i}
           b == Put(a, "taken", 0, u)
<1>0. /\ st.vol \in VolT /\ st.mem \in MemT /\ st.log \in Seq(WriteT) /\ st.ino \in InodeT
      /\ st.got \in Nat
  BY Zenon DEF Good
<1>1. FreeInodeNo(st, i) = SyncFreeCounts(b)
  <2>1. [st EXCEPT !.mem.inodes = @ + c] = a
    OBVIOUS
  <2> HIDE DEF a
  <2> QED BY <2>1, Zenon DEF FreeInodeNo
<1>2. c \in Nat /\ u \in SUBSET Inodes
  <2>1. st.vol.taken \in SUBSET Inodes
    BY <1>0 DEF VolT
  <2>2. {i} \cap st.vol.taken \subseteq {i} /\ IsFiniteSet({i})
    BY FS_Singleton, Zenon
  <2>3. IsFiniteSet({i} \cap st.vol.taken)
    BY <2>2, FS_Subset, Zenon
  <2>4. c \in Nat
    BY <2>3, FS_CardinalityType, Zenon
  <2> QED BY <2>1, <2>4
<1> HIDE DEF c, u
<1>3. m \in MemT
  BY <1>0, <1>2 DEF MemT
<1> HIDE DEF m
<1>4. a = CopyOf(st.vol, m, st.log, st.ino, st.got, st.ok)
  BY CopyMem, Zenon
<1> HIDE DEF a
<1>5. Good(a)
  BY <1>0, <1>3, <1>4, CopyGood
<1>6. Good(b)
  BY <1>2, <1>5, PutTaken, Zenon
<1> HIDE DEF b
<1> QED BY <1>1, <1>6, SyncKeeps, Zenon
-----------------------------------------------------------------------------
(* Paths *)

\* A name leads to an inode through a record of a readable directory.
LEMMA LookupTyped ==
  ASSUME NEW v \in VolT, NEW dir \in Inodes \cup {0}, NEW n
  PROVE  /\ LookupIn(v, dir, n) \in Inodes \cup {0}
         /\ LookupIn(v, dir, n) # 0 =>
              /\ dir \in Inodes /\ v.inode[dir].mode = "dir" /\ DirOk(v, v.inode[dir])
              /\ \E e \in DirEntries(v, v.inode[dir]) :
                    e.rec.ino = LookupIn(v, dir, n) /\ e.rec.name = n
<1> DEFINE ino == v.inode[dir]
           es == {e \in DirEntries(v, ino) : e.rec.ino # 0 /\ e.rec.name = n}
<1>1. CASE dir = 0 \/ ino.mode # "dir" \/ ~DirOk(v, ino)
  <2>1. LookupIn(v, dir, n) = 0
    BY <1>1, Zenon DEF LookupIn
  <2> QED BY <2>1
<1>2. CASE ~(dir = 0 \/ ino.mode # "dir" \/ ~DirOk(v, ino))
  <2>0. dir \in Inodes /\ ino.mode = "dir" /\ DirOk(v, ino)
    BY <1>2
  <2>1. LookupIn(v, dir, n) = FirstIno(es)
    BY <1>2, Zenon DEF LookupIn
  <2>2. ino \in InodeT
    BY <2>0 DEF VolT
  <2>3. es \in SUBSET DirEntries(v, ino)
    BY Zenon
  <2>4. CASE es = {}
    <3>1. LookupIn(v, dir, n) = 0
      BY <2>1, <2>4, Zenon DEF FirstIno
    <3> QED BY <3>1
  <2>5. CASE es # {}
    <3> DEFINE e == FirstOf(es)
    <3>1. e \in es
      <4> HIDE DEF es, ino
      <4> QED BY <2>0, <2>2, <2>3, <2>5, FirstEntry, Zenon
    <3>2. LookupIn(v, dir, n) = e.rec.ino
      BY <2>1, <2>5, Zenon DEF FirstIno
    <3> HIDE DEF e
    <3>3. e \in DirEntries(v, ino) /\ e.rec.name = n
      BY <3>1, Zenon
    <3>4. e.rec \in RecT
      <4> HIDE DEF ino
      <4> QED BY <2>0, <2>2, <3>3, EntryIs, Zenon
    <3>5. e.rec.ino \in Inodes \cup {0}
      BY <3>4, Zenon DEF RecT
    <3> QED BY <2>0, <3>2, <3>3, <3>5, Zenon
  <2> QED BY <2>4, <2>5, Zenon
<1> QED BY <1>1, <1>2, Zenon

\* The inode number a lookup returns.
LEMMA LookupIno ==
  ASSUME NEW v \in VolT, NEW dir \in Inodes \cup {0}, NEW n, NEW i, i = LookupIn(v, dir, n)
  PROVE  i \in Inodes \cup {0}
BY LookupTyped, Zenon

\* Every step of resolve is at an inode or at 0,
LEMMA RunTyped ==
  ASSUME NEW v \in VolT, NEW p, Len(p) \in Nat, NEW f, ResolveRun(f, v, p)
  PROVE  \A k \in 0..Len(p) : f[k] \in Inodes \cup {0}
<1> DEFINE S == {k \in Nat : k <= Len(p) => f[k] \in Inodes \cup {0}}
<1>1. f[0] = ROOT_INO /\ \A n \in 1..Len(p) : f[n] = LookupIn(v, f[n-1], p[n])
  BY Zenon DEF ResolveRun
<1>2. 0 \in S
  <2>1. ROOT_INO \in Inodes
    BY Consts, Zenon
  <2> QED BY <1>1, <2>1
<1>3. ASSUME NEW k \in Nat, k \in S PROVE k + 1 \in S
  <2>1. ASSUME k + 1 <= Len(p) PROVE f[k + 1] \in Inodes \cup {0}
    <3> DEFINE m == k + 1
    <3>1. m \in 1..Len(p) /\ m - 1 = k /\ k <= Len(p)
      BY <2>1
    <3>2. f[k] \in Inodes \cup {0}
      BY <1>3, <3>1, Zenon
    <3> HIDE DEF m
    <3>3. f[m] = LookupIn(v, f[k], p[m])
      BY <1>1, <3>1
    <3>4. f[m] \in Inodes \cup {0}
      <4> DEFINE a == f[k]
                 i == f[m]
      <4>1. a \in Inodes \cup {0} /\ i = LookupIn(v, a, p[m])
        BY <3>2, <3>3, Zenon
      <4> HIDE DEF a, i
      <4>2. i \in Inodes \cup {0}
        BY <4>1, LookupIno, Zenon
      <4> QED BY <4>2 DEF i
    <3> QED BY <3>4 DEF m
  <2> QED BY <2>1
<1>4. Nat \subseteq S
  <2> HIDE DEF S
  <2> QED BY <1>2, <1>3, Induction
<1> QED BY <1>4

\* and so is the last.
LEMMA ResolveTyped ==
  ASSUME NEW v \in VolT, NEW p, Len(p) \in Nat
  PROVE  Resolve(v, p) \in Inodes \cup {0}
<1>1. PICK f : ResolveRun(f, v, p)
  BY ResolveSteps, Zenon
<1>2. Resolve(v, p) = f[Len(p)]
  BY <1>1, Zenon DEF ResolveRun
<1>3. f[Len(p)] \in Inodes \cup {0}
  BY <1>1, RunTyped
<1> QED BY <1>2, <1>3

\* A path is resolved by looking its last name up in its parent.
LEMMA ResolveLast ==
  ASSUME NEW v \in VolT, NEW p \in Seq(Names), p # <<>>
  PROVE  /\ Resolve(v, p) = LookupIn(v, ResolveParent(v, p), Leaf(p))
         /\ ResolveParent(v, p) \in Inodes \cup {0} /\ Leaf(p) \in Names
<1> DEFINE L == Len(p)
           q == SubSeq(p, 1, L - 1)
<1>0. L \in Nat /\ L > 0 /\ L - 1 \in Nat /\ p[L] \in Names
  OBVIOUS
<1>1. q \in Seq(Names) /\ Len(q) = L - 1 /\ \A n \in 1..(L - 1) : q[n] = p[n]
  <2> DEFINE N == L - 1
  <2>1. N \in Nat /\ N <= L
    BY <1>0
  <2> HIDE DEF N
  <2>2. SubSeq(p, 1, N) \in Seq(Names) /\ Len(SubSeq(p, 1, N)) = N
    BY <1>0, <2>1
  <2>3. ASSUME NEW n \in 1..N PROVE SubSeq(p, 1, N)[n] = p[n]
    BY <1>0, <2>1
  <2> QED BY <2>2, <2>3, Zenon DEF N
<1> HIDE DEF q
<1>2. PICK f : ResolveRun(f, v, p)
  BY <1>0, ResolveSteps, Zenon
<1>3. PICK g : ResolveRun(g, v, q)
  BY <1>0, <1>1, ResolveSteps, Zenon
<1>4. /\ f[0] = ROOT_INO /\ Resolve(v, p) = f[L]
      /\ \A n \in 1..L : f[n] = LookupIn(v, f[n-1], p[n])
  BY <1>2, Zenon DEF ResolveRun
<1>5. /\ g[0] = ROOT_INO /\ Resolve(v, q) = g[L - 1]
      /\ \A n \in 1..(L - 1) : g[n] = LookupIn(v, g[n-1], p[n])
  BY <1>1, <1>3 DEF ResolveRun
<1> DEFINE S == {k \in Nat : k <= L - 1 => f[k] = g[k]}
<1>6. 0 \in S
  BY <1>4, <1>5
<1>7. ASSUME NEW k \in Nat, k \in S PROVE k + 1 \in S
  <2>1. ASSUME k + 1 <= L - 1 PROVE f[k + 1] = g[k + 1]
    <3> DEFINE m == k + 1
    <3>1. m \in 1..L /\ m \in 1..(L - 1) /\ m - 1 = k /\ k <= L - 1
      BY <1>0, <2>1
    <3>2. f[k] = g[k]
      BY <1>7, <3>1, Zenon
    <3> HIDE DEF m
    <3>3. f[m] = LookupIn(v, f[m-1], p[m]) /\ g[m] = LookupIn(v, g[m-1], p[m])
      BY <1>4, <1>5, <3>1, Zenon
    <3>4. f[m] = g[m]
      BY <3>1, <3>2, <3>3
    <3> QED BY <3>4 DEF m
  <2> QED BY <2>1
<1>8. L - 1 \in S
  <2>1. Nat \subseteq S
    <3> HIDE DEF S
    <3> QED BY <1>6, <1>7, Induction
  <2> QED BY <1>0, <2>1
<1>9. f[L - 1] = g[L - 1]
  BY <1>0, <1>8
<1>10. ResolveParent(v, p) = f[L - 1]
  BY <1>5, <1>9, Zenon DEF ResolveParent, q
<1>11. f[L] = LookupIn(v, f[L-1], p[L])
  BY <1>0, <1>4
<1>12. ResolveParent(v, p) \in Inodes \cup {0}
  BY <1>0, <1>1, ResolveTyped, Zenon DEF ResolveParent, q
<1> QED BY <1>0, <1>4, <1>10, <1>11, <1>12, Zenon DEF Leaf

\* What the paths of the calls are.
LEMMA PathIs ==
  ASSUME NEW p \in Paths
  PROVE  p \in Seq(Names) /\ p # <<>> /\ Len(p) \in Nat
<1>1. Paths \subseteq Seq(Names) \ {<<>>}
  BY Ext2Assumption, Zenon
<1> QED BY <1>1

\* The record unlink and rename work on is there.
LEMMA EntryOfIs ==
  ASSUME vol \in VolT, NEW p \in Paths, NEW dir \in Parent(p), NEW i \in Target(p)
  PROVE  /\ dir \in Inodes /\ i \in Inodes /\ vol.inode[dir] \in InodeT
         /\ DirOk(vol, vol.inode[dir])
         /\ EntryOf(dir, i) \in DirEntries(vol, vol.inode[dir]) /\ EntryOf(dir, i).rec.ino = i
<1>1. dir = ResolveParent(vol, p) /\ dir # 0 /\ DirOk(vol, vol.inode[dir])
  BY DEF Parent
<1>2. i = Resolve(vol, p) /\ i # 0
  BY DEF Target
<1>3. /\ Resolve(vol, p) = LookupIn(vol, ResolveParent(vol, p), Leaf(p))
      /\ ResolveParent(vol, p) \in Inodes \cup {0}
  BY PathIs, ResolveLast, Zenon
<1>4. dir \in Inodes /\ i = LookupIn(vol, dir, Leaf(p))
  BY <1>1, <1>2, <1>3
<1>5. dir \in Inodes \cup {0}
  BY <1>4
<1>6. i \in Inodes \cup {0} /\ \E e \in DirEntries(vol, vol.inode[dir]) : e.rec.ino = i
  <2> DEFINE n == Leaf(p)
  <2>1. /\ i = LookupIn(vol, dir, n) /\ LookupIn(vol, dir, n) # 0
    BY <1>2, <1>4, Zenon
  <2> HIDE DEF n
  <2>2. \E e \in DirEntries(vol, vol.inode[dir]) :
            e.rec.ino = LookupIn(vol, dir, n) /\ e.rec.name = n
    BY <1>5, <2>1, LookupTyped
  <2>3. i \in Inodes \cup {0}
    BY <1>5, <2>1, LookupIno, Zenon
  <2> QED BY <2>1, <2>2, <2>3, Zenon
<1>7. i \in Inodes
  BY <1>2, <1>6
<1>8. vol.inode[dir] \in InodeT
  BY <1>4 DEF VolT
<1> DEFINE ino == vol.inode[dir]
           es == {e \in DirEntries(vol, ino) : e.rec.ino = i}
<1>9. es \in SUBSET DirEntries(vol, ino) /\ es # {}
  BY <1>6, Zenon
<1>10. FirstOf(es) \in es
  <2> HIDE DEF es, ino
  <2> QED BY <1>1, <1>8, <1>9, FirstEntry, Zenon DEF ino
<1>11. EntryOf(dir, i) \in es
  BY <1>10, Zenon DEF EntryOf
<1> QED BY <1>1, <1>4, <1>7, <1>8, <1>11, Zenon

\* A record is overwritten by one of its length that fits its name.
LEMMA PutRecordKeeps ==
  ASSUME vol \in VolT, NEW st, Good(st), NEW ino \in InodeT, DirOk(vol, ino),
         NEW e \in DirEntries(vol, ino), NEW r \in RecT, RecFits(r), r.len = e.rec.len
  PROVE  Good(PutRecord(st, e, r))
<1> DEFINE rs == vol.blk[e.blk].recs
           new == [rs EXCEPT ![e.at] = r]
<1>1. e.blk \in Bits /\ rs \in Tilings /\ e.at \in 1..Len(rs) /\ e.rec = rs[e.at]
  BY EntryIs, Zenon
<1>2. PutRecord(st, e, r) = Put(st, "blk", e.blk, Records(new))
  BY Zenon DEF PutRecord
<1> HIDE DEF rs
<1>3. new \in Tilings
  BY <1>1, ReplaceTiles, Zenon
<1> HIDE DEF new
<1>4. Records(new) \in BlockT
  BY <1>3, RecordsBlock, Zenon
<1> QED BY <1>1, <1>2, <1>4, PutBlk, Zenon
-----------------------------------------------------------------------------
(* The invariant *)

\* The volume and what is still to be written to it have the right shape: the
\* records of every directory block tile it, in the volume and in every write a
\* call has logged, so that they do after each write and wherever a call is cut.
Shaped == vol \in VolT /\ mem \in MemT /\ todo \in Seq(WriteT)

\* The memory a write records.
LEMMA WriteMem ==
  ASSUME NEW w \in WriteT
  PROVE  w.mem \in MemT
BY DEF WriteT

\* A call whose copy is good logs writes of the right shape.
LEMMA StartShaped ==
  ASSUME Shaped, NEW k, NEW ps, NEW st, NEW ex, Good(st), Start(k, ps, st, ex)
  PROVE  Shaped'
<1>1. todo' = st.log /\ vol' = vol /\ mem' = mem
  BY Zenon DEF Start
<1>2. st.log \in Seq(WriteT)
  BY Zenon DEF Good
<1> QED BY <1>1, <1>2 DEF Shaped

\* The directory a call works in,
LEMMA ParentIs ==
  ASSUME vol \in VolT, NEW p \in Paths, NEW dir \in Parent(p)
  PROVE  dir \in Inodes /\ DirOk(vol, vol.inode[dir]) /\ Leaf(p) \in Names
<1>1. dir = ResolveParent(vol, p) /\ dir # 0 /\ DirOk(vol, vol.inode[dir])
  BY DEF Parent
<1>2. ResolveParent(vol, p) \in Inodes \cup {0} /\ Leaf(p) \in Names
  BY PathIs, ResolveLast, Zenon
<1> QED BY <1>1, <1>2

\* and the inode its path leads to.
LEMMA TargetIs ==
  ASSUME vol \in VolT, NEW p \in Paths, NEW i \in Target(p)
  PROVE  i \in Inodes /\ vol.inode[i] \in InodeT
<1>1. i = Resolve(vol, p) /\ i # 0
  BY DEF Target
<1>2. Resolve(vol, p) \in Inodes \cup {0}
  BY PathIs, ResolveTyped, Zenon
<1>3. i \in Inodes
  BY <1>1, <1>2
<1> QED BY <1>3 DEF VolT

\* A write to a path, once its copy is good.
LEMMA WriteToShaped ==
  ASSUME Shaped, NEW p, NEW old, NEW st, NEW first, NEW n, NEW d, Good(st),
         WriteTo(p, old, st, first, n, d)
  PROVE  Shaped'
BY StartShaped, Zenon DEF WriteTo

\* write_at, to a new file or to an old one.
LEMMA WriteAtShaped ==
  ASSUME Shaped, NEW p \in FilePaths, NEW w \in Writes, NEW d \in Data, WriteAt(p, w[1], w[2], d)
  PROVE  Shaped'
<1> DEFINE first == w[1]
           n == w[2]
<1>0. first \in Nat /\ n \in Nat
  <2>1. Writes \subseteq Nat \X Nat
    BY Ext2Assumption, Zenon
  <2> QED BY <2>1
<1> HIDE DEF first, n
<1>1. p \in Paths /\ vol \in VolT /\ mem \in MemT
  BY DEF Paths, Shaped
<1>2. Good(Begin) /\ Begin.ok /\ Begin.vol = vol
  BY <1>1, BeginGood, Zenon
<1>3. ASSUME NEW dir \in Parent(p), Create(p, CreateIn(Begin, dir, Leaf(p)), first, n, d)
      PROVE  Shaped'
  <2> DEFINE st == CreateIn(Begin, dir, Leaf(p))
             t == WriteBlocks(st, st.got, first, n, d)
  <2>1. dir \in Inodes /\ DirOk(vol, vol.inode[dir]) /\ Leaf(p) \in Names
    BY <1>1, ParentIs, Zenon
  <2>2. Good(st) /\ (st.ok => st.got \in Inodes)
    BY <1>2, <2>1, CreateInKeeps, Zenon
  <2> HIDE DEF st
  <2>3. CASE st.ok
    <3>1. WriteTo(p, Absent, t, first, n, d)
      BY <1>3, <2>3, Zenon DEF Create, st
    <3>2. Good(t)
      BY <1>0, <2>2, <2>3, WriteBlocksKeeps, Zenon
    <3> HIDE DEF t
    <3> QED BY <3>1, <3>2, WriteToShaped, Zenon
  <2>4. CASE ~st.ok
    <3>1. Start("create", {p}, st, Expect({p}, Absent))
      BY <1>3, <2>4, Zenon DEF Create, st
    <3> QED BY <2>2, <3>1, StartShaped, Zenon
  <2> QED BY <2>3, <2>4, Zenon
<1>4. ASSUME NEW i \in Target(p),
             WriteTo(p, files[p], WriteBlocks([Begin EXCEPT !.ino = vol.inode[i]], i, first, n, d),
                     first, n, d)
      PROVE  Shaped'
  <2> DEFINE st == [Begin EXCEPT !.ino = vol.inode[i]]
             t == WriteBlocks(st, i, first, n, d)
  <2>1. i \in Inodes /\ vol.inode[i] \in InodeT
    BY <1>1, TargetIs, Zenon
  <2>2. Good(st)
    BY <1>2, <2>1, InoGood, Zenon
  <2> HIDE DEF st
  <2>3. Good(t)
    BY <1>0, <2>1, <2>2, WriteBlocksKeeps, Zenon
  <2> HIDE DEF t
  <2> QED BY <1>4, <2>3, WriteToShaped, Zenon DEF t, st
<1>5. WriteAt(p, first, n, d)
  BY DEF first, n
<1> QED BY <1>3, <1>4, <1>5, Zenon DEF WriteAt

\* mkdir.
LEMMA MkdirShaped ==
  ASSUME Shaped, NEW p \in DirPaths, Mkdir(p)
  PROVE  Shaped'
<1>1. p \in Paths /\ vol \in VolT /\ mem \in MemT
  BY DEF Paths, Shaped
<1>2. Good(Begin) /\ Begin.ok /\ Begin.vol = vol
  BY <1>1, BeginGood, Zenon
<1>3. PICK dir \in Parent(p) : \E st \in {MkdirIn(Begin, dir, Leaf(p))} :
          Start("mkdir", {p}, st, Expect({p}, IF st.ok THEN IsDir ELSE Absent))
  BY Zenon DEF Mkdir
<1> DEFINE st == MkdirIn(Begin, dir, Leaf(p))
<1>4. Start("mkdir", {p}, st, Expect({p}, IF st.ok THEN IsDir ELSE Absent))
  BY <1>3, Zenon
<1>5. dir \in Inodes /\ DirOk(vol, vol.inode[dir]) /\ Leaf(p) \in Names
  BY <1>1, ParentIs, Zenon
<1>6. Good(st)
  BY <1>2, <1>5, MkdirInKeeps, Zenon
<1> HIDE DEF st
<1> QED BY <1>4, <1>6, StartShaped, Zenon

\* unlink: the record is freed, then the blocks, then the inode.
LEMMA UnlinkShaped ==
  ASSUME Shaped, NEW p \in FilePaths, Unlink(p)
  PROVE  Shaped'
<1>1. p \in Paths /\ vol \in VolT /\ mem \in MemT
  BY DEF Paths, Shaped
<1>2. Good(Begin)
  BY <1>1, BeginGood, Zenon
<1>3. PICK dir \in Parent(p), i \in Target(p) : \E e \in {EntryOf(dir, i)} :
        Start("unlink", {p},
              FreeInodeNo(FreeInodeBlocks(PutRecord(Begin, e, Rec(0, "", e.rec.len)),
                                          vol.inode[i]), i),
              Expect({p}, Absent))
  BY Zenon DEF Unlink
<1> DEFINE e == EntryOf(dir, i)
           r == Rec(0, "", e.rec.len)
           a == PutRecord(Begin, e, r)
           b == FreeInodeBlocks(a, vol.inode[i])
           c == FreeInodeNo(b, i)
<1>4. Start("unlink", {p}, c, Expect({p}, Absent))
  BY <1>3, Zenon
<1>5. /\ vol.inode[dir] \in InodeT /\ DirOk(vol, vol.inode[dir])
      /\ e \in DirEntries(vol, vol.inode[dir])
  BY <1>1, EntryOfIs, Zenon
<1> HIDE DEF e
<1>6. i \in Inodes /\ vol.inode[i] \in InodeT
  BY <1>1, TargetIs, Zenon
<1>7. e.rec \in RecT /\ RecFits(e.rec)
  BY <1>1, <1>5, EntryIs, Zenon
<1>8. r \in RecT /\ RecFits(r) /\ r.len = e.rec.len
  BY <1>7, Zenon DEF Rec, RecT, RecFits
<1> HIDE DEF r
<1>9. Good(a)
  BY <1>1, <1>2, <1>5, <1>8, PutRecordKeeps, Zenon
<1> HIDE DEF a
<1>10. Good(b)
  BY <1>6, <1>9, FreeInodeBlocksKeeps, Zenon
<1> HIDE DEF b
<1>11. Good(c)
  BY <1>6, <1>10, FreeInodeNoKeeps, Zenon
<1> HIDE DEF c
<1> QED BY <1>4, <1>11, StartShaped, Zenon

\* rename: the record takes the new name if it is long enough.
LEMMA RenameShaped ==
  ASSUME Shaped, NEW p \in FilePaths, NEW q \in FilePaths, Rename(p, q)
  PROVE  Shaped'
<1>1. p \in Paths /\ q \in Paths /\ vol \in VolT /\ mem \in MemT
  BY DEF Paths, Shaped
<1>2. Good(Begin)
  BY <1>1, BeginGood, Zenon
<1>3. PICK dir \in Parent(p), i \in Target(p) : \E e \in {EntryOf(dir, i)} :
        /\ dir \in Parent(q) /\ Span[Leaf(q)] <= e.rec.len
        /\ Start("rename", {p, q}, PutRecord(Begin, e, [e.rec EXCEPT !.name = Leaf(q)]),
                 [Expect({p}, Absent) EXCEPT ![q] = files[p]])
  BY Zenon DEF Rename
<1> DEFINE e == EntryOf(dir, i)
           r == [e.rec EXCEPT !.name = Leaf(q)]
           a == PutRecord(Begin, e, r)
           ex == [Expect({p}, Absent) EXCEPT ![q] = files[p]]
<1>4. dir \in Parent(q) /\ Span[Leaf(q)] <= e.rec.len /\ Start("rename", {p, q}, a, ex)
  BY <1>3, Zenon
<1>5. /\ vol.inode[dir] \in InodeT /\ DirOk(vol, vol.inode[dir])
      /\ e \in DirEntries(vol, vol.inode[dir])
  BY <1>1, EntryOfIs, Zenon
<1> HIDE DEF e, ex
<1>6. e.rec \in RecT /\ RecFits(e.rec)
  BY <1>1, <1>5, EntryIs, Zenon
<1>7. Leaf(q) \in Names
  BY <1>1, <1>4, ParentIs, Zenon
<1>8. r \in RecT /\ RecFits(r) /\ r.len = e.rec.len
  <2>1. r \in RecT /\ r.len = e.rec.len /\ r.ino = e.rec.ino /\ r.name = Leaf(q)
    BY <1>6, <1>7, Zenon DEF RecT
  <2>2. Span[Leaf(q)] \in 3..Units /\ Units \in Nat
    BY <1>7, Consts, Zenon
  <2>3. e.rec.len >= 2 /\ e.rec.len >= Span[Leaf(q)]
    <3>1. e.rec.len \in Nat
      BY <1>6, Zenon DEF RecT
    <3> QED BY <1>4, <2>2, <3>1
  <2> QED BY <1>7, <2>1, <2>3 DEF RecFits
<1> HIDE DEF r
<1>9. Good(a)
  BY <1>1, <1>2, <1>5, <1>8, PutRecordKeeps, Zenon
<1> HIDE DEF a
<1> QED BY <1>4, <1>9, StartShaped, Zenon

\* fsync.
LEMMA FsyncShaped ==
  ASSUME Shaped, NEW p \in FilePaths, Fsync(p)
  PROVE  Shaped'
<1>1. p \in Paths /\ vol \in VolT /\ mem \in MemT
  BY DEF Paths, Shaped
<1>2. Good(Begin)
  BY <1>1, BeginGood, Zenon
<1>3. PICK i \in Target(p) : Start("fsync", {}, Put(Begin, "inode", i, vol.inode[i]), files)
  BY Zenon DEF Fsync
<1> DEFINE st == Put(Begin, "inode", i, vol.inode[i])
<1>4. i \in Inodes /\ vol.inode[i] \in InodeT
  BY <1>1, TargetIs, Zenon
<1>5. Good(st)
  BY <1>2, <1>4, PutInode, Zenon
<1> HIDE DEF st
<1> QED BY <1>3, <1>5, StartShaped, Zenon DEF st

\* mount reads memory of the right shape.
LEMMA MountTyped ==
  ASSUME NEW v \in VolT
  PROVE  Mount(v) \in MemT
<1>1. v.super \in SuperT /\ v.desc \in Nat
  BY DEF VolT
<1> QED BY <1>1 DEF Mount, MemT, SuperT

\* The volume mkext2 makes has the right shape.
LEMMA FreshTyped == Fresh \in VolT
<1> DEFINE b == Min(Blocks)
           rs == <<Rec(ROOT_INO, ".", Span["."]), Rec(ROOT_INO, "..", Units - Span["."])>>
           root == [NewInode("dir") EXCEPT !.size = 1, !.direct[1] = b]
           ino == [i \in Inodes |-> IF i = ROOT_INO THEN root ELSE FreeInode]
           blk == [k \in Bits |-> IF k = b THEN Records(rs) ELSE Zero]
           sup == [blocks |-> Cardinality(Blocks) - 1, inodes |-> Cardinality(Inodes) - 1]
<1>1. b \in Blocks /\ b \in Bits
  <2>1. Blocks \subseteq Nat /\ Blocks # {} /\ Blocks \subseteq Bits
    BY Consts, BitsOf, Zenon
  <2>2. b \in Blocks
    BY <2>1, MinOf, Zenon
  <2> QED BY <2>1, <2>2, Zenon
<1>2. rs \in Tilings
  BY Consts, DotsTile, Zenon
<1>3. sup \in SuperT
  <2>1. /\ IsFiniteSet(Blocks) /\ b \in Blocks
        /\ IsFiniteSet(Inodes) /\ ROOT_INO \in Inodes
    BY <1>1, Consts, Zenon
  <2>2. ASSUME NEW T, NEW x \in T, IsFiniteSet(T) PROVE Cardinality(T) - 1 \in Nat
    <3>1. Cardinality(T) \in Nat
      BY <2>2, FS_CardinalityType, Zenon
    <3>2. Cardinality(T) # 0
      BY <2>2, FS_EmptySet, Zenon
    <3> QED BY <3>1, <3>2
  <2>3. Cardinality(Blocks) - 1 \in Nat /\ Cardinality(Inodes) - 1 \in Nat
    BY <2>1, <2>2, Zenon
  <2> QED BY <2>3 DEF SuperT
<1> HIDE DEF b, rs
<1>4. root \in InodeT
  <2> DEFINE n == NewInode("dir")
  <2>1. n \in InodeT
    BY InodesTyped
  <2> HIDE DEF n
  <2>2. 1 \in 0..Limit
    <3>1. PTRS \in Nat /\ DIRECT \in Nat /\ DIRECT > 0 /\ Limit \in Nat
      BY Consts, LimitNat, Zenon
    <3>2. PTRS * PTRS \in Nat
      BY <3>1
    <3> QED BY <3>1, <3>2 DEF Limit
  <2> DEFINE d == [n.direct EXCEPT ![1] = b]
  <2>3. d \in [1..DIRECT -> Ptr]
    BY <1>1, <2>1, Zenon DEF InodeT, Ptr
  <2>4. root = [n EXCEPT !.size = 1, !.direct = d]
    BY DEF n
  <2> HIDE DEF d
  <2>5. [n EXCEPT !.size = 1, !.direct = d] \in InodeT
    BY <2>1, <2>2, <2>3, Zenon DEF InodeT
  <2> QED BY <2>4, <2>5, Zenon
<1> HIDE DEF root
<1>5. ino \in [Inodes -> InodeT]
  BY <1>4, InodesTyped
<1>6. blk \in [Bits -> BlockT]
  <2>1. Records(rs) \in BlockT /\ Zero \in BlockT
    BY <1>2, RecordsBlock, Zenon DEF BlockT
  <2> QED BY <2>1
<1>7. Fresh = VolOf({b}, {ROOT_INO}, sup, Table, ino, blk)
  BY Zenon DEF Fresh, VolOf, b, rs, root
<1>8. {b} \in SUBSET Bits /\ {ROOT_INO} \in SUBSET Inodes /\ Table \in Nat
  <2>1. ROOT_INO \in Inodes
    BY Consts, Zenon
  <2> QED BY <1>1, <2>1 DEF Table
<1> HIDE DEF sup, ino, blk
<1>9. VolOf({b}, {ROOT_INO}, sup, Table, ino, blk) \in VolT
  BY <1>3, <1>5, <1>6, <1>8 DEF VolOf, VolT
<1> QED BY <1>7, <1>9, Zenon

\* Calls, single disk writes, cuts and remounts keep the invariant.
LEMMA NextShaped == Shaped /\ [Next]_vars => Shaped'
<1> SUFFICES ASSUME Shaped, [Next]_vars PROVE Shaped'
  OBVIOUS
<1>1. CASE Call
  <2>1. CASE \E p \in FilePaths, w \in Writes, d \in Data : WriteAt(p, w[1], w[2], d)
    BY <2>1, WriteAtShaped, Zenon
  <2>2. CASE \E p \in FilePaths : Unlink(p)
    BY <2>2, UnlinkShaped, Zenon
  <2>3. CASE \E p, q \in FilePaths : Rename(p, q)
    BY <2>3, RenameShaped, Zenon
  <2>4. CASE \E p \in DirPaths : Mkdir(p)
    BY <2>4, MkdirShaped, Zenon
  <2>5. CASE \E p \in FilePaths : Fsync(p)
    BY <2>5, FsyncShaped, Zenon
  <2> QED BY <1>1, <2>1, <2>2, <2>3, <2>4, <2>5, Zenon DEF Call
<1>2. CASE Step
  <2> DEFINE w == Head(todo)
  <2>1. vol \in VolT /\ todo \in Seq(WriteT) /\ todo # <<>>
    BY <1>2 DEF Shaped, Step
  <2>2. w \in WriteT /\ Tail(todo) \in Seq(WriteT)
    BY <2>1
  <2>3. vol' = Apply(vol, w) /\ mem' = w.mem /\ todo' = Tail(todo)
    BY <1>2, Zenon DEF Step
  <2> HIDE DEF w
  <2>4. Apply(vol, w) \in VolT
    BY <2>1, <2>2, ApplyKeeps, Zenon
  <2>5. w.mem \in MemT
    BY <2>2, WriteMem, Zenon
  <2> QED BY <2>2, <2>3, <2>4, <2>5, Zenon DEF Shaped
<1>3. CASE Cut
  <2> DEFINE w == Head(todo)
  <2>1. vol \in VolT /\ todo \in Seq(WriteT) /\ todo # <<>>
    BY <1>3 DEF Shaped, Cut
  <2>2. w \in WriteT
    BY <2>1
  <2>3. vol' = vol /\ mem' = w.mem /\ todo' = <<>>
    BY <1>3, Zenon DEF Cut
  <2> HIDE DEF w
  <2>4. w.mem \in MemT
    BY <2>2, WriteMem, Zenon
  <2> QED BY <2>1, <2>3, <2>4 DEF Shaped
<1>4. CASE Remount
  <2>1. vol' = vol /\ todo' = todo /\ mem' = Mount(vol)
    BY <1>4, Zenon DEF Remount
  <2>2. Mount(vol) \in MemT
    BY MountTyped, Zenon DEF Shaped
  <2> QED BY <2>1, <2>2, Zenon DEF Shaped
<1>5. CASE UNCHANGED vars
  BY <1>5 DEF vars, Shaped
<1> QED BY <1>1, <1>2, <1>3, <1>4, <1>5, Zenon DEF Next

\* A volume fresh from mkext2 satisfies it.
LEMMA InitShaped == Init => Shaped
<1> SUFFICES ASSUME Init PROVE Shaped
  OBVIOUS
<1>1. vol = Fresh /\ mem = Mount(vol) /\ todo = <<>>
  BY Zenon DEF Init
<1>2. vol \in VolT
  BY <1>1, FreshTyped, Zenon
<1>3. mem \in MemT
  BY <1>1, <1>2, MountTyped, Zenon
<1> QED BY <1>1, <1>2, <1>3 DEF Shaped

\* The invariant implies the property: a directory block is a tiling.
LEMMA ShapedTiled == Shaped => DirTiled
<1> SUFFICES ASSUME Shaped, NEW b \in vol.used, vol.blk[b].kind = "dir"
             PROVE  /\ Covered(vol.blk[b].recs) = Units
                    /\ \A r \in Range(vol.blk[b].recs) :
                           r.len >= 2 /\ (r.ino # 0 => r.len >= Span[r.name])
  BY Zenon DEF DirTiled
<1> DEFINE rs == vol.blk[b].recs
<1>1. vol.blk[b] \in BlockT
  BY DEF Shaped, VolT
<1>2. rs \in Tilings
  BY <1>1, BlockKinds, Zenon
<1> HIDE DEF rs
<1>3. rs \in Seq(RecT) /\ Covered(rs) = Units /\ \A k \in 1..Len(rs) : RecFits(rs[k])
  BY <1>2, Zenon DEF Tilings
<1>4. ASSUME NEW r \in Range(rs)
      PROVE  r.len >= 2 /\ (r.ino # 0 => r.len >= Span[r.name])
  <2>1. PICK k \in 1..Len(rs) : r = rs[k]
    BY <1>3 DEF Range
  <2>2. RecFits(r)
    BY <1>3, <2>1, Zenon
  <2> QED BY <2>2, Zenon DEF RecFits
<1> QED BY <1>3, <1>4, Zenon DEF rs

\* add_dir_entry, unlink, rename: at every write of every call, and after a call
\* that was cut short anywhere, the records of a directory block cover it exactly
\* and each is long enough for its name; the subtraction rec_len - span in
\* add_dir_entry cannot go below zero, as long as no inode is spilt on the block.
THEOREM DirectoriesStayTiled == Spec => []DirTiled
<1>1. Init => Shaped
  BY InitShaped
<1>2. Shaped /\ [Next]_vars => Shaped'
  BY NextShaped
<1>3. Shaped => DirTiled
  BY ShapedTiled
<1> QED BY <1>1, <1>2, <1>3, PTL DEF Spec
=============================================================================
