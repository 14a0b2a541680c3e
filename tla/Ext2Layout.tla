----------------------------- MODULE Ext2Layout -----------------------------
(***************************************************************************)
(* What the helpers of ext2.rs do to a volume, for any number of blocks,   *)
(* inodes and names.  A copy of the driver's state is Good when its volume *)
(* and every disk write of its log have the types below: blocks, pointers  *)
(* and inode numbers in range, and every directory block tiled by its      *)
(* records (Tilings).  put (a write), alloc_block, alloc_inode and the     *)
(* block walk keep a copy Good; splitting, merging and replacing records   *)
(* keep a tiling.  Ext2Proofs uses these for the operations themselves.    *)
(***************************************************************************)
EXTENDS Ext2, FiniteSetTheorems, TLAPS

-----------------------------------------------------------------------------
(* Induction over the naturals *)

\* A set of naturals that is not empty has a least element.
LEMMA LeastNat ==
  ASSUME NEW T, T \subseteq Nat, T # {}
  PROVE  \E x \in T : \A y \in T : x <= y
<1> DEFINE R == {ss \in Nat \X Nat : ss[1] < ss[2]}
<1>1. IsWellFoundedOn(R, Nat)
  BY NatLessThanWellFounded, Zenon DEF OpToRel
<1>2. PICK x \in T : \A y \in T : ~ (<<y, x>> \in R)
  BY <1>1, WFMin, Zenon
<1>3. ASSUME NEW y \in T PROVE x <= y
  <2>1. x \in Nat /\ y \in Nat
    OBVIOUS
  <2>2. ~ (<<y, x>> \in R)
    BY <1>2
  <2>3. ~ (y < x)
    BY <2>1, <2>2
  <2> QED BY <2>1, <2>3
<1> QED BY <1>3

\* A set that contains 0 and the successor of each of its naturals contains them all.
LEMMA Induction ==
  ASSUME NEW S, 0 \in S, \A n \in Nat : n \in S => n + 1 \in S
  PROVE  Nat \subseteq S
<1> DEFINE T == {n \in Nat : n \notin S}
<1>1. ASSUME T # {} PROVE FALSE
  <2>1. PICK x \in T : \A y \in T : x <= y
    BY <1>1, LeastNat, Zenon
  <2>2. x # 0 /\ x - 1 \in Nat
    OBVIOUS
  <2>3. x - 1 \in T
    <3>1. x - 1 \notin S
      BY <2>2
    <3> QED BY <2>2, <3>1
  <2> QED BY <2>1, <2>3
<1> QED BY <1>1

ResolveRun(f, v, p) ==
  /\ f[0] = ROOT_INO
  /\ \A n \in 1..Len(p) : f[n] = LookupIn(v, f[n-1], p[n])
  /\ Resolve(v, p) = f[Len(p)]

\* The inode after each name of a path.
LEMMA ResolveSteps ==
  ASSUME NEW v, NEW p, Len(p) \in Nat
  PROVE  \E f : ResolveRun(f, v, p)
<1> DEFINE Def(g, n) == IF n = 0 THEN ROOT_INO ELSE LookupIn(v, g[n - 1], p[n])
           S == {k \in Nat : \E g : g = [n \in 0..k |-> Def(g, n)]}
           f == CHOOSE g : g = [n \in 0..Len(p) |-> Def(g, n)]
<1>1. 0 \in S
  <2> DEFINE g == [n \in 0..0 |-> ROOT_INO]
  <2>1. g = [n \in 0..0 |-> Def(g, n)]
    OBVIOUS
  <2> QED BY <2>1, Zenon
<1>2. ASSUME NEW k \in Nat, k \in S PROVE k + 1 \in S
  <2>1. PICK g : g = [n \in 0..k |-> Def(g, n)]
    BY <1>2
  <2> DEFINE h == [n \in 0..k+1 |-> IF n <= k THEN g[n] ELSE Def(g, n)]
  <2>2. ASSUME NEW n \in 0..k+1 PROVE h[n] = Def(h, n)
    <3>1. CASE n = 0
      BY <3>1, <2>1
    <3>2. CASE n # 0
      <4>1. n - 1 \in 0..k /\ h[n-1] = g[n-1]
        BY <3>2
      <4>2. n <= k => g[n] = Def(g, n)
        BY <2>1
      <4> QED BY <3>2, <4>1, <4>2
    <3> QED BY <3>1, <3>2
  <2>3. h = [n \in 0..k+1 |-> Def(h, n)]
    BY <2>2
  <2>4. k + 1 \in Nat
    OBVIOUS
  <2> HIDE DEF h
  <2> QED BY <2>3, <2>4, Zenon
<1>3. Nat \subseteq S
  BY <1>1, <1>2, Induction, Zenon
<1>4. f = [n \in 0..Len(p) |-> Def(f, n)]
  BY <1>3, Zenon
<1>5. Resolve(v, p) = f[Len(p)]
  BY Zenon DEF Resolve
<1> HIDE DEF f
<1>6. f[0] = ROOT_INO
  BY <1>4
<1>7. \A n \in 1..Len(p) : f[n] = LookupIn(v, f[n-1], p[n])
  BY <1>4
<1> QED BY <1>5, <1>6, <1>7, Zenon DEF ResolveRun

FillBlocksRun(f, st, first, N, d) ==
  /\ f[0] = st
  /\ \A n \in 1..N : f[n] = Fill(EnsureBlock(f[n-1], first + n - 1), d)
  /\ FillBlocks(st, first, N, d) = f[N]

\* The copy of the volume after each block of a write.
LEMMA FillBlocksSteps ==
  ASSUME NEW st, NEW first, NEW N, NEW d, N \in Nat
  PROVE  \E f : FillBlocksRun(f, st, first, N, d)
<1> DEFINE Def(g, n) == IF n = 0 THEN st ELSE Fill(EnsureBlock(g[n - 1], first + n - 1), d)
           S == {k \in Nat : \E g : g = [n \in 0..k |-> Def(g, n)]}
           f == CHOOSE g : g = [n \in 0..N |-> Def(g, n)]
<1>1. 0 \in S
  <2> DEFINE g == [n \in 0..0 |-> st]
  <2>1. g = [n \in 0..0 |-> Def(g, n)]
    OBVIOUS
  <2> QED BY <2>1, Zenon
<1>2. ASSUME NEW k \in Nat, k \in S PROVE k + 1 \in S
  <2>1. PICK g : g = [n \in 0..k |-> Def(g, n)]
    BY <1>2
  <2> DEFINE h == [n \in 0..k+1 |-> IF n <= k THEN g[n] ELSE Def(g, n)]
  <2>2. ASSUME NEW n \in 0..k+1 PROVE h[n] = Def(h, n)
    <3>1. CASE n = 0
      BY <3>1, <2>1
    <3>2. CASE n # 0
      <4>1. n - 1 \in 0..k /\ h[n-1] = g[n-1]
        BY <3>2
      <4>2. n <= k => g[n] = Def(g, n)
        BY <2>1
      <4> QED BY <3>2, <4>1, <4>2
    <3> QED BY <3>1, <3>2
  <2>3. h = [n \in 0..k+1 |-> Def(h, n)]
    BY <2>2
  <2>4. k + 1 \in Nat
    OBVIOUS
  <2> HIDE DEF h
  <2> QED BY <2>3, <2>4, Zenon
<1>3. Nat \subseteq S
  BY <1>1, <1>2, Induction, Zenon
<1>4. f = [n \in 0..N |-> Def(f, n)]
  BY <1>3, Zenon
<1>5. FillBlocks(st, first, N, d) = f[N]
  BY Zenon DEF FillBlocks
<1> HIDE DEF f
<1>6. f[0] = st
  BY <1>4
<1>7. \A n \in 1..N : f[n] = Fill(EnsureBlock(f[n-1], first + n - 1), d)
  BY <1>4
<1> QED BY <1>5, <1>6, <1>7, Zenon DEF FillBlocksRun

CoveredRun(f, recs) ==
  /\ f[0] = 0
  /\ \A n \in 1..Len(recs) : f[n] = f[n-1] + recs[n].len
  /\ Covered(recs) = f[Len(recs)]

\* The units covered by the first records of a block.
LEMMA CoveredSteps ==
  ASSUME NEW recs, Len(recs) \in Nat
  PROVE  \E f : CoveredRun(f, recs)
<1> DEFINE Def(g, n) == IF n = 0 THEN 0 ELSE g[n - 1] + recs[n].len
           S == {k \in Nat : \E g : g = [n \in 0..k |-> Def(g, n)]}
           f == CHOOSE g : g = [n \in 0..Len(recs) |-> Def(g, n)]
<1>1. 0 \in S
  <2> DEFINE g == [n \in 0..0 |-> 0]
  <2>1. g = [n \in 0..0 |-> Def(g, n)]
    OBVIOUS
  <2> QED BY <2>1, Zenon
<1>2. ASSUME NEW k \in Nat, k \in S PROVE k + 1 \in S
  <2>1. PICK g : g = [n \in 0..k |-> Def(g, n)]
    BY <1>2
  <2> DEFINE h == [n \in 0..k+1 |-> IF n <= k THEN g[n] ELSE Def(g, n)]
  <2>2. ASSUME NEW n \in 0..k+1 PROVE h[n] = Def(h, n)
    <3>1. CASE n = 0
      BY <3>1, <2>1
    <3>2. CASE n # 0
      <4>1. n - 1 \in 0..k /\ h[n-1] = g[n-1]
        BY <3>2
      <4>2. n <= k => g[n] = Def(g, n)
        BY <2>1
      <4> QED BY <3>2, <4>1, <4>2
    <3> QED BY <3>1, <3>2
  <2>3. h = [n \in 0..k+1 |-> Def(h, n)]
    BY <2>2
  <2>4. k + 1 \in Nat
    OBVIOUS
  <2> HIDE DEF h
  <2> QED BY <2>3, <2>4, Zenon
<1>3. Nat \subseteq S
  BY <1>1, <1>2, Induction, Zenon
<1>4. f = [n \in 0..Len(recs) |-> Def(f, n)]
  BY <1>3, Zenon
<1>5. Covered(recs) = f[Len(recs)]
  BY Zenon DEF Covered
<1> HIDE DEF f
<1>6. f[0] = 0
  BY <1>4
<1>7. \A n \in 1..Len(recs) : f[n] = f[n-1] + recs[n].len
  BY <1>4
<1> QED BY <1>5, <1>6, <1>7, Zenon DEF CoveredRun
-----------------------------------------------------------------------------
(* Volumes, writes and copies of the right shape *)

Limit == DIRECT + PTRS + PTRS * PTRS
Ptr == Bits \cup {0}
InodeT == [mode : {"none", "file", "dir"}, size : 0..Limit, direct : [1..DIRECT -> Ptr],
           single : Ptr, double : Ptr]

\* A record as long as its name needs, and a block tiled by such records.
RecT == [ino : Inodes \cup {0}, name : Names \cup {".", "..", ""}, len : Nat]
RecFits(r) ==
  r.len >= 2 /\ (r.ino # 0 => r.name \in Names \cup {".", ".."} /\ r.len >= Span[r.name])
Tilings == {rs \in Seq(RecT) : Covered(rs) = Units /\ \A k \in 1..Len(rs) : RecFits(rs[k])}

Tables == [0..(PTRS - 1) -> Ptr]
BlockT == {Zero, Spilt} \cup {Datum(d) : d \in Data} \cup {Pointers(f) : f \in Tables}
            \cup {Records(rs) : rs \in Tilings}
MemT == [blocks : Nat, inodes : Nat, table : Nat]
SuperT == [blocks : Nat, inodes : Nat]
VolT == [used : SUBSET Bits, taken : SUBSET Inodes, super : SuperT, desc : Nat,
         inode : [Inodes -> InodeT], blk : [Bits -> BlockT]]

\* A disk write that fits the part of the volume it goes to.
WriteT ==
  [part : {"used"}, key : {0}, val : SUBSET Bits, mem : MemT]
    \cup [part : {"taken"}, key : {0}, val : SUBSET Inodes, mem : MemT]
    \cup [part : {"super"}, key : {0}, val : SuperT, mem : MemT]
    \cup [part : {"desc"}, key : {0}, val : Nat, mem : MemT]
    \cup [part : {"inode"}, key : Inodes, val : InodeT, mem : MemT]
    \cup [part : {"blk"}, key : Bits, val : BlockT, mem : MemT]

\* A copy the driver's helpers work on.
Good(st) ==
  /\ st = [vol |-> st.vol, mem |-> st.mem, log |-> st.log, ino |-> st.ino, got |-> st.got,
           ok |-> st.ok]
  /\ st.vol \in VolT /\ st.mem \in MemT /\ st.log \in Seq(WriteT)
  /\ st.ino \in InodeT /\ st.got \in Nat

\* What the constants are, one fact after another.
LEMMA Consts ==
  /\ PTRS \in Nat /\ PTRS > 0 /\ DIRECT \in Nat /\ DIRECT > 0
  /\ Blocks \subseteq Nat /\ Blocks # {} /\ IsFiniteSet(Blocks) /\ \A b \in Blocks : b > Table
  /\ Inodes \subseteq Nat /\ 0 \notin Inodes /\ ROOT_INO \in Inodes /\ IsFiniteSet(Inodes)
  /\ Units \in Nat /\ "" \notin Names /\ "." \notin Names /\ ".." \notin Names
  /\ \A n \in Names \cup {".", ".."} : Span[n] \in 3..Units
  /\ Span["."] + Span[".."] <= Units
<1>1. /\ PTRS \in Nat \ {0} /\ DIRECT \in Nat \ {0}
      /\ Blocks \subseteq Nat \ (0..Table) /\ Inodes \subseteq Nat \ {0, 1}
      /\ Blocks # {} /\ IsFiniteSet(Blocks)
      /\ ROOT_INO \in Inodes /\ IsFiniteSet(Inodes)
      /\ Units \in Nat /\ Names \cap {".", "..", ""} = {}
      /\ Span \in [Names \cup {".", ".."} -> 3..Units] /\ Span["."] + Span[".."] <= Units
  BY Ext2Assumption, Zenon
<1>2. PTRS \in Nat /\ PTRS > 0 /\ DIRECT \in Nat /\ DIRECT > 0
  <2>1. PTRS \in Nat \ {0} /\ DIRECT \in Nat \ {0}
    BY <1>1, Zenon
  <2> QED BY <2>1
<1>3. Blocks \subseteq Nat /\ \A b \in Blocks : b > Table
  <2>1. Blocks \subseteq Nat \ (0..Table)
    BY <1>1, Zenon
  <2> QED BY <2>1 DEF Table
<1>4. Inodes \subseteq Nat /\ 0 \notin Inodes
  BY <1>1, Zenon
<1>5. "" \notin Names /\ "." \notin Names /\ ".." \notin Names
  <2>1. Names \cap {".", "..", ""} = {}
    BY <1>1, Zenon
  <2> QED BY <2>1, Zenon
<1>6. \A n \in Names \cup {".", ".."} : Span[n] \in 3..Units
  <2>1. Span \in [Names \cup {".", ".."} -> 3..Units]
    BY <1>1, Zenon
  <2> QED BY <2>1
<1> QED BY <1>1, <1>2, <1>3, <1>4, <1>5, <1>6, Zenon

\* A finite set of naturals that is not empty has a greatest element, and Max is it.
LEMMA MaxOf ==
  ASSUME NEW T, T \subseteq Nat, T # {}, IsFiniteSet(T)
  PROVE  Max(T) \in T /\ \A y \in T : y <= Max(T)
<1>1. PICK s \in Seq(T) : \A x \in T : \E n \in 1..Len(s) : s[n] = x
  BY DEF IsFiniteSet
<1> DEFINE Top(n) == \E m \in T : \A k \in 1..n : s[k] <= m
           S == {n \in Nat : n <= Len(s) => Top(n)}
<1>2. 0 \in S
  <2>1. PICK m : m \in T
    OBVIOUS
  <2>2. \A k \in 1..0 : s[k] <= m
    OBVIOUS
  <2>3. Top(0)
    BY <2>1, <2>2
  <2> QED BY <2>3
<1>3. ASSUME NEW n \in Nat, n \in S PROVE n + 1 \in S
  <2>1. ASSUME n + 1 <= Len(s) PROVE Top(n + 1)
    <3>1. n + 1 \in 1..Len(s) /\ n <= Len(s) /\ s[n + 1] \in T
      BY <2>1
    <3>2. PICK m \in T : \A k \in 1..n : s[k] <= m
      BY <1>3, <3>1
    <3>3. \A k \in 1..n : s[k] \in Nat
      <4>1. \A k \in 1..Len(s) : s[k] \in T
        OBVIOUS
      <4>2. 1..n \subseteq 1..Len(s)
        BY <3>1
      <4> QED BY <4>1, <4>2, Zenon
    <3>0. m \in Nat /\ s[n + 1] \in Nat
      BY <3>1, Zenon
    <3>4. CASE s[n + 1] <= m
      BY <3>2, <3>4
    <3>5. CASE ~(s[n + 1] <= m)
      <4>1. \A k \in 1..n+1 : s[k] <= s[n + 1]
        BY <3>0, <3>2, <3>3, <3>5
      <4> QED BY <3>1, <4>1, Zenon
    <3> QED BY <3>4, <3>5
  <2> QED BY <2>1
<1> HIDE DEF S
<1>4. Len(s) \in S
  BY <1>2, <1>3, Induction
<1>5. PICK m \in T : \A k \in 1..Len(s) : s[k] <= m
  BY <1>4 DEF S
<1>6. \A y \in T : m >= y
  BY <1>1, <1>5
<1>7. Max(T) \in T /\ \A y \in T : Max(T) >= y
  BY <1>6, Zenon DEF Max
<1> QED BY <1>7

\* Min is the least element of a set of naturals that is not empty.
LEMMA MinOf ==
  ASSUME NEW T, T \subseteq Nat, T # {}
  PROVE  Min(T) \in T /\ \A y \in T : Min(T) <= y
<1>1. \E x \in T : \A y \in T : x <= y
  BY LeastNat, Zenon
<1> QED BY <1>1, Zenon DEF Min

\* Block numbers are positive, and the last bit of the bitmap is behind the volume.
LEMMA BitsOf ==
  /\ Blocks \subseteq Bits /\ Bits \subseteq Nat \ {0} /\ IsFiniteSet(Bits)
  /\ \A b \in Bits \ Blocks : \A c \in Blocks : c < b
<1>1. /\ Blocks \subseteq Nat /\ Blocks # {} /\ IsFiniteSet(Blocks)
      /\ \A b \in Blocks : b # 0
  <2>1. /\ Blocks \subseteq Nat /\ Blocks # {} /\ IsFiniteSet(Blocks)
        /\ \A b \in Blocks : b > Table
    BY Consts, Zenon
  <2> QED BY <2>1 DEF Table
<1>2. Max(Blocks) \in Blocks /\ \A y \in Blocks : y <= Max(Blocks)
  BY <1>1, MaxOf, Zenon
<1>3. IsFiniteSet(Blocks \cup {Max(Blocks) + 1})
  BY <1>1, FS_AddElement
<1>4. Max(Blocks) \in Nat
  BY <1>1, <1>2, Zenon
<1> DEFINE last == Max(Blocks) + 1
<1>5. last \in Nat /\ last > 0 /\ \A c \in Blocks : c < last
  BY <1>1, <1>2, <1>4
<1>6. Bits = Blocks \cup {last} /\ IsFiniteSet(Bits)
  BY <1>3 DEF Bits
<1> HIDE DEF last
<1> QED BY <1>1, <1>5, <1>6

\* The number of blocks an inode can reach.
LEMMA LimitNat == Limit \in Nat
<1>1. PTRS \in Nat /\ DIRECT \in Nat
  BY Consts, Zenon
<1>2. PTRS * PTRS \in Nat
  BY <1>1
<1> QED BY <1>1, <1>2 DEF Limit

\* An index behind the double-indirect block is a table and a place in it.
LEMMA Inside ==
  ASSUME NEW n \in Nat, n < PTRS * PTRS
  PROVE  n \div PTRS \in 0..PTRS-1 /\ n % PTRS \in 0..PTRS-1
<1>1. PTRS \in Nat /\ PTRS > 0
  BY Consts, Zenon
<1> DEFINE q == n \div PTRS
           r == n % PTRS
<1>2. q \in Nat /\ r \in 0..PTRS-1 /\ n = PTRS * q + r
  BY <1>1
<1> HIDE DEF q, r
<1>3. ASSUME q >= PTRS PROVE FALSE
  <2>1. PICK k \in Nat : q = PTRS + k
    BY <1>1, <1>2, <1>3
  <2>2. PTRS * q = PTRS * PTRS + PTRS * k
    BY <1>1, <2>1
  <2>3. PTRS * k \in Nat /\ PTRS * PTRS \in Nat
    BY <1>1
  <2> QED BY <1>1, <1>2, <2>2, <2>3
<1>4. q \in 0..PTRS-1
  BY <1>1, <1>2, <1>3
<1> QED BY <1>2, <1>4 DEF q, r

\* What a block of each kind holds.
LEMMA BlockKinds ==
  ASSUME NEW x \in BlockT
  PROVE  /\ x.kind \in {"zero", "inode", "data", "table", "dir"}
         /\ x.kind = "table" => x.ptr \in Tables
         /\ x.kind = "dir" => x.recs \in Tilings /\ x = Records(x.recs)
<1>1. \/ x = Zero \/ x = Spilt
      \/ \E d \in Data : x = Datum(d)
      \/ \E f \in Tables : x = Pointers(f)
      \/ \E rs \in Tilings : x = Records(rs)
  BY Zenon DEF BlockT
<1> QED BY <1>1 DEF Zero, Spilt, Datum, Pointers, Records
-----------------------------------------------------------------------------
(* One disk write *)

\* A write changes its part of the volume and no other.
LEMMA ApplyUsed ==
  ASSUME NEW v \in VolT, NEW w, w.part = "used", w.key = 0
  PROVE  Apply(v, w) = [used |-> w.val, taken |-> v.taken, super |-> v.super, desc |-> v.desc,
                        inode |-> v.inode, blk |-> v.blk]
<1>1. Apply(v, w) = [v EXCEPT !["used"] = w.val]
  BY Zenon DEF Apply
<1> QED BY <1>1, Zenon DEF VolT

\* The same for the inode bitmap,
LEMMA ApplyTaken ==
  ASSUME NEW v \in VolT, NEW w, w.part = "taken", w.key = 0
  PROVE  Apply(v, w) = [used |-> v.used, taken |-> w.val, super |-> v.super, desc |-> v.desc,
                        inode |-> v.inode, blk |-> v.blk]
<1>1. Apply(v, w) = [v EXCEPT !["taken"] = w.val]
  BY Zenon DEF Apply
<1> QED BY <1>1, Zenon DEF VolT

\* for the superblock,
LEMMA ApplySuper ==
  ASSUME NEW v \in VolT, NEW w, w.part = "super", w.key = 0
  PROVE  Apply(v, w) = [used |-> v.used, taken |-> v.taken, super |-> w.val, desc |-> v.desc,
                        inode |-> v.inode, blk |-> v.blk]
<1>1. Apply(v, w) = [v EXCEPT !["super"] = w.val]
  BY Zenon DEF Apply
<1> QED BY <1>1, Zenon DEF VolT

\* for the group descriptor,
LEMMA ApplyDesc ==
  ASSUME NEW v \in VolT, NEW w, w.part = "desc", w.key = 0
  PROVE  Apply(v, w) = [used |-> v.used, taken |-> v.taken, super |-> v.super, desc |-> w.val,
                        inode |-> v.inode, blk |-> v.blk]
<1>1. Apply(v, w) = [v EXCEPT !["desc"] = w.val]
  BY Zenon DEF Apply
<1> QED BY <1>1, Zenon DEF VolT

\* for an inode
LEMMA ApplyInode ==
  ASSUME NEW v \in VolT, NEW w, w.part = "inode", w.key # 0
  PROVE  Apply(v, w) = [used |-> v.used, taken |-> v.taken, super |-> v.super, desc |-> v.desc,
                        inode |-> [v.inode EXCEPT ![w.key] = w.val], blk |-> v.blk]
<1>1. Apply(v, w) = [v EXCEPT !["inode"][w.key] = w.val]
  BY Zenon DEF Apply
<1> QED BY <1>1, Zenon DEF VolT

\* and for a block.
LEMMA ApplyBlk ==
  ASSUME NEW v \in VolT, NEW w, w.part = "blk", w.key # 0
  PROVE  Apply(v, w) = [used |-> v.used, taken |-> v.taken, super |-> v.super, desc |-> v.desc,
                        inode |-> v.inode, blk |-> [v.blk EXCEPT ![w.key] = w.val]]
<1>1. Apply(v, w) = [v EXCEPT !["blk"][w.key] = w.val]
  BY Zenon DEF Apply
<1> QED BY <1>1 DEF VolT

\* A disk write of the right shape leaves a volume of the right shape.
LEMMA ApplyKeeps ==
  ASSUME NEW v \in VolT, NEW w \in WriteT
  PROVE  Apply(v, w) \in VolT
<1>0. /\ v.used \in SUBSET Bits /\ v.taken \in SUBSET Inodes /\ v.super \in SuperT
      /\ v.desc \in Nat /\ v.inode \in [Inodes -> InodeT] /\ v.blk \in [Bits -> BlockT]
  BY DEF VolT
<1>1. 0 \notin Inodes /\ 0 \notin Bits
  BY Consts, BitsOf, Zenon
<1>2. CASE w \in [part : {"used"}, key : {0}, val : SUBSET Bits, mem : MemT]
  <2>1. w.part = "used" /\ w.key = 0 /\ w.val \in SUBSET Bits
    BY <1>2
  <2> QED BY <1>0, <2>1, ApplyUsed DEF VolT
<1>3. CASE w \in [part : {"taken"}, key : {0}, val : SUBSET Inodes, mem : MemT]
  <2>1. w.part = "taken" /\ w.key = 0 /\ w.val \in SUBSET Inodes
    BY <1>3
  <2> QED BY <1>0, <2>1, ApplyTaken DEF VolT
<1>4. CASE w \in [part : {"super"}, key : {0}, val : SuperT, mem : MemT]
  <2>1. w.part = "super" /\ w.key = 0 /\ w.val \in SuperT
    BY <1>4
  <2> QED BY <1>0, <2>1, ApplySuper DEF VolT
<1>5. CASE w \in [part : {"desc"}, key : {0}, val : Nat, mem : MemT]
  <2>1. w.part = "desc" /\ w.key = 0 /\ w.val \in Nat
    BY <1>5
  <2> QED BY <1>0, <2>1, ApplyDesc DEF VolT
<1>6. CASE w \in [part : {"inode"}, key : Inodes, val : InodeT, mem : MemT]
  <2>1. w.part = "inode" /\ w.key \in Inodes /\ w.key # 0 /\ w.val \in InodeT
    BY <1>1, <1>6
  <2>2. [v.inode EXCEPT ![w.key] = w.val] \in [Inodes -> InodeT]
    BY <1>0, <2>1
  <2> QED BY <1>0, <2>1, <2>2, ApplyInode DEF VolT
<1>7. CASE w \in [part : {"blk"}, key : Bits, val : BlockT, mem : MemT]
  <2>1. w.part = "blk" /\ w.key \in Bits /\ w.key # 0 /\ w.val \in BlockT
    BY <1>1, <1>7
  <2>2. [v.blk EXCEPT ![w.key] = w.val] \in [Bits -> BlockT]
    BY <1>0, <2>1
  <2> QED BY <1>0, <2>1, <2>2, ApplyBlk DEF VolT
<1> QED BY <1>2, <1>3, <1>4, <1>5, <1>6, <1>7, Zenon DEF WriteT

\* A copy with one or two fields replaced.
CopyOf(v, m, l, i, g, o) == [vol |-> v, mem |-> m, log |-> l, ino |-> i, got |-> g, ok |-> o]

\* An update of some fields of a copy, written out: of the volume and the log,
LEMMA CopyVolLog ==
  ASSUME NEW st, Good(st), NEW x, NEW y
  PROVE  [st EXCEPT !.vol = x, !.log = y] = CopyOf(x, st.mem, y, st.ino, st.got, st.ok)
<1> DEFINE v == st.vol
           m == st.mem
           l == st.log
           i == st.ino
           g == st.got
           o == st.ok
<1>1. st = CopyOf(v, m, l, i, g, o)
  BY Zenon DEF Good, CopyOf
<1> HIDE DEF v, m, l, i, g, o
<1>2. [CopyOf(v, m, l, i, g, o) EXCEPT !.vol = x] = CopyOf(x, m, l, i, g, o)
  BY DEF CopyOf
<1>3. [CopyOf(x, m, l, i, g, o) EXCEPT !.log = y] = CopyOf(x, m, y, i, g, o)
  BY DEF CopyOf
<1> QED BY <1>1, <1>2, <1>3, Zenon DEF v, m, l, i, g, o

\* of the memory,
LEMMA CopyMem ==
  ASSUME NEW st, Good(st), NEW x
  PROVE  [st EXCEPT !.mem = x] = CopyOf(st.vol, x, st.log, st.ino, st.got, st.ok)
<1> DEFINE v == st.vol
           m == st.mem
           l == st.log
           i == st.ino
           g == st.got
           o == st.ok
<1>1. st = CopyOf(v, m, l, i, g, o)
  BY Zenon DEF Good, CopyOf
<1> HIDE DEF v, m, l, i, g, o
<1>2. [CopyOf(v, m, l, i, g, o) EXCEPT !.mem = x] = CopyOf(v, x, l, i, g, o)
  BY DEF CopyOf
<1> QED BY <1>1, <1>2, Zenon DEF v, m, l, i, g, o

\* of the memory and the block in hand,
LEMMA CopyMemGot ==
  ASSUME NEW st, Good(st), NEW x, NEW y
  PROVE  [st EXCEPT !.mem = x, !.got = y] = CopyOf(st.vol, x, st.log, st.ino, y, st.ok)
<1> DEFINE v == st.vol
           m == st.mem
           l == st.log
           i == st.ino
           g == st.got
           o == st.ok
<1>1. st = CopyOf(v, m, l, i, g, o)
  BY Zenon DEF Good, CopyOf
<1> HIDE DEF v, m, l, i, g, o
<1>2. [CopyOf(v, m, l, i, g, o) EXCEPT !.mem = x] = CopyOf(v, x, l, i, g, o)
  BY DEF CopyOf
<1>3. [CopyOf(v, x, l, i, g, o) EXCEPT !.got = y] = CopyOf(v, x, l, i, y, o)
  BY DEF CopyOf
<1> QED BY <1>1, <1>2, <1>3, Zenon DEF v, m, l, i, g, o

\* of the inode in hand,
LEMMA CopyIno ==
  ASSUME NEW st, Good(st), NEW x
  PROVE  [st EXCEPT !.ino = x] = CopyOf(st.vol, st.mem, st.log, x, st.got, st.ok)
<1> DEFINE v == st.vol
           m == st.mem
           l == st.log
           i == st.ino
           g == st.got
           o == st.ok
<1>1. st = CopyOf(v, m, l, i, g, o)
  BY Zenon DEF Good, CopyOf
<1> HIDE DEF v, m, l, i, g, o
<1>2. [CopyOf(v, m, l, i, g, o) EXCEPT !.ino = x] = CopyOf(v, m, l, x, g, o)
  BY DEF CopyOf
<1> QED BY <1>1, <1>2, Zenon DEF v, m, l, i, g, o

\* of the block in hand,
LEMMA CopyGot ==
  ASSUME NEW st, Good(st), NEW x
  PROVE  [st EXCEPT !.got = x] = CopyOf(st.vol, st.mem, st.log, st.ino, x, st.ok)
<1> DEFINE v == st.vol
           m == st.mem
           l == st.log
           i == st.ino
           g == st.got
           o == st.ok
<1>1. st = CopyOf(v, m, l, i, g, o)
  BY Zenon DEF Good, CopyOf
<1> HIDE DEF v, m, l, i, g, o
<1>2. [CopyOf(v, m, l, i, g, o) EXCEPT !.got = x] = CopyOf(v, m, l, i, x, o)
  BY DEF CopyOf
<1> QED BY <1>1, <1>2, Zenon DEF v, m, l, i, g, o

\* of both
LEMMA CopyGotIno ==
  ASSUME NEW st, Good(st), NEW x, NEW y
  PROVE  [st EXCEPT !.got = x, !.ino = y] = CopyOf(st.vol, st.mem, st.log, y, x, st.ok)
<1> DEFINE v == st.vol
           m == st.mem
           l == st.log
           i == st.ino
           g == st.got
           o == st.ok
<1>1. st = CopyOf(v, m, l, i, g, o)
  BY Zenon DEF Good, CopyOf
<1> HIDE DEF v, m, l, i, g, o
<1>2. [CopyOf(v, m, l, i, g, o) EXCEPT !.got = x] = CopyOf(v, m, l, i, x, o)
  BY DEF CopyOf
<1>3. [CopyOf(v, m, l, i, x, o) EXCEPT !.ino = y] = CopyOf(v, m, l, y, x, o)
  BY DEF CopyOf
<1> QED BY <1>1, <1>2, <1>3, Zenon DEF v, m, l, i, g, o

\* and of the outcome.
LEMMA CopyOk ==
  ASSUME NEW st, Good(st), NEW x
  PROVE  [st EXCEPT !.ok = x] = CopyOf(st.vol, st.mem, st.log, st.ino, st.got, x)
<1> DEFINE v == st.vol
           m == st.mem
           l == st.log
           i == st.ino
           g == st.got
           o == st.ok
<1>1. st = CopyOf(v, m, l, i, g, o)
  BY Zenon DEF Good, CopyOf
<1> HIDE DEF v, m, l, i, g, o
<1>2. [CopyOf(v, m, l, i, g, o) EXCEPT !.ok = x] = CopyOf(v, m, l, i, g, x)
  BY DEF CopyOf
<1> QED BY <1>1, <1>2, Zenon DEF v, m, l, i, g, o

\* Logging a write leaves the rest of the copy alone.
LEMMA PutIs ==
  ASSUME NEW st, Good(st), NEW part, NEW key, NEW val
  PROVE  LET w == [part |-> part, key |-> key, val |-> val, mem |-> st.mem]
         IN  Put(st, part, key, val) =
               [vol |-> Apply(st.vol, w), mem |-> st.mem, log |-> Append(st.log, w),
                ino |-> st.ino, got |-> st.got, ok |-> st.ok]
<1> DEFINE w == [part |-> part, key |-> key, val |-> val, mem |-> st.mem]
<1>1. Put(st, part, key, val) = [st EXCEPT !.vol = Apply(st.vol, w), !.log = Append(st.log, w)]
  BY Zenon DEF Put, Log
<1> DEFINE a == Apply(st.vol, w)
           l == Append(st.log, w)
<1>2. Put(st, part, key, val) = [st EXCEPT !.vol = a, !.log = l]
  BY <1>1
<1> HIDE DEF a, l
<1>3. [st EXCEPT !.vol = a, !.log = l] = CopyOf(a, st.mem, l, st.ino, st.got, st.ok)
  BY CopyVolLog, Zenon
<1> QED BY <1>2, <1>3, Zenon DEF CopyOf, a, l

\* A write of the right shape keeps the copy good.
LEMMA PutGood ==
  ASSUME NEW st, Good(st), NEW part, NEW key, NEW val,
         [part |-> part, key |-> key, val |-> val, mem |-> st.mem] \in WriteT
  PROVE  Good(Put(st, part, key, val))
<1> DEFINE w == [part |-> part, key |-> key, val |-> val, mem |-> st.mem]
           t == Put(st, part, key, val)
<1>1. t = [vol |-> Apply(st.vol, w), mem |-> st.mem, log |-> Append(st.log, w),
           ino |-> st.ino, got |-> st.got, ok |-> st.ok]
  BY PutIs
<1>2. /\ st.vol \in VolT /\ st.mem \in MemT /\ st.log \in Seq(WriteT)
      /\ st.ino \in InodeT /\ st.got \in Nat
  BY Zenon DEF Good
<1>3. w \in WriteT
  OBVIOUS
<1> HIDE DEF w, t
<1>4. Apply(st.vol, w) \in VolT /\ Append(st.log, w) \in Seq(WriteT)
  BY <1>2, <1>3, ApplyKeeps
<1>5. Good(t)
  BY <1>1, <1>2, <1>4 DEF Good
<1> QED BY <1>5 DEF t

\* The writes a helper issues, part by part.
Alike(t, st) == t.mem = st.mem /\ t.ino = st.ino /\ t.got = st.got /\ t.ok = st.ok
VolOf(u, tk, s, d, i, b) ==
  [used |-> u, taken |-> tk, super |-> s, desc |-> d, inode |-> i, blk |-> b]

\* The fields of a volume written out.
LEMMA VolFields ==
  ASSUME NEW u, NEW tk, NEW s, NEW d, NEW i, NEW b, NEW v, v = VolOf(u, tk, s, d, i, b)
  PROVE  /\ v.used = u /\ v.taken = tk /\ v.super = s /\ v.desc = d /\ v.inode = i
         /\ v.blk = b
BY DEF VolOf

\* A write of the block bitmap,
LEMMA PutUsed ==
  ASSUME NEW st, Good(st), NEW u \in SUBSET Bits
  PROVE  LET t == Put(st, "used", 0, u)
         IN  /\ Good(t) /\ Alike(t, st)
             /\ t.vol = VolOf(u, st.vol.taken, st.vol.super, st.vol.desc, st.vol.inode, st.vol.blk)
<1> DEFINE w == [part |-> "used", key |-> 0, val |-> u, mem |-> st.mem]
           t == Put(st, "used", 0, u)
<1>1. st.mem \in MemT /\ st.vol \in VolT
  BY Zenon DEF Good
<1>2. w.part = "used" /\ w.key = 0 /\ w.val = u /\ w \in WriteT
  BY <1>1 DEF WriteT
<1>3. Good(t)
  BY <1>2, PutGood, Zenon
<1>4. t = [vol |-> Apply(st.vol, w), mem |-> st.mem, log |-> Append(st.log, w),
           ino |-> st.ino, got |-> st.got, ok |-> st.ok]
  BY PutIs
<1> HIDE DEF w
<1>5. Apply(st.vol, w) = VolOf(u, st.vol.taken, st.vol.super, st.vol.desc, st.vol.inode, st.vol.blk)
  BY <1>1, <1>2, ApplyUsed, Zenon DEF VolOf
<1> HIDE DEF t
<1>6. Alike(t, st) /\ t.vol = Apply(st.vol, w)
  BY <1>4 DEF Alike
<1> QED BY <1>3, <1>5, <1>6, Zenon DEF t

\* of the inode bitmap,
LEMMA PutTaken ==
  ASSUME NEW st, Good(st), NEW u \in SUBSET Inodes
  PROVE  LET t == Put(st, "taken", 0, u)
         IN  /\ Good(t) /\ Alike(t, st)
             /\ t.vol = VolOf(st.vol.used, u, st.vol.super, st.vol.desc, st.vol.inode, st.vol.blk)
<1> DEFINE w == [part |-> "taken", key |-> 0, val |-> u, mem |-> st.mem]
           t == Put(st, "taken", 0, u)
<1>1. st.mem \in MemT /\ st.vol \in VolT
  BY Zenon DEF Good
<1>2. w.part = "taken" /\ w.key = 0 /\ w.val = u /\ w \in WriteT
  BY <1>1 DEF WriteT
<1>3. Good(t)
  BY <1>2, PutGood, Zenon
<1>4. t = [vol |-> Apply(st.vol, w), mem |-> st.mem, log |-> Append(st.log, w),
           ino |-> st.ino, got |-> st.got, ok |-> st.ok]
  BY PutIs
<1> HIDE DEF w
<1>5. Apply(st.vol, w) = VolOf(st.vol.used, u, st.vol.super, st.vol.desc, st.vol.inode, st.vol.blk)
  BY <1>1, <1>2, ApplyTaken, Zenon DEF VolOf
<1> HIDE DEF t
<1>6. Alike(t, st) /\ t.vol = Apply(st.vol, w)
  BY <1>4 DEF Alike
<1> QED BY <1>3, <1>5, <1>6, Zenon DEF t

\* of the superblock,
LEMMA PutSuper ==
  ASSUME NEW st, Good(st), NEW u \in SuperT
  PROVE  LET t == Put(st, "super", 0, u)
         IN  /\ Good(t) /\ Alike(t, st)
             /\ t.vol = VolOf(st.vol.used, st.vol.taken, u, st.vol.desc, st.vol.inode, st.vol.blk)
<1> DEFINE w == [part |-> "super", key |-> 0, val |-> u, mem |-> st.mem]
           t == Put(st, "super", 0, u)
<1>1. st.mem \in MemT /\ st.vol \in VolT
  BY Zenon DEF Good
<1>2. w.part = "super" /\ w.key = 0 /\ w.val = u /\ w \in WriteT
  BY <1>1 DEF WriteT
<1>3. Good(t)
  BY <1>2, PutGood, Zenon
<1>4. t = [vol |-> Apply(st.vol, w), mem |-> st.mem, log |-> Append(st.log, w),
           ino |-> st.ino, got |-> st.got, ok |-> st.ok]
  BY PutIs
<1> HIDE DEF w
<1>5. Apply(st.vol, w) = VolOf(st.vol.used, st.vol.taken, u, st.vol.desc, st.vol.inode, st.vol.blk)
  BY <1>1, <1>2, ApplySuper, Zenon DEF VolOf
<1> HIDE DEF t
<1>6. Alike(t, st) /\ t.vol = Apply(st.vol, w)
  BY <1>4 DEF Alike
<1> QED BY <1>3, <1>5, <1>6, Zenon DEF t

\* of the group descriptor,
LEMMA PutDesc ==
  ASSUME NEW st, Good(st), NEW u \in Nat
  PROVE  LET t == Put(st, "desc", 0, u)
         IN  /\ Good(t) /\ Alike(t, st)
             /\ t.vol = VolOf(st.vol.used, st.vol.taken, st.vol.super, u, st.vol.inode, st.vol.blk)
<1> DEFINE w == [part |-> "desc", key |-> 0, val |-> u, mem |-> st.mem]
           t == Put(st, "desc", 0, u)
<1>1. st.mem \in MemT /\ st.vol \in VolT
  BY Zenon DEF Good
<1>2. w.part = "desc" /\ w.key = 0 /\ w.val = u /\ w \in WriteT
  BY <1>1 DEF WriteT
<1>3. Good(t)
  BY <1>2, PutGood, Zenon
<1>4. t = [vol |-> Apply(st.vol, w), mem |-> st.mem, log |-> Append(st.log, w),
           ino |-> st.ino, got |-> st.got, ok |-> st.ok]
  BY PutIs
<1> HIDE DEF w
<1>5. Apply(st.vol, w) = VolOf(st.vol.used, st.vol.taken, st.vol.super, u, st.vol.inode, st.vol.blk)
  BY <1>1, <1>2, ApplyDesc, Zenon DEF VolOf
<1> HIDE DEF t
<1>6. Alike(t, st) /\ t.vol = Apply(st.vol, w)
  BY <1>4 DEF Alike
<1> QED BY <1>3, <1>5, <1>6, Zenon DEF t

\* of an inode
LEMMA PutInode ==
  ASSUME NEW st, Good(st), NEW k \in Inodes, NEW u \in InodeT
  PROVE  LET t == Put(st, "inode", k, u)
         IN  /\ Good(t) /\ Alike(t, st)
             /\ t.vol = VolOf(st.vol.used, st.vol.taken, st.vol.super, st.vol.desc, [st.vol.inode EXCEPT ![k] = u], st.vol.blk)
<1> DEFINE w == [part |-> "inode", key |-> k, val |-> u, mem |-> st.mem]
           t == Put(st, "inode", k, u)
<1>1. st.mem \in MemT /\ st.vol \in VolT
  BY Zenon DEF Good
<1>2. w.part = "inode" /\ w.key = k /\ w.val = u /\ w \in WriteT
  BY <1>1 DEF WriteT
<1>7. w.key # 0
  BY <1>2, Consts, Zenon
<1>3. Good(t)
  BY <1>2, PutGood, Zenon
<1>4. t = [vol |-> Apply(st.vol, w), mem |-> st.mem, log |-> Append(st.log, w),
           ino |-> st.ino, got |-> st.got, ok |-> st.ok]
  BY PutIs
<1> HIDE DEF w
<1>5. Apply(st.vol, w) = VolOf(st.vol.used, st.vol.taken, st.vol.super, st.vol.desc, [st.vol.inode EXCEPT ![k] = u], st.vol.blk)
  BY <1>1, <1>2, <1>7, ApplyInode, Zenon DEF VolOf
<1> HIDE DEF t
<1>6. Alike(t, st) /\ t.vol = Apply(st.vol, w)
  BY <1>4 DEF Alike
<1> QED BY <1>3, <1>5, <1>6, Zenon DEF t

\* and of a block keep the copy good and change that part only.
LEMMA PutBlk ==
  ASSUME NEW st, Good(st), NEW k \in Bits, NEW u \in BlockT
  PROVE  LET t == Put(st, "blk", k, u)
         IN  /\ Good(t) /\ Alike(t, st)
             /\ t.vol = VolOf(st.vol.used, st.vol.taken, st.vol.super, st.vol.desc, st.vol.inode, [st.vol.blk EXCEPT ![k] = u])
<1> DEFINE w == [part |-> "blk", key |-> k, val |-> u, mem |-> st.mem]
           t == Put(st, "blk", k, u)
<1>1. st.mem \in MemT /\ st.vol \in VolT
  BY Zenon DEF Good
<1>2. w.part = "blk" /\ w.key = k /\ w.val = u /\ w \in WriteT
  BY <1>1 DEF WriteT
<1>7. w.key # 0
  BY <1>2, BitsOf
<1>3. Good(t)
  BY <1>2, PutGood, Zenon
<1>4. t = [vol |-> Apply(st.vol, w), mem |-> st.mem, log |-> Append(st.log, w),
           ino |-> st.ino, got |-> st.got, ok |-> st.ok]
  BY PutIs
<1> HIDE DEF w
<1>5. Apply(st.vol, w) = VolOf(st.vol.used, st.vol.taken, st.vol.super, st.vol.desc, st.vol.inode, [st.vol.blk EXCEPT ![k] = u])
  BY <1>1, <1>2, <1>7, ApplyBlk, Zenon DEF VolOf
<1> HIDE DEF t
<1>6. Alike(t, st) /\ t.vol = Apply(st.vol, w)
  BY <1>4 DEF Alike
<1> QED BY <1>3, <1>5, <1>6, Zenon DEF t

-----------------------------------------------------------------------------
(* Allocation *)

\* The same field by field.
LEMMA PutUsedIs ==
  ASSUME NEW st, Good(st), NEW u \in SUBSET Bits, NEW t, t = Put(st, "used", 0, u)
  PROVE  /\ Good(t) /\ t.mem = st.mem /\ t.ino = st.ino /\ t.got = st.got /\ t.ok = st.ok
         /\ t.vol.used = u /\ t.vol.taken = st.vol.taken /\ t.vol.super = st.vol.super
         /\ t.vol.desc = st.vol.desc
         /\ t.vol.inode = st.vol.inode /\ t.vol.blk = st.vol.blk
<1>1. /\ Good(t) /\ Alike(t, st)
      /\ t.vol = VolOf(u, st.vol.taken, st.vol.super, st.vol.desc, st.vol.inode, st.vol.blk)
  BY PutUsed, Zenon
<1>2. /\ t.vol.used = u /\ t.vol.taken = st.vol.taken /\ t.vol.super = st.vol.super
      /\ t.vol.desc = st.vol.desc /\ t.vol.inode = st.vol.inode /\ t.vol.blk = st.vol.blk
  <2> DEFINE v == t.vol
             a == u
  <2> HIDE DEF v, a
  <2>1. v = VolOf(a, st.vol.taken, st.vol.super, st.vol.desc, st.vol.inode, st.vol.blk)
    BY <1>1, Zenon DEF v, a
  <2>2. /\ v.used = a /\ v.taken = st.vol.taken /\ v.super = st.vol.super /\ v.desc = st.vol.desc
        /\ v.inode = st.vol.inode /\ v.blk = st.vol.blk
    BY <2>1, VolFields
  <2> QED BY <2>2, Zenon DEF v, a
<1> QED BY <1>1, <1>2, Zenon DEF Alike

\* ... for the inode bitmap,
LEMMA PutTakenIs ==
  ASSUME NEW st, Good(st), NEW u \in SUBSET Inodes, NEW t, t = Put(st, "taken", 0, u)
  PROVE  /\ Good(t) /\ t.mem = st.mem /\ t.ino = st.ino /\ t.got = st.got /\ t.ok = st.ok
         /\ t.vol.used = st.vol.used /\ t.vol.taken = u /\ t.vol.super = st.vol.super
         /\ t.vol.desc = st.vol.desc
         /\ t.vol.inode = st.vol.inode /\ t.vol.blk = st.vol.blk
<1>1. /\ Good(t) /\ Alike(t, st)
      /\ t.vol = VolOf(st.vol.used, u, st.vol.super, st.vol.desc, st.vol.inode, st.vol.blk)
  BY PutTaken, Zenon
<1>2. /\ t.vol.used = st.vol.used /\ t.vol.taken = u /\ t.vol.super = st.vol.super
      /\ t.vol.desc = st.vol.desc /\ t.vol.inode = st.vol.inode /\ t.vol.blk = st.vol.blk
  <2> DEFINE v == t.vol
             a == u
  <2> HIDE DEF v, a
  <2>1. v = VolOf(st.vol.used, a, st.vol.super, st.vol.desc, st.vol.inode, st.vol.blk)
    BY <1>1, Zenon DEF v, a
  <2>2. /\ v.used = st.vol.used /\ v.taken = a /\ v.super = st.vol.super /\ v.desc = st.vol.desc
        /\ v.inode = st.vol.inode /\ v.blk = st.vol.blk
    BY <2>1, VolFields
  <2> QED BY <2>2, Zenon DEF v, a
<1> QED BY <1>1, <1>2, Zenon DEF Alike

\* for an inode
LEMMA PutInodeIs ==
  ASSUME NEW st, Good(st), NEW k \in Inodes, NEW u \in InodeT, NEW t, t = Put(st, "inode", k, u)
  PROVE  /\ Good(t) /\ t.mem = st.mem /\ t.ino = st.ino /\ t.got = st.got /\ t.ok = st.ok
         /\ t.vol.used = st.vol.used /\ t.vol.taken = st.vol.taken /\ t.vol.super = st.vol.super
         /\ t.vol.desc = st.vol.desc
         /\ t.vol.inode = [st.vol.inode EXCEPT ![k] = u] /\ t.vol.blk = st.vol.blk
<1>1. /\ Good(t) /\ Alike(t, st)
      /\ t.vol = VolOf(st.vol.used, st.vol.taken, st.vol.super, st.vol.desc, [st.vol.inode EXCEPT ![k] = u], st.vol.blk)
  BY PutInode, Zenon
<1>2. /\ t.vol.used = st.vol.used /\ t.vol.taken = st.vol.taken /\ t.vol.super = st.vol.super
      /\ t.vol.desc = st.vol.desc /\ t.vol.inode = [st.vol.inode EXCEPT ![k] = u] /\ t.vol.blk = st.vol.blk
  <2> DEFINE v == t.vol
             a == [st.vol.inode EXCEPT ![k] = u]
  <2> HIDE DEF v, a
  <2>1. v = VolOf(st.vol.used, st.vol.taken, st.vol.super, st.vol.desc, a, st.vol.blk)
    BY <1>1, Zenon DEF v, a
  <2>2. /\ v.used = st.vol.used /\ v.taken = st.vol.taken /\ v.super = st.vol.super /\ v.desc = st.vol.desc
        /\ v.inode = a /\ v.blk = st.vol.blk
    BY <2>1, VolFields
  <2> QED BY <2>2, Zenon DEF v, a
<1> QED BY <1>1, <1>2, Zenon DEF Alike

\* and for a block.
LEMMA PutBlkIs ==
  ASSUME NEW st, Good(st), NEW k \in Bits, NEW u \in BlockT, NEW t, t = Put(st, "blk", k, u)
  PROVE  /\ Good(t) /\ t.mem = st.mem /\ t.ino = st.ino /\ t.got = st.got /\ t.ok = st.ok
         /\ t.vol.used = st.vol.used /\ t.vol.taken = st.vol.taken /\ t.vol.super = st.vol.super
         /\ t.vol.desc = st.vol.desc
         /\ t.vol.inode = st.vol.inode /\ t.vol.blk = [st.vol.blk EXCEPT ![k] = u]
<1>1. /\ Good(t) /\ Alike(t, st)
      /\ t.vol = VolOf(st.vol.used, st.vol.taken, st.vol.super, st.vol.desc, st.vol.inode, [st.vol.blk EXCEPT ![k] = u])
  BY PutBlk, Zenon
<1>2. /\ t.vol.used = st.vol.used /\ t.vol.taken = st.vol.taken /\ t.vol.super = st.vol.super
      /\ t.vol.desc = st.vol.desc /\ t.vol.inode = st.vol.inode /\ t.vol.blk = [st.vol.blk EXCEPT ![k] = u]
  <2> DEFINE v == t.vol
             a == [st.vol.blk EXCEPT ![k] = u]
  <2> HIDE DEF v, a
  <2>1. v = VolOf(st.vol.used, st.vol.taken, st.vol.super, st.vol.desc, st.vol.inode, a)
    BY <1>1, Zenon DEF v, a
  <2>2. /\ v.used = st.vol.used /\ v.taken = st.vol.taken /\ v.super = st.vol.super /\ v.desc = st.vol.desc
        /\ v.inode = st.vol.inode /\ v.blk = a
    BY <2>1, VolFields
  <2> QED BY <2>2, Zenon DEF v, a
<1> QED BY <1>1, <1>2, Zenon DEF Alike

\* A copy made of parts of the right shape is good.
LEMMA CopyGood ==
  ASSUME NEW v \in VolT, NEW m \in MemT, NEW l \in Seq(WriteT), NEW i \in InodeT, NEW g \in Nat,
         NEW o, NEW t, t = CopyOf(v, m, l, i, g, o)
  PROVE  /\ Good(t) /\ t.vol = v /\ t.mem = m /\ t.log = l /\ t.ino = i /\ t.got = g
         /\ t.ok = o
<1>1. /\ t.vol = v /\ t.mem = m /\ t.log = l /\ t.ino = i /\ t.got = g
  BY DEF CopyOf
<1>2. t.ok = o
  BY DEF CopyOf
<1>3. t = [vol |-> t.vol, mem |-> t.mem, log |-> t.log, ino |-> t.ino, got |-> t.got, ok |-> t.ok]
  BY <1>1, <1>2, Zenon DEF CopyOf
<1> QED BY <1>1, <1>2, <1>3, Zenon DEF Good

\* A helper that returns NoSpace leaves the rest of the copy alone.
LEMMA Refused ==
  ASSUME NEW st, Good(st)
  PROVE  LET t == [st EXCEPT !.ok = FALSE]
         IN  /\ Good(t) /\ ~t.ok /\ t.vol = st.vol /\ t.mem = st.mem /\ t.log = st.log
             /\ t.ino = st.ino /\ t.got = st.got
<1> DEFINE o == FALSE
           t == [st EXCEPT !.ok = o]
<1>0. /\ st.vol \in VolT /\ st.mem \in MemT /\ st.log \in Seq(WriteT) /\ st.ino \in InodeT
      /\ st.got \in Nat
  BY Zenon DEF Good
<1>1. ~o
  OBVIOUS
<1> HIDE DEF o
<1>2. t = CopyOf(st.vol, st.mem, st.log, st.ino, st.got, o)
  BY CopyOk, Zenon
<1> HIDE DEF t
<1>3. /\ Good(t) /\ t.vol = st.vol /\ t.mem = st.mem /\ t.log = st.log /\ t.ino = st.ino
      /\ t.got = st.got /\ t.ok = o
  BY <1>0, <1>2, CopyGood
<1> QED BY <1>1, <1>3, Zenon DEF t, o

\* sync_free_counts writes the superblock and the descriptor, nothing else.
Same(t, st) ==
  /\ t.vol.used = st.vol.used /\ t.vol.taken = st.vol.taken
  /\ t.vol.inode = st.vol.inode /\ t.vol.blk = st.vol.blk

\* sync_free_counts writes counts and nothing else.
LEMMA SyncKeeps ==
  ASSUME NEW st, Good(st)
  PROVE  LET t == SyncFreeCounts(st) IN Good(t) /\ Alike(t, st) /\ Same(t, st)
<1> DEFINE c == [blocks |-> st.mem.blocks, inodes |-> st.mem.inodes]
           a == Put(st, "super", 0, c)
           d == (st.mem.blocks % 2^16) + 2^16 * (st.mem.inodes % 2^16)
           t == Put(a, "desc", 0, d)
<1>0. st.mem \in MemT
  BY Zenon DEF Good
<1>1. c \in SuperT
  BY <1>0 DEF MemT, SuperT
<1>2. d \in Nat
  <2>1. st.mem.blocks \in Nat /\ st.mem.inodes \in Nat
    BY <1>0 DEF MemT
  <2> QED BY <2>1
<1>3. SyncFreeCounts(st) = t
  BY Zenon DEF SyncFreeCounts
<1> HIDE DEF c, d
<1>4. /\ Good(a) /\ Alike(a, st)
      /\ a.vol = VolOf(st.vol.used, st.vol.taken, c, st.vol.desc, st.vol.inode, st.vol.blk)
  BY <1>1, PutSuper, Zenon
<1> HIDE DEF a
<1>5. /\ Good(t) /\ Alike(t, a)
      /\ t.vol = VolOf(a.vol.used, a.vol.taken, a.vol.super, d, a.vol.inode, a.vol.blk)
  BY <1>2, <1>4, PutDesc, Zenon
<1> HIDE DEF t
<1>6. Same(a, st)
  BY <1>4, VolFields DEF Same
<1>7. Same(t, a)
  BY <1>5, VolFields DEF Same
<1>8. Same(t, st) /\ Alike(t, st)
  BY <1>4, <1>5, <1>6, <1>7, Zenon DEF Same, Alike
<1> QED BY <1>3, <1>5, <1>8, Zenon

\* alloc_block returns a block that was free, marks it and clears it, or
\* changes nothing.
LEMMA AllocBlockKeeps ==
  ASSUME NEW st, Good(st)
  PROVE  LET t == AllocBlock(st)
         IN  /\ Good(t) /\ t.ino = st.ino
             /\ t.ok => /\ st.ok /\ t.got \in Bits \ st.vol.used
                        /\ st.mem.blocks # 0 /\ t.mem.blocks = st.mem.blocks - 1
                        /\ t.vol.used = st.vol.used \cup {t.got} /\ t.vol.taken = st.vol.taken
                        /\ t.vol.inode = st.vol.inode
                        /\ t.vol.blk = [st.vol.blk EXCEPT ![t.got] = Zero]
             /\ ~t.ok => t.vol = st.vol /\ t.mem = st.mem /\ t.log = st.log
<1> DEFINE free == Bits \ st.vol.used
           t == AllocBlock(st)
<1>0. /\ st.vol \in VolT /\ st.mem \in MemT /\ st.log \in Seq(WriteT) /\ st.ino \in InodeT
      /\ st.got \in Nat
  BY Zenon DEF Good
<1>1. CASE ~st.ok \/ st.mem.blocks = 0 \/ free = {}
  <2>1. t = [st EXCEPT !.ok = FALSE]
    BY <1>1, Zenon DEF AllocBlock
  <2>2. /\ Good(t) /\ ~t.ok /\ t.vol = st.vol /\ t.mem = st.mem /\ t.log = st.log
        /\ t.ino = st.ino
    BY <2>1, Refused, Zenon
  <2> HIDE DEF t
  <2> QED BY <2>2, Zenon DEF t
<1>2. CASE ~(~st.ok \/ st.mem.blocks = 0 \/ free = {})
  <2> DEFINE b == Min(free)
             a == Put(st, "used", 0, st.vol.used \cup {b})
             m == [a.mem EXCEPT !.blocks = @ - 1]
             c == [a EXCEPT !.mem = m, !.got = b]
             d == SyncFreeCounts(c)
  <2>1. t = Put(d, "blk", b, Zero)
    <3>1. t = Put(SyncFreeCounts([a EXCEPT !.mem.blocks = @ - 1, !.got = b]), "blk", b, Zero)
      BY <1>2, Zenon DEF AllocBlock
    <3>2. [a EXCEPT !.mem.blocks = @ - 1, !.got = b] = c
      OBVIOUS
    <3> QED BY <3>1, <3>2, Zenon
  <2>2. b \in Bits \ st.vol.used /\ b \in Nat
    <3>1. free \subseteq Nat /\ free # {}
      BY <1>2, BitsOf, Zenon
    <3> HIDE DEF free
    <3>2. Min(free) \in free
      BY <3>1, MinOf, Zenon
    <3> QED BY <3>1, <3>2 DEF free
  <2> HIDE DEF b
  <2>3. st.vol.used \cup {b} \in SUBSET Bits
    BY <1>0, <2>2 DEF VolT
  <2>4. /\ Good(a) /\ Alike(a, st)
        /\ a.vol = VolOf(st.vol.used \cup {b}, st.vol.taken, st.vol.super, st.vol.desc,
                         st.vol.inode, st.vol.blk)
    BY <2>3, PutUsed, Zenon
  <2> HIDE DEF a
  <2>5. /\ a.vol.used = st.vol.used \cup {b} /\ a.vol.taken = st.vol.taken
        /\ a.vol.inode = st.vol.inode /\ a.vol.blk = st.vol.blk
    BY <2>4, VolFields
  <2>6. m \in MemT /\ m.blocks = st.mem.blocks - 1
    <3>1. a.mem = st.mem /\ st.mem.blocks # 0
      BY <1>2, <2>4, Zenon DEF Alike
    <3> QED BY <1>0, <3>1 DEF MemT
  <2>7. a.vol \in VolT /\ a.log \in Seq(WriteT) /\ a.ino \in InodeT
    BY <2>4, Zenon DEF Good
  <2> HIDE DEF m
  <2>8. c = CopyOf(a.vol, m, a.log, a.ino, b, a.ok)
    BY <2>4, CopyMemGot, Zenon
  <2> HIDE DEF c
  <2>9. /\ Good(c) /\ c.vol = a.vol /\ c.mem = m /\ c.ino = a.ino /\ c.got = b /\ c.ok = a.ok
    BY <2>2, <2>6, <2>7, <2>8, CopyGood
  <2>10. Good(d) /\ Alike(d, c) /\ Same(d, c)
    BY <2>9, SyncKeeps, Zenon
  <2> HIDE DEF d
  <2>11. Zero \in BlockT
    BY DEF BlockT
  <2>12. /\ Good(t) /\ Alike(t, d)
         /\ t.vol = VolOf(d.vol.used, d.vol.taken, d.vol.super, d.vol.desc, d.vol.inode,
                          [d.vol.blk EXCEPT ![b] = Zero])
    BY <2>1, <2>2, <2>10, <2>11, PutBlk
  <2> HIDE DEF t
  <2>13. /\ t.vol.used = d.vol.used /\ t.vol.taken = d.vol.taken /\ t.vol.inode = d.vol.inode
         /\ t.vol.blk = [d.vol.blk EXCEPT ![b] = Zero]
    BY <2>12, VolFields
  <2>14. /\ d.vol.used = st.vol.used \cup {b} /\ d.vol.taken = st.vol.taken
         /\ d.vol.inode = st.vol.inode /\ d.vol.blk = st.vol.blk
    BY <2>5, <2>9, <2>10, Zenon DEF Same
  <2>15. t.ino = st.ino /\ t.got = b /\ t.mem.blocks = st.mem.blocks - 1 /\ t.ok = st.ok
    BY <2>4, <2>6, <2>9, <2>10, <2>12, Zenon DEF Alike
  <2>16. st.ok /\ t.ok /\ st.mem.blocks # 0
    BY <1>2, <2>15, Zenon
  <2> QED BY <2>2, <2>12, <2>13, <2>14, <2>15, <2>16, Zenon DEF t
<1> QED BY <1>1, <1>2, Zenon
\* The spilt inode is written where a directory block was.
LEMMA SpillInodeKeeps ==
  ASSUME NEW st, Good(st)
  PROVE  Good(SpillInode(st)) /\ ~SpillInode(st).ok
<1> DEFINE k == Min(Blocks)
           u == Spilt
           a == Put(st, "blk", k, u)
<1>1. k \in Bits
  <2>1. Blocks \subseteq Nat /\ Blocks # {} /\ Blocks \subseteq Bits
    BY Consts, Ext2Assumption, Zenon DEF Bits
  <2> QED BY <2>1, MinOf, Zenon
<1>2. u \in BlockT
  BY DEF BlockT
<1>3. SpillInode(st) = [a EXCEPT !.ok = FALSE]
  BY Zenon DEF SpillInode
<1> HIDE DEF k, u
<1>4. Good(a)
  BY <1>1, <1>2, PutBlkIs, Zenon
<1> HIDE DEF a
<1> QED BY <1>3, <1>4, Refused, Zenon

\* alloc_inode returns an inode number that was free and marks it, or fails.
LEMMA AllocInodeKeeps ==
  ASSUME NEW st, Good(st), st.ok
  PROVE  LET t == AllocInode(st)
         IN  /\ Good(t)
             /\ t.ok => /\ t.ino = st.ino /\ t.mem.blocks = st.mem.blocks
                        /\ t.vol.used = st.vol.used /\ t.vol.inode = st.vol.inode
                        /\ t.vol.blk = st.vol.blk
                        /\ t.got \in Inodes \ st.vol.taken
                        /\ t.vol.taken = st.vol.taken \cup {t.got}
<1> DEFINE free == Inodes \ st.vol.taken
           t == AllocInode(st)
<1>0. /\ st.vol \in VolT /\ st.mem \in MemT /\ st.log \in Seq(WriteT) /\ st.ino \in InodeT
      /\ st.got \in Nat
  BY Zenon DEF Good
<1>1. CASE st.mem.inodes = 0 \/ free = {}
  <2>1. t = [st EXCEPT !.ok = FALSE] \/ t = SpillInode(st)
    BY <1>1, Zenon DEF AllocInode
  <2>2. Good(t) /\ ~t.ok
    BY <2>1, Refused, SpillInodeKeeps, Zenon
  <2> HIDE DEF t
  <2> QED BY <2>2, Zenon DEF t
<1>2. CASE ~(st.mem.inodes = 0 \/ free = {})
  <2> DEFINE b == Min(free)
             a == Put(st, "taken", 0, st.vol.taken \cup {b})
             m == [a.mem EXCEPT !.inodes = @ - 1]
             c == [a EXCEPT !.mem = m, !.got = b]
  <2>1. t = SyncFreeCounts(c)
    <3>1. t = SyncFreeCounts([a EXCEPT !.mem.inodes = @ - 1, !.got = b])
      BY <1>2, Zenon DEF AllocInode
    <3>2. [a EXCEPT !.mem.inodes = @ - 1, !.got = b] = c
      OBVIOUS
    <3> QED BY <3>1, <3>2, Zenon
  <2>2. b \in Inodes \ st.vol.taken /\ b \in Nat
    <3>1. free \subseteq Nat /\ free # {}
      BY <1>2, Consts, Zenon
    <3> HIDE DEF free
    <3>2. Min(free) \in free
      BY <3>1, MinOf, Zenon
    <3> QED BY <3>1, <3>2 DEF free
  <2> HIDE DEF b
  <2>3. st.vol.taken \cup {b} \in SUBSET Inodes
    BY <1>0, <2>2 DEF VolT
  <2>4. /\ Good(a) /\ Alike(a, st)
        /\ a.vol = VolOf(st.vol.used, st.vol.taken \cup {b}, st.vol.super, st.vol.desc,
                         st.vol.inode, st.vol.blk)
    BY <2>3, PutTaken, Zenon
  <2> HIDE DEF a
  <2>5. /\ a.vol.taken = st.vol.taken \cup {b} /\ a.vol.used = st.vol.used
        /\ a.vol.inode = st.vol.inode /\ a.vol.blk = st.vol.blk
    BY <2>4, VolFields
  <2>6. m \in MemT /\ m.blocks = st.mem.blocks
    <3>1. a.mem = st.mem /\ st.mem.inodes # 0
      BY <1>2, <2>4, Zenon DEF Alike
    <3> QED BY <1>0, <3>1 DEF MemT
  <2>7. a.vol \in VolT /\ a.log \in Seq(WriteT) /\ a.ino \in InodeT
    BY <2>4, Zenon DEF Good
  <2> HIDE DEF m
  <2>8. c = CopyOf(a.vol, m, a.log, a.ino, b, a.ok)
    BY <2>4, CopyMemGot, Zenon
  <2> HIDE DEF c
  <2>9. /\ Good(c) /\ c.vol = a.vol /\ c.mem = m /\ c.ino = a.ino /\ c.got = b /\ c.ok = a.ok
    BY <2>2, <2>6, <2>7, <2>8, CopyGood
  <2>10. Good(t) /\ Alike(t, c) /\ Same(t, c)
    BY <2>1, <2>9, SyncKeeps, Zenon
  <2> HIDE DEF t
  <2>14. /\ t.vol.taken = st.vol.taken \cup {b} /\ t.vol.used = st.vol.used
         /\ t.vol.inode = st.vol.inode /\ t.vol.blk = st.vol.blk
    BY <2>5, <2>9, <2>10, Zenon DEF Same
  <2>15. t.ino = st.ino /\ t.got = b /\ t.mem.blocks = st.mem.blocks /\ t.ok = st.ok
    BY <2>4, <2>6, <2>9, <2>10, Zenon DEF Alike
  <2> QED BY <2>2, <2>10, <2>14, <2>15, Zenon DEF t
<1> QED BY <1>1, <1>2, Zenon

-----------------------------------------------------------------------------
(* Finding blocks *)

\* A pointer of a table is a block number or 0.
LEMMA LookupType ==
  ASSUME NEW v \in VolT, NEW tbl \in Ptr, NEW i \in 0..(PTRS - 1)
  PROVE  IndirectLookup(v, tbl, i) \in Ptr
<1>1. CASE tbl = 0 \/ v.blk[tbl].kind # "table"
  <2>1. IndirectLookup(v, tbl, i) = 0
    BY <1>1, Zenon DEF IndirectLookup
  <2> QED BY <2>1 DEF Ptr
<1>2. CASE tbl # 0 /\ v.blk[tbl].kind = "table"
  <2>1. IndirectLookup(v, tbl, i) = v.blk[tbl].ptr[i]
    BY <1>2, Zenon DEF IndirectLookup
  <2>2. v.blk[tbl] \in BlockT
    BY <1>2 DEF VolT, Ptr
  <2>3. v.blk[tbl].ptr \in Tables
    BY <1>2, <2>2, BlockKinds, Zenon
  <2>4. v.blk[tbl].ptr[i] \in Ptr
    BY <2>3, Zenon DEF Tables
  <2> QED BY <2>1, <2>4, Zenon
<1> QED BY <1>1, <1>2, Zenon

\* Where map_block and ensure_block look for each block an inode can reach.
LEMMA Reach ==
  ASSUME NEW idx \in Nat, idx < Limit
  PROVE  LET one == idx - DIRECT
             two == one - PTRS
         IN  /\ idx < DIRECT => idx + 1 \in 1..DIRECT
             /\ ~(idx < DIRECT) /\ one < PTRS => one \in 0..(PTRS - 1)
             /\ ~(idx < DIRECT) /\ ~(one < PTRS) =>
                    /\ two \in Nat /\ two < PTRS * PTRS
                    /\ two \div PTRS \in 0..(PTRS - 1) /\ two % PTRS \in 0..(PTRS - 1)
<1>1. PTRS \in Nat /\ DIRECT \in Nat
  BY Consts, Zenon
<1> DEFINE one == idx - DIRECT
           two == one - PTRS
           sq == PTRS * PTRS
<1>2. sq \in Nat /\ idx < DIRECT + PTRS + sq
  BY <1>1 DEF Limit
<1> HIDE DEF sq
<1>3. ASSUME ~(idx < DIRECT), ~(one < PTRS) PROVE two \in Nat /\ two < sq
  BY <1>1, <1>2, <1>3
<1>4. ASSUME ~(idx < DIRECT), ~(one < PTRS)
      PROVE  two \div PTRS \in 0..(PTRS - 1) /\ two % PTRS \in 0..(PTRS - 1)
  <2>1. two \in Nat /\ two < PTRS * PTRS
    BY <1>3, <1>4 DEF sq
  <2> HIDE DEF two
  <2> QED BY <2>1, Inside
<1>5. (idx < DIRECT => idx + 1 \in 1..DIRECT)
      /\ (~(idx < DIRECT) /\ one < PTRS => one \in 0..(PTRS - 1))
  BY <1>1
<1>6. ASSUME ~(idx < DIRECT), ~(one < PTRS) PROVE two \in Nat /\ two < PTRS * PTRS
  BY <1>3, <1>6 DEF sq
<1> HIDE DEF two, one
<1>7. ~(idx < DIRECT) /\ ~(one < PTRS) =>
                    /\ two \in Nat /\ two < PTRS * PTRS
                    /\ two \div PTRS \in 0..(PTRS - 1) /\ two % PTRS \in 0..(PTRS - 1)
  BY <1>4, <1>6, Zenon
<1> QED BY <1>5, <1>7, Zenon DEF one, two

\* map_block returns a block number or 0.
LEMMA MapType ==
  ASSUME NEW v \in VolT, NEW ino \in InodeT, NEW idx \in Nat, idx < Limit
  PROVE  MapBlock(v, ino, idx) \in Ptr
<1> DEFINE one == idx - DIRECT
           two == one - PTRS
           q == two \div PTRS
           r == two % PTRS
<1>0. ino.direct \in [1..DIRECT -> Ptr] /\ ino.single \in Ptr /\ ino.double \in Ptr
  BY DEF InodeT
<1>1. CASE idx < DIRECT
  <2>1. MapBlock(v, ino, idx) = ino.direct[idx + 1]
    BY <1>1, Zenon DEF MapBlock
  <2>2. idx + 1 \in 1..DIRECT
    BY <1>1, Reach, Zenon
  <2> QED BY <1>0, <2>1, <2>2, Zenon
<1>2. CASE ~(idx < DIRECT) /\ one < PTRS
  <2>1. MapBlock(v, ino, idx) = IndirectLookup(v, ino.single, one)
    BY <1>2, Zenon DEF MapBlock
  <2>2. one \in 0..(PTRS - 1)
    BY <1>2, Reach, Zenon
  <2> QED BY <1>0, <2>1, <2>2, LookupType, Zenon
<1>3. CASE ~(idx < DIRECT) /\ ~(one < PTRS)
  <2>1. MapBlock(v, ino, idx) = IndirectLookup(v, IndirectLookup(v, ino.double, q), r)
    BY <1>3, Zenon DEF MapBlock
  <2>2. q \in 0..(PTRS - 1) /\ r \in 0..(PTRS - 1)
    BY <1>3, Reach, Zenon
  <2> HIDE DEF q, r
  <2>3. IndirectLookup(v, ino.double, q) \in Ptr
    BY <1>0, <2>2, LookupType, Zenon
  <2> QED BY <2>1, <2>2, <2>3, LookupType, Zenon
<1> QED BY <1>1, <1>2, <1>3, Zenon
-----------------------------------------------------------------------------
(* Finding or allocating blocks *)

\* What the ensure_ helpers leave: a block to write to, unless they failed, and
\* the size of the inode in hand.
Found(t, z) == Good(t) /\ t.ino.size = z /\ (t.ok => t.got \in Bits)

\* A block found is in hand; the copy stays good.
LEMMA GotGood ==
  ASSUME NEW st, Good(st), NEW b \in Bits
  PROVE  Found([st EXCEPT !.got = b], st.ino.size)
<1> DEFINE t == [st EXCEPT !.got = b]
<1>0. /\ st.vol \in VolT /\ st.mem \in MemT /\ st.log \in Seq(WriteT) /\ st.ino \in InodeT
  BY Zenon DEF Good
<1>1. b \in Nat
  BY BitsOf
<1>2. t = CopyOf(st.vol, st.mem, st.log, st.ino, b, st.ok)
  BY CopyGot, Zenon
<1> HIDE DEF t
<1>3. Good(t) /\ t.got = b /\ t.ino = st.ino
  BY <1>0, <1>1, <1>2, CopyGood
<1> QED BY <1>3, Zenon DEF Found, t

\* An inode is taken in hand; the copy stays good.
LEMMA InoGood ==
  ASSUME NEW st, Good(st), NEW i \in InodeT
  PROVE  LET t == [st EXCEPT !.ino = i]
         IN  /\ Good(t) /\ t.vol = st.vol /\ t.mem = st.mem /\ t.log = st.log /\ t.ino = i
             /\ t.got = st.got /\ t.ok = st.ok
<1> DEFINE t == [st EXCEPT !.ino = i]
<1>0. /\ st.vol \in VolT /\ st.mem \in MemT /\ st.log \in Seq(WriteT) /\ st.got \in Nat
  BY Zenon DEF Good
<1>2. t = CopyOf(st.vol, st.mem, st.log, i, st.got, st.ok)
  BY CopyIno, Zenon
<1> HIDE DEF t
<1>3. /\ Good(t) /\ t.vol = st.vol /\ t.mem = st.mem /\ t.log = st.log /\ t.ino = i
      /\ t.got = st.got /\ t.ok = st.ok
  BY <1>0, <1>2, CopyGood
<1> QED BY <1>3, Zenon DEF t

\* The single-indirect table, found or allocated,
LEMMA EnsureSingle ==
  ASSUME NEW st, Good(st), st.ok
  PROVE  Found(EnsureIndirect(st, "single"), st.ino.size)
<1> DEFINE t == EnsureIndirect(st, "single")
           a == AllocBlock(st)
<1>0. /\ st.vol \in VolT /\ st.mem \in MemT /\ st.log \in Seq(WriteT) /\ st.ino \in InodeT
      /\ st.got \in Nat
  BY Zenon DEF Good
<1>1. CASE st.ino["single"] # 0
  <2> DEFINE b == st.ino["single"]
  <2>1. b \in Bits /\ b \in Nat
    <3>1. b \in Ptr
      BY <1>0 DEF InodeT
    <3> QED BY <1>1, <3>1, BitsOf, Zenon DEF Ptr
  <2>2. t = [st EXCEPT !.got = b]
    BY <1>1, Zenon DEF EnsureIndirect
  <2> HIDE DEF b, t
  <2> QED BY <2>1, <2>2, GotGood, Zenon DEF t
<1>2. CASE st.ino["single"] = 0
  <2>1. t = InField(a, "single")
    BY <1>2, Zenon DEF EnsureIndirect
  <2>2. Good(a) /\ a.ino = st.ino /\ (a.ok => a.got \in Bits)
    BY AllocBlockKeeps, Zenon
  <2> HIDE DEF a
  <2>3. CASE ~a.ok
    <3>1. t = a
      BY <2>1, <2>3, Zenon DEF InField
    <3> QED BY <2>2, <2>3, <3>1, Zenon DEF Found
  <2>4. CASE a.ok
    <3> DEFINE i == [a.ino EXCEPT !["single"] = a.got]
    <3>1. t = [a EXCEPT !.ino["single"] = a.got]
      BY <2>1, <2>4, Zenon DEF InField
    <3>2. t = [a EXCEPT !.ino = i]
      BY <3>1
    <3>3. a.ino \in InodeT /\ a.got \in Ptr
      BY <2>2, <2>4 DEF Good, Ptr
    <3>4. i \in InodeT /\ i.size = a.ino.size
      BY <3>3 DEF InodeT
    <3> HIDE DEF i, t
    <3>5. Good(t) /\ t.got = a.got /\ t.ino = i
      BY <2>2, <3>2, <3>4, InoGood
    <3> QED BY <2>2, <2>4, <3>4, <3>5, Zenon DEF Found, t
  <2> QED BY <2>3, <2>4, Zenon
<1> QED BY <1>1, <1>2, Zenon

\* and the double-indirect one.
LEMMA EnsureDouble ==
  ASSUME NEW st, Good(st), st.ok
  PROVE  Found(EnsureIndirect(st, "double"), st.ino.size)
<1> DEFINE t == EnsureIndirect(st, "double")
           a == AllocBlock(st)
<1>0. /\ st.vol \in VolT /\ st.mem \in MemT /\ st.log \in Seq(WriteT) /\ st.ino \in InodeT
      /\ st.got \in Nat
  BY Zenon DEF Good
<1>1. CASE st.ino["double"] # 0
  <2> DEFINE b == st.ino["double"]
  <2>1. b \in Bits /\ b \in Nat
    <3>1. b \in Ptr
      BY <1>0 DEF InodeT
    <3> QED BY <1>1, <3>1, BitsOf, Zenon DEF Ptr
  <2>2. t = [st EXCEPT !.got = b]
    BY <1>1, Zenon DEF EnsureIndirect
  <2> HIDE DEF b, t
  <2> QED BY <2>1, <2>2, GotGood, Zenon DEF t
<1>2. CASE st.ino["double"] = 0
  <2>1. t = InField(a, "double")
    BY <1>2, Zenon DEF EnsureIndirect
  <2>2. Good(a) /\ a.ino = st.ino /\ (a.ok => a.got \in Bits)
    BY AllocBlockKeeps, Zenon
  <2> HIDE DEF a
  <2>3. CASE ~a.ok
    <3>1. t = a
      BY <2>1, <2>3, Zenon DEF InField
    <3> QED BY <2>2, <2>3, <3>1, Zenon DEF Found
  <2>4. CASE a.ok
    <3> DEFINE i == [a.ino EXCEPT !["double"] = a.got]
    <3>1. t = [a EXCEPT !.ino["double"] = a.got]
      BY <2>1, <2>4, Zenon DEF InField
    <3>2. t = [a EXCEPT !.ino = i]
      BY <3>1
    <3>3. a.ino \in InodeT /\ a.got \in Ptr
      BY <2>2, <2>4 DEF Good, Ptr
    <3>4. i \in InodeT /\ i.size = a.ino.size
      BY <3>3 DEF InodeT
    <3> HIDE DEF i, t
    <3>5. Good(t) /\ t.got = a.got /\ t.ino = i
      BY <2>2, <3>2, <3>4, InoGood
    <3> QED BY <2>2, <2>4, <3>4, <3>5, Zenon DEF Found, t
  <2> QED BY <2>3, <2>4, Zenon
<1> QED BY <1>1, <1>2, Zenon


\* The block behind a pointer of a table, found, or allocated and linked.
LEMMA EnsureSlotKeeps ==
  ASSUME NEW st, NEW z, Found(st, z), NEW i \in 0..(PTRS - 1)
  PROVE  Found(InTable(st, i), z)
<1> DEFINE tbl == st.got
           t == EnsureSlot(st, tbl, i)
           f == PointersOf(st, tbl)
           a == AllocBlock(st)
<1>0. Good(st) /\ st.ino.size = z /\ InTable(st, i) = t
  BY Zenon DEF Found, InTable
<1>1. CASE ~st.ok
  <2>1. t = st
    BY <1>1, Zenon DEF EnsureSlot
  <2> QED BY <1>0, <2>1, Zenon
<1>2. CASE st.ok
  <2>0. /\ st.vol \in VolT /\ tbl \in Bits /\ tbl \in Ptr
    BY <1>2 DEF Found, Good, Ptr
  <2>1. \A j \in 0..(PTRS - 1) : IndirectLookup(st.vol, tbl, j) \in Ptr
    BY <2>0, LookupType, Zenon
  <2>2. f \in Tables /\ f[i] \in Ptr
    BY <2>1 DEF PointersOf, Tables
  <2> HIDE DEF f
  <2>3. CASE f[i] # 0
    <3>1. t = [st EXCEPT !.got = f[i]]
      BY <1>2, <2>3, Zenon DEF EnsureSlot, f
    <3>2. f[i] \in Bits
      BY <2>2, <2>3 DEF Ptr
    <3> QED BY <1>0, <3>1, <3>2, GotGood, Zenon
  <2>4. CASE f[i] = 0
    <3>1. t = Link(a, tbl, i)
      BY <1>2, <2>4, Zenon DEF EnsureSlot, f
    <3>2. Good(a) /\ a.ino = st.ino /\ (a.ok => a.got \in Bits)
      BY <1>0, AllocBlockKeeps, Zenon
    <3> HIDE DEF a
    <3>3. CASE ~a.ok
      <4>1. t = a
        BY <3>1, <3>3, Zenon DEF Link
      <4> QED BY <1>0, <3>2, <3>3, <4>1, Zenon DEF Found
    <3>4. CASE a.ok
      <4> DEFINE g == PointersOf(a, tbl)
                 h == [g EXCEPT ![i] = a.got]
      <4>1. t = Put(a, "blk", tbl, Pointers(h))
        BY <3>1, <3>4, Zenon DEF Link
      <4>2. a.vol \in VolT /\ a.got \in Ptr
        BY <3>2, <3>4 DEF Good, Ptr
      <4>3. \A j \in 0..(PTRS - 1) : IndirectLookup(a.vol, tbl, j) \in Ptr
        BY <2>0, <4>2, LookupType, Zenon
      <4>4. g \in Tables
        BY <4>3 DEF PointersOf, Tables
      <4>5. h \in Tables
        <5> HIDE DEF g
        <5> QED BY <4>2, <4>4 DEF Tables
      <4>6. Pointers(h) \in BlockT
        <5> HIDE DEF h
        <5> QED BY <4>5, Zenon DEF BlockT
      <4> HIDE DEF h, t
      <4>7. Good(t) /\ Alike(t, a)
        BY <2>0, <3>2, <4>1, <4>6, PutBlk, Zenon
      <4> QED BY <1>0, <3>2, <3>4, <4>7, Zenon DEF Found, Alike
    <3> QED BY <3>3, <3>4, Zenon
  <2> QED BY <2>3, <2>4, Zenon
<1> QED BY <1>1, <1>2, Zenon

\* ensure_block: a block to write to, and only for a block the inode can reach.
LEMMA EnsureBlockKeeps ==
  ASSUME NEW st, Good(st), NEW idx \in Nat
  PROVE  LET t == EnsureBlock(st, idx)
         IN  /\ Good(t) /\ t.ino.size = st.ino.size
             /\ t.ok => st.ok /\ t.got \in Bits /\ idx < Limit
<1> DEFINE one == idx - DIRECT
           two == one - PTRS
           q == two \div PTRS
           r == two % PTRS
           t == EnsureBlock(st, idx)
           z == st.ino.size
<1>0. /\ PTRS \in Nat /\ DIRECT \in Nat /\ PTRS * PTRS \in Nat
  <2>1. PTRS \in Nat /\ DIRECT \in Nat
    BY Consts, Zenon
  <2> QED BY <2>1
<1>1. CASE ~st.ok
  <2>1. t = st
    BY <1>1, Zenon DEF EnsureBlock
  <2> QED BY <1>1, <2>1, Zenon
<1>2. CASE st.ok /\ idx < DIRECT
  <2> DEFINE b == st.ino.direct[idx + 1]
             a == AllocBlock(st)
  <2>1. idx < Limit /\ idx + 1 \in 1..DIRECT
    <3> DEFINE sq == PTRS * PTRS
    <3>1. sq \in Nat /\ Limit = DIRECT + PTRS + sq
      BY <1>0 DEF Limit
    <3> HIDE DEF sq
    <3> QED BY <1>0, <1>2, <3>1
  <2>2. st.ino \in InodeT
    BY Zenon DEF Good
  <2>3. CASE b # 0
    <3>1. t = [st EXCEPT !.got = b]
      BY <1>2, <2>3, Zenon DEF EnsureBlock
    <3>2. b \in Bits
      BY <2>1, <2>2, <2>3, Zenon DEF InodeT, Ptr
    <3> HIDE DEF b, t
    <3>3. Found(t, z)
      BY <3>1, <3>2, GotGood, Zenon
    <3> QED BY <1>2, <2>1, <3>3, Zenon DEF Found, t
  <2>4. CASE b = 0
    <3>1. t = InDirect(a, idx + 1)
      BY <1>2, <2>4, Zenon DEF EnsureBlock
    <3>2. Good(a) /\ a.ino = st.ino /\ (a.ok => a.got \in Bits)
      BY AllocBlockKeeps, Zenon
    <3> HIDE DEF a
    <3>3. CASE ~a.ok
      <4>1. t = a
        BY <3>1, <3>3, Zenon DEF InDirect
      <4> QED BY <3>2, <3>3, <4>1, Zenon
    <3>4. CASE a.ok
      <4> DEFINE i == [a.ino EXCEPT !.direct[idx + 1] = a.got]
      <4>1. t = [a EXCEPT !.ino.direct[idx + 1] = a.got]
        BY <3>1, <3>4, Zenon DEF InDirect
      <4>2. t = [a EXCEPT !.ino = i]
        BY <4>1
      <4>3. a.ino \in InodeT /\ a.got \in Ptr
        BY <3>2, <3>4 DEF Good, Ptr
      <4>4. i \in InodeT /\ i.size = a.ino.size
        BY <2>1, <4>3, Zenon DEF InodeT
      <4> HIDE DEF i, t
      <4>5. Good(t) /\ t.got = a.got /\ t.ino = i
        BY <3>2, <4>2, <4>4, InoGood
      <4> QED BY <1>2, <2>1, <3>2, <3>4, <4>4, <4>5, Zenon DEF t
    <3> QED BY <3>3, <3>4, Zenon
  <2> QED BY <2>3, <2>4, Zenon
<1>3. CASE st.ok /\ ~(idx < DIRECT) /\ one < PTRS
  <2> DEFINE a == EnsureIndirect(st, "single")
  <2>1. t = InTable(a, one)
    BY <1>3, Zenon DEF EnsureBlock
  <2>2. idx < Limit /\ one \in 0..(PTRS - 1)
    <3> DEFINE sq == PTRS * PTRS
    <3>1. sq \in Nat /\ Limit = DIRECT + PTRS + sq
      BY <1>0 DEF Limit
    <3> HIDE DEF sq
    <3> QED BY <1>0, <1>3, <3>1
  <2>3. Found(a, z)
    BY <1>3, EnsureSingle, Zenon
  <2> HIDE DEF a, one
  <2>4. Found(t, z)
    BY <2>1, <2>2, <2>3, EnsureSlotKeeps, Zenon
  <2> QED BY <1>3, <2>2, <2>4, Zenon DEF Found
<1>4. CASE st.ok /\ ~(idx < DIRECT) /\ ~(one < PTRS) /\ two < PTRS * PTRS
  <2> DEFINE a == EnsureIndirect(st, "double")
             b == InTable(a, q)
  <2>1. t = InTable(b, r)
    BY <1>4, Zenon DEF EnsureBlock
  <2>2. idx < Limit
    <3> DEFINE sq == PTRS * PTRS
    <3>1. sq \in Nat /\ Limit = DIRECT + PTRS + sq /\ two < sq
      BY <1>0, <1>4 DEF Limit
    <3> HIDE DEF sq
    <3> QED BY <1>0, <1>4, <3>1
  <2>3. q \in 0..(PTRS - 1) /\ r \in 0..(PTRS - 1)
    BY <1>4, <2>2, Reach, Zenon
  <2>4. Found(a, z)
    BY <1>4, EnsureDouble, Zenon
  <2> HIDE DEF a, q, r
  <2>5. Found(b, z)
    BY <2>3, <2>4, EnsureSlotKeeps, Zenon
  <2> HIDE DEF b
  <2>6. Found(t, z)
    BY <2>1, <2>3, <2>5, EnsureSlotKeeps, Zenon
  <2> QED BY <1>4, <2>2, <2>6, Zenon DEF Found
<1>5. CASE st.ok /\ ~(idx < DIRECT) /\ ~(one < PTRS) /\ ~(two < PTRS * PTRS)
  <2>1. t = [st EXCEPT !.ok = FALSE]
    BY <1>5, Zenon DEF EnsureBlock
  <2> QED BY <2>1, Refused, Zenon
<1> QED BY <1>1, <1>2, <1>3, <1>4, <1>5, Zenon
-----------------------------------------------------------------------------
(* Records in a directory block *)

\* A record of a block.
LEMMA RecOf ==
  ASSUME NEW s \in Seq(RecT), NEW n \in 1..Len(s)
  PROVE  s[n] \in RecT /\ s[n].len \in Nat
<1>1. s[n] \in RecT
  OBVIOUS
<1> QED BY <1>1, Zenon DEF RecT

\* Concatenation, record by record.
LEMMA Cat ==
  ASSUME NEW a \in Seq(RecT), NEW b \in Seq(RecT)
  PROVE  /\ a \o b \in Seq(RecT) /\ Len(a \o b) = Len(a) + Len(b)
         /\ \A n \in 1..Len(a) : (a \o b)[n] = a[n]
         /\ \A n \in 1..Len(b) : (a \o b)[Len(a) + n] = b[n]
<1>1. a \o b \in Seq(RecT) /\ Len(a \o b) = Len(a) + Len(b)
  OBVIOUS
<1>2. ASSUME NEW n \in 1..Len(a) PROVE (a \o b)[n] = a[n]
  OBVIOUS
<1>3. ASSUME NEW n \in 1..Len(b) PROVE (a \o b)[Len(a) + n] = b[n]
  OBVIOUS
<1> QED BY <1>1, <1>2, <1>3, Zenon

\* The sums of record lengths are naturals.
LEMMA RunNat ==
  ASSUME NEW s \in Seq(RecT), NEW f, CoveredRun(f, s)
  PROVE  \A n \in 0..Len(s) : f[n] \in Nat
<1> DEFINE S == {n \in Nat : n <= Len(s) => f[n] \in Nat}
<1>0. /\ Len(s) \in Nat /\ f[0] = 0
      /\ \A n \in 1..Len(s) : f[n] = f[n-1] + s[n].len
  BY DEF CoveredRun
<1>1. \A n \in 1..Len(s) : s[n].len \in Nat
  BY RecOf, Zenon
<1>2. 0 \in S
  BY <1>0
<1>3. ASSUME NEW n \in Nat, n \in S PROVE n + 1 \in S
  <2>1. ASSUME n + 1 <= Len(s) PROVE f[n + 1] \in Nat
    <3>1. n + 1 \in 1..Len(s) /\ (n + 1) - 1 = n /\ n <= Len(s)
      BY <1>0, <2>1
    <3>2. f[n + 1] = f[n] + s[n + 1].len
      BY <1>0, <3>1
    <3> QED BY <1>1, <1>3, <3>1, <3>2
  <2> QED BY <2>1
<1> HIDE DEF S
<1>4. Nat \subseteq S
  BY <1>2, <1>3, Induction
<1> QED BY <1>0, <1>4 DEF S

\* Replacing one record by records of the same length keeps a block covered.
Splice(s, at, new) == SubSeq(s, 1, at - 1) \o new \o SubSeq(s, at + 1, Len(s))

\* The records of a block after one was replaced by others.
LEMMA SpliceIs ==
  ASSUME NEW s \in Seq(RecT), NEW at \in 1..Len(s), NEW new \in Seq(RecT)
  PROVE  LET r == Splice(s, at, new)
         IN  /\ r \in Seq(RecT) /\ Len(r) = Len(s) - 1 + Len(new)
             /\ \A n \in 1..Len(s) : n < at => r[n] = s[n]
             /\ \A n \in 1..Len(new) : r[at - 1 + n] = new[n]
             /\ \A n \in 1..(Len(s) - at) : r[at - 1 + Len(new) + n] = s[at + n]
<1> DEFINE a == SubSeq(s, 1, at - 1)
           b == SubSeq(s, at + 1, Len(s))
           c == a \o new
           r == c \o b
<1>0. Len(s) \in Nat /\ at \in Nat /\ 1 <= at /\ at <= Len(s) /\ Len(new) \in Nat
  OBVIOUS
<1>1. a \in Seq(RecT) /\ Len(a) = at - 1 /\ \A n \in 1..(at - 1) : a[n] = s[n]
  BY <1>0
<1>2. b \in Seq(RecT) /\ Len(b) = Len(s) - at /\ \A n \in 1..(Len(s) - at) : b[n] = s[at + n]
  BY <1>0
<1> HIDE DEF a, b
<1>3. /\ c \in Seq(RecT) /\ Len(c) = at - 1 + Len(new)
      /\ \A n \in 1..(at - 1) : c[n] = a[n]
      /\ \A n \in 1..Len(new) : c[at - 1 + n] = new[n]
  <2>1. /\ c \in Seq(RecT) /\ Len(c) = Len(a) + Len(new)
        /\ \A n \in 1..Len(a) : c[n] = a[n]
        /\ \A n \in 1..Len(new) : c[Len(a) + n] = new[n]
    <3>1. a \in Seq(RecT) /\ new \in Seq(RecT)
      BY <1>1
    <3> QED BY <3>1, Cat, Zenon
  <2> QED BY <1>1, <2>1, Zenon
<1> HIDE DEF c
<1>4. /\ r \in Seq(RecT) /\ Len(r) = at - 1 + Len(new) + (Len(s) - at)
      /\ \A n \in 1..(at - 1 + Len(new)) : r[n] = c[n]
      /\ \A n \in 1..(Len(s) - at) : r[at - 1 + Len(new) + n] = b[n]
  <2>1. /\ r \in Seq(RecT) /\ Len(r) = Len(c) + Len(b)
        /\ \A n \in 1..Len(c) : r[n] = c[n]
        /\ \A n \in 1..Len(b) : r[Len(c) + n] = b[n]
    <3>1. c \in Seq(RecT) /\ b \in Seq(RecT)
      BY <1>2, <1>3
    <3> QED BY <3>1, Cat, Zenon
  <2> QED BY <1>2, <1>3, <2>1, Zenon
<1> HIDE DEF r
<1>5. Splice(s, at, new) = r
  BY Zenon DEF Splice, r, c, a, b
<1>6. Len(r) = Len(s) - 1 + Len(new)
  BY <1>0, <1>4
<1>7. ASSUME NEW n \in 1..Len(s), n < at PROVE r[n] = s[n]
  <2>1. n \in 1..(at - 1) /\ n \in 1..(at - 1 + Len(new))
    BY <1>0, <1>7
  <2> QED BY <1>1, <1>3, <1>4, <2>1, Zenon
<1>8. ASSUME NEW n \in 1..Len(new) PROVE r[at - 1 + n] = new[n]
  <2>1. at - 1 + n \in 1..(at - 1 + Len(new))
    BY <1>0
  <2> QED BY <1>3, <1>4, <2>1, Zenon
<1>9. ASSUME NEW n \in 1..(Len(s) - at) PROVE r[at - 1 + Len(new) + n] = s[at + n]
  BY <1>2, <1>4, Zenon
<1> QED BY <1>4, <1>5, <1>6, <1>7, <1>8, <1>9, Zenon

\* Records of the same total length in place of one cover as much.
LEMMA SpliceCovers ==
  ASSUME NEW s \in Seq(RecT), NEW at \in 1..Len(s), NEW new \in Seq(RecT),
         Covered(new) = s[at].len
  PROVE  Covered(Splice(s, at, new)) = Covered(s)
<1> DEFINE r == Splice(s, at, new)
           L == Len(s)
           M == Len(new)
<1>0. L \in Nat /\ at \in Nat /\ 1 <= at /\ at <= L /\ M \in Nat
  OBVIOUS
<1>1. /\ r \in Seq(RecT) /\ Len(r) = L - 1 + M
      /\ \A n \in 1..L : n < at => r[n] = s[n]
      /\ \A n \in 1..M : r[at - 1 + n] = new[n]
      /\ \A n \in 1..(L - at) : r[at - 1 + M + n] = s[at + n]
  BY SpliceIs, Zenon
<1> HIDE DEF r
<1>2. PICK f : CoveredRun(f, s)
  BY CoveredSteps
<1>3. PICK g : CoveredRun(g, new)
  BY CoveredSteps
<1>4. PICK h : CoveredRun(h, r)
  BY <1>1, CoveredSteps
<1>5. /\ \A n \in 0..L : f[n] \in Nat
      /\ \A n \in 0..M : g[n] \in Nat
      /\ \A n \in 0..Len(r) : h[n] \in Nat
  BY <1>1, <1>2, <1>3, <1>4, RunNat
<1>6. /\ f[0] = 0 /\ (\A n \in 1..L : f[n] = f[n-1] + s[n].len) /\ Covered(s) = f[L]
  BY <1>2 DEF CoveredRun
<1>7. /\ g[0] = 0 /\ (\A n \in 1..M : g[n] = g[n-1] + new[n].len) /\ Covered(new) = g[M]
  BY <1>3 DEF CoveredRun
<1>8. /\ h[0] = 0 /\ (\A n \in 1..Len(r) : h[n] = h[n-1] + r[n].len) /\ Covered(r) = h[Len(r)]
  BY <1>4 DEF CoveredRun
<1>9. s[at].len \in Nat /\ Len(r) = L - 1 + M /\ Len(r) \in Nat
  <2>1. s[at].len \in Nat
    BY RecOf
  <2> QED BY <1>0, <1>1, <2>1
<1> HIDE DEF L, M
<1> DEFINE S1 == {n \in Nat : n < at => h[n] = f[n]}
           S2 == {n \in Nat : n <= M => h[at - 1 + n] = f[at - 1] + g[n]}
           S3 == {n \in Nat : n <= L - at => h[at - 1 + M + n] = f[at + n]}
<1>10. Nat \subseteq S1
  <2>1. 0 \in S1
    BY <1>6, <1>8
  <2>2. ASSUME NEW n \in Nat, n \in S1 PROVE n + 1 \in S1
    <3>1. ASSUME n + 1 < at PROVE h[n + 1] = f[n + 1]
      <4>1. n + 1 \in 1..L /\ n + 1 \in 1..Len(r) /\ (n + 1) - 1 = n /\ n < at
        BY <1>0, <1>1, <3>1
      <4>2. h[n + 1] = h[n] + r[n + 1].len /\ f[n + 1] = f[n] + s[n + 1].len
        BY <1>6, <1>8, <4>1
      <4>3. r[n + 1] = s[n + 1] /\ h[n] = f[n]
        BY <1>1, <2>2, <3>1, <4>1
      <4> QED BY <4>2, <4>3
    <3> QED BY <3>1
  <2> HIDE DEF S1
  <2> QED BY <2>1, <2>2, Induction
<1>11. h[at - 1] = f[at - 1]
  BY <1>0, <1>10
<1>12. Nat \subseteq S2
  <2>0. at - 1 \in 0..L /\ f[at - 1] \in Nat
    BY <1>0, <1>5
  <2>1. 0 \in S2
    BY <1>0, <1>7, <1>11, <2>0
  <2>2. ASSUME NEW n \in Nat, n \in S2 PROVE n + 1 \in S2
    <3>1. ASSUME n + 1 <= M PROVE h[at - 1 + (n + 1)] = f[at - 1] + g[n + 1]
      <4> DEFINE j == at - 1 + (n + 1)
      <4>1. /\ n + 1 \in 1..M /\ j \in 1..Len(r) /\ (n + 1) - 1 = n /\ n <= M
            /\ j - 1 = at - 1 + n /\ n \in 0..M
        BY <1>0, <1>9, <3>1
      <4>2. h[j] = h[j - 1] + r[j].len /\ g[n + 1] = g[n] + new[n + 1].len
        BY <1>7, <1>8, <4>1
      <4>3. r[j] = new[n + 1] /\ h[j - 1] = f[at - 1] + g[n]
        BY <1>1, <2>2, <4>1
      <4>4. g[n] \in Nat /\ new[n + 1].len \in Nat
        BY <1>5, <4>1, RecOf DEF M
      <4>5. \A x, y, z \in Nat : (x + y) + z = x + (y + z)
        OBVIOUS
      <4>6. h[j] = (f[at - 1] + g[n]) + new[n + 1].len
        BY <4>2, <4>3, Zenon
      <4>7. h[j] = f[at - 1] + (g[n] + new[n + 1].len)
        BY <2>0, <4>4, <4>5, <4>6, Zenon
      <4> QED BY <4>2, <4>7, Zenon
    <3> QED BY <3>1
  <2> HIDE DEF S2
  <2> QED BY <2>1, <2>2, Induction
<1>13. h[at - 1 + M] = f[at]
  <2>1. h[at - 1 + M] = f[at - 1] + g[M]
    BY <1>0, <1>12
  <2>2. f[at] = f[at - 1] + s[at].len
    BY <1>0, <1>6
  <2> QED BY <1>7, <2>1, <2>2, Zenon
<1>14. Nat \subseteq S3
  <2>1. 0 \in S3
    BY <1>0, <1>13
  <2>2. ASSUME NEW n \in Nat, n \in S3 PROVE n + 1 \in S3
    <3>1. ASSUME n + 1 <= L - at PROVE h[at - 1 + M + (n + 1)] = f[at + (n + 1)]
      <4> DEFINE j == at - 1 + M + (n + 1)
                 k == at + (n + 1)
      <4>1. /\ n + 1 \in 1..(L - at) /\ j \in 1..Len(r) /\ n <= L - at
            /\ j - 1 = at - 1 + M + n /\ k \in 1..L /\ k - 1 = at + n
        BY <1>0, <1>1, <3>1
      <4>2. h[j] = h[j - 1] + r[j].len /\ f[k] = f[k - 1] + s[k].len
        BY <1>6, <1>8, <4>1
      <4>3. r[j] = s[k] /\ h[j - 1] = f[k - 1]
        BY <1>1, <2>2, <4>1, Zenon
      <4> QED BY <4>2, <4>3
    <3> QED BY <3>1
  <2> HIDE DEF S3
  <2> QED BY <2>1, <2>2, Induction
<1>15. h[Len(r)] = f[L]
  <2>1. L - at \in Nat /\ at - 1 + M + (L - at) = Len(r) /\ at + (L - at) = L
    BY <1>0, <1>9
  <2>2. L - at \in S3
    BY <1>14, <2>1
  <2>3. h[at - 1 + M + (L - at)] = f[at + (L - at)]
    BY <2>1, <2>2
  <2> QED BY <2>1, <2>3, Zenon
<1> QED BY <1>6, <1>8, <1>15 DEF r
\* The first of some entries, in the order of their blocks and places, is one of them.
LEMMA FirstIsOne ==
  ASSUME NEW es, es # {}, \A e \in es : e.no \in Nat /\ e.at \in Nat
  PROVE  FirstOf(es) \in es
<1> DEFINE N == {e.no : e \in es}
<1>1. PICK n \in N : \A y \in N : n <= y
  <2>1. N \subseteq Nat /\ N # {}
    OBVIOUS
  <2> HIDE DEF N
  <2> QED BY <2>1, LeastNat, Zenon
<1> DEFINE A == {e.at : e \in {x \in es : x.no = n}}
<1>2. PICK a \in A : \A y \in A : a <= y
  <2>1. A \subseteq Nat /\ A # {}
    BY <1>1
  <2> HIDE DEF A
  <2> QED BY <2>1, LeastNat, Zenon
<1>3. PICK e \in es : e.no = n /\ e.at = a
  BY <1>2
<1>4. ASSUME NEW f \in es PROVE Before(e, f)
  <2>1. n \in Nat /\ f.no \in Nat /\ n <= f.no /\ a \in Nat /\ f.at \in Nat
    BY <1>1, <1>3
  <2>2. f.no = n => a <= f.at
    BY <1>2
  <2> HIDE DEF N, A
  <2> QED BY <1>3, <2>1, <2>2 DEF Before
<1>5. \E x \in es : \A f \in es : Before(x, f)
  BY <1>4
<1> QED BY <1>5, Zenon DEF FirstOf

\* An entry of a readable directory is a record of a tiled block.
LEMMA EntryIs ==
  ASSUME NEW v \in VolT, NEW ino \in InodeT, DirOk(v, ino), NEW e \in DirEntries(v, ino)
  PROVE  /\ e.blk \in Bits /\ e.no \in Nat /\ v.blk[e.blk].recs \in Tilings
         /\ e.at \in 1..Len(v.blk[e.blk].recs) /\ e.rec = v.blk[e.blk].recs[e.at]
         /\ e.rec \in RecT /\ RecFits(e.rec)
         /\ v.blk[e.blk].kind = "dir" /\ v.blk[e.blk] = Records(v.blk[e.blk].recs)
<1>1. PICK k \in 1..ino.size : \E b \in {MapBlock(v, ino, k - 1)} \ {0} :
         \E i \in DOMAIN v.blk[b].recs :
            e = [blk |-> b, no |-> k, at |-> i, rec |-> v.blk[b].recs[i]]
  BY DEF DirEntries
<1>2. PICK b \in {MapBlock(v, ino, k - 1)} \ {0} : \E i \in DOMAIN v.blk[b].recs :
            e = [blk |-> b, no |-> k, at |-> i, rec |-> v.blk[b].recs[i]]
  BY <1>1
<1>3. PICK i \in DOMAIN v.blk[b].recs :
            e = [blk |-> b, no |-> k, at |-> i, rec |-> v.blk[b].recs[i]]
  BY <1>2
<1>4. /\ e.blk = b /\ e.no = k /\ e.at = i /\ e.rec = v.blk[b].recs[i]
  BY <1>3
<1>5. k \in Nat /\ k - 1 \in Nat /\ k - 1 < Limit
  <2>1. ino.size \in 0..Limit
    BY DEF InodeT
  <2>2. Limit \in Nat
    <3>1. PTRS \in Nat /\ DIRECT \in Nat
      BY Consts, Zenon
    <3> QED BY <3>1 DEF Limit
  <2> QED BY <2>1, <2>2
<1>6. b \in Ptr /\ b # 0
  BY <1>2, <1>5, MapType
<1>7. b \in Bits
  BY <1>6 DEF Ptr
<1>8. v.blk[b].kind = "dir"
  BY <1>2, Zenon DEF DirOk
<1>9. v.blk[b] \in BlockT
  BY <1>7 DEF VolT
<1>10. v.blk[b].recs \in Tilings /\ v.blk[b] = Records(v.blk[b].recs)
  BY <1>8, <1>9, BlockKinds, Zenon
<1> DEFINE rs == v.blk[b].recs
<1>11. rs \in Seq(RecT) /\ \A n \in 1..Len(rs) : RecFits(rs[n])
  BY <1>10 DEF Tilings
<1>12. i \in 1..Len(rs) /\ i \in Nat
  <2>1. DOMAIN rs = 1..Len(rs) /\ Len(rs) \in Nat
    BY <1>11
  <2> HIDE DEF rs
  <2>2. i \in DOMAIN rs
    BY <1>3 DEF rs
  <2> QED BY <2>1, <2>2
<1>13. rs[i] \in RecT /\ RecFits(rs[i])
  BY <1>11, <1>12, RecOf, Zenon
<1> QED BY <1>4, <1>5, <1>7, <1>8, <1>10, <1>12, <1>13, Zenon

\* The first of the entries that have a certain property, when there is one.
LEMMA FirstEntry ==
  ASSUME NEW v \in VolT, NEW ino \in InodeT, DirOk(v, ino), NEW es \in SUBSET DirEntries(v, ino),
         es # {}
  PROVE  FirstOf(es) \in es
<1>1. \A e \in es : e.no \in Nat /\ e.at \in Nat
  <2> TAKE e \in es
  <2>1. e \in DirEntries(v, ino)
    OBVIOUS
  <2>2. e.no \in Nat /\ e.at \in 1..Len(v.blk[e.blk].recs)
    BY <2>1, EntryIs, Zenon
  <2> QED BY <2>2
<1> QED BY <1>1, FirstIsOne, Zenon

\* What one record covers,
LEMMA CoveredOne ==
  ASSUME NEW r \in RecT
  PROVE  Covered(<<r>>) = r.len
<1> DEFINE s == <<r>>
<1>0. s \in Seq(RecT) /\ Len(s) = 1 /\ s[1] = r
  OBVIOUS
<1>1. PICK f : CoveredRun(f, s)
  BY <1>0, CoveredSteps
<1> HIDE DEF s
<1>2. f[0] = 0 /\ f[1] = f[0] + s[1].len /\ Covered(s) = f[1]
  BY <1>0, <1>1 DEF CoveredRun
<1>3. r.len \in Nat
  BY Zenon DEF RecT
<1> QED BY <1>0, <1>2, <1>3 DEF s

\* and what two cover.
LEMMA CoveredTwo ==
  ASSUME NEW r \in RecT, NEW q \in RecT
  PROVE  Covered(<<r, q>>) = r.len + q.len
<1> DEFINE s == <<r, q>>
<1>0. s \in Seq(RecT) /\ Len(s) = 2 /\ s[1] = r /\ s[2] = q
  OBVIOUS
<1>1. PICK f : CoveredRun(f, s)
  BY <1>0, CoveredSteps
<1> HIDE DEF s
<1>2. f[0] = 0 /\ f[1] = f[0] + s[1].len /\ f[2] = f[1] + s[2].len /\ Covered(s) = f[2]
  BY <1>0, <1>1 DEF CoveredRun
<1>3. r.len \in Nat /\ q.len \in Nat
  BY Zenon DEF RecT
<1> QED BY <1>0, <1>2, <1>3 DEF s

\* Records that fit and add up to the one they replace keep a tiling.
LEMMA SpliceTiles ==
  ASSUME NEW s \in Tilings, NEW at \in 1..Len(s), NEW new \in Seq(RecT),
         \A k \in 1..Len(new) : RecFits(new[k]), Covered(new) = s[at].len
  PROVE  Splice(s, at, new) \in Tilings
<1> DEFINE r == Splice(s, at, new)
           L == Len(s)
           M == Len(new)
<1>0. s \in Seq(RecT) /\ Covered(s) = Units /\ \A k \in 1..L : RecFits(s[k])
  BY DEF Tilings
<1>1. L \in Nat /\ at \in Nat /\ 1 <= at /\ at <= L /\ M \in Nat
  BY <1>0
<1>2. /\ r \in Seq(RecT) /\ Len(r) = L - 1 + M
      /\ \A n \in 1..L : n < at => r[n] = s[n]
      /\ \A n \in 1..M : r[at - 1 + n] = new[n]
      /\ \A n \in 1..(L - at) : r[at - 1 + M + n] = s[at + n]
  BY <1>0, SpliceIs, Zenon
<1>3. Covered(r) = Units
  BY <1>0, SpliceCovers, Zenon
<1> HIDE DEF r
<1>4. ASSUME NEW k \in 1..Len(r) PROVE RecFits(r[k])
  <2>0. k \in Nat /\ 1 <= k /\ k <= L - 1 + M
    BY <1>1, <1>2
  <2>1. CASE k < at
    <3>1. k \in 1..L
      BY <1>1, <2>0, <2>1
    <3>2. r[k] = s[k]
      BY <1>2, <2>1, <3>1
    <3> QED BY <1>0, <3>1, <3>2
  <2>2. CASE at <= k /\ k <= at - 1 + M
    <3> DEFINE n == k - (at - 1)
    <3>1. n \in 1..M /\ at - 1 + n = k
      BY <1>1, <2>0, <2>2
    <3> HIDE DEF n
    <3>2. r[k] = new[n]
      BY <1>2, <3>1
    <3> QED BY <3>1, <3>2
  <2>3. CASE at - 1 + M < k
    <3> DEFINE n == k - (at - 1 + M)
    <3>1. n \in 1..(L - at) /\ at - 1 + M + n = k /\ at + n \in 1..L
      BY <1>1, <2>0, <2>3
    <3> HIDE DEF n
    <3>2. r[k] = s[at + n]
      BY <1>2, <3>1, Zenon
    <3> QED BY <1>0, <3>1, <3>2
  <2> QED BY <1>1, <2>0, <2>1, <2>2, <2>3
<1> QED BY <1>2, <1>3, <1>4 DEF Tilings, r

\* add_dir_entry: a record with room takes the entry.
LEMMA InsertTiles ==
  ASSUME NEW s \in Tilings, NEW at \in 1..Len(s), NEW n \in Names, NEW i \in Inodes,
         Room(s[at]) >= Span[n]
  PROVE  InsertRec(s, at, n, i) \in Tilings
<1> DEFINE r == s[at]
           need == Span[n]
<1>0. s \in Seq(RecT) /\ \A k \in 1..Len(s) : RecFits(s[k])
  BY DEF Tilings
<1>1. r \in RecT /\ RecFits(r) /\ r.len \in Nat
  BY <1>0, RecOf
<1>2. need \in Nat /\ need >= 3 /\ i # 0
  <2>1. Units \in Nat /\ Span[n] \in 3..Units /\ 0 \notin Inodes
    BY Consts, Zenon
  <2> QED BY <2>1
<1> HIDE DEF r, need
<1>3. ASSUME NEW new \in Seq(RecT), \A k \in 1..Len(new) : RecFits(new[k]), Covered(new) = r.len,
             InsertRec(s, at, n, i) = SubSeq(s, 1, at - 1) \o new \o SubSeq(s, at + 1, Len(s))
      PROVE  InsertRec(s, at, n, i) \in Tilings
  <2>1. InsertRec(s, at, n, i) = Splice(s, at, new)
    BY <1>3, Zenon DEF Splice
  <2> QED BY <1>3, <2>1, SpliceTiles, Zenon DEF r
<1>4. CASE r.ino = 0 /\ r.len - need >= 2
  <2> DEFINE x == Rec(i, n, need)
             y == Rec(0, "", r.len - need)
             new == <<x, y>>
  <2>1. InsertRec(s, at, n, i) = SubSeq(s, 1, at - 1) \o new \o SubSeq(s, at + 1, Len(s))
    BY <1>4, Zenon DEF InsertRec, r, need
  <2>2. r.len - need \in Nat
    BY <1>1, <1>2, <1>4
  <2>3. x \in RecT /\ y \in RecT /\ x.len = need /\ y.len = r.len - need
    BY <1>2, <2>2, Zenon DEF Rec, RecT
  <2>4. RecFits(x) /\ RecFits(y)
    <3>1. x.ino = i /\ x.name = n /\ x.len = need
      BY DEF Rec
    <3>2. y.ino = 0 /\ y.len = r.len - need
      BY DEF Rec
    <3>3. RecFits(x)
      BY <1>2, <3>1 DEF RecFits, need
    <3>4. RecFits(y)
      <4>1. y.len >= 2
        BY <1>1, <1>2, <1>4, <3>2, Zenon
      <4> QED BY <3>2, <4>1, Zenon DEF RecFits
    <3> QED BY <3>3, <3>4, Zenon
  <2> HIDE DEF x, y
  <2>5. new \in Seq(RecT) /\ Len(new) = 2 /\ new[1] = x /\ new[2] = y
    BY <2>3
  <2>6. Covered(new) = x.len + y.len
    BY <2>3, CoveredTwo, Zenon
  <2>7. Covered(new) = r.len
    BY <1>1, <1>2, <2>3, <2>6
  <2> HIDE DEF new
  <2>8. \A k \in 1..Len(new) : RecFits(new[k])
    BY <2>4, <2>5
  <2> QED BY <1>3, <2>1, <2>5, <2>7, <2>8, Zenon
<1>5. CASE r.ino = 0 /\ ~(r.len - need >= 2)
  <2> DEFINE x == Rec(i, n, r.len)
             new == <<x>>
  <2>1. InsertRec(s, at, n, i) = SubSeq(s, 1, at - 1) \o new \o SubSeq(s, at + 1, Len(s))
    BY <1>5, Zenon DEF InsertRec, r, need
  <2>2. r.len >= need
    BY <1>5, Zenon DEF Room, r, need
  <2>3. x \in RecT /\ x.len = r.len
    BY <1>1, Zenon DEF Rec, RecT
  <2>4. RecFits(x)
    <3>1. x.ino = i /\ x.name = n /\ x.len = r.len
      BY DEF Rec
    <3> QED BY <1>1, <1>2, <2>2, <3>1 DEF RecFits, need
  <2> HIDE DEF x
  <2>5. new \in Seq(RecT) /\ Len(new) = 1 /\ new[1] = x
    BY <2>3
  <2>6. Covered(new) = r.len
    BY <2>3, CoveredOne, Zenon
  <2> HIDE DEF new
  <2>8. \A k \in 1..Len(new) : RecFits(new[k])
    BY <2>4, <2>5
  <2> QED BY <1>3, <2>1, <2>5, <2>6, <2>8, Zenon
<1>6. CASE r.ino # 0
  <2> DEFINE own == Span[r.name]
             x == [r EXCEPT !.len = own]
             y == Rec(i, n, r.len - own)
             new == <<x, y>>
  <2>1. InsertRec(s, at, n, i) = SubSeq(s, 1, at - 1) \o new \o SubSeq(s, at + 1, Len(s))
    BY <1>6, Zenon DEF InsertRec, r
  <2>0. r.name \in Names \cup {".", ".."} /\ own \in Nat /\ own >= 3
    <3>1. r.name \in Names \cup {".", ".."}
      BY <1>1, <1>6, Zenon DEF RecFits
    <3>2. Units \in Nat /\ Span[r.name] \in 3..Units
      BY <3>1, Consts, Zenon
    <3> QED BY <3>1, <3>2
  <2> HIDE DEF own
  <2>2. r.len - own >= need /\ r.len - own \in Nat
    <3>1. r.len - own >= need
      BY <1>6, Zenon DEF Room, r, need, own
    <3> QED BY <1>1, <1>2, <2>0, <3>1
  <2>3. x \in RecT /\ y \in RecT /\ x.len = own /\ y.len = r.len - own
    BY <1>1, <2>0, <2>2, Zenon DEF Rec, RecT
  <2>4. RecFits(x) /\ RecFits(y)
    <3>1. x.ino = r.ino /\ x.name = r.name /\ x.len = own
      BY <1>1, Zenon DEF RecT
    <3>2. y.ino = i /\ y.name = n /\ y.len = r.len - own
      BY DEF Rec
    <3>3. RecFits(x)
      BY <2>0, <3>1 DEF RecFits, own
    <3>4. RecFits(y)
      BY <1>2, <2>2, <3>2 DEF RecFits, need
    <3> QED BY <3>3, <3>4
  <2> HIDE DEF x, y
  <2>5. new \in Seq(RecT) /\ Len(new) = 2 /\ new[1] = x /\ new[2] = y
    BY <2>3
  <2>6. Covered(new) = x.len + y.len
    BY <2>3, CoveredTwo, Zenon
  <2>7. Covered(new) = r.len
    BY <1>1, <2>0, <2>3, <2>6
  <2> HIDE DEF new
  <2>8. \A k \in 1..Len(new) : RecFits(new[k])
    BY <2>4, <2>5
  <2> QED BY <1>3, <2>1, <2>5, <2>7, <2>8, Zenon
<1> QED BY <1>4, <1>5, <1>6, Zenon

\* unlink and rename: a record is overwritten in place, its length kept.
LEMMA ReplaceTiles ==
  ASSUME NEW s \in Tilings, NEW at \in 1..Len(s), NEW r \in RecT, RecFits(r), r.len = s[at].len
  PROVE  [s EXCEPT ![at] = r] \in Tilings
<1> DEFINE new == <<r>>
           t == Splice(s, at, new)
           u == [s EXCEPT ![at] = r]
<1>0. s \in Seq(RecT) /\ Len(s) \in Nat
  BY DEF Tilings
<1>1. new \in Seq(RecT) /\ Len(new) = 1 /\ new[1] = r
  OBVIOUS
<1>2. Covered(new) = r.len
  BY CoveredOne
<1> HIDE DEF new
<1>3. t \in Tilings
  BY <1>1, <1>2, SpliceTiles
<1>4. /\ t \in Seq(RecT) /\ Len(t) = Len(s) - 1 + Len(new)
      /\ \A n \in 1..Len(s) : n < at => t[n] = s[n]
      /\ \A n \in 1..Len(new) : t[at - 1 + n] = new[n]
      /\ \A n \in 1..(Len(s) - at) : t[at - 1 + Len(new) + n] = s[at + n]
  BY <1>0, <1>1, SpliceIs, Zenon
<1> HIDE DEF t
<1>5. u \in Seq(RecT) /\ Len(u) = Len(s) /\ \A n \in 1..Len(s) : u[n] = IF n = at THEN r ELSE s[n]
  BY <1>0
<1> HIDE DEF u
<1>6. Len(t) = Len(s)
  BY <1>0, <1>1, <1>4
<1>7. ASSUME NEW n \in 1..Len(s) PROVE t[n] = u[n]
  <2>1. CASE n < at
    BY <1>4, <1>5, <2>1
  <2>2. CASE n = at
    <3>1. 1 \in 1..Len(new) /\ at - 1 + 1 = at
      BY <1>1
    <3> QED BY <1>1, <1>4, <1>5, <2>2, <3>1
  <2>3. CASE n > at
    <3> DEFINE j == n - at
    <3>1. j \in 1..(Len(s) - at) /\ at - 1 + Len(new) + j = n /\ at + j = n
      BY <1>0, <1>1, <2>3
    <3> HIDE DEF j
    <3>2. t[n] = s[n]
      BY <1>4, <3>1, Zenon
    <3> QED BY <1>5, <2>3, <3>2
  <2> QED BY <1>0, <2>1, <2>2, <2>3
<1>8. t = u
  BY <1>4, <1>5, <1>6, <1>7
<1> QED BY <1>3, <1>8 DEF u

\* A block that holds one entry, and the first block of a directory.
LEMMA OneTiles ==
  ASSUME NEW n \in Names, NEW i \in Inodes
  PROVE  <<Rec(i, n, Units)>> \in Tilings
<1> DEFINE x == Rec(i, n, Units)
           new == <<x>>
<1>1. Units \in Nat /\ Span[n] \in 3..Units /\ Inodes \subseteq Nat
  BY Consts, Zenon
<1>2. x \in RecT /\ x.ino = i /\ x.name = n /\ x.len = Units
  BY <1>1, Zenon DEF Rec, RecT
<1>3. RecFits(x)
  BY <1>1, <1>2 DEF RecFits
<1> HIDE DEF x
<1>4. new \in Seq(RecT) /\ Len(new) = 1 /\ new[1] = x
  BY <1>2
<1>5. Covered(new) = Units
  BY <1>2, CoveredOne
<1> HIDE DEF new
<1>6. new \in Tilings
  BY <1>3, <1>4, <1>5 DEF Tilings
<1> QED BY <1>6 DEF new, x

\* The two dot entries, as mkdir and mkext2 write them.
LEMMA DotsTile ==
  ASSUME NEW i \in Inodes, NEW dir \in Inodes
  PROVE  <<Rec(i, ".", Span["."]), Rec(dir, "..", Units - Span["."])>> \in Tilings
<1> DEFINE x == Rec(i, ".", Span["."])
           y == Rec(dir, "..", Units - Span["."])
           new == <<x, y>>
<1>1. /\ Units \in Nat /\ Span["."] \in 3..Units /\ Span[".."] \in 3..Units
      /\ Span["."] + Span[".."] <= Units
  BY Consts, Zenon
<1>2. Span["."] \in Nat /\ Units - Span["."] \in Nat /\ Units - Span["."] >= Span[".."]
  BY <1>1
<1>3. x \in RecT /\ x.ino = i /\ x.name = "." /\ x.len = Span["."]
  BY <1>2 DEF Rec, RecT
<1>4. y \in RecT /\ y.ino = dir /\ y.name = ".." /\ y.len = Units - Span["."]
  BY <1>2 DEF Rec, RecT
<1>5. RecFits(x)
  BY <1>1, <1>3 DEF RecFits
<1>6. RecFits(y)
  BY <1>1, <1>2, <1>4 DEF RecFits
<1> HIDE DEF x, y
<1>7. new \in Seq(RecT) /\ Len(new) = 2 /\ new[1] = x /\ new[2] = y
  BY <1>3, <1>4
<1>8. Covered(new) = x.len + y.len
  BY <1>3, <1>4, CoveredTwo
<1>9. Covered(new) = Units
  BY <1>1, <1>2, <1>3, <1>4, <1>8
<1> HIDE DEF new
<1>10. \A k \in 1..Len(new) : RecFits(new[k])
  BY <1>5, <1>6, <1>7
<1>11. new \in Tilings
  BY <1>7, <1>9, <1>10, Zenon DEF Tilings
<1> QED BY <1>11 DEF new, x, y

\* A tiling is a directory block of the right shape.
LEMMA RecordsBlock ==
  ASSUME NEW rs \in Tilings
  PROVE  Records(rs) \in BlockT /\ Records(rs).kind = "dir"
<1>1. Records(rs) \in BlockT
  BY Zenon DEF BlockT
<1>2. Records(rs).kind = "dir"
  BY DEF Records
<1> QED BY <1>1, <1>2
=============================================================================
