---------------------------- MODULE MemoryProofs ----------------------------
(***************************************************************************)
(* What each operation on memory does, for every memory map and every      *)
(* image: the frame allocator, the page tables, the ELF loader and the     *)
(* allocator's self-test.  The argument is about sets of frames: Bal(a, S) *)
(* says that S is what the allocator a has given away, and every operation *)
(* moves frames from a to S or back.                                       *)
(***************************************************************************)
EXTENDS Process, FiniteSetTheorems, TLAPS

-----------------------------------------------------------------------------
(* Induction over the naturals *)

\* A set of naturals that is not empty has a least element.
LEMMA LeastNat ==
  ASSUME NEW T, T \subseteq Nat, T # {}
  PROVE  \E x \in T : \A y \in T : x <= y
<1> DEFINE R == {ss \in Nat \X Nat : ss[1] < ss[2]}
<1>1. IsWellFoundedOn(R, Nat)
  BY NatLessThanWellFounded, Zenon DEF OpToRel
<1>2. PICK x \in T : \A y \in T : ~ (<<y, x>> \in R)
  BY <1>1, WFMin, Zenon
<1>3. ASSUME NEW y \in T PROVE x <= y
  <2>1. x \in Nat /\ y \in Nat
    BY Zenon
  <2>2. ~ (<<y, x>> \in R)
    BY <1>2, Zenon
  <2>3. ~ (y < x)
    BY <2>1, <2>2, Zenon
  <2> QED BY <2>1, <2>3
<1> QED BY <1>3, Zenon

\* A set that contains 0 and the successor of each of its naturals contains them all.
LEMMA Induction ==
  ASSUME NEW S, 0 \in S, \A n \in Nat : n \in S => n + 1 \in S
  PROVE  Nat \subseteq S
<1> DEFINE T == {n \in Nat : n \notin S}
<1>1. ASSUME T # {} PROVE FALSE
  <2>1. PICK x \in T : \A y \in T : x <= y
    BY <1>1, LeastNat, Zenon
  <2>2. x # 0 /\ x - 1 \in Nat
    OBVIOUS
  <2>3. x - 1 \in T
    <3>1. x - 1 \notin S
      BY <2>2
    <3> QED BY <2>2, <3>1, Zenon
  <2> QED BY <2>1, <2>3
<1> QED BY <1>1, Zenon

MapEachRun(f, m, vas, owner, write) ==
  /\ f[0] = m
  /\ \A n \in 1..Len(vas) : f[n] = MapPage(f[n-1], vas[n], owner, write)
  /\ MapEach(m, vas, owner, write) = f[Len(vas)]

\* The memory after each page of MapEach: the recursion has a solution, and it is the one used.
LEMMA MapEachSteps ==
  ASSUME NEW m, NEW vas, NEW owner, NEW write, Len(vas) \in Nat
  PROVE  \E f : MapEachRun(f, m, vas, owner, write)
<1> DEFINE Def(g, n) == IF n = 0 THEN m ELSE MapPage(g[n - 1], vas[n], owner, write)
           S == {k \in Nat : \E g : g = [n \in 0..k |-> Def(g, n)]}
           f == CHOOSE g : g = [n \in 0..Len(vas) |-> Def(g, n)]
<1>1. 0 \in S
  <2> DEFINE g == [n \in 0..0 |-> m]
  <2>1. g = [n \in 0..0 |-> Def(g, n)]
    OBVIOUS
  <2> QED BY <2>1, Zenon
<1>2. ASSUME NEW k \in Nat, k \in S PROVE k + 1 \in S
  <2>1. PICK g : g = [n \in 0..k |-> Def(g, n)]
    BY <1>2, Zenon
  <2> DEFINE h == [n \in 0..k+1 |-> IF n <= k THEN g[n] ELSE Def(g, n)]
  <2>2. ASSUME NEW n \in 0..k+1 PROVE h[n] = Def(h, n)
    <3>1. CASE n = 0
      BY <3>1, <2>1
    <3>2. CASE n # 0
      <4>1. n - 1 \in 0..k /\ h[n-1] = g[n-1]
        BY <3>2
      <4>2. n <= k => g[n] = Def(g, n)
        BY <2>1
      <4> QED BY <3>2, <4>1, <4>2, Zenon
    <3> QED BY <3>1, <3>2, Zenon
  <2>3. h = [n \in 0..k+1 |-> Def(h, n)]
    BY <2>2, Zenon
  <2>4. k + 1 \in Nat
    OBVIOUS
  <2> HIDE DEF h
  <2> QED BY <2>3, <2>4, Zenon
<1>3. Nat \subseteq S
  BY <1>1, <1>2, Induction, Zenon
<1>4. f = [n \in 0..Len(vas) |-> Def(f, n)]
  BY <1>3, Zenon
<1>5. MapEach(m, vas, owner, write) = f[Len(vas)]
  BY Zenon DEF MapEach
<1> HIDE DEF f
<1>6. f[0] = m
  BY <1>4
<1>7. \A n \in 1..Len(vas) : f[n] = MapPage(f[n-1], vas[n], owner, write)
  BY <1>4
<1> QED BY <1>5, <1>6, <1>7, Zenon DEF MapEachRun

LoadSegmentsRun(f, m, img, slot) ==
  /\ f[0] = m
  /\ \A n \in 1..Len(img.segs) : f[n] = LoadSegment(f[n-1], LoadBase(img), img.segs[n], slot)
  /\ LoadSegments(m, img, slot) = f[Len(img.segs)]

\* The memory after each segment of a load.
LEMMA LoadSegmentsSteps ==
  ASSUME NEW m, NEW img, NEW slot, Len(img.segs) \in Nat
  PROVE  \E f : LoadSegmentsRun(f, m, img, slot)
<1> DEFINE Def(g, n) == IF n = 0 THEN m ELSE LoadSegment(g[n - 1], LoadBase(img), img.segs[n], slot)
           S == {k \in Nat : \E g : g = [n \in 0..k |-> Def(g, n)]}
           f == CHOOSE g : g = [n \in 0..Len(img.segs) |-> Def(g, n)]
<1>1. 0 \in S
  <2> DEFINE g == [n \in 0..0 |-> m]
  <2>1. g = [n \in 0..0 |-> Def(g, n)]
    OBVIOUS
  <2> QED BY <2>1, Zenon
<1>2. ASSUME NEW k \in Nat, k \in S PROVE k + 1 \in S
  <2>1. PICK g : g = [n \in 0..k |-> Def(g, n)]
    BY <1>2, Zenon
  <2> DEFINE h == [n \in 0..k+1 |-> IF n <= k THEN g[n] ELSE Def(g, n)]
  <2>2. ASSUME NEW n \in 0..k+1 PROVE h[n] = Def(h, n)
    <3>1. CASE n = 0
      BY <3>1, <2>1
    <3>2. CASE n # 0
      <4>1. n - 1 \in 0..k /\ h[n-1] = g[n-1]
        BY <3>2
      <4>2. n <= k => g[n] = Def(g, n)
        BY <2>1
      <4> QED BY <3>2, <4>1, <4>2, Zenon
    <3> QED BY <3>1, <3>2, Zenon
  <2>3. h = [n \in 0..k+1 |-> Def(h, n)]
    BY <2>2, Zenon
  <2>4. k + 1 \in Nat
    OBVIOUS
  <2> HIDE DEF h
  <2> QED BY <2>3, <2>4, Zenon
<1>3. Nat \subseteq S
  BY <1>1, <1>2, Induction, Zenon
<1>4. f = [n \in 0..Len(img.segs) |-> Def(f, n)]
  BY <1>3, Zenon
<1>5. LoadSegments(m, img, slot) = f[Len(img.segs)]
  BY Zenon DEF LoadSegments
<1> HIDE DEF f
<1>6. f[0] = m
  BY <1>4
<1>7. \A n \in 1..Len(img.segs) : f[n] = LoadSegment(f[n-1], LoadBase(img), img.segs[n], slot)
  BY <1>4
<1> QED BY <1>5, <1>6, <1>7, Zenon DEF LoadSegmentsRun

StringBytesRun(f, argv) ==
  /\ f[0] = 16
  /\ \A n \in 1..Len(argv) : f[n] = f[n-1] + argv[n] + 1
  /\ StringBytes(argv) = f[Len(argv)]

\* The bytes below the stack top after each argument string.
LEMMA StringBytesSteps ==
  ASSUME NEW argv, Len(argv) \in Nat
  PROVE  \E f : StringBytesRun(f, argv)
<1> DEFINE Def(g, n) == IF n = 0 THEN 16 ELSE g[n - 1] + argv[n] + 1
           S == {k \in Nat : \E g : g = [n \in 0..k |-> Def(g, n)]}
           f == CHOOSE g : g = [n \in 0..Len(argv) |-> Def(g, n)]
<1>1. 0 \in S
  <2> DEFINE g == [n \in 0..0 |-> 16]
  <2>1. g = [n \in 0..0 |-> Def(g, n)]
    OBVIOUS
  <2> QED BY <2>1, Zenon
<1>2. ASSUME NEW k \in Nat, k \in S PROVE k + 1 \in S
  <2>1. PICK g : g = [n \in 0..k |-> Def(g, n)]
    BY <1>2, Zenon
  <2> DEFINE h == [n \in 0..k+1 |-> IF n <= k THEN g[n] ELSE Def(g, n)]
  <2>2. ASSUME NEW n \in 0..k+1 PROVE h[n] = Def(h, n)
    <3>1. CASE n = 0
      BY <3>1, <2>1
    <3>2. CASE n # 0
      <4>1. n - 1 \in 0..k /\ h[n-1] = g[n-1]
        BY <3>2
      <4>2. n <= k => g[n] = Def(g, n)
        BY <2>1
      <4> QED BY <3>2, <4>1, <4>2, Zenon
    <3> QED BY <3>1, <3>2, Zenon
  <2>3. h = [n \in 0..k+1 |-> Def(h, n)]
    BY <2>2, Zenon
  <2>4. k + 1 \in Nat
    OBVIOUS
  <2> HIDE DEF h
  <2> QED BY <2>3, <2>4, Zenon
<1>3. Nat \subseteq S
  BY <1>1, <1>2, Induction, Zenon
<1>4. f = [n \in 0..Len(argv) |-> Def(f, n)]
  BY <1>3, Zenon
<1>5. StringBytes(argv) = f[Len(argv)]
  BY Zenon DEF StringBytes
<1> HIDE DEF f
<1>6. f[0] = 16
  BY <1>4
<1>7. \A n \in 1..Len(argv) : f[n] = f[n-1] + argv[n] + 1
  BY <1>4
<1> QED BY <1>5, <1>6, <1>7, Zenon DEF StringBytesRun

TakeFramesRun(f, a, N) ==
  /\ f[0] = [alloc |-> a, frames |-> <<>>, short |-> "no"]
  /\ \A n \in 1..N : f[n] = Take(f[n-1])
  /\ TakeFrames(a, N) = f[N]

\* The frames in hand after each turn of a loop of mem_test.
LEMMA TakeFramesSteps ==
  ASSUME NEW a, NEW N, N \in Nat
  PROVE  \E f : TakeFramesRun(f, a, N)
<1> DEFINE Def(g, n) == IF n = 0 THEN [alloc |-> a, frames |-> <<>>, short |-> "no"] ELSE Take(g[n - 1])
           S == {k \in Nat : \E g : g = [n \in 0..k |-> Def(g, n)]}
           f == CHOOSE g : g = [n \in 0..N |-> Def(g, n)]
<1>1. 0 \in S
  <2> DEFINE g == [n \in 0..0 |-> [alloc |-> a, frames |-> <<>>, short |-> "no"]]
  <2>1. g = [n \in 0..0 |-> Def(g, n)]
    OBVIOUS
  <2> QED BY <2>1, Zenon
<1>2. ASSUME NEW k \in Nat, k \in S PROVE k + 1 \in S
  <2>1. PICK g : g = [n \in 0..k |-> Def(g, n)]
    BY <1>2, Zenon
  <2> DEFINE h == [n \in 0..k+1 |-> IF n <= k THEN g[n] ELSE Def(g, n)]
  <2>2. ASSUME NEW n \in 0..k+1 PROVE h[n] = Def(h, n)
    <3>1. CASE n = 0
      BY <3>1, <2>1
    <3>2. CASE n # 0
      <4>1. n - 1 \in 0..k /\ h[n-1] = g[n-1]
        BY <3>2
      <4>2. n <= k => g[n] = Def(g, n)
        BY <2>1
      <4> QED BY <3>2, <4>1, <4>2, Zenon
    <3> QED BY <3>1, <3>2, Zenon
  <2>3. h = [n \in 0..k+1 |-> Def(h, n)]
    BY <2>2, Zenon
  <2>4. k + 1 \in Nat
    OBVIOUS
  <2> HIDE DEF h
  <2> QED BY <2>3, <2>4, Zenon
<1>3. Nat \subseteq S
  BY <1>1, <1>2, Induction, Zenon
<1>4. f = [n \in 0..N |-> Def(f, n)]
  BY <1>3, Zenon
<1>5. TakeFrames(a, N) = f[N]
  BY Zenon DEF TakeFrames
<1> HIDE DEF f
<1>6. f[0] = [alloc |-> a, frames |-> <<>>, short |-> "no"]
  BY <1>4
<1>7. \A n \in 1..N : f[n] = Take(f[n-1])
  BY <1>4
<1> QED BY <1>5, <1>6, <1>7, Zenon DEF TakeFramesRun

GiveRun(f, a, frames) ==
  /\ f[0] = a
  /\ \A n \in 1..Len(frames) : f[n] = DeallocateFrame(f[n-1], frames[n])
  /\ Give(a, frames) = f[Len(frames)]

\* The allocator after each frame that mem_test gives back.
LEMMA GiveSteps ==
  ASSUME NEW a, NEW frames, Len(frames) \in Nat
  PROVE  \E f : GiveRun(f, a, frames)
<1> DEFINE Def(g, n) == IF n = 0 THEN a ELSE DeallocateFrame(g[n - 1], frames[n])
           S == {k \in Nat : \E g : g = [n \in 0..k |-> Def(g, n)]}
           f == CHOOSE g : g = [n \in 0..Len(frames) |-> Def(g, n)]
<1>1. 0 \in S
  <2> DEFINE g == [n \in 0..0 |-> a]
  <2>1. g = [n \in 0..0 |-> Def(g, n)]
    OBVIOUS
  <2> QED BY <2>1, Zenon
<1>2. ASSUME NEW k \in Nat, k \in S PROVE k + 1 \in S
  <2>1. PICK g : g = [n \in 0..k |-> Def(g, n)]
    BY <1>2, Zenon
  <2> DEFINE h == [n \in 0..k+1 |-> IF n <= k THEN g[n] ELSE Def(g, n)]
  <2>2. ASSUME NEW n \in 0..k+1 PROVE h[n] = Def(h, n)
    <3>1. CASE n = 0
      BY <3>1, <2>1
    <3>2. CASE n # 0
      <4>1. n - 1 \in 0..k /\ h[n-1] = g[n-1]
        BY <3>2
      <4>2. n <= k => g[n] = Def(g, n)
        BY <2>1
      <4> QED BY <3>2, <4>1, <4>2, Zenon
    <3> QED BY <3>1, <3>2, Zenon
  <2>3. h = [n \in 0..k+1 |-> Def(h, n)]
    BY <2>2, Zenon
  <2>4. k + 1 \in Nat
    OBVIOUS
  <2> HIDE DEF h
  <2> QED BY <2>3, <2>4, Zenon
<1>3. Nat \subseteq S
  BY <1>1, <1>2, Induction, Zenon
<1>4. f = [n \in 0..Len(frames) |-> Def(f, n)]
  BY <1>3, Zenon
<1>5. Give(a, frames) = f[Len(frames)]
  BY Zenon DEF Give
<1> HIDE DEF f
<1>6. f[0] = a
  BY <1>4
<1>7. \A n \in 1..Len(frames) : f[n] = DeallocateFrame(f[n-1], frames[n])
  BY <1>4
<1> QED BY <1>5, <1>6, <1>7, Zenon DEF GiveRun
-----------------------------------------------------------------------------
(* The allocator *)

Allocators == [bump : Nat, free : Seq(Nat), used : Int, freed : Int, oom : Int, got : Int]

\* S is exactly what the allocator has given away: as many frames as it counts, all below its
\* cursor and none on its free list, which names no frame twice.
Bal(a, S) ==
  /\ a \in Allocators
  /\ IsFiniteSet(S) /\ S \subseteq Nat /\ a.used = Cardinality(S)
  /\ \A f \in S : f < a.bump
  /\ Distinct(a.free)
  /\ \A i \in 1..Len(a.free) : a.free[i] < a.bump /\ a.free[i] \notin S

\* An allocator is its six fields.
LEMMA AllocatorFields ==
  ASSUME NEW a \in Allocators
  PROVE  /\ a = [bump |-> a.bump, free |-> a.free, used |-> a.used, freed |-> a.freed,
                 oom |-> a.oom, got |-> a.got]
         /\ a.bump \in Nat /\ a.free \in Seq(Nat) /\ a.used \in Int /\ a.freed \in Int
         /\ a.oom \in Int /\ a.got \in Int
BY Zenon DEF Allocators

\* Quotients and products of naturals.
LEMMA DivIsNat ==
  ASSUME NEW x \in Nat, NEW d \in Nat \ {0}
  PROVE  x \div d \in Nat
OBVIOUS

LEMMA TimesIsNat ==
  ASSUME NEW x \in Nat, NEW y \in Nat
  PROVE  x * y \in Nat
OBVIOUS

\* The address an allocation is aligned up to.
LEMMA RoundUpIsNat ==
  ASSUME NEW x \in Nat
  PROVE  RoundUp(x) \in Nat
<1>1. SIZE \in Nat \ {0} /\ x + SIZE - 1 \in Nat
  BY FramesAssumption
<1>2. (x + SIZE - 1) \div SIZE \in Nat
  BY <1>1, DivIsNat, Zenon
<1> QED BY <1>1, <1>2, TimesIsNat, Zenon DEF RoundUp

\* First picks a member.
LEMMA FirstIsIn ==
  ASSUME NEW T, T \subseteq Nat, T # {}
  PROVE  First(T) \in T
<1>1. \E x \in T : \A y \in T : x <= y
  BY LeastNat, Zenon
<1> QED BY <1>1, Zenon DEF First

LEMMA SeqElements ==
  ASSUME NEW T, NEW s \in Seq(T)
  PROVE  DOMAIN s = 1..Len(s) /\ Len(s) \in Nat /\ \A i \in 1..Len(s) : s[i] \in T
OBVIOUS

\* A usable entry of the memory map has natural bounds.
LEMMA UsableRegions ==
  ASSUME NEW i \in Usable
  PROVE  /\ i \in Nat
         /\ MemoryRegions[i].start \in Nat /\ MemoryRegions[i].end \in Nat
<1>1. i \in DOMAIN MemoryRegions
  BY Zenon DEF Usable
<1> DEFINE T == [start : Nat, end : Nat, usable : {"yes", "no"}]
<1>2. MemoryRegions \in Seq(T)
  BY FramesAssumption, Zenon
<1> HIDE DEF T
<1>3. i \in 1..Len(MemoryRegions) /\ Len(MemoryRegions) \in Nat /\ MemoryRegions[i] \in T
  BY <1>1, <1>2, SeqElements, Zenon
<1> USE DEF T
<1> QED BY <1>3

\* Where a region can serve from lies at or above the cursor.
LEMMA CandidateAbove ==
  ASSUME NEW a, a.bump \in Nat, NEW i \in Usable
  PROVE  Candidate(a, i) \in Nat /\ Candidate(a, i) >= a.bump
<1>1. RoundUp(MemoryRegions[i].start) \in Nat
  BY UsableRegions, RoundUpIsNat, Zenon
<1> QED BY <1>1 DEF Candidate, Larger

\* A span has as many frames as it is long, all at or above its start and below its end.
LEMMA SpanSize ==
  ASSUME NEW f \in Nat, NEW n \in Nat
  PROVE  /\ IsFiniteSet(Span(f, n)) /\ Cardinality(Span(f, n)) = n
         /\ Span(f, n) \subseteq Nat
         /\ \A x \in Span(f, n) : f <= x /\ x < f + n * SIZE
<1> DEFINE P(k) == /\ IsFiniteSet(Span(f, k)) /\ Cardinality(Span(f, k)) = k
                   /\ Span(f, k) \subseteq Nat
                   /\ \A x \in Span(f, k) : f <= x /\ x < f + k * SIZE
           S == {k \in Nat : P(k)}
<1>0. SIZE \in Nat \ {0}
  BY FramesAssumption, Zenon
<1>1. 0 \in S
  <2>1. Span(f, 0) = {}
    BY DEF Span
  <2> QED BY <2>1, FS_EmptySet, Zenon
<1>2. ASSUME NEW k \in Nat, k \in S PROVE k + 1 \in S
  <2> DEFINE x == f + k * SIZE
  <2>1. Span(f, k + 1) = Span(f, k) \cup {x}
    <3>1. 0..(k+1)-1 = (0..k-1) \cup {k}
      OBVIOUS
    <3> QED BY <3>1, Zenon DEF Span
  <2>2. k * SIZE \in Nat /\ (k + 1) * SIZE = k * SIZE + SIZE
    BY <1>0, TimesIsNat
  <2>3. x \notin Span(f, k) /\ x \in Nat /\ x >= f /\ x < f + (k + 1) * SIZE
    BY <1>0, <1>2, <2>2
  <2>4. IsFiniteSet(Span(f, k + 1)) /\ Cardinality(Span(f, k + 1)) = k + 1
    <3>1. IsFiniteSet(Span(f, k)) /\ Cardinality(Span(f, k)) = k
      BY <1>2, Zenon
    <3>2. Cardinality(Span(f, k) \cup {x}) = Cardinality(Span(f, k)) + 1
            /\ IsFiniteSet(Span(f, k) \cup {x})
      BY <3>1, <2>3, FS_AddElement, Zenon
    <3> QED BY <3>1, <3>2, <2>1, Zenon
  <2>5. ASSUME NEW y \in Span(f, k + 1) PROVE y \in Nat /\ f <= y /\ y < f + (k + 1) * SIZE
    <3>1. CASE y = x
      BY <3>1, <2>3, Zenon
    <3>2. CASE y \in Span(f, k)
      <4>1. y \in Nat /\ f <= y /\ y < f + k * SIZE
        BY <1>2, <3>2, Zenon
      <4> QED BY <4>1, <2>2, <1>0
    <3> QED BY <3>1, <3>2, <2>1, Zenon
  <2> QED BY <2>4, <2>5
<1>3. n \in S
  BY <1>1, <1>2, Induction, Zenon
<1> QED BY <1>3, Zenon

\* The size of a disjoint union.
LEMMA DisjointUnion ==
  ASSUME NEW S, NEW T, IsFiniteSet(S), IsFiniteSet(T), S \cap T = {}
  PROVE  IsFiniteSet(S \cup T) /\ Cardinality(S \cup T) = Cardinality(S) + Cardinality(T)
<1>1. Cardinality(S \cap T) = 0
  BY FS_EmptySet, Zenon
<1>2. Cardinality(S) \in Nat /\ Cardinality(T) \in Nat
  BY FS_CardinalityType, Zenon
<1>3. IsFiniteSet(S \cup T)
        /\ Cardinality(S \cup T) = Cardinality(S) + Cardinality(T) - Cardinality(S \cap T)
  BY FS_Union, Zenon
<1> QED BY <1>1, <1>2, <1>3

\* Counters other than the number of used frames do not matter to the balance.
LEMMA BalSame ==
  ASSUME NEW a, NEW S, Bal(a, S), NEW b \in Allocators,
         b.bump = a.bump, b.free = a.free, b.used = a.used
  PROVE  Bal(b, S)
BY Zenon DEF Bal

\* Frames between the old cursor and the new one are nobody's.
LEMMA BalAbove ==
  ASSUME NEW a, NEW S, Bal(a, S), NEW T, IsFiniteSet(T), T \subseteq Nat,
         NEW b \in Allocators, b.free = a.free, b.used = a.used + Cardinality(T),
         b.bump >= a.bump, \A x \in T : a.bump <= x /\ x < b.bump
  PROVE  S \cap T = {} /\ Bal(b, S \cup T)
<1>1. a \in Allocators /\ a.bump \in Nat /\ b.bump \in Nat
  BY Zenon DEF Bal, Allocators
<1>2. S \cap T = {}
  BY <1>1 DEF Bal
<1>3. IsFiniteSet(S \cup T) /\ b.used = Cardinality(S \cup T)
  BY <1>2, DisjointUnion, ZenonT(40) DEF Bal
<1>4. ASSUME NEW f \in S \cup T PROVE f < b.bump
  <2>1. ASSUME f \in S PROVE f < a.bump /\ f \in Nat
    BY <2>1, Zenon DEF Bal
  <2>2. ASSUME f \in S PROVE f < b.bump
    BY <2>1, <2>2, <1>1
  <2> QED BY <2>2, Zenon
<1>5. ASSUME NEW i \in 1..Len(b.free) PROVE b.free[i] < b.bump /\ b.free[i] \notin S \cup T
  <2>1. a.free[i] < a.bump /\ a.free[i] \notin S /\ a.free \in Seq(Nat)
    BY <1>1, Zenon DEF Bal, Allocators
  <2>2. a.free[i] \in Nat
    BY <2>1, SeqElements, Zenon
  <2> QED BY <2>1, <2>2, <1>1
<1> QED BY <1>2, <1>3, <1>4, <1>5, Zenon DEF Bal

\* A contiguous allocation that succeeds hands out a span of frames that nobody has.
LEMMA AllocateContiguousFresh ==
  ASSUME NEW a, NEW S, Bal(a, S), NEW n \in Nat, NEW b, b = AllocateContiguous(a, n)
  PROVE  /\ b \in Allocators
         /\ b.got = NoFrame => Bal(b, S)
         /\ b.got # NoFrame => /\ b.got \in Nat /\ n # 0
                               /\ S \cap Span(b.got, n) = {} /\ Bal(b, S \cup Span(b.got, n))
<1>1. a \in Allocators /\ a.bump \in Nat /\ a.used \in Int /\ a.oom \in Int
  BY Zenon DEF Bal, Allocators
<1>2. CASE n = 0
  <2>1. b = [a EXCEPT !.got = NoFrame]
    BY <1>2, Zenon DEF AllocateContiguous
  <2>2. b \in Allocators /\ b.bump = a.bump /\ b.free = a.free /\ b.used = a.used /\ b.got = NoFrame
    BY <2>1, <1>1, SMTT(40) DEF Allocators, NoFrame
  <2> QED BY <2>2, BalSame, Zenon
<1>3. CASE n # 0 /\ Roomy(a, n) = {}
  <2>1. b = [a EXCEPT !.got = NoFrame, !.oom = @ + 1]
    BY <1>3, Zenon DEF AllocateContiguous, Refused
  <2>2. b \in Allocators /\ b.bump = a.bump /\ b.free = a.free /\ b.used = a.used /\ b.got = NoFrame
    <3>1. b = [bump |-> a.bump, free |-> a.free, used |-> a.used, freed |-> a.freed,
               oom |-> a.oom + 1, got |-> NoFrame]
      BY <2>1, <1>1, AllocatorFields, ZenonT(40)
    <3>2. a.oom + 1 \in Int /\ NoFrame \in Int
      BY <1>1 DEF NoFrame
    <3>3. /\ a.bump \in Nat /\ a.free \in Seq(Nat) /\ a.used \in Int
          /\ a.freed \in Int
      BY <1>1, AllocatorFields, Zenon
    <3>4. b \in Allocators
      BY <3>1, <3>2, <3>3 DEF Allocators
    <3> QED BY <3>1, <3>4
  <2> QED BY <2>2, BalSame, Zenon
<1>4. CASE n # 0 /\ Roomy(a, n) # {}
  <2> DEFINE i == First(Roomy(a, n))
             c == Candidate(a, i)
             T == Span(c, n)
  <2>1. i \in Usable
    <3>1. Roomy(a, n) \subseteq Usable
      BY Zenon DEF Roomy
    <3>2. Roomy(a, n) \subseteq Nat
      BY <3>1, UsableRegions, Zenon
    <3> QED BY <3>1, <3>2, <1>4, FirstIsIn, Zenon
  <2>2. c \in Nat /\ c >= a.bump
    BY <2>1, <1>1, CandidateAbove, Zenon
  <2>3. n * SIZE \in Nat
    BY FramesAssumption, TimesIsNat, Zenon
  <2>4. b = [a EXCEPT !.got = c, !.bump = c + n * SIZE, !.used = @ + n]
    BY <1>4, Zenon DEF AllocateContiguous
  <2> HIDE DEF c
  <2>5. /\ b \in Allocators /\ b.got = c /\ b.bump = c + n * SIZE
        /\ b.used = a.used + n /\ b.free = a.free
    <3>1. c + n * SIZE \in Nat /\ a.used + n \in Int /\ c \in Int
      BY <2>2, <2>3, <1>1
    <3> QED BY <2>4, <3>1, <1>1, Zenon DEF Allocators
  <2>6. /\ IsFiniteSet(T) /\ Cardinality(T) = n /\ T \subseteq Nat
        /\ \A x \in T : c <= x /\ x < c + n * SIZE
    BY <2>2, SpanSize, Zenon
  <2>7. \A x \in T : a.bump <= x /\ x < b.bump
    BY <2>2, <2>5, <2>6, <1>1
  <2>8. b.bump >= a.bump
    BY <2>2, <2>3, <2>5, <1>1
  <2>9. S \cap T = {} /\ Bal(b, S \cup T)
    BY <2>5, <2>6, <2>7, <2>8, BalAbove
  <2> QED BY <2>2, <2>5, <2>9, <1>4 DEF NoFrame
<1> QED BY <1>2, <1>3, <1>4, Zenon

\* One frame: off the free list or a span of one.
LEMMA AllocateFrameFresh ==
  ASSUME NEW a, NEW S, Bal(a, S), NEW b, b = AllocateFrame(a)
  PROVE  /\ b \in Allocators
         /\ b.got = NoFrame => Bal(b, S)
         /\ b.got # NoFrame => b.got \in Nat /\ b.got \notin S /\ Bal(b, S \cup {b.got})
<1>1. a \in Allocators /\ a.bump \in Nat /\ a.used \in Int /\ a.free \in Seq(Nat)
  BY Zenon DEF Bal, Allocators
<1>2. CASE FreeHead(a) # 0
  <2>1. a.free # <<>>
    BY <1>2, Zenon DEF FreeHead
  <2> DEFINE f == Head(a.free)
  <2>2. /\ f = a.free[1] /\ 1 \in 1..Len(a.free) /\ f \in Nat /\ Tail(a.free) \in Seq(Nat)
        /\ Len(Tail(a.free)) = Len(a.free) - 1 /\ Len(a.free) \in Nat
        /\ \A i \in 1..Len(a.free)-1 : Tail(a.free)[i] = a.free[i+1]
    BY <1>1, <2>1
  <2>3. b = [a EXCEPT !.got = f, !.free = Tail(@), !.used = @ + 1]
    BY <1>2, Zenon DEF AllocateFrame
  <2> HIDE DEF f
  <2>4. /\ b \in Allocators /\ b.got = f /\ b.free = Tail(a.free)
        /\ b.used = a.used + 1 /\ b.bump = a.bump
    <3>1. b = [bump |-> a.bump, free |-> Tail(a.free), used |-> a.used + 1, freed |-> a.freed,
               oom |-> a.oom, got |-> f]
      <4>1. a = [bump |-> a.bump, free |-> a.free, used |-> a.used, freed |-> a.freed,
                 oom |-> a.oom, got |-> a.got]
        BY <1>1, AllocatorFields, Zenon
      <4> QED BY <2>3, <4>1, Zenon
    <3>2. /\ a.bump \in Nat /\ Tail(a.free) \in Seq(Nat) /\ a.used + 1 \in Int
          /\ a.freed \in Int /\ a.oom \in Int /\ f \in Int
      BY <1>1, <2>2, AllocatorFields
    <3>3. b \in Allocators
      BY <3>1, <3>2 DEF Allocators
    <3> QED BY <3>1, <3>3
  <2>5. f \notin S /\ f < a.bump
    BY <2>2, Zenon DEF Bal
  <2>6. IsFiniteSet(S \cup {f}) /\ b.used = Cardinality(S \cup {f}) /\ S \cup {f} \subseteq Nat
    <3>1. IsFiniteSet(S) /\ a.used = Cardinality(S) /\ S \subseteq Nat
      BY Zenon DEF Bal
    <3>2. IsFiniteSet(S \cup {f}) /\ Cardinality(S \cup {f}) = Cardinality(S) + 1
      BY <3>1, <2>5, FS_AddElement, Zenon
    <3> QED BY <3>1, <3>2, <2>2, <2>4, Zenon
  <2>7. \A x \in S \cup {f} : x < b.bump
    BY <2>4, <2>5, Zenon DEF Bal
  <2>8. Distinct(b.free)
    <3>1. SUFFICES ASSUME NEW i \in 1..Len(b.free), NEW j \in 1..Len(b.free), b.free[i] = b.free[j]
                   PROVE  i = j
      BY Zenon DEF Distinct
    <3>2. a.free[i+1] = a.free[j+1] /\ i+1 \in 1..Len(a.free) /\ j+1 \in 1..Len(a.free)
      BY <3>1, <2>2, <2>4
    <3>3. i+1 = j+1
      BY <3>2, Zenon DEF Bal, Distinct
    <3> QED BY <3>3, <2>2, <2>4
  <2>9. ASSUME NEW i \in 1..Len(b.free)
        PROVE  b.free[i] < b.bump /\ b.free[i] \notin S \cup {f}
    <3>1. b.free[i] = a.free[i+1] /\ i+1 \in 1..Len(a.free) /\ i + 1 # 1
      BY <2>2, <2>4
    <3>2. a.free[i+1] < a.bump /\ a.free[i+1] \notin S
      BY <3>1, Zenon DEF Bal
    <3>3. a.free[i+1] # a.free[1]
      BY <3>1, <2>2, Zenon DEF Bal, Distinct
    <3> QED BY <3>1, <3>2, <3>3, <2>2, <2>4, Zenon
  <2>10. Bal(b, S \cup {f})
    BY <2>4, <2>6, <2>7, <2>8, <2>9, Zenon DEF Bal
  <2> QED BY <2>2, <2>4, <2>5, <2>10 DEF NoFrame
<1>3. CASE FreeHead(a) = 0
  <2>1. b = AllocateContiguous(a, 1)
    BY <1>3, Zenon DEF AllocateFrame
  <2>2. ASSUME b.got \in Nat PROVE Span(b.got, 1) = {b.got}
    <3>1. 0..1-1 = {0} /\ b.got + 0 * SIZE = b.got
      BY <2>2, FramesAssumption
    <3> QED BY <3>1, Zenon DEF Span
  <2>3. /\ b \in Allocators
        /\ b.got = NoFrame => Bal(b, S)
        /\ b.got # NoFrame => /\ b.got \in Nat
                              /\ S \cap Span(b.got, 1) = {} /\ Bal(b, S \cup Span(b.got, 1))
    BY <2>1, AllocateContiguousFresh, Zenon
  <2>4. ASSUME b.got # NoFrame PROVE b.got \in Nat /\ b.got \notin S /\ Bal(b, S \cup {b.got})
    BY <2>2, <2>3, <2>4, Zenon
  <2> QED BY <2>3, <2>4, Zenon
<1> QED BY <1>2, <1>3, Zenon

LEMMA RoundUpAbove ==
  ASSUME NEW x \in Nat
  PROVE  RoundUp(x) >= x
<1> DEFINE q == (x + SIZE - 1) \div SIZE
<1>1. SIZE \in Nat \ {0} /\ x + SIZE - 1 \in Nat
  BY FramesAssumption
<1>2. q \in Nat /\ x + SIZE - 1 < (q + 1) * SIZE
  BY <1>1
<1>3. (q + 1) * SIZE = q * SIZE + SIZE /\ q * SIZE \in Nat
  BY <1>1, <1>2
<1> HIDE DEF q
<1>4. q * SIZE >= x
  BY <1>1, <1>2, <1>3
<1> QED BY <1>4, Zenon DEF RoundUp, q

\* A frame that is given back leaves the owned set and nothing else changes hands; frames below
\* a frame 0 on the free list are forgotten, which makes them nobody's for good.
LEMMA DeallocateFrameReturns ==
  ASSUME NEW a, NEW S, Bal(a, S), NEW f \in S, NEW b, b = DeallocateFrame(a, f)
  PROVE  Bal(b, S \ {f})
<1>1. a \in Allocators /\ a.free \in Seq(Nat) /\ a.bump \in Nat /\ f \in Nat /\ f < a.bump
  BY AllocatorFields, Zenon DEF Bal
<1> DEFINE old == IF FreeHead(a) = 0 THEN <<>> ELSE a.free
           new == <<f>> \o old
<1>2. old \in Seq(Nat) /\ Len(old) \in Nat /\ \A i \in 1..Len(old) : i \in 1..Len(a.free) /\ old[i] = a.free[i]
  BY <1>1
<1>3. b = [a EXCEPT !.free = new, !.used = @ - 1, !.freed = @ + 1, !.got = NoFrame]
  BY Zenon DEF DeallocateFrame
<1> HIDE DEF old
<1>4. /\ new \in Seq(Nat) /\ Len(new) = Len(old) + 1 /\ new[1] = f
      /\ \A i \in 2..Len(new) : new[i] = old[i-1]
  BY <1>1, <1>2
<1> HIDE DEF new
<1>5. b \in Allocators /\ b.free = new /\ b.used = a.used - 1 /\ b.bump = a.bump
  <2>1. b = [bump |-> a.bump, free |-> new, used |-> a.used - 1, freed |-> a.freed + 1,
             oom |-> a.oom, got |-> NoFrame]
    <3>1. a = [bump |-> a.bump, free |-> a.free, used |-> a.used, freed |-> a.freed,
               oom |-> a.oom, got |-> a.got]
      BY <1>1, AllocatorFields, Zenon
    <3> QED BY <1>3, <3>1, Zenon
  <2>2. /\ a.bump \in Nat /\ new \in Seq(Nat) /\ a.used - 1 \in Int
        /\ a.freed + 1 \in Int /\ a.oom \in Int /\ NoFrame \in Int
    BY <1>1, <1>4, AllocatorFields DEF NoFrame
  <2>3. b \in Allocators
    BY <2>1, <2>2 DEF Allocators
  <2> QED BY <2>1, <2>3
<1>6. IsFiniteSet(S \ {f}) /\ b.used = Cardinality(S \ {f}) /\ S \ {f} \subseteq Nat
  <2>1. IsFiniteSet(S) /\ a.used = Cardinality(S) /\ S \subseteq Nat
    BY Zenon DEF Bal
  <2>2. IsFiniteSet(S \ {f}) /\ Cardinality(S \ {f}) = Cardinality(S) - 1
    BY <2>1, FS_RemoveElement, Zenon
  <2> QED BY <2>1, <2>2, <1>5, Zenon
<1>7. \A x \in S \ {f} : x < b.bump
  BY <1>5, Zenon DEF Bal
<1>8. ASSUME NEW i \in 1..Len(old) PROVE old[i] < a.bump /\ old[i] \notin S /\ old[i] # f
  BY <1>2, Zenon DEF Bal
<1>9. ASSUME NEW i \in 1..Len(b.free) PROVE b.free[i] < b.bump /\ b.free[i] \notin S \ {f}
  <2>1. CASE i = 1
    BY <2>1, <1>1, <1>4, <1>5, Zenon
  <2>2. CASE i # 1
    <3>1. i - 1 \in 1..Len(old) /\ b.free[i] = old[i-1]
      BY <2>2, <1>2, <1>4, <1>5
    <3> QED BY <3>1, <1>5, <1>8, Zenon
  <2> QED BY <2>1, <2>2, Zenon
<1>10. Distinct(b.free)
  <2>1. SUFFICES ASSUME NEW i \in 1..Len(b.free), NEW j \in 1..Len(b.free), b.free[i] = b.free[j]
                 PROVE  i = j
    BY Zenon DEF Distinct
  <2>2. /\ i # 1 => i - 1 \in 1..Len(old) /\ b.free[i] = old[i-1]
        /\ j # 1 => j - 1 \in 1..Len(old) /\ b.free[j] = old[j-1]
    BY <1>2, <1>4, <1>5, SMTT(40)
  <2>3. i = 1 => b.free[i] = f
    BY <1>4, <1>5, Zenon
  <2>4. j = 1 => b.free[j] = f
    BY <1>4, <1>5, Zenon
  <2>5. CASE i = 1 \/ j = 1
    BY <2>1, <2>2, <2>3, <2>4, <2>5, <1>8, Zenon
  <2>6. CASE i # 1 /\ j # 1
    <3>1. /\ i - 1 \in 1..Len(a.free) /\ j - 1 \in 1..Len(a.free)
          /\ a.free[i-1] = a.free[j-1]
      BY <2>1, <2>2, <2>6, <1>2, Zenon
    <3>2. i - 1 = j - 1
      BY <3>1, Zenon DEF Bal, Distinct
    <3> QED BY <3>2
  <2> QED BY <2>5, <2>6, Zenon
<1> QED BY <1>5, <1>6, <1>7, <1>9, <1>10, Zenon DEF Bal

\* The page for the other CPUs is one nobody has.
LEMMA ReserveLowFrameFresh ==
  ASSUME NEW a, NEW S, Bal(a, S), NEW b, b = ReserveLowFrame(a)
  PROVE  /\ b.got = NoFrame => Bal(b, S)
         /\ b.got # NoFrame => b.got \in Nat /\ b.got \notin S /\ Bal(b, S \cup {b.got})
<1>1. a \in Allocators /\ a.bump \in Nat /\ a.used \in Int
  BY AllocatorFields, Zenon DEF Bal
<1>2. CASE LowRoomy(a) = {}
  <2>1. b = [a EXCEPT !.got = NoFrame]
    BY <1>2, Zenon DEF ReserveLowFrame
  <2>2. b \in Allocators /\ b.bump = a.bump /\ b.free = a.free /\ b.used = a.used /\ b.got = NoFrame
    <3>1. b = [bump |-> a.bump, free |-> a.free, used |-> a.used, freed |-> a.freed,
               oom |-> a.oom, got |-> NoFrame]
      BY <2>1, <1>1, AllocatorFields
    <3>2. NoFrame \in Int
      BY DEF NoFrame
    <3>3. b \in Allocators
      BY <3>1, <3>2, <1>1, AllocatorFields, Zenon DEF Allocators
    <3> QED BY <3>1, <3>3
  <2> QED BY <2>2, BalSame, Zenon
<1>3. CASE LowRoomy(a) # {}
  <2> DEFINE i == First(LowRoomy(a))
             c == LowCandidate(a, i)
  <2>1. i \in Usable
    <3>1. LowRoomy(a) \subseteq Usable
      BY Zenon DEF LowRoomy
    <3>2. LowRoomy(a) \subseteq Nat
      BY <3>1, UsableRegions, Zenon
    <3> QED BY <3>1, <3>2, <1>3, FirstIsIn, Zenon
  <2>2. c \in Nat /\ c >= RoundUp(a.bump)
    <3>1. Larger(MemoryRegions[i].start, SIZE) \in Nat
      BY <2>1, UsableRegions, FramesAssumption, Zenon DEF Larger
    <3>2. RoundUp(Larger(MemoryRegions[i].start, SIZE)) \in Nat /\ RoundUp(a.bump) \in Nat
      BY <3>1, <1>1, RoundUpIsNat, Zenon
    <3> QED BY <3>2 DEF LowCandidate, Larger
  <2>3. RoundUp(a.bump) >= a.bump
    BY <1>1, RoundUpAbove, Zenon
  <2>4. b = [a EXCEPT !.got = c, !.bump = c + SIZE, !.used = @ + 1]
    BY <1>3, Zenon DEF ReserveLowFrame
  <2> HIDE DEF c
  <2>5. /\ b \in Allocators /\ b.got = c /\ b.bump = c + SIZE
        /\ b.used = a.used + 1 /\ b.free = a.free
    <3>1. b = [bump |-> c + SIZE, free |-> a.free, used |-> a.used + 1, freed |-> a.freed,
               oom |-> a.oom, got |-> c]
      <4>1. a = [bump |-> a.bump, free |-> a.free, used |-> a.used, freed |-> a.freed,
                 oom |-> a.oom, got |-> a.got]
        BY <1>1, AllocatorFields, Zenon
      <4> QED BY <2>4, <4>1, Zenon
    <3>2. /\ c + SIZE \in Nat /\ a.free \in Seq(Nat) /\ a.used + 1 \in Int
          /\ a.freed \in Int /\ a.oom \in Int /\ c \in Int
      BY <2>2, <1>1, FramesAssumption, AllocatorFields
    <3>3. b \in Allocators
      BY <3>1, <3>2 DEF Allocators
    <3> QED BY <3>1, <3>3
  <2>6. IsFiniteSet({c}) /\ Cardinality({c}) = 1 /\ {c} \subseteq Nat
    BY <2>2, FS_Singleton, Zenon
  <2>7. c >= a.bump /\ b.bump >= a.bump /\ \A x \in {c} : a.bump <= x /\ x < b.bump
    <3>1. RoundUp(a.bump) \in Nat
      BY <1>1, RoundUpIsNat, Zenon
    <3>2. c >= a.bump
      BY <3>1, <2>2, <2>3, <1>1
    <3> QED BY <3>2, <2>2, <2>5, <1>1, FramesAssumption
  <2>8. S \cap {c} = {} /\ Bal(b, S \cup {c})
    BY <2>5, <2>6, <2>7, BalAbove
  <2>9. b.got \in Nat /\ b.got \notin S /\ Bal(b, S \cup {b.got})
    BY <2>2, <2>5, <2>8, Zenon
  <2>10. b.got # NoFrame
    BY <2>9 DEF NoFrame
  <2> QED BY <2>9, <2>10, Zenon
<1> QED BY <1>2, <1>3, Zenon

\* What mem_test has in hand after n turns: frames nobody else has, each once.
Hand(t, S, n) ==
  /\ t \in [alloc : Allocators, frames : Seq(Nat), short : {"yes", "no"}]
  /\ Distinct(t.frames) /\ S \cap Elems(t.frames) = {}
  /\ Bal(t.alloc, S \cup Elems(t.frames))
  /\ t.short = "no" => Len(t.frames) = n

\* One more frame in hand.
LEMMA AppendElems ==
  ASSUME NEW s \in Seq(Nat), NEW f \in Nat
  PROVE  /\ Append(s, f) \in Seq(Nat) /\ Len(Append(s, f)) = Len(s) + 1
         /\ Elems(Append(s, f)) = Elems(s) \cup {f}
         /\ Distinct(s) /\ f \notin Elems(s) => Distinct(Append(s, f))
<1>1. /\ Append(s, f) \in Seq(Nat) /\ Len(Append(s, f)) = Len(s) + 1 /\ Len(s) \in Nat
      /\ DOMAIN s = 1..Len(s) /\ DOMAIN Append(s, f) = 1..Len(s)+1
      /\ \A i \in 1..Len(s) : Append(s, f)[i] = s[i]
      /\ Append(s, f)[Len(s)+1] = f
  OBVIOUS
<1>2. Elems(Append(s, f)) = Elems(s) \cup {f}
  <2>1. 1..Len(s)+1 = 1..Len(s) \cup {Len(s)+1}
    BY <1>1
  <2> QED BY <1>1, <2>1 DEF Elems
<1>3. ASSUME Distinct(s), f \notin Elems(s) PROVE Distinct(Append(s, f))
  <2>1. \A i \in 1..Len(s) : s[i] # f
    BY <1>1, <1>3, Zenon DEF Elems
  <2>2. ASSUME NEW i \in 1..Len(s)+1, NEW j \in 1..Len(s)+1, Append(s, f)[i] = Append(s, f)[j]
        PROVE  i = j
    <3>1. CASE i \in 1..Len(s) /\ j \in 1..Len(s)
      BY <1>1, <1>3, <2>2, <3>1, Zenon DEF Distinct
    <3>2. CASE i = Len(s)+1 \/ j = Len(s)+1
      <4>1. i \in 1..Len(s) \/ i = Len(s)+1
        BY <1>1
      <4>2. j \in 1..Len(s) \/ j = Len(s)+1
        BY <1>1
      <4> QED BY <1>1, <2>1, <2>2, <3>2, <4>1, <4>2, Zenon
    <3> QED BY <3>1, <3>2, <1>1
  <2> QED BY <2>2, <1>1, Zenon DEF Distinct
<1> QED BY <1>1, <1>2, <1>3, Zenon

LEMMA HandOf ==
  ASSUME NEW a \in Allocators, NEW s \in Seq(Nat), NEW u \in {"yes", "no"}
  PROVE  LET t == [alloc |-> a, frames |-> s, short |-> u]
         IN  /\ t.alloc = a /\ t.frames = s /\ t.short = u
             /\ t \in [alloc : Allocators, frames : Seq(Nat), short : {"yes", "no"}]
BY Zenon

\* allocate_frame adds a frame that is nobody's to the hand, or the hand is short.
LEMMA TakeOne ==
  ASSUME NEW t, NEW S, NEW n \in Nat, Hand(t, S, n)
  PROVE  Hand(Take(t), S, n + 1)
<1>1. /\ t.alloc \in Allocators /\ t.frames \in Seq(Nat) /\ t.short \in {"yes", "no"}
      /\ t = [alloc |-> t.alloc, frames |-> t.frames, short |-> t.short]
      /\ t \in [alloc : Allocators, frames : Seq(Nat), short : {"yes", "no"}]
  BY Zenon DEF Hand
<1>2. CASE t.short = "yes"
  <2>1. Take(t) = t
    BY <1>2, Zenon DEF Take
  <2>2. t.short # "no"
    BY <1>2, Zenon
  <2> QED BY <2>1, <2>2, Zenon DEF Hand
<1>3. CASE t.short = "no"
  <2> DEFINE a == AllocateFrame(t.alloc)
             F == Elems(t.frames)
  <2>1. Bal(t.alloc, S \cup F) /\ S \cap F = {} /\ Distinct(t.frames) /\ Len(t.frames) = n
    BY <1>3, Zenon DEF Hand
  <2>2. /\ a \in Allocators
        /\ a.got = NoFrame => Bal(a, S \cup F)
        /\ a.got # NoFrame => a.got \in Nat /\ a.got \notin S \cup F /\ Bal(a, (S \cup F) \cup {a.got})
    BY <2>1, AllocateFrameFresh, Zenon
  <2>3. Take(t) = IF a.got = NoFrame THEN [t EXCEPT !.alloc = a, !.short = "yes"]
                  ELSE [t EXCEPT !.alloc = a, !.frames = Append(@, a.got)]
    BY <1>3, Zenon DEF Take
  <2> HIDE DEF a
  <2>4. CASE a.got = NoFrame
    <3>1. Take(t) = [alloc |-> a, frames |-> t.frames, short |-> "yes"]
      BY <2>3, <2>4, <1>1, Zenon
    <3>2. /\ Take(t).alloc = a /\ Take(t).frames = t.frames /\ Take(t).short # "no"
          /\ Take(t) \in [alloc : Allocators, frames : Seq(Nat), short : {"yes", "no"}]
      BY <3>1, <2>2, <1>1, HandOf
    <3> QED BY <3>2, <2>1, <2>2, <2>4, Zenon DEF Hand
  <2>5. CASE a.got # NoFrame
    <3> DEFINE s == Append(t.frames, a.got)
    <3>1. Take(t) = [alloc |-> a, frames |-> s, short |-> "no"]
      BY <2>3, <2>5, <1>1, <1>3, Zenon
    <3>2. /\ s \in Seq(Nat) /\ Len(s) = n + 1 /\ Elems(s) = F \cup {a.got} /\ Distinct(s)
      BY <2>1, <2>2, <2>5, <1>1, AppendElems, Zenon
    <3> HIDE DEF s
    <3>3. /\ Take(t).alloc = a /\ Take(t).frames = s
          /\ Take(t) \in [alloc : Allocators, frames : Seq(Nat), short : {"yes", "no"}]
      BY <3>1, <3>2, <2>2, HandOf
    <3>4. S \cup Elems(s) = (S \cup F) \cup {a.got} /\ S \cap Elems(s) = {}
      BY <3>2, <2>1, <2>2, <2>5, Zenon
    <3>5. Bal(a, S \cup Elems(s))
      BY <3>4, <2>2, <2>5, Zenon
    <3> QED BY <3>2, <3>3, <3>4, <3>5, Zenon DEF Hand
  <2> QED BY <2>4, <2>5, Zenon
<1> QED BY <1>1, <1>2, <1>3, Zenon

\* The frames of a loop of mem_test are new and distinct.
LEMMA TakeFramesFresh ==
  ASSUME NEW a, NEW S, Bal(a, S), NEW N \in Nat
  PROVE  Hand(TakeFrames(a, N), S, N)
<1>0. PICK f : TakeFramesRun(f, a, N)
  BY TakeFramesSteps, Zenon
<1>1. /\ f[0] = [alloc |-> a, frames |-> <<>>, short |-> "no"]
      /\ \A n \in 1..N : f[n] = Take(f[n-1])
      /\ TakeFrames(a, N) = f[N]
  BY <1>0, Zenon DEF TakeFramesRun
<1> DEFINE P == {n \in Nat : n <= N => Hand(f[n], S, n)}
<1>2. 0 \in P
  <2> DEFINE t == [alloc |-> a, frames |-> <<>>, short |-> "no"]
  <2>1. t.alloc = a /\ t.frames = <<>> /\ Len(t.frames) = 0
    BY Zenon
  <2>2. t \in [alloc : Allocators, frames : Seq(Nat), short : {"yes", "no"}]
    BY DEF Bal
  <2>3. Elems(t.frames) = {}
    BY DEF Elems
  <2>4. Distinct(t.frames)
    BY DEF Distinct
  <2>5. S \cup Elems(t.frames) = S /\ S \cap Elems(t.frames) = {}
    BY <2>3, Zenon
  <2> HIDE DEF t
  <2>6. Hand(t, S, 0)
    BY <2>1, <2>2, <2>4, <2>5, Zenon DEF Hand
  <2> QED BY <1>1, <2>6, Zenon DEF t
<1>3. ASSUME NEW n \in Nat, n \in P PROVE n + 1 \in P
  <2>1. ASSUME n + 1 <= N PROVE Hand(f[n+1], S, n+1)
    <3>1. n + 1 \in 1..N /\ (n + 1) - 1 = n /\ n <= N
      BY <2>1
    <3>2. f[n+1] = Take(f[n])
      BY <3>1, <1>1, Zenon
    <3>3. Hand(f[n], S, n)
      BY <1>3, <3>1, Zenon
    <3> QED BY <3>2, <3>3, TakeOne, Zenon
  <2> QED BY <2>1
<1>4. N \in P
  BY <1>2, <1>3, Induction, Zenon
<1> QED BY <1>1, <1>4

\* Giving back a list of owned frames, none twice, takes exactly those from the owned set.
LEMMA GiveReturns ==
  ASSUME NEW a, NEW S, Bal(a, S), NEW frames \in Seq(Nat), Distinct(frames),
         Elems(frames) \subseteq S
  PROVE  Bal(Give(a, frames), S \ Elems(frames))
<1> DEFINE N == Len(frames)
           Gone(n) == {frames[i] : i \in 1..n}
<1>1. N \in Nat /\ DOMAIN frames = 1..N
  OBVIOUS
<1>0. PICK f : GiveRun(f, a, frames)
  BY <1>1, GiveSteps, Zenon
<1>2. /\ f[0] = a
      /\ \A n \in 1..N : f[n] = DeallocateFrame(f[n-1], frames[n])
      /\ Give(a, frames) = f[N]
  BY <1>0, Zenon DEF GiveRun
<1> DEFINE P == {n \in Nat : n <= N => Bal(f[n], S \ Gone(n))}
<1>3. 0 \in P
  <2>1. S \ Gone(0) = S
    OBVIOUS
  <2> QED BY <2>1, <1>2, Zenon
<1>4. ASSUME NEW n \in Nat, n \in P PROVE n + 1 \in P
  <2>1. ASSUME n + 1 <= N PROVE Bal(f[n+1], S \ Gone(n+1))
    <3>1. n + 1 \in 1..N /\ (n + 1) - 1 = n /\ n <= N
      BY <2>1, <1>1
    <3>2. f[n+1] = DeallocateFrame(f[n], frames[n+1])
      BY <3>1, <1>2, Zenon
    <3>3. Bal(f[n], S \ Gone(n))
      BY <1>4, <3>1, Zenon
    <3>4. Gone(n+1) = Gone(n) \cup {frames[n+1]}
      <4>1. 1..n+1 = 1..n \cup {n+1}
        OBVIOUS
      <4> QED BY <4>1, Zenon
    <3>5. frames[n+1] \in S
      BY <3>1, <1>1, Zenon DEF Elems
    <3>6. frames[n+1] \notin Gone(n)
      <4>1. ASSUME NEW i \in 1..n, frames[i] = frames[n+1] PROVE FALSE
        <5>1. i \in 1..N /\ i # n + 1
          BY <3>1, <1>1
        <5> QED BY <5>1, <3>1, <4>1, Zenon DEF Distinct
      <4> QED BY <4>1, Zenon
    <3> HIDE DEF Gone
    <3>7. Bal(f[n+1], (S \ Gone(n)) \ {frames[n+1]})
      BY <3>2, <3>3, <3>5, <3>6, DeallocateFrameReturns, Zenon
    <3>8. (S \ Gone(n)) \ {frames[n+1]} = S \ Gone(n+1)
      BY <3>4, Zenon
    <3> QED BY <3>7, <3>8, Zenon
  <2> QED BY <2>1
<1>5. N \in P
  BY <1>1, <1>3, <1>4, Induction, Zenon
<1>6. Gone(N) = Elems(frames)
  BY <1>1, Zenon DEF Elems
<1> HIDE DEF Gone, N
<1>7. Bal(f[N], S \ Gone(N))
  BY <1>1, <1>5
<1> QED BY <1>2, <1>6, <1>7, Zenon
-----------------------------------------------------------------------------
(* Mapping *)

\* A memory is its six fields.
IsMem(m) == m = [alloc |-> m.alloc, pages |-> m.pages, tables |-> m.tables,
                 halt |-> m.halt, err |-> m.err, blame |-> m.blame]

PagesOf(m) == {m.pages[p].frame : p \in DOMAIN m.pages}
TablesOf(m) == {m.tables[t] : t \in DOMAIN m.tables}
Owned(m, S) == PagesOf(m) \cup TablesOf(m) \cup S

\* While the machine runs, the frames given away are those of the pages, those of the tables and
\* the set S, all different.
MemOk(m, S) ==
  /\ IsMem(m)
  /\ Running(m) =>
       /\ IsFiniteSet(DOMAIN m.pages) /\ IsFiniteSet(DOMAIN m.tables) /\ IsFiniteSet(S)
       /\ Bal(m.alloc, Owned(m, S))
       /\ Cardinality(Owned(m, S)) =
            Cardinality(DOMAIN m.pages) + Cardinality(DOMAIN m.tables) + Cardinality(S)

\* A table that is missing costs one frame, which becomes the table's.
LEMMA NextTableOk ==
  ASSUME NEW m, NEW S, NEW va, NEW k, k = NextTable(m, va), MemOk(m, S), Running(m)
  PROVE  MemOk(k, S) /\ k.pages = m.pages /\ k.err = m.err /\ k.halt \in {"no", "oom"}
<1> DEFINE O == Owned(m, S)
<1>1. /\ IsMem(m) /\ m.halt = "no" /\ IsFiniteSet(DOMAIN m.pages)
      /\ IsFiniteSet(DOMAIN m.tables) /\ IsFiniteSet(S) /\ Bal(m.alloc, O)
      /\ Cardinality(O) =
           Cardinality(DOMAIN m.pages) + Cardinality(DOMAIN m.tables) + Cardinality(S)
  BY Zenon DEF MemOk, Running
<1>2. CASE Table(va) \in DOMAIN m.tables
  BY <1>1, <1>2, Zenon DEF NextTable
<1>3. CASE Table(va) \notin DOMAIN m.tables
  <2> DEFINE a == AllocateFrame(m.alloc)
             t == Table(va)
  <2>1. k = IF a.got = NoFrame THEN [m EXCEPT !.alloc = a, !.halt = "oom"]
            ELSE [m EXCEPT !.alloc = a,
                           !.tables = [u \in DOMAIN @ \cup {t} |-> IF u = t THEN a.got ELSE @[u]]]
    BY <1>3, Zenon DEF NextTable
  <2>2. a.got # NoFrame => a.got \notin O /\ Bal(a, O \cup {a.got})
    BY <1>1, AllocateFrameFresh, Zenon
  <2> HIDE DEF a, t
  <2>3. CASE a.got = NoFrame
    <3>1. k = [alloc |-> a, pages |-> m.pages, tables |-> m.tables, halt |-> "oom",
               err |-> m.err, blame |-> m.blame]
      BY <2>1, <2>3, <1>1, Zenon DEF IsMem
    <3> QED BY <3>1 DEF MemOk, IsMem, Running
  <2>4. CASE a.got # NoFrame
    <3> DEFINE T == [u \in DOMAIN m.tables \cup {t} |-> IF u = t THEN a.got ELSE m.tables[u]]
    <3>1. k = [alloc |-> a, pages |-> m.pages, tables |-> T, halt |-> "no",
               err |-> m.err, blame |-> m.blame]
      BY <2>1, <2>4, <1>1, Zenon DEF IsMem
    <3>2. DOMAIN T = DOMAIN m.tables \cup {t}
      BY Zenon
    <3>3. {T[u] : u \in DOMAIN T} = TablesOf(m) \cup {a.got}
      <4>1. t \notin DOMAIN m.tables
        BY <1>3, Zenon DEF t
      <4> QED BY <4>1, <3>2, Zenon DEF TablesOf
    <3> HIDE DEF T
    <3>4. /\ k.pages = m.pages /\ k.tables = T /\ k.halt = "no" /\ k.alloc = a /\ k.err = m.err
          /\ IsMem(k)
      BY <3>1 DEF IsMem
    <3>5. Owned(k, S) = O \cup {a.got}
      BY <3>3, <3>4 DEF Owned, PagesOf, TablesOf
    <3>6. /\ IsFiniteSet(DOMAIN T)
          /\ Cardinality(DOMAIN T) = Cardinality(DOMAIN m.tables) + 1
      BY <1>1, <1>3, <3>2, FS_AddElement, Zenon DEF t
    <3>7. Cardinality(O \cup {a.got}) = Cardinality(O) + 1
      BY <1>1, <2>2, <2>4, FS_AddElement, Zenon DEF Bal
    <3>8. /\ Cardinality(DOMAIN m.pages) \in Nat /\ Cardinality(DOMAIN m.tables) \in Nat
          /\ Cardinality(S) \in Nat
      BY <1>1, FS_CardinalityType, Zenon
    <3>9. Cardinality(Owned(k, S)) =
            Cardinality(DOMAIN m.pages) + Cardinality(DOMAIN T) + Cardinality(S)
      <4> DEFINE x == Cardinality(O) 
                 y == Cardinality(O \cup {a.got})
                 u == Cardinality(DOMAIN T)
                 v == Cardinality(DOMAIN m.tables)
      <4> HIDE DEF x, y, u, v
      <4>1. y = x + 1 /\ u = v + 1 /\ x = Cardinality(DOMAIN m.pages) + v + Cardinality(S) /\ v \in Nat
        BY <3>6, <3>7, <3>8, <1>1, Zenon DEF x, y, u, v
      <4>2. y = Cardinality(DOMAIN m.pages) + u + Cardinality(S)
        BY <4>1, <3>8
      <4> QED BY <4>2, <3>5, Zenon DEF y, u
    <3>10. Bal(k.alloc, Owned(k, S))
      BY <2>2, <2>4, <3>4, <3>5, Zenon
    <3>11. MemOk(k, S)
      BY <1>1, <3>4, <3>6, <3>9, <3>10, Zenon DEF MemOk
    <3> QED BY <3>4, <3>11, Zenon
  <2> QED BY <2>3, <2>4, Zenon
<1> QED BY <1>2, <1>3, Zenon

\* Entering a page moves its frame from the hand to the page table.
LEMMA EnterPageOk ==
  ASSUME NEW m, NEW S, NEW f, NEW va, NEW owner, NEW write, NEW k,
         k = EnterPage(m, va, f, owner, write), MemOk(m, S \cup {f}), IsFiniteSet(S), f \notin S
  PROVE  MemOk(k, S)
<1>1. CASE ~Running(m)
  BY <1>1, Zenon DEF EnterPage, MemOk
<1>2. CASE Running(m) /\ va \in DOMAIN m.pages
  <2>1. k = [m EXCEPT !.halt = "mapped", !.blame = Clash(m.pages[va].owner, owner)]
    BY <1>2, Zenon DEF EnterPage
  <2>2. k = [alloc |-> m.alloc, pages |-> m.pages, tables |-> m.tables, halt |-> "mapped",
             err |-> m.err, blame |-> Clash(m.pages[va].owner, owner)]
    BY <2>1, Zenon DEF MemOk, IsMem
  <2> QED BY <2>2 DEF MemOk, IsMem, Running
<1>3. CASE Running(m) /\ va \notin DOMAIN m.pages
  <2> DEFINE T == [p \in DOMAIN m.pages \cup {va} |->
                     IF p = va THEN [frame |-> f, owner |-> owner, write |-> write]
                     ELSE m.pages[p]]
  <2>1. /\ IsMem(m) /\ m.halt = "no" /\ IsFiniteSet(DOMAIN m.pages)
        /\ IsFiniteSet(DOMAIN m.tables) /\ Bal(m.alloc, Owned(m, S \cup {f}))
        /\ Cardinality(Owned(m, S \cup {f})) =
             Cardinality(DOMAIN m.pages) + Cardinality(DOMAIN m.tables)
             + Cardinality(S \cup {f})
    BY <1>3, Zenon DEF MemOk, Running
  <2>2. k = [alloc |-> m.alloc, pages |-> T, tables |-> m.tables, halt |-> "no",
             err |-> m.err, blame |-> m.blame]
    <3>1. k = [m EXCEPT !.pages = T]
      BY <1>3, Zenon DEF EnterPage
    <3> HIDE DEF T
    <3> QED BY <3>1, <2>1, Zenon DEF IsMem
  <2>3. DOMAIN T = DOMAIN m.pages \cup {va}
    BY Zenon
  <2>4. {T[p].frame : p \in DOMAIN T} = PagesOf(m) \cup {f}
    BY <1>3, <2>3, Zenon DEF PagesOf
  <2> HIDE DEF T
  <2>5. k.pages = T /\ k.tables = m.tables /\ k.alloc = m.alloc /\ IsMem(k)
    BY <2>2 DEF IsMem
  <2>6. Owned(k, S) = Owned(m, S \cup {f})
    BY <2>4, <2>5 DEF Owned, PagesOf, TablesOf
  <2>7. IsFiniteSet(DOMAIN T) /\ Cardinality(DOMAIN T) = Cardinality(DOMAIN m.pages) + 1
    BY <1>3, <2>1, <2>3, FS_AddElement, Zenon
  <2>8. Cardinality(S \cup {f}) = Cardinality(S) + 1
    BY FS_AddElement, Zenon
  <2>9. /\ Cardinality(DOMAIN m.pages) \in Nat /\ Cardinality(DOMAIN m.tables) \in Nat
        /\ Cardinality(S) \in Nat
    BY <2>1, FS_CardinalityType, Zenon
  <2>10. Cardinality(Owned(k, S)) =
           Cardinality(DOMAIN T) + Cardinality(DOMAIN m.tables) + Cardinality(S)
    <3> DEFINE u == Cardinality(DOMAIN T)
               v == Cardinality(DOMAIN m.pages)
               w == Cardinality(S)
    <3> HIDE DEF u, v, w
    <3>1. /\ Cardinality(Owned(k, S)) = v + Cardinality(DOMAIN m.tables) + (w + 1)
          /\ u = v + 1 /\ v \in Nat /\ w \in Nat
      BY <2>1, <2>6, <2>7, <2>8, <2>9, Zenon DEF u, v, w
    <3>2. Cardinality(Owned(k, S)) = u + Cardinality(DOMAIN m.tables) + w
      BY <3>1, <2>9
    <3> QED BY <3>2, Zenon DEF u, w
  <2> QED BY <2>1, <2>5, <2>6, <2>7, <2>10, Zenon DEF MemOk
<1> QED BY <1>1, <1>2, <1>3, Zenon

\* map_page keeps the books: the page's frame and the table's are new, and each has one owner.
LEMMA MapPageOk ==
  ASSUME NEW m, NEW S, NEW va, NEW owner, NEW write, MemOk(m, S)
  PROVE  MemOk(MapPage(m, va, owner, write), S)
<1> DEFINE k == MapPage(m, va, owner, write)
<1>1. CASE ~Running(m)
  BY <1>1, Zenon DEF MapPage
<1>2. CASE Running(m)
  <2> DEFINE a == AllocateFrame(m.alloc)
             O == Owned(m, S)
             b == [m EXCEPT !.alloc = a]
  <2>1. /\ IsMem(m) /\ m.halt = "no" /\ IsFiniteSet(DOMAIN m.pages)
        /\ IsFiniteSet(DOMAIN m.tables) /\ IsFiniteSet(S) /\ Bal(m.alloc, O)
        /\ Cardinality(O) =
             Cardinality(DOMAIN m.pages) + Cardinality(DOMAIN m.tables) + Cardinality(S)
    BY <1>2, Zenon DEF MemOk, Running
  <2>2. k = IF a.got = NoFrame THEN [b EXCEPT !.halt = "oom"]
            ELSE EnterPage(NextTable(b, va), va, a.got, owner, write)
    BY <1>2, Zenon DEF MapPage, MapTo
  <2>3. a.got # NoFrame => a.got \notin O /\ Bal(a, O \cup {a.got})
    BY <2>1, AllocateFrameFresh, Zenon
  <2> HIDE DEF a
  <2>4. b = [alloc |-> a, pages |-> m.pages, tables |-> m.tables, halt |-> "no",
             err |-> m.err, blame |-> m.blame]
    BY <2>1 DEF IsMem
  <2> HIDE DEF b
  <2>5. CASE a.got = NoFrame
    <3>1. k = [alloc |-> a, pages |-> m.pages, tables |-> m.tables, halt |-> "oom",
               err |-> m.err, blame |-> m.blame]
      BY <2>2, <2>4, <2>5, Zenon
    <3> QED BY <3>1 DEF MemOk, IsMem, Running
  <2>6. CASE a.got # NoFrame
    <3> DEFINE R == S \cup {a.got}
    <3>1. a.got \notin S
      BY <2>3, <2>6, Zenon DEF Owned
    <3>2. IsFiniteSet(R) /\ Cardinality(R) = Cardinality(S) + 1
      BY <2>1, <3>1, FS_AddElement, Zenon
    <3>3. Cardinality(O \cup {a.got}) = Cardinality(O) + 1
      BY <2>1, <2>3, <2>6, FS_AddElement, Zenon DEF Bal
    <3>4. Owned(b, R) = O \cup {a.got}
      BY <2>4, Zenon DEF Owned, PagesOf, TablesOf
    <3>5. /\ Cardinality(DOMAIN m.pages) \in Nat /\ Cardinality(DOMAIN m.tables) \in Nat
          /\ Cardinality(S) \in Nat
      BY <2>1, FS_CardinalityType, Zenon
    <3>6. Cardinality(O \cup {a.got}) =
            Cardinality(DOMAIN m.pages) + Cardinality(DOMAIN m.tables) + Cardinality(R)
      <4> DEFINE w == Cardinality(S)
                 x == Cardinality(O)
                 y == Cardinality(O \cup {a.got})
                 z == Cardinality(R)
      <4> HIDE DEF w, x, y, z
      <4>1. y = x + 1 /\ z = w + 1 /\ w \in Nat
              /\ x = Cardinality(DOMAIN m.pages) + Cardinality(DOMAIN m.tables) + w
        BY <2>1, <3>2, <3>3, <3>5, Zenon DEF w, x, y, z
      <4>2. y = Cardinality(DOMAIN m.pages) + Cardinality(DOMAIN m.tables) + z
        BY <4>1, <3>5
      <4> QED BY <4>2, Zenon DEF y, z
    <3> HIDE DEF R
    <3>7. /\ IsMem(b) /\ b.halt = "no" /\ b.alloc = a /\ b.pages = m.pages
          /\ b.tables = m.tables
      BY <2>4, Zenon DEF IsMem
    <3>8. MemOk(b, R)
      BY <2>1, <2>3, <2>6, <3>2, <3>4, <3>6, <3>7, Zenon DEF MemOk
    <3>9. MemOk(NextTable(b, va), R)
      BY <3>7, <3>8, NextTableOk, Zenon DEF Running
    <3>10. MemOk(EnterPage(NextTable(b, va), va, a.got, owner, write), S)
      BY <2>1, <3>1, <3>9, EnterPageOk, Zenon DEF R
    <3> QED BY <2>2, <2>6, <3>10, Zenon
  <2> QED BY <2>5, <2>6, Zenon
<1> QED BY <1>1, <1>2, Zenon

\* So does a run of pages, in any order.
LEMMA MapEachOk ==
  ASSUME NEW m, NEW S, NEW vas, NEW owner, NEW write, MemOk(m, S), Len(vas) \in Nat
  PROVE  MemOk(MapEach(m, vas, owner, write), S)
<1>1. PICK f : MapEachRun(f, m, vas, owner, write)
  BY MapEachSteps, Zenon
<1>2. /\ f[0] = m
      /\ \A n \in 1..Len(vas) : f[n] = MapPage(f[n-1], vas[n], owner, write)
      /\ MapEach(m, vas, owner, write) = f[Len(vas)]
  BY <1>1, Zenon DEF MapEachRun
<1> DEFINE P == {n \in Nat : n <= Len(vas) => MemOk(f[n], S)}
<1>3. 0 \in P
  BY <1>2, Zenon
<1>4. ASSUME NEW n \in Nat, n \in P PROVE n + 1 \in P
  <2>1. ASSUME n + 1 <= Len(vas) PROVE MemOk(f[n+1], S)
    <3>1. n + 1 \in 1..Len(vas) /\ (n + 1) - 1 = n /\ n <= Len(vas)
      BY <2>1
    <3>2. f[n+1] = MapPage(f[n], vas[n+1], owner, write)
      BY <3>1, <1>2, Zenon
    <3>3. MemOk(f[n], S)
      BY <1>4, <3>1, Zenon
    <3> QED BY <3>2, <3>3, MapPageOk, Zenon
  <2> QED BY <2>1
<1>5. Len(vas) \in P
  BY <1>3, <1>4, Induction, Zenon
<1> QED BY <1>2, <1>5

\* k is m with pages of V mapped for owner: nothing else is new, and a panic over a page that
\* was mapped names the owner of a page of V, and owner.
Spread(m, k, V, owner) ==
  /\ IsMem(k) /\ k.err = m.err /\ k.halt \in {"no", "oom", "mapped"}
  /\ \A p \in DOMAIN k.pages : \/ p \in DOMAIN m.pages /\ k.pages[p].owner = m.pages[p].owner
                               \/ p \in V /\ k.pages[p].owner = owner
  /\ k.halt = "mapped" => \E p \in V \cap DOMAIN m.pages : k.blame = Clash(m.pages[p].owner, owner)

\* Mapping one page adds at most that page, for that owner.
LEMMA SpreadPage ==
  ASSUME NEW m, NEW k, NEW V, NEW owner, NEW va, NEW write, Spread(m, k, V, owner), va \notin V
  PROVE  Spread(m, MapPage(k, va, owner, write), V \cup {va}, owner)
<1> DEFINE h == MapPage(k, va, owner, write)
           W == V \cup {va}
<1>1. /\ IsMem(k) /\ k.err = m.err /\ k.halt \in {"no", "oom", "mapped"}
      /\ k.halt = "mapped" => \E p \in V \cap DOMAIN m.pages : k.blame = Clash(m.pages[p].owner, owner)
  BY Zenon DEF Spread
<1>2. \A p \in DOMAIN k.pages : \/ p \in DOMAIN m.pages /\ k.pages[p].owner = m.pages[p].owner
                                \/ p \in V /\ k.pages[p].owner = owner
  BY Zenon DEF Spread
<1>3. CASE ~Running(k)
  <2>1. h = k
    BY <1>3, Zenon DEF MapPage
  <2> QED BY <2>1, <1>1, <1>2, Zenon DEF Spread
<1>4. CASE Running(k)
  <2> DEFINE a == AllocateFrame(k.alloc)
             b == [k EXCEPT !.alloc = a]
             c == NextTable(b, va)
  <2>1. h = IF a.got = NoFrame THEN [b EXCEPT !.halt = "oom"]
            ELSE EnterPage(c, va, a.got, owner, write)
    BY <1>4, Zenon DEF MapPage, MapTo
  <2>2. b = [alloc |-> a, pages |-> k.pages, tables |-> k.tables, halt |-> "no",
             err |-> m.err, blame |-> k.blame]
    BY <1>1, <1>4 DEF IsMem, Running
  <2> HIDE DEF a, b
  <2>3. CASE a.got = NoFrame
    <3>1. h = [alloc |-> a, pages |-> k.pages, tables |-> k.tables, halt |-> "oom",
               err |-> m.err, blame |-> k.blame]
      BY <2>1, <2>2, <2>3, Zenon
    <3>2. IsMem(h) /\ h.err = m.err /\ h.halt = "oom" /\ h.pages = k.pages
      BY <3>1 DEF IsMem
    <3> QED BY <3>2, <1>2, Zenon DEF Spread
  <2>4. CASE a.got # NoFrame
    <3>1. h = EnterPage(c, va, a.got, owner, write)
      BY <2>1, <2>4, Zenon
    <3>2. IsMem(c) /\ c.pages = k.pages /\ c.err = m.err /\ c.halt \in {"no", "oom"}
      <4> DEFINE e == AllocateFrame(b.alloc)
                 t == Table(va)
                 T == [u \in DOMAIN b.tables \cup {t} |-> IF u = t THEN e.got ELSE b.tables[u]]
      <4>1. c = IF t \in DOMAIN b.tables THEN b
                ELSE IF e.got = NoFrame THEN [b EXCEPT !.alloc = e, !.halt = "oom"]
                ELSE [b EXCEPT !.alloc = e, !.tables = T]
        BY Zenon DEF NextTable
      <4> HIDE DEF e, t, T
      <4>2. \/ c = b
            \/ c = [alloc |-> e, pages |-> k.pages, tables |-> k.tables, halt |-> "oom",
                    err |-> m.err, blame |-> k.blame]
            \/ c = [alloc |-> e, pages |-> k.pages, tables |-> T, halt |-> "no",
                    err |-> m.err, blame |-> k.blame]
        BY <4>1, <2>2, Zenon
      <4> QED BY <4>2, <2>2 DEF IsMem
    <3> HIDE DEF c
    <3>3. CASE c.halt = "oom"
      <4>1. h = c
        BY <3>1, <3>3, Zenon DEF EnterPage, Running
      <4> QED BY <4>1, <3>2, <3>3, <1>2, Zenon DEF Spread
    <3>4. CASE c.halt = "no" /\ va \in DOMAIN k.pages
      <4>1. h = [alloc |-> c.alloc, pages |-> k.pages, tables |-> c.tables, halt |-> "mapped",
                 err |-> m.err, blame |-> Clash(k.pages[va].owner, owner)]
        <5> DEFINE o == Clash(k.pages[va].owner, owner)
                   x == c.alloc
                   y == c.tables
                   z == c.blame
        <5>1. h = [c EXCEPT !.halt = "mapped", !.blame = o]
          BY <3>1, <3>2, <3>4, Zenon DEF EnterPage, Running
        <5> HIDE DEF h, o
        <5>2. c = [alloc |-> x, pages |-> k.pages, tables |-> y, halt |-> "no",
                   err |-> m.err, blame |-> z]
          BY <3>2, <3>4, Zenon DEF IsMem
        <5> HIDE DEF x, y, z
        <5>3. h = [alloc |-> x, pages |-> k.pages, tables |-> y, halt |-> "mapped",
                   err |-> m.err, blame |-> o]
          BY <5>1, <5>2, Zenon
        <5> QED BY <5>3, Zenon DEF o, x, y
      <4>2. va \in DOMAIN m.pages /\ k.pages[va].owner = m.pages[va].owner
        BY <1>2, <3>4, Zenon
      <4>3. IsMem(h) /\ h.err = m.err /\ h.halt = "mapped" /\ h.pages = k.pages
              /\ h.blame = Clash(m.pages[va].owner, owner)
        BY <4>1, <4>2 DEF IsMem
      <4> QED BY <4>2, <4>3, <1>2, Zenon DEF Spread
    <3>5. CASE c.halt = "no" /\ va \notin DOMAIN k.pages
      <4> DEFINE T == [p \in DOMAIN k.pages \cup {va} |->
                         IF p = va THEN [frame |-> a.got, owner |-> owner, write |-> write]
                         ELSE k.pages[p]]
      <4>1. h = [alloc |-> c.alloc, pages |-> T, tables |-> c.tables, halt |-> "no",
                 err |-> m.err, blame |-> c.blame]
        <5>1. h = [c EXCEPT !.pages = T]
          BY <3>1, <3>2, <3>5, Zenon DEF EnterPage, Running
        <5> HIDE DEF T
        <5> QED BY <5>1, <3>2, <3>5, Zenon DEF IsMem
      <4>2. /\ DOMAIN T = DOMAIN k.pages \cup {va} /\ T[va].owner = owner
            /\ \A p \in DOMAIN k.pages : T[p] = k.pages[p]
        BY <3>5, Zenon
      <4> HIDE DEF T
      <4>3. IsMem(h) /\ h.err = m.err /\ h.halt = "no" /\ h.pages = T
        BY <4>1 DEF IsMem
      <4>4. \A p \in DOMAIN T : \/ p \in DOMAIN m.pages /\ T[p].owner = m.pages[p].owner
                                \/ p \in W /\ T[p].owner = owner
        BY <4>2, <1>2, Zenon
      <4> QED BY <4>3, <4>4, Zenon DEF Spread
    <3> QED BY <3>2, <3>3, <3>4, <3>5, Zenon
  <2> QED BY <2>3, <2>4, Zenon
<1> QED BY <1>3, <1>4, Zenon

\* Mapping pages one after the other adds at most those pages.
LEMMA SpreadEach ==
  ASSUME NEW m, IsMem(m), Running(m), NEW vas \in Seq(Int), Distinct(vas), NEW owner, NEW write
  PROVE  Spread(m, MapEach(m, vas, owner, write), Elems(vas), owner)
<1>0. Len(vas) \in Nat /\ DOMAIN vas = 1..Len(vas)
  OBVIOUS
<1>1. PICK f : MapEachRun(f, m, vas, owner, write)
  BY <1>0, MapEachSteps, Zenon
<1>2. /\ f[0] = m
      /\ \A n \in 1..Len(vas) : f[n] = MapPage(f[n-1], vas[n], owner, write)
      /\ MapEach(m, vas, owner, write) = f[Len(vas)]
  BY <1>1, Zenon DEF MapEachRun
<1> DEFINE V(n) == {vas[i] : i \in 1..n}
           P == {n \in Nat : n <= Len(vas) => Spread(m, f[n], V(n), owner)}
<1>3. 0 \in P
  <2>1. Spread(m, m, {}, owner)
    BY Zenon DEF Spread, Running
  <2>2. V(0) = {}
    OBVIOUS
  <2> QED BY <1>2, <2>1, <2>2, Zenon
<1>4. ASSUME NEW n \in Nat, n \in P PROVE n + 1 \in P
  <2>1. ASSUME n + 1 <= Len(vas) PROVE Spread(m, f[n+1], V(n+1), owner)
    <3>1. n + 1 \in 1..Len(vas) /\ (n + 1) - 1 = n /\ n <= Len(vas)
      BY <2>1, <1>0
    <3>2. f[n+1] = MapPage(f[n], vas[n+1], owner, write)
      BY <3>1, <1>2, Zenon
    <3>3. Spread(m, f[n], V(n), owner)
      BY <1>4, <3>1, Zenon
    <3>4. V(n+1) = V(n) \cup {vas[n+1]}
      <4>1. 1..n+1 = 1..n \cup {n+1}
        OBVIOUS
      <4> QED BY <4>1, Zenon
    <3>5. vas[n+1] \notin V(n)
      <4>1. ASSUME NEW i \in 1..n, vas[i] = vas[n+1] PROVE FALSE
        <5>1. i \in 1..Len(vas) /\ i # n + 1
          BY <3>1, <1>0
        <5> QED BY <5>1, <3>1, <4>1, Zenon DEF Distinct
      <4> QED BY <4>1, Zenon
    <3> HIDE DEF V
    <3> QED BY <3>2, <3>3, <3>4, <3>5, SpreadPage
  <2> QED BY <2>1
<1>5. Len(vas) \in P
  BY <1>0, <1>3, <1>4, Induction, Zenon
<1>6. V(Len(vas)) = Elems(vas)
  BY <1>0, Zenon DEF Elems
<1> HIDE DEF V
<1>7. Spread(m, f[Len(vas)], V(Len(vas)), owner)
  BY <1>0, <1>5
<1> QED BY <1>2, <1>6, <1>7, Zenon

\* A range of pages, upwards.
LEMMA SpreadRange ==
  ASSUME NEW m, IsMem(m), Running(m), NEW lo \in Int, NEW hi \in Int, lo <= hi,
         NEW owner, NEW write
  PROVE  Spread(m, MapRange(m, lo, hi, owner, write), lo..hi-1, owner)
<1> DEFINE vas == Upwards(lo, hi)
<1>1. vas \in Seq(Int) /\ Len(vas) = hi - lo /\ \A i \in 1..hi-lo : vas[i] = lo + i - 1
  BY DEF Upwards
<1>2. Elems(vas) = lo..hi-1
  <2>1. DOMAIN vas = 1..hi-lo
    BY Zenon DEF Upwards
  <2>2. ASSUME NEW p \in lo..hi-1 PROVE p \in Elems(vas)
    <3>1. p - lo + 1 \in 1..hi-lo /\ vas[p - lo + 1] = p
      BY <1>1
    <3> QED BY <3>1, <2>1, Zenon DEF Elems
  <2>3. ASSUME NEW i \in DOMAIN vas PROVE vas[i] \in lo..hi-1
    BY <1>1, <2>1
  <2> QED BY <2>2, <2>3, Zenon DEF Elems
<1>3. Distinct(vas)
  BY <1>1 DEF Distinct
<1> HIDE DEF vas
<1>4. Spread(m, MapEach(m, vas, owner, write), Elems(vas), owner)
  BY <1>1, <1>3, SpreadEach, Zenon
<1> QED BY <1>2, <1>4, Zenon DEF MapRange, vas

\* A range of pages takes as many frames as pages and tables were added.
LEMMA MapRangeOk ==
  ASSUME NEW m, NEW S, MemOk(m, S), NEW lo \in Int, NEW hi \in Int, lo <= hi,
         NEW owner, NEW write
  PROVE  MemOk(MapRange(m, lo, hi, owner, write), S)
<1>1. Len(Upwards(lo, hi)) \in Nat
  BY DEF Upwards
<1> QED BY <1>1, MapEachOk, Zenon DEF MapRange
-----------------------------------------------------------------------------
(* The loader *)

Segments == [lo : Nat, hi : Nat, write : {"yes", "no"}, data : {"ok", "short"}]

LEMMA SegmentTypes ==
  ASSUME NEW img \in Images
  PROVE  /\ Len(img.segs) \in Nat /\ DOMAIN img.segs = 1..Len(img.segs)
         /\ img.segs = <<>> <=> Len(img.segs) = 0
         /\ \A i \in 1..Len(img.segs) : img.segs[i].lo \in Nat /\ img.segs[i].hi \in Nat
<1>1. img.segs \in Seq(Segments)
  BY InputsAssumption, Zenon DEF Segments
<1>2. Len(img.segs) \in Nat /\ DOMAIN img.segs = 1..Len(img.segs)
        /\ \A i \in 1..Len(img.segs) : img.segs[i] \in Segments
  BY <1>1, SeqElements, Zenon
<1>3. img.segs = <<>> <=> Len(img.segs) = 0
  BY <1>1
<1> QED BY <1>2, <1>3, Zenon DEF Segments

\* The extent of an image: every segment lies between the lowest and the highest address.
LEMMA ImageExtent ==
  ASSUME NEW img \in Images, img.segs # <<>>
  PROVE  /\ Lowest(img) \in Nat /\ Highest(img) \in Nat
         /\ \A i \in 1..Len(img.segs) : Lowest(img) <= img.segs[i].lo /\ img.segs[i].hi <= Highest(img)
<1> DEFINE N == Len(img.segs)
           lo(i) == img.segs[i].lo
           hi(i) == img.segs[i].hi
<1>1. /\ N \in Nat /\ N # 0 /\ DOMAIN img.segs = 1..N
      /\ \A i \in 1..N : lo(i) \in Nat /\ hi(i) \in Nat
  BY SegmentTypes, Zenon
<1>2. \A s : s \in Elems(img.segs) <=> \E i \in 1..N : s = img.segs[i]
  BY <1>1, Zenon DEF Elems
<1>3. Lowest(img) \in Nat /\ \A i \in 1..N : Lowest(img) <= lo(i)
  <2> DEFINE T == {s.lo : s \in Elems(img.segs)}
  <2>1. T \subseteq Nat
    BY <1>1, <1>2
  <2>2. T # {}
    <3>1. 1 \in 1..N
      BY <1>1
    <3> QED BY <3>1, <1>2, Zenon
  <2>3. \E x \in T : \A y \in T : x <= y
    BY <2>1, <2>2, LeastNat, Zenon
  <2>4. \E x \in T : \A s \in Elems(img.segs) : x <= s.lo
    BY <2>3, Zenon
  <2>5. Lowest(img) \in T /\ \A s \in Elems(img.segs) : Lowest(img) <= s.lo
    BY <2>4, Zenon DEF Lowest
  <2> QED BY <2>1, <2>5, <1>2, Zenon
<1>4. Highest(img) \in Nat /\ \A i \in 1..N : hi(i) <= Highest(img)
  <2> DEFINE P == {n \in Nat : n # 0 /\ n <= N => \E i \in 1..n : \A j \in 1..n : hi(j) <= hi(i)}
             T == {s.hi : s \in Elems(img.segs)}
  <2>1. 0 \in P
    BY Zenon
  <2>2. ASSUME NEW n \in Nat, n \in P PROVE n + 1 \in P
    <3> HIDE DEF hi
    <3>1. ASSUME n + 1 <= N PROVE \E i \in 1..n+1 : \A j \in 1..n+1 : hi(j) <= hi(i)
      <4>0. 1..n+1 = 1..n \cup {n+1} /\ \A j \in 1..n+1 : hi(j) \in Nat
        BY <3>1, <1>1 DEF hi
      <4>1. CASE n = 0
        <5>1. 1..n+1 = {1}
          BY <4>1
        <5>2. hi(1) \in Nat
          BY <5>1, <4>0, Zenon
        <5>3. hi(1) <= hi(1)
          BY <5>2
        <5> QED BY <5>1, <5>3, ZenonT(40)
      <4>2. CASE n # 0
        <5>1. PICK i \in 1..n : \A j \in 1..n : hi(j) <= hi(i)
          BY <2>2, <3>1, <4>2, <1>1
        <5>2. CASE hi(n+1) <= hi(i)
          BY <5>1, <5>2, <4>0, Zenon
        <5>3. CASE ~(hi(n+1) <= hi(i))
          <6>1. \A j \in 1..n+1 : hi(j) <= hi(n+1)
            BY <5>1, <5>3, <4>0, SMTT(40)
          <6> QED BY <6>1, <4>0, Zenon
        <5> QED BY <5>2, <5>3, Zenon
      <4> QED BY <4>1, <4>2, Zenon
    <3> QED BY <3>1
  <2>3. N \in P
    BY <2>1, <2>2, <1>1, Induction, Zenon
  <2>4. PICK i \in 1..N : \A j \in 1..N : hi(j) <= hi(i)
    BY <2>3, <1>1
  <2>5. T \subseteq Nat
    BY <1>1, <1>2
  <2>6. hi(i) \in T /\ \A s \in Elems(img.segs) : s.hi <= hi(i)
    BY <2>4, <1>2, Zenon
  <2>7. Highest(img) \in T /\ \A s \in Elems(img.segs) : s.hi <= Highest(img)
    BY <2>6, Zenon DEF Highest
  <2> QED BY <2>5, <2>7, <1>2, Zenon
<1> QED BY <1>3, <1>4, Zenon

\* Every segment is mapped inside the region that spawn recorded for the image.
LEMMA SegmentsInRegion ==
  ASSUME NEW img \in Images, NEW r \in ElfRegion(img)
  PROVE  /\ r[1] \in Int /\ r[2] \in Int /\ LoadBase(img) \in Int
         /\ USER_TEXT_BASE <= r[1] /\ r[2] <= USER_MAX_ADDR
         /\ \A i \in 1..Len(img.segs) : /\ r[1] <= LoadBase(img) + img.segs[i].lo
                                        /\ LoadBase(img) + img.segs[i].hi <= r[2]
<1>1. img.segs # <<>>
  BY Zenon DEF ElfRegion
<1>2. /\ r = IF img.type = "DYN"
             THEN <<LNX_PIE_LOAD_BASE, LNX_PIE_LOAD_BASE + Highest(img) - Lowest(img)>>
             ELSE <<Lowest(img), Highest(img)>>
      /\ USER_TEXT_BASE <= r[1] /\ r[2] <= USER_MAX_ADDR
  BY <1>1, Zenon DEF ElfRegion
<1>3. /\ Lowest(img) \in Nat /\ Highest(img) \in Nat
      /\ \A i \in 1..Len(img.segs) : Lowest(img) <= img.segs[i].lo /\ img.segs[i].hi <= Highest(img)
  BY <1>1, ImageExtent, Zenon
<1>4. \A i \in 1..Len(img.segs) : img.segs[i].lo \in Nat /\ img.segs[i].hi \in Nat
  BY SegmentTypes, Zenon
<1>5. LNX_PIE_LOAD_BASE \in Nat
  BY LayoutAssumption, Zenon
<1>6. CASE img.type = "DYN"
  <2>1. LoadBase(img) = LNX_PIE_LOAD_BASE - Lowest(img)
    BY <1>6, Zenon DEF LoadBase
  <2>2. r[1] = LNX_PIE_LOAD_BASE /\ r[2] = LNX_PIE_LOAD_BASE + Highest(img) - Lowest(img)
    BY <1>2, <1>6, Zenon
  <2> QED BY <1>2, <1>3, <1>4, <1>5, <2>1, <2>2, SMTT(40)
<1>7. CASE img.type # "DYN"
  <2>1. LoadBase(img) = 0
    BY <1>7, Zenon DEF LoadBase
  <2>2. r[1] = Lowest(img) /\ r[2] = Highest(img)
    BY <1>2, <1>7, Zenon
  <2> QED BY <1>2, <1>3, <1>4, <2>1, <2>2
<1> QED BY <1>6, <1>7, Zenon

\* As Spread, for several runs of pages for one owner, which may meet each other.
Fill(m, k, V, owner) ==
  /\ IsMem(k) /\ k.halt \in {"no", "oom", "mapped"}
  /\ \A p \in DOMAIN k.pages : \/ p \in DOMAIN m.pages /\ k.pages[p].owner = m.pages[p].owner
                               \/ p \in V /\ k.pages[p].owner = owner
  /\ k.halt = "mapped" => \/ k.blame = Clash(owner, owner)
                          \/ \E p \in V \cap DOMAIN m.pages : k.blame = Clash(m.pages[p].owner, owner)

LEMMA FillThen ==
  ASSUME NEW m, NEW k, NEW h, NEW V, NEW W, NEW owner, Fill(m, k, V, owner),
         Spread(k, h, W, owner), W \subseteq V
  PROVE  Fill(m, h, V, owner)
<1>1. \A p \in DOMAIN h.pages : \/ p \in DOMAIN m.pages /\ h.pages[p].owner = m.pages[p].owner
                                \/ p \in V /\ h.pages[p].owner = owner
  BY Zenon DEF Fill, Spread
<1>2. ASSUME h.halt = "mapped"
      PROVE  \/ h.blame = Clash(owner, owner)
             \/ \E p \in V \cap DOMAIN m.pages : h.blame = Clash(m.pages[p].owner, owner)
  <2>1. PICK p \in W \cap DOMAIN k.pages : h.blame = Clash(k.pages[p].owner, owner)
    BY <1>2, Zenon DEF Spread
  <2>2. \/ p \in DOMAIN m.pages /\ k.pages[p].owner = m.pages[p].owner
        \/ k.pages[p].owner = owner
    BY Zenon DEF Fill
  <2> QED BY <2>1, <2>2, Zenon
<1> QED BY <1>1, <1>2, Zenon DEF Fill, Spread

\* A load that gives up keeps what it has mapped.
LEMMA FailKeeps ==
  ASSUME NEW k, IsMem(k), NEW why, NEW h, h = Fail(k, why)
  PROVE  /\ IsMem(h) /\ h.halt = k.halt /\ h.pages = k.pages /\ h.blame = k.blame
         /\ h.tables = k.tables /\ h.alloc = k.alloc /\ h.err = why
<1>1. h = [alloc |-> k.alloc, pages |-> k.pages, tables |-> k.tables, halt |-> k.halt,
           err |-> why, blame |-> k.blame]
  BY Zenon DEF Fail, IsMem
<1> QED BY <1>1 DEF IsMem

LEMMA FailFill ==
  ASSUME NEW m, NEW k, NEW V, NEW owner, Fill(m, k, V, owner), NEW why
  PROVE  Fill(m, Fail(k, why), V, owner)
<1>1. IsMem(k)
  BY Zenon DEF Fill
<1> QED BY <1>1, FailKeeps DEF Fill

LEMMA FailOk ==
  ASSUME NEW k, NEW S, MemOk(k, S), NEW why
  PROVE  MemOk(Fail(k, why), S)
<1> DEFINE h == Fail(k, why)
<1>1. /\ IsMem(h) /\ h.halt = k.halt /\ h.pages = k.pages /\ h.tables = k.tables
      /\ h.alloc = k.alloc
  BY FailKeeps DEF MemOk
<1> HIDE DEF h
<1>2. Owned(h, S) = Owned(k, S)
  BY <1>1, Zenon DEF Owned, PagesOf, TablesOf
<1>3. MemOk(h, S)
  BY <1>1, <1>2, Zenon DEF MemOk, Running
<1> QED BY <1>3, Zenon DEF h

LEMMA Subrange ==
  ASSUME NEW x \in Int, NEW y \in Int, NEW u \in Int, NEW v \in Int, u <= x, y <= v
  PROVE  x..y-1 \subseteq u..v-1
OBVIOUS

\* One segment of a load keeps the books and stays in the region.
LEMMA LoadSegmentFills ==
  ASSUME NEW m, NEW k, NEW S, NEW img \in Images, NEW r \in ElfRegion(img), NEW slot,
         NEW i \in 1..Len(img.segs),
         Fill(m, k, r[1]..r[2]-1, Owner("image", slot)), MemOk(k, S)
  PROVE  LET h == LoadSegment(k, LoadBase(img), img.segs[i], slot)
         IN  Fill(m, h, r[1]..r[2]-1, Owner("image", slot)) /\ MemOk(h, S)
<1> DEFINE seg == img.segs[i]
           base == LoadBase(img)
           h == LoadSegment(k, base, seg, slot)
           lo == base + seg.lo
           hi == base + seg.hi
           V == r[1]..r[2]-1
           o == Owner("image", slot)
<1>1. /\ seg.lo \in Nat /\ seg.hi \in Nat /\ base \in Int /\ r[1] \in Int /\ r[2] \in Int
      /\ r[1] <= lo /\ hi <= r[2]
  BY SegmentTypes, SegmentsInRegion, Zenon
<1>2. \/ h = k
      \/ \E why : h = Fail(k, why)
      \/ Good(k) /\ ~(seg.hi <= seg.lo) /\ h = MapRange(k, lo, hi, o, seg.write)
  BY Zenon DEF LoadSegment
<1>3. ASSUME Good(k), ~(seg.hi <= seg.lo), h = MapRange(k, lo, hi, o, seg.write)
      PROVE  Fill(m, h, V, o) /\ MemOk(h, S)
  <2>0. ~(seg.hi <= seg.lo)
    BY <1>3, Zenon
  <2>1. lo \in Int /\ hi \in Int /\ lo <= hi /\ lo..hi-1 \subseteq V
    <3> HIDE DEF seg, base, h
    <3>1. lo \in Int /\ hi \in Int /\ lo <= hi
      BY <1>1, <2>0
    <3> HIDE DEF lo, hi
    <3> QED BY <1>1, <3>1, Subrange
  <2>2. IsMem(k) /\ Running(k)
    BY <1>3, Zenon DEF MemOk, Good, Running
  <2> HIDE DEF lo, hi, o, V, seg
  <2>3. Spread(k, MapRange(k, lo, hi, o, seg.write), lo..hi-1, o)
    BY <2>1, <2>2, SpreadRange, Zenon
  <2>4. MemOk(MapRange(k, lo, hi, o, seg.write), S)
    BY <2>1, MapRangeOk, Zenon
  <2>5. Fill(m, k, V, o)
    BY Zenon DEF V, o
  <2>6. Fill(m, MapRange(k, lo, hi, o, seg.write), V, o)
    BY <2>1, <2>3, <2>5, FillThen, Zenon
  <2> QED BY <1>3, <2>4, <2>6, Zenon
<1>4. Fill(m, h, V, o) /\ MemOk(h, S)
  <2> HIDE DEF h, V, o, lo, hi, seg
  <2>1. Fill(m, k, V, o)
    BY Zenon DEF V, o
  <2>2. ASSUME NEW why, h = Fail(k, why) PROVE Fill(m, h, V, o) /\ MemOk(h, S)
    BY <2>1, <2>2, FailFill, FailOk, Zenon
  <2>3. CASE h = k
    BY <2>1, <2>3, Zenon
  <2> QED BY <1>2, <1>3, <2>2, <2>3, Zenon
<1> QED BY <1>4, Zenon

\* So does the whole load, wherever it fails.
LEMMA LoadElfFills ==
  ASSUME NEW m, NEW S, NEW img \in Images, NEW r \in ElfRegion(img), NEW slot,
         MemOk(m, S), m.halt \in {"no", "oom"}
  PROVE  LET h == LoadElf(m, img, slot)
         IN  Fill(m, h, r[1]..r[2]-1, Owner("image", slot)) /\ MemOk(h, S)
<1> DEFINE V == r[1]..r[2]-1
           o == Owner("image", slot)
           N == Len(img.segs)
           base == LoadBase(img)
           k == LoadSegments(m, img, slot)
<1>0. N \in Nat
  BY SegmentTypes, Zenon
<1>1. Fill(m, m, V, o)
  BY Zenon DEF Fill, MemOk
<1>2. Fill(m, k, V, o) /\ MemOk(k, S)
  <2>1. PICK f : LoadSegmentsRun(f, m, img, slot)
    BY <1>0, LoadSegmentsSteps, Zenon
  <2>2. /\ f[0] = m
        /\ \A n \in 1..N : f[n] = LoadSegment(f[n-1], base, img.segs[n], slot)
        /\ k = f[N]
    BY <2>1, Zenon DEF LoadSegmentsRun
  <2> HIDE DEF k
  <2> DEFINE P == {n \in Nat : n <= N => Fill(m, f[n], V, o) /\ MemOk(f[n], S)}
  <2>3. 0 \in P
    <3> HIDE DEF V, o
    <3> QED BY <2>2, <1>1, Zenon
  <2>4. ASSUME NEW n \in Nat, n \in P PROVE n + 1 \in P
    <3>1. ASSUME n + 1 <= N PROVE Fill(m, f[n+1], V, o) /\ MemOk(f[n+1], S)
      <4>1. n + 1 \in 1..N /\ (n + 1) - 1 = n /\ n <= N
        BY <3>1, <1>0
      <4>2. f[n+1] = LoadSegment(f[n], base, img.segs[n+1], slot)
        BY <4>1, <2>2, Zenon
      <4>3. Fill(m, f[n], V, o) /\ MemOk(f[n], S)
        <5> HIDE DEF V, o
        <5> QED BY <2>4, <4>1, Zenon
      <4> QED BY <4>1, <4>2, <4>3, LoadSegmentFills, Zenon
    <3> HIDE DEF V, o
    <3> QED BY <3>1
  <2>5. N \in P
    <3> HIDE DEF P
    <3> QED BY <1>0, <2>3, <2>4, Induction, Zenon
  <2> HIDE DEF V, o
  <2>6. N <= N
    BY <1>0
  <2>7. Fill(m, f[N], V, o) /\ MemOk(f[N], S)
    BY <2>5, <2>6, Zenon
  <2> QED BY <2>2, <2>7, Zenon
<1> HIDE DEF V, o, k, base
<1>3. LET h == LoadElf(m, img, slot)
      IN  \/ h = m \/ h = k \/ \E why : h = Fail(m, why) \/ h = Fail(k, why)
  BY Zenon DEF LoadElf, Relocate, k
<1>4. \A why : /\ Fill(m, Fail(m, why), V, o) /\ MemOk(Fail(m, why), S)
               /\ Fill(m, Fail(k, why), V, o) /\ MemOk(Fail(k, why), S)
  BY <1>1, <1>2, FailFill, FailOk, Zenon
<1>5. LET h == LoadElf(m, img, slot) IN Fill(m, h, V, o) /\ MemOk(h, S)
  BY <1>1, <1>2, <1>3, <1>4, Zenon
<1> QED BY <1>5, Zenon DEF V, o

\* mem_test ends with frames that nobody else has, or with none.
Ended(t, O) == Bal(t.alloc, O \cup t.held) /\ O \cap t.held = {}

\* A self-test that fails leaves with its frames; one that passes leaves with none.
LEMMA GaveUpEnds ==
  ASSUME NEW a, NEW O, NEW frames, NEW how, Bal(a, O \cup Elems(frames)), O \cap Elems(frames) = {}
  PROVE  Ended(GaveUp(a, frames, how), O)
BY Zenon DEF Ended, GaveUp

LEMMA MemTestEndEnds ==
  ASSUME NEW a, NEW O, Bal(a, O)
  PROVE  Ended(MemTestEnd(a), O)
<1>1. MemTestEnd(a).alloc = a /\ MemTestEnd(a).held = {}
  BY Zenon DEF MemTestEnd
<1>2. O \cup {} = O /\ O \cap {} = {}
  BY Zenon
<1> QED BY <1>1, <1>2, Zenon DEF Ended

\* Reversing, joining and splitting the frames in hand.
LEMMA ReversedElems ==
  ASSUME NEW s \in Seq(Nat), Distinct(s)
  PROVE  Reversed(s) \in Seq(Nat) /\ Distinct(Reversed(s)) /\ Elems(Reversed(s)) = Elems(s)
<1> DEFINE t == Reversed(s)
           N == Len(s)
<1>1. /\ N \in Nat /\ DOMAIN s = 1..N /\ DOMAIN t = 1..N
      /\ \A i \in 1..N : t[i] = s[N+1-i] /\ N+1-i \in 1..N /\ s[i] \in Nat
  BY DEF Reversed
<1>2. t \in Seq(Nat) /\ Len(t) = N
  <2>1. t = [i \in 1..N |-> s[N+1-i]] /\ \A i \in 1..N : s[N+1-i] \in Nat
    BY <1>1, Zenon DEF Reversed
  <2> QED BY <2>1, <1>1
<1> HIDE DEF t
<1>3. Distinct(t)
  <2>1. SUFFICES ASSUME NEW i \in 1..N, NEW j \in 1..N, t[i] = t[j] PROVE i = j
    BY <1>2, Zenon DEF Distinct
  <2>2. N+1-i = N+1-j
    BY <2>1, <1>1, Zenon DEF Distinct
  <2> QED BY <2>2, <1>1
<1>4. ASSUME NEW i \in 1..N PROVE t[i] \in Elems(s) /\ s[i] \in Elems(t)
  <2>1. t[i] = s[N+1-i] /\ N+1-i \in 1..N /\ t[N+1-i] = s[N+1-(N+1-i)] /\ N+1-(N+1-i) = i
    BY <1>1
  <2> QED BY <2>1, <1>1, Zenon DEF Elems
<1>5. Elems(t) = Elems(s)
  BY <1>4, <1>1, Zenon DEF Elems
<1> QED BY <1>2, <1>3, <1>5, Zenon DEF t

LEMMA ConcatElems ==
  ASSUME NEW s \in Seq(Nat), NEW t \in Seq(Nat), Distinct(s), Distinct(t), Elems(s) \cap Elems(t) = {}
  PROVE  /\ s \o t \in Seq(Nat) /\ Distinct(s \o t)
         /\ Elems(s \o t) = Elems(s) \cup Elems(t)
<1> DEFINE u == s \o t
           M == Len(s)
           N == Len(t)
<1>1. /\ M \in Nat /\ N \in Nat /\ u \in Seq(Nat) /\ Len(u) = M + N
      /\ DOMAIN s = 1..M /\ DOMAIN t = 1..N /\ DOMAIN u = 1..M+N
      /\ \A i \in 1..M : u[i] = s[i]
      /\ \A i \in M+1..M+N : u[i] = t[i-M]
  OBVIOUS
<1> HIDE DEF u
<1>2. ASSUME NEW i \in 1..M+N
      PROVE  \/ i \in 1..M /\ u[i] = s[i] /\ u[i] \in Elems(s)
             \/ i-M \in 1..N /\ u[i] = t[i-M] /\ u[i] \in Elems(t)
  <2>1. i \in 1..M \/ (i \in M+1..M+N /\ i-M \in 1..N)
    BY <1>1
  <2> QED BY <2>1, <1>1, Zenon DEF Elems
<1>3. ASSUME NEW i \in 1..M PROVE s[i] \in Elems(u)
  <2>1. i \in 1..M+N
    BY <1>1
  <2> QED BY <2>1, <1>1, Zenon DEF Elems
<1>4. ASSUME NEW i \in 1..N PROVE t[i] \in Elems(u)
  <2>1. i+M \in M+1..M+N /\ i+M \in 1..M+N /\ (i+M)-M = i
    BY <1>1
  <2>2. u[i+M] = t[(i+M)-M]
    BY <2>1, <1>1, Zenon
  <2>3. u[i+M] = t[i]
    BY <2>1, <2>2, Zenon
  <2> QED BY <2>1, <2>3, <1>1, ZenonT(40) DEF Elems
<1>5. Elems(u) = Elems(s) \cup Elems(t)
  <2>1. Elems(u) \subseteq Elems(s) \cup Elems(t)
    BY <1>1, <1>2, ZenonT(40) DEF Elems
  <2>2. Elems(s) \subseteq Elems(u) /\ Elems(t) \subseteq Elems(u)
    BY <1>1, <1>3, <1>4, Zenon DEF Elems
  <2> QED BY <2>1, <2>2, Zenon
<1>6. Distinct(u)
  <2>1. SUFFICES ASSUME NEW i \in 1..M+N, NEW j \in 1..M+N, u[i] = u[j] PROVE i = j
    BY <1>1, Zenon DEF Distinct
  <2>2. CASE i \in 1..M /\ j \in 1..M
    BY <2>1, <2>2, <1>1, Zenon DEF Distinct
  <2>3. CASE i-M \in 1..N /\ j-M \in 1..N
    <3>1. t[i-M] = t[j-M]
      <4>1. i \in M+1..M+N /\ j \in M+1..M+N
        BY <2>3, <1>1
      <4> QED BY <4>1, <2>1, <1>1, Zenon
    <3>2. i-M = j-M
      BY <3>1, <2>3, Zenon DEF Distinct
    <3> QED BY <3>2, <1>1
  <2> QED BY <2>1, <2>2, <2>3, <1>2, Zenon
<1> QED BY <1>1, <1>5, <1>6, Zenon DEF u

\* The first two frames and the rest.
LEMMA SplitElems ==
  ASSUME NEW s \in Seq(Nat), Distinct(s), Len(s) >= 2
  PROVE  LET two == SubSeq(s, 1, 2)
             rest == SubSeq(s, 3, Len(s))
         IN  /\ two \in Seq(Nat) /\ rest \in Seq(Nat) /\ Distinct(two) /\ Distinct(rest)
             /\ Elems(two) \cap Elems(rest) = {} /\ Elems(two) \cup Elems(rest) = Elems(s)
<1> DEFINE two == SubSeq(s, 1, 2)
           rest == SubSeq(s, 3, Len(s))
           N == Len(s)
<1>1. N \in Nat /\ DOMAIN s = 1..N /\ N >= 2 /\ \A i \in 1..N : s[i] \in Nat
  OBVIOUS
<1>2. /\ two \in Seq(Nat) /\ Len(two) = 2 /\ DOMAIN two = 1..2
      /\ \A i \in 1..2 : two[i] = s[i]
  BY <1>1
<1>3. /\ rest \in Seq(Nat) /\ Len(rest) = N-2 /\ DOMAIN rest = 1..N-2
      /\ \A i \in 1..N-2 : rest[i] = s[i+2]
  BY <1>1
<1> HIDE DEF two, rest
<1>4. Distinct(two)
  <2>1. ASSUME NEW i \in 1..2, NEW j \in 1..2, two[i] = two[j] PROVE i = j
    <3>1. i \in 1..N /\ j \in 1..N /\ s[i] = s[j]
      BY <2>1, <1>1, <1>2
    <3> QED BY <3>1, Zenon DEF Distinct
  <2> QED BY <2>1, <1>2, Zenon DEF Distinct
<1>5. Distinct(rest)
  <2>1. ASSUME NEW i \in 1..N-2, NEW j \in 1..N-2, rest[i] = rest[j] PROVE i = j
    <3>1. i+2 \in 1..N /\ j+2 \in 1..N /\ s[i+2] = s[j+2]
      BY <2>1, <1>1, <1>3
    <3>2. i+2 = j+2
      BY <3>1, Zenon DEF Distinct
    <3> QED BY <3>2, <1>1
  <2> QED BY <2>1, <1>3, Zenon DEF Distinct
<1>6. ASSUME NEW i \in 1..2, NEW j \in 1..N-2 PROVE two[i] # rest[j]
  <2>1. i \in 1..N /\ j+2 \in 1..N /\ i # j+2
    BY <1>1
  <2>2. two[i] = s[i] /\ rest[j] = s[j+2]
    BY <1>2, <1>3, Zenon
  <2> QED BY <1>1, <2>1, <2>2, Zenon DEF Distinct
<1>7. ASSUME NEW i \in 1..N PROVE s[i] \in Elems(two) \cup Elems(rest)
  <2>1. CASE i \in 1..2
    BY <2>1, <1>2, Zenon DEF Elems
  <2>2. CASE i-2 \in 1..N-2
    <3>1. rest[i-2] = s[(i-2)+2] /\ (i-2)+2 = i
      BY <2>2, <1>1, <1>3
    <3> QED BY <3>1, <2>2, <1>3, Zenon DEF Elems
  <2> QED BY <2>1, <2>2, <1>1
<1>8. ASSUME NEW i \in 1..2 PROVE two[i] \in Elems(s)
  <2>1. i \in 1..N /\ two[i] = s[i]
    BY <1>1, <1>2
  <2> QED BY <2>1, <1>1, Zenon DEF Elems
<1>9. ASSUME NEW i \in 1..N-2 PROVE rest[i] \in Elems(s)
  <2>1. i+2 \in 1..N /\ rest[i] = s[i+2]
    BY <1>1, <1>3
  <2> QED BY <2>1, <1>1, Zenon DEF Elems
<1>10. Elems(two) \cap Elems(rest) = {}
  <2>1. SUFFICES ASSUME NEW x, x \in Elems(two), x \in Elems(rest)
                 PROVE  FALSE
    BY Zenon
  <2>2. PICK i \in 1..2 : x = two[i]
    BY <2>1, <1>2, Zenon DEF Elems
  <2>3. PICK j \in 1..N-2 : x = rest[j]
    BY <2>1, <1>3, Zenon DEF Elems
  <2> QED BY <1>6, <2>2, <2>3, Zenon
<1>11. Elems(two) \cup Elems(rest) = Elems(s)
  <2>1. Elems(s) \subseteq Elems(two) \cup Elems(rest)
    BY <1>1, <1>7, Zenon DEF Elems
  <2>2. Elems(two) \subseteq Elems(s) /\ Elems(rest) \subseteq Elems(s)
    BY <1>2, <1>3, <1>8, <1>9, Zenon DEF Elems
  <2> QED BY <2>1, <2>2, Zenon
<1> QED BY <1>2, <1>3, <1>4, <1>5, <1>10, <1>11, Zenon DEF two, rest

\* The whole self-test, however it ends, leaves the books right.
LEMMA MemTestEnds ==
  ASSUME NEW O, Bal(mem.alloc, O)
  PROVE  Ended(MemTestFresh(TakeFrames(mem.alloc, TestFrames)), O)
<1> DEFINE t == TakeFrames(mem.alloc, TestFrames)
           a1 == Give(t.alloc, Reversed(t.frames))
           u == TakeFrames(a1, TestFrames)
           two == SubSeq(u.frames, 1, 2)
           rest == SubSeq(u.frames, 3, TestFrames)
           a2 == Give(u.alloc, two)
           v == TakeFrames(a2, 2)
           all == rest \o v.frames
<1>0. TestFrames \in Nat /\ TestFrames >= 2
  BY InputsAssumption, Zenon
<1>1. Hand(t, O, TestFrames)
  BY <1>0, TakeFramesFresh, Zenon
<1> HIDE DEF t
<1>2. /\ t.frames \in Seq(Nat) /\ Distinct(t.frames) /\ O \cap Elems(t.frames) = {}
      /\ Bal(t.alloc, O \cup Elems(t.frames))
  BY <1>1, Zenon DEF Hand
<1>3. \A how : Ended(GaveUp(t.alloc, t.frames, how), O)
  BY <1>2, GaveUpEnds, Zenon
<1>4. Bal(a1, O)
  <2>1. /\ Reversed(t.frames) \in Seq(Nat) /\ Distinct(Reversed(t.frames))
        /\ Elems(Reversed(t.frames)) = Elems(t.frames)
    BY <1>2, ReversedElems, Zenon
  <2>2. Bal(a1, (O \cup Elems(t.frames)) \ Elems(Reversed(t.frames)))
    BY <1>2, <2>1, GiveReturns, Zenon
  <2>3. (O \cup Elems(t.frames)) \ Elems(Reversed(t.frames)) = O
    BY <1>2, <2>1, Zenon
  <2> QED BY <2>2, <2>3, Zenon
<1> HIDE DEF a1
<1>5. Hand(u, O, TestFrames)
  BY <1>0, <1>4, TakeFramesFresh, Zenon
<1> HIDE DEF u
<1>6. /\ u.frames \in Seq(Nat) /\ Distinct(u.frames) /\ O \cap Elems(u.frames) = {}
      /\ Bal(u.alloc, O \cup Elems(u.frames))
  BY <1>5, Zenon DEF Hand
<1>7. \A how : Ended(GaveUp(u.alloc, u.frames, how), O)
  BY <1>6, GaveUpEnds, Zenon
<1>8. ASSUME u.short # "yes" PROVE Ended(MemTestLifo(v, u.frames), O)
  <2>1. Len(u.frames) = TestFrames /\ Len(u.frames) >= 2
    <3>1. u.short \in {"yes", "no"} /\ (u.short = "no" => Len(u.frames) = TestFrames)
      BY <1>5, Zenon DEF Hand
    <3> QED BY <3>1, <1>8, <1>0, Zenon
  <2>2. /\ two \in Seq(Nat) /\ rest \in Seq(Nat) /\ Distinct(two) /\ Distinct(rest)
        /\ Elems(two) \cap Elems(rest) = {} /\ Elems(two) \cup Elems(rest) = Elems(u.frames)
    BY <1>5, <2>1, SplitElems, Zenon DEF Hand
  <2> HIDE DEF two, rest
  <2>3. Bal(a2, O \cup Elems(rest))
    <3>1. Bal(u.alloc, O \cup Elems(u.frames)) /\ O \cap Elems(u.frames) = {}
      BY <1>5, Zenon DEF Hand
    <3>2. Elems(two) \subseteq O \cup Elems(u.frames)
      BY <2>2, Zenon
    <3>3. Bal(a2, (O \cup Elems(u.frames)) \ Elems(two))
      BY <3>1, <3>2, <2>2, GiveReturns, Zenon
    <3>4. (O \cup Elems(u.frames)) \ Elems(two) = O \cup Elems(rest)
      BY <3>1, <2>2, Zenon
    <3> QED BY <3>3, <3>4, Zenon
  <2> HIDE DEF a2
  <2>4. Hand(v, O \cup Elems(rest), 2)
    BY <2>3, TakeFramesFresh, Zenon
  <2> HIDE DEF v
  <2>5. /\ v.frames \in Seq(Nat) /\ Distinct(v.frames)
        /\ (O \cup Elems(rest)) \cap Elems(v.frames) = {}
        /\ Bal(v.alloc, (O \cup Elems(rest)) \cup Elems(v.frames))
    BY <2>4, Zenon DEF Hand
  <2>6. all \in Seq(Nat) /\ Distinct(all) /\ Elems(all) = Elems(rest) \cup Elems(v.frames)
    BY <2>2, <2>5, ConcatElems
  <2> HIDE DEF all
  <2>7. O \cap Elems(all) = {}
    BY <2>2, <2>5, <2>6, <1>5, Zenon DEF Hand
  <2>8. Bal(v.alloc, O \cup Elems(all))
    <3>1. (O \cup Elems(rest)) \cup Elems(v.frames) = O \cup Elems(all)
      BY <2>6, Zenon
    <3> QED BY <3>1, <2>5, Zenon
  <2>9. \A how : Ended(GaveUp(v.alloc, all, how), O)
    BY <2>7, <2>8, GaveUpEnds, Zenon
  <2>10. Bal(Give(v.alloc, all), O)
    <3>1. Bal(Give(v.alloc, all), (O \cup Elems(all)) \ Elems(all))
      BY <2>6, <2>8, GiveReturns, Zenon
    <3>2. (O \cup Elems(all)) \ Elems(all) = O
      BY <2>7, Zenon
    <3> QED BY <3>1, <3>2, Zenon
  <2>11. Ended(MemTestEnd(Give(v.alloc, all)), O)
    BY <2>10, MemTestEndEnds, Zenon
  <2>12. \/ \E how : MemTestLifo(v, u.frames) = GaveUp(v.alloc, all, how)
         \/ MemTestLifo(v, u.frames) = MemTestEnd(Give(v.alloc, all))
    BY Zenon DEF MemTestLifo, all, rest
  <2> QED BY <2>9, <2>11, <2>12, Zenon
<1>9. \/ \E how : MemTestFresh(t) = GaveUp(t.alloc, t.frames, how)
      \/ \E how : MemTestFresh(t) = GaveUp(u.alloc, u.frames, how)
      \/ u.short # "yes" /\ MemTestFresh(t) = MemTestLifo(v, u.frames)
  BY Zenon DEF MemTestFresh, MemTestAgain, v, a2, two, u, a1
<1>10. Ended(MemTestFresh(t), O)
  BY <1>3, <1>7, <1>8, <1>9, Zenon
<1> QED BY <1>10, Zenon DEF t
=============================================================================
