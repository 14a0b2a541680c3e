---------------------------- MODULE ProcessProofs ---------------------------
(***************************************************************************)
(* What every memory map, image set and layout within the assumptions      *)
(* keeps true of the processes' frames, pages and first stacks.            *)
(***************************************************************************)
EXTENDS MemoryProofs

-----------------------------------------------------------------------------
(* One owner *)

\* The inductive invariant behind OneOwner.
FramesInv ==
  /\ MemOk(mem, low \cup held)
  /\ IsFiniteSet(low) /\ IsFiniteSet(held) /\ low \cap held = {}

\* A list without repetitions has as many elements as entries.
LEMMA CardElems ==
  ASSUME NEW s \in Seq(Nat), Distinct(s)
  PROVE  IsFiniteSet(Elems(s)) /\ Cardinality(Elems(s)) = Len(s)
<1> DEFINE N == Len(s)
           V(n) == {s[i] : i \in 1..n}
           P == {n \in Nat : n <= N => IsFiniteSet(V(n)) /\ Cardinality(V(n)) = n}
<1>0. N \in Nat /\ DOMAIN s = 1..N
  OBVIOUS
<1>1. 0 \in P
  <2>1. V(0) = {}
    OBVIOUS
  <2> QED BY <2>1, FS_EmptySet, Zenon
<1>2. ASSUME NEW n \in Nat, n \in P PROVE n + 1 \in P
  <2>1. ASSUME n + 1 <= N PROVE IsFiniteSet(V(n+1)) /\ Cardinality(V(n+1)) = n + 1
    <3>1. n + 1 \in 1..N /\ n <= N
      BY <2>1, <1>0
    <3>2. IsFiniteSet(V(n)) /\ Cardinality(V(n)) = n
      BY <1>2, <3>1, Zenon
    <3>3. V(n+1) = V(n) \cup {s[n+1]}
      <4>1. 1..n+1 = 1..n \cup {n+1}
        OBVIOUS
      <4> QED BY <4>1, Zenon
    <3>4. s[n+1] \notin V(n)
      <4>1. ASSUME NEW i \in 1..n, s[i] = s[n+1] PROVE FALSE
        <5>1. i \in 1..N /\ i # n + 1
          BY <3>1, <1>0
        <5> QED BY <5>1, <3>1, <4>1, Zenon DEF Distinct
      <4> QED BY <4>1, Zenon
    <3> DEFINE W == V(n)
               U == V(n+1)
               x == s[n+1]
    <3>5. IsFiniteSet(W) /\ Cardinality(W) = n /\ U = W \cup {x} /\ x \notin W
      BY <3>2, <3>3, <3>4, Zenon
    <3> HIDE DEF W, U, x
    <3>6. IsFiniteSet(U) /\ Cardinality(U) = Cardinality(W) + 1
      BY <3>5, FS_AddElement, Zenon
    <3> QED BY <3>5, <3>6, Zenon DEF U
  <2> QED BY <2>1
<1>3. N \in P
  BY <1>0, <1>1, <1>2, Induction, Zenon
<1>4. V(N) = Elems(s)
  BY <1>0, Zenon DEF Elems
<1> HIDE DEF V
<1>5. IsFiniteSet(V(N)) /\ Cardinality(V(N)) = N
  BY <1>0, <1>3
<1> QED BY <1>4, <1>5, Zenon

\* The balance of the allocator gives both counts of OneOwner.
LEMMA FramesInvOneOwner == FramesInv => OneOwner
<1> SUFFICES ASSUME FramesInv, Running(mem) PROVE OneOwner
  BY Zenon DEF OneOwner
<1> DEFINE S == low \cup held
           O == Owned(mem, S)
           F == Elems(mem.alloc.free)
<1>1. /\ Bal(mem.alloc, O) /\ IsFiniteSet(low) /\ IsFiniteSet(held) /\ low \cap held = {}
      /\ Cardinality(O) =
           Cardinality(DOMAIN mem.pages) + Cardinality(DOMAIN mem.tables) + Cardinality(S)
      /\ IsFiniteSet(DOMAIN mem.pages) /\ IsFiniteSet(DOMAIN mem.tables)
  BY Zenon DEF FramesInv, MemOk
<1>2. Cardinality(S) = Cardinality(low) + Cardinality(held)
  BY <1>1, DisjointUnion, Zenon
<1>3. mem.alloc.used = Cardinality(O) /\ IsFiniteSet(O) /\ mem.alloc.free \in Seq(Nat)
        /\ Distinct(mem.alloc.free)
  BY <1>1, AllocatorFields, Zenon DEF Bal
<1>4. O \cap F = {}
  <2>1. DOMAIN mem.alloc.free = 1..Len(mem.alloc.free)
    BY <1>3
  <2> HIDE DEF O
  <2> QED BY <2>1, <1>1, Zenon DEF Bal, Elems
<1>5. IsFiniteSet(F) /\ Cardinality(F) = Len(mem.alloc.free)
  BY <1>3, CardElems, Zenon
<1>6. Cardinality(O \cup F) = mem.alloc.used + Len(mem.alloc.free)
  <2> HIDE DEF O, F
  <2>1. Cardinality(O \cup F) = Cardinality(O) + Cardinality(F)
    BY <1>3, <1>4, <1>5, DisjointUnion, Zenon
  <2> QED BY <2>1, <1>3, <1>5, Zenon
<1>7. O \cup F = PageFrames \cup TableFrames \cup low \cup held \cup Elems(mem.alloc.free)
  BY Zenon DEF Owned, PagesOf, TablesOf, PageFrames, TableFrames
<1>8. /\ Cardinality(DOMAIN mem.pages) \in Nat /\ Cardinality(DOMAIN mem.tables) \in Nat
      /\ Cardinality(low) \in Nat /\ Cardinality(held) \in Nat
  BY <1>1, FS_CardinalityType, Zenon
<1>9. mem.alloc.used = Cardinality(DOMAIN mem.pages) + Cardinality(DOMAIN mem.tables)
                       + Cardinality(low) + Cardinality(held)
  <2> HIDE DEF O, S
  <2>1. mem.alloc.used = Cardinality(DOMAIN mem.pages) + Cardinality(DOMAIN mem.tables)
                         + (Cardinality(low) + Cardinality(held))
    BY <1>1, <1>2, <1>3, Zenon
  <2> QED BY <2>1, <1>8
<1> HIDE DEF O, F
<1> QED BY <1>6, <1>7, <1>9, Zenon DEF OneOwner
-----------------------------------------------------------------------------
(* Where pages lie *)

\* Page p of an owner lies where the layout wants it, given the recorded regions rs and n slots.
Placed(p, o, rs, n) ==
  /\ p \in Int
  /\ \/ o.kind = "heap" /\ HEAP_START <= p
     \/ o.kind = "exit" /\ p < USER_TEXT_BASE
     \/ /\ o.kind = "stack" /\ o.slot \in 0..n-1
        /\ StackTop(o.slot) - USER_STACK_PAGES <= p /\ p < StackTop(o.slot)
     \/ /\ o.kind = "image" /\ o.slot \in 0..n-1 /\ USER_TEXT_BASE <= p /\ p < USER_MAX_ADDR
        /\ \A r \in rs : r.slot = o.slot => r.lo <= p /\ p < r.hi
     \/ o.kind \in {"brk", "mmap"} /\ LINUX_HEAP_BASE <= p /\ p < USER_MAX_ADDR

Cursors(e) == /\ e = [brk |-> e.brk, mmap |-> e.mmap]
              /\ e.brk \in Int /\ LINUX_HEAP_BASE <= e.brk
              /\ e.mmap \in Int /\ LINUX_MMAP_BASE <= e.mmap

\* The inductive invariant behind PanicBlame.
PlacesInv ==
  /\ slots \in 0..MaxSlots
  /\ \A r \in regions : r.slot \in 0..slots-1 /\ r.lo \in Int /\ r.hi \in Int
  /\ \A pid \in DOMAIN linuxMem : Cursors(linuxMem[pid])
  /\ Running(mem) =>
       \A p \in DOMAIN mem.pages : Placed(p, mem.pages[p].owner, regions, slots)
  /\ PanicBlame

ProcessInv == FramesInv /\ PlacesInv

\* The order of the layout.
LEMMA LayoutOrder ==
  /\ USER_TRAMPOLINE \in Nat /\ USER_TEXT_BASE \in Nat /\ USER_MAX_ADDR \in Nat
  /\ LINUX_HEAP_BASE \in Nat /\ LINUX_MMAP_BASE \in Nat /\ STACK_BASE \in Nat
  /\ STACK_GAP \in Nat /\ USER_STACK_PAGES \in Nat /\ HEAP_START \in Nat /\ HEAP_PAGES \in Nat
  /\ MaxSlots \in Nat
  /\ USER_TRAMPOLINE < USER_TEXT_BASE /\ USER_TEXT_BASE <= LINUX_HEAP_BASE
  /\ LINUX_HEAP_BASE <= LINUX_MMAP_BASE /\ LINUX_MMAP_BASE <= USER_MAX_ADDR
  /\ USER_MAX_ADDR + USER_STACK_PAGES <= STACK_BASE /\ USER_STACK_PAGES <= STACK_GAP
  /\ STACK_BASE <= HEAP_START
<1>1. MaxSlots \in Nat /\ STACK_GAP \in Nat
  BY LayoutAssumption, Zenon
<1>2. MaxSlots * STACK_GAP \in Nat
  BY <1>1, TimesIsNat, Zenon
<1>3. STACK_BASE <= HEAP_START
  BY <1>2, LayoutAssumption
<1> QED BY <1>3, LayoutAssumption, Zenon DEF LINUX_MMAP_END

LEMMA TimesGap ==
  ASSUME NEW x \in Nat, NEW y \in Nat, NEW g \in Nat, x < y
  PROVE  x * g + g <= y * g /\ x * g \in Nat /\ y * g \in Nat
<1> DEFINE d == y - x - 1
<1>1. d \in Nat /\ y = x + 1 + d
  OBVIOUS
<1> HIDE DEF d
<1>2. y * g = x * g + g + d * g
  BY <1>1
<1>3. x * g \in Nat /\ d * g \in Nat /\ y * g \in Nat
  BY <1>1, TimesIsNat, Zenon
<1> QED BY <1>2, <1>3

\* A stack lies above the programs and below the heap, and below the next stacks.
LEMMA StackPlace ==
  ASSUME NEW n \in Nat, n < MaxSlots
  PROVE  /\ StackTop(n) \in Int /\ StackTop(n) <= HEAP_START
         /\ USER_MAX_ADDR <= StackTop(n) - USER_STACK_PAGES
         /\ \A k \in 0..n-1 : /\ StackTop(k) \in Int
                              /\ StackTop(k) <= StackTop(n) - USER_STACK_PAGES
<1>1. /\ n * STACK_GAP + STACK_GAP <= MaxSlots * STACK_GAP
      /\ n * STACK_GAP \in Nat /\ MaxSlots * STACK_GAP \in Nat
  BY LayoutOrder, TimesGap, Zenon
<1>2. StackTop(n) = STACK_BASE + n * STACK_GAP
  BY Zenon DEF StackTop
<1>3. STACK_BASE + MaxSlots * STACK_GAP <= HEAP_START
  BY LayoutAssumption, Zenon
<1>4. ASSUME NEW k \in 0..n-1
      PROVE  StackTop(k) \in Int /\ StackTop(k) <= StackTop(n) - USER_STACK_PAGES
  <2>1. k * STACK_GAP + STACK_GAP <= n * STACK_GAP /\ k * STACK_GAP \in Nat
    BY LayoutOrder, TimesGap
  <2>2. StackTop(k) = STACK_BASE + k * STACK_GAP
    BY Zenon DEF StackTop
  <2> QED BY <1>1, <1>2, <2>1, <2>2, LayoutOrder
<1> QED BY <1>1, <1>2, <1>3, <1>4, LayoutOrder

\* A page at an address of programs is an image's or an arena's.
LEMMA PlacedLow ==
  ASSUME NEW p, NEW o, NEW rs, NEW n \in 0..MaxSlots, Placed(p, o, rs, n),
         USER_TEXT_BASE <= p, p < USER_MAX_ADDR
  PROVE  \/ o.kind \in {"brk", "mmap"}
         \/ o.kind = "image" /\ \A r \in rs : r.slot = o.slot => r.lo <= p /\ p < r.hi
<1>1. p \in Int
  BY Zenon DEF Placed
<1>2. ~(o.kind = "heap" /\ HEAP_START <= p)
  BY <1>1, LayoutOrder
<1>3. ~(o.kind = "exit" /\ p < USER_TEXT_BASE)
  BY <1>1, LayoutOrder
<1>4. ASSUME o.slot \in 0..n-1, StackTop(o.slot) - USER_STACK_PAGES <= p PROVE FALSE
  <2>1. o.slot \in Nat /\ o.slot < MaxSlots
    BY <1>4, LayoutOrder
  <2>2. StackTop(o.slot) \in Int /\ USER_MAX_ADDR <= StackTop(o.slot) - USER_STACK_PAGES
    BY <2>1, StackPlace, Zenon
  <2> QED BY <1>1, <1>4, <2>2, LayoutOrder
<1> QED BY <1>2, <1>3, <1>4, Zenon DEF Placed

\* Boot: the low frame, the heap pages, the trampoline page.
LEMMA ProcessInit == Init => ProcessInv
<1> SUFFICES ASSUME Init PROVE ProcessInv
  BY Zenon
<1> DEFINE a == ReserveLowFrame(NewAllocator)
           m0 == [EmptyMem EXCEPT !.alloc = a]
           m1 == InitHeap(m0)
           ho == Owner("heap", 0)
           eo == Owner("exit", 0)
           end == HEAP_START + HEAP_PAGES + 1
<1>1. /\ mem = InitTrampoline(m1) /\ low = IF a.got = NoFrame THEN {} ELSE {a.got}
      /\ regions = {} /\ slots = 0 /\ linuxMem = <<>> /\ held = {}
  BY Zenon DEF Init
<1>2. Bal(NewAllocator, {})
  <2>1. NewAllocator \in Allocators
    BY DEF NewAllocator, Allocators, NoFrame
  <2>2. NewAllocator.used = 0 /\ NewAllocator.free = <<>>
    BY Zenon DEF NewAllocator
  <2>3. Len(NewAllocator.free) = 0 /\ 1..0 = {}
    BY <2>2
  <2>4. Distinct(NewAllocator.free)
    BY <2>3, Zenon DEF Distinct
  <2>5. IsFiniteSet({}) /\ Cardinality({}) = 0
    BY FS_EmptySet, Zenon
  <2> QED BY <2>1, <2>2, <2>3, <2>4, <2>5, Zenon DEF Bal
<1>3. Bal(a, low)
  <2>1. /\ a.got = NoFrame => Bal(a, {})
        /\ a.got # NoFrame => Bal(a, {} \cup {a.got})
    BY <1>2, ReserveLowFrameFresh, Zenon
  <2> HIDE DEF a
  <2>2. {} \cup {a.got} = {a.got}
    BY Zenon
  <2> QED BY <2>1, <2>2, <1>1, Zenon
<1> HIDE DEF a
<1>4. m0 = [alloc |-> a, pages |-> <<>>, tables |-> <<>>, halt |-> "no", err |-> "ok",
            blame |-> Clash(NoOwner, NoOwner)]
  BY DEF EmptyMem
<1> HIDE DEF m0
<1>5. IsMem(m0) /\ m0.halt = "no" /\ m0.pages = <<>> /\ m0.tables = <<>> /\ m0.alloc = a
  BY <1>4, Zenon DEF IsMem
<1>6. MemOk(m0, low \cup held)
  <2>1. low \cup held = low
    BY <1>1, Zenon
  <2>2. DOMAIN m0.pages = {} /\ DOMAIN m0.tables = {}
    BY <1>5
  <2>3. Owned(m0, low) = low
    BY <2>2, Zenon DEF Owned, PagesOf, TablesOf
  <2>4. IsFiniteSet(low) /\ Cardinality(low) \in Nat
    BY <1>3, FS_CardinalityType, Zenon DEF Bal
  <2>5. IsFiniteSet(DOMAIN m0.pages) /\ Cardinality(DOMAIN m0.pages) = 0
          /\ IsFiniteSet(DOMAIN m0.tables) /\ Cardinality(DOMAIN m0.tables) = 0
    BY <2>2, FS_EmptySet, Zenon
  <2>6. Cardinality(low) = 0 + 0 + Cardinality(low)
    BY <2>4
  <2>7. Cardinality(Owned(m0, low)) =
          Cardinality(DOMAIN m0.pages) + Cardinality(DOMAIN m0.tables) + Cardinality(low)
    BY <2>3, <2>5, <2>6, Zenon
  <2>8. MemOk(m0, low)
    BY <1>3, <1>5, <2>3, <2>4, <2>5, <2>7, Zenon DEF MemOk
  <2> QED BY <2>1, <2>8, Zenon
<1>7. end \in Int /\ HEAP_START \in Int /\ HEAP_START <= end
  BY LayoutOrder
<1> HIDE DEF end
<1>8. Spread(m0, m1, HEAP_START..end-1, ho) /\ MemOk(m1, low \cup held)
  <2>1. m1 = MapRange(m0, HEAP_START, end, ho, "yes")
    BY Zenon DEF InitHeap, end
  <2>2. Spread(m0, MapRange(m0, HEAP_START, end, ho, "yes"), HEAP_START..end-1, ho)
    BY <1>5, <1>7, SpreadRange, Zenon DEF Running
  <2>3. MemOk(MapRange(m0, HEAP_START, end, ho, "yes"), low \cup held)
    BY <1>6, <1>7, MapRangeOk, Zenon
  <2> QED BY <2>1, <2>2, <2>3, Zenon
<1> HIDE DEF m1, ho, eo
<1>9. /\ m1.halt # "mapped" /\ m1.halt \in {"no", "oom", "mapped"} /\ IsMem(m1)
      /\ \A p \in DOMAIN m1.pages : p \in HEAP_START..end-1 /\ m1.pages[p].owner = ho
  <2>1. DOMAIN m0.pages = {}
    BY <1>5
  <2> QED BY <2>1, <1>8, Zenon DEF Spread
<1>10. mem = MapPage(m1, USER_TRAMPOLINE, eo, "no")
  BY <1>1, Zenon DEF InitTrampoline, eo
<1>11. FramesInv
  <2>1. MemOk(mem, low \cup held)
    BY <1>8, <1>10, MapPageOk, Zenon
  <2>2. IsFiniteSet(low)
    BY <1>3, Zenon DEF Bal
  <2> QED BY <1>1, <2>1, <2>2, FS_EmptySet, Zenon DEF FramesInv
<1>12. Spread(m1, mem, {USER_TRAMPOLINE}, eo)
  <2>1. Spread(m1, m1, {}, eo)
    BY <1>9, Zenon DEF Spread
  <2>2. Spread(m1, mem, {} \cup {USER_TRAMPOLINE}, eo)
    BY <2>1, <1>10, SpreadPage, Zenon
  <2>3. {} \cup {USER_TRAMPOLINE} = {USER_TRAMPOLINE}
    BY Zenon
  <2> QED BY <2>2, <2>3, Zenon
<1>13. ASSUME NEW p \in DOMAIN mem.pages
       PROVE  Placed(p, mem.pages[p].owner, regions, slots)
  <2>1. CASE p \in DOMAIN m1.pages /\ mem.pages[p].owner = m1.pages[p].owner
    <3>1. p \in HEAP_START..end-1 /\ mem.pages[p].owner = ho
      BY <2>1, <1>9, Zenon
    <3>2. p \in Int /\ HEAP_START <= p /\ ho.kind = "heap"
      BY <3>1, <1>7 DEF ho, Owner
    <3> QED BY <3>1, <3>2, Zenon DEF Placed
  <2>2. CASE p = USER_TRAMPOLINE /\ mem.pages[p].owner = eo
    <3>1. p \in Int /\ p < USER_TEXT_BASE /\ eo.kind = "exit"
      BY <2>2, LayoutOrder DEF eo, Owner
    <3> QED BY <2>2, <3>1, Zenon DEF Placed
  <2> QED BY <2>1, <2>2, <1>12, Zenon DEF Spread
<1>14. mem.halt # "mapped"
  <2>1. ASSUME mem.halt = "mapped" PROVE FALSE
    <3>1. USER_TRAMPOLINE \in DOMAIN m1.pages
      BY <2>1, <1>12, Zenon DEF Spread
    <3>2. USER_TRAMPOLINE \in HEAP_START..end-1
      BY <3>1, <1>9, Zenon
    <3> QED BY <3>2, <1>7, LayoutOrder
  <2> QED BY <2>1, Zenon
<1>15. slots \in 0..MaxSlots /\ DOMAIN linuxMem = {}
  BY <1>1, LayoutOrder
<1>16. PlacesInv
  BY <1>1, <1>13, <1>14, <1>15, Zenon DEF PlacesInv, PanicBlame
<1> QED BY <1>11, <1>16, Zenon DEF ProcessInv

\* A page of the arenas that by finds mapped: another arena's, or that of a program whose region,
\* if there is one, reaches into them.
MetInArena(blame, by) ==
  \E of : /\ blame = Clash(of, by)
         /\ \/ of.kind \in {"brk", "mmap"}
            \/ of.kind = "image" /\ \A r \in regions :
                 r.slot = of.slot => r.hi > LINUX_HEAP_BASE

\* Pages for an arena: they keep the books and lie in the arenas, and if one is taken the blame
\* is on an arena, on a failed load or on an image that reaches into the arenas.
LEMMA ArenaPages ==
  ASSUME ProcessInv, Running(mem), NEW lo \in Int, NEW hi \in Int, LINUX_HEAP_BASE <= lo,
         lo <= hi, hi <= USER_MAX_ADDR, NEW kind \in {"brk", "mmap"}, NEW pid, NEW k,
         k = MapRange(mem, lo, hi, Owner(kind, pid), "yes")
  PROVE  /\ MemOk(k, low \cup held)
         /\ \A p \in DOMAIN k.pages : Placed(p, k.pages[p].owner, regions, slots)
         /\ k.halt = "mapped" =>
              MetInArena(k.blame, Owner(kind, pid))
<1> DEFINE o == Owner(kind, pid)
<1>1. /\ MemOk(mem, low \cup held) /\ IsMem(mem) /\ slots \in 0..MaxSlots
      /\ \A p \in DOMAIN mem.pages : Placed(p, mem.pages[p].owner, regions, slots)
      /\ \A r \in regions : r.hi \in Int /\ r.lo \in Int
  BY Zenon DEF ProcessInv, FramesInv, PlacesInv, MemOk
<1>2. o.kind = kind
  BY Zenon DEF Owner
<1> HIDE DEF o
<1>3. MemOk(k, low \cup held) /\ Spread(mem, k, lo..hi-1, o)
  BY <1>1, MapRangeOk, SpreadRange, Zenon DEF o
<1>4. ASSUME NEW p \in lo..hi-1
      PROVE  p \in Int /\ LINUX_HEAP_BASE <= p /\ p < USER_MAX_ADDR /\ USER_TEXT_BASE <= p
  BY LayoutOrder
<1>5. ASSUME NEW p \in DOMAIN k.pages PROVE Placed(p, k.pages[p].owner, regions, slots)
  <2>1. CASE p \in DOMAIN mem.pages /\ k.pages[p].owner = mem.pages[p].owner
    BY <2>1, <1>1, Zenon
  <2>2. CASE p \in lo..hi-1 /\ k.pages[p].owner = o
    BY <2>2, <1>2, <1>4, Zenon DEF Placed
  <2> QED BY <2>1, <2>2, <1>3, Zenon DEF Spread
<1>6. ASSUME k.halt = "mapped"
      PROVE  MetInArena(k.blame, o)
  <2>1. PICK p \in (lo..hi-1) \cap DOMAIN mem.pages : k.blame = Clash(mem.pages[p].owner, o)
    BY <1>3, <1>6, Zenon DEF Spread
  <2> DEFINE of == mem.pages[p].owner
  <2>2. p \in Int /\ LINUX_HEAP_BASE <= p /\ p < USER_MAX_ADDR /\ USER_TEXT_BASE <= p
    BY <1>4, Zenon
  <2>3. \/ of.kind \in {"brk", "mmap"}
        \/ of.kind = "image" /\ \A r \in regions : r.slot = of.slot => r.lo <= p /\ p < r.hi
    BY <1>1, <2>1, <2>2, PlacedLow, Zenon
  <2>4. ASSUME NEW r \in regions, p < r.hi PROVE r.hi > LINUX_HEAP_BASE
    BY <1>1, <2>2, <2>4, LayoutOrder
  <2> HIDE DEF of
  <2>5. k.blame = Clash(of, o)
    BY <2>1, Zenon DEF of
  <2> QED BY <2>3, <2>4, <2>5, Zenon DEF MetInArena
<1> QED BY <1>3, <1>5, <1>6, Zenon DEF o

\* The pages of a new stack are nobody's.
LEMMA StackPages ==
  ASSUME ProcessInv, Running(mem), slots < MaxSlots, NEW k, k = MapStack(mem, slots)
  PROVE  /\ MemOk(k, low \cup held) /\ k.halt \in {"no", "oom"}
         /\ \A p \in DOMAIN k.pages :
              \/ p \in DOMAIN mem.pages /\ k.pages[p].owner = mem.pages[p].owner
              \/ /\ p \in Int /\ k.pages[p].owner = Owner("stack", slots)
                 /\ StackTop(slots) - USER_STACK_PAGES <= p /\ p < StackTop(slots)
<1> DEFINE top == StackTop(slots)
           o == Owner("stack", slots)
           N == USER_STACK_PAGES
           vas == [i \in 1..N |-> top - i]
<1>1. /\ MemOk(mem, low \cup held) /\ IsMem(mem) /\ slots \in 0..MaxSlots
      /\ \A p \in DOMAIN mem.pages : Placed(p, mem.pages[p].owner, regions, slots)
  BY Zenon DEF ProcessInv, FramesInv, PlacesInv, MemOk
<1>2. /\ top \in Int /\ top <= HEAP_START /\ USER_MAX_ADDR <= top - N /\ N \in Nat
      /\ \A j \in 0..slots-1 : StackTop(j) \in Int /\ StackTop(j) <= top - N
  <2>1. slots \in Nat
    BY <1>1, LayoutOrder
  <2> QED BY <2>1, StackPlace, LayoutOrder, Zenon
<1> HIDE DEF top, N, o
<1>3. vas \in Seq(Int) /\ Len(vas) = N /\ DOMAIN vas = 1..N /\ \A i \in 1..N : vas[i] = top - i
  BY <1>2
<1> HIDE DEF vas
<1>4. Distinct(vas)
  BY <1>2, <1>3 DEF Distinct
<1>5. k = MapEach(mem, vas, o, "yes")
  BY Zenon DEF MapStack, vas, o, top, N
<1>6. MemOk(k, low \cup held) /\ Spread(mem, k, Elems(vas), o)
  BY <1>1, <1>2, <1>3, <1>4, <1>5, MapEachOk, SpreadEach
<1>7. ASSUME NEW p \in Elems(vas) PROVE p \in Int /\ top - N <= p /\ p < top
  <2>1. PICK i \in 1..N : p = top - i
    BY <1>3, Zenon DEF Elems
  <2> QED BY <2>1, <1>2
<1>8. ASSUME NEW p \in Elems(vas), p \in DOMAIN mem.pages PROVE FALSE
  <2> DEFINE q == mem.pages[p].owner
  <2>1. p \in Int /\ top - N <= p /\ p < top
    BY <1>7, Zenon
  <2>2. Placed(p, q, regions, slots)
    BY <1>1, <1>8, Zenon
  <2> HIDE DEF q
  <2>3. ~(HEAP_START <= p) /\ ~(p < USER_TEXT_BASE) /\ ~(p < USER_MAX_ADDR)
    BY <2>1, <1>2, LayoutOrder
  <2>4. ~(q.slot \in 0..slots-1 /\ p < StackTop(q.slot))
    BY <2>1, <1>2
  <2> QED BY <2>2, <2>3, <2>4, Zenon DEF Placed
<1>9. k.halt \in {"no", "oom"}
  BY <1>6, <1>8, Zenon DEF Spread
<1>10. ASSUME NEW p \in DOMAIN k.pages
       PROVE  \/ p \in DOMAIN mem.pages /\ k.pages[p].owner = mem.pages[p].owner
              \/ p \in Int /\ k.pages[p].owner = o /\ top - N <= p /\ p < top
  BY <1>6, <1>7, Zenon DEF Spread
<1> QED BY <1>6, <1>9, <1>10, Zenon DEF top, N, o

\* Spawning a program, whether its load succeeds, fails half way or panics.
LEMMA SpawnKeeps ==
  ASSUME ProcessInv, NEW img \in Images, NEW argv \in Argvs, Spawn(img, argv)
  PROVE  ProcessInv'
<1> DEFINE S == low \cup held
           m1 == MapStack(mem, slots)
           m2 == LoadElf(m1, img, slots)
           m == CheckStack(m2, argv)
           so == Owner("stack", slots)
           io == Owner("image", slots)
<1>1. Running(mem) /\ slots < MaxSlots
  BY Zenon DEF Spawn
<1>2. PICK r \in ElfRegion(img) : ~Overlaps(r) /\ Started(m, r, img, argv)
  BY Zenon DEF Spawn, Loaded
<1> DEFINE V == r[1]..r[2]-1
           new == [slot |-> slots, lo |-> r[1], hi |-> r[2]]
<1>3. /\ r[1] \in Int /\ r[2] \in Int /\ USER_TEXT_BASE <= r[1] /\ r[2] <= USER_MAX_ADDR
  BY SegmentsInRegion, Zenon
<1>4. /\ MemOk(m1, S) /\ m1.halt \in {"no", "oom"}
      /\ \A p \in DOMAIN m1.pages :
           \/ p \in DOMAIN mem.pages /\ m1.pages[p].owner = mem.pages[p].owner
           \/ /\ p \in Int /\ m1.pages[p].owner = so
              /\ StackTop(slots) - USER_STACK_PAGES <= p /\ p < StackTop(slots)
  BY <1>1, StackPages, Zenon
<1> HIDE DEF m1
<1>5. Fill(m1, m2, V, io) /\ MemOk(m2, S)
  BY <1>4, LoadElfFills, Zenon
<1> HIDE DEF m2, V, io
<1>6. Fill(m1, m, V, io) /\ MemOk(m, S)
  <2>1. m = m2 \/ m = Fail(m2, "argv")
    BY Zenon DEF CheckStack
  <2> QED BY <2>1, <1>5, FailFill, FailOk, Zenon
<1> HIDE DEF m
<1>7. /\ mem' = Fail(m, "ok") /\ slots' = slots + 1
      /\ low' = low /\ held' = held /\ linuxMem' = linuxMem
      /\ Good(m) => regions' = regions \cup {new}
      /\ ~Good(m) => regions' = regions
  BY <1>2, Zenon DEF Started, Fail
<1> HIDE DEF new
<1>8. Fill(m1, mem', V, io) /\ MemOk(mem', S) /\ mem'.halt = m.halt
  <2>1. IsMem(m)
    BY <1>6, Zenon DEF MemOk
  <2> QED BY <2>1, <1>6, <1>7, FailFill, FailOk, FailKeeps
<1>9. FramesInv'
  BY <1>7, <1>8, Zenon DEF ProcessInv, FramesInv
<1>10. /\ slots \in Nat /\ slots' \in 0..MaxSlots
       /\ \A q \in regions : q.slot \in 0..slots-1 /\ q.lo \in Int /\ q.hi \in Int
       /\ \A pid \in DOMAIN linuxMem : Cursors(linuxMem[pid])
       /\ \A p \in DOMAIN mem.pages : Placed(p, mem.pages[p].owner, regions, slots)
  <2>1. slots \in 0..MaxSlots
    BY Zenon DEF ProcessInv, PlacesInv
  <2>2. slots \in Nat /\ slots' \in 0..MaxSlots
    BY <2>1, <1>1, <1>7, LayoutOrder
  <2> QED BY <2>2, <1>1, Zenon DEF ProcessInv, PlacesInv
<1>11. new.slot = slots /\ new.lo = r[1] /\ new.hi = r[2]
  BY Zenon DEF new
<1>12. \A q \in regions' : q.slot \in 0..slots'-1 /\ q.lo \in Int /\ q.hi \in Int
  <2>1. \A q \in regions' : q \in regions \/ q = new
    BY <1>7, Zenon
  <2>2. 0..slots-1 \subseteq 0..slots'-1 /\ slots \in 0..slots'-1
    BY <1>7, <1>10
  <2> QED BY <2>1, <2>2, <1>3, <1>10, <1>11, Zenon
<1>13. ASSUME NEW p \in DOMAIN mem'.pages
       PROVE  Placed(p, mem'.pages[p].owner, regions', slots')
  <2> DEFINE q == mem'.pages[p].owner
  <2>0. /\ \A z \in regions' : z \in regions \/ z = new
        /\ 0..slots-1 \subseteq 0..slots'-1 /\ slots \in 0..slots'-1 /\ slots \notin 0..slots-1
    BY <1>7, <1>10
  <2>1. \/ p \in DOMAIN m1.pages /\ q = m1.pages[p].owner
        \/ p \in V /\ q = io
    BY <1>8, Zenon DEF Fill
  <2> SUFFICES Placed(p, q, regions', slots')
    BY Zenon
  <2> HIDE DEF q
  <2>2. CASE p \in DOMAIN mem.pages /\ q = mem.pages[p].owner
    <3>1. Placed(p, q, regions, slots)
      BY <2>2, <1>10, Zenon
    <3>2. ASSUME q.slot \in 0..slots-1, NEW z \in regions', z.slot = q.slot PROVE z \in regions
      BY <2>0, <3>2, <1>11, Zenon
    <3> QED BY <3>1, <3>2, <2>0, Zenon DEF Placed
  <2>3. CASE /\ p \in Int /\ q = so
             /\ StackTop(slots) - USER_STACK_PAGES <= p /\ p < StackTop(slots)
    <3>1. q.kind = "stack" /\ q.slot = slots
      BY <2>3, Zenon DEF Owner
    <3> QED BY <2>0, <2>3, <3>1, Zenon DEF Placed
  <2>4. CASE p \in V /\ q = io
    <3>1. q.kind = "image" /\ q.slot = slots
      BY <2>4, Zenon DEF Owner, io
    <3>2. p \in Int /\ r[1] <= p /\ p < r[2]
      BY <2>4, <1>3 DEF V
    <3>3. USER_TEXT_BASE <= p /\ p < USER_MAX_ADDR
      BY <3>2, <1>3, LayoutOrder
    <3>4. ASSUME NEW z \in regions', z.slot = slots PROVE z = new
      BY <2>0, <3>4, <1>10, Zenon
    <3> QED BY <2>0, <3>1, <3>2, <3>3, <3>4, <1>11, Zenon DEF Placed
  <2> QED BY <2>1, <2>2, <2>3, <2>4, <1>4, Zenon
<1>14. ASSUME mem'.halt = "mapped"
       PROVE  \E of : /\ mem'.blame = Clash(of, io)
                     /\ \/ of = io
                        \/ of.kind \in {"brk", "mmap"}
                        \/ of.kind = "image" /\ \A q \in regions : q.slot # of.slot
  <2>1. CASE mem'.blame = Clash(io, io)
    BY <2>1, Zenon
  <2>2. CASE \E p \in V \cap DOMAIN m1.pages : mem'.blame = Clash(m1.pages[p].owner, io)
    <3>1. PICK p \in V \cap DOMAIN m1.pages : mem'.blame = Clash(m1.pages[p].owner, io)
      BY <2>2, Zenon
    <3> DEFINE of == m1.pages[p].owner
    <3>2. p \in Int /\ r[1] <= p /\ p < r[2] /\ USER_TEXT_BASE <= p /\ p < USER_MAX_ADDR
      BY <1>3, LayoutOrder DEF V
    <3>3. ~(StackTop(slots) - USER_STACK_PAGES <= p)
      <4>1. StackTop(slots) \in Int /\ USER_MAX_ADDR <= StackTop(slots) - USER_STACK_PAGES
        BY <1>1, <1>10, StackPlace, Zenon
      <4> QED BY <4>1, <3>2, LayoutOrder
    <3>4. p \in DOMAIN mem.pages /\ of = mem.pages[p].owner
      BY <3>1, <3>3, <1>4, Zenon
    <3>0. mem'.blame = Clash(of, io)
      BY <3>1, Zenon
    <3> HIDE DEF of
    <3>5. \/ of.kind \in {"brk", "mmap"}
          \/ of.kind = "image" /\ \A q \in regions : q.slot = of.slot => q.lo <= p /\ p < q.hi
      <4>1. Placed(p, of, regions, slots) /\ slots \in 0..MaxSlots
        BY <3>4, <1>10, Zenon DEF ProcessInv, PlacesInv
      <4> QED BY <4>1, <3>2, PlacedLow, Zenon
    <3>6. ASSUME NEW q \in regions, q.lo <= p, p < q.hi PROVE FALSE
      <4>0. r[1] \in Int /\ r[2] \in Int
        BY <1>3, Zenon
      <4>1. q.lo \in Int /\ q.hi \in Int
        BY <1>10, Zenon
      <4>2. r[1] < q.hi /\ q.lo < r[2]
        BY <3>2, <3>6, <4>0, <4>1
      <4> QED BY <4>2, <1>2, Zenon DEF Overlaps
    <3> QED BY <3>0, <3>5, <3>6, Zenon
  <2> QED BY <1>8, <1>14, <2>1, <2>2, Zenon DEF Fill
<1>15. PanicBlame'
  <2>1. mem'.halt = "mapped" => regions' = regions
    BY <1>7, <1>8, Zenon DEF Good
  <2>2. io.kind = "image"
    BY Zenon DEF io, Owner
  <2>3. ASSUME mem'.halt = "mapped"
        PROVE  LET of == mem'.blame.of
                   by == mem'.blame.by
               IN  \/ of.kind \in {"brk", "mmap"}
                   \/ of.kind = "image" /\ by = of
                   \/ of.kind = "image" /\ \A q \in regions' : q.slot # of.slot
    <3>1. PICK of : /\ mem'.blame = Clash(of, io)
                    /\ \/ of = io
                       \/ of.kind \in {"brk", "mmap"}
                       \/ of.kind = "image" /\ \A q \in regions : q.slot # of.slot
      BY <1>14, <2>3, Zenon
    <3>2. mem'.blame.of = of /\ mem'.blame.by = io
      <4> HIDE DEF io
      <4> QED BY <3>1 DEF Clash
    <3> QED BY <3>1, <3>2, <2>1, <2>2, <2>3, Zenon
  <2> QED BY <2>3, Zenon DEF PanicBlame
<1>16. PlacesInv'
  BY <1>7, <1>10, <1>12, <1>13, <1>15, Zenon DEF PlacesInv
<1> QED BY <1>9, <1>16, Zenon DEF ProcessInv

\* Steps that leave pages, regions, slots and cursors alone keep every page where it is.
LEMMA SamePlaces ==
  ASSUME ProcessInv, Running(mem), mem'.pages = mem.pages, mem'.halt = mem.halt,
         UNCHANGED <<regions, slots>>,
         \A pid \in DOMAIN linuxMem' : Cursors(linuxMem'[pid])
  PROVE  PlacesInv'
<1>1. /\ slots \in 0..MaxSlots
      /\ \A r \in regions : r.slot \in 0..slots-1 /\ r.lo \in Int /\ r.hi \in Int
      /\ \A p \in DOMAIN mem.pages : Placed(p, mem.pages[p].owner, regions, slots)
  BY Zenon DEF ProcessInv, PlacesInv
<1>2. mem'.halt # "mapped"
  BY Zenon DEF Running
<1> QED BY <1>1, <1>2, Zenon DEF PlacesInv, PanicBlame

\* The cursors a memory call starts from, and what it stores.
LEMMA EntryCursors ==
  ASSUME ProcessInv, NEW pid
  PROVE  Cursors(LinuxMemEntry(pid))
<1>1. CASE pid \in DOMAIN linuxMem
  BY <1>1, Zenon DEF LinuxMemEntry, ProcessInv, PlacesInv
<1>2. CASE pid \notin DOMAIN linuxMem
  <2>1. LinuxMemEntry(pid) = [brk |-> LINUX_HEAP_BASE, mmap |-> LINUX_MMAP_BASE]
    BY <1>2, Zenon DEF LinuxMemEntry
  <2> QED BY <2>1, LayoutOrder DEF Cursors
<1> QED BY <1>1, <1>2, Zenon

LEMMA SetCursors ==
  ASSUME ProcessInv, NEW pid, NEW e, Cursors(e), LinuxMemSet(pid, e)
  PROVE  \A q \in DOMAIN linuxMem' : Cursors(linuxMem'[q])
<1>1. linuxMem' = [p \in DOMAIN linuxMem \cup {pid} |-> IF p = pid THEN e ELSE linuxMem[p]]
  BY Zenon DEF LinuxMemSet
<1>2. \A p \in DOMAIN linuxMem : Cursors(linuxMem[p])
  BY Zenon DEF ProcessInv, PlacesInv
<1> QED BY <1>1, <1>2, Zenon

\* A memory call that maps lo..hi-1.
LEMMA ArenaKeeps ==
  ASSUME ProcessInv, Running(mem), NEW lo \in Int, NEW hi \in Int, LINUX_HEAP_BASE <= lo,
         lo <= hi, hi <= USER_MAX_ADDR, NEW kind \in {"brk", "mmap"}, NEW pid,
         mem' = MapRange(mem, lo, hi, Owner(kind, pid), "yes"),
         UNCHANGED <<regions, slots, low, held>>,
         \A q \in DOMAIN linuxMem' : Cursors(linuxMem'[q])
  PROVE  ProcessInv'
<1>1. /\ MemOk(mem', low \cup held)
      /\ \A p \in DOMAIN mem'.pages : Placed(p, mem'.pages[p].owner, regions, slots)
      /\ mem'.halt = "mapped" =>
           MetInArena(mem'.blame, Owner(kind, pid))
  BY ArenaPages, ZenonT(40)
<1>2. FramesInv'
  BY <1>1, Zenon DEF ProcessInv, FramesInv
<1>3. /\ slots \in 0..MaxSlots
      /\ \A r \in regions : r.slot \in 0..slots-1 /\ r.lo \in Int /\ r.hi \in Int
  BY Zenon DEF ProcessInv, PlacesInv
<1>4. PanicBlame'
  <2>1. Owner(kind, pid).kind \in {"brk", "mmap"}
    BY Zenon DEF Owner
  <2>2. ASSUME mem'.halt = "mapped"
        PROVE  LET of == mem'.blame.of
                   by == mem'.blame.by
               IN  \/ of.kind \in {"brk", "mmap"}
                   \/ of.kind = "image" /\ \A r \in regions' : r.slot # of.slot
                   \/ /\ of.kind = "image" /\ by.kind \in {"brk", "mmap"}
                      /\ \E r \in regions' : r.slot = of.slot /\ r.hi > LINUX_HEAP_BASE
    <3>1. PICK of : /\ mem'.blame = Clash(of, Owner(kind, pid))
                    /\ \/ of.kind \in {"brk", "mmap"}
                       \/ of.kind = "image" /\ \A r \in regions :
                            r.slot = of.slot => r.hi > LINUX_HEAP_BASE
      BY <1>1, <2>2, Zenon DEF MetInArena
    <3>2. mem'.blame.of = of /\ mem'.blame.by = Owner(kind, pid)
      BY <3>1 DEF Clash
    <3> QED BY <3>1, <3>2, <2>1, Zenon
  <2> QED BY <2>2, Zenon DEF PanicBlame
<1>5. PlacesInv'
  BY <1>1, <1>3, <1>4, Zenon DEF PlacesInv
<1> QED BY <1>2, <1>5, Zenon DEF ProcessInv

\* An address rounded up to its page.
LEMMA HalfUp ==
  ASSUME NEW h \in Int, NEW x \in Int, NEW y \in Int, ~(h <= 2 * x), ~(h >= 2 * y)
  PROVE  (h + 1) \div 2 \in Int /\ x <= (h + 1) \div 2 /\ (h + 1) \div 2 <= y
OBVIOUS

\* linux_brk maps from the old break up to the new one.
LEMMA LinuxBrkKeeps ==
  ASSUME ProcessInv, NEW pid, NEW half \in Int, LinuxBrk(pid, half)
  PROVE  ProcessInv'
<1> DEFINE e == LinuxMemEntry(pid)
           top == (half + 1) \div 2
<1>1. Running(mem) /\ UNCHANGED <<regions, slots, low, held>>
  BY Zenon DEF LinuxBrk, LinuxTask
<1>2. Cursors(e)
  BY EntryCursors, Zenon
<1>3. IF half <= 2 * e.brk \/ half >= 2 * LINUX_MMAP_BASE
      THEN LinuxMemSet(pid, e) /\ UNCHANGED mem
      ELSE /\ mem' = MapRange(mem, e.brk, top, Owner("brk", pid), "yes")
           /\ LinuxMemSet(pid, [e EXCEPT !.brk = top])
  BY Zenon DEF LinuxBrk
<1>4. e = [brk |-> e.brk, mmap |-> e.mmap]
  BY <1>2, Zenon DEF Cursors
<1> HIDE DEF e, top
<1>5. CASE half <= 2 * e.brk \/ half >= 2 * LINUX_MMAP_BASE
  <2>1. LinuxMemSet(pid, e) /\ UNCHANGED mem
    BY <1>3, <1>5, Zenon
  <2>2. \A q \in DOMAIN linuxMem' : Cursors(linuxMem'[q])
    BY <2>1, <1>2, SetCursors, Zenon
  <2>3. FramesInv'
    BY <2>1, <1>1, Zenon DEF ProcessInv, FramesInv
  <2>4. PlacesInv'
    BY <2>1, <2>2, <1>1, SamePlaces, Zenon
  <2> QED BY <2>3, <2>4, Zenon DEF ProcessInv
<1>6. CASE ~(half <= 2 * e.brk \/ half >= 2 * LINUX_MMAP_BASE)
  <2>1. /\ mem' = MapRange(mem, e.brk, top, Owner("brk", pid), "yes")
        /\ LinuxMemSet(pid, [e EXCEPT !.brk = top])
    BY <1>3, <1>6, Zenon
  <2>2. /\ e.brk \in Int /\ LINUX_HEAP_BASE <= e.brk
        /\ e.mmap \in Int /\ LINUX_MMAP_BASE <= e.mmap
    BY <1>2, Zenon DEF Cursors
  <2>3. top \in Int /\ e.brk <= top /\ top <= LINUX_MMAP_BASE
    BY <1>6, <2>2, LayoutOrder, HalfUp DEF top
  <2>4. LINUX_HEAP_BASE <= top /\ top <= USER_MAX_ADDR
    BY <2>2, <2>3, LayoutOrder
  <2>5. [e EXCEPT !.brk = top] = [brk |-> top, mmap |-> e.mmap]
    BY <1>4
  <2>6. Cursors([e EXCEPT !.brk = top])
    BY <2>2, <2>3, <2>4, <2>5, Zenon DEF Cursors
  <2>7. \A q \in DOMAIN linuxMem' : Cursors(linuxMem'[q])
    BY <2>1, <2>6, SetCursors, Zenon
  <2> QED BY <1>1, <2>1, <2>2, <2>3, <2>4, <2>7, ArenaKeeps, Zenon
<1> QED BY <1>5, <1>6, Zenon

\* linux_mmap_anon maps from its cursor upwards.
LEMMA LinuxMmapKeeps ==
  ASSUME ProcessInv, NEW pid, NEW pages \in Nat, LinuxMmap(pid, pages)
  PROVE  ProcessInv'
<1> DEFINE e == LinuxMemEntry(pid)
           top == e.mmap + pages
<1>1. Running(mem) /\ UNCHANGED <<regions, slots, low, held>>
  BY Zenon DEF LinuxMmap, LinuxTask
<1>2. Cursors(e)
  BY EntryCursors, Zenon
<1>3. IF top > USER_MAX_ADDR
      THEN LinuxMemSet(pid, e) /\ UNCHANGED mem
      ELSE /\ mem' = MapRange(mem, e.mmap, top, Owner("mmap", pid), "yes")
           /\ LinuxMemSet(pid, [e EXCEPT !.mmap = top])
  BY Zenon DEF LinuxMmap, LINUX_MMAP_END
<1>4. e = [brk |-> e.brk, mmap |-> e.mmap]
  BY <1>2, Zenon DEF Cursors
<1> HIDE DEF e
<1>5. CASE top > USER_MAX_ADDR
  <2>1. LinuxMemSet(pid, e) /\ UNCHANGED mem
    BY <1>3, <1>5, Zenon
  <2>2. \A q \in DOMAIN linuxMem' : Cursors(linuxMem'[q])
    BY <2>1, <1>2, SetCursors, Zenon
  <2>3. FramesInv'
    BY <2>1, <1>1, Zenon DEF ProcessInv, FramesInv
  <2>4. PlacesInv'
    BY <2>1, <2>2, <1>1, SamePlaces, Zenon
  <2> QED BY <2>3, <2>4, Zenon DEF ProcessInv
<1>6. CASE ~(top > USER_MAX_ADDR)
  <2>1. /\ mem' = MapRange(mem, e.mmap, top, Owner("mmap", pid), "yes")
        /\ LinuxMemSet(pid, [e EXCEPT !.mmap = top])
    BY <1>3, <1>6, Zenon
  <2>2. /\ e.brk \in Int /\ LINUX_HEAP_BASE <= e.brk
        /\ e.mmap \in Int /\ LINUX_MMAP_BASE <= e.mmap
    BY <1>2, Zenon DEF Cursors
  <2>3. top \in Int /\ e.mmap <= top /\ top <= USER_MAX_ADDR
    BY <1>6, <2>2, LayoutOrder
  <2>4. LINUX_HEAP_BASE <= e.mmap /\ LINUX_MMAP_BASE <= top
    BY <2>2, <2>3, LayoutOrder
  <2> HIDE DEF top
  <2>5. [e EXCEPT !.mmap = top] = [brk |-> e.brk, mmap |-> top]
    BY <1>4
  <2>6. Cursors([e EXCEPT !.mmap = top])
    BY <2>2, <2>3, <2>4, <2>5, Zenon DEF Cursors
  <2>7. \A q \in DOMAIN linuxMem' : Cursors(linuxMem'[q])
    BY <2>1, <2>6, SetCursors, Zenon
  <2> QED BY <1>1, <2>1, <2>2, <2>3, <2>4, <2>7, ArenaKeeps, Zenon
<1> QED BY <1>5, <1>6, Zenon

\* The end of a task keeps the frames and the pages where they are.
LEMMA EndKeeps ==
  ASSUME ProcessInv, NEW pid, Exit(pid) \/ Kill(pid)
  PROVE  ProcessInv'
<1>1. Running(mem) /\ UNCHANGED <<mem, regions, slots, low, held>>
  BY Zenon DEF Exit, Kill, End
<1>2. \A q \in DOMAIN linuxMem : Cursors(linuxMem[q])
  BY Zenon DEF ProcessInv, PlacesInv
<1>3. \A q \in DOMAIN linuxMem' : Cursors(linuxMem'[q])
  <2>1. CASE Exit(pid)
    <3>1. linuxMem' = [p \in DOMAIN linuxMem \ {pid} |-> linuxMem[p]]
      BY <2>1, Zenon DEF Exit, End
    <3> QED BY <3>1, <1>2, Zenon
  <2>2. CASE Kill(pid)
    <3>1. linuxMem' = linuxMem
      BY <2>2, Zenon DEF Kill, End
    <3> QED BY <3>1, <1>2, Zenon
  <2> QED BY <2>1, <2>2, Zenon
<1>4. FramesInv'
  BY <1>1, Zenon DEF ProcessInv, FramesInv
<1>5. PlacesInv'
  BY <1>1, <1>3, SamePlaces, Zenon
<1> QED BY <1>4, <1>5, Zenon DEF ProcessInv

\* Frames that were nobody's become held.
LEMMA HoldMore ==
  ASSUME ProcessInv, Running(mem), NEW a, NEW T, mem' = [mem EXCEPT !.alloc = a],
         held' = held \cup T, Owned(mem, low \cup held) \cap T = {},
         Bal(a, Owned(mem, low \cup held) \cup T),
         UNCHANGED <<regions, slots, linuxMem, low>>
  PROVE  ProcessInv'
<1> DEFINE S == low \cup held
           O == Owned(mem, S)
<1>1. /\ MemOk(mem, S) /\ IsFiniteSet(low) /\ IsFiniteSet(held) /\ low \cap held = {}
  BY Zenon DEF ProcessInv, FramesInv
<1>2. mem = [alloc |-> mem.alloc, pages |-> mem.pages, tables |-> mem.tables,
             halt |-> mem.halt, err |-> mem.err, blame |-> mem.blame]
  BY <1>1, Zenon DEF MemOk, IsMem
<1>3. mem' = [alloc |-> a, pages |-> mem.pages, tables |-> mem.tables,
              halt |-> mem.halt, err |-> mem.err, blame |-> mem.blame]
  BY <1>2, Zenon
<1>4. /\ mem'.alloc = a /\ mem'.pages = mem.pages /\ mem'.tables = mem.tables
      /\ mem'.halt = mem.halt /\ IsMem(mem')
  BY <1>3, Zenon DEF IsMem
<1>5. /\ IsFiniteSet(DOMAIN mem.pages) /\ IsFiniteSet(DOMAIN mem.tables) /\ IsFiniteSet(S)
      /\ Cardinality(O) =
           Cardinality(DOMAIN mem.pages) + Cardinality(DOMAIN mem.tables) + Cardinality(S)
      /\ IsFiniteSet(O)
  BY <1>1, Zenon DEF MemOk, Bal
<1>6. IsFiniteSet(T)
  <2>1. IsFiniteSet(O \cup T) /\ T \subseteq O \cup T
    BY Zenon DEF Bal
  <2> QED BY <2>1, FS_Subset, Zenon
<1>7. S \cap T = {} /\ held \cap T = {} /\ low \cap T = {}
  BY Zenon DEF Owned
<1>8. Owned(mem', S \cup T) = O \cup T
  <2>1. PagesOf(mem') = PagesOf(mem) /\ TablesOf(mem') = TablesOf(mem)
    BY <1>4, Zenon DEF PagesOf, TablesOf
  <2> QED BY <2>1, Zenon DEF Owned
<1>9. low' \cup held' = S \cup T
  BY Zenon
<1>10. MemOk(mem', S \cup T)
  <2> DEFINE cO == Cardinality(O)
             cS == Cardinality(S)
             cT == Cardinality(T)
             cP == Cardinality(DOMAIN mem.pages)
             cQ == Cardinality(DOMAIN mem.tables)
  <2>1. Cardinality(O \cup T) = cO + cT
    BY <1>5, <1>6, DisjointUnion, Zenon
  <2>2. IsFiniteSet(S \cup T) /\ Cardinality(S \cup T) = cS + cT
    BY <1>5, <1>6, <1>7, DisjointUnion, Zenon
  <2>3. cS \in Nat /\ cT \in Nat /\ cP \in Nat /\ cQ \in Nat
    BY <1>5, <1>6, FS_CardinalityType, Zenon
  <2>4. cO = cP + cQ + cS
    BY <1>5, Zenon
  <2>5. cO + cT = cP + cQ + (cS + cT)
    <3> HIDE DEF cO, cS, cT, cP, cQ
    <3> QED BY <2>3, <2>4
  <2>6. Cardinality(Owned(mem', S \cup T))
          = Cardinality(DOMAIN mem'.pages) + Cardinality(DOMAIN mem'.tables)
            + Cardinality(S \cup T)
    BY <2>1, <2>2, <2>5, <1>4, <1>8, Zenon
  <2>7. Bal(mem'.alloc, Owned(mem', S \cup T))
    BY <1>4, <1>8, Zenon
  <2>8. IsFiniteSet(DOMAIN mem'.pages) /\ IsFiniteSet(DOMAIN mem'.tables)
    BY <1>4, <1>5, Zenon
  <2> QED BY <1>4, <2>2, <2>6, <2>7, <2>8, Zenon DEF MemOk
<1>11. FramesInv'
  <2>1. IsFiniteSet(held \cup T)
    BY <1>1, <1>6, <1>7, DisjointUnion, Zenon
  <2>2. low \cap (held \cup T) = {}
    BY <1>1, <1>7, Zenon
  <2> QED BY <1>1, <1>9, <1>10, <2>1, <2>2, Zenon DEF FramesInv
<1>12. PlacesInv'
  <2>1. \A q \in DOMAIN linuxMem' : Cursors(linuxMem'[q])
    BY Zenon DEF ProcessInv, PlacesInv
  <2> QED BY <2>1, <1>4, SamePlaces, Zenon
<1> QED BY <1>11, <1>12, Zenon DEF ProcessInv

\* A contiguous run is held from then on.
LEMMA AllocContiguousKeeps ==
  ASSUME ProcessInv, NEW n \in Spans, AllocContiguous(n)
  PROVE  ProcessInv'
<1> DEFINE a == AllocateContiguous(mem.alloc, n)
           T == IF a.got = NoFrame THEN {} ELSE Span(a.got, n)
           O == Owned(mem, low \cup held)
<1>1. /\ Running(mem) /\ mem' = [mem EXCEPT !.alloc = a]
      /\ held' = IF a.got = NoFrame THEN held ELSE held \cup Span(a.got, n)
      /\ UNCHANGED <<regions, slots, linuxMem, low>>
  BY Zenon DEF AllocContiguous
<1>2. held' = held \cup T
  BY <1>1, Zenon
<1>3. n \in Nat
  BY InputsAssumption, Zenon
<1>4. Bal(mem.alloc, O)
  BY <1>1, Zenon DEF ProcessInv, FramesInv, MemOk
<1>5. /\ a.got = NoFrame => Bal(a, O)
      /\ a.got # NoFrame => O \cap Span(a.got, n) = {} /\ Bal(a, O \cup Span(a.got, n))
  <2> HIDE DEF O
  <2> QED BY <1>3, <1>4, AllocateContiguousFresh, Zenon
<1> HIDE DEF a, O
<1>6. O \cap T = {} /\ Bal(a, O \cup T)
  <2>1. CASE a.got = NoFrame
    <3>1. T = {} /\ O \cup T = O
      BY <2>1, Zenon
    <3> QED BY <3>1, <2>1, <1>5, Zenon
  <2>2. CASE a.got # NoFrame
    BY <2>2, <1>5, Zenon
  <2> QED BY <2>1, <2>2, Zenon
<1> HIDE DEF T
<1> QED BY <1>1, <1>2, <1>6, HoldMore, Zenon DEF O

\* What the self-test could not give back is held from then on.
LEMMA MemTestKeeps ==
  ASSUME ProcessInv, MemTest
  PROVE  ProcessInv'
<1> DEFINE t == MemTestFresh(TakeFrames(mem.alloc, TestFrames))
           O == Owned(mem, low \cup held)
<1>1. /\ Running(mem) /\ mem' = [mem EXCEPT !.alloc = t.alloc]
      /\ held' = held \cup t.held /\ UNCHANGED <<regions, slots, linuxMem, low>>
  BY Zenon DEF MemTest
<1>2. Bal(mem.alloc, O)
  BY <1>1, Zenon DEF ProcessInv, FramesInv, MemOk
<1>3. Ended(t, O)
  <2> HIDE DEF O
  <2> QED BY <1>2, MemTestEnds, Zenon
<1> HIDE DEF t
<1>4. Bal(t.alloc, O \cup t.held) /\ O \cap t.held = {}
  BY <1>3, Zenon DEF Ended
<1> QED BY <1>1, <1>4, HoldMore, Zenon

\* Every step of the kernel keeps the frames and the pages in order.
LEMMA ProcessStep ==
  ASSUME ProcessInv, [Next]_vars
  PROVE  ProcessInv'
<1>1. ASSUME NEW img \in Images, NEW argv \in Argvs, Spawn(img, argv) PROVE ProcessInv'
  BY <1>1, SpawnKeeps, Zenon
<1>2. ASSUME NEW pid, NEW half \in {0} \cup 2*LINUX_HEAP_BASE+1..2*LINUX_MMAP_BASE,
             LinuxBrk(pid, half)
      PROVE  ProcessInv'
  <2>1. half \in Int
    BY LayoutOrder
  <2> QED BY <1>2, <2>1, LinuxBrkKeeps, Zenon
<1>3. ASSUME NEW pid, NEW pages \in 1..LINUX_MMAP_END-LINUX_MMAP_BASE+1, LinuxMmap(pid, pages)
      PROVE  ProcessInv'
  <2>1. pages \in Nat
    BY LayoutOrder DEF LINUX_MMAP_END
  <2> QED BY <1>3, <2>1, LinuxMmapKeeps, Zenon
<1>4. ASSUME NEW pid, Exit(pid) \/ Kill(pid) PROVE ProcessInv'
  BY <1>4, EndKeeps, Zenon
<1>5. ASSUME NEW n \in Spans, AllocContiguous(n) PROVE ProcessInv'
  BY <1>5, AllocContiguousKeeps, Zenon
<1>6. CASE MemTest
  BY <1>6, MemTestKeeps, Zenon
<1>7. CASE UNCHANGED vars
  BY <1>7, Zenon DEF vars, ProcessInv, FramesInv, PlacesInv, PanicBlame
<1> QED BY <1>1, <1>2, <1>3, <1>4, <1>5, <1>6, <1>7, Zenon DEF Next

\* The kernel never gives one frame to two owners and never loses one, whatever its tasks ask
\* for and in whatever order (allocate_frame, allocate_contiguous, map_page, mem_test).
THEOREM FramesHaveOneOwner == Spec => []OneOwner
<1>1. Init => ProcessInv
  BY ProcessInit, Zenon
<1>2. ProcessInv /\ [Next]_vars => ProcessInv'
  BY ProcessStep, Zenon
<1>3. ProcessInv => OneOwner
  BY FramesInvOneOwner, Zenon DEF ProcessInv
<1> QED BY <1>1, <1>2, <1>3, PTL DEF Spec

\* map_page panics only over an arena that tasks share, over a page of the very file that is being
\* loaded, over what a failed load left, or for a Linux call that meets a program linked into the
\* arenas: never over the heap, a stack or, for a file, over another recorded program.
THEOREM PanicsAreBlamed == Spec => []PanicBlame
<1>1. Init => ProcessInv
  BY ProcessInit, Zenon
<1>2. ProcessInv /\ [Next]_vars => ProcessInv'
  BY ProcessStep, Zenon
<1>3. ProcessInv => PanicBlame
  BY Zenon DEF ProcessInv, PlacesInv
<1> QED BY <1>1, <1>2, <1>3, PTL DEF Spec

\* The inductive invariant behind StartStackSound: a task is a record of three fields, and
\* nothing rewrites the third.
StartInv ==
  /\ StartStackSound
  /\ \A t \in DOMAIN tasks :
       tasks[t] = [abi |-> tasks[t].abi, state |-> tasks[t].state, stack |-> tasks[t].stack]

\* The strings of a start stack take a natural number of bytes.
LEMMA StringBytesIsNat ==
  ASSUME NEW argv \in Seq(Nat)
  PROVE  StringBytes(argv) \in Nat
<1>1. Len(argv) \in Nat /\ \A n \in 1..Len(argv) : argv[n] \in Nat
  OBVIOUS
<1>2. PICK f : StringBytesRun(f, argv)
  BY <1>1, StringBytesSteps, Zenon
<1> DEFINE S == {n \in Nat : n <= Len(argv) => f[n] \in Nat}
<1>3. 0 \in S
  BY <1>2 DEF StringBytesRun
<1>4. ASSUME NEW n \in Nat, n \in S PROVE n + 1 \in S
  <2>1. ASSUME n + 1 <= Len(argv) PROVE f[n + 1] \in Nat
    <3>1. n + 1 \in 1..Len(argv) /\ f[n] \in Nat /\ (n + 1) - 1 = n
      BY <2>1, <1>1, <1>4
    <3>2. f[n + 1] = f[n] + argv[n + 1] + 1
      BY <3>1, <1>2, Zenon DEF StringBytesRun
    <3> QED BY <3>1, <3>2, <1>1
  <2> QED BY <2>1
<1> HIDE DEF S
<1>5. Nat \subseteq S
  BY <1>3, <1>4, Induction, Zenon
<1>6. Len(argv) \in S
  BY <1>1, <1>5, Zenon
<1>7. f[Len(argv)] \in Nat
  BY <1>1, <1>6 DEF S
<1> QED BY <1>2, <1>7, Zenon DEF StringBytesRun

\* Rounding up to 16.
LEMMA SixteenUp ==
  ASSUME NEW x \in Nat
  PROVE  /\ ((x + 15) \div 16) * 16 \in Nat
         /\ x <= ((x + 15) \div 16) * 16 /\ ((x + 15) \div 16) * 16 <= x + 15
         /\ (((x + 15) \div 16) * 16) % 16 = 0
OBVIOUS

\* A start block that the budget of build_initial_stack admits fits: it ends below the strings and begins
\* inside the mapped stack, aligned.
LEMMA StartBlockFits ==
  ASSUME NEW argv \in Seq(Nat), ~TooLarge(argv)
  PROVE  /\ BuildInitialStack(argv).end >= BuildInitialStack(argv).strings
         /\ BuildInitialStack(argv).rsp <= USER_STACK_PAGES * PAGE
         /\ BuildInitialStack(argv).rsp % 16 = 0
<1> DEFINE s == StringBytes(argv)
           l == Len(argv)
           top == ((s + BlockBytes(argv) + 15) \div 16) * 16
           room == USER_STACK_PAGES * PAGE
<1>1. s \in Nat /\ l \in Nat
  BY StringBytesIsNat
<1>2. room \in Nat
  BY LayoutOrder DEF PAGE
<1>3. BlockBytes(argv) = 8 * (3 + l) + 144
  BY DEF BlockBytes
<1>4. s + BlockBytes(argv) \in Nat
  BY <1>1, <1>3
<1>5. /\ top \in Nat /\ s + BlockBytes(argv) <= top /\ top <= s + BlockBytes(argv) + 15
      /\ top % 16 = 0
  BY <1>4, SixteenUp, Zenon
<1>6. /\ BuildInitialStack(argv).strings = s /\ BuildInitialStack(argv).rsp = top
      /\ BuildInitialStack(argv).end = top - 8 * (1 + l + 1 + 1 + 2 * 9)
  BY Zenon DEF BuildInitialStack
<1>7. s + BlockBytes(argv) + 64 <= room
  BY <1>1, <1>2, <1>4 DEF TooLarge
<1> HIDE DEF s, l, top, room
<1>8. top - 8 * (1 + l + 1 + 1 + 2 * 9) >= s
  BY <1>1, <1>3, <1>5
<1>9. top <= room
  BY <1>1, <1>2, <1>3, <1>5, <1>7
<1> QED BY <1>5, <1>6, <1>8, <1>9, Zenon DEF room

\* A program is started only past the budget.
LEMMA SpawnStart ==
  ASSUME StartInv, NEW img \in Images, NEW argv \in Argvs, Spawn(img, argv)
  PROVE  StartInv'
<1>1. argv \in Seq(Nat)
  BY InputsAssumption, Zenon
<1>2. PICK r : Started(Loaded(img, argv), r, img, argv)
  BY Zenon DEF Spawn
<1>3. CASE ~Good(Loaded(img, argv))
  BY <1>2, <1>3, Zenon DEF Started, StartInv, StartStackSound
<1>4. CASE Good(Loaded(img, argv))
  <2> DEFINE new == [abi |-> img.abi, state |-> "live", stack |-> BuildInitialStack(argv)]
             m == LoadElf(MapStack(mem, slots), img, slots)
  <2>1. tasks' = [t \in DOMAIN tasks \cup {slots} |-> IF t = slots THEN new ELSE tasks[t]]
    BY <1>2, <1>4, Zenon DEF Started
  <2>2. ~TooLarge(argv)
    <3>1. Loaded(img, argv) = CheckStack(m, argv)
      BY Zenon DEF Loaded
    <3> HIDE DEF m
    <3>2. ASSUME Good(m), TooLarge(argv) PROVE FALSE
      <4>1. Good(Fail(m, "argv"))
        BY <3>1, <3>2, <1>4, Zenon DEF CheckStack
      <4> QED BY <4>1, <3>2 DEF Fail, Good
    <3>3. ASSUME ~Good(m) PROVE FALSE
      BY <3>1, <3>3, <1>4, Zenon DEF CheckStack
    <3> QED BY <3>2, <3>3, Zenon
  <2>3. /\ new.stack.end >= new.stack.strings /\ new.stack.rsp <= USER_STACK_PAGES * PAGE
        /\ new.stack.rsp % 16 = 0
    BY <1>1, <2>2, StartBlockFits, Zenon
  <2>4. new = [abi |-> new.abi, state |-> new.state, stack |-> new.stack]
    BY Zenon
  <2> HIDE DEF new
  <2> QED BY <2>1, <2>3, <2>4, Zenon DEF StartInv, StartStackSound
<1> QED BY <1>3, <1>4, Zenon

\* Every step keeps the start stacks sound.
LEMMA StartStep ==
  ASSUME StartInv, [Next]_vars
  PROVE  StartInv'
<1>1. ASSUME NEW img \in Images, NEW argv \in Argvs, Spawn(img, argv) PROVE StartInv'
  BY <1>1, SpawnStart, Zenon
<1>2. ASSUME NEW pid \in DOMAIN tasks, Exit(pid) \/ Kill(pid) PROVE StartInv'
  <2>1. tasks' = [tasks EXCEPT ![pid].state = "dead"]
    BY <1>2, Zenon DEF Exit, Kill, End
  <2>2. DOMAIN tasks' = DOMAIN tasks /\ \A t \in DOMAIN tasks : t # pid => tasks'[t] = tasks[t]
    BY <2>1, Zenon
  <2>3. tasks[pid] = [abi |-> tasks[pid].abi, state |-> tasks[pid].state,
                      stack |-> tasks[pid].stack]
    BY Zenon DEF StartInv
  <2>4. tasks'[pid] = [tasks[pid] EXCEPT !.state = "dead"]
    BY <2>1, Zenon
  <2>5. tasks'[pid] = [abi |-> tasks[pid].abi, state |-> "dead", stack |-> tasks[pid].stack]
    BY <2>3, <2>4, Zenon
  <2>6. tasks'[pid] = [abi |-> tasks'[pid].abi, state |-> tasks'[pid].state,
                       stack |-> tasks'[pid].stack] /\ tasks'[pid].stack = tasks[pid].stack
    BY <2>5
  <2> QED BY <2>2, <2>6, Zenon DEF StartInv, StartStackSound
<1>3. ASSUME UNCHANGED tasks PROVE StartInv'
  BY <1>3, Zenon DEF StartInv, StartStackSound
<1>4. ASSUME NEW pid, NEW half, LinuxBrk(pid, half) PROVE UNCHANGED tasks
  BY <1>4, Zenon DEF LinuxBrk
<1>5. ASSUME NEW pid, NEW pages, LinuxMmap(pid, pages) PROVE UNCHANGED tasks
  BY <1>5, Zenon DEF LinuxMmap
<1>6. ASSUME NEW n, AllocContiguous(n) PROVE UNCHANGED tasks
  BY <1>6, Zenon DEF AllocContiguous
<1>7. MemTest \/ UNCHANGED vars => UNCHANGED tasks
  BY Zenon DEF MemTest, vars
<1> QED BY <1>1, <1>2, <1>3, <1>4, <1>5, <1>6, <1>7, Zenon DEF Next

\* Every task starts on a stack whose words and strings do not meet, with rsp inside the mapped
\* pages and aligned to 16 (build_initial_stack behind its own budget check).
THEOREM StartStacksAreSound == Spec => []StartStackSound
<1>1. Init => StartInv
  BY DEF Init, StartInv, StartStackSound
<1>2. StartInv /\ [Next]_vars => StartInv'
  BY StartStep, Zenon
<1>3. StartInv => StartStackSound
  BY Zenon DEF StartInv
<1> QED BY <1>1, <1>2, <1>3, PTL DEF Spec
=============================================================================
