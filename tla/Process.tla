------------------------------ MODULE Process -------------------------------
(***************************************************************************)
(* Loading programs and giving them memory, kernel/src/userspace.rs on top *)
(* of the frame allocator: the one shared address space, the record of     *)
(* loaded regions, stack slots, the ELF loader, the process-start stack,   *)
(* and brk/mmap of the Linux shim.                                         *)
(*                                                                         *)
(* Spawning and the Linux memory calls run inside with_global_frames, that *)
(* is under the kernel-service lock with interrupts off: one call is one   *)
(* action.  A page is named by its number; brk takes its argument in half  *)
(* pages, so that rounding shows.  What a page contains is abstracted to   *)
(* what it was mapped for.  Mapping a page takes a frame for it, and one   *)
(* more when its table is missing; when map_to or allocate_frame fails the *)
(* caller's expect() panics and the machine halts.                         *)
(***************************************************************************)
EXTENDS Frames

CONSTANTS
  USER_TRAMPOLINE, USER_TEXT_BASE, USER_MAX_ADDR, LNX_PIE_LOAD_BASE,
  LINUX_HEAP_BASE, LINUX_MMAP_BASE,       \* page numbers of the layout
  STACK_BASE, STACK_GAP, USER_STACK_PAGES,
  HEAP_START, HEAP_PAGES,   \* the kernel heap
  TablePages,   \* pages one page table covers
  Images,       \* the program files
  Argvs,        \* argument vectors: sequences of string lengths
  MaxSlots,     \* bound on the programs started
  MaxAsks,      \* bound on the frames and spans drivers ask for
  Spans,        \* lengths of the contiguous spans
  TestFrames    \* N of mem_test

LINUX_MMAP_END == USER_MAX_ADDR
PAGE == 4096

ASSUME LayoutAssumption ==
  /\ {USER_TRAMPOLINE, USER_TEXT_BASE, USER_MAX_ADDR, LNX_PIE_LOAD_BASE, LINUX_HEAP_BASE,
      LINUX_MMAP_BASE, STACK_BASE, STACK_GAP, USER_STACK_PAGES, HEAP_START, HEAP_PAGES,
      MaxSlots} \subseteq Nat
  /\ USER_TRAMPOLINE < USER_TEXT_BASE /\ USER_TEXT_BASE <= LINUX_HEAP_BASE
  /\ USER_TEXT_BASE <= LNX_PIE_LOAD_BASE /\ LNX_PIE_LOAD_BASE < USER_MAX_ADDR
  /\ LINUX_HEAP_BASE <= LINUX_MMAP_BASE /\ LINUX_MMAP_BASE <= LINUX_MMAP_END
  /\ USER_MAX_ADDR + USER_STACK_PAGES <= STACK_BASE /\ USER_STACK_PAGES <= STACK_GAP
  /\ STACK_BASE + MaxSlots * STACK_GAP <= HEAP_START

ASSUME InputsAssumption ==
  /\ TablePages \in Nat \ {0} /\ TestFrames \in Nat /\ TestFrames >= 2
  /\ Spans \subseteq Nat /\ Argvs \subseteq Seq(Nat)
  /\ \A img \in Images :
       img.segs \in Seq([lo : Nat, hi : Nat, write : {"yes", "no"}, data : {"ok", "short"}])

VARIABLES
  mem,        \* allocator, page table, table frames, and how a panic came about
  regions,    \* REGIONS: the recorded [slot, lo, hi]
  slots,      \* USER_STACK_SLOTS
  tasks,      \* the tasks started, by stack slot
  linuxMem,   \* LINUX_MEM: pid -> [brk, mmap]
  low,        \* the trampoline frame of the other CPUs
  held,       \* frames drivers own, and those mem_test gave up on
  asks,       \* allocations made for drivers
  tested      \* how mem_test ended
vars == <<mem, regions, slots, tasks, linuxMem, low, held, asks, tested>>

Elems(s) == {s[i] : i \in DOMAIN s}

Owner(kind, slot) == [kind |-> kind, slot |-> slot]
NoOwner == Owner("none", 0)

\* What a panic over a mapped page is about: whose page it is, and who wanted it.
Clash(of, by) == [of |-> of, by |-> by]
Running(m) == m.halt = "no"
Good(m) == m.halt = "no" /\ m.err = "ok"
-----------------------------------------------------------------------------
(* Mapping *)

Table(va) == va \div TablePages

\* map_to creates the missing table before it looks at the entry.
NextTable(m, va) ==
  IF Table(va) \in DOMAIN m.tables THEN m
  ELSE LET a == AllocateFrame(m.alloc)
       IN  IF a.got = NoFrame THEN [m EXCEPT !.alloc = a, !.halt = "oom"]
           ELSE [m EXCEPT !.alloc = a,
                          !.tables = [t \in DOMAIN @ \cup {Table(va)} |->
                                        IF t = Table(va) THEN a.got ELSE @[t]]]

EnterPage(m, va, frame, owner, write) ==
  IF ~Running(m) THEN m
  ELSE IF va \in DOMAIN m.pages
  THEN [m EXCEPT !.halt = "mapped", !.blame = Clash(m.pages[va].owner, owner)]
  ELSE [m EXCEPT !.pages = [p \in DOMAIN @ \cup {va} |->
                              IF p = va
                              THEN [frame |-> frame, owner |-> owner, write |-> write]
                              ELSE @[p]]]

MapTo(m, va, frame, owner, write) ==
  IF frame = NoFrame THEN [m EXCEPT !.halt = "oom"]
  ELSE EnterPage(NextTable(m, va), va, frame, owner, write)

MapPage(m, va, owner, write) ==
  IF ~Running(m) THEN m
  ELSE LET a == AllocateFrame(m.alloc)
       IN  MapTo([m EXCEPT !.alloc = a], va, a.got, owner, write)

MapEach(m, vas, owner, write) ==
  LET after[n \in 0..Len(vas)] ==
        IF n = 0 THEN m ELSE MapPage(after[n - 1], vas[n], owner, write)
  IN  after[Len(vas)]

\* Pages lo..hi-1, upwards.
Upwards(lo, hi) == [i \in 1..hi-lo |-> lo + i - 1]
MapRange(m, lo, hi, owner, write) == MapEach(m, Upwards(lo, hi), owner, write)
-----------------------------------------------------------------------------
(* Boot: the trampoline frame, the kernel heap, the paging test, ring 3's exit page *)

EmptyMem == [alloc |-> NewAllocator, pages |-> <<>>, tables |-> <<>>,
             halt |-> "no", err |-> "ok", blame |-> Clash(NoOwner, NoOwner)]

\* init_heap, and paging_test's page right after the heap.
InitHeap(m) ==
  MapRange(m, HEAP_START, HEAP_START + HEAP_PAGES + 1, Owner("heap", 0), "yes")

\* userspace::init: written while writable, then made execute-only.
InitTrampoline(m) == MapPage(m, USER_TRAMPOLINE, Owner("exit", 0), "no")

Init ==
  LET a == ReserveLowFrame(NewAllocator)
  IN  /\ mem = InitTrampoline(InitHeap([EmptyMem EXCEPT !.alloc = a]))
      /\ low = IF a.got = NoFrame THEN {} ELSE {a.got}
      /\ regions = {} /\ slots = 0 /\ tasks = <<>> /\ linuxMem = <<>>
      /\ held = {} /\ asks = 0 /\ tested = "no"
-----------------------------------------------------------------------------
(* The loader *)

Lowest(img) ==
  CHOOSE x \in {s.lo : s \in Elems(img.segs)} : \A s \in Elems(img.segs) : x <= s.lo
Highest(img) ==
  CHOOSE x \in {s.hi : s \in Elems(img.segs)} : \A s \in Elems(img.segs) : s.hi <= x

\* elf_region: the extent of the image as mapped, a set of at most one.
ElfRegion(img) ==
  IF img.segs = <<>> \/ Highest(img) <= Lowest(img) THEN {}
  ELSE {r \in {IF img.type = "DYN"
               THEN <<LNX_PIE_LOAD_BASE, LNX_PIE_LOAD_BASE + Highest(img) - Lowest(img)>>
               ELSE <<Lowest(img), Highest(img)>>} :
          USER_TEXT_BASE <= r[1] /\ r[2] <= USER_MAX_ADDR}

LoadBase(img) == IF img.type = "DYN" THEN LNX_PIE_LOAD_BASE - Lowest(img) ELSE 0

Fail(m, why) == [m EXCEPT !.err = why]

\* One PT_LOAD: checks, mapping, copy, final protection.
LoadSegment(m, base, seg, slot) ==
  IF ~Good(m) THEN m
  ELSE IF seg.data # "ok" THEN Fail(m, "segment data")
  ELSE IF seg.hi <= seg.lo \/ base + seg.lo < USER_TEXT_BASE \/ base + seg.hi > USER_MAX_ADDR
  THEN Fail(m, "segment outside")
  ELSE MapRange(m, base + seg.lo, base + seg.hi, Owner("image", slot), seg.write)

LoadSegments(m, img, slot) ==
  LET after[n \in 0..Len(img.segs)] ==
        IF n = 0 THEN m ELSE LoadSegment(after[n - 1], LoadBase(img), img.segs[n], slot)
  IN  after[Len(img.segs)]

\* apply_relative_relocations: every target lies in a loaded segment.
Relocate(m, img) ==
  IF ~Good(m) \/ img.type # "DYN" THEN m
  ELSE IF \E r \in Elems(img.relocs) : r.symbol = "undefined" THEN Fail(m, "undefined symbol")
  ELSE IF \E r \in Elems(img.relocs) :
            \A s \in Elems(img.segs) : ~(s.lo <= r.page /\ r.page < s.hi)
  THEN Fail(m, "relocation target")
  ELSE m

\* load_elf
LoadElf(m, img, slot) ==
  IF ~Good(m) THEN m
  ELSE IF img.type \notin {"EXEC", "DYN"} THEN Fail(m, "type")
  ELSE IF LoadBase(img) + img.entry \notin USER_TEXT_BASE..USER_MAX_ADDR-1 THEN Fail(m, "entry")
  ELSE Relocate(LoadSegments(m, img, slot), img)
-----------------------------------------------------------------------------
(* The process-start stack, in bytes below the page-aligned stack top *)

StringBytes(argv) ==
  LET below[n \in 0..Len(argv)] == IF n = 0 THEN 16 ELSE below[n - 1] + argv[n] + 1
  IN  below[Len(argv)]

\* Variant: the budget forgets the terminating AT_NULL pair.
BlockBytesEight(argv) == 8 * (3 + Len(argv)) + 8 * (2 * 8)

\* The room kept for argc, argv[], NULL, NULL and nine auxiliary pairs.
BlockBytes(argv) == 8 * (3 + Len(argv)) + 8 * (2 * 9)

\* build_initial_stack: random bytes and strings go down from the top, then the block,
\* aligned; the words are written upwards from its start.
BuildInitialStack(argv) ==
  LET start == ((StringBytes(argv) + BlockBytes(argv) + 15) \div 16) * 16
  IN  [strings |-> StringBytes(argv),
       rsp |-> start,
       end |-> start - 8 * (1 + Len(argv) + 1 + 1 + 2 * 9)]

TooLarge(argv) == StringBytes(argv) + BlockBytes(argv) + 64 > USER_STACK_PAGES * PAGE
-----------------------------------------------------------------------------
(* Starting a program *)

StackTop(slot) == STACK_BASE + slot * STACK_GAP

\* Variant: a program may reach one page into a loaded one.
OverlapsLoose(r) == \E q \in regions : r[1] + 1 < q.hi /\ q.lo < r[2]

Overlaps(r) == \E q \in regions : r[1] < q.hi /\ q.lo < r[2]

\* The stack pages are mapped from the top down.
MapStack(m, slot) ==
  MapEach(m, [i \in 1..USER_STACK_PAGES |-> StackTop(slot) - i], Owner("stack", slot), "yes")

CheckStack(m, argv) == IF Good(m) /\ TooLarge(argv) THEN Fail(m, "argv") ELSE m

Loaded(img, argv) == CheckStack(LoadElf(MapStack(mem, slots), img, slots), argv)

\* spawn_bytes, past its two early returns: m is the memory after mapping.
Started(m, r, img, argv) ==
  /\ mem' = [m EXCEPT !.err = "ok"]
  /\ slots' = slots + 1
  /\ IF Good(m)
     THEN /\ regions' = regions \cup {[slot |-> slots, lo |-> r[1], hi |-> r[2]]}
          /\ tasks' = [t \in DOMAIN tasks \cup {slots} |->
                         IF t = slots
                         THEN [abi |-> img.abi, state |-> "live", stack |-> BuildInitialStack(argv)]
                         ELSE tasks[t]]
     ELSE UNCHANGED <<regions, tasks>>
  /\ UNCHANGED <<linuxMem, low, held, asks, tested>>

\* spawn_from_vfs_argv and spawn_embedded: an unreadable, empty, oversized or malformed file
\* and an overlapping one are refused with nothing changed.
Spawn(img, argv) ==
  /\ Running(mem) /\ slots < MaxSlots
  /\ \E r \in ElfRegion(img) :
       /\ ~Overlaps(r)
       /\ \E m \in {Loaded(img, argv)} : Started(m, r, img, argv)
-----------------------------------------------------------------------------
(* The Linux memory calls, from a live Linux task *)

LinuxMemEntry(pid) ==
  IF pid \in DOMAIN linuxMem THEN linuxMem[pid]
  ELSE [brk |-> LINUX_HEAP_BASE, mmap |-> LINUX_MMAP_BASE]

LinuxMemSet(pid, e) ==
  linuxMem' = [p \in DOMAIN linuxMem \cup {pid} |-> IF p = pid THEN e ELSE linuxMem[p]]

LinuxTask(pid) ==
  /\ Running(mem) /\ pid \in DOMAIN tasks
  /\ tasks[pid].abi = "linux" /\ tasks[pid].state = "live"

\* linux_brk: half is the address in half pages, 0 a query.
LinuxBrk(pid, half) ==
  /\ LinuxTask(pid)
  /\ \E e \in {LinuxMemEntry(pid)} :
       IF half <= 2 * e.brk \/ half >= 2 * LINUX_MMAP_BASE
       THEN LinuxMemSet(pid, e) /\ UNCHANGED mem
       ELSE /\ mem' = MapRange(mem, e.brk, (half + 1) \div 2, Owner("brk", pid), "yes")
            /\ LinuxMemSet(pid, [e EXCEPT !.brk = (half + 1) \div 2])
  /\ UNCHANGED <<regions, slots, tasks, low, held, asks, tested>>

\* linux_mmap_anon: a length of zero is refused before the entry is made.
LinuxMmap(pid, pages) ==
  /\ LinuxTask(pid) /\ pages # 0
  /\ \E e \in {LinuxMemEntry(pid)} :
       IF e.mmap + pages > LINUX_MMAP_END
       THEN LinuxMemSet(pid, e) /\ UNCHANGED mem
       ELSE /\ mem' = MapRange(mem, e.mmap, e.mmap + pages, Owner("mmap", pid), "yes")
            /\ LinuxMemSet(pid, [e EXCEPT !.mmap = @ + pages])
  /\ UNCHANGED <<regions, slots, tasks, low, held, asks, tested>>

\* The end of a task takes none of its pages back.
End(pid, cursors) ==
  /\ Running(mem) /\ pid \in DOMAIN tasks /\ tasks[pid].state = "live"
  /\ tasks' = [tasks EXCEPT ![pid].state = "dead"]
  /\ linuxMem' = cursors
  /\ UNCHANGED <<mem, regions, slots, low, held, asks, tested>>

\* sys_exit drops the cursors (linux_mem_drop), sys_kill keeps them.
Exit(pid) == End(pid, [p \in DOMAIN linuxMem \ {pid} |-> linuxMem[p]])
Kill(pid) == End(pid, linuxMem)
-----------------------------------------------------------------------------
(* The other customers of the allocator *)

\* alloc_contiguous, for a display backing or a surface; never given back.
AllocContiguous(n) ==
  /\ Running(mem) /\ asks < MaxAsks
  /\ \E a \in {AllocateContiguous(mem.alloc, n)} :
       /\ mem' = [mem EXCEPT !.alloc = a]
       /\ held' = IF a.got = NoFrame THEN held ELSE held \cup Span(a.got, n)
  /\ asks' = asks + 1
  /\ UNCHANGED <<regions, slots, tasks, linuxMem, low, tested>>

Take(t) ==
  IF t.short = "yes" THEN t
  ELSE LET a == AllocateFrame(t.alloc)
       IN  IF a.got = NoFrame THEN [t EXCEPT !.alloc = a, !.short = "yes"]
           ELSE [t EXCEPT !.alloc = a, !.frames = Append(@, a.got)]

TakeFrames(a, n) ==
  LET after[k \in 0..n] == IF k = 0 THEN [alloc |-> a, frames |-> <<>>, short |-> "no"]
                           ELSE Take(after[k - 1])
  IN  after[n]

Give(a, frames) ==
  LET after[k \in 0..Len(frames)] ==
        IF k = 0 THEN a ELSE DeallocateFrame(after[k - 1], frames[k])
  IN  after[Len(frames)]

Reversed(s) == [i \in 1..Len(s) |-> s[Len(s) + 1 - i]]
Distinct(s) == \A i, j \in 1..Len(s) : s[i] = s[j] => i = j

\* The test leaves with the frames it has.
GaveUp(a, frames, how) == [alloc |-> a, held |-> Elems(frames), how |-> how]

\* Everything is freed, and the count is where it was.
MemTestEnd(a) ==
  [alloc |-> a, held |-> {}, how |-> IF a.used = mem.alloc.used THEN "passed" ELSE "baseline"]

\* Free two, take two: they come back last in, first out, and the counters say so.
MemTestLifo(t, again) ==
  LET rest == SubSeq(again, 3, TestFrames)
  IN  IF t.frames # <<again[2], again[1]>> THEN GaveUp(t.alloc, rest \o t.frames, "order")
      ELSE IF \/ t.alloc.used # mem.alloc.used + TestFrames
              \/ t.alloc.freed # mem.alloc.freed + TestFrames + 2
      THEN GaveUp(t.alloc, rest \o t.frames, "stats")
      ELSE MemTestEnd(Give(t.alloc, rest \o t.frames))

MemTestAgain(t, fresh) ==
  IF t.short = "yes" \/ Elems(t.frames) # Elems(fresh) THEN GaveUp(t.alloc, t.frames, "set")
  ELSE MemTestLifo(TakeFrames(Give(t.alloc, SubSeq(t.frames, 1, 2)), 2), t.frames)

MemTestFresh(t) ==
  IF t.short = "yes" THEN GaveUp(t.alloc, t.frames, "short")
  ELSE IF ~Distinct(t.frames) THEN GaveUp(t.alloc, t.frames, "twice")
  ELSE MemTestAgain(TakeFrames(Give(t.alloc, Reversed(t.frames)), TestFrames), t.frames)

\* mem_test, one section under the kernel-service lock.
MemTest ==
  /\ Running(mem) /\ tested = "no"
  /\ \E t \in {MemTestFresh(TakeFrames(mem.alloc, TestFrames))} :
       /\ mem' = [mem EXCEPT !.alloc = t.alloc]
       /\ held' = held \cup t.held
       /\ tested' = t.how
  /\ UNCHANGED <<regions, slots, tasks, linuxMem, low, asks>>

Next ==
  \/ \E img \in Images, argv \in Argvs : Spawn(img, argv)
  \/ \E pid \in DOMAIN tasks :
       \/ \E half \in {0} \cup 2*LINUX_HEAP_BASE+1..2*LINUX_MMAP_BASE : LinuxBrk(pid, half)
       \/ \E pages \in 1..LINUX_MMAP_END-LINUX_MMAP_BASE+1 : LinuxMmap(pid, pages)
       \/ Exit(pid) \/ Kill(pid)
  \/ \E n \in Spans : AllocContiguous(n)
  \/ MemTest

Spec == Init /\ [][Next]_vars
-----------------------------------------------------------------------------
PageFrames == {mem.pages[p].frame : p \in DOMAIN mem.pages}
TableFrames == {mem.tables[t] : t \in DOMAIN mem.tables}

\* Every frame handed out has exactly one owner, and the allocator's count of used frames is
\* the number of owned ones: no sequence of spawns, failed loads, brk, mmap, contiguous
\* allocations and self-tests gives a frame to two owners or loses one (the "returned at most
\* once until freed" of memory.rs).
OneOwner ==
  Running(mem) =>
    /\ mem.alloc.used = Cardinality(DOMAIN mem.pages) + Cardinality(DOMAIN mem.tables)
                        + Cardinality(low) + Cardinality(held)
    /\ Cardinality(PageFrames \cup TableFrames \cup low \cup held \cup Elems(mem.alloc.free))
       = mem.alloc.used + Len(mem.alloc.free)

\* A page is never mapped over the kernel heap, a stack or, by another program, over one whose
\* region is recorded.  The double mapping that panics map_page has one of these causes alone:
\* the page belongs to a Linux arena, which all tasks share; two segments of the file being
\* loaded share the page, which load_elf ("no panic on any malformation") does not look for; the
\* page was left behind by a failed load; or a Linux call meets a program linked into the arenas.
PanicBlame ==
  mem.halt = "mapped" =>
    LET of == mem.blame.of
        by == mem.blame.by
    IN  \/ of.kind \in {"brk", "mmap"}
        \/ of.kind = "image" /\ by = of
        \/ of.kind = "image" /\ \A r \in regions : r.slot # of.slot
        \/ /\ of.kind = "image" /\ by.kind \in {"brk", "mmap"}
           /\ \E r \in regions : r.slot = of.slot /\ r.hi > LINUX_HEAP_BASE

\* The start block of a task ends below its strings, begins inside the mapped stack and is
\* aligned to 16 as the ABI wants rsp.
StartStackSound ==
  \A t \in DOMAIN tasks :
    /\ tasks[t].stack.end >= tasks[t].stack.strings
    /\ tasks[t].stack.rsp <= USER_STACK_PAGES * PAGE
    /\ tasks[t].stack.rsp % 16 = 0
=============================================================================
