------------------------------- MODULE Frames -------------------------------
(***************************************************************************)
(* The physical frame allocator, kernel/src/memory.rs: a bump cursor over  *)
(* the usable regions of the boot loader's memory map, and a stack of      *)
(* frames that were given back.  It is only reached under the kernel-      *)
(* service lock (with_global_frames), so every operation is one function   *)
(* from an allocator value to the next; the frame it returns is left in    *)
(* the field got (NoFrame for None).                                       *)
(*                                                                         *)
(* A frame is named by its first byte address, counted in units of which   *)
(* SIZE make a frame: region limits need not be aligned.  The free list is *)
(* threaded through the frames themselves and address 0 ends it.           *)
(***************************************************************************)
EXTENDS Integers, Sequences, FiniteSets

CONSTANTS
  MemoryRegions,  \* the memory map: a sequence of [start, end, usable]
  SIZE,           \* units of a frame
  LOW             \* 1 MiB: a real-mode page lies below it

NoFrame == -1   \* no address

ASSUME FramesAssumption ==
  /\ SIZE \in Nat \ {0} /\ LOW \in Nat
  /\ MemoryRegions \in Seq([start : Nat, end : Nat, usable : {"yes", "no"}])

RoundUp(x) == ((x + SIZE - 1) \div SIZE) * SIZE
Larger(x, y) == IF x < y THEN y ELSE x
First(S) == CHOOSE i \in S : \A j \in S : i <= j

Usable == {i \in DOMAIN MemoryRegions : MemoryRegions[i].usable = "yes"}

\* BootInfoFrameAllocator::init
NewAllocator == [bump |-> 0, free |-> <<>>, used |-> 0, freed |-> 0, oom |-> 0, got |-> NoFrame]

\* Where a scan that must not revisit a frame starts in region i.
Candidate(a, i) == Larger(RoundUp(MemoryRegions[i].start), a.bump)

\* The regions with room for n frames above the cursor, in the order of the scan.
Roomy(a, n) == {i \in Usable : Candidate(a, i) + n * SIZE <= MemoryRegions[i].end}

Refused(a) == [a EXCEPT !.got = NoFrame, !.oom = @ + 1]

\* Variant: the cursor is moved past the first frame of the span only.
AllocateContiguousShort(a, n) ==
  IF n = 0 THEN [a EXCEPT !.got = NoFrame]
  ELSE IF Roomy(a, n) = {} THEN Refused(a)
  ELSE [a EXCEPT !.got = Candidate(a, First(Roomy(a, n))),
                 !.bump = Candidate(a, First(Roomy(a, n))) + SIZE,
                 !.used = @ + n]

\* allocate_contiguous: never from the free list.
AllocateContiguous(a, n) ==
  IF n = 0 THEN [a EXCEPT !.got = NoFrame]
  ELSE IF Roomy(a, n) = {} THEN Refused(a)
  ELSE [a EXCEPT !.got = Candidate(a, First(Roomy(a, n))),
                 !.bump = Candidate(a, First(Roomy(a, n))) + n * SIZE,
                 !.used = @ + n]

FreeHead(a) == IF a.free = <<>> THEN 0 ELSE Head(a.free)

\* allocate_frame: the free list first, then the first region with a frame left.
AllocateFrame(a) ==
  IF FreeHead(a) # 0
  THEN [a EXCEPT !.got = Head(a.free), !.free = Tail(@), !.used = @ + 1]
  ELSE AllocateContiguous(a, 1)

\* deallocate_frame: f becomes the head and stores the old head.
DeallocateFrame(a, f) ==
  [a EXCEPT !.free = <<f>> \o (IF FreeHead(a) = 0 THEN <<>> ELSE @),
            !.used = @ - 1, !.freed = @ + 1, !.got = NoFrame]

\* reserve_low_frame: a page the start-up IPI can name; not frame 0, not counted as out of memory.
LowCandidate(a, i) == Larger(RoundUp(Larger(MemoryRegions[i].start, SIZE)), RoundUp(a.bump))
LowRoomy(a) ==
  {i \in Usable : LowCandidate(a, i) + SIZE <= MemoryRegions[i].end
                  /\ LowCandidate(a, i) + SIZE <= LOW}
ReserveLowFrame(a) ==
  IF LowRoomy(a) = {} THEN [a EXCEPT !.got = NoFrame]
  ELSE [a EXCEPT !.got = LowCandidate(a, First(LowRoomy(a))),
                 !.bump = LowCandidate(a, First(LowRoomy(a))) + SIZE,
                 !.used = @ + 1]

\* The frames of a span of n that starts at f.
Span(f, n) == {f + k * SIZE : k \in 0..n-1}
=============================================================================
