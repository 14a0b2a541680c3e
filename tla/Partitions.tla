----------------------------- MODULE Partitions -----------------------------
(***************************************************************************)
(* The block layer at boot, kernel/src/block.rs: the probe of the disk and *)
(* the scan of its MBR or GPT.  Sizes are counted in units of which SECTOR *)
(* make a sector.  The disk is one of Disks; every read may fail.          *)
(***************************************************************************)
EXTENDS Integers, Sequences, FiniteSets

CONSTANTS
  Disks,            \* [table, magic, size, entries]: LBA 0, and what LBA 1 describes
  SECTOR,           \* units of a sector
  GPT_ENTRY_MIN, GPT_ENTRY_MAX, GPT_MAX_ENTRIES, GPT_MAX_SECTORS,
  CHUNK             \* sectors one transfer can ask for: the largest u8

ASSUME PartitionsAssumption ==
  /\ SECTOR \in Nat \ {0} /\ CHUNK \in Nat \ {0}
  /\ GPT_ENTRY_MIN \in Nat \ {0} /\ GPT_ENTRY_MAX \in Nat /\ GPT_MAX_SECTORS \in Nat

\* An entry has a size in units, and the array is a sequence of entries.
ASSUME DisksAssumption ==
  \A d \in Disks : /\ d.size \in Nat
                   /\ d.entries \in Seq({d.entries[i] : i \in DOMAIN d.entries})

VARIABLE block   \* the progress of block::init and, once it is ready, the Disk

Absent == [kind |-> "empty", first |-> 0, last |-> 0]

\* A partition-table entry as the scan lists it.
Partition(e) ==
  [kind |-> e.kind, start |-> e.first,
   sectors |-> (IF e.last > e.first THEN e.last - e.first ELSE 0) + 1]

\* scan_mbr, and the hybrid entries scan_gpt appends: empty and protective ones are skipped.
ScanMbr(table) ==
  [i \in DOMAIN SelectSeq(table, LAMBDA e : e.kind \notin {"empty", "protective"}) |->
     Partition(SelectSeq(table, LAMBDA e : e.kind \notin {"empty", "protective"})[i])]

\* validate_gpt_geometry
ValidateGptGeometry(size, count) ==
  GPT_ENTRY_MIN <= size /\ size <= GPT_ENTRY_MAX /\ count <= GPT_MAX_ENTRIES

Smaller(x, y) == IF x < y THEN x ELSE y
Greater(x, y) == IF x < y THEN y ELSE x

WantSectors(d) == Smaller((d.size * Len(d.entries) + SECTOR - 1) \div SECTOR, GPT_MAX_SECTORS)

\* The entries that lie whole in the first `sectors` sectors of the array: behind the buffer the
\* scan stops.
EntriesIn(d, sectors) ==
  [i \in 1..Smaller(Len(d.entries), (sectors * SECTOR) \div d.size) |-> d.entries[i]]

ScanGpt(d, sectors) == ScanMbr(EntriesIn(d, sectors)) \o ScanMbr(d.table)

NoBlock == [pc |-> "probe", disk |-> Absent, want |-> 0, got |-> 0, parts |-> <<>>, failed |-> "no"]
Ready(b, parts) == [b EXCEPT !.pc = "ready", !.parts = parts, !.want = 0, !.got = 0]

\* block::init up to the choice of the layout.  No drive, an unstable LBA 0 or a missing
\* signature leave the kernel without a disk.
Probe(d) ==
  /\ block.pc = "probe"
  /\ \/ block' = [block EXCEPT !.pc = "none"]
     \/ /\ d.table[1].kind # "protective"
        /\ block' = Ready([block EXCEPT !.disk = d], ScanMbr(d.table))
     \/ /\ d.table[1].kind = "protective"
        /\ block' = [block EXCEPT !.pc = "header", !.disk = d]

\* scan_gpt: the header.  An unreadable or impossible one gives no partitions, hybrid ones
\* included; a bad CRC is only logged.
ScanHeader ==
  /\ block.pc = "header"
  /\ \/ block' = [Ready(block, <<>>) EXCEPT !.failed = "yes"]
     \/ /\ block.disk.magic # "EFI PART" \/ ~ValidateGptGeometry(block.disk.size,
                                                                  Len(block.disk.entries))
        /\ block' = Ready(block, <<>>)
     \/ /\ block.disk.magic = "EFI PART"
        /\ ValidateGptGeometry(block.disk.size, Len(block.disk.entries))
        /\ block' = [block EXCEPT !.pc = "array", !.want = WantSectors(block.disk)]

\* Variant: one transfer of the length cast to a u8.
ReadArrayCast ==
  /\ block.pc = "array"
  /\ block' = Ready(block, ScanGpt(block.disk, block.want % (CHUNK + 1)))

\* scan_gpt: the entry array, at most CHUNK sectors a transfer, then the entries.
ReadArray ==
  /\ block.pc = "array"
  /\ \/ block' = [Ready(block, <<>>) EXCEPT !.failed = "yes"]
     \/ /\ block.got < block.want
        /\ block' = [block EXCEPT !.got = @ + Smaller(CHUNK, block.want - @)]
     \/ /\ block.got = block.want
        /\ block' = Ready(block, ScanGpt(block.disk, block.want))

ScanDisk == (\E d \in Disks : Probe(d)) \/ ScanHeader \/ ReadArray

\* When no transfer failed, the list is what the table says, in order and however many transfers
\* the entry array takes (an earlier `sectors as u8` under-read an array of more than 255
\* sectors): every partition of an MBR; every partition of an accepted GPT whose entry lies in
\* the first GPT_MAX_SECTORS sectors of the array, then the hybrid ones; nothing of a GPT that is
\* refused.  The geometry validate_gpt_geometry accepts allows a longer array (16 MiB for a cap
\* of 2 MiB), and the partitions behind the cap are dropped without a word, although the comment
\* says that the loop "reads exactly the sectors the validated sizes call for".
TableIsScanned ==
  block.pc = "ready" /\ block.failed = "no" =>
    LET d == block.disk
    IN  block.parts =
          IF d.table[1].kind # "protective" THEN ScanMbr(d.table)
          ELSE IF d.magic = "EFI PART" /\ ValidateGptGeometry(d.size, Len(d.entries))
               THEN ScanMbr(EntriesIn(d, GPT_MAX_SECTORS)) \o ScanMbr(d.table)
               ELSE <<>>
=============================================================================
