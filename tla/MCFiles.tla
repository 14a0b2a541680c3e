------------------------------ MODULE MCFiles -------------------------------
(* Instances of Files: an MBR disk, a GPT disk whose entry array takes three *)
(* transfers, one whose array is longer than the scan reads, and a table the *)
(* scan refuses.                                                             *)
EXTENDS Files

e0 == Absent
Fat(first, last) == [kind |-> "FAT32", first |-> first, last |-> last]
Linux(first, last) == [kind |-> "Linux", first |-> first, last |-> last]
Other(first, last) == [kind |-> "other", first |-> first, last |-> last]
Protective == [kind |-> "protective", first |-> 1, last |-> 99]
Mbr(table) == [table |-> table, magic |-> "none", size |-> 1, entries |-> <<>>]
Gpt(table, magic, size, entries) == [table |-> <<Protective>> \o table, magic |-> magic,
                                     size |-> size, entries |-> entries]

\* The disk build.rs makes: a small boot volume of type FAT32, the FAT32 and the ext2 volume.
Built == Mbr(<<Fat(1, 2), Fat(3, 9), Linux(10, 14), e0>>)
\* A GPT whose array takes CHUNK + 2 sectors, with a hybrid entry for the FAT32 volume.
Long == Gpt(<<Fat(3, 9)>>, "EFI PART", 2,
            <<Other(1, 2), e0, Linux(10, 14), Other(15, 15), e0, Linux(17, 18)>>)
\* A GPT whose array takes GPT_MAX_SECTORS + 1 sectors: the last entry is not read.
TooLong == Gpt(<<Fat(3, 9)>>, "EFI PART", 4,
               <<e0, Other(1, 2), Linux(10, 14), e0, Other(15, 15)>>)
MCDisks == {Built, Long, TooLong, Gpt(<<Fat(3, 9)>>, "EFI PART", 5, <<Linux(10, 14)>>)}
MCFormatted == [s \in 0..20 |-> IF s = 3 THEN "fat" ELSE IF s = 10 THEN "ext2" ELSE "junk"]
=============================================================================
