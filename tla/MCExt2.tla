------------------------------- MODULE MCExt2 -------------------------------
(* Instances of the ext2 driver: blocks of ten four-byte units, so that a  *)
(* directory takes one short name next to "." and "..", and a long one     *)
(* makes it grow; one direct block and two pointers to a table, so that    *)
(* block 1 of a file is single- and block 5 double-indirect, and block 7   *)
(* is out of reach.                                                        *)
EXTENDS Ext2

MCBlocks == 6..10
MCSpan == [n \in {".", "..", "d", "f", "L"} |-> IF n = "L" THEN 5 ELSE 3]
MCFiles == {<<"d", "f">>, <<"d", "L">>}
MCDirs == {<<"d">>}
MCWrites == {<<0, 2>>, <<5, 1>>, <<6, 2>>}
=============================================================================
