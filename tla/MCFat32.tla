------------------------------ MODULE MCFat32 ------------------------------
(* The paths the runs of Fat32 use. *)
EXTENDS Fat32, TLC

MCFiles == {<<"d", "f">>, <<"d", "L">>}
MCDirs == {<<"d">>}
MCWrites == {<<0, 0>>, <<0, 5>>, <<0, 6>>, <<6, 2>>}
MCLongFiles == {<<"f">>, <<"L">>, <<"M">>}

\* The values written are only ever compared with each other.
MCSymmetry == Permutations(Data)
=============================================================================
