----------------------------- MODULE MCProcess ------------------------------
(* Two fixed programs that touch, one that overlaps both, a static PIE for Linux, a     *)
(* program with a bad second segment, one linked into the brk arena, and one with two   *)
(* segments on one page.                                                                *)
EXTENDS Process

MCRegions ==
  <<[start |-> 1, end |-> 7, usable |-> "yes"],
    [start |-> 7, end |-> 8, usable |-> "no"],
    [start |-> 9, end |-> 31, usable |-> "yes"],
    [start |-> 34, end |-> 41, usable |-> "yes"]>>

Seg(lo, hi, write, data) == [lo |-> lo, hi |-> hi, write |-> write, data |-> data]
Image(type, segs, entry, relocs, abi) ==
  [type |-> type, segs |-> segs, entry |-> entry, relocs |-> relocs, abi |-> abi]

MCImages ==
  {Image("EXEC", <<Seg(2, 4, "no", "ok")>>, 2, <<>>, "onyx"),
   Image("EXEC", <<Seg(3, 4, "yes", "ok"), Seg(4, 5, "yes", "short")>>, 3, <<>>, "onyx"),
   Image("DYN", <<Seg(0, 1, "no", "ok")>>, 0, <<[page |-> 0, symbol |-> "local"]>>, "linux"),
   Image("DYN", <<Seg(1, 2, "no", "ok")>>, 1, <<[page |-> 2, symbol |-> "local"]>>, "onyx"),
   Image("EXEC", <<Seg(4, 5, "no", "ok")>>, 4, <<>>, "linux"),
   Image("EXEC", <<Seg(9, 10, "no", "ok")>>, 9, <<>>, "onyx"),
   Image("CORE", <<Seg(2, 3, "no", "ok")>>, 2, <<>>, "onyx"),
   Image("EXEC", <<Seg(1, 3, "no", "ok")>>, 2, <<>>, "onyx"),
   Image("EXEC", <<Seg(5, 6, "no", "ok"), Seg(5, 6, "yes", "ok")>>, 5, <<>>, "onyx")}

MCArgvs == {<<3839>>, <<3839, 0>>}
=============================================================================
