------------------------------- MODULE MCSmp -------------------------------
(* Boards for Smp: one with more CPUs than slots, boards whose APs do not   *)
(* answer, boards on which the bring-up stops early, and boards whose boot  *)
(* CPU has another LAPIC id than 0, with and without an AP that has it.     *)
EXTENDS Smp

Good == [apic |-> TRUE, hz |-> "ok", low |-> "ok", maps |-> TRUE,
         bsp |-> 0, madt |-> <<1, 0, 2, 3>>, dead |-> {}]

MCBoards ==
  {Good, [Good EXCEPT !.dead = {1}], [Good EXCEPT !.bsp = 1, !.madt = <<1, 2>>],
   [Good EXCEPT !.madt = <<0, 1>>, !.dead = {1}], [Good EXCEPT !.madt = <<0>>],
   [Good EXCEPT !.apic = FALSE], [Good EXCEPT !.hz = "bogus"],
   [Good EXCEPT !.low = "none"], [Good EXCEPT !.low = "high"], [Good EXCEPT !.maps = FALSE],
   [Good EXCEPT !.bsp = 1, !.madt = <<2, 1, 0>>]}
=============================================================================
