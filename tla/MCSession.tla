----------------------------- MODULE MCSession -----------------------------
(***************************************************************************)
(* Module Session on one screen size with small rings.                     *)
(* Packets: a press, a release and one that moves left and down with both  *)
(* motion bytes having the synchronisation bit set.                        *)
(***************************************************************************)
EXTENDS Session

MCPackets == {<<9, 0, 0>>, <<8, 1, 0>>, <<24, 250, 9>>}
MCSizes == {<<1920, 1080>>}

\* Two tasks share the terminal; a raw reader falls behind; a user clicks;
\* the watchdog meets a packet; a bit of everything.
MCScenarios ==
  {[keys |-> 4, packets |-> 0, retries |-> 0, readers |-> {"r1", "r2"}, raw |-> FALSE],
   [keys |-> 4, packets |-> 0, retries |-> 0, readers |-> {}, raw |-> TRUE],
   [keys |-> 0, packets |-> 4, retries |-> 0, readers |-> {}, raw |-> FALSE],
   [keys |-> 0, packets |-> 2, retries |-> 1, readers |-> {}, raw |-> FALSE],
   [keys |-> 1, packets |-> 1, retries |-> 0, readers |-> {"r1"}, raw |-> TRUE]}
=============================================================================
