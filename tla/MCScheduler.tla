---------------------------- MODULE MCScheduler -----------------------------
(* What the tasks of the instances of Scheduler do. *)
EXTENDS Scheduler

\* Any task may sleep and kill; the first waits and promotes itself, the other yields.
Busy == [t \in Ids |-> {"sleep", "kill"} \cup IF t = 1 THEN {"wait", "rt"} ELSE {"yield"}]

\* The first reads lines and waits for its children, which read raw events.
ParentAndChildren ==
  [t \in Ids |-> IF t = 1 THEN {"wait", "read", "sleep", "return"} ELSE {"raw", "sleep", "return"}]
=============================================================================
