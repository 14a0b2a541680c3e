------------------------------ MODULE Scheduler ------------------------------
(***************************************************************************)
(* The SMP task scheduler of the kernel (kernel/src/scheduler.rs, with the *)
(* per-CPU slots of smp.rs and the blocking loops of syscall.rs).          *)
(*                                                                         *)
(* One global task table guarded by SCHED_LOCK: every critical section is  *)
(* one step.  The context switch runs OUTSIDE the lock, so a switch is two *)
(* steps: Preempt plans it (current moves) and ContextSwitch performs it   *)
(* (onCpu, the context whose registers are really live, moves).  Between   *)
(* the two the CPU has interrupts off and does nothing else.               *)
(*                                                                         *)
(* Task ids are handed out under the lock in table order, so a task's id   *)
(* is its table index + 1 and the table is 1..count.  Deadlines are        *)
(* abstracted to the set of tasks whose tick or TSC deadline has passed.   *)
(***************************************************************************)
EXTENDS Integers, FiniteSets

CONSTANTS
  CPUs,         \* online CPUs
  BSP,          \* the boot CPU
  MaxTasks,     \* bound on the number of tasks ever spawned
  SliceNormal,  \* ticks in a NORMAL slice (8 in the code)
  SpawnPrios,   \* the priorities tasks are spawned with
  Births,       \* the ways tasks are spawned
  Calls         \* task -> the scheduler services it uses

ASSUME SchedAssumption ==
  /\ BSP \in CPUs
  /\ MaxTasks \in Nat \ {0}
  /\ SliceNormal \in Nat \ {0}
  /\ SpawnPrios \subseteq {0, 1, 2}
  /\ Births \subseteq {"kernel", "child", "orphan", "user", "remote"}
  /\ Calls \in [1..MaxTasks ->
                 SUBSET {"wait", "read", "raw", "sleep", "yield", "kill", "rt", "return"}]

PRIO_RT == 0
PRIO_NORMAL == 1
PRIO_IDLE == 2

Ids == 1..MaxTasks
Idle == 0                   \* MAIN_INDEX: a CPU's own idle context
Kernel == 0                 \* parent id of kernel-owned tasks
Nobody == MaxTasks + 1      \* a parent id no task has
Killed == 137

States == {"Unborn", "Running", "Ready", "Sleeping", "Blocked", "Dead"}

\* Where a task is in its own kernel code: "entry" is the ring-3 trampoline,
\* "run" its ordinary code, "halt" the final hlt loop; the others are points of
\* the SYS_WAITPID, SYS_READ(0) and SYS_INPUT_READ loops.
Points == {"entry", "run", "halt", "reap", "waitable", "block",
           "line", "noline", "drain"}

VARIABLES
  count,        \* TASK_COUNT
  state, owner, priority, slice, parent, exitCode,   \* Task fields
  reaped,       \* tasks with reaped = true
  onInput, onRaw, onChild,  \* tasks with the blocked_on_* flag set
  due,          \* tasks whose sleep deadline has passed
  pc, waitFor,  \* program point of each task, argument of its waitpid
  resched,      \* tasks whose next step is the preempt() that ends a park
  current, pendingPrev, onCpu,   \* per CPU
  pending       \* "line": keyboard::line_pending, "raw": input::pending

table == <<count, state, owner, priority, slice, parent, exitCode, reaped>>
waits == <<onInput, onRaw, onChild, due>>
progs == <<pc, waitFor, resched>>
cpus == <<current, pendingPrev, onCpu>>
vars == <<table, waits, progs, cpus, pending>>

Tasks == 1..count

FreshSlice(prio) == IF prio = PRIO_NORMAL THEN SliceNormal ELSE 1

Init ==
  /\ count = 0
  /\ state = [t \in Ids |-> "Unborn"]
  /\ owner = [t \in Ids |-> BSP]
  /\ priority = [t \in Ids |-> PRIO_NORMAL]
  /\ slice = [t \in Ids |-> 0]
  /\ parent = [t \in Ids |-> Kernel]
  /\ exitCode = [t \in Ids |-> 0]
  /\ reaped = {} /\ onInput = {} /\ onRaw = {} /\ onChild = {} /\ due = {}
  /\ pc = [t \in Ids |-> "run"]
  /\ waitFor = [t \in Ids |-> 0]
  /\ resched = {}
  /\ current = [c \in CPUs |-> Idle]
  /\ pendingPrev = [c \in CPUs |-> Idle]
  /\ onCpu = [c \in CPUs |-> Idle]
  /\ pending = {}
-----------------------------------------------------------------------------
(* preempt(): release the handoff slot, wake, tick, pick, decide.          *)

\* release_pending_prev: the task this CPU suspended at its last switch is
\* eligible again, unless something else changed its state meanwhile.
Released(c) ==
  LET prev == pendingPrev[c] IN
  IF prev # Idle /\ prev # current[c] /\ state[prev] = "Running" /\ owner[prev] = c
  THEN [state EXCEPT ![prev] = "Ready"]
  ELSE state

HasDeadUnreapedChild(t) ==
  \E k \in Tasks : parent[k] = t /\ state[k] = "Dead" /\ k \notin reaped

\* Variant: the wake pass forgets tasks blocked on a child.
UnblockedNoChild(t) ==
  \/ t \in onInput /\ "line" \in pending
  \/ t \notin onInput /\ t \in onRaw /\ "raw" \in pending

\* The three Blocked arms of wake_state_locked, in the order of the match.
Unblocked(t) ==
  \/ t \in onInput /\ "line" \in pending
  \/ t \notin onInput /\ t \in onRaw /\ "raw" \in pending
  \/ t \notin onInput \cup onRaw /\ t \in onChild /\ HasDeadUnreapedChild(t)

\* Variant: the wake pass forgets sleepers.
WakesNoSleeper(t) == state[t] = "Blocked" /\ Unblocked(t)

Wakes(t) ==
  \/ state[t] = "Sleeping" /\ t \in due
  \/ state[t] = "Blocked" /\ Unblocked(t)

\* The pass walks the table in order, but no entry it changes is read by a
\* later arm (no task enters or leaves Dead, and only orphans are reaped), so
\* all entries are updated at once.
Woken(st) == [t \in Ids |-> IF t \in Tasks /\ Wakes(t) THEN "Ready" ELSE st[t]]

Orphan(t) ==
  \/ parent[t] \notin Tasks
  \/ state[parent[t]] = "Dead"

\* Variants: every zombie is auto-reaped; only the kernel's own are.
AutoReapedAll == {t \in Tasks : state[t] = "Dead" /\ t \notin reaped}
AutoReapedKernel == {t \in AutoReapedAll : parent[t] = Kernel}

AutoReaped == {t \in Tasks : state[t] = "Dead" /\ t \notin reaped /\ Orphan(t)}

Ticked(cur, st) ==
  IF cur # Idle /\ st[cur] = "Running" /\ slice[cur] > 0
  THEN [slice EXCEPT ![cur] = @ - 1]
  ELSE slice

\* Variant: no affinity filter, any Ready task may be stolen.
CandidatesStolen(c, st) == {t \in Tasks : st[t] = "Ready"}

\* Ready tasks CPU c may take: the affinity filter of plan_switch.
Candidates(c, st) == {t \in Tasks : st[t] = "Ready" /\ owner[t] = c}

\* Variant: the scan always starts at the head of the table.
DistanceFromHead(cur, t) == t

\* Position of t in the round-robin scan that starts after the current task.
Distance(cur, t) == (t - 1 - cur + count) % count

\* best: highest class first, then first in scan order; Idle if none is Ready.
IsBest(c, st, best) ==
  LET ready == Candidates(c, st) IN
  IF ready = {} THEN best = Idle
  ELSE /\ best \in ready
       /\ \A t \in ready :
            \/ priority[best] < priority[t]
            \/ /\ priority[best] = priority[t]
               /\ Distance(current[c], best) <= Distance(current[c], t)

\* The current task goes on: nothing Ready, an RT task, or a slice not used up
\* with nothing of a better class waiting.
Keeps(cur, st, sl, best) ==
  /\ cur # Idle /\ st[cur] = "Running"
  /\ \/ best = Idle
     \/ priority[cur] = PRIO_RT
     \/ sl[cur] > 0 /\ priority[best] >= priority[cur]

\* Interrupts are off from the plan to the end of a switch and in the trampoline.
InterruptsOn(c) ==
  /\ onCpu[c] = current[c]
  /\ current[c] # Idle => pc[current[c]] # "entry"

Stay(c, st, sl) ==
  /\ state' = st
  /\ slice' = sl
  /\ pendingPrev' = [pendingPrev EXCEPT ![c] = Idle]
  /\ UNCHANGED current

\* Variant: the outgoing task is not remembered in the handoff slot.
SwitchToForgetful(c, next, st, sl) ==
  /\ state' = IF next = Idle THEN st ELSE [st EXCEPT ![next] = "Running"]
  /\ slice' = IF next = Idle THEN sl ELSE [sl EXCEPT ![next] = FreshSlice(priority[next])]
  /\ pendingPrev' = [pendingPrev EXCEPT ![c] = Idle]
  /\ current' = [current EXCEPT ![c] = next]

\* The outgoing task keeps Running (and this CPU) until the next release; one
\* that parked itself is already Sleeping/Blocked/Ready/Dead.
SwitchTo(c, next, st, sl) ==
  /\ state' = IF next = Idle THEN st ELSE [st EXCEPT ![next] = "Running"]
  /\ slice' = IF next = Idle THEN sl ELSE [sl EXCEPT ![next] = FreshSlice(priority[next])]
  /\ pendingPrev' = [pendingPrev EXCEPT ![c] =
       IF current[c] # Idle /\ st[current[c]] = "Running" THEN current[c] ELSE Idle]
  /\ current' = [current EXCEPT ![c] = next]

Preempt(c) ==
  LET cur == current[c]
      st == Woken(Released(c))
      sl == Ticked(cur, st) IN
  /\ InterruptsOn(c)
  /\ \E best \in Tasks \cup {Idle} :
       /\ IsBest(c, st, best)
       /\ IF best = cur \/ Keeps(cur, st, sl, best)
          THEN Stay(c, st, sl)
          ELSE SwitchTo(c, best, st, sl)
  /\ reaped' = reaped \cup AutoReaped
  /\ resched' = resched \ {cur}
  /\ due' = {t \in due : ~Wakes(t)}
  /\ UNCHANGED <<count, owner, priority, parent, exitCode, onInput, onRaw, onChild,
                 pc, waitFor, onCpu, pending>>

\* context_switch, after the lock is dropped: the outgoing registers are saved
\* and the incoming ones loaded.
ContextSwitch(c) ==
  /\ onCpu[c] # current[c]
  /\ onCpu' = [onCpu EXCEPT ![c] = current[c]]
  /\ UNCHANGED <<table, waits, progs, current, pendingPrev, pending>>
-----------------------------------------------------------------------------
(* What the context executing on CPU c does.                               *)

\* CPU c is executing context t, which does not owe a preempt().
Executes(c, t) == current[c] = t /\ onCpu[c] = t /\ t \notin resched

At(c, t, p) == t # Idle /\ Executes(c, t) /\ pc[t] = p

Goto(t, p) == pc' = [pc EXCEPT ![t] = p]

\* First code of a ring-3 task: it bypasses preempt's resume path, so it
\* releases the handoff slot itself.
UserEntry(c, t) ==
  /\ At(c, t, "entry")
  /\ state' = Released(c)
  /\ pendingPrev' = [pendingPrev EXCEPT ![c] = Idle]
  /\ Goto(t, "run")
  /\ UNCHANGED <<count, owner, priority, slice, parent, exitCode, reaped, waits,
                 waitFor, resched, current, onCpu, pending>>

\* The parent id a new task gets from its spawner t.
ParentOf(kind, t) ==
  CASE kind \in {"kernel", "remote"} -> Kernel
    [] kind \in {"child", "user"} -> t
    [] kind = "orphan" -> Nobody

\* spawn/spawn_prio ("kernel"), spawn_with_parent ("child"; "orphan" when the
\* id it names belongs to no task), spawn_user ("user"), spawn_on_cpu
\* ("remote").  The spawner is a task or the boot/idle context of CPU c.
Spawn(c, t, kind, own, prio) ==
  LET new == count + 1 IN
  /\ Executes(c, t) /\ (t # Idle => pc[t] = "run")
  /\ count < MaxTasks
  /\ kind # "remote" => own = c
  /\ kind = "user" => prio = PRIO_NORMAL
  /\ count' = new
  /\ state' = [state EXCEPT ![new] = "Ready"]
  /\ owner' = [owner EXCEPT ![new] = own]
  /\ priority' = [priority EXCEPT ![new] = prio]
  /\ slice' = [slice EXCEPT ![new] = FreshSlice(prio)]
  /\ parent' = [parent EXCEPT ![new] = ParentOf(kind, t)]
  /\ Goto(new, IF kind = "user" THEN "entry" ELSE "run")
  /\ UNCHANGED <<exitCode, reaped, waits, waitFor, resched, cpus, pending>>

\* set_priority(self, PRIO_RT): the present flusher promotes itself.
SetPriority(c, t) ==
  /\ "rt" \in Calls[t]
  /\ At(c, t, "run")
  /\ state[t] # "Dead"
  /\ priority' = [priority EXCEPT ![t] = PRIO_RT]
  /\ UNCHANGED <<count, state, owner, slice, parent, exitCode, reaped, waits,
                 progs, cpus, pending>>

\* record_exit / mark_current_dead, then the hlt loop (or the ring-3 jmp $).
\* A self-SYS_KILL is the same with code 137.
Exit(c, t, code) ==
  /\ At(c, t, "run")
  /\ state' = [state EXCEPT ![t] = "Dead"]
  /\ exitCode' = [exitCode EXCEPT ![t] = code]
  /\ reaped' = reaped \ {t}
  /\ Goto(t, "halt")
  /\ UNCHANGED <<count, owner, priority, slice, parent, waits, waitFor, resched,
                 cpus, pending>>

\* A kernel task whose entry function returns: task_entry halts it forever,
\* still Running.
EntryReturns(c, t) ==
  /\ "return" \in Calls[t]
  /\ At(c, t, "run")
  /\ Goto(t, "halt")
  /\ UNCHANGED <<table, waits, waitFor, resched, cpus, pending>>

\* Variant: a zombie can be killed once more.
KillTwice(c, t, pid) ==
  /\ "kill" \in Calls[t]
  /\ At(c, t, "run")
  /\ pid \in Tasks \ {t}
  /\ state' = [state EXCEPT ![pid] = "Dead"]
  /\ exitCode' = [exitCode EXCEPT ![pid] = Killed]
  /\ reaped' = reaped \ {pid}
  /\ UNCHANGED <<count, owner, priority, slice, parent, waits, progs, cpus, pending>>

\* kill(pid) of another task, which may be executing on its own CPU.
Kill(c, t, pid) ==
  /\ "kill" \in Calls[t]
  /\ At(c, t, "run")
  /\ pid \in Tasks \ {t}
  /\ state[pid] # "Dead"
  /\ state' = [state EXCEPT ![pid] = "Dead"]
  /\ exitCode' = [exitCode EXCEPT ![pid] = Killed]
  /\ reaped' = reaped \ {pid}
  /\ UNCHANGED <<count, owner, priority, slice, parent, waits, progs, cpus, pending>>

\* sleep_current and sleep_current_ns: both clear the input flags, neither the
\* child flag.  The preempt() that follows is owed.
Sleep(c, t) ==
  /\ "sleep" \in Calls[t]
  /\ At(c, t, "run")
  /\ state' = [state EXCEPT ![t] = "Sleeping"]
  /\ due' = due \ {t}
  /\ onInput' = onInput \ {t}
  /\ onRaw' = onRaw \ {t}
  /\ resched' = resched \cup {t}
  /\ UNCHANGED <<count, owner, priority, slice, parent, exitCode, reaped, onChild,
                 pc, waitFor, cpus, pending>>

\* yield_current: Running -> Ready, then preempt().
Yielded(t) == IF state[t] = "Running" THEN [state EXCEPT ![t] = "Ready"] ELSE state

Yield(c, t) ==
  /\ "yield" \in Calls[t]
  /\ At(c, t, "run")
  /\ state' = Yielded(t)
  /\ resched' = resched \cup {t}
  /\ UNCHANGED <<count, owner, priority, slice, parent, exitCode, reaped, waits,
                 pc, waitFor, cpus, pending>>

\* wake_task_now(id): the damage path promotes a sleeping task before its
\* deadline.  It runs in any context of CPU c, interrupt handlers included.
WakeTaskNow(c, id) ==
  /\ onCpu[c] = current[c]
  /\ id \in Tasks
  /\ state[id] = "Sleeping"
  /\ priority[id] = PRIO_RT
  /\ state' = [state EXCEPT ![id] = "Ready"]
  /\ UNCHANGED <<count, owner, priority, slice, parent, exitCode, reaped, waits,
                 progs, cpus, pending>>
-----------------------------------------------------------------------------
(* The blocking system calls, one step per scheduler critical section.     *)

WaitPid(c, t, pid) ==
  /\ "wait" \in Calls[t]
  /\ At(c, t, "run")
  /\ Goto(t, "reap")
  /\ waitFor' = [waitFor EXCEPT ![t] = pid]
  /\ UNCHANGED <<table, waits, resched, cpus, pending>>

\* The call returns and its argument is gone.
Return(t) == Goto(t, "run") /\ waitFor' = [waitFor EXCEPT ![t] = 0]

\* Children of t that its waitpid names (0 names any).
Matching(t) == {k \in Tasks : parent[k] = t /\ waitFor[t] \in {0, k}}

Zombies(t) == {k \in Matching(t) : state[k] = "Dead" /\ k \notin reaped}

\* try_reap takes the first zombie in table order.
TryReap(c, t) ==
  /\ At(c, t, "reap")
  /\ \/ /\ \E k \in Zombies(t) :
             (\A j \in Zombies(t) : k <= j) /\ reaped' = reaped \cup {k}
        /\ Return(t)
     \/ /\ Zombies(t) = {}
        /\ Goto(t, "waitable")
        /\ UNCHANGED <<reaped, waitFor>>
  /\ UNCHANGED <<count, state, owner, priority, slice, parent, exitCode, waits,
                 resched, cpus, pending>>

\* child_waitable: no candidate left means -ECHILD.
ChildWaitable(c, t) ==
  /\ At(c, t, "waitable")
  /\ IF \E k \in Matching(t) : state[k] # "Dead" \/ k \notin reaped
     THEN Goto(t, "block") /\ UNCHANGED waitFor
     ELSE Return(t)
  /\ UNCHANGED <<table, waits, resched, cpus, pending>>

\* A park: Blocked with one flag set, the preempt() that follows is owed.
Park(t) ==
  /\ state' = [state EXCEPT ![t] = "Blocked"]
  /\ resched' = resched \cup {t}
  /\ UNCHANGED <<count, owner, priority, slice, parent, exitCode, reaped, due,
                 waitFor, cpus, pending>>

BlockOnChild(c, t) ==
  /\ At(c, t, "block")
  /\ Park(t)
  /\ onChild' = onChild \cup {t}
  /\ Goto(t, "reap")
  /\ UNCHANGED <<onInput, onRaw>>

StartRead(c, t) ==
  /\ "read" \in Calls[t]
  /\ At(c, t, "run")
  /\ Goto(t, "line")
  /\ UNCHANGED <<table, waits, waitFor, resched, cpus, pending>>

\* take_line: a completed line ends the read, an empty one is consumed and
\* reads as "nothing yet"; more lines may be behind it.
TakeLine(c, t) ==
  /\ At(c, t, "line")
  /\ \/ /\ "line" \in pending
        /\ pending' \in {pending, pending \ {"line"}}
        /\ \E p \in {"run", "noline"} : Goto(t, p)
     \/ /\ "line" \notin pending
        /\ Goto(t, "noline")
        /\ UNCHANGED pending
  /\ UNCHANGED <<table, waits, waitFor, resched, cpus>>

\* Nothing taken: yield if a line arrived meanwhile, else block.
YieldForLine(c, t) ==
  /\ At(c, t, "noline")
  /\ "line" \in pending
  /\ state' = Yielded(t)
  /\ resched' = resched \cup {t}
  /\ Goto(t, "line")
  /\ UNCHANGED <<count, owner, priority, slice, parent, exitCode, reaped, waits,
                 waitFor, cpus, pending>>

BlockOnInput(c, t) ==
  /\ At(c, t, "noline")
  /\ "line" \notin pending
  /\ Park(t)
  /\ onInput' = onInput \cup {t}
  /\ Goto(t, "line")
  /\ UNCHANGED <<onRaw, onChild>>

StartDrain(c, t) ==
  /\ "raw" \in Calls[t]
  /\ At(c, t, "run")
  /\ Goto(t, "drain")
  /\ UNCHANGED <<table, waits, waitFor, resched, cpus, pending>>

Drain(c, t) ==
  /\ At(c, t, "drain")
  /\ "raw" \in pending
  /\ pending' \in {pending, pending \ {"raw"}}
  /\ Goto(t, "run")
  /\ UNCHANGED <<table, waits, waitFor, resched, cpus>>

BlockOnRaw(c, t) ==
  /\ At(c, t, "drain")
  /\ "raw" \notin pending
  /\ Park(t)
  /\ onRaw' = onRaw \cup {t}
  /\ Goto(t, "drain")
  /\ UNCHANGED <<onInput, onChild>>
-----------------------------------------------------------------------------
(* The environment: clocks and input devices.                              *)

DeadlinePasses(t) ==
  /\ state[t] = "Sleeping" /\ t \notin due
  /\ due' = due \cup {t}
  /\ UNCHANGED <<table, onInput, onRaw, onChild, progs, cpus, pending>>

LineArrives ==
  /\ \E t \in Ids : "read" \in Calls[t]
  /\ "line" \notin pending
  /\ pending' = pending \cup {"line"}
  /\ UNCHANGED <<table, waits, progs, cpus>>

RawEventArrives ==
  /\ \E t \in Ids : "raw" \in Calls[t]
  /\ "raw" \notin pending
  /\ pending' = pending \cup {"raw"}
  /\ UNCHANGED <<table, waits, progs, cpus>>
-----------------------------------------------------------------------------
SystemCall(c, t) ==
  \/ \E pid \in 0..count : WaitPid(c, t, pid)
  \/ TryReap(c, t) \/ ChildWaitable(c, t) \/ BlockOnChild(c, t)
  \/ StartRead(c, t) \/ TakeLine(c, t) \/ YieldForLine(c, t) \/ BlockOnInput(c, t)
  \/ StartDrain(c, t) \/ Drain(c, t) \/ BlockOnRaw(c, t)

TaskStep(c, t) ==
  \/ UserEntry(c, t)
  \/ SetPriority(c, t)
  \/ \E code \in {0, Killed} : Exit(c, t, code)
  \/ EntryReturns(c, t)
  \/ \E pid \in Ids : Kill(c, t, pid)
  \/ Sleep(c, t)
  \/ Yield(c, t)
  \/ SystemCall(c, t)

Spawns(c, t) ==
  \E kind \in Births, own \in CPUs, prio \in SpawnPrios :
    Spawn(c, t, kind, own, prio)

Environment == (\E t \in Ids : DeadlinePasses(t)) \/ LineArrives \/ RawEventArrives

Next ==
  \/ \E c \in CPUs :
       \/ Preempt(c)
       \/ ContextSwitch(c)
       \/ \E t \in Ids : TaskStep(c, t) \/ WakeTaskNow(c, t)
       \/ \E t \in Ids \cup {Idle} : Spawns(c, t)
  \/ Environment

Spec == Init /\ [][Next]_vars

\* The LAPIC timer of every CPU keeps firing, a planned switch completes, the
\* trampoline is straight-line code and the clocks advance.  Nothing is assumed
\* of what a task chooses to do.
Fairness ==
  /\ \A c \in CPUs :
       /\ WF_vars(Preempt(c))
       /\ WF_vars(ContextSwitch(c))
       /\ \A t \in Ids : WF_vars(UserEntry(c, t))
  /\ \A t \in Ids : WF_vars(DeadlinePasses(t))

FairSpec == Spec /\ Fairness
-----------------------------------------------------------------------------
TypeOK ==
  /\ count \in 0..MaxTasks
  /\ state \in [Ids -> States]
  /\ owner \in [Ids -> CPUs]
  /\ priority \in [Ids -> 0..2]
  /\ slice \in [Ids -> Nat]
  /\ parent \in [Ids -> 0..Nobody]
  /\ exitCode \in [Ids -> {0, Killed}]
  /\ reaped \subseteq Ids
  /\ onInput \subseteq Ids /\ onRaw \subseteq Ids /\ onChild \subseteq Ids
  /\ due \subseteq Ids
  /\ pc \in [Ids -> Points]
  /\ waitFor \in [Ids -> 0..MaxTasks]
  /\ resched \subseteq Ids
  /\ current \in [CPUs -> Ids \cup {Idle}]
  /\ pendingPrev \in [CPUs -> Ids \cup {Idle}]
  /\ onCpu \in [CPUs -> Ids \cup {Idle}]
  /\ pending \subseteq {"line", "raw"}

\* The contexts CPU c touches: the one live in its registers and, inside a
\* switch, the one it is about to load.
Touched(c) == {onCpu[c], current[c]} \ {Idle}

\* No task context (kernel stack, saved RSP, FPU image) is ever touched by two
\* CPUs: neither run on both, nor loaded by one while the other has not saved
\* it.  This is what the pick under SCHED_LOCK, the pending_prev handoff and the
\* affinity filter of plan_switch are for.
ExclusiveContext ==
  \A c, d \in CPUs : c # d => Touched(c) \cap Touched(d) = {}

\* A Running task is always in reach of the CPU that owns it, as its current
\* task or in its pending_prev slot; otherwise no release_pending_prev would
\* ever make it Ready again and it would be lost.
NoLostTask ==
  \A t \in Tasks : state[t] = "Running" =>
    t \in {current[owner[t]], pendingPrev[owner[t]]}

\* A zombie that has not come to its final halt (the hlt loop of exit_current, the
\* ring-3 jmp of dead_frame_rewrite) was killed; one that left by record_exit has.
ZombieIsHalted ==
  \A t \in Ids : state[t] = "Dead" /\ pc[t] # "halt" => exitCode[t] = Killed

\* Task t goes on executing its own code although it was killed: kill marks a task
\* Dead wherever it runs, and the reschedule IPI reaches its CPU only later.
OutlivesKill(t) ==
  /\ pc[t] # "halt" /\ exitCode[t] = Killed
  /\ \E c \in CPUs : Executes(c, t)

\* A zombie is frozen: no step revives it, changes the status it left, makes a
\* consumed status available a second time, or gives it a CPU again (record_exit,
\* kill, try_reap, wake_state_locked, plan_switch).  The one exception is a task
\* killed from another CPU, until its own CPU takes it off: what it does there
\* meanwhile (exit, sleep, block) overwrites the state and the status 137.
ZombieIsFrozen ==
  [][\A t \in Tasks : state[t] = "Dead" =>
       \/ OutlivesKill(t)
       \/ /\ state'[t] = "Dead"
          /\ exitCode'[t] = exitCode[t]
          /\ t \in reaped => t \in reaped'
          /\ \A c \in CPUs : current'[c] = t => current[c] = t]_vars

\* An exit status is consumed only by the parent's own try_reap, or by the wake
\* pass when no living parent could ever ask for it.
StatusGoesToParent ==
  [][\A t \in reaped' \ reaped :
       \/ Orphan(t)
       \/ pc[parent[t]] = "reap" /\ pc'[parent[t]] = "run"]_vars
-----------------------------------------------------------------------------
\* Round robin is starvation free inside the best class: a Ready task of which
\* nothing better is waiting gets its CPU (or stops being Ready).
SameClass == \A s, t \in Tasks : priority[s] = priority[t]

ReadyRuns ==
  \A t \in Ids :
    (state[t] = "Ready" /\ SameClass) ~> (state[t] # "Ready" \/ current[owner[t]] = t
                                            \/ ~SameClass)

\* Every sleeper is made Ready again once its deadline passes.
SleeperWakes ==
  \A t \in Ids : (state[t] = "Sleeping") ~> (state[t] # "Sleeping")

\* block_on_child: "block the current task until one of its children dies
\* (waitpid)".  A task parked in waitpid with an unreaped dead child wakes.
Waiting(t) == state[t] = "Blocked" /\ pc[t] = "reap"

ChildDeathWakes ==
  \A t \in Ids : (Waiting(t) /\ HasDeadUnreapedChild(t)) ~> ~Waiting(t)

\* The same for a task that never blocked on input since its last sleep.
ChildDeathWakesFresh ==
  \A t \in Ids :
    (Waiting(t) /\ t \notin onInput \cup onRaw /\ HasDeadUnreapedChild(t)) ~> ~Waiting(t)

\* A zombie nobody can wait for does not stay one (wake_state_locked).
OrphansAreReaped ==
  \A t \in Ids :
    (t \in Tasks /\ state[t] = "Dead" /\ Orphan(t)) ~> (t \in reaped \/ state[t] # "Dead")
=============================================================================
