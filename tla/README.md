# ONYX-OS: a TLA+ verification project

ONYX-OS is a no_std x86_64 kernel in Rust (`src/kernel`), a handful of user
programs (`src/user`), an image builder and QEMU launcher (`src/src`,
`src/build.rs`) and host tools that make and check disk images (`src/tools`).
This directory holds TLA+ models of the kernel's stateful parts, the TLC
configurations that check them on small instances, and TLAPS proofs of the
central safety properties for every value of the constants. `PROJECT.json` maps
every modelling definition to the lines it translates and lists the components,
runs, mutants, hazards and theorems.

## 1. The system and its parts

Paths are relative to `src/kernel/src`.

| part | state | operations | interacts with | what makes it hard | module |
|---|---|---|---|---|---|
| scheduler (`scheduler.rs`, per-CPU cells in `smp.rs`) | task table, `current`, `pending_prev` per CPU | `preempt`, spawn, exit, kill, waitpid, sleep, yield, block/wake | every system call, timer and reschedule IRQs | the switch runs outside the lock; kills of running tasks | Scheduler |
| block cache and ATA (`blkcache.rs`, `ata.rs`) | entries, clock hand, sequential tuple, the drive | `read`, `write`, `flush` | file systems, partition scan | transfers that fail half way, eviction, read-ahead past the end | BlockCache |
| FAT32 (`fat.rs`) | the volume only | `write_at`, `unlink`, `rename`, `mkdir`, `resolve` | VFS, block cache | calls cut between two disk writes, long names, a full disk | Fat32 |
| ext2 (`ext2.rs`; images from `tools/mkext2`) | bitmaps, superblock, descriptor, inodes, blocks; counts in memory | the same, with `fsync` and `mount` | VFS, block cache | counts kept in three places, indirect tables, directory records | Ext2 |
| partitions (`block.rs`), VFS (`vfs.rs`), file calls (`syscall.rs`) | partition list, mount table and drive lock, descriptor tables | scan, mount, `with_fs`, the file calls, exit and kill | scheduler, file systems | lock order; offset read before and advanced after the I/O | Partitions, Files |
| physical frames (`memory.rs`), process loading (`userspace.rs`) | bump cursor, free list; regions, stack slots, pages, brk and mmap arenas | allocation, ELF loading, start stack, brk, mmap, exit, kill | scheduler, paging | resources claimed step by step and never returned | Frames, Process |
| display (`gpu.rs`, `virtio.rs`) | mode registers, queues, resource, scanout | modeset, probe, `submit`, `present_bringup`, `flush_loop` | framebuffer, console | a time-out racing a late completion; one of many steps failing | Gpu |
| damage and present path (`framebuffer.rs`, `virtio.rs`) | `FB`, the damage box, its generation, the wake latch | `mark_dirty_rect`, drawing, `flush_loop` | scheduler, mouse IRQ | hand-over between drawing tasks, IRQ 12 and one RT flusher on the boot CPU | Present |
| pointer (`framebuffer.rs`) | sprite, saved pixels, visibility flags | moves, console output, repaints, hand-over | mouse IRQ, GPU task | several drawers around one sprite | Cursor |
| keyboard, mouse, event ring (`keyboard.rs`, `mouse.rs`, `input.rs`) | key ring, line, raw ring, packet assembly | IRQ 1, IRQ 12, `take_line`, `drain`, watchdog | scheduler, sign-in | lock-free rings at their limit; an interrupt and a polling sequence on one port | Input, Fifo |
| sign-in, desktop, power (`signin.rs`, `desktop.rs`, `power.rs`) | click slot, menu, phase, screen | `queue_click`, `run_pending`, repaints, `perform` | input, framebuffer | three atomics filled by an IRQ | Session |
| boot tail, APIC, AP bring-up (`main.rs`, `apic.rs`, `pit.rs`, `pic.rs`, `smp.rs`, `interrupts.rs`) | interrupt routing, timer interval, per-CPU blocks, one trampoline page | `apic::init`, `start_aps`, `ap_entry`, calibration | scheduler | APs that arrive late, a boot context that is preempted for good | Smp |
| clocks, FPU, console text, instrumentation, user programs, host tools | see section 6 | | | formatting or one-time hardware programming | |

The questions these parts raise are the hazards of `PROJECT.json`: each names the
line where it bites and the properties that would notice it going wrong, or says
why none does.

## 2. The modules

`MC*` modules only name values for constants that a `.cfg` cannot write;
`*Proofs` modules and `Ext2Layout` hold theorems, some of them about several components: their
specifications then carry the component's name (`PresentSpec`, `CacheSpec`, `SmpSpec`, ...). A definition whose comment calls it a *Variant*,
or describes a wrong version of the one after it, is a plausible bug kept to show
that a property notices it (`PROJECT.json`, mutants).

**Scheduler.** `Task` fields are one function each, boolean fields sets; per CPU there are
`current` (the index cell), `pendingPrev` and `onCpu` (whose registers are really live).
Every section under `SCHED_LOCK` is one step. A context switch is two: `Preempt(c)` is
`plan_switch` with all its parts (`Released`, `Woken`, `AutoReaped`, `Ticked`, `IsBest`,
`Keeps`) and `ContextSwitch(c)` the register exchange after the lock is dropped. The other
actions are the services: spawn, the ring-3 trampoline, exit, kill, sleep, yield, priority,
early wake, and the loops of `SYS_WAITPID`, `SYS_READ(0)` and `SYS_INPUT_READ`. Deadlines are
"passed or not", input "waiting or not". `Calls` says which services each task uses, `Births`
which spawns happen.

**BlockCache.** `read` is `StartRead`, `Hit`/`Miss`/`MissFails`, `ReadDone` and the read-ahead;
`insert` is `FillSweep` (one step of the clock) and `Fill`; `write` is `Write` or `WriteFails`,
which stops after any prefix, as `write_sectors_raw` can. The ghost `unsure` holds the sectors a
failed write may have changed behind the cache.

**Fat32.** The driver keeps nothing in memory and the VFS holds its locks for a whole call, so a
call is a function from the volume it finds to the list of disk writes it issues, in the code's
order; `Step` issues one and `Cut` abandons the rest (a failed transfer or power loss). Names are
model values, short or long (LFN slots and an alias); only the first FAT is kept, since the mirror is
never read; character sets, timestamps and FSInfo are left out. `files` holds what the calls wrote to each path, with `Gone`
for the cells whose cluster a write that ends before the end of the file gave up.

**Ext2.** `vol` is the volume, `mem` the mounted value (free counts, place of the inode table). An
operation runs the driver's code on a copy and logs its writes, each with the value of `mem` when
it is issued. Sizes are whole blocks; directory blocks are tiled by records of four-byte
units; the bitmap has one clear bit past the last block, as in the image mkext2 makes.

**Partitions, Files.** `Partitions` is the probe and the MBR/GPT scan as steps of the boot CPU, with
the geometry checks and the chunked read of the entry array. `Files` extends it with mounting, the
lock scopes of `with_fs` and of the boot self-test, and the file calls of two tasks, each call cut where the
code releases a lock. A file is its size and the clusters its chain
holds: contents are the subject of Fat32 and Ext2.

**Frames, Process.** The allocator is a value and each operation a function on it (it is only
reached under the kernel-service lock). `Process` loads program images with every early
return of the ELF loader, builds the start stack, serves brk and mmap, and lets tasks exit or be
killed; a page is abstracted to what it was mapped for, a failed `expect` halts the machine.

**Gpu.** From the PCI display function to the present loop: the dispi modeset with read-back and
rehearsal, the virtio probe with the capability walk, both queues with wrapping indices, `submit`
with its deadline, `present_bringup`, `flush_loop`. The device is external: it carries out, refuses or
garbles each command, in its own time, also after `submit` stopped waiting. Once `HW_CURSOR` is set, IRQ 12 is a
second submitter of the cursor queue; it runs on the GPU task's CPU with interrupts off, so while it spins or polls
the task takes no step and the millisecond clock stands.

**Present.** Drawers in three disciplines (`Writers` mark after drawing, `Consoles` before, `Mice` are
IRQ 12) and the `Flusher`. `Home` places them on CPUs, in the instance all on the boot CPU, where the code spawns them;
an actor runs only if nobody else on its CPU has interrupts off, and a task only while the RT flusher is parked. `Wedged` is a
spin on a lock whose holder the spinner keeps off the CPU. A rectangle is an interval of one row, a pixel whether host and screen are
behind the guest bytes, `DIRTY_GEN` whether it moved since the loop looked.

**Cursor.** The sprite, `SAVE`, console output with wrap and scrolling, the sign-in screen's
repaints, the frame clock's track and the probe's marker, surface adoption and the hand-over to the cursor queue on a grid of pixels; what
happens under `FB` is one step, and what the code does before or after it is a step of its own.

**Input, Session.** `Input` follows a key or a mouse byte from its interrupt to its reader, with the
single-producer ring in its two atomic halves, `take_line` under `LINE_LOCK`, the raw ring, packet assembly
and the watchdog that re-runs the PS/2 enable sequence. `Session` extends it with the sign-in screen: the
click slot's three stores and loads, the hit tests over the code's real geometry (its self-test's checks included),
the power menu and what full and partial repaints leave on the screen at chosen points. `Fifo` is the
abstract queue the raw ring implements (`RawIsFifo`, by `INSTANCE Fifo WITH`).

**Smp.** `kernel_main` from the memory setup to the idle loop with `apic::init`, the bring-up and
calibration tasks, the boot CPU's interrupts and every AP from the trampoline to its worker. A
board fixes what the machine has (APIC, MADT, the boot CPU's LAPIC id, which APs are dead, whether preparation can succeed).
Tick counts are left out, the number of retries is not.

## 3. The runs

| run | instance | properties |
|---|---|---|
| `sched` | 2 CPUs, 2 tasks, slice 2; spawn, wait, sleep, kill, yield, promote | `ExclusiveContext`: no context is touched by two CPUs. `NoLostTask`: a Running task is in reach of its CPU. `ZombieIsFrozen`: a zombie never revives or changes its status, unless it was killed while another CPU executed it. `StatusGoesToParent`. |
| `sched_live` | 1 CPU, a parent that reads and waits, a child that reads raw events | `ReadyRuns`: round robin starves nobody. `ChildDeathWakesFresh`: a child's death wakes a parent without a stale input flag. `OrphansAreReaped`, `SleeperWakes`. |
| `blkcache` | 3 sectors, 2 slots, calls of 1 or 2 sectors | `ReadsDisk`: reads return what the drive holds, but for sectors a failed write may have reached. `TransferReturns`: every loop ends. |
| `fat` | 4 clusters, a directory with a short and a long name, one cut | `ReadsBack`: files hold what the calls wrote, but for cells a shrinking write gave up and files that took a cluster another chain runs into. `ClustersOwned`: nothing is cross-linked or leaked, unless a rename or a shrinking write was cut. `RenameKeepsName`: a file being renamed is there, with its contents, at every disk write. |
| `ext2` | 5 blocks, 4 inodes, 1 direct block, tables of 2, one cut, one remount | `ReadsBack`, unless the way leads through a directory that was cut while growing or through the root after an inode was spilt onto it. `CountsMatch` (counts and bitmaps), `NoDoubleUse` (also: nothing outside the volume, unless an unlink was cut), `DirTiled`. |
| `present` | writer, console, mouse and flusher on the boot CPU, 2 pixels | `DrawnIsKept`: no drawn pixel leaves the damage record. `DamagePresented`: it is presented or the loop gives up, unless the CPU wedges on a lock held with interrupts on. `LatchReleased`, with the same exception. |
| `process` | eight program images of all kinds, three slots, frames that run out | `OneOwner`: each frame handed out has one owner and is counted. `PanicBlame`: the double mapping that panics only meets a Linux arena, another segment of the same file, the remains of a failed load or a program linked into the arenas. `StartStackSound`. |
| `files` | MBR, long, overlong and refused GPT disks, two tasks, three calls | `TableIsScanned`: the partition list is complete, up to the cap on the entry array. `OwnView`: a task's descriptors are changed by its own calls only. `CallReturns`: boot and every call finish although two lock orders exist. |
| `gpu` | over a hundred machines, queues of 4, indices modulo 8, two mouse packets | `ConsoleOnScreen`: the console draws on the surface the display reads, outside three named holes. `AnswerLag`: whose answer a command takes after time-outs. `BringUpSettles`: the bring-up ends, unless IRQ 12 hangs its CPU in a way the property names. |
| `cursor` | 3x3 surface, 2x2 arrow, four draws | `NoGhost`: no ghost arrow and no hole, but for six named causes. |
| `session` | two line readers or a raw reader or clicks or the watchdog, rings of 3 and 2 | `LineIsTyped`, `LineComes` (keys), `FramesAreSent` (packets), `RawIsFifo` (refinement), `ClicksAreActed`, `ScreenShowsState`. |
| `smp` | eleven boards, 3 slots, up to 3 APs, some dead or slow, boot CPUs with LAPIC id 0 and 1 | `OwnContext`: each AP has its own block and stack, but for a late AP's stack and the AP with id 0. `WorkerRuns`, `TimerFollows`, `BringUpEnds`. |

Where the code falls short of what one would like to state, the property names
the exception in its own text (`unsure`, `Gone`, `Dangling`, `Lost`, `torn`, `gaveUp`, `taint`, `why`, "fresh") and says
that there is no other: a run then shows both the promise and its exact limits.

Deadlock is checked in `sched`, `sched_live`, `blkcache` and `fat`. The other systems may stop:
a cut or a failed mount may end a behaviour (`ext2`), every task of the CPU may wedge (`present`), a panic halts the machine (`process`), a task exits or
halts (`gpu`, `session`, `smp`), the bounded supply of calls, draws or keys runs out (`files`, `cursor`, `session`).

### Why the bounds are enough

* Scheduler: two CPUs and two tasks give every hand-over (a task leaving one CPU's `current` for its
  `pending_prev` while the other CPU plans, wakes, kills or reaps); slice 2 has a tick that does and one that does
  not end it. The proofs remove the bounds for the safety properties. Three tasks under fairness are
  beyond a reasonable run; the round robin of two is what `ReadyRuns` covers.
* BlockCache: two slots for three sectors make eviction, refresh in place and a wrapped hand happen;
  reads split into hit and miss in both orders; read-ahead runs over the end of the drive.
* Fat32: writes of 0, 5 and 6 cells from the start and of 2 at cell 6, with clusters of 5: a file is empty, fills one cluster or has a
  second one, a write of 5 shrinks a longer file, and the append puts a used cluster back under the lost cells. The directory, two files and
  a rename compete for 4 clusters, so allocation fails too. Any call is cut, and calls go on afterwards. Written values are only compared and form a symmetry set. The directory does not
  outgrow its cluster (section 5).
* Ext2: block 1 of a file is single- and block 5 double-indirect, a long name makes the directory grow, five blocks
  run out. Any call is cut at any write, and calls go on afterwards; a remount follows only complete calls. What a call writes after
  it has put an inode over the root directory is left out: no path can be resolved from then on.
* Present: the sprite overlaps what the writer and what the console draw, and each of them the transfer; the hull of
  more rectangles is covered by the proof for every width.
* Process: images that touch, overlap each other or themselves, miss data, relocate outside themselves or are of the wrong kind; frames of three
  regions, of which one ends unaligned, run out within three programs.
* Files: one GPT array takes three transfers, one is a sector longer than the cap; three calls let two tasks meet in every pair of lock scopes with one
  call between.
* Gpu: the machines differ in what each probing step finds; indices modulo 8 and two time-outs make a late answer
  meet the next command and the indices wrap.
* Cursor: the sprite fits the surface in four places, meets the header, the scroll and the edge.
* Session: a ring of 3 (two keys) and one of 2 overflow with four keys; three packets are needed for a torn
  frame. One screen size keeps the run short; 1024x768, the other UI scale, passes as well.
* Smp: three slots for three APs leave one without a slot; two tries make an AP late, lost or given up.

### Fairness

* Scheduler: `WF` of `Preempt(c)` (the LAPIC timer keeps firing), `ContextSwitch(c)` and `UserEntry`
  (straight-line code with interrupts off) and `DeadlinePasses` (clocks advance). Nothing is assumed of a task.
* BlockCache: `WF` of the steps of a call, which runs to its end with interrupts off.
* Present: `SF` of the flusher's steps (an RT task has the CPU whenever no handler or masked section has it) and `WF` of
  a drawer's steps while it has interrupts off. A drawing task with interrupts on may stay suspended for ever, a lock in its hands.
* Files: `WF` of the boot CPU and of a task that is inside a call. Nothing makes a program call.
* Gpu: `WF` of the boot code and the GPU task, whose waits end at a deadline, while IRQ 12 does not have their CPU, and of
  the handler once its answer is there; none of the device, none of the mouse.
* Session: `WF` of IRQ 1, of the watchdog task and of each reader; none of the user.
* Smp: `WF` of the boot context only until it arms the timer (afterwards nothing schedules it), of the
  timers, of the two tasks once the timer preempts, and of each running AP.

Fat32, Ext2, Process and Cursor state safety only.

## 4. The proofs

All are checked by TLAPS for every value of the constants that satisfies the named assumptions of the modules; TLC
evaluates the assumptions on every run. Most only give a constant its type or ask for a size above zero. The others:

* `BoardAssumption`: a MADT lists every id once.
* `QueueAssumption`: a queue has 1 to 64 slots, the limit `setup_queue` puts on it. `FirmwareAssumption`: the firmware left
  another mode than the one wanted; otherwise boot framebuffer and mode are one surface.
* `DisksAssumption`: an entry array is a sequence.
* `LayoutAssumption`: the areas of the address space in the kernel's order; the last stack slot ends below the heap.
* `Ext2Assumption`: the data area lies behind the inode table, inode numbers start at 2, a directory block has room for the
  dot entries and for each name, paths are not empty.
* `CursorAssumption`: the arrow is smaller than the surface and repaints stay on it.
* `PacketsAssumption`: bit 3 of a packet's first byte is set (the PS/2 format). `NamesAssumption` keeps model names apart.
* `SizesAssumption`: a screen is at least 480 by 480 and at most twice as high as wide. Of the modes the kernel runs at
  ("1080p in practice, 1024x768 in the compositor test", `signin.rs`) all are; the sign-in layout needs no more.

* `CpuProofs`.
  * Scheduler. `TypeCorrect` is type correctness. `Ownership`: whatever a CPU has in `current`,
    `pendingPrev` or `onCpu` is a task whose `owner` is that CPU, because only the affinity filter of `plan_switch` puts a task there and
    `owner_cpu` never changes. `Exclusive` (`ExclusiveContext`) follows from it and is not inductive alone: a CPU
    whose slot holds another CPU's Ready task satisfies it, and the next pick breaks it. `NoTaskLost` (`NoLostTask`) uses
    it too. `ZombieFrozen` (`ZombieIsFrozen`) rests on the fact that a task
    executing its own code is alive or has status 137 (`ZombieIsHalted`). `StatusToParent` (`StatusGoesToParent`) needs only the types.
  * Smp. `ApsApart` (`OwnContext`). The invariant adds which MADT entry each per-CPU block belongs to
    (`Placed`, which also keeps the page from falling behind the blocks), and that an AP which has not yet loaded its stack out
    of the shared page is the one being waited for, or was given up (`Started`). It needs a MADT that lists every id once.
* `StorageProofs`.
  * BlockCache. `ReadsReturnDisk` (`ReadsDisk`). A hit copies what the cache holds, so the invariant
    adds that the cache agrees with the drive (`Coherent`) and, since a write changes the drive before it
    updates the cache, that the sectors it still has to insert are in its buffer (`ToInsert`).
  * Files. `TasksOwnTheirTables` (`OwnView`). Exit and kill drop a table in a step of their own, after the state
    changed; `FdsInv` adds that whoever is about to drop the table of a living task is that task. `TablesAreScanned`
    (`TableIsScanned`): `BlockInv` adds that a scan which has come to the entry array has an accepted header and asks
    for the sectors the geometry takes, which hold every entry the cap allows.
* `ScreenProofs`.
  * Present. `DamageKept` (`DrawnIsKept`). When a flush completes, the rectangle leaves the flusher's hands
    while pixels rewritten since the transfer stay out of date; the invariant adds that those have been marked again.
  * Cursor. `PointerLeavesNoGhost` (`NoGhost`). The property is about the moments without a move under way;
    `CursorInv` follows the sprite through a move to where it really is (`Place`) and adds what the hand-over relies on:
    while nothing has spoilt the surface, the sprite is visible exactly until the GPU task erases it.
  * Gpu. `AnswersLagBehind` (`AnswerLag`). Modulo the range of the indices, the driver's available index is ahead of
    its used index by the commands given up on and the one waited for, by the task or by IRQ 12; with none given up on, the
    device has answered nothing but that one (`LagInv`). `ConsoleStaysOnScreen` (`ConsoleOnScreen`) uses it: a
    SET_SCANOUT that was answered by its own answer has been carried out. `ScreenInv` adds, for each place in the code, which
    surface the console is on and which one the host scans out.
* `SessionProofs`, one inductive invariant for each of five theorems.
  * `RawRingIsFifo` (`RawIsFifo`): the refinement. Head, tail and count agree modulo the length of
    the ring (`RawInv`); `push` then maps to `Fifo`'s `Push` or `Drop`, `drain` to `Take`, and everything else stutters.
  * `LinesAreTyped` (`LineIsTyped`). The property speaks of lines already handed over; `KeyInv` follows each key on its way
    there. The slots from `TAIL` to `HEAD` are the keys accepted and not consumed (`RingInv`, with the slot the interrupt has
    filled and not yet published), a reader that loaded a key holds the line lock and that key is still at `TAIL`
    (`LockInv`), and `LINE` with the keys in the ring spells the line being typed (`TextInv`).
  * `PacketsStayWhole` (`FramesAreSent`). `FrameInv` says that the bytes on the wire are the packets sent and not completed,
    less the bytes in the assembly, plus at most one acknowledgement while the watchdog awaits it, until the sequence meets a packet or IRQ 12 an empty port.
  * `ClicksAreActedOn` (`ClicksAreActed`). `ClickInv` says what each of the three atomics holds after each of the
    interrupt's stores, and what the task's copies are worth after each of its loads while no newer press comes.
  * `ScreenIsShown` (`ScreenShowsState`). `SigninInv` says that outside the boot steps the screen is what a full
    `draw` gives. Its lemmas are the geometry: the self-test's checks hold on every such screen, and the rectangles that
    `draw_power` repaints when the menu opens, changes or closes cover all that the menu could have put there.
* `MemoryProofs` and `ProcessProofs`. The first proves what each operation on memory does: `Bal(a, S)` says that `S` is what the
  allocator `a` has given away, and every operation, the loops of the ELF loader and of the self-test included, moves
  frames between `a` and `S`. The second proves the theorems.
  * `FramesHaveOneOwner` (`OneOwner`). The property counts; `FramesInv` says which frames there are: those of pages, tables,
    drivers, the trampoline and the free list are disjoint, without repetitions, and below the bump cursor.
  * `PanicsAreBlamed` (`PanicBlame`). The panic meets whatever is mapped there, so `PlacesInv` says of every mapped page what
    it is for and that it lies where such pages go: a recorded region, a stack slot handed out, the heap or the arenas.
    `LayoutAssumption` gives the order of the areas and that the last stack slot lies below the heap; the code has no
    limit on slots, so this is the bound on the number of programs up to which the claim is made.
  * `StartStacksAreSound` (`StartStackSound`). `StartInv` adds the shape of a task's record; the rest is the arithmetic of
    `build_initial_stack`, for every argument vector that passes its budget.
* `Ext2Layout` and `Ext2Proofs`. `DirectoriesStayTiled` (`DirTiled`), wherever calls are cut. `DirTiled` speaks
  of the blocks on disk and the next write may put anything there, so the invariant `Shaped` says as much of
  the writes still to be issued as of the volume: a block is zero, file data, a table of block numbers or a tiling,
  an inode's pointers and size are in range. A call logs such writes only, because it starts on such a
  volume and changes a directory only after reading it all (`DirOk`). `Ext2Layout` has the helpers: one write, allocation,
  the block walk, and what splitting, replacing and adding records does to a tiling.

Each inductive invariant was checked by TLC on the run's instance before it was proved (with the infinite sets
of `MemoryProofs` and `Ext2Layout` written as predicates).

Facts about recursive functions (sums of record lengths, the steps of `Resolve`, the loops of the loader) are proved by
induction through `WFMin`: the library's induction theorems take an operator as a parameter, but a set of naturals that
contains 0 and every successor can be shown to be all of `Nat` from its least missing element (`LeastNat`, `Induction`).

Only model-checked:

* all liveness: fairness and ENABLED are out of the prover's reach;
* Fat32: its calls are RECURSIVE operators over cluster chains and slots, which the prover's main backend does not take;
* `ReadsBack`, `CountsMatch` and `NoDoubleUse` of Ext2. They need, beyond the shape of every write, which inode owns which block in
  every volume a log passes through, and `ReadsBack` also that a call's writes add up to its effect on the abstract files.

## 5. Disagreements with the code's documentation

The first four are properties stated in the modules; TLC finds each violated when the
configuration is changed as the recipe says.

| property | recipe | what happens |
|---|---|---|
| `ChildDeathWakes` | in `sched_live.cfg` instead of `ChildDeathWakesFresh` | A console reader keeps `blocked_on_input` after it wakes; in a later `waitpid` the wake pass tests that flag first (`scheduler.rs:750`). |
| `NoSpinOnSuspended` | in `present.cfg`, as its only invariant | The damage lock and, in `current_geometry`, `FB` are taken with interrupts on; IRQ 12, a console write or the RT flusher then spins on the lock of the task it interrupted (`framebuffer.rs:321`, `:996`). |
| `CreatedIsListed` | in `fat.cfg`: `FilePaths <- MCLongFiles`, `DirPaths = {}`, `ShortNames = {"f"}`, `LongNames = {"L", "M"}`, `MaxCuts = 0` | `alloc_run` extends a directory although its last cluster still has end marks; `scan_dir` stops before the new entry (`fat.rs:765`, `docs/OPEN_ISSUES.md`). |
| `SurvivesRemount` | added to `ext2.cfg` | `sync_free_counts` stores the counts at bytes 8..12 of the group descriptor, where `mount` reads `bg_inode_table` (`ext2.rs:334`). |

Read in the code while modelling, and kept in the models as exceptions or as they are:

* A FAT write that ends before the end of the file frees the clusters behind it while the size stays (`Gone`); when the file grows
  again, `alloc_cluster` does not clear what it takes and the lost cells read as what the cluster held before (`fat.rs:659`, `:272`).
  An empty write at 0, which `sys_open` makes to create a file, frees all of a file another task created meanwhile.
* `free_from` frees the tail of a FAT chain before it ends the kept part: after a cut in between the chain runs into a free cluster, the
  next file takes it and the two share it (`Dangling`; `fat.rs:287`). A cut rename leaves two names for one chain, with the same result once one is removed.
* ext2's `add_dir_entry` stores the directory's size before the new block (`ext2.rs:717`): after a cut in between the block
  is zero and the directory cannot be read (`Lost`).
* ext2's `free_inode_blocks` and `free_inode` raise the count in memory before they write the bitmap: when that write fails the count is ahead, and once the
  bitmap is full `alloc_block` takes the bit behind the last block and `alloc_inode` an inode behind the table, whose record lands
  on the first data block, the root directory's (`ext2.rs:270`, `:301`; `Spilt`).
* The console path marks damage before it writes, and `flush_loop` takes its first
  generation snapshot after `adopt`'s mark.
* `present_bringup`: "`false` means "keep the console exactly where it was"" does not hold after SET_SCANOUT;
  `restore_mode` is not called on the rehearsal's failure path, nor does it restore a mode of 0x0. `SW_VISIBLE`'s "no ghost can ever be born"
  meets the six causes of `NoGhost`: the frame clock and the latency probe, for instance, are spawned although the device refused the pointer, and draw over the sprite without a look at it.
* A `submit` that timed out leaves the used index behind, so each later command takes an earlier one's answer
  (`AnswerLag`). Its deadline needs the boot CPU's LAPIC timer to be running.
* IRQ 12 can hang the boot CPU. `cursor_submit` holds `CURSOR_QUEUE` (`virtio.rs:2447`) and `hide_software_cursor` and
  `current_geometry` hold `FB` (`framebuffer.rs:789`, `:996`) with interrupts on, and `move_cursor` takes both in the handler.
  The handler's own `cursor_submit` polls without a deadline, as `MS` advances on the CPU whose interrupts are
  off: "Best-effort: a failure leaves the device's cursor where it was" needs a device that answers. "Enabling
  the cursor must never be able to block the console from being scheduled" (`virtio.rs:1426`) therefore fails in the cases
  that `BringUpSettles` names.
* `apic.rs`: "every caller-visible behavior stays identical" does not hold for the bogus-calibration path, which
  leaves IRQ 0 routed through the IOAPIC and acknowledged at the PIC. A boot context preempted between arming and
  publishing leaves the APs without timers.
* `PERCPU[0].lapic_id` is never written and stays 0. On a machine that boots on a CPU with another LAPIC id, the AP with id 0
  takes block 0 (`smp.rs:759`), `load_tss` meets the boot CPU's busy TSS before that AP has an IDT, and the machine resets
  (`Shutdown`, named in the properties of `smp`); `kick_self` and `kick_others` address the boot CPU by the same 0.
* `kill` marks Dead a task that executes on another CPU, which goes on to its next switch and may overwrite the state or
  the status 137 with its own sleep or exit (`OutlivesKill`; `scheduler.rs:657`).
* `block.rs:307`, the chunk loop "reads exactly the sectors the validated sizes call for": `GPT_MAX_SECTORS` cuts an
  array the geometry check accepts, and the partitions behind the cut are dropped without a message (`TableIsScanned`).
* One trampoline page serves all APs: an AP that was given up may come up on its successor's stack (`gaveUp`).
* 255 keys without Enter fill the key ring for good; `take_line` returns 0 for "nothing" and for an empty line alike;
  `recover_streaming` does not reset the packet index, and the IRQ 12 its acknowledgements latch is taken after
  it: `handle_irq` reads port 0x60 without looking at the status, gets the last 0xFA again (bit 3 is set) and
  starts a packet with it. From then on every packet is put together of two (`torn`).
* `memory.rs`' statistics miss what `allocate_contiguous` skips; `sys_kill` never drops brk and mmap bookkeeping; a
  failed load can make a later spawn panic.
* `load_elf`: "Returns `Err` (no panic) on any malformation" (`userspace.rs:586`), and "Failure never panics"
  (`userspace.rs:247`). Neither holds: `map_page`'s `expect` meets a page that is mapped already when two PT_LOADs of the
  file share a page, or when an earlier load failed half way. `PanicBlame` names these cases and excludes all others.
* `IA32_FS_BASE` is written once and never saved per task (`syscall.rs:1273`).

## 6. What is not modelled

* Clocks, CPU feature setup, descriptor tables, exception handlers, ACPI and PCI tables beyond what a machine or a
  board records: one-time programming or arithmetic on hardware values.
* Glyphs, colours, console layout beyond lines and scrolling, blitting, UART output, counters and benchmarks: formatting
  and data movement that no decision of the kernel reads.
* The compositor's window list and surfaces: one boot self-test is their only user.
* Copying to and from user memory, error numbers, `arch_prctl` and the information calls.
* User programs and host tools, which are sequential; `mkext2` and `build.rs` appear as initial volumes and disks.

## 7. What could come next

Ownership of blocks (`NoDoubleUse`) on top of `Shaped`, and Fat32 and Ext2 as
implementations of one abstract map from paths to contents, which `Files` could then use in place of its own view of a volume.
