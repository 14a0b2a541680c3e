-------------------------------- MODULE Files -------------------------------
(***************************************************************************)
(* File system calls: the descriptor tables and handlers of                *)
(* kernel/src/syscall.rs, the mount table of kernel/src/vfs.rs, and what   *)
(* the boot sequence mounts.  Calls of different tasks run on different    *)
(* CPUs, so a call is as many steps as it has lock scopes: a look at the   *)
(* descriptor, MOUNTS then DISK around one file system operation, the      *)
(* update of the descriptor.                                               *)
(*                                                                         *)
(* A volume maps a path to a file, a directory or nothing; the two file    *)
(* systems are used through what their operations do to one path.  Data is *)
(* counted in clusters: a file has a size and as many as its chain holds.  *)
(***************************************************************************)
EXTENDS Partitions

CONSTANTS
  Tasks,         \* the tasks that make calls
  Paths,
  Ops,           \* the calls they make
  MAX_FDS,       \* descriptors 3..MAX_FDS-1 are for files
  MIN_FAT, MIN_EXT,   \* sectors a partition must have to be mounted
  Formatted,     \* what the partition that starts at a sector holds
  MaxCalls,      \* bound on the calls started
  MaxSize        \* clusters the volume has room for in one file

ASSUME FilesAssumption == MAX_FDS \in Nat /\ MaxCalls \in Nat

Nothing == [kind |-> "nothing"]
Dir == [kind |-> "dir"]
File(size, held) == [kind |-> "file", size |-> size, held |-> held]
\* A file whose first cluster was freed under it: its chain cannot be walked (until another
\* file is given that cluster, which this module leaves out).
Broken(size) == [kind |-> "broken", size |-> size]
Nobody == "nobody"
Idle == [op |-> "none", pc |-> "idle"]

VARIABLES
  mounts,     \* MOUNTS: the labels, in mount order
  vol,        \* label -> path -> what is there
  lock,       \* holders of MOUNTS and DISK
  boot,       \* step of the boot CPU after the block layer
  state,      \* task -> "live", "dying" (killed while running) or "gone"
  fds,        \* FDS: task -> its table, for the tasks that have one
  call,       \* task -> the call it is in
  own,        \* task -> the descriptors its calls' results told it of
  calls       \* calls started
vars == <<block, mounts, vol, lock, boot, state, fds, call, own, calls>>
-----------------------------------------------------------------------------
(* Mounting *)

First(parts, kind, min) ==
  {i \in DOMAIN parts : /\ parts[i].kind = kind /\ parts[i].sectors >= min
                        /\ \A j \in 1..i-1 : ~(parts[j].kind = kind /\ parts[j].sectors >= min)}

Mountable(kind, min, what) ==
  block.pc = "ready" /\ \E i \in First(block.parts, kind, min) : Formatted[block.parts[i].start] = what

\* vfs::init without its self-test: the first large FAT32 partition.
MountFat ==
  /\ boot = "fat" /\ block.pc \in {"ready", "none"}
  /\ mounts' = IF Mountable("FAT32", MIN_FAT, "fat") THEN Append(mounts, "FAT32") ELSE mounts
  /\ boot' = IF mounts' = <<>> THEN "ext2" ELSE "test disk"
  /\ UNCHANGED <<block, vol, lock, state, fds, call, own, calls>>

\* run_lfn_self_test takes DISK first and MOUNTS inside it.
SelfTestDisk ==
  /\ boot = "test disk" /\ lock.disk = Nobody
  /\ lock' = [lock EXCEPT !.disk = "boot"]
  /\ boot' = "test mounts"
  /\ UNCHANGED <<block, mounts, vol, state, fds, call, own, calls>>

SelfTestMounts ==
  /\ boot = "test mounts" /\ lock.mounts = Nobody
  /\ lock' = [lock EXCEPT !.disk = Nobody]
  /\ boot' = "ext2"
  /\ UNCHANGED <<block, mounts, vol, state, fds, call, own, calls>>

\* ext2::init and mount_secondary.
MountExt2 ==
  /\ boot = "ext2"
  /\ mounts' = IF Mountable("Linux", MIN_EXT, "ext2") THEN Append(mounts, "ext2") ELSE mounts
  /\ boot' = "up"
  /\ UNCHANGED <<block, vol, lock, state, fds, call, own, calls>>

\* Variant: tasks run while the boot CPU is still mounting.
TasksRunEarly == boot # "fat"

\* Tasks run only after kernel_main has mounted both volumes.
TasksRun == boot = "up"
-----------------------------------------------------------------------------
(* One operation of a file system on one path: a set of [res, n, new] *)

Got(res, n, new) == [res |-> res, n |-> n, new |-> new]

ReadAt(x, off, len) ==
  CASE x.kind = "file" ->
         {Got("ok", IF off >= x.size \/ off >= x.held THEN 0 ELSE Smaller(len, x.held - off), x)}
    [] x.kind = "broken" -> {Got("io", 0, x)}
    [] x.kind = "dir" -> {Got("unsupported", 0, x)}
    [] OTHER -> {Got("notfound", 0, x)}

\* A missing file is created before its first cluster is looked for.
Entered(x) == IF x.kind = "nothing" THEN File(0, 0) ELSE x

\* fat.rs brings the chain to the clusters the write ends in: a write that ends before the
\* chain does frees the rest, and keeps the size.
FatWrite(x, off, len) ==
  CASE x.kind = "nothing" -> {Got("ok", len, File(off + len, off + len)),
                              Got("nospace", 0, x), Got("nospace", 0, Entered(x))}
    [] x.kind = "file" /\ off + len = 0 /\ x.held # 0 -> {Got("ok", 0, Broken(x.size))}
    [] x.kind = "file" /\ ~(off + len = 0 /\ x.held # 0) ->
         {Got("ok", len, File(Greater(x.size, off + len), off + len))}
         \cup (IF off + len > x.held THEN {Got("nospace", 0, x)} ELSE {})
    [] x.kind = "broken" -> {Got("io", 0, x)}
    [] OTHER -> {Got("unsupported", 0, x)}

\* ext2.rs: an empty write only creates; a hole reads as zeros.
ExtWrite(x, off, len) ==
  CASE x.kind = "nothing" -> {Got("ok", len, IF len = 0 THEN Entered(x)
                                             ELSE File(off + len, off + len)),
                              Got("nospace", 0, x), Got("nospace", 0, Entered(x))}
    [] x.kind # "nothing" /\ len = 0 -> {Got("ok", 0, x)}
    [] x.kind = "file" /\ len # 0 -> {Got("ok", len, File(Greater(x.size, off + len),
                                                          Greater(x.held, off + len))),
                                      Got("nospace", 0, x)}
    [] OTHER -> {Got("unsupported", 0, x)}

WriteAt(label, x, off, len) ==
  IF off + len > MaxSize /\ x.kind \in {"nothing", "file"} THEN {Got("nospace", 0, Entered(x))}
  ELSE IF label = "FAT32" THEN FatWrite(x, off, len) ELSE ExtWrite(x, off, len)

Exists(x) == {Got(IF x.kind = "nothing" THEN "notfound" ELSE "ok", 0, x)}
Stat(x) == {Got(IF x.kind = "nothing" THEN "notfound" ELSE "ok",
                IF x.kind \in {"file", "broken"} THEN x.size ELSE 0, x)}
MakeDir(x) == IF x.kind = "nothing" THEN {Got("ok", 0, Dir), Got("nospace", 0, x)}
              ELSE {Got("exists", 0, x)}
\* A broken chain is removed by name and then fails.
RemoveFile(x) == CASE x.kind = "nothing" -> {Got("notfound", 0, x)}
               [] x.kind = "dir" -> {Got("isdir", 0, x)}
               [] x.kind = "broken" -> {Got("io", 0, Nothing)}
               [] OTHER -> {Got("ok", 0, Nothing)}
-----------------------------------------------------------------------------
(* Descriptors *)

NoFd == [open |-> "no", name |-> "-", pos |-> 0]
Fd(name, pos) == [open |-> "yes", name |-> name, pos |-> pos]
FileFds == 3..MAX_FDS-1
EmptyTable == [i \in FileFds |-> NoFd]

\* Variant: one table for everybody, as before M8.
TableShared(t) == IF DOMAIN fds = {} THEN EmptyTable ELSE fds[CHOOSE u \in DOMAIN fds : TRUE]

\* with_task_fds: the table of t, made on first use.
TableOf(t) == IF t \in DOMAIN fds THEN fds[t] ELSE EmptyTable

SetTable(t, table) == fds' = [u \in DOMAIN fds \cup {t} |-> IF u = t THEN table ELSE fds[u]]
DropTable(t) == fds' = [u \in DOMAIN fds \ {t} |-> fds[u]]

\* Every descriptor access makes the table.
TouchTable(t) == SetTable(t, TableOf(t))

Goto(t, pc) == call' = [call EXCEPT ![t].pc = pc]
Return(t) == call' = [call EXCEPT ![t] = Idle]
-----------------------------------------------------------------------------
(* Calls *)

Call(op, pc, path, fd, len) ==
  [op |-> op, pc |-> pc, path |-> path, to |-> path, fd |-> fd, len |-> len,
   off |-> 0, more |-> 0]

Running(t) == state[t] \in {"live", "dying"}
Machine == <<block, mounts, boot>>

\* dispatch and linux_dispatch: the call a task makes next.  A path, buffer or number that is
\* refused changes nothing and is left out.
Enter(t, c) ==
  /\ TasksRun /\ Running(t) /\ call[t].pc = "idle" /\ calls < MaxCalls /\ c.op \in Ops
  /\ call' = [call EXCEPT ![t] = c]
  /\ calls' = calls + 1
  /\ UNCHANGED <<vol, lock, state, fds, own>> /\ UNCHANGED Machine

\* The calls that name a path; user_path and user_buf_ok have accepted it.
StartOnPath(t) ==
  \/ \E p \in Paths, op \in {"open", "unlink", "mkdir", "stat", "ls"} :
       Enter(t, Call(op, "mounts", p, 0, 0))
  \/ \E p, q \in Paths : Enter(t, [Call("rename", "mounts", p, 0, 0) EXCEPT !.to = q])

\* The calls on a descriptor, native and Linux (pread is read).
StartOnFd(t) ==
  \/ \E fd \in FileFds, op \in {"end", "close", "fsync"} : Enter(t, Call(op, "fd", Nobody, fd, 0))
  \/ \E fd \in FileFds, op \in {"read", "write", "set", "cur"} :
       Enter(t, Call(op, "fd", Nobody, fd, 1))

\* writev of two buffers.
StartWritev(t) ==
  \E fd \in FileFds : Enter(t, [Call("write", "fd", Nobody, fd, 1) EXCEPT !.more = 1])

StartExit(t) == Enter(t, Call("exit", "drop", t, 0, 0))

\* sys_kill of another task that is alive: the target leaves the run queues at once, or runs
\* on until its CPU switches away from it.
Kill(t, u) ==
  /\ TasksRun /\ Running(t) /\ call[t].pc = "idle" /\ calls < MaxCalls /\ "kill" \in Ops
  /\ t # u /\ state[u] = "live"
  /\ \/ state' = [state EXCEPT ![u] = "dying"]
     \/ call[u].pc = "idle" /\ state' = [state EXCEPT ![u] = "gone"]
  /\ call' = [call EXCEPT ![t] = Call("kill", "drop", u, 0, 0)]
  /\ calls' = calls + 1
  /\ UNCHANGED <<vol, lock, fds, own>> /\ UNCHANGED Machine

\* drop_task_fds and drop_fds_for: the table of the task that ends.
Drop(t, c) ==
  /\ c.pc = "drop"
  /\ DropTable(c.path)
  /\ IF c.op = "exit" THEN Goto(t, "record") ELSE Return(t)
  /\ UNCHANGED <<vol, lock, state, own, calls>> /\ UNCHANGED Machine

\* record_exit
RecordExit(t) ==
  /\ call[t].pc = "record"
  /\ state' = [state EXCEPT ![t] = "gone"]
  /\ Return(t)
  /\ UNCHANGED <<vol, lock, fds, own, calls>> /\ UNCHANGED Machine

\* A killed task's CPU switches away from it, between two calls: calls run with IF = 0.
Deschedule(t) ==
  /\ state[t] = "dying" /\ call[t].pc = "idle"
  /\ state' = [state EXCEPT ![t] = "gone"]
  /\ UNCHANGED <<vol, lock, fds, call, own, calls>> /\ UNCHANGED Machine

\* with_fd: the path and the cursor a call on a descriptor works with.
LookUp(t, c, e) ==
  /\ c.op # "close"
  /\ TouchTable(t)
  /\ call' = [call EXCEPT ![t] =
       IF e.open = "no" THEN Idle
       ELSE [c EXCEPT !.path = e.name, !.off = e.pos,
                      !.pc = IF c.op \in {"set", "cur"} THEN "seek" ELSE "mounts",
                      !.len = IF c.op = "cur" THEN e.pos + c.len ELSE c.len]]
  /\ UNCHANGED <<vol, lock, state, own, calls>> /\ UNCHANGED Machine

\* with_fd again: the descriptor as the call leaves it, if it is still open.
Update(t, c, pos) ==
  /\ SetTable(t, [TableOf(t) EXCEPT ![c.fd].pos = IF TableOf(t)[c.fd].open = "no" THEN @ ELSE pos])
  /\ own' = [own EXCEPT ![t][c.fd].pos = IF own[t][c.fd].open = "no" THEN @ ELSE pos]
  /\ UNCHANGED <<vol, lock, state, calls>> /\ UNCHANGED Machine

\* sys_seek, once the new position is known.
Seek(t, c) == c.pc = "seek" /\ Update(t, c, c.len) /\ Return(t)

\* sys_read and fd_write_at: the cursor moves by what was transferred; writev goes on with
\* its next buffer.
Advance(t, c) ==
  /\ c.pc = "advance"
  /\ Update(t, c, TableOf(t)[c.fd].pos + c.len)
  /\ call' = [call EXCEPT ![t] = IF c.more = 0 THEN Idle
                                 ELSE [c EXCEPT !.pc = "fd", !.more = 0, !.len = 1]]

\* sys_close
Close(t, c) ==
  /\ c.pc = "fd" /\ c.op = "close"
  /\ SetTable(t, [TableOf(t) EXCEPT ![c.fd] = NoFd])
  /\ own' = [own EXCEPT ![t][c.fd] = NoFd]
  /\ Return(t)
  /\ UNCHANGED <<vol, lock, state, calls>> /\ UNCHANGED Machine

\* sys_open, once the path exists: the first free descriptor.  A full table refuses.
Slot(t, c, free) ==
  /\ c.pc = "slot"
  /\ IF free = {} THEN TouchTable(t) /\ UNCHANGED own
     ELSE \E i \in free : /\ \A j \in free : i <= j
                          /\ SetTable(t, [TableOf(t) EXCEPT ![i] = Fd(c.path, 0)])
                          /\ own' = [own EXCEPT ![t][i] = Fd(c.path, 0)]
  /\ Return(t)
  /\ UNCHANGED <<vol, lock, state, calls>> /\ UNCHANGED Machine
-----------------------------------------------------------------------------
(* The mount table *)

\* pick_mount and list2: every mount point is "/" and the first mount wins; list2 asks for ext2.
Chosen(c) ==
  {i \in DOMAIN mounts : IF c.op = "ls2" THEN mounts[i] = "ext2" ELSE i = 1}

\* with_fs: MOUNTS first; without a file system the call fails.
TakeMounts(t, c) ==
  /\ c.pc = "mounts" /\ lock.mounts = Nobody
  /\ IF Chosen(c) = {} THEN Return(t) /\ UNCHANGED lock
     ELSE Goto(t, "disk") /\ lock' = [lock EXCEPT !.mounts = t]
  /\ UNCHANGED <<vol, state, fds, own, calls>> /\ UNCHANGED Machine

\* What the call does to its path while it holds both locks.
Outcomes(c, label, x) ==
  CASE c.op = "create" -> WriteAt(label, x, 0, 0)
    [] c.op = "read" -> ReadAt(x, c.off, c.len)
    [] c.op = "write" -> WriteAt(label, x, c.off, c.len)
    [] c.op = "mkdir" -> MakeDir(x)
    [] c.op = "unlink" -> RemoveFile(x)
    [] c.op \in {"ls", "ls2"} -> {Got(IF x.kind = "dir" THEN "ok" ELSE "unsupported", 0, x)}
    [] OTHER -> Stat(x)

\* Where the call goes on with the outcome r.
After(c, r) ==
  CASE c.op = "open" /\ r.res = "notfound" -> [c EXCEPT !.op = "create", !.pc = "mounts"]
    [] c.op \in {"open", "create"} /\ r.res = "ok" -> [c EXCEPT !.pc = "slot"]
    [] c.op \in {"read", "write"} /\ r.res = "ok" -> [c EXCEPT !.pc = "advance", !.len = r.n]
    [] c.op = "end" /\ r.res = "ok" -> [c EXCEPT !.pc = "seek", !.len = r.n]
    [] c.op = "ls" /\ r.res = "ok" -> [c EXCEPT !.op = "ls2", !.pc = "mounts"]
    [] OTHER -> Idle

\* The file system operation, under MOUNTS and DISK; both are released after it.
Operate(t, c) ==
  /\ c.pc = "disk" /\ lock.disk = Nobody /\ c.op # "rename"
  /\ \E i \in Chosen(c) : \E r \in Outcomes(c, mounts[i], vol[mounts[i]][c.path]) :
       /\ vol' = [vol EXCEPT ![mounts[i]][c.path] = r.new]
       /\ call' = [call EXCEPT ![t] = After(c, r)]
  /\ lock' = [lock EXCEPT !.mounts = Nobody]
  /\ UNCHANGED <<state, fds, own, calls>> /\ UNCHANGED Machine

\* rename under the locks: refused when the source is missing or the target exists.
Rename(t, c) ==
  /\ c.pc = "disk" /\ lock.disk = Nobody /\ c.op = "rename"
  /\ \E v \in {vol[mounts[1]]} :
       IF c.path = c.to \/ v[c.path] = Nothing \/ v[c.to] # Nothing THEN UNCHANGED <<vol>>
       ELSE vol' = [vol EXCEPT ![mounts[1]] = [v EXCEPT ![c.to] = v[c.path], ![c.path] = Nothing]]
  /\ lock' = [lock EXCEPT !.mounts = Nobody]
  /\ Return(t)
  /\ UNCHANGED <<state, fds, own, calls>> /\ UNCHANGED Machine
-----------------------------------------------------------------------------
Init ==
  /\ block = NoBlock /\ boot = "fat" /\ mounts = <<>>
  /\ vol = [l \in {"FAT32", "ext2"} |-> [p \in Paths |-> Nothing]]
  /\ lock = [mounts |-> Nobody, disk |-> Nobody]
  /\ state = [t \in Tasks |-> "live"]
  /\ fds = <<>>
  /\ call = [t \in Tasks |-> Idle]
  /\ own = [t \in Tasks |-> EmptyTable]
  /\ calls = 0

Boot ==
  \/ ScanDisk /\ UNCHANGED <<mounts, vol, lock, boot, state, fds, call, own, calls>>
  \/ MountFat \/ SelfTestDisk \/ SelfTestMounts \/ MountExt2

Work(t) ==
  \/ Drop(t, call[t]) \/ RecordExit(t)
  \/ call[t].pc = "fd" /\ LookUp(t, call[t], TableOf(t)[call[t].fd])
  \/ Seek(t, call[t]) \/ Advance(t, call[t]) \/ Close(t, call[t])
  \/ Slot(t, call[t], {i \in FileFds : TableOf(t)[i].open = "no"})
  \/ TakeMounts(t, call[t]) \/ Operate(t, call[t]) \/ Rename(t, call[t])

Next ==
  \/ Boot
  \/ \E t \in Tasks : \/ StartOnPath(t) \/ StartOnFd(t) \/ StartWritev(t) \/ StartExit(t)
                    \/ Work(t) \/ Deschedule(t)
  \/ \E t, u \in Tasks : Kill(t, u)

\* A CPU in a call goes on with it, with interrupts off, and so does the boot CPU; nothing
\* makes a program call, or a partition of the disk exist.
FairSpec == Init /\ [][Next]_vars /\ WF_vars(Boot) /\ \A t \in Tasks : WF_vars(Work(t))
-----------------------------------------------------------------------------
\* Between its calls a task that lives finds in its descriptor table exactly what its own
\* opens, closes, seeks and transfers put there, whatever the calls, exits and kills of the
\* others did meanwhile: sys_open and fd_write_at look, let the locks go, and update later.
OwnView ==
  \A t \in Tasks : state[t] = "live" /\ call[t].pc = "idle" => TableOf(t) = own[t]

\* The boot CPU brings the volumes up and every call comes back: tasks take MOUNTS then DISK
\* (with_fs), the self-test at boot takes DISK then MOUNTS.
CallReturns ==
  /\ boot # "up" ~> boot = "up"
  /\ \A t \in Tasks : call[t].pc # "idle" ~> call[t].pc = "idle"
=============================================================================
