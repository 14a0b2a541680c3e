-------------------------------- MODULE Gpu --------------------------------
(***************************************************************************)
(* How the screen changes hands: gpu.rs programs a bochs-VBE mode at boot  *)
(* and moves the console onto its linear framebuffer, and the GPU task     *)
(* then has virtio.rs bring up the virtio-gpu queues, build a resource out *)
(* of guest RAM, point the scanout at it and move the console there.       *)
(* Once the pointer is the device's, IRQ 12 of the same CPU submits to the *)
(* cursor queue as well, with interrupts off.                              *)
(*                                                                         *)
(* The device is external.  A machine record fixes what it advertises and  *)
(* which register writes it honours; each command it may carry out, refuse *)
(* or complete with a bad used element, in its own time, also after submit *)
(* has stopped waiting for it.  Mode registers are reduced to which mode   *)
(* they hold, surfaces to "boot", "lfb" (the mode's framebuffer BAR) and   *)
(* "backing" (the virtio resource's guest RAM).                            *)
(***************************************************************************)
EXTENDS Naturals, Sequences

CONSTANTS
  Machines,       \* the machines the kernel may find itself on
  CapSteps,       \* capability-walk bound (48 in the code)
  Q_SIZE_MAX,     \* descriptors a queue may have (64)
  IdxMod,         \* range of the 16-bit ring indices
  FLUSH_GIVE_UP,  \* consecutive failed presents before flush_loop returns (50)
  MaxPasses,      \* bound: presents of flush_loop followed
  MaxMoves        \* bound: mouse packets that reach the cursor queue, or hang

Page == 4096
Want == "want"   \* the mode gpu.rs asks for

ASSUME QueueAssumption ==
  IdxMod \in Nat \ {0} /\ Q_SIZE_MAX \in 1..64 /\ \A x \in Machines : x.maxSize \in Nat

\* The firmware left another mode than the one wanted: otherwise the boot framebuffer and the
\* mode's are one surface, and there is nothing to tell apart.
ASSUME FirmwareAssumption ==
  \A x \in Machines : x.found = [mode |-> x.found.mode, on |-> x.found.on]
                     /\ x.found.mode # Want /\ x.found.on \in BOOLEAN

VARIABLES
  m,         \* the machine
  pc,        \* where gpu::init, then the GPU task, is
  dispi,     \* the mode registers: [mode, on]
  console,   \* the surface FB and CONSOLE draw on
  MODE,      \* the installed mode is recorded: "none" or "set"
  status,    \* device_status bits
  DEVICE,    \* what the virtio probe recorded (an Option)
  q,         \* QUEUE and CURSOR_QUEUE: [up, size, avail, used]
  dev,       \* per queue, the device's side: [seen, done, ring, resp]
  req,       \* per queue, the command in the request buffer
  cmd,       \* the command the task is running
  host,      \* the device's resources: [made, backed, drawn, scanout]
  hwCursor,  \* HW_CURSOR: the pointer is the device's: move_cursor goes to the cursor queue
  irq12,     \* the IRQ 12 handler: "idle", the lock it spins on, or "poll"
  moves,     \* mouse packets so far
  failures, passes,
  late,      \* ghost: control commands given up on so far
  took,      \* ghost: the used element the last poll consumed
  why        \* ghost: the step that made the kernel fall back, "none" before

vars == <<m, pc, dispi, console, MODE, status, DEVICE, q, dev, req, cmd, host,
          hwCursor, irq12, moves, failures, passes, late, took, why>>
display == <<dispi, console, MODE>>
engine == <<q, dev, req, cmd, host, hwCursor>>
mouse == <<irq12, moves>>
counts == <<failures, passes, late, took>>
-----------------------------------------------------------------------------
(* virtio.rs, walk_caps and resolve_cap *)

\* An Option is a set of at most one element.
NoCaps == [ptr |-> 0, common |-> {}, notify |-> {}, device |-> {}, mul |-> 0]

\* One capability: those of another vendor, too short or with a bad BAR are skipped.
CapStep(found) ==
  IF found.ptr = 0 THEN found
  ELSE LET c == m.config[found.ptr]
           next == [found EXCEPT !.ptr = c.next]
       IN  IF ~c.vendor \/ c.len < 16 \/ c.bar > 5 THEN next
           ELSE CASE c.type = "common" -> [next EXCEPT !.common = {c}]
                  [] c.type = "notify" ->
                       [next EXCEPT !.notify = {c},
                                    !.mul = IF c.len >= 20 THEN c.mul ELSE found.mul]
                  [] c.type = "device" -> [next EXCEPT !.device = {c}]
                  [] OTHER -> next

\* The bounded walk survives a next-pointer that loops.
walk_caps ==
  LET found[n \in 0..CapSteps] ==
        IF n = 0 THEN [NoCaps EXCEPT !.ptr = m.head] ELSE CapStep(found[n - 1])
  IN  found[CapSteps]

\* One page per structure: it may not be empty, too long or straddle a page.
resolve_cap(c) ==
  /\ m.base[c.bar] # 0
  /\ c.length \in 1..Page
  /\ ((m.base[c.bar] + c.off) % Page) + c.length <= Page

\* The queue size the driver programs: the device's, capped, down to a power of two.
RingSize(max) ==
  LET size == IF max < Q_SIZE_MAX THEN max ELSE Q_SIZE_MAX
  IN  IF size <= 2 THEN size
      ELSE CHOOSE p \in {2, 4, 8, 16, 32, 64} : p <= size /\ 2 * p > size
-----------------------------------------------------------------------------
(* gpu.rs, the boot path *)

\* set_mode: a refused geometry leaves the registers at their old values.
Programmed(mode, taken) ==
  IF taken THEN {[mode |-> mode, on |-> TRUE]}
           ELSE {[mode |-> dispi.mode, on |-> b] : b \in BOOLEAN}

mode_matches(rb, mode) == rb.mode = mode /\ rb.on
unusable_mode(rb, want) == ~mode_matches(rb, want)

\* The registers after restore_and_log, which skips a machine that had no mode.
Restored(now) ==
  IF m.found.mode = "zero" THEN {now}
  ELSE IF m.found.on THEN {[mode |-> m.found.mode, on |-> TRUE]}
  ELSE {m.found}

\* A fallback that leaves the display where the modeset put it.
FallbackLeft(step, now) ==
  /\ dispi' = now
  /\ pc' = "task" /\ why' = step
  /\ UNCHANGED <<console, MODE>>

\* fallback_restore.
Fallback(step, now) ==
  /\ dispi' \in Restored(now)
  /\ pc' = "task" /\ why' = step
  /\ UNCHANGED <<console, MODE>>

Goto(next) == pc' = next /\ UNCHANGED <<dispi, console, MODE, why>>

Scan ==
  /\ pc = "scan"
  /\ IF ~m.display THEN Goto("task")
     ELSE Goto(IF m.virtio THEN "probe" ELSE "dispi")
  /\ UNCHANGED <<m, status, DEVICE, engine, counts>>

\* virtio::init up to the driver bit: a failed probe leaves the dispi path.
ProbeCaps ==
  /\ pc = "probe"
  /\ \E caps \in {walk_caps} :
       IF \E c \in caps.common : resolve_cap(c)
       THEN /\ status' = {"ack", "driver"} \cap m.latches
            /\ Goto(IF {"ack", "driver"} \subseteq m.latches THEN "features" ELSE "dispi")
       ELSE status' = status /\ Goto("dispi")
  /\ UNCHANGED <<m, DEVICE, engine, counts>>

Negotiate ==
  /\ pc = "features"
  /\ IF m.version1
     THEN /\ status' = status \cup ({"features_ok"} \cap m.latches)
          /\ Goto(IF "features_ok" \in m.latches THEN "config" ELSE "dispi")
     ELSE status' = status /\ Goto("dispi")
  /\ UNCHANGED <<m, DEVICE, engine, counts>>

ReadConfig ==
  /\ pc = "config"
  /\ \E caps \in {walk_caps} :
       DEVICE' = IF /\ \E c \in caps.device : c.length >= 12 /\ resolve_cap(c)
                    /\ m.scanouts # 0
                 THEN {[notify |-> \E c \in caps.notify : resolve_cap(c),
                        doorbell |-> m.notifyOff * caps.mul]}
                 ELSE {}
  /\ Goto("dispi")
  /\ UNCHANGED <<m, status, engine, counts>>

Dispi ==
  /\ pc = "dispi"
  /\ Goto(IF m.dispi THEN "modeset" ELSE "task")
  /\ UNCHANGED <<m, status, DEVICE, engine, counts>>

Modeset ==
  /\ pc = "modeset"
  /\ \E rb \in Programmed(Want, Want \in m.accepts) :
       IF unusable_mode(rb, Want)
       THEN Fallback("modeset", rb)
       ELSE dispi' = rb /\ pc' = "rehearse" /\ UNCHANGED <<console, MODE, why>>
  /\ UNCHANGED <<m, status, DEVICE, engine, counts>>

\* FALLBACK_REHEARSAL: a 16 bpp mode is set on purpose, only to be noticed.
Rehearse ==
  /\ pc = "rehearse"
  /\ dispi' \in Programmed("bogus", "bogus" \in m.accepts)
  /\ pc' = "reset"
  /\ UNCHANGED <<m, console, MODE, why, status, DEVICE, engine, counts>>

\* The mode is set again; a refusal here returns without restoring anything.
Reset ==
  /\ pc = "reset"
  /\ \E rb \in Programmed(Want, ~m.flaky) :
       /\ dispi' = rb
       /\ IF unusable_mode(rb, Want) THEN pc' = "task" /\ why' = "reset"
                                     ELSE pc' = "bar" /\ why' = why
  /\ UNCHANGED <<m, console, MODE, status, DEVICE, engine, counts>>

\* The framebuffer BAR, read again after the modeset.
FindLfb ==
  /\ pc = "bar"
  /\ IF m.lfb = "none" THEN Fallback("bar", dispi) ELSE Goto("map")
  /\ UNCHANGED <<m, status, DEVICE, engine, counts>>

\* map_lfb refuses an unaligned base, a taken address and a page that fails.
MapLfb ==
  /\ pc = "map"
  /\ IF m.lfb = "unmappable" THEN Fallback("map", dispi) ELSE Goto("canary")
  /\ UNCHANGED <<m, status, DEVICE, engine, counts>>

\* The pixels written do not read back if the mapping is not the device's memory.
Canary ==
  /\ pc = "canary"
  /\ IF m.lfb = "elsewhere" THEN Fallback("canary", dispi) ELSE Goto("adopt_lfb")
  /\ UNCHANGED <<m, status, DEVICE, engine, counts>>

AdoptLfb ==
  /\ pc = "adopt_lfb"
  /\ console' = "lfb" /\ MODE' = "set" /\ pc' = "task"
  /\ UNCHANGED <<m, dispi, why, status, DEVICE, engine, counts>>
-----------------------------------------------------------------------------
(* virtio.rs, the GPU task: queues and commands *)

Queue(c) == IF c \in {"c_update", "c_move", "i_move"} THEN 1 ELSE 0

Bump(n) == (n + 1) % IdxMod

Exit(step) == pc' = "exit" /\ why' = step /\ UNCHANGED <<console, cmd>>
Park == pc' = "park" /\ UNCHANGED <<console, cmd, why>>
Run(c) == pc' = "build" /\ cmd' = c /\ UNCHANGED <<console, why>>

Task ==
  /\ pc = "task"
  /\ Goto(IF MODE = "none" THEN "exit" ELSE "bringup")
  /\ UNCHANGED <<m, status, DEVICE, engine, counts>>

\* What queue_init needs, every register write read back.
QueueComesUp ==
  /\ m.queues # 0 /\ RingSize(m.maxSize) >= 2 /\ m.memory # "none"
  /\ "size" \in m.latches
  /\ \A info \in DEVICE : info.notify /\ info.doorbell + 4 <= Page
  /\ "enable" \in m.latches /\ "driver_ok" \in m.latches

\* cursor_queue_init: the doorbell is not checked again.
CursorQueueComesUp ==
  /\ m.queues >= 2 /\ RingSize(m.maxSize) >= 2
  /\ "size" \in m.latches /\ "cursor_enable" \in m.latches

Up == [up |-> TRUE, size |-> RingSize(m.maxSize), avail |-> 0, used |-> 0]

\* queue_init, the virgl test and the contiguous backing of present_bringup.
BringUp ==
  /\ pc = "bringup"
  /\ IF DEVICE = {} THEN Exit("probe") /\ UNCHANGED <<q, status>>
     ELSE IF ~QueueComesUp THEN Exit("queue") /\ UNCHANGED <<q, status>>
     ELSE /\ q' = [q EXCEPT ![0] = Up]
          /\ status' = status \cup {"driver_ok"}
          /\ IF m.virgl THEN Exit("virgl")
             ELSE IF m.memory = "queues" THEN Exit("memory")
             ELSE Run("create")
  /\ UNCHANGED <<m, dispi, MODE, DEVICE, dev, req, hwCursor, host, counts>>

\* cmd_begin and the builder.
Build ==
  /\ pc = "build" /\ pc' = "submit"
  /\ req' = [req EXCEPT ![Queue(cmd)] = cmd]
  /\ UNCHANGED <<m, display, why, status, DEVICE, q, dev, cmd, host, hwCursor, counts>>

\* Publish the descriptors, ring the doorbell.
Publish(i) ==
  /\ pc = "submit" /\ pc' = "poll"
  /\ q' = [q EXCEPT ![i].avail = Bump(@)]
  /\ UNCHANGED <<m, display, why, status, DEVICE, dev, req, hwCursor, cmd, host, counts>>

submit == Queue(cmd) = 0 /\ Publish(0)
cursor_submit == Queue(cmd) = 1 /\ Publish(1)

\* What the task does once run_command has returned Ok.
Succeed(c) ==
  CASE c = "create" -> Run("attach")
    [] c = "attach" -> IF m.backingReal THEN Run("scanout") ELSE Exit("backing canary")
    [] c = "scanout" -> Run("transfer")
    [] c = "transfer" -> Run("flush")
    [] c = "flush" -> pc' = "cursor" /\ console' = "backing" /\ UNCHANGED <<cmd, why>>
    [] c = "c_create" -> Run("c_attach")
    [] c = "c_attach" -> Run("c_update")
    [] c = "c_update" -> pc' = "hide" /\ UNCHANGED <<console, cmd, why>>
    [] c = "c_move" -> Park
    [] c = "f_transfer" -> Run("f_flush")
    [] c = "f_flush" -> Park

\* ... and once it has returned Err: bring-up stops, the cursor and a present do not matter.
Fail(c) ==
  CASE c \in {"create", "attach", "scanout", "transfer", "flush"} -> Exit(c)
    [] c \in {"c_create", "c_attach", "c_update", "c_move"} -> Park
    [] c \in {"f_transfer", "f_flush"} ->
         IF failures + 1 >= FLUSH_GIVE_UP THEN pc' = "exit" /\ UNCHANGED <<console, cmd, why>>
                                          ELSE Park

Failures(c, ok) ==
  failures' = IF c = "f_flush" /\ ok THEN 0
              ELSE IF c \in {"f_transfer", "f_flush"} /\ ~ok THEN failures + 1
              ELSE failures

\* Does the element taken off the used ring read as a success?
Accepted(i, elem) == i = 1 \/ (elem.id = 0 /\ elem.len >= 4 /\ dev[0].resp = "ok")

\* The poll loop of submit sees used.idx move and consumes one element.
Poll ==
  /\ pc = "poll"
  /\ \E i \in {Queue(cmd)} : \E elem \in {dev[i].ring[q[i].used % q[i].size]} :
       /\ dev[i].done # q[i].used
       /\ q' = [q EXCEPT ![i].used = Bump(@)]
       /\ took' = {[mine |-> cmd, of |-> elem.of, own |-> q[i].avail,
                    entry |-> Bump(q[i].used), lag |-> late[i]]}
       /\ IF Accepted(i, elem) THEN Succeed(cmd) ELSE Fail(cmd)
       /\ Failures(cmd, Accepted(i, elem))
  /\ UNCHANGED <<m, dispi, MODE, status, DEVICE, dev, req, hwCursor, host, passes, late>>

\* A timeout that also skips the used element it never saw.
TimeOutSkips ==
  /\ pc = "poll"
  /\ \E i \in {Queue(cmd)} :
       /\ dev[i].done = q[i].used
       /\ q' = [q EXCEPT ![i].used = Bump(@)]
       /\ late' = [late EXCEPT ![i] = @ + 1]
  /\ Fail(cmd) /\ Failures(cmd, FALSE)
  /\ UNCHANGED <<m, dispi, MODE, status, DEVICE, dev, req, hwCursor, host, passes, took>>

\* A poll loop without a deadline.
TimeOutNever == pc = "poll" /\ dev[Queue(cmd)].done = q[Queue(cmd)].used /\ UNCHANGED vars

\* CMD_TIMEOUT_MS passes first: the command is given up on, the cursor stays put.
TimeOut ==
  /\ pc = "poll"
  /\ \E i \in {Queue(cmd)} :
       /\ dev[i].done = q[i].used
       /\ late' = [late EXCEPT ![i] = @ + 1]
  /\ Fail(cmd) /\ Failures(cmd, FALSE)
  /\ UNCHANGED <<m, dispi, MODE, status, DEVICE, q, dev, req, hwCursor, host, passes, took>>

\* hardware_cursor_enable, after PRESENT and RESOURCE are published.
Cursor ==
  /\ pc = "cursor"
  /\ IF CursorQueueComesUp
     THEN /\ q' = [q EXCEPT ![1] = Up]
          /\ IF m.memory = "all" THEN Run("c_create") ELSE Park
     ELSE q' = q /\ Park
  /\ UNCHANGED <<m, dispi, MODE, status, DEVICE, dev, req, hwCursor, host, counts>>

\* The end of hardware_cursor_enable: hide_software_cursor has held FB's lock, with interrupts
\* on, and the pointer is handed over.
HideSprite ==
  /\ pc = "hide"
  /\ hwCursor' = TRUE
  /\ Run("c_move")
  /\ UNCHANGED <<m, dispi, MODE, status, DEVICE, q, dev, req, host, counts>>

\* One pass of flush_loop that found damage.
Present ==
  /\ pc = "park" /\ passes < MaxPasses
  /\ passes' = passes + 1
  /\ Run("f_transfer")
  /\ UNCHANGED <<m, dispi, MODE, status, DEVICE, q, dev, req, hwCursor, host, failures, late, took>>
-----------------------------------------------------------------------------
(* IRQ 12, on the CPU of the GPU task: move_cursor and hardware_cursor_move *)

\* cursor_submit of the task holds CURSOR_QUEUE, with interrupts on.
CursorQueueHeld == pc \in {"submit", "poll"} /\ Queue(cmd) = 1

\* A packet arrives.  A lock whose holder the handler has interrupted is never released: FB's,
\* of hide_software_cursor or of a sign-in task of this CPU in current_geometry, or the queue's.
Irq12 ==
  /\ irq12 = "idle" /\ MODE = "set" /\ pc # "task" /\ moves < MaxMoves
  /\ moves' = moves + 1
  /\ \E geometry \in BOOLEAN :
       \/ (geometry \/ pc = "hide") /\ irq12' = "FB" /\ UNCHANGED <<q, req>>
       \/ /\ ~geometry /\ pc # "hide" /\ hwCursor
          /\ IF CursorQueueHeld THEN irq12' = "CURSOR_QUEUE" /\ UNCHANGED <<q, req>>
             ELSE /\ irq12' = "poll"
                  /\ req' = [req EXCEPT ![1] = "i_move"]
                  /\ q' = [q EXCEPT ![1].avail = Bump(@)]
  /\ UNCHANGED <<m, pc, display, why, status, DEVICE, dev, cmd, host, hwCursor, counts>>

\* The used element.  There is no deadline: the millisecond clock is this CPU's, and stopped.
IrqPoll ==
  /\ irq12 = "poll" /\ irq12' = "idle"
  /\ dev[1].done # q[1].used
  /\ q' = [q EXCEPT ![1].used = Bump(@)]
  /\ took' = {[mine |-> "i_move", of |-> dev[1].ring[q[1].used % q[1].size].of,
               own |-> q[1].avail, entry |-> Bump(q[1].used), lag |-> late[1]]}
  /\ UNCHANGED <<m, pc, display, why, status, DEVICE, dev, req, cmd, host, hwCursor, moves,
                 failures, passes, late>>
-----------------------------------------------------------------------------
(* The device: external, modelled from what virtio.rs expects of it *)

Able(c) ==
  CASE c = "attach" -> 1 \in host.made
    [] c \in {"scanout", "transfer"} -> 1 \in host.backed
    [] c = "c_attach" -> 2 \in host.made
    [] OTHER -> TRUE

Carried(c) ==
  CASE c = "create" -> [host EXCEPT !.made = @ \cup {1}]
    [] c = "attach" -> [host EXCEPT !.backed = @ \cup {1}]
    [] c = "scanout" -> [host EXCEPT !.scanout = "resource"]
    [] c = "transfer" -> [host EXCEPT !.drawn = "host"]
    [] c = "flush" -> [host EXCEPT !.drawn = IF @ = "host" THEN "screen" ELSE @]
    [] c = "c_create" -> [host EXCEPT !.made = @ \cup {2}]
    [] c = "c_attach" -> [host EXCEPT !.backed = @ \cup {2}]
    [] OTHER -> host

\* The device reads the request buffer when it gets to it, not when it was published.
DeviceRuns(i, answer, elem) ==
  /\ q[i].up /\ dev[i].seen # q[i].avail
  /\ \E c \in {req[i]} :
       /\ answer = "ok" => Able(c)
       /\ host' = IF answer = "ok" THEN Carried(c) ELSE host
       /\ dev' = [dev EXCEPT ![i] =
                    [seen |-> Bump(@.seen), done |-> Bump(@.done), resp |-> answer,
                     ring |-> [@.ring EXCEPT ![@.done % q[i].size] =
                                 [id |-> elem.id, len |-> elem.len, of |-> c]]]]
  /\ UNCHANGED <<m, pc, display, why, status, DEVICE, q, req, cmd, hwCursor, mouse, counts>>

\* A cursor command has no response, and nobody looks at its used element.
Device ==
  \/ \E answer \in {"ok", "refused"}, id \in {0, 1}, len \in {0, 24} :
       DeviceRuns(0, answer, [id |-> id, len |-> len])
  \/ DeviceRuns(1, "ok", [id |-> 0, len |-> 0])
-----------------------------------------------------------------------------
Init ==
  /\ m \in Machines
  /\ pc = "scan" /\ why = "none"
  /\ dispi = m.found /\ console = "boot" /\ MODE = "none"
  /\ status = {} /\ DEVICE = {}
  /\ q = [i \in {0, 1} |-> [up |-> FALSE, size |-> 1, avail |-> 0, used |-> 0]]
  /\ dev = [i \in {0, 1} |->
              [seen |-> 0, done |-> 0, resp |-> "none",
               ring |-> [s \in 0..Q_SIZE_MAX - 1 |-> [id |-> 0, len |-> 0, of |-> "none"]]]]
  /\ req = [i \in {0, 1} |-> "none"] /\ cmd = "none"
  /\ host = [made |-> {}, backed |-> {}, drawn |-> "none", scanout |-> "dispi"]
  /\ hwCursor = FALSE /\ irq12 = "idle" /\ moves = 0
  /\ failures = 0 /\ passes = 0 /\ late = [i \in {0, 1} |-> 0] /\ took = {}

Boot == Scan \/ ProbeCaps \/ Negotiate \/ ReadConfig \/ Dispi \/ Modeset
        \/ Rehearse \/ Reset \/ FindLfb \/ MapLfb \/ Canary \/ AdoptLfb
GpuTask == Task \/ BringUp \/ Build \/ submit \/ cursor_submit \/ Poll \/ TimeOut \/ Cursor
           \/ HideSprite

\* The kernel's own steps, while the handler does not have their CPU.
Kernel == irq12 = "idle" /\ (Boot \/ GpuTask) /\ UNCHANGED mouse
Presents == irq12 = "idle" /\ Present /\ UNCHANGED mouse
Next == Kernel \/ Presents \/ Irq12 \/ IrqPoll \/ Device

(* The boot path and the GPU task are scheduled and a handler that can go on does; the device  *)
(* and the mouse owe nothing.                                                                  *)
Spec == Init /\ [][Next]_vars /\ WF_vars(Kernel) /\ WF_vars(IrqPoll)
-----------------------------------------------------------------------------
\* The surface the display reads.
Shown ==
  IF host.scanout = "resource" THEN "backing"
  ELSE IF dispi = [mode |-> Want, on |-> TRUE] THEN "lfb"
  ELSE IF dispi = m.found THEN "boot"
  ELSE "nothing"

(***************************************************************************)
(* Whenever the display is not in the middle of being switched, the        *)
(* surface it reads is the one the console draws on, whichever step of the *)
(* modeset or of the virtio bring-up failed.  The code has three holes,    *)
(* named here: a refusal after the fallback rehearsal and a machine whose  *)
(* registers held no mode are not restored, and nothing takes the scanout  *)
(* back once SET_SCANOUT has been sent.                                    *)
(***************************************************************************)
ConsoleOnScreen ==
  pc \in {"task", "cursor", "park", "exit"} =>
    \/ Shown = console
    \/ why \in {"reset", "scanout", "transfer", "flush"}
    \/ m.found.mode = "zero" /\ why # "none"

(***************************************************************************)
(* An answer submit consumes is the device's answer to the command issued  *)
(* as many commands earlier as have been given up on: to the command being *)
(* run, if none has, and the device then carried out that very request.    *)
(***************************************************************************)
AnswerLag ==
  \A t \in took : /\ t.own = (t.entry + t.lag) % IdxMod
                  /\ t.lag = 0 => t.of = t.mine

(***************************************************************************)
(* Whatever the device does or leaves undone, the GPU task ends in the     *)
(* present loop or exits: no command of its own waits for its answer for   *)
(* ever.  What can keep it is IRQ 12 on its CPU, by ways the code leaves   *)
(* open: the handler spins for ever on FB's lock, or, while the task runs  *)
(* the last command of the bring-up, on the cursor queue's lock or for an  *)
(* answer the device does not give.                                        *)
(***************************************************************************)
BringUpSettles ==
  \/ <>(pc \in {"park", "exit"})
  \/ <>[](irq12 = "FB")
  \/ <>[](/\ cmd = "c_move"
          /\ irq12 = "CURSOR_QUEUE" \/ (irq12 = "poll" /\ dev[1].done = q[1].used))
=============================================================================
