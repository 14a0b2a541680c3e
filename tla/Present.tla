------------------------------ MODULE Present ------------------------------
(***************************************************************************)
(* The damage-driven present path: the drawing routines of framebuffer.rs, *)
(* the damage box they widen, and virtio.rs's flush_loop, which takes the  *)
(* box and has the device copy it to the host surface and on to the screen.*)
(*                                                                         *)
(* Its pixels are the columns 1..RowWidth of one row, a rectangle is an    *)
(* interval.  Pixel values are abstracted to which copies are out of date: *)
(* hostStale and screenStale are the pixels whose guest byte differs from  *)
(* the host surface and from the screen (every write is taken to change    *)
(* the pixel).  DIRTY_GEN is only ever compared with flush_loop's last_gen *)
(* so its value is reduced to whether it has moved since.  Park lengths    *)
(* are abstracted: a park ends at its deadline or at a damage wake.        *)
(***************************************************************************)
EXTENDS Naturals, FiniteSets

CONSTANTS
  RowWidth,   \* pixels of the row
  Writers,    \* tasks that draw, then mark: with_writer_region, draw_anim_frame, ...
  Consoles,   \* tasks in console_bytes, which marks each pixel, then writes it
  Mice,       \* the IRQ 12 handler (at most one), which draws the sprite
  Flusher,    \* the GPU task in flush_loop
  Home,       \* the CPU each of them runs on
  Reach,      \* the rectangles each drawer may draw
  PRESENT_GIVE_UP,  \* FLUSH_GIVE_UP: failed presents before the loop returns (50)
  Nobody      \* no lock holder

Drawers == Writers \cup Consoles \cup Mice
Actors == Drawers \cup {Flusher}
Row == 1..RowWidth
Rects == {lo..hi : lo \in Row, hi \in Row} \ {{}}

ASSUME PresentAssumption ==
  /\ RowWidth \in Nat \ {0}
  /\ PRESENT_GIVE_UP \in Nat \ {0}
  /\ Flusher \notin Drawers
  /\ Writers \cap Consoles = {} /\ (Writers \cup Consoles) \cap Mice = {}
  /\ Nobody \notin Actors
  /\ \A a \in Drawers : Reach[a] \subseteq Rects

VARIABLES
  place,        \* where each actor is
  rect,         \* the rectangle it is drawing, marking or presenting
  FB,           \* holder of the framebuffer writer lock
  DIRTY,        \* holder of the damage lock
  box,          \* the damage box, {} for None
  generation,   \* "moved" once DIRTY_GEN differs from last_gen
  wakePending,  \* PRESENT_WAKE_PENDING: "clear" or "owed"
  published,    \* whether PRESENT_TASK_ID is set: "no" or "yes"
  misses,       \* consecutive failed presents
  hostStale, screenStale,
  consoleDrawn  \* pixels last written by the mark-first console path

presentVars == <<place, rect, FB, DIRTY, box, generation, wakePending, published,
                 misses, hostStale, screenStale, consoleDrawn>>
surface == <<hostStale, screenStale, consoleDrawn>>

Hull(S) ==
  IF S = {} THEN {}
  ELSE {p \in Row : (\E q \in S : q <= p) /\ (\E q \in S : p <= q)}

(* Interrupts are off on the CPU of an actor that is here. *)
Masked(a) ==
  \/ a \in Writers /\ place[a] \in {"lock", "draw"}
  \/ a \in Consoles \cup Mice /\ place[a] # "idle"

\* The flusher has the CPU: set_priority made it RT, and no other task is.
FlusherOn ==
  place[Flusher] \notin {"publish", "snapshot", "sleep", "release", "stopped"}

(* a may execute: nothing else on its CPU has interrupts off, and a task      *)
(* (an interrupt is none) does not share it with the running RT flusher.      *)
Runs(a) ==
  /\ \A b \in Actors \ {a} : Home[b] = Home[a] => ~Masked(b)
  /\ FlusherOn /\ Home[a] = Home[Flusher] => a \in Mice \cup {Flusher} \/ Masked(a)

\* a executes at one program point and goes on to the next.
Goes(a, here, next) == Runs(a) /\ place[a] = here /\ place' = [place EXCEPT ![a] = next]

\* adopt has cleared, headered and marked the whole new surface.
PresentInit ==
  /\ place = [a \in Actors |-> IF a = Flusher THEN "publish" ELSE "idle"]
  /\ rect = [a \in Actors |-> {}]
  /\ FB = Nobody /\ DIRTY = Nobody
  /\ box = Row /\ generation = "moved" /\ wakePending = "clear" /\ published = "no"
  /\ misses = 0
  /\ hostStale = Row /\ screenStale = Row /\ consoleDrawn = {}
-----------------------------------------------------------------------------
(* mark_dirty_rect, run by any actor on rect[a] *)

\* Where a goes once its damage is recorded and announced.
AfterMark(a) ==
  CASE a \in Writers -> "idle"
    [] a \in Consoles -> "draw"
    [] a \in Mice -> "leave"
    [] a = Flusher -> "failed"

MarkLock(a) ==
  /\ Goes(a, "mark", "widen")
  /\ DIRTY = Nobody /\ DIRTY' = a
  /\ UNCHANGED <<rect, FB, box, generation, wakePending, published, misses, surface>>

\* was_empty decides whether this mark opens a new damage episode.
MarkWiden(a) ==
  /\ Goes(a, "widen", IF box = {} THEN "open" ELSE "bump")
  /\ DIRTY = a /\ DIRTY' = Nobody
  /\ box' = Hull(box \cup rect[a])
  /\ rect' = IF a \in Consoles THEN rect ELSE [rect EXCEPT ![a] = {}]
  /\ UNCHANGED <<FB, generation, wakePending, published, misses, surface>>

MarkBump(a) ==
  /\ \/ Goes(a, "bump", AfterMark(a))
     \/ Goes(a, "open", "request")
  /\ generation' = "moved"
  /\ UNCHANGED <<rect, FB, DIRTY, box, wakePending, published, misses, surface>>

\* request_present_wake: the swap, then the wake itself.
RequestWake(a) ==
  /\ Goes(a, "request", IF wakePending = "owed" THEN AfterMark(a) ELSE "wake")
  /\ wakePending' = "owed"
  /\ UNCHANGED <<rect, FB, DIRTY, box, generation, published, misses, surface>>

\* wake_task_now promotes only a sleeping flusher.
WakeFlusher(a) ==
  /\ Runs(a) /\ place[a] = "wake"
  /\ place' = IF published = "yes" /\ place[Flusher] = "sleep"
           THEN [place EXCEPT ![a] = AfterMark(a), ![Flusher] = "release"]
           ELSE [place EXCEPT ![a] = AfterMark(a)]
  /\ wakePending' = IF published = "yes" THEN wakePending ELSE "clear"
  /\ UNCHANGED <<rect, FB, DIRTY, box, generation, published, misses, surface>>
-----------------------------------------------------------------------------
(* The drawing routines *)

\* without_interrupts (or the IRQ itself), for a rectangle of the caller's choice.
Begin(a) ==
  /\ Goes(a, "idle", "lock")
  /\ \E r \in Reach[a] : rect' = [rect EXCEPT ![a] = r]
  /\ UNCHANGED <<FB, DIRTY, box, generation, wakePending, published, misses, surface>>

\* current_geometry, which a drawing task calls with interrupts on: FB.lock() ...
ReadGeometry(a) ==
  /\ a \in Writers /\ Goes(a, "idle", "geometry")
  /\ FB = Nobody /\ FB' = a
  /\ UNCHANGED <<rect, DIRTY, box, generation, wakePending, published, misses, surface>>

\* ... and the guard's drop.
GotGeometry(a) ==
  /\ Goes(a, "geometry", "idle")
  /\ FB' = Nobody
  /\ UNCHANGED <<rect, DIRTY, box, generation, wakePending, published, misses, surface>>

\* FB.lock(); the console path marks next, the others draw.
LockFB(a) ==
  /\ Goes(a, "lock", IF a \in Consoles THEN "mark" ELSE "draw")
  /\ FB = Nobody /\ FB' = a
  /\ UNCHANGED <<rect, DIRTY, box, generation, wakePending, published, misses, surface>>

Written(a) ==
  /\ hostStale' = hostStale \cup rect[a]
  /\ screenStale' = screenStale \cup rect[a]
  /\ consoleDrawn' = IF a \in Consoles THEN consoleDrawn \cup rect[a]
                                       ELSE consoleDrawn \ rect[a]

\* The pixel bytes; writers and the console leave the lock and the IF=0 window.
DrawRect(a) ==
  /\ a \in Drawers
  /\ Goes(a, "draw", IF a \in Consoles THEN "idle" ELSE "mark")
  /\ Written(a)
  /\ FB' = IF a \in Mice THEN FB ELSE Nobody
  /\ rect' = IF a \in Consoles THEN [rect EXCEPT ![a] = {}] ELSE rect
  /\ UNCHANGED <<DIRTY, box, generation, wakePending, published, misses>>

\* move_cursor returns: the lock it marked under is dropped.
LeaveIrq(a) ==
  /\ a \in Mice /\ Goes(a, "leave", "idle")
  /\ FB' = Nobody
  /\ UNCHANGED <<rect, DIRTY, box, generation, wakePending, published, misses, surface>>
-----------------------------------------------------------------------------
(* The GPU task: flush_loop *)

PublishTask ==
  /\ Goes(Flusher, "publish", "snapshot")
  /\ published' = "yes"
  /\ UNCHANGED <<rect, FB, DIRTY, box, generation, wakePending, misses, surface>>

\* last_gen = damage_generation(), taken once before the loop.
Snapshot ==
  /\ Goes(Flusher, "snapshot", "sleep")
  /\ generation' = "same"
  /\ UNCHANGED <<rect, FB, DIRTY, box, wakePending, published, misses, surface>>

\* The park of sleep_kernel reaches its deadline.
ParkEnds ==
  /\ Goes(Flusher, "sleep", "release")
  /\ UNCHANGED <<rect, FB, DIRTY, box, generation, wakePending, published, misses, surface>>

\* Variant: the latch is released only by a pass that has damage to take.
ReleaseWakeOnDamage ==
  /\ Goes(Flusher, "release", "load")
  /\ wakePending' = IF box # {} THEN "clear" ELSE wakePending
  /\ rect' = [rect EXCEPT ![Flusher] = {}]
  /\ UNCHANGED <<FB, DIRTY, box, generation, published, misses, surface>>

\* release_present_wake, on every pass.
ReleaseWake ==
  /\ Goes(Flusher, "release", "load")
  /\ wakePending' = "clear"
  /\ rect' = [rect EXCEPT ![Flusher] = {}]
  /\ UNCHANGED <<FB, DIRTY, box, generation, published, misses, surface>>

\* gen == last_gen: back to the park; otherwise last_gen = gen.
LoadGeneration ==
  /\ Goes(Flusher, "load", IF generation = "same" THEN "sleep" ELSE "take")
  /\ generation' = "same"
  /\ UNCHANGED <<rect, FB, DIRTY, box, wakePending, published, misses, surface>>

TakeLock ==
  /\ Goes(Flusher, "take", "taking")
  /\ DIRTY = Nobody /\ DIRTY' = Flusher
  /\ UNCHANGED <<rect, FB, box, generation, wakePending, published, misses, surface>>

\* take_dirty_rect empties the box it returns.
TakeBox ==
  /\ Goes(Flusher, "taking", IF box = {} THEN "sleep" ELSE "transfer")
  /\ rect' = [rect EXCEPT ![Flusher] = box]
  /\ box' = {}
  /\ DIRTY' = Nobody
  /\ UNCHANGED <<FB, generation, wakePending, published, misses, surface>>

\* transfer_to_host_2d_rect: the device reads the guest bytes.
Transfer ==
  /\ Goes(Flusher, "transfer", "flush")
  /\ hostStale' = hostStale \ rect[Flusher]
  /\ UNCHANGED <<rect, FB, DIRTY, box, generation, wakePending, published, misses,
                 screenStale, consoleDrawn>>

\* flush_rect: the screen shows what the host surface holds.
Flush ==
  /\ Goes(Flusher, "flush", "sleep")
  /\ screenStale' = (screenStale \ rect[Flusher]) \cup (rect[Flusher] \cap hostStale)
  /\ misses' = 0
  /\ UNCHANGED <<rect, FB, DIRTY, box, generation, wakePending, published,
                 hostStale, consoleDrawn>>

\* Variant: a failed present forgets the rectangle it took.
RefuseForgets ==
  /\ Goes(Flusher, "transfer", "failed") \/ Goes(Flusher, "flush", "failed")
  /\ UNCHANGED <<rect, FB, DIRTY, box, generation, wakePending, published, misses, surface>>

\* Variant: the rectangle goes back in the box, but no new generation is announced.
RefuseQuietly ==
  /\ Goes(Flusher, "transfer", "failed") \/ Goes(Flusher, "flush", "failed")
  /\ box' = Hull(box \cup rect[Flusher])
  /\ rect' = [rect EXCEPT ![Flusher] = {}]
  /\ UNCHANGED <<FB, DIRTY, generation, wakePending, published, misses, surface>>

\* Either command refused or timed out: mark_dirty_public re-arms the rectangle.
Refuse ==
  /\ Goes(Flusher, "transfer", "mark") \/ Goes(Flusher, "flush", "mark")
  /\ UNCHANGED <<rect, FB, DIRTY, box, generation, wakePending, published, misses, surface>>

\* failures += 1; at FLUSH_GIVE_UP the loop returns and the display freezes.
GiveUp ==
  /\ Goes(Flusher, "failed", IF misses + 1 >= PRESENT_GIVE_UP THEN "stopped" ELSE "sleep")
  /\ misses' = misses + 1
  /\ UNCHANGED <<rect, FB, DIRTY, box, generation, wakePending, published, surface>>

Mark(a) ==
  MarkLock(a) \/ MarkWiden(a) \/ MarkBump(a) \/ RequestWake(a) \/ WakeFlusher(a)
Drawing(a) == LockFB(a) \/ DrawRect(a) \/ LeaveIrq(a) \/ Mark(a)
Reading(a) == ReadGeometry(a) \/ GotGeometry(a)
Flushing ==
  \/ PublishTask \/ Snapshot \/ ParkEnds \/ ReleaseWake \/ LoadGeneration
  \/ TakeLock \/ TakeBox \/ Transfer \/ Flush \/ Refuse \/ GiveUp
  \/ Mark(Flusher)

PresentNext == Flushing \/ \E a \in Drawers : Begin(a) \/ Drawing(a) \/ Reading(a)

PresentSpec == PresentInit /\ [][PresentNext]_presentVars

(* The RT flusher goes on whenever no interrupt handler or masked section    *)
(* has its CPU, and code that runs with interrupts off goes on to its end    *)
(* unless it spins.  Nothing is assumed of a drawing task that runs with     *)
(* interrupts on: it may stay suspended for ever, holding a lock.            *)
PresentFairSpec ==
  /\ PresentSpec
  /\ SF_presentVars(Flushing)
  /\ \A a \in Drawers : WF_presentVars(Masked(a) /\ Drawing(a))
-----------------------------------------------------------------------------
Places == {"idle", "geometry", "lock", "draw", "leave", "mark", "widen", "open", "bump",
           "request", "wake", "publish", "snapshot", "sleep", "release",
           "load", "take", "taking", "transfer", "flush", "failed", "stopped"}

\* The flusher never retries past FLUSH_GIVE_UP, and each lock is held exactly
\* by the actor whose program counter is inside its critical section.
TypeOK ==
  /\ place \in [Actors -> Places]
  /\ rect \in [Actors -> SUBSET Row]
  /\ box \in Rects \cup {{}}
  /\ generation \in {"same", "moved"} /\ wakePending \in {"clear", "owed"}
  /\ published \in {"no", "yes"}
  /\ misses \in 0..PRESENT_GIVE_UP
  /\ hostStale \subseteq Row /\ screenStale \subseteq Row
  /\ consoleDrawn \subseteq Row
  /\ FB \in Drawers \cup {Nobody} /\ DIRTY \in Actors \cup {Nobody}
  /\ \A a \in Actors : place[a] \in {"widen", "taking"} <=> DIRTY = a

\* The rectangle the flusher has taken and not yet presented or re-armed.
InFlight == IF place[Flusher] \in {"transfer", "flush", "mark", "widen"}
            THEN rect[Flusher] ELSE {}

\* The rectangles that are drawn and whose mark is still to come.
ToMark == {p \in Row : \E a \in Writers \cup Mice :
                           place[a] \in {"mark", "widen"} /\ p \in rect[a]}

\* take_dirty_rect: "There is no window in which damage is recorded but never
\* presented ... stale pixels that nothing will ever redraw".  A pixel whose
\* screen copy is out of date is in the box, in the flusher's hands or about to
\* be marked, whatever commands fail, for every path that marks after it draws.
DrawnIsKept ==
  \A p \in screenStale \ consoleDrawn : p \in box \cup InFlight \cup ToMark

(* A wedge: somebody spins on a lock whose holder cannot run, since the       *)
(* spinner has the CPU of the two to itself (interrupts off, or the RT task). *)
SpinsOn(a, b) ==
  \/ place[a] \in {"mark", "take"} /\ DIRTY = b
  \/ place[a] = "lock" /\ FB = b
Wedged == \E a, b \in Actors :
            SpinsOn(a, b) /\ ~Runs(b) /\ Home[a] = Home[b] /\ (Masked(a) \/ a = Flusher)

\* draw_probe_marker ("the damage lock must never be held across a preemption")
\* and with_writer rule 2: the spins on a lock always end.  It fails, since
\* mark_dirty_rect and current_geometry take their lock with interrupts on.
NoSpinOnSuspended == ~Wedged

\* Damage the running flusher has been told of is presented, or the loop gives
\* up: the generation, the box and the re-arm of a failed present (flush_loop)
\* never leave a box behind that no pass will look at.  The one other way out:
\* mark_dirty_rect and current_geometry hold their lock with interrupts on, and
\* the CPU wedges when IRQ 12, a console write or the flusher interrupts them.
Presented(p) == place[Flusher] = "sleep" /\ p \in rect[Flusher]
Running == place[Flusher] \notin {"publish", "snapshot", "stopped"}
DamagePresented ==
  \/ \A p \in Row :
       (Running /\ generation = "moved" /\ p \in box)
         ~> (Presented(p) \/ place[Flusher] = "stopped")
  \/ <>[]Wedged

\* release_present_wake "MUST be called on EVERY exit from the pass": a latched
\* wake request is released again, so later damage can wake the flusher, unless
\* the loop gives up or the CPU wedges on a lock held with interrupts on.
LatchReleased ==
  \/ (wakePending = "owed") ~> (wakePending = "clear" \/ place[Flusher] = "stopped")
  \/ <>[]Wedged
=============================================================================
