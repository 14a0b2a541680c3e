-------------------------------- MODULE Smp --------------------------------
(***************************************************************************)
(* From kernel_main to four running CPUs: the boot context switches the    *)
(* interrupts from the PIC to the APIC and arms the preemption timer       *)
(* (main.rs, apic.rs, pit.rs, pic.rs, interrupts.rs), a kernel task starts *)
(* the application processors one after the other through one trampoline   *)
(* page (smp.rs), a second one corrects the timer interval, and every AP   *)
(* identifies itself, arms its own timer and waits for work.               *)
(*                                                                         *)
(* A CPU slot's bring-up stack is named by the slot.  Busy waits and       *)
(* sleeps end at an interrupt; how many PIT ticks they take is left out,   *)
(* how often they are repeated is not.  The boot context runs until the    *)
(* timer is armed; from then on it is preempted like any other code, and   *)
(* may not run again while a task is Ready.                                *)
(***************************************************************************)
EXTENDS Integers, FiniteSets, Sequences, FiniteSetsExt

CONSTANTS
  Boards,        \* the machines the kernel may find itself on
  MAX_CPUS,      \* per-CPU slots (4 in the code)
  SettleTries,   \* times bringup_task sleeps for the interval (20)
  OnlineTries    \* PIT ticks start_aps waits for an AP (20)

ASSUME SizeAssumption ==
  MAX_CPUS \in Nat \ {0} /\ SettleTries \in Nat /\ OnlineTries \in Nat

\* Firmware lists every LAPIC id once in the MADT; any CPU may be the one that boots.
ASSUME BoardAssumption ==
  \A b \in Boards : /\ b.bsp \in Nat /\ b.madt \in Seq(Nat)
                    /\ \A j, k \in DOMAIN b.madt : b.madt[j] = b.madt[k] => j = k

Slots == 0..MAX_CPUS - 1

VARIABLES
  hw,              \* the machine: [apic, hz, low, maps, bsp, madt, dead]
  boot,            \* where kernel_main is
  LOW_PAGE, PREPARED, BRINGUP_DONE,
  ACTIVE,          \* the APIC path is live
  pit,             \* IRQ 0: [routed, stuck], through the IOAPIC, never acknowledged
  TIMER_INTERVAL,  \* the published interval, 0 before
  lapic, online, armed,   \* PerCpu: lapic_id, online, armed_interval (0: masked)
  page,            \* the stack slot of the trampoline page
  bring, cal,      \* the bring-up task [pc, tries, k, cpu, started], calibrate_task
  waiting,         \* tasks and contexts spinning for the next PIT tick
  ap,              \* per LAPIC id: [pc, cpu, stack]
  ipi,             \* LAPIC ids with a reschedule IPI pending
  worker,          \* per slot: the AP's worker task
  gaveUp           \* ghost: LAPIC ids start_aps reported as never online

prep == <<LOW_PAGE, PREPARED, BRINGUP_DONE>>
timers == <<TIMER_INTERVAL, armed>>
blocks == <<lapic, online, page>>
aps == <<ap, ipi, worker>>
smpVars == <<hw, boot, prep, ACTIVE, pit, timers, blocks, bring, cal, waiting, aps, gaveUp>>

LapicIds == {hw.madt[k] : k \in DOMAIN hw.madt}
APs == LapicIds \ {hw.bsp}

\* An AP that took a fault without an interrupt table has reset the machine.
Shutdown == boot = "reset"

Early == {"start", "memory", "spawn", "acpi"}

\* Tasks run once the timer preempts the boot context, or its hlt has returned.
Scheduled == armed[0] # 0 \/ boot = "idling"
-----------------------------------------------------------------------------
(* kernel_main up to the idle loop, with apic::init *)

init_bsp ==
  /\ boot = "start" /\ boot' = "memory"
  /\ online' = [online EXCEPT ![0] = TRUE]
  /\ UNCHANGED <<hw, prep, ACTIVE, pit, timers, lapic, page, bring, cal, waiting, aps, gaveUp>>

\* reserve_low_frame and set_low_page.
set_low_page ==
  /\ boot = "memory" /\ boot' = "spawn"
  /\ LOW_PAGE' = hw.low
  /\ UNCHANGED <<hw, PREPARED, BRINGUP_DONE, ACTIVE, pit, timers, blocks, bring, cal,
                 waiting, aps, gaveUp>>

spawn_bringup_task ==
  /\ boot = "spawn" /\ boot' = "acpi"
  /\ bring' = [bring EXCEPT !.pc = "settle"]
  /\ UNCHANGED <<hw, prep, ACTIVE, pit, timers, blocks, cal, waiting, aps, gaveUp>>

\* acpi::init, then interrupts::enable.
EnableInterrupts ==
  /\ boot = "acpi" /\ boot' = "apic"
  /\ UNCHANGED <<hw, prep, ACTIVE, pit, timers, blocks, bring, cal, waiting, aps, gaveUp>>

\* The switch from PIC to IOAPIC and the EOI path change hands with interrupts off.
ApicSwitch ==
  /\ boot = "apic"
  /\ IF hw.apic
     THEN /\ pit' = [pit EXCEPT !.routed = TRUE] /\ ACTIVE' = TRUE
          /\ boot' = "measure" /\ waiting' = waiting \cup {"boot"}
     ELSE boot' = "idle" /\ UNCHANGED <<pit, ACTIVE, waiting>>
  /\ UNCHANGED <<hw, prep, timers, blocks, bring, cal, aps, gaveUp>>

\* The one-shot measurement; a bogus one withdraws ACTIVE, not the routing.
Calibrate ==
  /\ boot = "measure" /\ "boot" \notin waiting
  /\ IF hw.hz = "bogus" THEN ACTIVE' = FALSE /\ boot' = "idle"
                        ELSE ACTIVE' = ACTIVE /\ boot' = "arm"
  /\ UNCHANGED <<hw, prep, pit, timers, blocks, bring, cal, waiting, aps, gaveUp>>

ArmTimer ==
  /\ boot = "arm" /\ boot' = "publish"
  /\ armed' = [armed EXCEPT ![0] = 1]
  /\ UNCHANGED <<hw, prep, ACTIVE, pit, TIMER_INTERVAL, blocks, bring, cal, waiting, aps,
                 gaveUp>>

PublishInterval ==
  /\ boot = "publish" /\ boot' = "spawncal"
  /\ TIMER_INTERVAL' = 1
  /\ UNCHANGED <<hw, prep, ACTIVE, pit, armed, blocks, bring, cal, waiting, aps, gaveUp>>

SpawnCalibrate ==
  /\ boot = "spawncal" /\ boot' = "idle"
  /\ cal' = "ready"
  /\ UNCHANGED <<hw, prep, ACTIVE, pit, timers, blocks, bring, waiting, aps, gaveUp>>

kernel_main ==
  init_bsp \/ set_low_page \/ spawn_bringup_task \/ EnableInterrupts \/ ApicSwitch
  \/ Calibrate \/ ArmTimer \/ PublishInterval \/ SpawnCalibrate
-----------------------------------------------------------------------------
(* Interrupts of the boot CPU *)

\* device_eoi: with ACTIVE false the acknowledgement goes to the PIC, whatever brought the IRQ.
device_eoi == pit' = [pit EXCEPT !.stuck = pit.routed /\ ~ACTIVE]

\* timer_handler: the tick ends the spins that wait for one; in idle_forever hlt returns.
timer_handler ==
  /\ boot \notin Early /\ ~pit.stuck
  /\ waiting' = {}
  /\ boot' = IF boot = "idle" THEN "idling" ELSE boot
  /\ device_eoi
  /\ UNCHANGED <<hw, prep, ACTIVE, timers, blocks, bring, cal, aps, gaveUp>>

\* Variant: a timer that runs is left alone.
RearmMasked(c) ==
  armed' = IF TIMER_INTERVAL = 0 \/ armed[c] # 0 THEN armed
           ELSE [armed EXCEPT ![c] = TIMER_INTERVAL]

\* maybe_rearm_timer on the CPU of slot c.
maybe_rearm_timer(c) ==
  armed' = IF TIMER_INTERVAL = 0 THEN armed ELSE [armed EXCEPT ![c] = TIMER_INTERVAL]

BspTimer ==
  /\ armed[0] # 0 /\ maybe_rearm_timer(0)
  /\ UNCHANGED <<hw, boot, prep, ACTIVE, pit, TIMER_INTERVAL, blocks, bring, cal, waiting,
                 aps, gaveUp>>
-----------------------------------------------------------------------------
(* calibrate_task *)

MeasureAgain ==
  /\ Scheduled /\ cal = "ready"
  /\ cal' = "measure" /\ waiting' = waiting \cup {"cal"}
  /\ UNCHANGED <<hw, boot, prep, ACTIVE, pit, timers, blocks, bring, aps, gaveUp>>

\* The ratio may leave the interval alone or change it; every CPU picks it up later.
Correct ==
  /\ Scheduled /\ cal = "measure" /\ "cal" \notin waiting
  /\ cal' = "exit" /\ TIMER_INTERVAL' \in {1, 2}
  /\ UNCHANGED <<hw, boot, prep, ACTIVE, pit, armed, blocks, bring, waiting, aps, gaveUp>>

calibrate_task == MeasureAgain \/ Correct
-----------------------------------------------------------------------------
(* bringup_task *)

\* One round of the wait for the interval, which is not waited for for ever.
Settle ==
  /\ Scheduled /\ bring.pc = "settle"
  /\ bring' = IF TIMER_INTERVAL # 0 \/ bring.tries = 0
              THEN [bring EXCEPT !.pc = "prepare"]
              ELSE [bring EXCEPT !.pc = "asleep", !.tries = @ - 1]
  /\ UNCHANGED <<hw, boot, prep, ACTIVE, pit, timers, blocks, cal, waiting, aps, gaveUp>>

\* The wake pass needs an interrupt: the timer's, or one that ends the idle loop's hlt.
WakeUp ==
  /\ Scheduled /\ bring.pc = "asleep"
  /\ armed[0] # 0 \/ ~pit.stuck
  /\ bring' = [bring EXCEPT !.pc = "settle"]
  /\ UNCHANGED <<hw, boot, prep, ACTIVE, pit, timers, blocks, cal, waiting, aps, gaveUp>>

prepare ==
  /\ Scheduled /\ bring.pc = "prepare"
  /\ PREPARED' = (LOW_PAGE = "ok" /\ hw.maps)
  /\ bring' = [bring EXCEPT !.pc = IF PREPARED' THEN "start" ELSE "exit"]
  /\ UNCHANGED <<hw, boot, LOW_PAGE, BRINGUP_DONE, ACTIVE, pit, timers, blocks, cal, waiting,
                 aps, gaveUp>>

start_aps ==
  /\ Scheduled /\ bring.pc = "start"
  /\ bring' = [bring EXCEPT !.pc = IF ACTIVE THEN "next" ELSE "finish"]
  /\ UNCHANGED <<hw, boot, prep, ACTIVE, pit, timers, blocks, cal, waiting, aps, gaveUp>>

Advance(gain) == [bring EXCEPT !.pc = "next", !.k = @ + 1, !.cpu = @ + 1, !.started = @ + gain]

\* The page is one and the same for all APs; only the stack differs from AP to AP.
build_page(cpu) == page' = cpu

\* The next MADT entry: its block and the page are written, INIT is asserted.
NextAp ==
  /\ Scheduled /\ bring.pc = "next"
  /\ IF bring.k > Len(hw.madt) THEN bring' = [bring EXCEPT !.pc = "kick"]
                                    /\ UNCHANGED <<blocks, ap, waiting>>
     ELSE IF hw.madt[bring.k] = hw.bsp THEN bring' = [bring EXCEPT !.k = @ + 1]
                                           /\ UNCHANGED <<blocks, ap, waiting>>
     ELSE IF bring.cpu >= MAX_CPUS THEN bring' = [bring EXCEPT !.pc = "kick"]
                                        /\ UNCHANGED <<blocks, ap, waiting>>
     ELSE /\ lapic' = [lapic EXCEPT ![bring.cpu] = hw.madt[bring.k]]
          /\ online' = [online EXCEPT ![bring.cpu] = FALSE]
          /\ build_page(bring.cpu)
          /\ ap' = [ap EXCEPT ![hw.madt[bring.k]].pc = "reset"]
          /\ bring' = [bring EXCEPT !.pc = "assert"] /\ waiting' = waiting \cup {"bring"}
  /\ UNCHANGED <<hw, boot, prep, ACTIVE, pit, timers, cal, ipi, worker, gaveUp>>

Deassert ==
  /\ Scheduled /\ bring.pc = "assert" /\ "bring" \notin waiting
  /\ bring' = [bring EXCEPT !.pc = "deassert"] /\ waiting' = waiting \cup {"bring"}
  /\ UNCHANGED <<hw, boot, prep, ACTIVE, pit, timers, blocks, cal, aps, gaveUp>>

\* A SIPI starts an AP that waits for one; the first may be lost, a dead AP takes neither.
Sipi(last) ==
  \E id \in {hw.madt[bring.k]} :
    \/ /\ ap[id].pc = "reset" /\ id \notin hw.dead
       /\ ap' = [ap EXCEPT ![id].pc = "trampoline"]
    \/ /\ ap[id].pc = "reset" => ~last \/ id \in hw.dead
       /\ ap' = ap

FirstSipi ==
  /\ Scheduled /\ bring.pc = "deassert" /\ "bring" \notin waiting
  /\ Sipi(FALSE)
  /\ bring' = [bring EXCEPT !.pc = "sipi"]
  /\ UNCHANGED <<hw, boot, prep, ACTIVE, pit, timers, blocks, cal, waiting, ipi, worker, gaveUp>>

SecondSipi ==
  /\ Scheduled /\ bring.pc = "sipi"
  /\ Sipi(TRUE)
  /\ bring' = [bring EXCEPT !.pc = "await", !.tries = OnlineTries]
  /\ waiting' = waiting \cup {"bring"}
  /\ UNCHANGED <<hw, boot, prep, ACTIVE, pit, timers, blocks, cal, ipi, worker, gaveUp>>

\* Variant: an AP that did not answer in time is counted as started.
AwaitAssumes ==
  /\ Scheduled /\ bring.pc = "await" /\ "bring" \notin waiting
  /\ bring' = Advance(1)
  /\ UNCHANGED <<hw, boot, prep, ACTIVE, pit, timers, blocks, cal, waiting, aps, gaveUp>>

\* Variant: the wait for the online flag has no bound.
AwaitForever ==
  /\ Scheduled /\ bring.pc = "await" /\ "bring" \notin waiting
  /\ IF online[bring.cpu] THEN bring' = Advance(1) /\ waiting' = waiting
                          ELSE bring' = bring /\ waiting' = waiting \cup {"bring"}
  /\ UNCHANGED <<hw, boot, prep, ACTIVE, pit, timers, blocks, cal, aps, gaveUp>>

\* One round of the wait for the AP's online flag; the page is reused after the last.
Await ==
  /\ Scheduled /\ bring.pc = "await" /\ "bring" \notin waiting
  /\ \/ /\ online[bring.cpu]
        /\ bring' = Advance(1) /\ UNCHANGED <<waiting, gaveUp>>
     \/ /\ ~online[bring.cpu] /\ bring.tries > 1
        /\ bring' = [bring EXCEPT !.tries = @ - 1] /\ waiting' = waiting \cup {"bring"}
        /\ gaveUp' = gaveUp
     \/ /\ ~online[bring.cpu] /\ bring.tries = 1
        /\ bring' = Advance(0) /\ gaveUp' = gaveUp \cup {hw.madt[bring.k]}
        /\ waiting' = waiting
  /\ UNCHANGED <<hw, boot, prep, ACTIVE, pit, timers, blocks, cal, aps>>

\* Reschedule IPIs to the other online CPUs, by the lapic_id of their blocks, which slot 0 never
\* gets (what the boot CPU does with one is not followed).
kick_others(me) ==
  ipi' = IF Cardinality({c \in Slots : online[c]}) <= 1 THEN ipi
         ELSE ipi \cup ({lapic[c] : c \in {c \in Slots \ {me} : online[c]}} \cap APs)

\* Variant: a single started AP is not kicked.
KickMany ==
  /\ Scheduled /\ bring.pc = "kick"
  /\ IF bring.started > 1 THEN kick_others(0) ELSE ipi' = ipi
  /\ bring' = [bring EXCEPT !.pc = "finish"]
  /\ UNCHANGED <<hw, boot, prep, ACTIVE, pit, timers, blocks, cal, waiting, ap, worker, gaveUp>>

Kick ==
  /\ Scheduled /\ bring.pc = "kick"
  /\ IF bring.started > 0 THEN kick_others(0) ELSE ipi' = ipi
  /\ bring' = [bring EXCEPT !.pc = "finish"]
  /\ UNCHANGED <<hw, boot, prep, ACTIVE, pit, timers, blocks, cal, waiting, ap, worker, gaveUp>>

Finish ==
  /\ Scheduled /\ bring.pc = "finish"
  /\ BRINGUP_DONE' = TRUE /\ bring' = [bring EXCEPT !.pc = "exit"]
  /\ UNCHANGED <<hw, boot, LOW_PAGE, PREPARED, ACTIVE, pit, timers, blocks, cal, waiting, aps,
                 gaveUp>>

bringup_task ==
  Settle \/ WakeUp \/ prepare \/ start_aps \/ NextAp \/ Deassert \/ FirstSipi \/ SecondSipi
  \/ Await \/ Kick \/ Finish
-----------------------------------------------------------------------------
(* The application processors: ap_entry *)

ApAt(a, point, next) == ap[a].pc = point /\ ap' = [ap EXCEPT ![a].pc = next]

\* The 64-bit stub loads the stack out of the page as the page is by now.
Trampoline(a) ==
  /\ ap[a].pc = "trampoline"
  /\ ap' = [ap EXCEPT ![a].pc = "entry", ![a].stack = page]
  /\ UNCHANGED <<hw, boot, prep, ACTIVE, pit, timers, blocks, bring, cal, waiting, ipi, worker,
                 gaveUp>>

\* The first block that carries this LAPIC id; then GS, GDT, IDT, control registers, MSRs.  The
\* TSS of slot 0 is the boot CPU's and busy, so load_tss faults, before the AP has an IDT.
Identify(a) ==
  /\ ap[a].pc = "entry"
  /\ \E own \in {{c \in Slots : lapic[c] = a}} :
       /\ ap' = IF own = {} THEN [ap EXCEPT ![a].pc = "halted"]
                ELSE [ap EXCEPT ![a].pc = "timer", ![a].cpu = Min(own)]
       /\ boot' = IF 0 \in own THEN "reset" ELSE boot
  /\ UNCHANGED <<hw, prep, ACTIVE, pit, timers, blocks, bring, cal, waiting, ipi, worker,
                 gaveUp>>

\* apic::init_ap: no published interval, no timer.
init_ap(a) ==
  /\ ApAt(a, "timer", "online")
  /\ armed' = [armed EXCEPT ![ap[a].cpu] = TIMER_INTERVAL]
  /\ UNCHANGED <<hw, boot, prep, ACTIVE, pit, TIMER_INTERVAL, blocks, bring, cal, waiting, ipi,
                 worker, gaveUp>>

RaiseOnline(a) ==
  /\ ApAt(a, "online", "spawn")
  /\ online' = [online EXCEPT ![ap[a].cpu] = TRUE]
  /\ UNCHANGED <<hw, boot, prep, ACTIVE, pit, timers, lapic, page, bring, cal, waiting, ipi,
                 worker, gaveUp>>

\* spawn_on_cpu for this CPU kicks the others, not itself.
SpawnWorker(a) ==
  /\ ApAt(a, "spawn", "enable")
  /\ worker' = [worker EXCEPT ![ap[a].cpu] = "ready"]
  /\ kick_others(ap[a].cpu)
  /\ UNCHANGED <<hw, boot, prep, ACTIVE, pit, timers, blocks, bring, cal, waiting, gaveUp>>

IdleLoop(a) ==
  /\ ApAt(a, "enable", "idle")
  /\ UNCHANGED <<hw, boot, prep, ACTIVE, pit, timers, blocks, bring, cal, waiting, ipi, worker,
                 gaveUp>>

\* preempt on an AP: its worker, which only this CPU may run, gets its turn.
RunWorker(c) ==
  worker' = [worker EXCEPT ![c] = IF @ = "ready" THEN "ran" ELSE @]

apic_timer_handler(a) ==
  /\ ap[a].pc = "idle" /\ armed[ap[a].cpu] # 0
  /\ maybe_rearm_timer(ap[a].cpu) /\ RunWorker(ap[a].cpu)
  /\ UNCHANGED <<hw, boot, prep, ACTIVE, pit, TIMER_INTERVAL, blocks, bring, cal, waiting, ap,
                 ipi, gaveUp>>

resched_ipi_handler(a) ==
  /\ ap[a].pc = "idle" /\ a \in ipi
  /\ ipi' = ipi \ {a} /\ RunWorker(ap[a].cpu)
  /\ UNCHANGED <<hw, boot, prep, ACTIVE, pit, timers, blocks, bring, cal, waiting, ap, gaveUp>>

ap_entry(a) ==
  Trampoline(a) \/ Identify(a) \/ init_ap(a) \/ RaiseOnline(a) \/ SpawnWorker(a) \/ IdleLoop(a)
-----------------------------------------------------------------------------
SmpInit ==
  /\ hw \in Boards
  /\ boot = "start" /\ LOW_PAGE = "none" /\ PREPARED = FALSE /\ BRINGUP_DONE = FALSE
  /\ ACTIVE = FALSE /\ pit = [routed |-> FALSE, stuck |-> FALSE]
  /\ TIMER_INTERVAL = 0 /\ armed = [c \in Slots |-> 0]
  /\ lapic = [c \in Slots |-> 0] /\ online = [c \in Slots |-> FALSE] /\ page = 0
  /\ bring = [pc |-> "none", tries |-> SettleTries, k |-> 1, cpu |-> 1, started |-> 0]
  /\ cal = "none" /\ waiting = {} /\ gaveUp = {}
  /\ ap = [a \in APs |-> [pc |-> "off", cpu |-> MAX_CPUS, stack |-> MAX_CPUS]]
  /\ ipi = {} /\ worker = [c \in Slots |-> "none"]

SmpNext ==
  /\ ~Shutdown
  /\ \/ kernel_main \/ timer_handler \/ BspTimer \/ calibrate_task \/ bringup_task
     \/ \E a \in APs : ap_entry(a) \/ apic_timer_handler(a) \/ resched_ipi_handler(a)

(***************************************************************************)
(* The boot context is alone until it arms the timer; after that nothing   *)
(* schedules it.  Preempted by the timer, the tasks take turns.  A running *)
(* AP executes, and its timer and IPIs are delivered.                      *)
(***************************************************************************)
SmpFairness ==
  /\ WF_smpVars(~Shutdown /\ kernel_main /\ armed[0] = 0)
  /\ WF_smpVars(~Shutdown /\ timer_handler) /\ WF_smpVars(~Shutdown /\ BspTimer)
  /\ WF_smpVars(~Shutdown /\ calibrate_task /\ armed[0] # 0)
  /\ WF_smpVars(~Shutdown /\ bringup_task /\ armed[0] # 0)
  /\ \A a \in 0..MAX_CPUS :
       WF_smpVars(~Shutdown /\ a \in APs
                  /\ (ap_entry(a) \/ apic_timer_handler(a) \/ resched_ipi_handler(a)))

SmpSpec == SmpInit /\ [][SmpNext]_smpVars /\ SmpFairness
-----------------------------------------------------------------------------
Identified == {a \in APs : ap[a].pc \in {"timer", "online", "spawn", "enable", "idle"}}

(***************************************************************************)
(* Every AP finds a per-CPU block of its own, and runs on the stack of     *)
(* that block: start_aps rewrites the one trampoline page for the next AP  *)
(* only once the previous one is online.  Two cases are excepted, and go   *)
(* no further than this.  An AP that start_aps gave up on may come up late *)
(* on the stack of an AP started after it, never of one started before.    *)
(* On a machine whose boot CPU has another LAPIC id than 0, the AP with    *)
(* id 0 takes the boot CPU's block, whose lapic_id is 0 because nothing    *)
(* writes it; no other AP does.                                            *)
(***************************************************************************)
OwnContext ==
  \A a \in Identified :
    /\ ap[a].cpu = 0 <=> a = 0
    /\ a # 0 => ap[a].stack >= ap[a].cpu /\ (a \notin gaveUp => ap[a].stack = ap[a].cpu)
    /\ \A b \in Identified \ {a} : ap[a].cpu # ap[b].cpu

(***************************************************************************)
(* The worker task an AP spawns for itself gets to run, also on an AP that *)
(* came up before the interval was published and so has no timer: the IPI  *)
(* start_aps sends at its end stays pending until that AP enables its      *)
(* interrupts, after the spawn.  Only an AP without a timer that came up   *)
(* after the bring-up gave up on it is not covered.                        *)
(***************************************************************************)
WorkerRuns ==
  \A c \in Slots : worker[c] = "ready" ~>
                     worker[c] = "ran" \/ (lapic[c] \in gaveUp /\ armed[c] = 0) \/ Shutdown

(***************************************************************************)
(* The correction calibrate_task publishes reaches every CPU whose timer   *)
(* runs, also the APs that arm theirs while it is being measured.          *)
(***************************************************************************)
TimerFollows ==
  <>[](Shutdown \/ \A c \in Slots :
         TIMER_INTERVAL # 0 /\ armed[c] # 0 => armed[c] = TIMER_INTERVAL)

(***************************************************************************)
(* Once the timer preempts, the bring-up task comes to its end whatever    *)
(* the APs do and whether or not the boot context ever publishes the       *)
(* interval: its waits are bounded and the PIT ticks they count keep       *)
(* coming, each acknowledged at the controller that delivered it.  Only    *)
(* the AP that takes the boot CPU's block ends it otherwise, by a reset.   *)
(***************************************************************************)
BringUpEnds == armed[0] # 0 ~> bring.pc = "exit" \/ Shutdown
=============================================================================
