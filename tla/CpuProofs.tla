----------------------------- MODULE CpuProofs -----------------------------
(***************************************************************************)
(* Proofs about the CPUs: how they are brought up, and how they share the  *)
(* tasks, for every machine and any number of CPUs and tasks.              *)
(*                                                                         *)
(* Bring-up.  No two APs share a per-CPU block, only an AP with LAPIC id 0 *)
(* takes the boot CPU's, and no other AP that start_aps waited for runs on *)
(* another's stack.  OwnContext is not inductive.  The invariant adds      *)
(* which MADT entry each block belongs to, and that the page is never      *)
(* behind the blocks (Placed), and that an AP which still has to load its  *)
(* stack out of the shared page is either the one being waited for or one  *)
(* that was given up (Started): an AP is waited for until its flag is up,  *)
(* and it raises the flag only after it has left the page.                 *)
(*                                                                         *)
(* Scheduling.  The argument rests on one structural invariant, Owned:     *)
(* whatever a CPU has in its current, pending_prev or register slots is a  *)
(* task of the table whose owner_cpu is that CPU.  owner_cpu never         *)
(* changes, so two CPUs can never hold the same context.                   *)
(***************************************************************************)
EXTENDS Smp, Scheduler, TLAPS

-----------------------------------------------------------------------------
(* Bring-up *)

Fresh == {"start", "memory", "spawn"}
Running == {"timer", "online", "spawn", "enable", "idle"}
Busy == bring.pc \in {"assert", "deassert", "sipi", "await"}

BringAt == {"none", "settle", "asleep", "prepare", "start", "next", "assert", "deassert",
            "sipi", "await", "kick", "finish", "exit"}
ApAts == {"off", "reset", "trampoline", "entry", "halted", "timer", "online", "spawn",
          "enable", "idle"}
Bring == [pc : BringAt, tries : Int, k : Nat \ {0}, cpu : Nat \ {0}, started : Int]
Ap == [pc : ApAts, cpu : Nat, stack : Nat]

Shape ==
  /\ hw \in Boards
  /\ bring \in Bring
  /\ lapic \in [Slots -> Nat] /\ online \in [Slots -> BOOLEAN] /\ page \in Slots
  /\ ap \in [APs -> Ap]
  /\ boot \in Fresh => bring.pc = "none"

\* Slots are filled in the order of the MADT, each with an id no other slot has; an AP with
\* id 0 leaves its slot as empty as it was.
Placed ==
  /\ lapic[0] = 0
  /\ \A c \in Slots : c > bring.cpu \/ (c = bring.cpu /\ ~Busy) => lapic[c] = 0
  /\ \A c \in Slots : lapic[c] # 0 =>
       \E j \in DOMAIN hw.madt : lapic[c] = hw.madt[j] /\ (j < bring.k \/ (j = bring.k /\ Busy))
  /\ \A c, d \in Slots : lapic[c] = lapic[d] /\ lapic[c] # 0 => c = d
  /\ Busy => /\ bring.cpu \in Slots /\ bring.k \in DOMAIN hw.madt
             /\ lapic[bring.cpu] = hw.madt[bring.k] /\ hw.madt[bring.k] # hw.bsp
             /\ page = bring.cpu
  /\ \A c \in Slots : lapic[c] # 0 => c <= page

\* The block c carries a's id, and stack s is a's, or that of an AP behind it.
BlockOk(a, c) == c \in Slots /\ lapic[c] = a /\ (a = 0 => c = 0)
StackOk(a, s) ==
  a # 0 => /\ \A c \in Slots : lapic[c] = a => c <= s
           /\ a \notin gaveUp => s \in Slots /\ lapic[s] = a

\* Where an AP may be between the SIPI and the idle loop.
Started ==
  /\ \A a \in APs :
       /\ a \in Identified => BlockOk(a, ap[a].cpu)
       /\ ap[a].pc = "entry" \/ a \in Identified => StackOk(a, ap[a].stack)
       /\ a \notin gaveUp /\ ap[a].pc = "trampoline" => Busy /\ a = hw.madt[bring.k]
  /\ Busy /\ online[bring.cpu] => ap[hw.madt[bring.k]].pc \in {"spawn", "enable", "idle"}

SmpInv == Shape /\ Placed /\ Started

\* The MADT of every machine is a sequence of distinct ids.
LEMMA Madt ==
  ASSUME hw \in Boards
  PROVE  /\ DOMAIN hw.madt = 1..Len(hw.madt) /\ Len(hw.madt) \in Nat
         /\ \A k \in DOMAIN hw.madt : hw.madt[k] \in Nat
         /\ \A j, k \in DOMAIN hw.madt : hw.madt[j] = hw.madt[k] => j = k
         /\ \A k \in DOMAIN hw.madt : hw.madt[k] # hw.bsp => hw.madt[k] \in APs
         /\ \A a \in APs : a \in Nat
  BY BoardAssumption DEF APs, LapicIds

\* A machine that is switched on has no AP running.
LEMMA SmpInvInit == SmpInit => SmpInv
<1> SUFFICES ASSUME SmpInit PROVE SmpInv
  BY Zenon
<1>1. Shape
  <2>1. bring \in Bring
    <3>1. bring = [pc |-> "none", tries |-> SettleTries, k |-> 1, cpu |-> 1, started |-> 0]
      BY Zenon DEF SmpInit
    <3> QED
      BY <3>1, SizeAssumption DEF Bring, Ap, BringAt, ApAts
  <2>2. ap \in [APs -> Ap]
    <3>1. ap = [a \in APs |-> [pc |-> "off", cpu |-> MAX_CPUS, stack |-> MAX_CPUS]]
      BY Zenon DEF SmpInit
    <3> QED
      BY <3>1, SizeAssumption, Zenon DEF Bring, Ap, BringAt, ApAts
  <2>3. /\ hw \in Boards /\ lapic \in [Slots -> Nat] /\ online \in [Slots -> BOOLEAN]
        /\ bring.pc = "none" /\ page \in Slots
    BY SizeAssumption DEF SmpInit, Slots
  <2> QED
    BY <2>1, <2>2, <2>3, Zenon DEF Shape, Bring, Ap
<1>2. 0 \in Slots /\ \A c \in Slots : lapic[c] = 0
  BY SizeAssumption DEF SmpInit, Slots
<1> QED
  BY <1>1, <1>2, Zenon DEF SmpInit, SmpInv, Placed, Started, Busy, Identified

\* Steps that leave the blocks, the page, the bring-up and the APs alone.
LEMMA Quiet ==
  ASSUME SmpInv, UNCHANGED <<hw, bring, blocks, ap, gaveUp>>, boot' \in Fresh => boot \in Fresh
  PROVE  SmpInv'
<1>1. /\ APs' = APs /\ Identified' = Identified /\ Busy' = Busy
  BY Zenon DEF APs, LapicIds, Identified, Busy
<1> QED
  BY <1>1 DEF SmpInv, Shape, Bring, Ap, Placed, Started, BlockOk, StackOk, blocks

\* Steps of the bring-up task between two APs, or between two messages to one AP.
LEMMA Between ==
  ASSUME SmpInv, bring' \in Bring, UNCHANGED <<bring.k, bring.cpu>>, Busy' = Busy,
         boot' \notin Fresh, UNCHANGED <<hw, blocks, ap, gaveUp>>
  PROVE  SmpInv'
<1>1. APs' = APs /\ Identified' = Identified
  BY Zenon DEF APs, LapicIds, Identified
<1> QED
  BY <1>1 DEF SmpInv, Shape, Placed, Started, BlockOk, StackOk, blocks

\* The next MADT entry gets the first empty slot, and the page its stack.
LEMMA NextEntry ==
  ASSUME SmpInv, NextAp, boot \notin Fresh
  PROVE  SmpInv'
<1> USE DEF SmpInv
<1>1. APs' = APs /\ UNCHANGED <<hw, gaveUp, boot>> /\ ~Busy
  BY Zenon DEF NextAp, APs, LapicIds, Busy
<1>2. CASE bring.k > Len(hw.madt) \/ (hw.madt[bring.k] # hw.bsp /\ bring.cpu >= MAX_CPUS)
  <2>1. bring' = [bring EXCEPT !.pc = "kick"] /\ UNCHANGED <<blocks, ap>>
    BY <1>2, Zenon DEF NextAp
  <2>2. bring' \in Bring /\ UNCHANGED <<bring.k, bring.cpu>> /\ ~Busy'
    BY <2>1, Zenon DEF Busy, Shape, Bring, BringAt
  <2>3. Busy' = Busy
    BY <1>1, <2>2 DEF Busy
  <2> QED
    BY <1>1, <2>1, <2>2, <2>3, Between, Zenon
<1>3. CASE bring.k <= Len(hw.madt) /\ hw.madt[bring.k] = hw.bsp
  <2>1. bring' = [bring EXCEPT !.k = @ + 1] /\ UNCHANGED <<lapic, online, page, ap>>
    <3>1. bring.k \in Nat /\ Len(hw.madt) \in Nat
      BY Madt, Zenon DEF Shape, Bring
    <3>2. ~(bring.k > Len(hw.madt))
      BY <1>3, <3>1
    <3> HIDE DEF SmpInv
    <3> QED
      BY <1>3, <3>2, Zenon DEF NextAp, blocks
  <2>2. /\ bring' \in Bring
        /\ bring'.k = bring.k + 1 /\ bring'.cpu = bring.cpu /\ bring'.pc = bring.pc
    BY <2>1 DEF Shape, Bring, Ap, BringAt, ApAts
  <2>3. Identified' = Identified /\ ~Busy'
    BY <1>1, <2>1, <2>2, Zenon DEF Identified, Busy
  <2>4. Shape'
    BY <1>1, <2>1, <2>2, Zenon DEF Shape, Bring, Ap
  <2>5. Placed'
    <3>1. \A c \in Slots : lapic[c] # 0 =>
            \E j \in DOMAIN hw.madt : lapic[c] = hw.madt[j] /\ j < bring.k + 1
      <4> SUFFICES ASSUME NEW c \in Slots, lapic[c] # 0
                   PROVE  \E j \in DOMAIN hw.madt : lapic[c] = hw.madt[j] /\ j < bring.k + 1
        BY Zenon
      <4>1. PICK j \in DOMAIN hw.madt : lapic[c] = hw.madt[j] /\ j < bring.k
        BY <1>1, Zenon DEF Placed
      <4>2. j \in Nat /\ bring.k \in Nat
        BY Madt DEF Shape, Bring
      <4> QED
        BY <4>1, <4>2
    <3> QED
      BY <1>1, <2>1, <2>2, <2>3, <3>1, Zenon DEF Placed
  <2>6. Started'
    BY <1>1, <2>1, <2>2, <2>3, Zenon DEF Started, BlockOk, StackOk
  <2> QED
    BY <2>4, <2>5, <2>6, Zenon
<1>4. CASE bring.k <= Len(hw.madt) /\ hw.madt[bring.k] # hw.bsp /\ bring.cpu < MAX_CPUS
  <2> DEFINE id == hw.madt[bring.k]
  <2>1. /\ lapic' = [lapic EXCEPT ![bring.cpu] = id]
        /\ online' = [online EXCEPT ![bring.cpu] = FALSE]
        /\ page' = bring.cpu
        /\ ap' = [ap EXCEPT ![id].pc = "reset"]
        /\ bring' = [bring EXCEPT !.pc = "assert"]
    <3>1. bring.k \in Nat /\ Len(hw.madt) \in Nat /\ bring.cpu \in Nat
      BY Madt, Zenon DEF Shape, Bring
    <3>2. ~(bring.k > Len(hw.madt)) /\ ~(bring.cpu >= MAX_CPUS)
      BY <1>4, <3>1, SizeAssumption
    <3> HIDE DEF SmpInv
    <3> QED
      BY <1>4, <3>2, Zenon DEF NextAp, build_page
  <2>2. /\ bring' \in Bring
        /\ bring'.k = bring.k /\ bring'.cpu = bring.cpu /\ bring'.pc = "assert"
    BY <2>1, Zenon DEF Shape, Bring, Ap, BringAt, ApAts
  <2>3. Busy' /\ bring.cpu \in Slots /\ bring.k \in DOMAIN hw.madt /\ id \in APs /\ id \in Nat
    <3>1. bring.k \in Nat \ {0} /\ bring.cpu \in Nat \ {0} /\ hw \in Boards
      BY Zenon DEF Shape, Bring
    <3>2. bring.cpu \in Slots
      BY <1>4, <3>1, SizeAssumption DEF Slots
    <3>3. bring.k \in DOMAIN hw.madt
      BY <1>4, <3>1, Madt
    <3>4. id \in APs /\ id \in Nat
      BY <1>4, <3>1, <3>3, Madt, Zenon
    <3>5. Busy'
      BY <2>2, Zenon DEF Busy
    <3> QED
      BY <3>2, <3>3, <3>4, <3>5, Zenon
  <2>4. Shape'
    <3>1. ap' \in [APs -> Ap]
      BY <2>1, <2>3 DEF Shape, Ap, ApAts
    <3> QED
      BY <1>1, <2>1, <2>2, <2>3, <3>1, Zenon DEF Shape
  <2>5. \A c \in Slots : lapic[c] # 0 => lapic[c] # id
    <3> SUFFICES ASSUME NEW c \in Slots, lapic[c] # 0, lapic[c] = id PROVE FALSE
      BY Zenon
    <3>1. PICK j \in DOMAIN hw.madt : id = hw.madt[j] /\ j < bring.k
      BY <1>1, <2>3, Zenon DEF Placed
    <3>2. j = bring.k
      BY <2>3, <3>1, Madt, Zenon DEF Shape
    <3> QED
      BY <3>1, <3>2 DEF Shape, Bring
  <2>6. Placed'
    <3>1. lapic'[bring.cpu] = id /\ \A c \in Slots \ {bring.cpu} : lapic'[c] = lapic[c]
      BY <2>1, <2>3, Zenon DEF Shape, Bring, Ap
    <3>2. lapic'[0] = 0
      BY <2>3, <3>1, SizeAssumption DEF Placed, Slots, Shape, Bring, Ap
    <3>3. \A c \in Slots : c > bring.cpu => lapic'[c] = 0
      BY <2>3, <3>1 DEF Placed, Slots, Shape, Bring, Ap
    <3>4. \A c \in Slots : lapic'[c] # 0 =>
            \E j \in DOMAIN hw.madt : lapic'[c] = hw.madt[j] /\ (j < bring.k \/ j = bring.k)
      BY <1>1, <2>3, <3>1, Zenon DEF Placed
    <3>5. \A c, d \in Slots : lapic'[c] = lapic'[d] /\ lapic'[c] # 0 => c = d
      BY <2>5, <3>1 DEF Placed
    <3>6. \A c \in Slots : lapic'[c] # 0 => c <= bring.cpu
      BY <2>3, <3>3 DEF Slots
    <3> QED
      BY <1>1, <1>4, <2>1, <2>2, <2>3, <3>1, <3>2, <3>3, <3>4, <3>5, <3>6 DEF Placed
  <2>7. Started'
    <3>1. /\ ap'[id].pc = "reset"
          /\ \A a \in APs \ {id} : ap'[a] = ap[a]
      BY <2>1, <2>3, Zenon DEF Shape, Bring, Ap
    <3>2. \A c \in Slots : lapic[c] # 0 => lapic'[c] = lapic[c]
      BY <1>1, <2>1, <2>3, Zenon DEF Placed, Shape, Bring, Ap
    <3>3. ~online'[bring.cpu]
      BY <2>1, <2>3, Zenon DEF Shape, Bring, Ap
    <3>4. /\ \A c \in Slots : c # bring.cpu => lapic'[c] = lapic[c]
          /\ lapic[bring.cpu] = 0 /\ lapic'[bring.cpu] = id /\ bring.cpu # 0
      BY <1>1, <2>1, <2>3, Zenon DEF Placed, Shape, Bring, Ap
    <3>5. id \notin Identified' /\ \A a \in APs \ {id} : a \in Identified' <=> a \in Identified
      BY <1>1, <3>1, Zenon DEF Identified
    <3>6. ASSUME NEW a \in APs
          PROVE  /\ a \in Identified' => BlockOk(a, ap[a].cpu)'
                 /\ ap'[a].pc = "entry" \/ a \in Identified' => StackOk(a, ap[a].stack)'
                 /\ a \in gaveUp \/ ap'[a].pc # "trampoline"
      BY <1>1, <3>1, <3>2, <3>4, <3>5 DEF Started, BlockOk, StackOk
    <3> QED
      BY <1>1, <2>2, <3>3, <3>6, Zenon DEF Started
  <2> QED
    BY <2>4, <2>6, <2>7, Zenon
<1>5. bring.k \in Nat /\ bring.cpu \in Nat /\ Len(hw.madt) \in Nat /\ MAX_CPUS \in Nat
  BY Madt, SizeAssumption, Zenon DEF Shape, Bring
<1> QED
  BY <1>2, <1>3, <1>4, <1>5

\* A SIPI sends the AP that is being started to the page, or does nothing.
LEMMA Sipis ==
  ASSUME SmpInv, FirstSipi \/ SecondSipi, boot \notin Fresh
  PROVE  SmpInv'
<1> USE DEF SmpInv
<1> DEFINE id == hw.madt[bring.k]
<1>1. APs' = APs /\ UNCHANGED <<hw, gaveUp, boot, lapic, online, page>> /\ Busy
  <2>1. CASE FirstSipi
    BY <2>1, Zenon DEF FirstSipi, APs, LapicIds, Busy, blocks
  <2>2. CASE SecondSipi
    BY <2>2, Zenon DEF SecondSipi, APs, LapicIds, Busy, blocks
  <2> QED
    BY <2>1, <2>2, Zenon
<1>2. \/ bring' = [bring EXCEPT !.pc = "sipi"]
      \/ bring' = [bring EXCEPT !.pc = "await", !.tries = OnlineTries]
  BY Zenon DEF FirstSipi, SecondSipi
<1>3. bring' \in Bring /\ bring'.k = bring.k /\ bring'.cpu = bring.cpu /\ Busy'
  <2>1. bring \in Bring /\ OnlineTries \in Int
    BY SizeAssumption DEF Shape
  <2> QED
    BY <1>2, <2>1, ZenonT(40) DEF Bring, BringAt, Busy
<1>4. ap' = ap \/ (ap[id].pc = "reset" /\ ap' = [ap EXCEPT ![id].pc = "trampoline"])
  BY Zenon DEF FirstSipi, SecondSipi, Sipi
<1>5. CASE ap' = ap
  BY <1>1, <1>3, <1>5, Between, Zenon DEF blocks
<1>6. CASE ap[id].pc = "reset" /\ ap' = [ap EXCEPT ![id].pc = "trampoline"]
  <2>1. id \in APs
    BY <1>1, Madt, Zenon DEF Placed, Shape, Bring, Ap
  <2>2. /\ ap' \in [APs -> Ap]
        /\ ap'[id].pc = "trampoline" /\ \A a \in APs \ {id} : ap'[a] = ap[a]
    BY <1>6, <2>1 DEF Shape, Bring, Ap, BringAt, ApAts
  <2>3. id \notin Identified' /\ \A a \in APs \ {id} : a \in Identified' <=> a \in Identified
    BY <1>1, <2>2, Zenon DEF Identified
  <2>4. ~online[bring.cpu]
    BY <1>1, <1>6, Zenon DEF Started
  <2>5. Started'
    BY <1>1, <1>3, <2>2, <2>3, <2>4 DEF Started, BlockOk, StackOk
  <2>6. Shape'
    BY <1>1, <1>3, <2>2, Zenon DEF Shape, Bring, Ap
  <2>7. Placed'
    BY <1>1, <1>3, Zenon DEF Placed
  <2> QED
    BY <2>5, <2>6, <2>7, Zenon
<1> QED
  BY <1>4, <1>5, <1>6, Zenon

\* The wait ends with the AP's flag up, and then the AP has left the page, or by giving it up.
LEMMA Awaits ==
  ASSUME SmpInv, Await, boot \notin Fresh
  PROVE  SmpInv'
<1> USE DEF SmpInv
<1>1. /\ APs' = APs /\ Identified' = Identified /\ Busy
      /\ UNCHANGED <<hw, boot, lapic, online, page, ap>>
  BY Zenon DEF Await, APs, LapicIds, Identified, Busy, blocks, aps
<1>2. CASE bring' = [bring EXCEPT !.tries = @ - 1] /\ gaveUp' = gaveUp
  <2>1. bring \in Bring /\ bring.tries - 1 \in Int
    BY DEF Shape, Bring
  <2>2. bring' \in Bring /\ UNCHANGED <<bring.k, bring.cpu, bring.pc>>
    BY <1>2, <2>1, Zenon DEF Bring
  <2> QED
    BY <1>1, <1>2, <2>2, Between, Zenon DEF blocks, Busy
<1>3. ASSUME NEW gain \in Int, bring' = Advance(gain),
             \/ online[bring.cpu] /\ gaveUp' = gaveUp
             \/ gaveUp' = gaveUp \cup {hw.madt[bring.k]}
      PROVE  SmpInv'
  <2>1. /\ bring' \in Bring /\ bring'.pc = "next"
        /\ bring'.k = bring.k + 1 /\ bring'.cpu = bring.cpu + 1
    <3>1. /\ bring \in Bring /\ bring.started + gain \in Int
          /\ bring.k + 1 \in Nat \ {0} /\ bring.cpu + 1 \in Nat \ {0}
      BY DEF Shape, Bring
    <3> QED
      BY <1>3, <3>1, ZenonT(40) DEF Advance, Bring, BringAt
  <2>2. ~Busy'
    BY <2>1, Zenon DEF Busy
  <2>3. Shape'
    BY <1>1, <2>1, Zenon DEF Shape
  <2>4. Placed'
    <3>1. \A c \in Slots : c > bring.cpu + 1 \/ c = bring.cpu + 1 => lapic[c] = 0
      BY DEF Placed, Slots, Shape, Bring
    <3>2. \A c \in Slots : lapic[c] # 0 =>
            \E j \in DOMAIN hw.madt : lapic[c] = hw.madt[j] /\ j < bring.k + 1
      <4> SUFFICES ASSUME NEW c \in Slots, lapic[c] # 0
                   PROVE  \E j \in DOMAIN hw.madt : lapic[c] = hw.madt[j] /\ j < bring.k + 1
        BY Zenon
      <4>1. PICK j \in DOMAIN hw.madt : lapic[c] = hw.madt[j] /\ (j < bring.k \/ j = bring.k)
        BY Zenon DEF Placed
      <4>2. j \in Nat
        BY Madt DEF Shape
      <4> QED
        BY <4>1, <4>2 DEF Shape, Bring
    <3> QED
      BY <1>1, <2>1, <2>2, <3>1, <3>2 DEF Placed
  <2>5. Started'
    BY <1>1, <1>3, <2>2, Zenon DEF Started, BlockOk, StackOk
  <2> QED
    BY <2>3, <2>4, <2>5, Zenon
<1> QED
  BY <1>2, <1>3 DEF Await

\* One AP moves: what its new record and the flags have to satisfy.
LEMMA OneAp ==
  ASSUME SmpInv, NEW a \in APs, NEW r \in Ap, ap' = [ap EXCEPT ![a] = r],
         UNCHANGED <<hw, lapic, page, bring, gaveUp>>, boot' \in Fresh => boot \in Fresh,
         r.pc # "trampoline",
         r.pc \in Running => BlockOk(a, r.cpu),
         r.pc = "entry" \/ r.pc \in Running => StackOk(a, r.stack),
         online' \in [Slots -> BOOLEAN],
         Busy /\ online'[bring.cpu] =>
           IF a = hw.madt[bring.k] THEN r.pc \in {"spawn", "enable", "idle"}
                                   ELSE online[bring.cpu]
  PROVE  SmpInv'
<1> USE DEF SmpInv
<1>1. APs' = APs /\ Busy' = Busy
  BY Zenon DEF APs, LapicIds, Busy
<1>2. ap' \in [APs -> Ap] /\ ap'[a] = r /\ \A b \in APs \ {a} : ap'[b] = ap[b]
  BY Zenon DEF Shape
<1>3. Shape'
  BY <1>1, <1>2, Zenon DEF Shape
<1>4. Placed'
  BY <1>1 DEF Placed
<1>5. \A b \in APs : b \in Identified' <=> IF b = a THEN r.pc \in Running ELSE b \in Identified
  BY <1>1, <1>2, Zenon DEF Identified, Running
<1>6. Busy => hw.madt[bring.k] \in APs
  BY Madt, Zenon DEF Placed, Shape
<1>7. Started'
  BY <1>1, <1>2, <1>5, <1>6 DEF Started, BlockOk, StackOk
<1> QED
  BY <1>3, <1>4, <1>7, Zenon

\* An AP takes the stack of the page while it is the one being started, and then the
\* block that carries its id.
LEMMA ApSteps ==
  ASSUME SmpInv, NEW a \in APs, ap_entry(a)
  PROVE  SmpInv'
<1> USE DEF SmpInv
<1>0. /\ ap \in [APs -> Ap] /\ ap[a] \in Ap /\ online \in [Slots -> BOOLEAN]
      /\ bring.cpu \in Nat \ {0} /\ (Busy => bring.cpu \in Slots)
  BY Zenon DEF Shape, Bring, Placed
<1>1. CASE Trampoline(a)
  <2> DEFINE r == [ap[a] EXCEPT !.pc = "entry", !.stack = page]
  <2>1. /\ ap[a].pc = "trampoline" /\ UNCHANGED <<hw, boot, lapic, online, page, bring, gaveUp>>
        /\ ap' = [ap EXCEPT ![a] = r]
    BY <1>0, <1>1, ZenonT(40) DEF Trampoline, blocks
  <2>2. StackOk(a, page)
    BY <2>1, Zenon DEF Started, Placed, StackOk, Shape
  <2>3. page \in Nat
    BY DEF Shape, Slots
  <2>4. r \in Ap /\ r.pc = "entry" /\ r.stack = page
    BY <1>0, <2>3, Zenon DEF Ap, ApAts
  <2>5. Busy /\ online[bring.cpu] => a # hw.madt[bring.k]
    BY <2>1, Zenon DEF Started
  <2>6. r.pc # "trampoline" /\ r.pc \notin Running /\ StackOk(a, r.stack)
    BY <2>2, <2>4, Zenon DEF Running
  <2>7. online' = online /\ online' \in [Slots -> BOOLEAN]
    BY <1>0, <2>1, Zenon
  <2> HIDE DEF r, SmpInv
  <2> QED
    BY <2>1, <2>4, <2>5, <2>6, <2>7, OneAp, Zenon
<1>2. CASE Identify(a)
  <2> DEFINE own == {c \in Slots : lapic[c] = a}
             halt == [ap[a] EXCEPT !.pc = "halted"]
             first == Min(own)
             r == [ap[a] EXCEPT !.pc = "timer", !.cpu = first]
  <2>1. /\ ap[a].pc = "entry" /\ UNCHANGED <<hw, lapic, online, page, bring, gaveUp>>
        /\ boot' \in Fresh => boot \in Fresh
        /\ ap' = IF own = {} THEN [ap EXCEPT ![a] = halt] ELSE [ap EXCEPT ![a] = r]
    BY <1>0, <1>2, ZenonT(40) DEF Identify, blocks, Fresh
  <2>2. Busy /\ online[bring.cpu] => a # hw.madt[bring.k]
    BY <2>1, Zenon DEF Started
  <2>3. CASE own = {}
    <3>1. halt \in Ap /\ halt.pc = "halted"
      BY <1>0, Zenon DEF Ap, ApAts
    <3>2. ap' = [ap EXCEPT ![a] = halt]
      BY <2>1, <2>3, Zenon
    <3>3. halt.pc # "trampoline" /\ halt.pc # "entry" /\ halt.pc \notin Running
      BY <3>1, Zenon DEF Running
    <3>4. online' = online /\ online' \in [Slots -> BOOLEAN]
      BY <1>0, <2>1, Zenon
    <3> HIDE DEF halt, SmpInv
    <3> QED
      BY <2>1, <2>2, <3>1, <3>2, <3>3, <3>4, OneAp, Zenon
  <2>4. CASE own # {}
    <3>1. PICK c \in own : a = 0 => c = 0
      <4>1. a = 0 => 0 \in own
        BY SizeAssumption DEF Placed, Slots
      <4> QED
        BY <2>4, <4>1, Zenon
    <3>2. \A d \in own : c <= d
      <4>1. a # 0 => \A d \in own : d = c
        BY <3>1, Zenon DEF Placed
      <4>2. \A d \in Slots : d <= d /\ 0 <= d
        BY DEF Slots
      <4> QED
        BY <3>1, <4>1, <4>2, Zenon
    <3>3. first \in own /\ first <= c
      <4>1. first = CHOOSE x \in own : \A y \in own : x <= y
        BY Zenon DEF Min
      <4> HIDE DEF own, first
      <4> QED
        BY <3>1, <3>2, <4>1, Zenon
    <3>4. BlockOk(a, first) /\ first \in Nat
      <4>1. first \in Slots /\ lapic[first] = a
        BY <3>3, Zenon
      <4> HIDE DEF first
      <4> QED
        BY <3>1, <3>3, <4>1 DEF BlockOk, Slots
    <3>5. r \in Ap /\ r.pc = "timer" /\ r.cpu = first /\ r.stack = ap[a].stack
      <4> HIDE DEF first
      <4> QED
        BY <1>0, <3>4, ZenonT(40) DEF Ap, ApAts
    <3>6. ap' = [ap EXCEPT ![a] = r]
      BY <2>1, <2>4, Zenon
    <3>7. r.pc # "trampoline" /\ BlockOk(a, r.cpu) /\ StackOk(a, r.stack)
      <4>1. StackOk(a, ap[a].stack)
        BY <2>1, Zenon DEF Started
      <4> HIDE DEF r, first
      <4> QED
        BY <3>4, <3>5, <4>1, Zenon
    <3>8. online' = online /\ online' \in [Slots -> BOOLEAN]
      BY <1>0, <2>1, Zenon
    <3> HIDE DEF r, SmpInv
    <3> QED
      BY <2>1, <2>2, <3>5, <3>6, <3>7, <3>8, OneAp, ZenonT(40)
  <2> QED
    BY <2>3, <2>4, Zenon
<1>3. CASE init_ap(a) \/ RaiseOnline(a) \/ SpawnWorker(a) \/ IdleLoop(a)
  <2>1. PICK p \in {"online", "spawn", "enable", "idle"} :
          /\ a \in Identified
          /\ ap' = [ap EXCEPT ![a].pc = p]
          /\ UNCHANGED <<hw, boot, lapic, page, bring, gaveUp>>
          /\ \/ online' = online /\ (p = "online" => ap[a].pc = "timer")
             \/ online' = [online EXCEPT ![ap[a].cpu] = TRUE] /\ p = "spawn"
    BY <1>3, Zenon DEF init_ap, RaiseOnline, SpawnWorker, IdleLoop, ApAt, Identified, blocks
  <2> DEFINE r == [ap[a] EXCEPT !.pc = p]
  <2>2. /\ r \in Ap /\ r.pc = p /\ r.cpu = ap[a].cpu /\ r.stack = ap[a].stack
        /\ ap' = [ap EXCEPT ![a] = r]
    BY <1>0, <2>1, Zenon DEF Ap, ApAts
  <2>3. BlockOk(a, ap[a].cpu) /\ StackOk(a, ap[a].stack)
    BY <2>1, Zenon DEF Started
  <2>4. online' \in [Slots -> BOOLEAN]
    BY <1>0, <2>1, <2>3, Zenon DEF BlockOk
  <2>5. Busy /\ online'[bring.cpu] =>
          IF a = hw.madt[bring.k] THEN p \in {"spawn", "enable", "idle"} ELSE online[bring.cpu]
    <3>1. CASE online' = online /\ (p = "online" => ap[a].pc = "timer")
      BY <2>1, <3>1, Zenon DEF Started
    <3>2. CASE online' = [online EXCEPT ![ap[a].cpu] = TRUE] /\ p = "spawn"
      BY <1>0, <2>3, <3>2, Zenon DEF Placed, BlockOk
    <3> QED
      BY <2>1, <3>1, <3>2, Zenon
  <2>6. r.pc \in Running /\ r.pc # "trampoline"
    BY <2>1, <2>2, Zenon DEF Running
  <2>7. BlockOk(a, r.cpu) /\ StackOk(a, r.stack)
    BY <2>2, <2>3, Zenon
  <2>8. Busy /\ online'[bring.cpu] =>
          IF a = hw.madt[bring.k] THEN r.pc \in {"spawn", "enable", "idle"} ELSE online[bring.cpu]
    BY <2>2, <2>5, Zenon
  <2>9. UNCHANGED <<hw, boot, lapic, page, bring, gaveUp>>
    BY <2>1, Zenon
  <2> HIDE DEF r, SmpInv
  <2> QED
    BY <2>2, <2>4, <2>6, <2>7, <2>8, <2>9, OneAp, Zenon
<1> QED
  BY <1>1, <1>2, <1>3, Zenon DEF ap_entry

\* Every AP has a block of its own, only an AP with LAPIC id 0 the boot CPU's, and every other AP
\* runs on the stack of its block or, when start_aps gave it up, of a later one: start_aps,
\* build_page and ap_entry of smp.rs, on every machine.
THEOREM ApsApart == SmpSpec => []OwnContext
<1>1. ASSUME SmpInv, [SmpNext]_smpVars
      PROVE  SmpInv'
  <2>1. CASE \/ UNCHANGED smpVars \/ set_low_page \/ EnableInterrupts \/ ApicSwitch \/ Calibrate
             \/ ArmTimer \/ PublishInterval \/ SpawnCalibrate \/ timer_handler \/ BspTimer
             \/ calibrate_task
             \/ \E a \in APs : apic_timer_handler(a) \/ resched_ipi_handler(a)
    <3>1. UNCHANGED <<hw, bring, blocks, ap, gaveUp>>
      BY <2>1, Zenon DEF smpVars, set_low_page, EnableInterrupts, ApicSwitch, Calibrate, ArmTimer,
           PublishInterval, SpawnCalibrate, timer_handler, BspTimer, calibrate_task, MeasureAgain,
           Correct, apic_timer_handler, resched_ipi_handler, aps, blocks
    <3>2. boot' \in Fresh => boot \in Fresh
      BY <2>1, Zenon DEF smpVars, set_low_page, EnableInterrupts, ApicSwitch, Calibrate, ArmTimer,
           PublishInterval, SpawnCalibrate, timer_handler, BspTimer, calibrate_task, MeasureAgain,
           Correct, apic_timer_handler, resched_ipi_handler, Fresh
    <3> QED
      BY <1>1, <3>1, <3>2, Quiet, Zenon
  <2>2. CASE init_bsp
    <3>1. /\ bring.pc = "none" /\ bring.cpu \in Nat \ {0} /\ online' \in [Slots -> BOOLEAN]
          /\ UNCHANGED <<hw, lapic, page, bring, ap, gaveUp>>
      BY <1>1, <2>2, ZenonT(40) DEF init_bsp, aps, SmpInv, Shape, Bring, Fresh
    <3>2. APs' = APs /\ Identified' = Identified /\ ~Busy /\ ~Busy'
      BY <3>1, Zenon DEF APs, LapicIds, Identified, Busy
    <3> QED
      BY <1>1, <3>1, <3>2, Zenon DEF SmpInv, Shape, Placed, Started, BlockOk, StackOk
  <2>3. CASE spawn_bringup_task \/ Settle \/ WakeUp \/ prepare \/ start_aps \/ Deassert \/ Kick
             \/ Finish
    <3>1. boot' \notin Fresh /\ UNCHANGED <<hw, blocks, ap, gaveUp>>
      BY <1>1, <2>3, Zenon DEF SmpInv, Shape, spawn_bringup_task, Settle, WakeUp, prepare, start_aps,
           Deassert, Kick, Finish, Fresh, aps
    <3>2. bring' \in Bring /\ UNCHANGED <<bring.k, bring.cpu>> /\ Busy' = Busy
      <4>1. bring \in Bring /\ bring.tries - 1 \in Int
        BY <1>1 DEF SmpInv, Shape, Bring
      <4>2. CASE spawn_bringup_task
        <5>1. bring.pc = "none" /\ bring' = [bring EXCEPT !.pc = "settle"]
          BY <1>1, <4>2, Zenon DEF spawn_bringup_task, SmpInv, Shape, Fresh
        <5> QED
          BY <4>1, <5>1 DEF Bring, BringAt, Busy
      <4>3. CASE Settle
        <5>1. /\ bring.pc = "settle"
              /\ \/ bring' = [bring EXCEPT !.pc = "prepare"]
                 \/ bring' = [bring EXCEPT !.pc = "asleep", !.tries = bring.tries - 1]
          BY <4>3, Zenon DEF Settle
        <5>2. CASE bring' = [bring EXCEPT !.pc = "prepare"]
          BY <4>1, <5>1, <5>2 DEF Bring, BringAt, Busy
        <5>3. CASE bring' = [bring EXCEPT !.pc = "asleep", !.tries = bring.tries - 1]
          <6>1. bring' \in Bring /\ UNCHANGED <<bring.k, bring.cpu>>
            BY <4>1, <5>3, ZenonT(40) DEF Bring, BringAt
          <6>2. bring'.pc = "asleep"
            BY <4>1, <5>3, Zenon DEF Bring
          <6> QED
            BY <5>1, <6>1, <6>2 DEF Busy
        <5> QED
          BY <5>1, <5>2, <5>3, Zenon
      <4>4. CASE WakeUp \/ prepare \/ start_aps
        BY <4>1, <4>4 DEF WakeUp, prepare, start_aps, Bring, BringAt, Busy
      <4>5. CASE Deassert \/ Kick \/ Finish
        BY <4>1, <4>5 DEF Deassert, Kick, Finish, Bring, BringAt, Busy
      <4> QED
        BY <2>3, <4>2, <4>3, <4>4, <4>5, Zenon
    <3> QED
      BY <1>1, <3>1, <3>2, Between, Zenon
  <2>4. CASE NextAp \/ FirstSipi \/ SecondSipi \/ Await
    <3>1. boot \notin Fresh
      BY <1>1, <2>4, ZenonT(40) DEF SmpInv, Shape, NextAp, FirstSipi, SecondSipi, Await
    <3> QED
      BY <1>1, <2>4, <3>1, NextEntry, Sipis, Awaits, Zenon
  <2> QED
    BY <1>1, <2>1, <2>2, <2>3, <2>4, ApSteps, Zenon DEF SmpNext, kernel_main, bringup_task
<1>2. SmpInv => OwnContext
  <2> SUFFICES ASSUME SmpInv, NEW a \in Identified
               PROVE  /\ ap[a].cpu = 0 <=> a = 0
                      /\ a # 0 => ap[a].stack >= ap[a].cpu
                                 /\ (a \notin gaveUp => ap[a].stack = ap[a].cpu)
                      /\ \A b \in Identified \ {a} : ap[a].cpu # ap[b].cpu
    BY Zenon DEF OwnContext
  <2>1. Identified \subseteq APs /\ \A b \in Identified : BlockOk(b, ap[b].cpu)
    BY Zenon DEF Identified, SmpInv, Started
  <2>2. StackOk(a, ap[a].stack) /\ ap[a].stack \in Nat /\ ap[a].cpu \in Nat
    BY <2>1, Zenon DEF SmpInv, Started, Shape, Ap
  <2>3. ap[a].cpu = 0 <=> a = 0
    BY <2>1, Zenon DEF BlockOk, SmpInv, Placed
  <2>4. a # 0 => ap[a].cpu <= ap[a].stack /\ (a \notin gaveUp => ap[a].stack = ap[a].cpu)
    BY <2>1, <2>2 DEF BlockOk, StackOk, SmpInv, Placed
  <2>5. \A b \in Identified \ {a} : ap[a].cpu # ap[b].cpu
    BY <2>1, Zenon DEF BlockOk
  <2> QED
    BY <2>2, <2>3, <2>4, <2>5
<1> QED
  BY SmpInvInit, <1>1, <1>2, PTL DEF SmpSpec
-----------------------------------------------------------------------------
(* Scheduling *)

Mine(c, t) == t = Idle \/ (t \in Ids /\ t <= count /\ owner[t] = c)

Owned ==
  \A c \in CPUs : Mine(c, current[c]) /\ Mine(c, onCpu[c]) /\ Mine(c, pendingPrev[c])

USE DEF Idle

LEMMA IdsFacts == \A t \in Ids : t \in Nat /\ t # 0
BY SchedAssumption DEF Ids

LEMMA TasksInIds == TypeOK => Tasks \subseteq Ids
BY SchedAssumption DEF Ids, Tasks, TypeOK
-----------------------------------------------------------------------------
(* What the pieces of plan_switch compute.                                 *)

\* release_pending_prev and the wake pass keep the table well typed, make
\* nothing Running or Dead, touch no dead task, and leave no task Running in
\* the pending slot unless it is also the current one.
LEMMA WokenFacts ==
  ASSUME TypeOK, NEW c \in CPUs
  PROVE  LET st == Woken(Released(c)) IN
         /\ st \in [Ids -> States]
         /\ \A t \in Ids : st[t] = "Running" => state[t] = "Running"
         /\ \A t \in Ids : st[t] = "Dead" <=> state[t] = "Dead"
         /\ \A t \in Ids : t = pendingPrev[c] /\ owner[t] = c /\ t # current[c]
                             => st[t] # "Running"
<1>1. Released(c) \in [Ids -> States]
  BY Zenon DEF Released, TypeOK, States
<1>2. \A t \in Ids : Released(c)[t] # state[t] =>
         Released(c)[t] = "Ready" /\ state[t] = "Running"
  BY Zenon DEF Released, TypeOK
<1>3. \A t \in Ids : t = pendingPrev[c] /\ owner[t] = c /\ t # current[c]
         => Released(c)[t] # "Running"
  BY IdsFacts, Zenon DEF Released, TypeOK
<1>4. \A t \in Ids : Wakes(t) => state[t] \in {"Sleeping", "Blocked"}
  BY Zenon DEF Wakes
<1> QED BY <1>1, <1>2, <1>3, <1>4, Zenon DEF Woken, States

LEMMA TickedType ==
  ASSUME TypeOK, NEW st, NEW cur \in Ids \cup {Idle}
  PROVE  Ticked(cur, st) \in [Ids -> Nat]
<1>1. slice \in [Ids -> Nat]
  BY Zenon DEF TypeOK
<1>2. CASE cur = Idle
  BY <1>1, <1>2, Zenon DEF Ticked
<1>3. CASE cur \in Ids
  <2>1. slice[cur] \in Nat
    BY <1>1, <1>3, Zenon
  <2>2. slice[cur] > 0 => slice[cur] - 1 \in Nat
    BY <2>1
  <2> QED BY <1>1, <1>3, <2>2, Zenon DEF Ticked
<1> QED BY <1>2, <1>3, Zenon

\* The pick only ever returns a Ready task of the picking CPU, or Idle.
LEMMA BestIsCandidate ==
  ASSUME TypeOK, NEW c \in CPUs, NEW st, NEW best, IsBest(c, st, best)
  PROVE  best = Idle \/ (best \in Ids /\ best <= count /\ owner[best] = c /\ st[best] = "Ready")
BY SchedAssumption DEF IsBest, Candidates, Tasks, TypeOK, Ids

LEMMA FreshSliceType == \A p : FreshSlice(p) \in Nat
BY SchedAssumption, Zenon DEF FreshSlice

\* The two outcomes of a preempt() and what it leaves alone.
LEMMA PreemptCases ==
  ASSUME TypeOK, NEW c \in CPUs, Preempt(c)
  PROVE  \E best : \E sl \in [Ids -> Nat] :
           /\ best = Idle \/ (best \in Ids /\ best <= count /\ owner[best] = c
                                /\ Woken(Released(c))[best] = "Ready")
           /\ \/ Stay(c, Woken(Released(c)), sl)
              \/ SwitchTo(c, best, Woken(Released(c)), sl)
<1> DEFINE st == Woken(Released(c))
           sl == Ticked(current[c], st)
<1>1. PICK best \in Tasks \cup {Idle} :
         /\ IsBest(c, st, best)
         /\ Stay(c, st, sl) \/ SwitchTo(c, best, st, sl)
  BY Zenon DEF Preempt
<1>2. sl \in [Ids -> Nat]
  <2>1. current[c] \in Ids \cup {Idle}
    BY Zenon DEF TypeOK
  <2> QED BY <2>1, TickedType, Zenon
<1>3. best = Idle \/ (best \in Ids /\ best <= count /\ owner[best] = c /\ st[best] = "Ready")
  BY <1>1, BestIsCandidate, Zenon
<1> HIDE DEF st, sl
<1> QED BY <1>1, <1>2, <1>3, Zenon DEF st, sl
-----------------------------------------------------------------------------
(* Type correctness.                                                       *)

LEMMA TypeInit == Init => TypeOK
BY SchedAssumption DEF Init, TypeOK, States, Points, PRIO_NORMAL, Kernel, Nobody, Killed

LEMMA TypePreempt ==
  ASSUME TypeOK, NEW c \in CPUs, Preempt(c)
  PROVE  TypeOK'
<1> DEFINE st == Woken(Released(c))
<1>1. PICK best : \E sl \in [Ids -> Nat] :
        /\ best = Idle \/ (best \in Ids /\ best <= count /\ owner[best] = c
                             /\ st[best] = "Ready")
        /\ Stay(c, st, sl) \/ SwitchTo(c, best, st, sl)
  BY PreemptCases, Zenon
<1>2. st \in [Ids -> States]
  BY WokenFacts, Zenon
<1> HIDE DEF st
<1>3. /\ state' \in [Ids -> States]
      /\ slice' \in [Ids -> Nat]
      /\ current' \in [CPUs -> Ids \cup {Idle}]
      /\ pendingPrev' \in [CPUs -> Ids \cup {Idle}]
  <2>1. PICK sl \in [Ids -> Nat] : Stay(c, st, sl) \/ SwitchTo(c, best, st, sl)
    BY <1>1, Zenon
  <2>2. best \in Ids \cup {Idle}
    BY <1>1, Zenon
  <2>3. state' \in [Ids -> States]
    BY <1>2, <2>1, <2>2, Zenon DEF Stay, SwitchTo, States
  <2>4. slice' \in [Ids -> Nat]
    BY <2>1, <2>2, FreshSliceType DEF Stay, SwitchTo
  <2>5. current' \in [CPUs -> Ids \cup {Idle}]
    BY <2>1, <2>2 DEF Stay, SwitchTo, TypeOK
  <2>6. pendingPrev' \in [CPUs -> Ids \cup {Idle}]
    BY <2>1, Zenon DEF Stay, SwitchTo, TypeOK
  <2> QED BY <2>3, <2>4, <2>5, <2>6, Zenon
<1>4. /\ UNCHANGED <<count, owner, priority, parent, exitCode, onInput, onRaw, onChild,
                      pc, waitFor, onCpu, pending>>
      /\ reaped' \subseteq Ids /\ resched' \subseteq Ids /\ due' \subseteq Ids
  BY TasksInIds, Zenon DEF Preempt, AutoReaped, TypeOK
<1> QED BY <1>3, <1>4, Zenon DEF TypeOK

LEMMA TypeSpawn ==
  ASSUME TypeOK, NEW c \in CPUs, NEW t \in Ids \cup {Idle}, NEW kind \in Births,
         NEW own \in CPUs, NEW prio \in SpawnPrios, Spawn(c, t, kind, own, prio)
  PROVE  TypeOK'
<1>1. ParentOf(kind, t) \in 0..Nobody
  BY SchedAssumption DEF ParentOf, Kernel, Nobody, Ids
<1>2. count + 1 \in Ids
  BY SchedAssumption DEF Spawn, TypeOK, Ids
<1>3. prio \in 0..2
  BY SchedAssumption
<1>4. count' \in 0..MaxTasks
  BY SchedAssumption DEF Spawn, TypeOK
<1> QED BY <1>1, <1>2, <1>3, <1>4, FreshSliceType, Zenon
        DEF Spawn, TypeOK, Goto, States, Points, waits, cpus

\* The tables a task's own step writes; every other variable is unchanged.
LEMMA TypeTaskStep ==
  ASSUME TypeOK, NEW c \in CPUs, NEW t \in Ids, TaskStep(c, t)
  PROVE  TypeOK'
<1> USE DEF TypeOK, At, Goto, Return, Park, table, waits, cpus, States, Points
<1>0. 0 \in 0..MaxTasks /\ 0..count \subseteq 0..MaxTasks
  BY SchedAssumption
<1>1. CASE UserEntry(c, t)
  <2>1. Released(c) \in [Ids -> States]
    BY Zenon DEF Released
  <2> QED BY <1>1, <2>1, Zenon DEF UserEntry
<1>2. CASE SetPriority(c, t)
  <2>1. /\ priority' = [priority EXCEPT ![t] = PRIO_RT]
        /\ UNCHANGED <<count, state, owner, slice, parent, exitCode, reaped, waits, progs, cpus,
                       pending>>
    BY <1>2, Zenon DEF SetPriority
  <2>2. priority' \in [Ids -> 0..2]
    BY <2>1 DEF PRIO_RT
  <2> QED
    BY <2>1, <2>2, Zenon DEF progs
<1>3. ASSUME NEW code \in {0, Killed}, Exit(c, t, code) PROVE TypeOK'
  BY <1>3, Zenon DEF Exit
<1>4. CASE EntryReturns(c, t)
  BY <1>4, Zenon DEF EntryReturns
<1>5. ASSUME NEW pid \in Ids, Kill(c, t, pid) PROVE TypeOK'
  BY <1>5, Zenon DEF Kill, progs
<1>6. CASE Sleep(c, t)
  BY <1>6, Zenon DEF Sleep
<1>7. CASE Yield(c, t)
  BY <1>7, Zenon DEF Yield, Yielded
<1>8. ASSUME NEW pid \in 0..count, WaitPid(c, t, pid) PROVE TypeOK'
  BY <1>0, <1>8, Zenon DEF WaitPid
<1>9. CASE TryReap(c, t)
  BY <1>0, <1>9, TasksInIds DEF TryReap, Zombies, Matching
<1>10. CASE ChildWaitable(c, t)
  BY <1>0, <1>10 DEF ChildWaitable
<1>11. CASE BlockOnChild(c, t)
  BY <1>11, Zenon DEF BlockOnChild
<1>12. CASE StartRead(c, t)
  BY <1>12, Zenon DEF StartRead
<1>13. CASE TakeLine(c, t)
  <2>1. pending' \subseteq {"line", "raw"}
    BY <1>13, ZenonT(40) DEF TakeLine
  <2>2. pc' \in [Ids -> Points]
    BY <1>13 DEF TakeLine
  <2> QED BY <1>13, <2>1, <2>2, Zenon DEF TakeLine
<1>14. CASE YieldForLine(c, t)
  BY <1>14, Zenon DEF YieldForLine, Yielded
<1>15. CASE BlockOnInput(c, t)
  BY <1>15, Zenon DEF BlockOnInput
<1>16. CASE StartDrain(c, t)
  BY <1>16, Zenon DEF StartDrain
<1>17. CASE Drain(c, t)
  BY <1>17, Zenon DEF Drain
<1>18. CASE BlockOnRaw(c, t)
  BY <1>18, Zenon DEF BlockOnRaw
<1> HIDE DEF TypeOK, At, Goto, Return, Park, table, waits, cpus, States, Points
<1> QED BY <1>1, <1>2, <1>3, <1>4, <1>5, <1>6, <1>7, <1>8, <1>9, <1>10, <1>11, <1>12,
           <1>13, <1>14, <1>15, <1>16, <1>17, <1>18, Zenon DEF TaskStep, SystemCall

\* Every variable keeps its type, for any number of CPUs and tasks.
THEOREM TypeCorrect == Spec => []TypeOK
<1>1. TypeOK /\ [Next]_vars => TypeOK'
  <2> SUFFICES ASSUME TypeOK, [Next]_vars PROVE TypeOK'
    BY Zenon
  <2>1. ASSUME NEW c \in CPUs, Preempt(c) PROVE TypeOK'
    BY <2>1, TypePreempt, Zenon
  <2>2. ASSUME NEW c \in CPUs, ContextSwitch(c) PROVE TypeOK'
    BY <2>2, Zenon DEF ContextSwitch, TypeOK, table, waits, progs
  <2>3. ASSUME NEW c \in CPUs, NEW t \in Ids, TaskStep(c, t) PROVE TypeOK'
    BY <2>3, TypeTaskStep, Zenon
  <2>4. ASSUME NEW c \in CPUs, NEW t \in Ids, WakeTaskNow(c, t) PROVE TypeOK'
    BY <2>4, Zenon DEF WakeTaskNow, TypeOK, States, waits, progs, cpus
  <2>5. ASSUME NEW c \in CPUs, NEW t \in Ids \cup {Idle}, Spawns(c, t) PROVE TypeOK'
    BY <2>5, TypeSpawn, Zenon DEF Spawns
  <2>6. ASSUME NEW t \in Ids, DeadlinePasses(t) PROVE TypeOK'
    BY <2>6, Zenon DEF DeadlinePasses, TypeOK, table, progs, cpus
  <2>7. CASE LineArrives
    BY <2>7, Zenon DEF LineArrives, TypeOK, table, waits, progs, cpus
  <2>8. CASE RawEventArrives
    BY <2>8, Zenon DEF RawEventArrives, TypeOK, table, waits, progs, cpus
  <2>9. CASE UNCHANGED vars
    BY <2>9, Zenon DEF vars, TypeOK, table, waits, progs, cpus
  <2> QED BY <2>1, <2>2, <2>3, <2>4, <2>5, <2>6, <2>7, <2>8, <2>9, Zenon DEF Next, Environment
<1> QED BY <1>1, TypeInit, PTL DEF Spec
-----------------------------------------------------------------------------
(* Affinity: every context a CPU holds is its own.                         *)

\* A step that moves no slot and changes no owner keeps Owned.
LEMMA OwnedFrame ==
  ASSUME Owned, UNCHANGED <<count, owner, current, pendingPrev, onCpu>>
  PROVE  Owned'
BY Zenon DEF Owned, Mine

LEMMA OwnedPreempt ==
  ASSUME TypeOK, Owned, NEW c \in CPUs, Preempt(c)
  PROVE  Owned'
<1> DEFINE st == Woken(Released(c))
<1>1. PICK best : \E sl \in [Ids -> Nat] :
        /\ best = Idle \/ (best \in Ids /\ best <= count /\ owner[best] = c
                             /\ st[best] = "Ready")
        /\ Stay(c, st, sl) \/ SwitchTo(c, best, st, sl)
  BY PreemptCases, Zenon
<1> HIDE DEF st
<1>2. UNCHANGED <<count, owner, onCpu>>
  BY Zenon DEF Preempt
<1>3. Mine(c, best) /\ Mine(c, current[c]) /\ Mine(c, Idle)
  BY <1>1, Zenon DEF Owned, Mine
<1>4. current'[c] \in {best, current[c]} /\ pendingPrev'[c] \in {Idle, current[c]}
  BY <1>1, Zenon DEF Stay, SwitchTo, TypeOK
<1>5. \A d \in CPUs \ {c} : current'[d] = current[d] /\ pendingPrev'[d] = pendingPrev[d]
  BY <1>1, Zenon DEF Stay, SwitchTo, TypeOK
<1> QED BY <1>2, <1>3, <1>4, <1>5 DEF Owned, Mine

LEMMA OwnedSpawn ==
  ASSUME TypeOK, Owned, NEW c \in CPUs, NEW t \in Ids \cup {Idle}, Spawns(c, t)
  PROVE  Owned'
<1>1. PICK own \in CPUs : owner' = [owner EXCEPT ![count + 1] = own]
  BY Zenon DEF Spawns, Spawn
<1>2. count' = count + 1 /\ UNCHANGED <<current, pendingPrev, onCpu>>
  BY Zenon DEF Spawns, Spawn, cpus
<1>3. \A d \in CPUs, k \in Ids \cup {Idle} : Mine(d, k) => Mine(d, k)'
  BY <1>1, <1>2, IdsFacts DEF Mine, TypeOK
<1> QED BY <1>2, <1>3, Zenon DEF Owned, TypeOK

LEMMA OwnedTaskStep ==
  ASSUME TypeOK, Owned, NEW c \in CPUs, NEW t \in Ids, TaskStep(c, t)
  PROVE  Owned'
<1>1. CASE UserEntry(c, t)
  BY <1>1, Zenon DEF UserEntry, Owned, Mine, TypeOK
<1>2. CASE ~UserEntry(c, t)
  <2>1. UNCHANGED <<count, owner, current, pendingPrev, onCpu>>
    BY <1>2, Zenon DEF TaskStep, SystemCall, SetPriority, Exit, EntryReturns, Kill, Sleep, Yield,
                WaitPid, TryReap, ChildWaitable, BlockOnChild, StartRead, TakeLine,
                YieldForLine, BlockOnInput, StartDrain, Drain, BlockOnRaw, Park,
                table, cpus
  <2> QED BY <2>1, OwnedFrame, Zenon
<1> QED BY <1>1, <1>2, Zenon

LEMMA OwnedStep == TypeOK /\ Owned /\ [Next]_vars => Owned'
<1> SUFFICES ASSUME TypeOK, Owned, [Next]_vars PROVE Owned'
  BY Zenon
<1>1. ASSUME NEW c \in CPUs, Preempt(c) PROVE Owned'
  BY <1>1, OwnedPreempt, Zenon
<1>2. ASSUME NEW c \in CPUs, ContextSwitch(c) PROVE Owned'
  BY <1>2, Zenon DEF ContextSwitch, Owned, Mine, TypeOK, table
<1>3. ASSUME NEW c \in CPUs, NEW t \in Ids, TaskStep(c, t) PROVE Owned'
  BY <1>3, OwnedTaskStep, Zenon
<1>4. ASSUME NEW c \in CPUs, NEW t \in Ids \cup {Idle}, Spawns(c, t) PROVE Owned'
  BY <1>4, OwnedSpawn, Zenon
<1>5. ASSUME \/ \E c \in CPUs, t \in Ids : WakeTaskNow(c, t)
             \/ Environment \/ UNCHANGED vars
      PROVE  Owned'
  <2>1. UNCHANGED <<count, owner, current, pendingPrev, onCpu>>
    BY <1>5, Zenon DEF WakeTaskNow, Environment, DeadlinePasses, LineArrives, RawEventArrives,
                vars, table, cpus
  <2> QED BY <2>1, OwnedFrame, Zenon
<1> QED BY <1>1, <1>2, <1>3, <1>4, <1>5, Zenon DEF Next

\* What a CPU has in its current, pending_prev or register slot is its own: a task of the table
\* whose owner_cpu is that CPU, or no task (schedule, switch_to, finish_switch).
THEOREM Ownership == Spec => []Owned
<1>1. Init => Owned
  BY Zenon DEF Init, Owned, Mine
<1> QED BY <1>1, OwnedStep, TypeCorrect, PTL DEF Spec

\* No context is ever touched by two CPUs, whatever they interleave between
\* plan_switch and the end of context_switch: the affinity filter suffices.
THEOREM Exclusive == Spec => []ExclusiveContext
<1>1. TypeOK /\ Owned => ExclusiveContext
  BY DEF Owned, Mine, ExclusiveContext, Touched, TypeOK
<1> QED BY <1>1, Ownership, TypeCorrect, PTL
-----------------------------------------------------------------------------
(* No Running task is out of reach of its CPU.                             *)

\* A step that moves no slot and makes no task Running keeps NoLostTask.
LEMMA NoLostFrame ==
  ASSUME TypeOK, NoLostTask, UNCHANGED <<count, owner, current, pendingPrev>>,
         \A t \in Ids : state'[t] = "Running" => state[t] = "Running"
  PROVE  NoLostTask'
BY TasksInIds, Zenon DEF NoLostTask, Tasks

LEMMA NoLostPreempt ==
  ASSUME TypeOK, Owned, NoLostTask, NEW c \in CPUs, Preempt(c)
  PROVE  NoLostTask'
<1> DEFINE st == Woken(Released(c))
<1>1. PICK best : \E sl \in [Ids -> Nat] :
        /\ best = Idle \/ (best \in Ids /\ best <= count /\ owner[best] = c
                             /\ st[best] = "Ready")
        /\ Stay(c, st, sl) \/ SwitchTo(c, best, st, sl)
  BY PreemptCases, Zenon
<1>2. /\ st \in [Ids -> States]
      /\ \A t \in Ids : st[t] = "Running" => state[t] = "Running"
      /\ \A t \in Ids : t = pendingPrev[c] /\ owner[t] = c /\ t # current[c]
                            => st[t] # "Running"
  BY WokenFacts, Zenon
<1> HIDE DEF st
<1>3. UNCHANGED <<count, owner>>
  BY Zenon DEF Preempt
<1> SUFFICES ASSUME NEW t \in Ids, t \in Tasks, state'[t] = "Running"
             PROVE  t \in {current'[owner[t]], pendingPrev'[owner[t]]}
  BY <1>3, TasksInIds, Zenon DEF NoLostTask, Tasks
<1>4. CASE owner[t] # c
  <2>1. state[t] = "Running"
    BY <1>1, <1>2, <1>4, Zenon DEF Stay, SwitchTo
  <2>2. current'[owner[t]] = current[owner[t]] /\ pendingPrev'[owner[t]] = pendingPrev[owner[t]]
    BY <1>1, <1>4, Zenon DEF Stay, SwitchTo, TypeOK
  <2> QED BY <2>1, <2>2, Zenon DEF NoLostTask
<1>5. CASE owner[t] = c
  <2>1. st[t] = "Running" => t = current[c]
    BY <1>2, <1>5, Zenon DEF NoLostTask
  <2>2. CASE \E sl : Stay(c, st, sl)
    BY <2>1, <2>2, <1>5, Zenon DEF Stay
  <2>3. CASE \E sl : SwitchTo(c, best, st, sl)
    <3>1. current' = [current EXCEPT ![c] = best]
      BY <2>3, Zenon DEF SwitchTo
    <3>2. CASE st[t] = "Running"
      <4>1. pendingPrev'[c] = current[c]
        BY <2>1, <2>3, <3>2, IdsFacts, Zenon DEF SwitchTo, TypeOK
      <4> QED BY <2>1, <3>2, <4>1, <1>5, Zenon
    <3>3. CASE st[t] # "Running"
      <4>1. t = best
        BY <2>3, <3>3, <1>2, Zenon DEF SwitchTo
      <4> QED BY <3>1, <4>1, <1>5, Zenon DEF TypeOK
    <3> QED BY <3>2, <3>3, Zenon
  <2> QED BY <1>1, <2>2, <2>3, Zenon
<1> QED BY <1>4, <1>5, Zenon

LEMMA NoLostSpawn ==
  ASSUME TypeOK, NoLostTask, NEW c \in CPUs, NEW t \in Ids \cup {Idle}, Spawns(c, t)
  PROVE  NoLostTask'
<1>1. count' = count + 1 /\ UNCHANGED <<current, pendingPrev>>
  BY Zenon DEF Spawns, Spawn, cpus
<1>2. state' = [state EXCEPT ![count + 1] = "Ready"]
  BY Zenon DEF Spawns, Spawn
<1>3. \A k \in Ids : k # count + 1 => owner'[k] = owner[k]
  BY Zenon DEF Spawns, Spawn, TypeOK
<1>4. Tasks' \subseteq Ids /\ \A k \in Tasks' : k # count + 1 => k \in Tasks
  BY <1>1, SchedAssumption DEF Spawns, Spawn, Tasks, TypeOK, Ids
<1> QED BY <1>1, <1>2, <1>3, <1>4, Zenon DEF NoLostTask, TypeOK

LEMMA NoLostTaskStep ==
  ASSUME TypeOK, Owned, NoLostTask, NEW c \in CPUs, NEW t \in Ids, TaskStep(c, t)
  PROVE  NoLostTask'
<1>1. CASE UserEntry(c, t)
  <2>1. UNCHANGED <<count, owner, current>>
    BY <1>1, Zenon DEF UserEntry
  <2>2. state' = Released(c) /\ pendingPrev' = [pendingPrev EXCEPT ![c] = Idle]
    BY <1>1, Zenon DEF UserEntry
  <2>3. \A k \in Ids : state'[k] = "Running" =>
          /\ state[k] = "Running"
          /\ k = pendingPrev[c] /\ owner[k] = c => k = current[c]
    BY <2>2, IdsFacts, Zenon DEF Released, TypeOK
  <2> QED BY <2>1, <2>2, <2>3, TasksInIds DEF NoLostTask, Tasks, TypeOK
<1>2. CASE ~UserEntry(c, t)
  <2>1. UNCHANGED <<count, owner, current, pendingPrev>>
    BY <1>2, Zenon DEF TaskStep, SystemCall, SetPriority, Exit, EntryReturns, Kill, Sleep, Yield,
                WaitPid, TryReap, ChildWaitable, BlockOnChild, StartRead, TakeLine,
                YieldForLine, BlockOnInput, StartDrain, Drain, BlockOnRaw, Park,
                table, cpus
  <2>2. \/ state' = state
        \/ \E k \in Ids, new \in {"Dead", "Sleeping", "Ready", "Blocked"} :
             state' = [state EXCEPT ![k] = new]
    BY <1>2, Zenon DEF TaskStep, SystemCall, SetPriority, Exit, EntryReturns, Kill, Sleep, Yield,
                WaitPid, TryReap, ChildWaitable, BlockOnChild, StartRead, TakeLine,
                YieldForLine, BlockOnInput, StartDrain, Drain, BlockOnRaw, Park, Yielded,
                table
  <2>3. \A k \in Ids : state'[k] = "Running" => state[k] = "Running"
    BY <2>2, Zenon DEF TypeOK
  <2> QED BY <2>1, <2>3, NoLostFrame, Zenon
<1> QED BY <1>1, <1>2, Zenon

\* A Running task is the current or the pending one of its CPU, so the next
\* release_pending_prev of that CPU can always make it Ready again.
THEOREM NoTaskLost == Spec => []NoLostTask
<1>1. Init => NoLostTask
  BY DEF Init, NoLostTask, Tasks
<1>2. TypeOK /\ Owned /\ NoLostTask /\ [Next]_vars => NoLostTask'
  <2> SUFFICES ASSUME TypeOK, Owned, NoLostTask, [Next]_vars PROVE NoLostTask'
    BY Zenon
  <2>1. ASSUME NEW c \in CPUs, Preempt(c) PROVE NoLostTask'
    BY <2>1, NoLostPreempt, Zenon
  <2>2. ASSUME NEW c \in CPUs, NEW t \in Ids, TaskStep(c, t) PROVE NoLostTask'
    BY <2>2, NoLostTaskStep, Zenon
  <2>3. ASSUME NEW c \in CPUs, NEW t \in Ids \cup {Idle}, Spawns(c, t) PROVE NoLostTask'
    BY <2>3, NoLostSpawn, Zenon
  <2>4. ASSUME NEW c \in CPUs, NEW t \in Ids, WakeTaskNow(c, t) PROVE NoLostTask'
    BY <2>4, NoLostFrame, Zenon DEF WakeTaskNow, TypeOK, cpus
  <2>5. ASSUME \/ \E c \in CPUs : ContextSwitch(c)
               \/ Environment \/ UNCHANGED vars
        PROVE  NoLostTask'
    <3>1. UNCHANGED <<count, owner, current, pendingPrev, state>>
      BY <2>5, Zenon DEF ContextSwitch, Environment, DeadlinePasses, LineArrives,
                  RawEventArrives, vars, table, cpus
    <3> QED BY <3>1, NoLostFrame, Zenon
  <2> QED BY <2>1, <2>2, <2>3, <2>4, <2>5, Zenon DEF Next
<1> QED BY <1>1, <1>2, Ownership, TypeCorrect, PTL DEF Spec
-----------------------------------------------------------------------------
(* Zombies.  SYS_KILL may name a task that another CPU is executing.       *)

\* What one step of task t may do to the zombies of the table: nothing to
\* another's, and t itself is before its halt.  Who dies was killed or has halted.
LEMMA TaskStepDeaths ==
  ASSUME TypeOK, NEW c \in CPUs, NEW t \in Ids, TaskStep(c, t)
  PROVE  /\ UNCHANGED current
         /\ Executes(c, t) /\ pc[t] # "halt"
         /\ \A k \in Ids : k # t /\ state[k] = "Dead" =>
               state'[k] = "Dead" /\ exitCode'[k] = exitCode[k] /\ (k \in reaped => k \in reaped')
         /\ \A k \in Ids : k # t => pc'[k] = pc[k]
         /\ \A k \in Ids : k # t /\ state[k] # "Dead" /\ state'[k] = "Dead" => exitCode'[k] = Killed
         /\ state'[t] = "Dead" => pc'[t] = "halt" \/ (state[t] = "Dead" /\ exitCode'[t] = exitCode[t])
<1> USE DEF Goto, Return, Park, Yielded, table, waits, progs, cpus
<1>0. Executes(c, t) /\ pc[t] # "halt"
  <2>1. \E p \in Points \ {"halt"} : At(c, t, p)
    BY Zenon DEF TaskStep, UserEntry, SetPriority, Exit, EntryReturns, Kill, Sleep, Yield,
                SystemCall, WaitPid, TryReap, ChildWaitable, BlockOnChild, StartRead, TakeLine,
                YieldForLine, BlockOnInput, StartDrain, Drain, BlockOnRaw, Points
  <2> QED BY <2>1, Zenon DEF At
<1>1. CASE UserEntry(c, t)
  <2>1. \A k \in Ids : state[k] # state'[k] => state[k] = "Running" /\ state'[k] = "Ready"
    BY <1>1, Zenon DEF UserEntry, Released, TypeOK
  <2> QED BY <1>0, <1>1, <2>1, Zenon DEF UserEntry, TypeOK
<1>2. CASE SetPriority(c, t)
  BY <1>0, <1>2, Zenon DEF SetPriority
<1>3. CASE EntryReturns(c, t)
  BY <1>0, <1>3, Zenon DEF EntryReturns, TypeOK
<1>4. ASSUME NEW code \in {0, Killed}, Exit(c, t, code)
      PROVE  state' = [state EXCEPT ![t] = "Dead"] /\ pc' = [pc EXCEPT ![t] = "halt"]
             /\ exitCode' = [exitCode EXCEPT ![t] = code] /\ reaped' = reaped \ {t}
             /\ UNCHANGED current
  BY <1>4, Zenon DEF Exit
<1>5. CASE \E code \in {0, Killed} : Exit(c, t, code)
  BY <1>0, <1>4, <1>5, Zenon DEF TypeOK
<1>6. ASSUME NEW pid \in Ids, Kill(c, t, pid)
      PROVE  /\ UNCHANGED <<current, pc>> /\ pid # t /\ state[pid] # "Dead"
             /\ state' = [state EXCEPT ![pid] = "Dead"]
             /\ exitCode' = [exitCode EXCEPT ![pid] = Killed] /\ reaped' = reaped \ {pid}
  BY <1>6, Zenon DEF Kill
<1>7. CASE \E pid \in Ids : Kill(c, t, pid)
  BY <1>0, <1>6, <1>7, Zenon DEF TypeOK
<1>8. CASE Sleep(c, t) \/ Yield(c, t) \/ SystemCall(c, t)
  <2>1. UNCHANGED <<current, exitCode>> /\ reaped \subseteq reaped'
    BY <1>8, Zenon DEF Sleep, Yield, SystemCall, WaitPid, TryReap, ChildWaitable, BlockOnChild,
                StartRead, TakeLine, YieldForLine, BlockOnInput, StartDrain, Drain, BlockOnRaw
  <2>2. state' = state \/ \E new \in {"Sleeping", "Ready", "Blocked"} :
                            state' = [state EXCEPT ![t] = new]
    BY <1>8, Zenon DEF Sleep, Yield, SystemCall, WaitPid, TryReap, ChildWaitable, BlockOnChild,
                StartRead, TakeLine, YieldForLine, BlockOnInput, StartDrain, Drain, BlockOnRaw
  <2>3. pc' = pc \/ \E p : pc' = [pc EXCEPT ![t] = p]
    BY <1>8, Zenon DEF Sleep, Yield, SystemCall, WaitPid, TryReap, ChildWaitable, BlockOnChild,
                StartRead, TakeLine, YieldForLine, BlockOnInput, StartDrain, Drain, BlockOnRaw
  <2>4. \A k \in Ids : k # t => state'[k] = state[k] /\ pc'[k] = pc[k]
    BY <2>2, <2>3, Zenon DEF TypeOK
  <2>5. state'[t] = "Dead" => state[t] = "Dead"
    BY <2>2, Zenon DEF TypeOK
  <2> QED BY <1>0, <2>1, <2>4, <2>5, Zenon
<1> QED BY <1>1, <1>2, <1>3, <1>5, <1>7, <1>8, Zenon DEF TaskStep

\* Every step keeps the zombies halted or killed, and frozen unless they execute.
LEMMA ZombieStep ==
  ASSUME TypeOK, ZombieIsHalted, [Next]_vars
  PROVE  /\ ZombieIsHalted'
         /\ \A t \in Tasks : state[t] = "Dead" =>
              \/ OutlivesKill(t)
              \/ /\ state'[t] = "Dead"
                 /\ exitCode'[t] = exitCode[t]
                 /\ t \in reaped => t \in reaped'
                 /\ \A c \in CPUs : current'[c] = t => current[c] = t
<1> DEFINE Frozen == \A t \in Ids : state[t] = "Dead" =>
                       \/ OutlivesKill(t)
                       \/ /\ state'[t] = "Dead"
                          /\ exitCode'[t] = exitCode[t]
                          /\ t \in reaped => t \in reaped'
                          /\ \A c \in CPUs : current'[c] = t => current[c] = t
<1>1. ASSUME NEW c \in CPUs, Preempt(c) PROVE ZombieIsHalted' /\ Frozen
  <2> DEFINE st == Woken(Released(c))
  <2>1. PICK best : \E sl \in [Ids -> Nat] :
          /\ best = Idle \/ (best \in Ids /\ best <= count /\ owner[best] = c
                               /\ st[best] = "Ready")
          /\ Stay(c, st, sl) \/ SwitchTo(c, best, st, sl)
    BY <1>1, PreemptCases, Zenon
  <2>2. st \in [Ids -> States] /\ \A t \in Ids : st[t] = "Dead" <=> state[t] = "Dead"
    BY WokenFacts, Zenon
  <2> HIDE DEF st
  <2>3. UNCHANGED <<pc, exitCode>> /\ reaped \subseteq reaped'
    BY <1>1, Zenon DEF Preempt
  <2>4. \A t \in Ids : state'[t] = "Dead" <=> state[t] = "Dead"
    BY <2>1, <2>2, Zenon DEF Stay, SwitchTo
  <2>5. \A d \in CPUs : \/ current'[d] = current[d]
                        \/ current'[d] = best /\ (best # Idle => state[best] # "Dead")
    BY <2>1, <2>2, Zenon DEF Stay, SwitchTo, TypeOK
  <2>6. ZombieIsHalted'
    BY <2>3, <2>4, Zenon DEF ZombieIsHalted
  <2>7. ASSUME NEW t \in Ids, state[t] = "Dead", NEW d \in CPUs, current'[d] = t
        PROVE  current[d] = t
    <3>1. t # Idle
      BY IdsFacts, Zenon
    <3> QED BY <2>5, <2>7, <3>1, Zenon
  <2> QED BY <2>3, <2>4, <2>6, <2>7, Zenon
<1>2. ASSUME NEW c \in CPUs, NEW t \in Ids, TaskStep(c, t) PROVE ZombieIsHalted' /\ Frozen
  <2>1. /\ UNCHANGED current
        /\ Executes(c, t) /\ pc[t] # "halt"
        /\ \A k \in Ids : k # t /\ state[k] = "Dead" =>
              state'[k] = "Dead" /\ exitCode'[k] = exitCode[k] /\ (k \in reaped => k \in reaped')
        /\ \A k \in Ids : k # t => pc'[k] = pc[k]
        /\ \A k \in Ids : k # t /\ state[k] # "Dead" /\ state'[k] = "Dead" => exitCode'[k] = Killed
        /\ state'[t] = "Dead" => pc'[t] = "halt" \/ (state[t] = "Dead" /\ exitCode'[t] = exitCode[t])
    BY <1>2, TaskStepDeaths, Zenon
  <2>2. ZombieIsHalted'
    <3> SUFFICES ASSUME NEW k \in Ids, state'[k] = "Dead", pc'[k] # "halt" PROVE exitCode'[k] = Killed
      BY Zenon DEF ZombieIsHalted
    <3>1. CASE k = t
      BY <2>1, <3>1, Zenon DEF ZombieIsHalted
    <3>2. CASE k # t
      BY <2>1, <3>2, Zenon DEF ZombieIsHalted
    <3> QED BY <3>1, <3>2, Zenon
  <2>3. state[t] = "Dead" => OutlivesKill(t)
    BY <2>1, Zenon DEF OutlivesKill, ZombieIsHalted
  <2> QED BY <2>1, <2>2, <2>3, Zenon
<1>3. ASSUME NEW c \in CPUs, NEW t \in Ids \cup {Idle}, Spawns(c, t)
      PROVE  ZombieIsHalted' /\ \A k \in Tasks : state[k] = "Dead" => state'[k] = "Dead"
             /\ UNCHANGED <<current, exitCode, reaped>>
  <2>1. UNCHANGED <<current, exitCode, reaped>>
    BY <1>3, Zenon DEF Spawns, Spawn, cpus
  <2>2. state' = [state EXCEPT ![count + 1] = "Ready"]
    BY <1>3, Zenon DEF Spawns, Spawn
  <2>3. \E p : pc' = [pc EXCEPT ![count + 1] = p]
    BY <1>3, ZenonT(40) DEF Spawns, Spawn, Goto
  <2>4. DOMAIN state = Ids /\ DOMAIN pc = Ids
    BY Zenon DEF TypeOK
  <2>5. \A k \in Ids : k # count + 1 => state'[k] = state[k] /\ pc'[k] = pc[k]
    BY <2>2, <2>3, <2>4, Zenon
  <2>6. \A k \in Ids : k = count + 1 => state'[k] = "Ready"
    BY <2>2, <2>4, Zenon
  <2>7. \A k \in Tasks : k # count + 1
    BY DEF Tasks, TypeOK
  <2> QED BY <2>1, <2>5, <2>6, <2>7, TasksInIds, Zenon DEF ZombieIsHalted
<1>4. ASSUME NEW c \in CPUs, NEW t \in Ids, WakeTaskNow(c, t) PROVE ZombieIsHalted' /\ Frozen
  <2>1. UNCHANGED <<current, exitCode, reaped, pc>>
    BY <1>4, Zenon DEF WakeTaskNow, cpus, progs
  <2>2. \A k \in Ids : state'[k] = "Dead" <=> state[k] = "Dead"
    BY <1>4, Zenon DEF WakeTaskNow, TypeOK
  <2> QED BY <2>1, <2>2, Zenon DEF ZombieIsHalted
<1>5. ASSUME \/ \E c \in CPUs : ContextSwitch(c)
             \/ Environment \/ UNCHANGED vars
      PROVE  ZombieIsHalted' /\ Frozen
  <2>1. UNCHANGED <<current, state, exitCode, reaped, pc>>
    BY <1>5, Zenon DEF ContextSwitch, Environment, DeadlinePasses, LineArrives,
                RawEventArrives, vars, table, cpus, progs
  <2> QED BY <2>1, Zenon DEF ZombieIsHalted
<1>6. Tasks \subseteq Ids
  BY TasksInIds, Zenon
<1> QED BY <1>1, <1>2, <1>3, <1>4, <1>5, <1>6, Zenon DEF Next

\* A zombie is never revived, its exit status never changes, a consumed status is never
\* delivered again and it gets no CPU, except while it outlives a kill from another CPU
\* (record_exit, kill, plan_switch), for any number of CPUs and tasks.
THEOREM ZombieFrozen == Spec => ZombieIsFrozen
<1>1. Init => ZombieIsHalted
  BY Zenon DEF Init, ZombieIsHalted
<1>2. TypeOK /\ ZombieIsHalted /\ [Next]_vars => ZombieIsHalted'
  BY ZombieStep, Zenon
<1>3. TypeOK /\ ZombieIsHalted /\ [Next]_vars =>
        [\A t \in Tasks : state[t] = "Dead" =>
           \/ OutlivesKill(t)
           \/ /\ state'[t] = "Dead"
              /\ exitCode'[t] = exitCode[t]
              /\ t \in reaped => t \in reaped'
              /\ \A c \in CPUs : current'[c] = t => current[c] = t]_vars
  BY ZombieStep, Zenon
<1> QED BY <1>1, <1>2, <1>3, TypeCorrect, PTL DEF Spec, ZombieIsFrozen

\* An exit status is consumed by the parent's own waitpid or, when the zombie
\* is an orphan, by the wake pass; by nothing else.
THEOREM StatusToParent == Spec => StatusGoesToParent
<1> DEFINE Rightful == \A t \in reaped' \ reaped :
                         \/ Orphan(t)
                         \/ pc[parent[t]] = "reap" /\ pc'[parent[t]] = "run"
<1>1. TypeOK /\ [Next]_vars => Rightful
  <2> SUFFICES ASSUME TypeOK, [Next]_vars PROVE Rightful
    BY Zenon
  <2>1. ASSUME NEW c \in CPUs, Preempt(c) PROVE Rightful
    BY <2>1, Zenon DEF Preempt, AutoReaped
  <2>2. ASSUME NEW c \in CPUs, NEW t \in Ids, TryReap(c, t) PROVE Rightful
    <3>1. \A k \in reaped' \ reaped : parent[k] = t /\ pc' = [pc EXCEPT ![t] = "run"]
      BY <2>2, Zenon DEF TryReap, Zombies, Matching, Return, Goto
    <3>2. pc \in [Ids -> Points] /\ pc[t] = "reap"
      BY <2>2, Zenon DEF TryReap, At, TypeOK
    <3>3. ASSUME NEW k \in reaped' \ reaped
          PROVE  pc[parent[k]] = "reap" /\ pc'[parent[k]] = "run"
      <4>1. parent[k] = t
        BY <3>1, <3>3, Zenon
      <4>2. pc'[t] = "run"
        BY <3>1, <3>2, <3>3, Zenon
      <4> QED BY <4>1, <4>2, <3>2, Zenon
    <3> QED BY <3>3, Zenon
  <2>3. ASSUME NEW c \in CPUs, NEW t \in Ids, TaskStep(c, t), ~TryReap(c, t) PROVE Rightful
    <3>1. reaped' \subseteq reaped
      BY <2>3, Zenon DEF TaskStep, SystemCall, UserEntry, SetPriority, Exit, EntryReturns, Kill,
                  Sleep, Yield, WaitPid, ChildWaitable, BlockOnChild, StartRead, TakeLine,
                  YieldForLine, BlockOnInput, StartDrain, Drain, BlockOnRaw, Park, table
    <3> QED BY <3>1, Zenon
  <2>4. ASSUME \/ \E c \in CPUs : \/ ContextSwitch(c)
                                  \/ \E t \in Ids : WakeTaskNow(c, t)
                                  \/ \E t \in Ids \cup {Idle} : Spawns(c, t)
               \/ Environment \/ UNCHANGED vars
        PROVE  Rightful
    <3>1. ASSUME NEW c \in CPUs, ContextSwitch(c) PROVE reaped' = reaped
      BY <3>1, Zenon DEF ContextSwitch, table
    <3>2. ASSUME NEW c \in CPUs, NEW t \in Ids, WakeTaskNow(c, t) PROVE reaped' = reaped
      BY <3>2, Zenon DEF WakeTaskNow
    <3>3. ASSUME NEW c \in CPUs, NEW t \in Ids \cup {Idle}, Spawns(c, t) PROVE reaped' = reaped
      BY <3>3, Zenon DEF Spawns, Spawn
    <3>4. ASSUME Environment PROVE reaped' = reaped
      BY <3>4, Zenon DEF Environment, DeadlinePasses, LineArrives, RawEventArrives, table
    <3>5. ASSUME UNCHANGED vars PROVE reaped' = reaped
      BY <3>5, Zenon DEF vars, table
    <3>6. reaped' = reaped
      BY <2>4, <3>1, <3>2, <3>3, <3>4, <3>5, Zenon
    <3> QED BY <3>6, Zenon
  <2> QED BY <2>1, <2>2, <2>3, <2>4, Zenon DEF Next
<1>2. TypeOK /\ [Next]_vars => [Rightful]_vars
  BY <1>1, Zenon
<1> QED BY <1>2, TypeCorrect, PTL DEF Spec, StatusGoesToParent
=============================================================================
