--------------------------- MODULE SessionProofs ---------------------------
(***************************************************************************)
(* The input path and the sign-in screen, for rings of any length, any     *)
(* keys and packets, any number of readers and any screen that fits.       *)
(*   RawInv     the raw event ring's head, tail and count agree, so that   *)
(*              it implements the queue of module Fifo;                    *)
(*   ClickInv   the three atomics of the click slot between the interrupt  *)
(*              that fills them and the task that reads them;              *)
(*   FrameInv   the bytes under way from the mouse, the wire and the       *)
(*              watchdog's acknowledgements included, are the packets      *)
(*              sent and not completed;                                    *)
(*   KeyInv     the key ring holds the keys accepted and not consumed, and *)
(*              LINE with them spells the line being typed;                *)
(*   SigninInv  the screen shows what draw would, at every step of the     *)
(*              task's loop.                                               *)
(***************************************************************************)
EXTENDS Session, TLAPS

-----------------------------------------------------------------------------
(* Sequences *)

LEMMA SeqEmpty ==
  ASSUME NEW S
  PROVE  /\ <<>> \in Seq(S) /\ Len(<<>>) = 0
         /\ \A s \in Seq(S) : s # <<>> => Len(s) \in Nat \ {0}
  OBVIOUS

LEMMA SeqAppend ==
  ASSUME NEW S, NEW s \in Seq(S), NEW e \in S
  PROVE  /\ Append(s, e) \in Seq(S) /\ Append(s, e) # <<>> /\ Len(Append(s, e)) = Len(s) + 1
         /\ Append(s, e)[Len(s) + 1] = e
         /\ \A i \in 1..Len(s) : Append(s, e)[i] = s[i]
  OBVIOUS

LEMMA SeqTail ==
  ASSUME NEW S, NEW s \in Seq(S), s # <<>>
  PROVE  /\ Head(s) \in S /\ Tail(s) \in Seq(S) /\ Len(Tail(s)) = Len(s) - 1
         /\ \A i \in 1..Len(Tail(s)) : Tail(s)[i] = s[i + 1]
  OBVIOUS

LEMMA SeqRest ==
  ASSUME NEW S, NEW s \in Seq(S), s # <<>>
  PROVE  Tail(s) = SubSeq(s, 2, Len(s))
  OBVIOUS

LEMMA SeqIsFun ==
  ASSUME NEW S, NEW s \in Seq(S)
  PROVE  s = [i \in 1..Len(s) |-> s[i]]
  OBVIOUS

\* What is left of s once its first n elements are taken.
LEMMA SeqDrop ==
  ASSUME NEW S, NEW s \in Seq(S), NEW t \in Seq(S), NEW n \in Nat, Len(t) = Len(s) - n,
         \A i \in 1..(Len(s) - n) : t[i] = s[n + i]
  PROVE  t = SubSeq(s, n + 1, Len(s))
<1> DEFINE u == SubSeq(s, n + 1, Len(s))
<1>1. Len(s) \in Nat /\ Len(t) \in Nat /\ n + 1 \in 1..(Len(s) + 1)
  OBVIOUS
<1>2. /\ u \in Seq(S) /\ Len(u) = Len(s) - n
      /\ \A i \in 1..(Len(s) - n) : u[i] = s[n + i]
  BY <1>1
<1> HIDE DEF u
<1>3. Len(t) = Len(u) /\ \A i \in 1..Len(t) : t[i] = u[i]
  BY <1>2, Zenon
<1>4. t = [i \in 1..Len(t) |-> t[i]] /\ u = [i \in 1..Len(u) |-> u[i]]
  BY <1>2, SeqIsFun, Zenon
<1>5. t = u
  BY <1>3, <1>4, Zenon
<1> QED
  BY <1>5, Zenon DEF u

LEMMA SeqConcat ==
  ASSUME NEW S, NEW s \in Seq(S), NEW t \in Seq(S)
  PROVE  /\ s \o t \in Seq(S) /\ Len(s \o t) = Len(s) + Len(t)
         /\ \A i \in 1..Len(s) + Len(t) :
              (s \o t)[i] = IF i <= Len(s) THEN s[i] ELSE t[i - Len(s)]
  OBVIOUS
-----------------------------------------------------------------------------
(* The raw event ring *)

Cells0 == 0..(EV_LEN - 1)

\* Where the i-th slot after slot t is.
Wrap(t, i) == (t + i) % EV_LEN

\* The ring as a record of five fields, its slots holding members of S.
Ring(S) == [RING : [Cells0 -> S], HEAD : Cells0, TAIL : Cells0, COUNT : 0..EV_LEN, DROPPED : Nat]

RawInv ==
  /\ \E S : raw \in Ring(S)
  /\ raw.HEAD = Wrap(raw.TAIL, raw.COUNT)

\* Arithmetic modulo the length of the ring.
LEMMA WrapInto == \A t, i \in Nat : Wrap(t, i) \in Cells0
  BY RingAssumption DEF Wrap, Cells0

LEMMA WrapOnce ==
  ASSUME NEW t \in Cells0, NEW i \in 0..EV_LEN
  PROVE  Wrap(t, i) = IF t + i < EV_LEN THEN t + i ELSE t + i - EV_LEN
  BY RingAssumption DEF Wrap, Cells0

LEMMA WrapAdds ==
  ASSUME NEW t \in Cells0, NEW n \in 0..EV_LEN, NEW i \in 0..EV_LEN, n + i <= EV_LEN
  PROVE  Wrap(Wrap(t, n), i) = Wrap(t, n + i)
  BY RingAssumption, WrapOnce DEF Cells0

\* The queue a ring stands for is a sequence as long as COUNT says.
Queue(r) == [i \in 1..r.COUNT |-> r.RING[(r.TAIL + i - 1) % EV_LEN]]

LEMMA QueueIsSeq ==
  ASSUME NEW S, NEW r \in Ring(S)
  PROVE  /\ Queue(r) \in Seq(S) /\ Len(Queue(r)) = r.COUNT
         /\ \A i \in 1..r.COUNT : Queue(r)[i] = r.RING[Wrap(r.TAIL, i - 1)]
<1>1. r.COUNT \in Nat /\ r.TAIL \in Nat
  BY RingAssumption DEF Ring, Cells0
<1>2. ASSUME NEW i \in 1..r.COUNT
      PROVE  /\ (r.TAIL + i - 1) % EV_LEN = Wrap(r.TAIL, i - 1)
             /\ r.RING[Wrap(r.TAIL, i - 1)] \in S
  <2>1. i - 1 \in Nat /\ r.TAIL + i - 1 = r.TAIL + (i - 1)
    BY <1>1
  <2>2. Wrap(r.TAIL, i - 1) \in Cells0
    BY <1>1, <2>1, WrapInto, Zenon
  <2> QED
    BY <2>1, <2>2, Zenon DEF Wrap, Ring
<1>3. Queue(r) = [i \in 1..r.COUNT |-> r.RING[Wrap(r.TAIL, i - 1)]]
  BY <1>2, Zenon DEF Queue
<1> QED
  BY <1>1, <1>2, <1>3

LEMMA RawIsQueue == RawQueue = Queue(raw) /\ RawQueue' = Queue(raw')
  BY Zenon DEF RawQueue, Queue

\* push writes behind the newest event, or counts the event when no slot is free.
LEMMA PushIsPush ==
  ASSUME RawInv, NEW e, push(e)
  PROVE  RawInv' /\ (RawFifo!Push \/ RawFifo!Drop)
<1>1. PICK S : raw \in Ring(S)
  BY Zenon DEF RawInv
<1>2. CASE raw.COUNT = EV_LEN
  <2>1. raw' = [raw EXCEPT !.DROPPED = raw.DROPPED + 1]
    BY <1>2, Zenon DEF push
  <2>2. raw.DROPPED + 1 \in Nat
    BY <1>1 DEF Ring
  <2>3. /\ raw' \in Ring(S) /\ raw'.DROPPED = raw.DROPPED + 1
        /\ UNCHANGED <<raw.RING, raw.HEAD, raw.TAIL, raw.COUNT>>
    BY <1>1, <2>1, <2>2, Zenon DEF Ring
  <2>4. RawQueue' = RawQueue
    BY <2>3, Zenon DEF RawQueue
  <2> QED
    BY <1>1, <1>2, <2>3, <2>4, QueueIsSeq, RawIsQueue, Zenon DEF RawInv, RawFifo!Drop
<1>3. CASE raw.COUNT # EV_LEN
  <2> DEFINE T == S \cup {e}
             full == [raw.RING EXCEPT ![raw.HEAD] = e]
  <2>1. raw' = [raw EXCEPT !.RING = full, !.HEAD = Wrap(raw.HEAD, 1), !.COUNT = raw.COUNT + 1]
    BY <1>3, Zenon DEF push, Wrap
  <2>2. /\ raw.COUNT \in 0..EV_LEN /\ raw.COUNT + 1 \in 0..EV_LEN
        /\ raw.HEAD \in Cells0 /\ raw.TAIL \in Cells0 /\ Wrap(raw.HEAD, 1) \in Cells0
        /\ raw.COUNT \in Nat /\ raw.COUNT < EV_LEN
    <3>1. raw.COUNT \in 0..EV_LEN /\ raw.HEAD \in Cells0 /\ raw.TAIL \in Cells0
      BY <1>1, Zenon DEF Ring
    <3>2. Wrap(raw.HEAD, 1) \in Cells0
      <4>1. raw.HEAD \in Nat /\ 1 \in Nat
        BY <3>1 DEF Cells0
      <4> QED
        BY <4>1, WrapInto, Zenon
    <3> QED
      BY <1>3, <3>1, <3>2, RingAssumption
  <2>3. full \in [Cells0 -> T] /\ raw.RING \in [Cells0 -> S]
    BY <1>1, <2>2, Zenon DEF Ring
  <2>4. /\ raw' \in Ring(T) /\ raw'.RING = full /\ raw'.HEAD = Wrap(raw.HEAD, 1)
        /\ raw'.COUNT = raw.COUNT + 1 /\ raw'.TAIL = raw.TAIL /\ raw'.DROPPED = raw.DROPPED
    <3> HIDE DEF full, T
    <3>1. raw \in [RING : [Cells0 -> S], HEAD : Cells0, TAIL : Cells0, COUNT : 0..EV_LEN,
                   DROPPED : Nat]
      BY <1>1, Zenon DEF Ring
    <3> QED
      BY <2>1, <2>2, <2>3, <3>1, Zenon DEF Ring
  <2>5. RawInv'
    <3>1. Wrap(raw.HEAD, 1) = Wrap(raw.TAIL, raw.COUNT + 1)
      BY <2>2, WrapAdds, RingAssumption DEF RawInv
    <3> QED
      BY <2>4, <3>1, Zenon DEF RawInv
  <2>6. /\ RawQueue \in Seq(S) /\ Len(RawQueue) = raw.COUNT
        /\ \A i \in 1..raw.COUNT : RawQueue[i] = raw.RING[Wrap(raw.TAIL, i - 1)]
    BY <1>1, QueueIsSeq, RawIsQueue, Zenon
  <2>7. /\ RawQueue' \in Seq(T) /\ Len(RawQueue') = raw.COUNT + 1
        /\ \A i \in 1..(raw.COUNT + 1) : RawQueue'[i] = full[Wrap(raw.TAIL, i - 1)]
    <3> HIDE DEF full, T
    <3> QED
      BY <2>4, QueueIsSeq, RawIsQueue
  <2>8. RawQueue'[raw.COUNT + 1] = e
    BY <2>2, <2>3, <2>7 DEF RawInv
  <2>9. ASSUME NEW i \in 1..raw.COUNT
        PROVE  RawQueue'[i] = RawQueue[i]
    <3>1. i - 1 \in 0..EV_LEN /\ i - 1 < raw.COUNT
      BY <2>2, RingAssumption
    <3>2. Wrap(raw.TAIL, i - 1) # raw.HEAD /\ Wrap(raw.TAIL, i - 1) \in Cells0
      <4>1. /\ Wrap(raw.TAIL, i - 1) = IF raw.TAIL + (i - 1) < EV_LEN THEN raw.TAIL + (i - 1)
                                        ELSE raw.TAIL + (i - 1) - EV_LEN
            /\ raw.HEAD = IF raw.TAIL + raw.COUNT < EV_LEN THEN raw.TAIL + raw.COUNT
                          ELSE raw.TAIL + raw.COUNT - EV_LEN
        BY <2>2, <3>1, WrapOnce, Zenon DEF RawInv
      <4> QED
        BY <2>2, <3>1, <4>1, RingAssumption DEF Cells0
    <3> QED
      BY <2>2, <2>3, <2>6, <2>7, <3>2
  <2>10. RawQueue' = Append(RawQueue, e)
    <3> HIDE DEF full, T
    <3> QED
      BY <2>2, <2>6, <2>7, <2>8, <2>9
  <2> QED
    BY <2>2, <2>4, <2>5, <2>6, <2>7, <2>8, <2>10 DEF RawFifo!Push
<1> QED
  BY <1>2, <1>3, Zenon

\* drain frees the slots of the oldest events.
LEMMA DrainIsTake ==
  ASSUME RawInv, drain
  PROVE  RawInv' /\ RawFifo!Take
<1>1. PICK S : raw \in Ring(S)
  BY Zenon DEF RawInv
<1>2. PICK n \in 1..raw.COUNT :
        raw' = [raw EXCEPT !.TAIL = (raw.TAIL + n) % EV_LEN, !.COUNT = raw.COUNT - n]
  BY Zenon DEF drain
<1>3. /\ raw.COUNT \in 0..EV_LEN /\ raw.TAIL \in Cells0 /\ n \in 0..EV_LEN
      /\ raw.COUNT \in Nat /\ raw.COUNT - n \in 0..EV_LEN /\ n <= raw.COUNT
  <2>1. raw.COUNT \in 0..EV_LEN /\ raw.TAIL \in Cells0
    BY <1>1, Zenon DEF Ring
  <2> QED
    BY <2>1, RingAssumption
<1>4. Wrap(raw.TAIL, n) \in Cells0 /\ Wrap(raw.TAIL, n) = (raw.TAIL + n) % EV_LEN
  <2>1. raw.TAIL \in Nat /\ n \in Nat
    BY <1>3 DEF Cells0
  <2> QED
    BY <2>1, WrapInto, Zenon DEF Wrap
<1>5. /\ raw' \in Ring(S) /\ raw'.TAIL = Wrap(raw.TAIL, n) /\ raw'.COUNT = raw.COUNT - n
      /\ UNCHANGED <<raw.RING, raw.HEAD, raw.DROPPED>>
  BY <1>1, <1>2, <1>3, <1>4, Zenon DEF Ring
<1>6. RawInv'
  <2>1. Wrap(Wrap(raw.TAIL, n), raw.COUNT - n) = Wrap(raw.TAIL, n + (raw.COUNT - n))
    BY <1>3, WrapAdds, RingAssumption
  <2>2. n + (raw.COUNT - n) = raw.COUNT
    BY <1>3
  <2> QED
    BY <1>5, <2>1, <2>2, Zenon DEF RawInv
<1>7. /\ RawQueue \in Seq(S) /\ Len(RawQueue) = raw.COUNT
      /\ \A i \in 1..raw.COUNT : RawQueue[i] = raw.RING[Wrap(raw.TAIL, i - 1)]
  BY <1>1, QueueIsSeq, RawIsQueue, Zenon
<1>8. /\ RawQueue' \in Seq(S) /\ Len(RawQueue') = raw.COUNT - n
      /\ \A i \in 1..(raw.COUNT - n) : RawQueue'[i] = raw.RING[Wrap(Wrap(raw.TAIL, n), i - 1)]
  BY <1>5, QueueIsSeq, RawIsQueue
<1>9. ASSUME NEW i \in 1..(raw.COUNT - n)
      PROVE  RawQueue'[i] = RawQueue[n + i]
  <2>1. i - 1 \in 0..EV_LEN /\ n + (i - 1) <= EV_LEN /\ n + i \in 1..raw.COUNT
        /\ n + (i - 1) = n + i - 1
    BY <1>3, RingAssumption
  <2>2. Wrap(Wrap(raw.TAIL, n), i - 1) = Wrap(raw.TAIL, n + i - 1)
    BY <1>3, <2>1, WrapAdds, Zenon
  <2>3. RawQueue[n + i] = raw.RING[Wrap(raw.TAIL, n + i - 1)]
    BY <1>7, <2>1
  <2>4. RawQueue'[i] = raw.RING[Wrap(Wrap(raw.TAIL, n), i - 1)]
    BY <1>8, Zenon
  <2> QED
    BY <2>2, <2>3, <2>4, Zenon
<1>10. RawQueue' = SubSeq(RawQueue, n + 1, Len(RawQueue))
  <2>1. n \in Nat /\ Len(RawQueue') = Len(RawQueue) - n
    BY <1>3, <1>7, <1>8
  <2>2. \A i \in 1..(Len(RawQueue) - n) : RawQueue'[i] = RawQueue[n + i]
    BY <1>7, <1>9, Zenon
  <2> QED
    BY <1>7, <1>8, <2>1, <2>2, SeqDrop, Zenon
<1> QED
  BY <1>5, <1>6, <1>7, <1>10, Zenon DEF RawFifo!Take

\* A machine that starts has an empty ring.
LEMMA RawInit == Init => RawInv /\ RawFifo!Init
<1> SUFFICES ASSUME Init PROVE RawInv /\ RawFifo!Init
  BY Zenon
<1> DEFINE empty == [i \in Cells0 |-> <<>>]
<1>1. raw = [RING |-> empty, HEAD |-> 0, TAIL |-> 0, COUNT |-> 0, DROPPED |-> 0]
  BY Zenon DEF Init, InputInit, Cells0
<1>2. empty \in [Cells0 -> {<<>>}] /\ 0 \in Cells0 /\ 0 \in 0..EV_LEN
  BY RingAssumption DEF Cells0
<1>3. raw \in Ring({<<>>}) /\ raw.COUNT = 0 /\ raw.TAIL = 0 /\ raw.HEAD = 0 /\ raw.DROPPED = 0
  <2> HIDE DEF empty
  <2> QED
    BY <1>1, <1>2, Zenon DEF Ring
<1>4. Wrap(0, 0) = 0
  BY <1>2, WrapOnce, RingAssumption
<1>5. RawQueue = <<>>
  BY <1>3, QueueIsSeq, RawIsQueue
<1> QED
  BY <1>3, <1>4, <1>5, Zenon DEF RawInv, RawFifo!Init

\* The raw event ring of input.rs behaves as the queue of module Fifo: push appends or,
\* when every slot is taken, counts; drain takes from the front.
THEOREM RawRingIsFifo == Spec => RawIsFifo
<1>1. ASSUME RawInv, [Next]_vars
      PROVE  RawInv' /\ [RawFifo!Push \/ RawFifo!Drop \/ RawFifo!Take]_<<RawQueue, raw.DROPPED>>
  <2>1. CASE raw' = raw
    BY <1>1, <2>1, Zenon DEF RawInv, RawQueue
  <2>2. CASE \E e : push(e)
    BY <1>1, <2>2, PushIsPush, Zenon
  <2>3. CASE drain
    BY <1>1, <2>3, DrainIsTake, Zenon
  <2>4. raw' = raw \/ (\E e : push(e)) \/ drain
    <3>1. CASE UNCHANGED vars \/ Signin \/ QueueClick
      BY <3>1, ZenonT(40) DEF vars, inputVars, Signin, signin_test, signin_task, take_pending, run_pending,
           perform, QueueClick
    <3>2. CASE Irq1 \/ Irq12Read \/ Assemble \/ Watchdog \/ MouseSends
      BY <3>2, Zenon DEF Irq1, RingStore, RingPublish, Irq12Read, Assemble, Watchdog, Stalled,
           RecoverLock, SendCommand, ReadAck, MouseSends
    <3>3. CASE \E r \in DOMAIN rd : Reader(r)
      BY <3>3, Zenon DEF Reader, StartRead, TakeLock, RingLoad, Consume, Decide, Wake
    <3>4. CASE \E k \in Keys \cup Releases, down \in BOOLEAN : KeyIrq(k, down)
      BY <3>4, Zenon DEF KeyIrq, push_key
    <3>5. CASE Deliver(Points(size[1], size[2]))
      BY <3>5, Zenon DEF Deliver, push_mouse
    <3> QED
      BY <1>1, <3>1, <3>2, <3>3, <3>4, <3>5, Zenon DEF Next, OfInput, InputNext, User, Irq12
  <2> QED
    BY <2>1, <2>2, <2>3, <2>4, Zenon
<1> QED
  BY RawInit, <1>1, PTL DEF Spec, RawIsFifo, RawFifo!Spec
-----------------------------------------------------------------------------
(***************************************************************************)
(* The click slot.  ClickInv says what the three atomics hold while one    *)
(* CPU is anywhere in queue_click and another anywhere in take_pending and *)
(* run_pending: outside the stores the slot holds the newest press, and a  *)
(* task that has read part of a slot nobody has written since holds the    *)
(* newest press's coordinates.  A press stored in between shows in the     *)
(* flag, which only a task that sleeps takes back.                         *)
(***************************************************************************)
Pair(p) == p = <<p[1], p[2]>>
IsIrq12(r) == DOMAIN r = {"pc", "byte", "at", "pkt"}

ClickType ==
  /\ presses \in Nat /\ taken \in Nat /\ CLICK_PENDING \in BOOLEAN
  /\ DOMAIN task = {"pc", "x", "y"}
  /\ IsIrq12(irq12)
  /\ irq12.pc \in {"x", "y", "flag"} => Pair(irq12.at)
  /\ presses > 0 => Pair(newest)

Storing == irq12.pc \in {"y", "flag"}

ClickInv ==
  /\ ClickType
  /\ taken <= presses /\ (CLICK_PENDING => taken < presses)
  /\ task.pc \in {"test", "draw"} /\ presses > 0 => CLICK_PENDING
  /\ Storing => CLICK_X = irq12.at[1]
  /\ irq12.pc = "flag" => CLICK_Y = irq12.at[2]
  /\ presses > 0 /\ ~Storing => <<CLICK_X, CLICK_Y>> = newest
  /\ presses > 0 /\ ~Storing /\ ~CLICK_PENDING =>
       /\ task.pc \in {"load_y", "act"} => task.x = CLICK_X
       /\ task.pc = "act" => task.y = CLICK_Y
       /\ task.pc = "sleep" => acted = newest

LEMMA IdleIsRecord == IsIrq12(Idle12) /\ Idle12.pc = "idle"
  BY Zenon DEF Idle12, IsIrq12

\* Moving IRQ 12 on to another part.
LEMMA Irq12Record ==
  ASSUME NEW r, IsIrq12(r), NEW pc, NEW v
  PROVE  /\ IsIrq12([r EXCEPT !.pc = pc]) /\ [r EXCEPT !.pc = pc].pc = pc
         /\ [r EXCEPT !.pc = pc].at = r.at
         /\ IsIrq12([r EXCEPT !.pc = pc, !.byte = v]) /\ [r EXCEPT !.pc = pc, !.byte = v].pc = pc
         /\ IsIrq12([r EXCEPT !.pc = pc, !.pkt = v]) /\ [r EXCEPT !.pc = pc, !.pkt = v].pc = pc
         /\ IsIrq12([r EXCEPT !.pc = pc, !.at = v]) /\ [r EXCEPT !.pc = pc, !.at = v].pc = pc
         /\ [r EXCEPT !.pc = pc, !.at = v].at = v
  BY Zenon DEF IsIrq12

LEMMA ClickInit == Init => ClickInv
<1> SUFFICES ASSUME Init PROVE ClickInv
  BY Zenon
<1>1. /\ task = [pc |-> "test", x |-> 0, y |-> 0] /\ irq12 = Idle12
      /\ presses = 0 /\ taken = 0 /\ CLICK_PENDING = FALSE
  BY Zenon DEF Init, InputInit
<1>2. irq12.pc = "idle"
  BY <1>1, IdleIsRecord, Zenon
<1>3. ClickType
  <2>1. DOMAIN task = {"pc", "x", "y"}
    BY <1>1, Zenon
  <2>2. presses \in Nat /\ taken \in Nat /\ ~(presses > 0)
    BY <1>1
  <2>3. CLICK_PENDING \in BOOLEAN
    BY <1>1, Zenon
  <2>4. irq12.pc \notin {"x", "y", "flag"} /\ IsIrq12(irq12)
    BY <1>1, <1>2, IdleIsRecord, Zenon DEF IsIrq12
  <2> QED
    BY <2>1, <2>2, <2>3, <2>4, Zenon DEF ClickType
<1> QED
  BY <1>1, <1>2, <1>3 DEF ClickInv, Storing

\* An input step leaves IRQ 12 where it is, or moves it between the parts before queue_click
\* or to the start of it, with the cursor's position at hand.
LEMMA Irq12Moves ==
  ASSUME ClickType, NEW w, NEW h, InputNext(Points(w, h))
  PROVE  \/ irq12' = irq12
         \/ /\ irq12.pc \notin {"x", "y", "flag"} /\ irq12'.pc \notin {"y", "flag"}
            /\ IsIrq12(irq12')
            /\ irq12'.pc = "x" => Pair(irq12'.at)
<1> USE DEF ClickType, IsIrq12
<1>1. CASE Irq12Read
  BY <1>1, Irq12Record, Zenon DEF Irq12Read
<1>2. CASE Assemble
  <2>1. irq12.pc = "byte"
    BY <1>2, Zenon DEF Assemble
  <2>2. irq12' = Idle12 \/ \E pkt : irq12' = [irq12 EXCEPT !.pc = "push", !.pkt = pkt]
    BY <1>2, Zenon DEF Assemble, FirstByte, SecondByte, ThirdByte
  <2> QED
    BY <2>1, <2>2, IdleIsRecord, Irq12Record DEF IsIrq12
<1>3. CASE Deliver(Points(w, h))
  <2>1. \A p \in Points(w, h) : Pair(p)
    BY DEF Points, Pair
  <2>2. irq12.pc = "push"
    BY <1>3, Zenon DEF Deliver
  <2>3. irq12' = Idle12 \/ \E p \in Points(w, h) : irq12' = [irq12 EXCEPT !.pc = "x", !.at = p]
    BY <1>3, Zenon DEF Deliver
  <2> QED
    BY <2>1, <2>2, <2>3, IdleIsRecord, Irq12Record DEF Pair
<1>4. CASE Irq1 \/ drain \/ Watchdog \/ User
  BY <1>4, Zenon DEF Irq1, RingStore, RingPublish, drain, Watchdog, Stalled, RecoverLock, SendCommand,
       ReadAck, User, MouseSends, KeyIrq, mouseVars
<1>5. CASE \E r \in DOMAIN rd : Reader(r)
  BY <1>5, Zenon DEF Reader, StartRead, TakeLock, RingLoad, Consume, Decide, Wake, mouseVars
<1> QED
  BY <1>1, <1>2, <1>3, <1>4, <1>5, Zenon DEF InputNext, Irq12

\* Each step of the interrupt and of the task keeps ClickInv.
LEMMA ClickStep == ClickInv /\ [Next]_vars => ClickInv'
<1> SUFFICES ASSUME ClickInv, [Next]_vars PROVE ClickInv'
  BY Zenon
<1>1. CASE OfInput(InputNext(Points(size[1], size[2])))
  <2>1. UNCHANGED <<slot, task, ghosts>>
    BY <1>1, Zenon DEF OfInput
  <2>2. CASE irq12' = irq12
    BY <2>1, <2>2, Zenon DEF slot, ghosts, ClickInv, ClickType, Storing, IsIrq12
  <2>3. CASE irq12' # irq12
    <3>1. ClickType
      BY Zenon DEF ClickInv
    <3>2. /\ irq12.pc \notin {"x", "y", "flag"} /\ irq12'.pc \notin {"y", "flag"}
          /\ IsIrq12(irq12')
          /\ irq12'.pc = "x" => Pair(irq12'.at)
      BY <1>1, <2>3, <3>1, Irq12Moves, Zenon DEF OfInput
    <3> QED
      BY <2>1, <3>2, Zenon DEF slot, ghosts, ClickInv, ClickType, Storing, IsIrq12
  <2> QED
    BY <2>2, <2>3, Zenon
<1>2. CASE QueueClick
  <2>1. UNCHANGED <<task, taken, acted>>
    BY <1>2, Zenon DEF QueueClick
  <2>2. CASE StoreX
    BY <2>1, <2>2, Irq12Record, Zenon DEF StoreX, ClickInv, ClickType, Storing, IsIrq12
  <2>3. CASE StoreY
    BY <2>1, <2>3, Irq12Record, Zenon DEF StoreY, ClickInv, ClickType, Storing, IsIrq12
  <2>4. CASE StoreFlag
    <3>1. /\ irq12' = Idle12 /\ CLICK_PENDING' = TRUE /\ presses' = presses + 1
          /\ newest' = irq12.at /\ CLICK_X' = CLICK_X /\ CLICK_Y' = CLICK_Y
          /\ irq12.pc = "flag"
      BY <2>4, Zenon DEF StoreFlag
    <3>2. Pair(irq12.at) /\ CLICK_X = irq12.at[1] /\ CLICK_Y = irq12.at[2]
      BY <3>1, Zenon DEF ClickInv, ClickType, Storing, IsIrq12
    <3> QED
      BY <2>1, <3>1, <3>2, IdleIsRecord DEF ClickInv, ClickType, Storing, IsIrq12, Pair
  <2> QED
    BY <1>2, <2>2, <2>3, <2>4, Zenon DEF QueueClick, queue_click
<1>3. CASE Signin
  <2>1. UNCHANGED <<irq12, CLICK_X, CLICK_Y, presses, newest>>
    BY <1>3, Zenon DEF Signin, signin_test, signin_task, take_pending, run_pending, perform, slot,
         ghosts, inputVars, mouseVars
  <2>2. CASE signin_test \/ signin_task
    <3>1. UNCHANGED <<CLICK_PENDING, taken, acted>>
      BY <2>2, Zenon DEF signin_test, signin_task, slot, ghosts
    <3>2. /\ task' = [task EXCEPT !.pc = "draw"] \/ task' = [task EXCEPT !.pc = "sleep"]
          /\ task.pc \in {"test", "draw"}
      BY <2>2, Zenon DEF signin_test, signin_task
    <3> QED
      BY <2>1, <3>1, <3>2, Zenon DEF ClickInv, ClickType, Storing, IsIrq12
  <2>3. CASE take_pending
    <3>1. CASE task.pc = "sleep"
      <4>1. /\ CLICK_PENDING /\ CLICK_PENDING' = FALSE /\ taken' = taken + 1
            /\ task' = [task EXCEPT !.pc = "load_x"] /\ acted' = acted
        BY <2>3, <3>1, Zenon DEF take_pending
      <4>2. task'.pc = "load_x" /\ DOMAIN task' = DOMAIN task
        BY <4>1, Zenon DEF ClickInv, ClickType
      <4>3. taken' \in Nat /\ taken' <= presses
        BY <4>1 DEF ClickInv, ClickType
      <4>4. CLICK_PENDING' \in BOOLEAN
        BY <4>1, ZenonT(40)
      <4> QED
        BY <2>1, <4>1, <4>2, <4>3, <4>4, Zenon DEF ClickInv, ClickType, Storing, IsIrq12, Pair
    <3>2. CASE task.pc = "load_x"
      <4>1. /\ task' = [task EXCEPT !.pc = "load_y", !.x = CLICK_X]
            /\ UNCHANGED <<CLICK_PENDING, taken, acted>>
        BY <2>3, <3>2, Zenon DEF take_pending
      <4>2. task'.pc = "load_y" /\ task'.x = CLICK_X /\ DOMAIN task' = DOMAIN task
        BY <4>1, Zenon DEF ClickInv, ClickType
      <4> QED
        BY <2>1, <4>1, <4>2, Zenon DEF ClickInv, ClickType, Storing, IsIrq12, Pair
    <3>3. CASE task.pc = "load_y"
      <4>1. /\ task' = [task EXCEPT !.pc = "act", !.y = CLICK_Y]
            /\ UNCHANGED <<CLICK_PENDING, taken, acted>>
        BY <2>3, <3>3, Zenon DEF take_pending
      <4>2. /\ task'.pc = "act" /\ task'.x = task.x /\ task'.y = CLICK_Y
            /\ DOMAIN task' = DOMAIN task
        BY <4>1, Zenon DEF ClickInv, ClickType
      <4> QED
        BY <2>1, <3>3, <4>1, <4>2, Zenon DEF ClickInv, ClickType, Storing, IsIrq12
    <3> QED
      BY <2>3, <3>1, <3>2, <3>3, Zenon DEF take_pending
  <2>4. CASE run_pending
    <3>1. task.pc = "act" /\ acted' = <<task.x, task.y>> /\ UNCHANGED <<CLICK_PENDING, taken>>
      BY <2>4, Zenon DEF run_pending, slot
    <3>2. task' = [task EXCEPT !.pc = "sleep"] \/ task' = [task EXCEPT !.pc = "perform"]
      <4> DEFINE click == classify_click(size[1], size[2], MENU_OPEN, task.x, task.y)
      <4>1. click[1] \in {"item", "power", "signin", "outside"}
        BY Zenon DEF classify_click
      <4> HIDE DEF click
      <4>2. ASSUME on_click(click)
            PROVE  task' = [task EXCEPT !.pc = "sleep"] \/ task' = [task EXCEPT !.pc = "perform"]
        BY <4>1, <4>2, Zenon DEF on_click, PressPower, PressItem, PressSignIn, PressOutside
      <4> QED
        BY <2>4, <4>2, Zenon DEF run_pending, click
    <3>3. /\ task'.pc \in {"sleep", "perform"}
          /\ DOMAIN task' = DOMAIN task
      BY <3>2, Zenon DEF ClickInv, ClickType
    <3>4. (presses > 0 /\ ~Storing /\ ~CLICK_PENDING) => acted' = newest
      BY <3>1, Zenon DEF ClickInv
    <3> QED
      BY <2>1, <3>1, <3>3, <3>4, Zenon DEF ClickInv, ClickType, Storing, IsIrq12
  <2>5. CASE perform
    <3>1. task' = [task EXCEPT !.pc = "halted"] /\ UNCHANGED <<CLICK_PENDING, taken, acted>>
      BY <2>5, Zenon DEF perform, slot, ghosts
    <3> QED
      BY <2>1, <3>1, Zenon DEF ClickInv, ClickType, Storing, IsIrq12
  <2> QED
    BY <1>3, <2>2, <2>3, <2>4, <2>5, Zenon DEF Signin
<1>4. CASE UNCHANGED vars
  BY <1>4, Zenon DEF vars, inputVars, mouseVars, slot, ghosts, ClickInv, ClickType, Storing, IsIrq12
<1> QED
  BY <1>1, <1>2, <1>3, <1>4, Zenon DEF Next

\* No press is lost, doubled or mixed with another between queue_click on one CPU and
\* take_pending on another, on a screen of any size and whatever the mouse sends.
THEOREM ClicksAreActedOn == Spec => []ClicksAreActed
<1>1. ClickInv => ClicksAreActed
  BY Zenon DEF ClickInv, ClickType, ClicksAreActed, Storing
<1> QED
  BY ClickInit, ClickStep, <1>1, PTL DEF Spec
-----------------------------------------------------------------------------
(***************************************************************************)
(* The mouse's byte stream.  FrameInv says that as long as the watchdog    *)
(* has met no packet and IRQ 12 no empty port (~torn), the byte IRQ 12 has *)
(* read and the bytes in                                                   *)
(* the i8042 are, in order, the bytes of the packets sent from the one the *)
(* assembly waits for, behind at most one acknowledgement that the         *)
(* watchdog has yet to read; and FLAGS and DX are of the oldest packet.    *)
(***************************************************************************)

\* The j-th byte of the packets s, sent one after the other.
ByteOf(s, j) == s[((j - 1) \div 3) + 1][((j - 1) % 3) + 1]

InByte == irq12.pc = "byte"

\* Bytes of the packets in sent that have left the wire.
Gone == IF InByte THEN asm.IDX + 1 ELSE asm.IDX

\* After skip bytes of the watchdog's, the bytes w are the packets s but for the first g bytes.
StreamOf(w, s, g, skip) ==
  /\ Len(w) = (3 * Len(s)) - g + skip
  /\ \A j \in (g + 1)..(3 * Len(s)) : w[j - g + skip] = ByteOf(s, j)

Stream(skip) == StreamOf(wire, sent, Gone, skip)

FrameType ==
  /\ sent \in Seq(Packets) /\ IsIrq12(irq12)
  /\ DOMAIN asm = {"IDX", "FLAGS", "DX", "PREV_LEFT"} /\ asm.IDX \in 0..2
  /\ DOMAIN dog = {"pc", "cmd"} /\ dog.pc \in {"sleep", "lock", "send", "ack"}
  /\ dog.cmd \in 1..5
  /\ ksl = IF dog.pc \in {"send", "ack"} THEN "dog" ELSE "free"

Assembled ==
  /\ ksl = "dog" => ~InByte /\ asm.IDX = 0
  /\ InByte => sent # <<>> /\ irq12.byte = ByteOf(sent, asm.IDX + 1)
  /\ asm.IDX # 0 => sent # <<>> /\ asm.FLAGS = sent[1][1]
  /\ asm.IDX = 2 => asm.DX = Signed(sent[1][2], Bit(sent[1][1], 16))

Queued ==
  /\ dog.pc \in {"sleep", "lock"} \/ (dog.pc = "send" /\ dog.cmd = 1) => Stream(0)
  /\ dog.pc = "ack" /\ dog.cmd = 1 => ~streaming /\ Len(wire) = (3 * Len(sent)) + 1
  /\ dog.pc = "send" /\ dog.cmd # 1 => ~streaming /\ wire = <<>> /\ sent = <<>>
  /\ dog.pc = "ack" /\ dog.cmd # 1 => /\ wire # <<>> /\ wire[1] = ACK /\ Stream(1)
                                      /\ dog.cmd < 5 => ~streaming /\ sent = <<>>

FrameInv == FrameType /\ FramesAreSent /\ (~torn => wire \in Seq(Nat) /\ Assembled /\ Queued)

LEMMA PacketBytes ==
  ASSUME NEW p \in Packets
  PROVE  /\ p \in Seq(Nat) /\ Len(p) = 3 /\ p[1] \in Nat /\ p[2] \in Nat /\ p[3] \in Nat
         /\ Bit(p[1], 8)
<1>1. p \in [1..3 -> 0..255] /\ (p[1] \div 8) % 2 = 1
  BY PacketsAssumption, Zenon
<1>2. p[1] \in Nat /\ p[2] \in Nat /\ p[3] \in Nat
  BY <1>1
<1>3. p \in Seq(Nat) /\ Len(p) = 3
  <2>1. p = [i \in 1..3 |-> p[i]] /\ \A i \in 1..3 : p[i] \in Nat
    BY <1>1
  <2>2. [i \in 1..3 |-> p[i]] \in Seq(Nat)
    BY <2>1
  <2>3. Len([i \in 1..3 |-> p[i]]) = 3
    OBVIOUS
  <2> QED
    BY <2>1, <2>2, <2>3, Zenon
<1>4. Bit(p[1], 8)
  BY <1>1, Zenon DEF Bit
<1> QED
  BY <1>2, <1>3, <1>4, Zenon

\* The bytes of one more packet follow those of the packets before it.
LEMMA BytesAppend ==
  ASSUME NEW s \in Seq(Packets), NEW p \in Packets
  PROVE  /\ \A j \in 1..(3 * Len(s)) : ByteOf(Append(s, p), j) = ByteOf(s, j)
         /\ \A k \in 1..3 : ByteOf(Append(s, p), (3 * Len(s)) + k) = p[k]
<1>1. Len(s) \in Nat /\ Append(s, p)[Len(s) + 1] = p
      /\ \A i \in 1..Len(s) : Append(s, p)[i] = s[i]
  OBVIOUS
<1>2. ASSUME NEW j \in 1..(3 * Len(s))
      PROVE  ByteOf(Append(s, p), j) = ByteOf(s, j)
  <2>1. ((j - 1) \div 3) + 1 \in 1..Len(s)
    BY <1>1
  <2> QED
    BY <1>1, <2>1, Zenon DEF ByteOf
<1>3. ASSUME NEW k \in 1..3
      PROVE  ByteOf(Append(s, p), (3 * Len(s)) + k) = p[k]
  <2>1. /\ ((((3 * Len(s)) + k) - 1) \div 3) + 1 = Len(s) + 1
        /\ ((((3 * Len(s)) + k) - 1) % 3) + 1 = k
    BY <1>1
  <2> QED
    BY <1>1, <2>1, Zenon DEF ByteOf
<1> QED
  BY <1>2, <1>3, Zenon

\* The first three bytes are the oldest packet's, the others those of the rest.
LEMMA BytesTail ==
  ASSUME NEW s \in Seq(Packets), s # <<>>
  PROVE  /\ \A k \in 1..3 : ByteOf(s, k) = s[1][k]
         /\ Tail(s) \in Seq(Packets) /\ Len(Tail(s)) = Len(s) - 1
         /\ \A j \in 1..(3 * (Len(s) - 1)) : ByteOf(Tail(s), j) = ByteOf(s, j + 3)
<1>1. /\ Len(s) \in Nat /\ Len(s) > 0 /\ Tail(s) \in Seq(Packets) /\ Len(Tail(s)) = Len(s) - 1
      /\ \A i \in 1..(Len(s) - 1) : Tail(s)[i] = s[i + 1]
  OBVIOUS
<1>2. ASSUME NEW k \in 1..3 PROVE ByteOf(s, k) = s[1][k]
  <2>1. ((k - 1) \div 3) + 1 = 1 /\ ((k - 1) % 3) + 1 = k
    OBVIOUS
  <2> QED
    BY <2>1, Zenon DEF ByteOf
<1>3. ASSUME NEW j \in 1..(3 * (Len(s) - 1))
      PROVE  ByteOf(Tail(s), j) = ByteOf(s, j + 3)
  <2>1. /\ ((j - 1) \div 3) + 1 \in 1..(Len(s) - 1)
        /\ (((j + 3) - 1) \div 3) + 1 = (((j - 1) \div 3) + 1) + 1
        /\ (((j + 3) - 1) % 3) + 1 = ((j - 1) % 3) + 1
    BY <1>1
  <2> QED
    BY <1>1, <2>1, Zenon DEF ByteOf
<1> QED
  BY <1>1, <1>2, <1>3, Zenon

\* A packet sent goes to the end of the stream.
LEMMA StreamAppend ==
  ASSUME NEW w \in Seq(Nat), NEW s \in Seq(Packets), NEW g \in 0..3, NEW skip \in {0, 1},
         NEW p \in Packets, StreamOf(w, s, g, skip)
  PROVE  StreamOf(w \o p, Append(s, p), g, skip)
<1> DEFINE n == Len(s)
           l == Len(w)
           t == Append(s, p)
<1>1. n \in Nat /\ l \in Nat /\ Len(t) = n + 1
  OBVIOUS
<1>2. l = (3 * n) - g + skip /\ \A j \in (g + 1)..(3 * n) : w[j - g + skip] = ByteOf(s, j)
  BY Zenon DEF StreamOf
<1>3. p \in Seq(Nat) /\ Len(p) = 3
  BY PacketBytes, Zenon
<1>4. Len(w \o p) = l + 3 /\ \A i \in 1..(l + 3) : (w \o p)[i] = IF i <= l THEN w[i] ELSE p[i - l]
  <2>1. /\ Len(w \o p) = Len(w) + Len(p)
        /\ \A i \in 1..(Len(w) + Len(p)) : (w \o p)[i] = IF i <= Len(w) THEN w[i] ELSE p[i - Len(w)]
    BY <1>3, SeqConcat, ZenonT(40)
  <2> QED
    BY <1>3, <2>1, Zenon
<1>5. /\ \A j \in 1..(3 * n) : ByteOf(t, j) = ByteOf(s, j)
      /\ \A k \in 1..3 : ByteOf(t, (3 * n) + k) = p[k]
  BY BytesAppend, Zenon
<1> HIDE DEF n, l, t
<1>6. ASSUME NEW j \in (g + 1)..(3 * (n + 1))
      PROVE  (w \o p)[j - g + skip] = ByteOf(t, j)
  <2>1. CASE j <= 3 * n
    <3>1. j \in (g + 1)..(3 * n) /\ j \in 1..(3 * n)
      BY <1>1, <2>1
    <3>2. j - g + skip \in 1..(l + 3) /\ j - g + skip <= l
      BY <1>1, <1>2, <3>1
    <3> QED
      BY <1>2, <1>4, <1>5, <3>1, <3>2, Zenon
  <2>2. CASE j > 3 * n
    <3>1. j - (3 * n) \in 1..3 /\ (3 * n) + (j - (3 * n)) = j
      BY <1>1, <2>2
    <3>2. /\ j - g + skip \in 1..(l + 3) /\ ~(j - g + skip <= l)
          /\ (j - g + skip) - l = j - (3 * n)
      BY <1>1, <1>2, <2>2
    <3>3. ByteOf(t, j) = p[j - (3 * n)]
      BY <1>5, <3>1, Zenon
    <3> QED
      BY <1>4, <3>2, <3>3, Zenon
  <2>3. j <= 3 * n \/ j > 3 * n
    BY <1>1
  <2> QED
    BY <2>1, <2>2, <2>3, Zenon
<1>7. Len(w \o p) = (3 * (n + 1)) - g + skip
  <2>1. Len(w \o p) = l + 3
    BY <1>4, Zenon
  <2> QED
    BY <1>1, <1>2, <2>1, SMTT(40)
<1> QED
  BY <1>1, <1>6, <1>7, Zenon DEF StreamOf, t

\* The byte read is the next one the assembly waits for.
LEMMA StreamRead ==
  ASSUME NEW w \in Seq(Nat), NEW s \in Seq(Packets), NEW g \in 0..2, StreamOf(w, s, g, 0), w # <<>>
  PROVE  StreamOf(Tail(w), s, g + 1, 0) /\ w[1] = ByteOf(s, g + 1) /\ s # <<>>
<1> DEFINE n == Len(s)
           l == Len(w)
<1>1. n \in Nat /\ l \in Nat /\ l > 0 /\ Len(Tail(w)) = l - 1
      /\ \A i \in 1..(l - 1) : Tail(w)[i] = w[i + 1]
  OBVIOUS
<1>2. l = (3 * n) - g + 0 /\ \A j \in (g + 1)..(3 * n) : w[j - g + 0] = ByteOf(s, j)
  BY Zenon DEF StreamOf
<1> HIDE DEF n, l
<1>3. g + 1 \in (g + 1)..(3 * n) /\ (g + 1) - g + 0 = 1 /\ n # 0
  BY <1>1, <1>2
<1>4. w[1] = ByteOf(s, g + 1)
  BY <1>2, <1>3, Zenon
<1>5. ASSUME NEW j \in (g + 1 + 1)..(3 * n)
      PROVE  Tail(w)[j - (g + 1) + 0] = ByteOf(s, j)
  <2>1. /\ j - (g + 1) + 0 \in 1..(l - 1) /\ (j - (g + 1) + 0) + 1 = j - g + 0
        /\ j \in (g + 1)..(3 * n)
    BY <1>1, <1>2
  <2> QED
    BY <1>1, <1>2, <2>1, Zenon
<1>6. Len(Tail(w)) = (3 * n) - (g + 1) + 0
  BY <1>1, <1>2
<1> QED
  BY <1>3, <1>4, <1>5, <1>6 DEF StreamOf, n

\* A completed packet leaves.
LEMMA StreamShift ==
  ASSUME NEW w \in Seq(Nat), NEW s \in Seq(Packets), s # <<>>, StreamOf(w, s, 3, 0)
  PROVE  StreamOf(w, Tail(s), 0, 0)
<1> DEFINE n == Len(s)
           t == Tail(s)
<1>1. n \in Nat /\ n > 0 /\ Len(t) = n - 1
  OBVIOUS
<1>2. Len(w) = (3 * n) - 3 + 0 /\ \A j \in (3 + 1)..(3 * n) : w[j - 3 + 0] = ByteOf(s, j)
  BY Zenon DEF StreamOf
<1>3. \A j \in 1..(3 * (n - 1)) : ByteOf(t, j) = ByteOf(s, j + 3)
  BY BytesTail, Zenon
<1> HIDE DEF n, t
<1>4. ASSUME NEW j \in (0 + 1)..(3 * (n - 1))
      PROVE  w[j - 0 + 0] = ByteOf(t, j)
  <2>1. j + 3 \in (3 + 1)..(3 * n) /\ (j + 3) - 3 + 0 = j - 0 + 0 /\ j \in 1..(3 * (n - 1))
    BY <1>1
  <2> QED
    BY <1>2, <1>3, <2>1, Zenon
<1>5. Len(w) = (3 * (n - 1)) - 0 + 0
  BY <1>1, <1>2
<1> QED
  BY <1>1, <1>4, <1>5, Zenon DEF StreamOf, t

\* The acknowledgement leaves.
LEMMA StreamAcked ==
  ASSUME NEW w \in Seq(Nat), NEW s \in Seq(Packets), StreamOf(w, s, 0, 1)
  PROVE  StreamOf(Tail(w), s, 0, 0)
<1> DEFINE n == Len(s)
           l == Len(w)
<1>1. n \in Nat /\ l \in Nat
  OBVIOUS
<1>2. l = (3 * n) - 0 + 1 /\ \A j \in (0 + 1)..(3 * n) : w[j - 0 + 1] = ByteOf(s, j)
  BY Zenon DEF StreamOf
<1>3. w # <<>>
  BY <1>1, <1>2
<1>4. Len(Tail(w)) = l - 1 /\ \A i \in 1..(l - 1) : Tail(w)[i] = w[i + 1]
  BY <1>3
<1> HIDE DEF n, l
<1>5. ASSUME NEW j \in (0 + 1)..(3 * n)
      PROVE  Tail(w)[j - 0 + 0] = ByteOf(s, j)
  <2>1. j - 0 + 0 \in 1..(l - 1) /\ (j - 0 + 0) + 1 = j - 0 + 1
    BY <1>1, <1>2
  <2> QED
    BY <1>2, <1>4, <2>1, Zenon
<1>6. Len(Tail(w)) = (3 * n) - 0 + 0
  BY <1>1, <1>2, <1>4
<1> QED
  BY <1>5, <1>6, Zenon DEF StreamOf, n

\* A packet reaches the wire.
LEMMA SendsFrame ==
  ASSUME FrameInv, MouseSends
  PROVE  FrameInv'
<1>1. PICK p \in Packets : wire' = wire \o p /\ sent' = Append(sent, p)
  BY Zenon DEF MouseSends
<1>2. streaming /\ UNCHANGED <<ksl, streaming, irq12, asm, dog, done, torn>>
  BY Zenon DEF MouseSends
<1>3. sent \in Seq(Packets) /\ asm.IDX \in 0..2 /\ (~torn => wire \in Seq(Nat))
  BY Zenon DEF FrameInv, FrameType
<1>4. p \in Seq(Nat)
  BY PacketBytes, Zenon
<1>5. sent' \in Seq(Packets) /\ sent' # <<>> /\ (sent # <<>> => sent'[1] = sent[1])
  BY <1>1, <1>3
<1>6. ASSUME ~torn PROVE wire' \in Seq(Nat) /\ (wire # <<>> => wire' # <<>> /\ wire'[1] = wire[1])
  <2>0. wire \in Seq(Nat) /\ wire' \in Seq(Nat)
    BY <1>1, <1>3, <1>4, <1>6
  <2>1. wire # <<>> => Len(wire) \in Nat \ {0}
    BY <2>0, SeqEmpty, Zenon
  <2>2. /\ Len(wire') = Len(wire) + Len(p) /\ Len(p) \in Nat
        /\ \A i \in 1..(Len(wire) + Len(p)) : wire'[i] = IF i <= Len(wire) THEN wire[i] ELSE p[i - Len(wire)]
    BY <1>1, <1>4, <2>0, SeqConcat
  <2> QED
    BY <2>0, <2>1, <2>2
<1>7. FrameType'
  BY <1>2, <1>5, Zenon DEF FrameInv, FrameType, IsIrq12
<1>8. FramesAreSent'
  BY <1>2, Zenon DEF FrameInv, FramesAreSent
<1>9. ASSUME ~torn PROVE \A skip \in {0, 1} : Stream(skip) => Stream(skip)'
  <2>1. Gone' = Gone /\ Gone \in 0..3
    BY <1>2, <1>3 DEF Gone, InByte
  <2> QED
    BY <1>1, <1>3, <1>9, <2>1, StreamAppend, Zenon DEF Stream
<1>10. ASSUME ~torn PROVE Assembled'
  <2>1. /\ ksl = "dog" => ~InByte /\ asm.IDX = 0
        /\ InByte => sent # <<>> /\ irq12.byte = ByteOf(sent, asm.IDX + 1)
        /\ asm.IDX # 0 => sent # <<>> /\ asm.FLAGS = sent[1][1]
        /\ asm.IDX = 2 => asm.DX = Signed(sent[1][2], Bit(sent[1][1], 16))
    BY <1>10, Zenon DEF FrameInv, Assembled
  <2>2. sent # <<>> => ByteOf(sent', asm.IDX + 1) = ByteOf(sent, asm.IDX + 1)
    <3>1. sent # <<>> => Len(sent) \in Nat \ {0}
      BY <1>3, SeqEmpty, Zenon
    <3>2. sent # <<>> => asm.IDX + 1 \in 1..(3 * Len(sent))
      BY <1>3, <3>1
    <3> QED
      BY <1>1, <1>3, <3>2, BytesAppend, Zenon
  <2> QED
    BY <1>2, <1>5, <2>1, <2>2 DEF Assembled, InByte
<1>11. ASSUME ~torn PROVE Queued'
  <2>1. \/ dog.pc \in {"sleep", "lock"} \/ (dog.pc = "send" /\ dog.cmd = 1)
        \/ dog.pc = "ack" /\ dog.cmd = 5
    BY <1>2, <1>11 DEF FrameInv, FrameType, Queued
  <2>2. CASE dog.pc \in {"sleep", "lock"} \/ (dog.pc = "send" /\ dog.cmd = 1)
    BY <1>2, <1>9, <1>11, <2>2, Zenon DEF FrameInv, Queued
  <2>3. CASE dog.pc = "ack" /\ dog.cmd = 5
    BY <1>2, <1>6, <1>9, <1>11, <2>3, Zenon DEF FrameInv, Queued
  <2> QED
    BY <2>1, <2>2, <2>3, Zenon
<1> QED
  BY <1>2, <1>6, <1>7, <1>8, <1>10, <1>11, Zenon DEF FrameInv

\* IRQ 12 takes the oldest byte off the wire.
LEMMA ReadsFrame ==
  ASSUME FrameInv, Irq12Read
  PROVE  FrameInv'
<1>1. /\ irq12.pc = "idle" /\ ksl # "dog" /\ torn' = (torn \/ wire = <<>>)
      /\ irq12' = [irq12 EXCEPT !.pc = "byte", !.byte = port']
      /\ wire # <<>> => wire' = Tail(wire) /\ port' = Head(wire)
      /\ UNCHANGED <<ksl, streaming, asm, dog, sent, done>>
  BY Zenon DEF Irq12Read
<1>2. sent \in Seq(Packets) /\ asm.IDX \in 0..2 /\ IsIrq12(irq12)
  BY Zenon DEF FrameInv, FrameType
<1>3. IsIrq12(irq12') /\ irq12'.pc = "byte" /\ (wire # <<>> => irq12'.byte = wire[1])
  <2>1. Head(wire) = wire[1]
    OBVIOUS
  <2> QED
    BY <1>1, <1>2, <2>1, Zenon DEF IsIrq12
<1>4. FrameType'
  BY <1>1, <1>2, <1>3, Zenon DEF FrameInv, FrameType, IsIrq12
<1>5. FramesAreSent'
  BY <1>1, Zenon DEF FrameInv, FramesAreSent
<1>6. ASSUME ~torn' PROVE wire' \in Seq(Nat) /\ Assembled' /\ Queued'
  <2>1. /\ ~torn /\ dog.pc \in {"sleep", "lock"} /\ ksl = "free"
        /\ wire # <<>> /\ wire \in Seq(Nat) /\ wire' = Tail(wire)
    BY <1>1, <1>6, Zenon DEF FrameInv, FrameType
  <2>2. Gone = asm.IDX /\ Gone' = asm.IDX + 1 /\ ~InByte /\ InByte'
    BY <1>1, <1>3, Zenon DEF Gone, InByte
  <2>3. StreamOf(wire, sent, asm.IDX, 0)
    BY <2>1, <2>2, Zenon DEF FrameInv, Queued, Stream
  <2>4. /\ StreamOf(Tail(wire), sent, asm.IDX + 1, 0) /\ wire[1] = ByteOf(sent, asm.IDX + 1)
        /\ sent # <<>>
    BY <1>1, <1>2, <2>1, <2>3, StreamRead, Zenon
  <2>5. Assembled'
    BY <1>1, <1>3, <2>1, <2>2, <2>4, Zenon DEF FrameInv, Assembled
  <2>6. Queued'
    BY <1>1, <2>1, <2>2, <2>4, Zenon DEF Queued, Stream
  <2>7. wire' \in Seq(Nat)
    BY <1>1, <2>1, SeqTail, Zenon
  <2> QED
    BY <2>5, <2>6, <2>7, Zenon
<1> QED
  BY <1>4, <1>5, <1>6, Zenon DEF FrameInv

\* The assembly takes the byte: a packet is complete after its third.
LEMMA AssemblesFrame ==
  ASSUME FrameInv, Assemble
  PROVE  FrameInv'
<1>1. irq12.pc = "byte" /\ ksl = "free" /\ UNCHANGED <<ksl, wire, streaming, dog, torn>>
  BY Zenon DEF Assemble, i8042
<1>2. /\ ~torn => wire \in Seq(Nat)
      /\ sent \in Seq(Packets) /\ asm.IDX \in 0..2 /\ IsIrq12(irq12)
      /\ DOMAIN asm = {"IDX", "FLAGS", "DX", "PREV_LEFT"} /\ dog.pc \in {"sleep", "lock"}
  BY <1>1, Zenon DEF FrameInv, FrameType
<1>3. /\ IsIrq12(irq12') /\ irq12'.pc # "byte"
      /\ DOMAIN asm' = {"IDX", "FLAGS", "DX", "PREV_LEFT"} /\ asm'.IDX \in 0..2
  <2>1. CASE FirstByte(irq12.byte) \/ SecondByte(irq12.byte)
    <3>1. irq12' = Idle12
      BY <2>1, Zenon DEF FirstByte, SecondByte
    <3>2. FirstByte(irq12.byte) => DOMAIN asm' = DOMAIN asm /\ asm'.IDX \in 0..2
      BY <1>2 DEF FirstByte
    <3>3. SecondByte(irq12.byte) => DOMAIN asm' = DOMAIN asm /\ asm'.IDX \in 0..2
      BY <1>2 DEF SecondByte
    <3> QED
      BY <1>2, <2>1, <3>1, <3>2, <3>3, IdleIsRecord, Zenon DEF IsIrq12
  <2>2. CASE ThirdByte(irq12.byte)
    <3>1. irq12' = [irq12 EXCEPT !.pc = "push", !.pkt = Completed(irq12.byte)]
      BY <2>2, Zenon DEF ThirdByte
    <3>2. DOMAIN asm' = DOMAIN asm /\ asm'.IDX = 0
      BY <1>2, <2>2, Zenon DEF ThirdByte
    <3> QED
      BY <1>2, <3>1, <3>2, Irq12Record DEF IsIrq12
  <2> QED
    BY <2>1, <2>2, Zenon DEF Assemble
<1>4. sent' \in Seq(Packets)
  <2>1. sent' = sent \/ (sent # <<>> /\ sent' = Tail(sent))
    BY Zenon DEF Assemble, FirstByte, SecondByte, ThirdByte
  <2> QED
    <3>1. sent # <<>> => Tail(sent) \in Seq(Packets)
      BY <1>2, SeqTail, Zenon
    <3> QED
      BY <1>2, <2>1, <3>1, Zenon
<1>5. FrameType'
  BY <1>1, <1>3, <1>4, Zenon DEF FrameInv, FrameType, IsIrq12
<1>6. ASSUME ~torn
      PROVE  /\ sent # <<>> /\ irq12.byte = sent[1][asm.IDX + 1] /\ sent[1] \in Packets
             /\ asm.IDX # 0 => asm.FLAGS = sent[1][1]
             /\ asm.IDX = 2 => asm.DX = Signed(sent[1][2], Bit(sent[1][1], 16))
             /\ StreamOf(wire, sent, asm.IDX + 1, 0)
  <2>1. InByte /\ Gone = asm.IDX + 1
    BY <1>1, Zenon DEF InByte, Gone
  <2>2. sent # <<>> /\ irq12.byte = ByteOf(sent, asm.IDX + 1)
    BY <1>6, <2>1, Zenon DEF FrameInv, Assembled
  <2>3. asm.IDX + 1 \in 1..3
    BY <1>2
  <2>4. ByteOf(sent, asm.IDX + 1) = sent[1][asm.IDX + 1]
    BY <1>2, <2>2, <2>3, BytesTail, Zenon
  <2>5. Stream(0)
    BY <1>2, <1>6, Zenon DEF FrameInv, Queued
  <2>6. sent[1] \in Packets
    BY <1>2, <2>2
  <2> QED
    BY <1>6, <2>1, <2>2, <2>4, <2>5, <2>6, Zenon DEF FrameInv, Assembled, Stream
<1>7. ~InByte' /\ Gone' = asm'.IDX
  BY <1>3, Zenon DEF InByte, Gone
<1>8. CASE asm.IDX = 0
  <2>1. /\ asm' = IF Bit(irq12.byte, 8) THEN [asm EXCEPT !.FLAGS = irq12.byte, !.IDX = 1] ELSE asm
        /\ UNCHANGED <<sent, done>>
    BY <1>8 DEF Assemble, FirstByte, SecondByte, ThirdByte
  <2>2. ASSUME ~torn PROVE asm'.IDX = 1 /\ asm'.FLAGS = sent[1][1]
    <3>1. irq12.byte = sent[1][1] /\ Bit(sent[1][1], 8)
      BY <1>6, <1>8, <2>2, PacketBytes
    <3> QED
      BY <1>2, <2>1, <3>1, Zenon
  <2>3. ASSUME ~torn PROVE Assembled' /\ Queued'
    <3>1. Assembled'
      BY <1>1, <1>6, <1>7, <2>1, <2>2, <2>3 DEF Assembled
    <3>2. Stream(0)'
      BY <1>1, <1>6, <1>7, <1>8, <2>1, <2>2, <2>3 DEF Stream
    <3> QED
      BY <1>1, <1>2, <3>1, <3>2, Zenon DEF Queued
  <2>4. FramesAreSent'
    BY <1>1, <2>1, Zenon DEF FrameInv, FramesAreSent
  <2> QED
    BY <1>1, <1>2, <1>5, <2>3, <2>4, Zenon DEF FrameInv
<1>9. CASE asm.IDX = 1
  <2>1. /\ asm' = [asm EXCEPT !.DX = Signed(irq12.byte, Bit(asm.FLAGS, 16)), !.IDX = 2]
        /\ UNCHANGED <<sent, done>>
    BY <1>9 DEF Assemble, FirstByte, SecondByte, ThirdByte
  <2>2. /\ asm'.IDX = 2 /\ asm'.FLAGS = asm.FLAGS
        /\ asm'.DX = Signed(irq12.byte, Bit(asm.FLAGS, 16))
    BY <1>2, <2>1, Zenon
  <2>3. ASSUME ~torn PROVE Assembled' /\ Queued'
    <3>1. asm.FLAGS = sent[1][1] /\ irq12.byte = sent[1][2] /\ StreamOf(wire, sent, 2, 0)
      BY <1>6, <1>9, <2>3
    <3>2. Assembled'
      BY <1>1, <1>6, <1>7, <2>1, <2>2, <2>3, <3>1, Zenon DEF Assembled
    <3>3. Stream(0)'
      BY <1>1, <1>7, <2>1, <2>2, <3>1, Zenon DEF Stream
    <3> QED
      BY <1>1, <1>2, <3>2, <3>3, Zenon DEF Queued
  <2>4. FramesAreSent'
    BY <1>1, <2>1, Zenon DEF FrameInv, FramesAreSent
  <2> QED
    BY <1>1, <1>2, <1>5, <2>3, <2>4, Zenon DEF FrameInv
<1>10. CASE asm.IDX = 2
  <2> DEFINE pkt == Completed(irq12.byte)
  <2>1. /\ asm' = [asm EXCEPT !.IDX = 0, !.PREV_LEFT = Bit(asm.FLAGS, 1)]
        /\ irq12' = [irq12 EXCEPT !.pc = "push", !.pkt = pkt]
        /\ done' = {[pkt |-> pkt, of |-> IF sent = <<>> THEN {} ELSE {Head(sent)}]}
        /\ sent' = IF sent = <<>> THEN sent ELSE Tail(sent)
    BY <1>10 DEF Assemble, FirstByte, SecondByte, ThirdByte
  <2>2. asm'.IDX = 0
    BY <1>2, <2>1, Zenon
  <2>3. ASSUME ~torn PROVE Assembled' /\ Queued'
    <3>1. StreamOf(wire, sent, 3, 0) /\ sent # <<>>
      BY <1>6, <1>10, <2>3
    <3>2. StreamOf(wire, Tail(sent), 0, 0)
      BY <1>2, <2>3, <3>1, StreamShift, Zenon
    <3>3. Assembled'
      BY <1>1, <1>7, <2>2 DEF Assembled
    <3>4. Stream(0)'
      BY <1>1, <1>7, <2>1, <2>2, <3>1, <3>2, Zenon DEF Stream
    <3> QED
      BY <1>1, <1>2, <3>3, <3>4, Zenon DEF Queued
  <2>4. FramesAreSent'
    <3>1. CASE torn
      BY <1>1, <3>1, Zenon DEF FramesAreSent
    <3>2. CASE ~torn
      <4>1. /\ sent # <<>> /\ irq12.byte = sent[1][3] /\ asm.FLAGS = sent[1][1]
            /\ asm.DX = Signed(sent[1][2], Bit(sent[1][1], 16))
        BY <1>6, <1>10, <3>2
      <4>2. Head(sent) = sent[1]
        BY <1>2, <4>1
      <4>3. done' = {[pkt |-> pkt, of |-> {sent[1]}]}
        BY <2>1, <4>1, <4>2, Zenon
      <4>5. /\ pkt.dx = Signed(sent[1][2], Bit(sent[1][1], 16))
            /\ pkt.dy = Signed(sent[1][3], Bit(sent[1][1], 32))
            /\ pkt.buttons = sent[1][1] % 4
        BY <4>1, Zenon DEF Completed
      <4> HIDE DEF pkt
      <4>6. \A d \in done' : d.pkt = pkt /\ d.of = {sent[1]}
        BY <4>3
      <4> QED
        BY <4>5, <4>6, Zenon DEF FramesAreSent
    <3> QED
      BY <3>1, <3>2, Zenon
  <2> QED
    BY <1>1, <1>2, <1>5, <2>3, <2>4, Zenon DEF FrameInv
<1> QED
  BY <1>2, <1>8, <1>9, <1>10

\* AfterAck on a wire that starts with the acknowledgement.
LEMMA AckFirst ==
  ASSUME NEW w \in Seq(Nat), w # <<>>, w[1] = ACK
  PROVE  AfterAck(w) = Tail(w)
<1> DEFINE First(i) == w[i] = ACK /\ \A j \in 1..(i - 1) : w[j] # ACK
           at == CHOOSE i \in 1..Len(w) : First(i)
<1>1. Len(w) \in Nat /\ 1 \in 1..Len(w)
  BY SeqEmpty
<1>2. First(1) /\ \A i \in 1..Len(w) : First(i) => i = 1
  BY <1>1
<1>3. AfterAck(w) = SubSeq(w, at + 1, Len(w))
  BY <1>1, Zenon DEF AfterAck
<1> HIDE DEF First
<1>4. at = 1
  BY <1>1, <1>2, Zenon
<1> HIDE DEF at
<1> QED
  BY <1>1, <1>3, <1>4, SeqRest

\* The watchdog's sequence leaves nothing of its own on the wire.
LEMMA WatchdogFrame ==
  ASSUME FrameInv, Watchdog
  PROVE  FrameInv'
<1>1. UNCHANGED <<irq12, asm, sent, done>>
  BY Zenon DEF Watchdog, Stalled, RecoverLock, SendCommand, ReadAck
<1>0. torn => torn'
  <2>1. Stalled \/ SendCommand => (torn => torn')
    BY Zenon DEF Stalled, SendCommand
  <2>2. RecoverLock => (torn => torn')
    BY Zenon DEF RecoverLock
  <2>3. ReadAck => (torn => torn')
    BY Zenon DEF ReadAck
  <2> QED
    BY <2>1, <2>2, <2>3, Zenon DEF Watchdog
<1>2. /\ ~torn => wire \in Seq(Nat)
      /\ sent \in Seq(Packets) /\ asm.IDX \in 0..2 /\ IsIrq12(irq12)
      /\ DOMAIN dog = {"pc", "cmd"} /\ dog.cmd \in 1..5
  BY Zenon DEF FrameInv, FrameType
<1>3. FramesAreSent'
  BY <1>0, <1>1, Zenon DEF FrameInv, FramesAreSent
<1>4. Gone' = Gone /\ (InByte' <=> InByte)
  BY <1>1, Zenon DEF Gone, InByte
<1>5. ASSUME ~torn, ksl' = "dog" => ~InByte /\ asm.IDX = 0
      PROVE  Assembled'
  BY <1>1, <1>4, <1>5, Zenon DEF FrameInv, Assembled
<1>6. CASE Stalled
  <2>1. /\ dog.pc = "sleep" /\ dog' = [dog EXCEPT !.pc = "lock"]
        /\ UNCHANGED <<ksl, wire, streaming, torn>>
    BY <1>6, Zenon DEF Stalled, i8042
  <2>2. DOMAIN dog' = DOMAIN dog /\ dog'.pc = "lock" /\ dog'.cmd = dog.cmd
    BY <1>2, <2>1, Zenon
  <2>3. FrameType'
    BY <1>1, <2>1, <2>2, Zenon DEF FrameInv, FrameType
  <2>4. ASSUME ~torn PROVE Assembled' /\ Queued'
    <3>1. ksl = "free"
      BY <2>1, Zenon DEF FrameInv, FrameType
    <3>2. Stream(0) /\ (Stream(0)' <=> Stream(0))
      BY <1>1, <1>4, <2>1, <2>4, Zenon DEF FrameInv, Queued, Stream
    <3> QED
      BY <1>5, <2>1, <2>2, <2>4, <3>1, <3>2, Zenon DEF Queued
  <2> QED
    BY <1>2, <1>3, <2>1, <2>3, <2>4, Zenon DEF FrameInv
<1>7. CASE RecoverLock
  <2>1. /\ dog.pc = "lock" /\ ksl' = "dog" /\ dog' = [dog EXCEPT !.pc = "send", !.cmd = 1]
        /\ torn' = (torn \/ asm.IDX # 0 \/ wire # <<>>) /\ irq12.pc = "idle"
        /\ UNCHANGED <<wire, streaming>>
    BY <1>7, Zenon DEF RecoverLock, i8042
  <2>2. DOMAIN dog' = DOMAIN dog /\ dog'.pc = "send" /\ dog'.cmd = 1
    BY <1>2, <2>1, Zenon
  <2>3. FrameType'
    BY <1>1, <2>1, <2>2 DEF FrameInv, FrameType
  <2>4. ASSUME ~torn' PROVE Assembled' /\ Queued'
    <3>1. ~torn /\ ~InByte /\ asm.IDX = 0
      BY <2>1, <2>4, ZenonT(40) DEF InByte
    <3>2. Stream(0) /\ (Stream(0)' <=> Stream(0))
      BY <1>1, <1>4, <2>1, <3>1, Zenon DEF FrameInv, Queued, Stream
    <3> QED
      BY <1>5, <2>2, <3>1, <3>2, Zenon DEF Queued
  <2> QED
    BY <1>0, <1>2, <1>3, <2>1, <2>3, <2>4, Zenon DEF FrameInv
<1>8. CASE SendCommand
  <2>1. /\ dog.pc = "send" /\ wire' = Append(wire, ACK) /\ dog' = [dog EXCEPT !.pc = "ack"]
        /\ UNCHANGED <<ksl, torn>>
        /\ streaming' = (Commands[dog.cmd] # 245 /\ (streaming \/ Commands[dog.cmd] = 244))
    BY <1>8, Zenon DEF SendCommand
  <2>2. DOMAIN dog' = DOMAIN dog /\ dog'.pc = "ack" /\ dog'.cmd = dog.cmd
    BY <1>2, <2>1, Zenon
  <2>3. ~torn => /\ wire' \in Seq(Nat) /\ wire' # <<>> /\ Len(wire') = Len(wire) + 1
                 /\ wire = <<>> => wire' = <<ACK>>
    <3>1. ACK \in Nat
      BY DEF ACK
    <3>2. ~torn => wire' \in Seq(Nat) /\ wire' # <<>> /\ Len(wire') = Len(wire) + 1
      BY <1>2, <2>1, <3>1, SeqAppend
    <3>3. wire = <<>> => wire' = <<ACK>>
      BY <2>1
    <3> QED
      BY <3>2, <3>3, Zenon
  <2>4. FrameType'
    BY <1>1, <2>1, <2>2, <2>3, Zenon DEF FrameInv, FrameType
  <2>5. ASSUME ~torn PROVE Assembled' /\ Queued'
    <3>1. ~InByte /\ asm.IDX = 0 /\ Gone = 0 /\ ksl = "dog"
      BY <2>1, <2>5, Zenon DEF FrameInv, FrameType, Assembled, Gone
    <3>2. CASE dog.cmd = 1
      <4>1. ~streaming'
        <5>1. Commands[1] = 245
          BY Zenon DEF Commands
        <5> QED
          BY <2>1, <3>2, <5>1, ZenonT(40)
      <4>2. Len(wire) = (3 * Len(sent)) - 0 + 0
        BY <2>1, <2>5, <3>1, <3>2, Zenon DEF FrameInv, Queued, Stream, StreamOf
      <4>3. Len(wire') = (3 * Len(sent)) + 1
        BY <1>2, <2>3, <2>5, <4>2
      <4> QED
        BY <1>1, <1>5, <2>1, <2>2, <2>5, <3>1, <3>2, <4>1, <4>3, Zenon DEF Queued
    <3>3. CASE dog.cmd # 1
      <4>1. ~streaming /\ wire = <<>> /\ sent = <<>>
        BY <2>1, <2>5, <3>3, Zenon DEF FrameInv, Queued
      <4>2. dog.cmd < 5 => ~streaming'
        <5>1. Commands[2] # 244 /\ Commands[3] # 244 /\ Commands[4] # 244
          BY DEF Commands
        <5>2. dog.cmd < 5 => Commands[dog.cmd] # 244
          BY <1>2, <3>3, <5>1
        <5> QED
          BY <2>1, <4>1, <5>2, ZenonT(40)
      <4>3. wire' = <<ACK>> /\ wire'[1] = ACK /\ Len(wire') = 1 /\ Len(sent) = 0
        BY <2>3, <2>5, <4>1
      <4>4. Stream(1)'
        BY <1>1, <1>4, <3>1, <4>3 DEF Stream, StreamOf
      <4> QED
        BY <1>1, <1>5, <2>1, <2>2, <2>3, <2>5, <3>1, <3>3, <4>1, <4>2, <4>3, <4>4, Zenon DEF Queued
    <3> QED
      BY <3>2, <3>3, Zenon
  <2> QED
    BY <1>3, <2>1, <2>3, <2>4, <2>5, Zenon DEF FrameInv
<1>9. CASE ReadAck
  <2>1. /\ dog.pc = "ack" /\ wire' = (IF dog.cmd = 1 THEN <<>> ELSE AfterAck(wire))
        /\ torn' = (torn \/ (dog.cmd = 1 /\ wire # <<ACK>>)) /\ streaming' = streaming
    BY <1>9, Zenon DEF ReadAck
  <2>2. IF dog.cmd < 5
        THEN dog' = [dog EXCEPT !.pc = "send", !.cmd = @ + 1] /\ ksl' = ksl
        ELSE dog' = [pc |-> "sleep", cmd |-> 1] /\ ksl' = "free"
    BY <1>9, Zenon DEF ReadAck, Commands
  <2>3. dog.cmd < 5 => /\ DOMAIN dog' = DOMAIN dog /\ dog'.pc = "send" /\ ksl' = "dog"
                       /\ dog'.cmd = dog.cmd + 1
    <3>1. ksl = "dog"
      BY <2>1, Zenon DEF FrameInv, FrameType
    <3> QED
      BY <1>2, <2>2, <3>1, ZenonT(40)
  <2>4. ~(dog.cmd < 5) => /\ DOMAIN dog' = DOMAIN dog /\ dog'.pc = "sleep" /\ ksl' = "free"
                          /\ dog'.cmd = 1
    BY <1>2, <2>2
  <2>5. FrameType'
    BY <1>1, <1>2, <2>3, <2>4 DEF FrameInv, FrameType
  <2>6. ASSUME ~torn' PROVE wire' \in Seq(Nat) /\ Assembled' /\ Queued'
    <3>1. ~torn /\ wire \in Seq(Nat)
      BY <1>0, <2>6, Zenon DEF FrameInv
    <3>2. ~InByte /\ asm.IDX = 0 /\ Gone = 0
      BY <2>1, <3>1, Zenon DEF FrameInv, FrameType, Assembled, Gone
    <3>3. Assembled'
      BY <1>5, <3>1, <3>2, Zenon
    <3>4. CASE dog.cmd = 1
      <4>1. ~streaming /\ Len(wire) = (3 * Len(sent)) + 1
        BY <2>1, <3>1, <3>4, Zenon DEF FrameInv, Queued
      <4>2. wire = <<ACK>>
        BY <2>1, <2>6, <3>4, Zenon
      <4>3. sent = <<>>
        <5>1. Len(wire) = 1 /\ Len(sent) \in Nat
          BY <1>2, <4>2
        <5>2. \A n \in Nat : 1 = (3 * n) + 1 => n = 0
          OBVIOUS
        <5>3. Len(sent) = 0
          BY <4>1, <5>1, <5>2, ZenonT(40)
        <5> QED
          BY <1>2, <5>3, SeqEmpty, Zenon
      <4>4. wire' = <<>> /\ dog'.pc = "send" /\ dog'.cmd = 2
        BY <2>1, <2>3, <3>4
      <4>5. Queued'
        BY <1>1, <2>1, <4>1, <4>3, <4>4 DEF Queued
      <4>6. wire' \in Seq(Nat)
        BY <4>4, SeqEmpty, Zenon
      <4> QED
        BY <3>3, <4>5, <4>6, Zenon
    <3>5. CASE dog.cmd # 1
      <4>1. /\ wire # <<>> /\ wire[1] = ACK /\ StreamOf(wire, sent, 0, 1)
            /\ dog.cmd < 5 => ~streaming /\ sent = <<>>
        BY <2>1, <3>1, <3>2, <3>5, Zenon DEF FrameInv, Queued, Stream
      <4>2. wire' = Tail(wire)
        BY <2>1, <3>1, <3>5, <4>1, AckFirst, Zenon
      <4>3. StreamOf(wire', sent, 0, 0) /\ wire' \in Seq(Nat)
        BY <1>2, <3>1, <4>1, <4>2, StreamAcked, SeqTail, Zenon
      <4>4. CASE dog.cmd < 5
        <5>1. Len(wire') = (3 * Len(sent)) - 0 + 0 /\ Len(sent) = 0
          BY <4>1, <4>3, <4>4, Zenon DEF StreamOf
        <5>2. wire' = <<>>
          BY <4>3, <5>1, SeqEmpty
        <5>3. dog'.pc = "send" /\ dog'.cmd # 1
          BY <1>2, <2>3, <4>4
        <5> QED
          BY <1>1, <2>1, <3>3, <4>1, <4>3, <4>4, <5>2, <5>3, Zenon DEF Queued
      <4>5. CASE ~(dog.cmd < 5)
        <5>1. Stream(0)'
          BY <1>1, <1>4, <3>2, <4>3, Zenon DEF Stream
        <5> QED
          BY <2>4, <3>3, <4>3, <4>5, <5>1, Zenon DEF Queued
      <4> QED
        BY <4>4, <4>5, Zenon
    <3> QED
      BY <3>4, <3>5, Zenon
  <2> QED
    BY <1>3, <2>5, <2>6, Zenon DEF FrameInv
<1> QED
  BY <1>6, <1>7, <1>8, <1>9, Zenon DEF Watchdog

LEMMA FrameInit == Init => FrameInv
<1> SUFFICES ASSUME Init PROVE FrameInv
  BY Zenon
<1>1. /\ ksl = "free" /\ wire = <<>> /\ irq12 = Idle12 /\ sent = <<>> /\ done = {}
      /\ asm = [IDX |-> 0, FLAGS |-> 0, DX |-> 0, PREV_LEFT |-> FALSE]
      /\ dog = [pc |-> "sleep", cmd |-> 1]
  BY Zenon DEF Init, InputInit
<1>2. FrameType
  BY <1>1, IdleIsRecord, SeqEmpty DEF FrameType
<1>3. FramesAreSent
  BY <1>1, Zenon DEF FramesAreSent
<1>4. ~InByte /\ Gone = 0
  BY <1>1, IdleIsRecord, Zenon DEF InByte, Gone
<1>5. Assembled
  BY <1>1, <1>4 DEF Assembled
<1>6. Stream(0)
  <2>1. Len(wire) = 0 /\ Len(sent) = 0
    BY <1>1, Zenon
  <2> QED
    BY <1>4, <2>1 DEF Stream, StreamOf
<1>7. Queued
  BY <1>1, <1>6, Zenon DEF Queued
<1> QED
  BY <1>1, <1>2, <1>3, <1>5, <1>7, SeqEmpty, Zenon DEF FrameInv

LEMMA FrameStep == FrameInv /\ [Next]_vars => FrameInv'
<1> SUFFICES ASSUME FrameInv, [Next]_vars PROVE FrameInv'
  BY Zenon
<1>1. ASSUME UNCHANGED <<ksl, wire, streaming, asm, dog, sent, done, torn>>, IsIrq12(irq12'),
             irq12' = irq12 \/ (irq12.pc # "byte" /\ irq12'.pc # "byte")
      PROVE  FrameInv'
  <2>1. /\ InByte' <=> InByte
        /\ InByte => irq12' = irq12
    BY <1>1, Zenon DEF InByte
  <2>2. Gone' = Gone
    BY <1>1, <2>1, Zenon DEF Gone
  <2>3. FrameType' /\ FramesAreSent'
    BY <1>1, Zenon DEF FrameInv, FrameType, FramesAreSent
  <2>4. ~torn => Assembled'
    BY <1>1, <2>1, Zenon DEF FrameInv, Assembled
  <2>5. \A skip \in {0, 1} : Stream(skip)' <=> Stream(skip)
    BY <1>1, <2>2, Zenon DEF Stream
  <2>6. ~torn => Queued'
    BY <1>1, <2>5, Zenon DEF FrameInv, Queued
  <2> QED
    BY <1>1, <2>3, <2>4, <2>6, Zenon DEF FrameInv
<1>2. IsIrq12(irq12)
  BY Zenon DEF FrameInv, FrameType
<1>3. CASE MouseSends
  BY <1>3, SendsFrame, Zenon
<1>4. CASE Irq12Read
  BY <1>4, ReadsFrame, Zenon
<1>5. CASE Assemble
  BY <1>5, AssemblesFrame, Zenon
<1>6. CASE Watchdog
  BY <1>6, WatchdogFrame, Zenon
<1>7. CASE Deliver(Points(size[1], size[2]))
  <2>1. UNCHANGED <<ksl, wire, streaming, asm, dog, sent, done, torn>> /\ irq12.pc = "push"
    BY <1>7, Zenon DEF Deliver, i8042
  <2>2. irq12' = Idle12 \/ \E p : irq12' = [irq12 EXCEPT !.pc = "x", !.at = p]
    BY <1>7, Zenon DEF Deliver
  <2>3. IsIrq12(irq12') /\ irq12'.pc # "byte"
    BY <1>2, <2>2, IdleIsRecord, Irq12Record, Zenon DEF IsIrq12
  <2> QED
    BY <1>1, <2>1, <2>3, Zenon
<1>8. CASE QueueClick
  <2>1. UNCHANGED <<ksl, wire, streaming, asm, dog, sent, done, torn>>
    BY <1>8, Zenon DEF QueueClick, i8042
  <2>2. /\ irq12.pc \in {"x", "y", "flag"}
        /\ \/ irq12' = Idle12 \/ irq12' = [irq12 EXCEPT !.pc = "y"]
           \/ irq12' = [irq12 EXCEPT !.pc = "flag"]
    BY <1>8, Zenon DEF QueueClick, queue_click, StoreX, StoreY, StoreFlag
  <2>3. IsIrq12(irq12') /\ irq12'.pc # "byte"
    BY <1>2, <2>2, IdleIsRecord, Irq12Record, Zenon DEF IsIrq12
  <2> QED
    BY <1>1, <2>1, <2>2, <2>3, Zenon
<1>9. CASE Irq1 \/ drain \/ \E k \in Keys \cup Releases, down \in BOOLEAN : KeyIrq(k, down)
  <2>1. UNCHANGED mouseVars
    BY <1>9, Zenon DEF Irq1, RingStore, RingPublish, drain, KeyIrq
  <2> QED
    BY <1>1, <1>2, <2>1, Zenon DEF mouseVars, i8042
<1>10. CASE \E r \in DOMAIN rd : Reader(r)
  <2>1. UNCHANGED mouseVars
    BY <1>10, Zenon DEF Reader, StartRead, TakeLock, RingLoad, Consume, Decide, Wake
  <2> QED
    BY <1>1, <1>2, <2>1, Zenon DEF mouseVars, i8042
<1>11. CASE Signin \/ UNCHANGED vars
  <2>1. UNCHANGED mouseVars
    BY <1>11, Zenon DEF Signin, signin_test, signin_task, take_pending, run_pending, perform, inputVars, vars
  <2> QED
    BY <1>1, <1>2, <2>1, Zenon DEF mouseVars, i8042
<1> QED
  BY <1>3, <1>4, <1>5, <1>6, <1>7, <1>8, <1>9, <1>10, <1>11, ZenonT(40)
     DEF Next, OfInput, InputNext, User, Irq12

(***************************************************************************)
(* Whatever packets the mouse sends and however often the watchdog runs    *)
(* the enable sequence again, a packet handle_irq completes is the oldest  *)
(* one sent and not completed, unless the sequence met a packet or the     *)
(* interrupt latched by its acknowledgements found the port empty: an      *)
(* acknowledgement still in the controller is never taken for a packet's   *)
(* byte, and a packet that comes before that interrupt is whole.           *)
(***************************************************************************)
THEOREM PacketsStayWhole == Spec => []FramesAreSent
<1>1. FrameInv => FramesAreSent
  BY Zenon DEF FrameInv
<1> QED
  BY FrameInit, FrameStep, <1>1, PTL DEF Spec
-----------------------------------------------------------------------------
(***************************************************************************)
(* The key ring and the line discipline.  KeyInv says that the ring holds  *)
(* the keys accepted and not yet consumed, in the order of log, that the   *)
(* reader with the line lock is the only one between ring_pop's read and   *)
(* its store of TAIL, holding the oldest key, that a slot being written is *)
(* none of those, and that LINE is what the consumed keys since the last   *)
(* Enter spell: from there on, each key of log spells its text.            *)
(***************************************************************************)
KeyCells == 0..(RING_LEN - 1)

\* The text that the key after an entry of log goes on from.
After(e) == IF e.key = "enter" THEN <<>> ELSE e.text

Spells(line, s) ==
  \A i \in 1..Len(s) : s[i].text = Edited(IF i = 1 THEN line ELSE After(s[i - 1]), s[i].key)

KeyType ==
  /\ HEAD \in KeyCells /\ TAIL \in KeyCells /\ DOMAIN RING = KeyCells
  /\ DOMAIN irq1 = {"pc", "key"}
  /\ \A r \in DOMAIN rd : DOMAIN rd[r] = {"pc", "out", "key"}
  /\ "free" \notin DOMAIN rd
  /\ \E S : log \in Seq(S)

\* The ring is the log.
RingInv ==
  /\ HEAD = (TAIL + Len(log)) % RING_LEN /\ Len(log) < RING_LEN
  /\ \A i \in 1..Len(log) : log[i].key = RING[(TAIL + (i - 1)) % RING_LEN]
  /\ irq1.pc = "publish" => RING[HEAD] = irq1.key /\ Len(log) + 1 < RING_LEN

LockInv ==
  \A r \in DOMAIN rd :
    /\ rd[r].pc \in {"pop", "got"} => LINE_LOCK = r
    /\ rd[r].pc = "got" => log # <<>> /\ rd[r].key = RING[TAIL]

TextInv ==
  /\ Spells(LINE, log)
  /\ typed = IF log = <<>> THEN LINE ELSE After(log[Len(log)])

KeyInv == KeyType /\ RingInv /\ LockInv /\ TextInv /\ LineIsTyped

LEMMA KeyWrap ==
  ASSUME NEW t \in KeyCells, NEW i \in 0..RING_LEN
  PROVE  /\ (t + i) % RING_LEN = IF t + i < RING_LEN THEN t + i ELSE t + i - RING_LEN
         /\ (t + i) % RING_LEN \in KeyCells
  BY RingAssumption DEF KeyCells

\* One slot on, and i more.
LEMMA KeyWrapNext ==
  ASSUME NEW t \in KeyCells, NEW i \in 0..(RING_LEN - 1)
  PROVE  (((t + 1) % RING_LEN) + i) % RING_LEN = (t + (i + 1)) % RING_LEN
<1>1. 1 \in 0..RING_LEN /\ i \in 0..RING_LEN /\ i + 1 \in 0..RING_LEN
  BY RingAssumption
<1> DEFINE u == (t + 1) % RING_LEN
<1>2. u \in KeyCells /\ u = IF t + 1 < RING_LEN THEN t + 1 ELSE t + 1 - RING_LEN
  BY <1>1, KeyWrap, Zenon
<1> HIDE DEF u
<1>3. (u + i) % RING_LEN = IF u + i < RING_LEN THEN u + i ELSE u + i - RING_LEN
  BY <1>1, <1>2, KeyWrap, Zenon
<1>4. (t + (i + 1)) % RING_LEN = IF t + (i + 1) < RING_LEN THEN t + (i + 1)
                                 ELSE t + (i + 1) - RING_LEN
  BY <1>1, KeyWrap, Zenon
<1>5. (u + i) % RING_LEN = (t + (i + 1)) % RING_LEN
  BY <1>1, <1>2, <1>3, <1>4, RingAssumption DEF KeyCells
<1> QED
  BY <1>5, Zenon DEF u

\* Different distances below the length of the ring are different slots.
LEMMA KeyWrapDiffers ==
  ASSUME NEW t \in KeyCells, NEW n \in 0..(RING_LEN - 1), NEW i \in 0..(RING_LEN - 1), i # n
  PROVE  (t + i) % RING_LEN # (t + n) % RING_LEN
<1>1. n \in 0..RING_LEN /\ i \in 0..RING_LEN
  BY RingAssumption
<1>2. /\ (t + i) % RING_LEN = IF t + i < RING_LEN THEN t + i ELSE t + i - RING_LEN
      /\ (t + n) % RING_LEN = IF t + n < RING_LEN THEN t + n ELSE t + n - RING_LEN
  BY <1>1, KeyWrap, Zenon
<1> QED
  BY <1>2, RingAssumption DEF KeyCells

LEMMA SeqWiden ==
  ASSUME NEW S, NEW T, S \subseteq T, NEW s \in Seq(S)
  PROVE  s \in Seq(T)
<1>1. /\ Len(s) \in Nat /\ s = [i \in 1..Len(s) |-> s[i]]
      /\ \A i \in 1..Len(s) : s[i] \in T
  OBVIOUS
<1>2. [i \in 1..Len(s) |-> s[i]] \in Seq(T)
  BY <1>1
<1> QED
  BY <1>1, <1>2, Zenon

LEMMA KeyInit == Init => KeyInv
<1> SUFFICES ASSUME Init PROVE KeyInv
  BY Zenon
<1>1. /\ left \in Scenarios /\ RING = [i \in 0..RING_LEN - 1 |-> "none"] /\ HEAD = 0 /\ TAIL = 0
      /\ irq1 = Idle1 /\ LINE = <<>>
      /\ rd = [r \in left.readers |-> [pc |-> "user", out |-> 0, key |-> "none"]]
      /\ typed = <<>> /\ log = <<>> /\ got = {}
  BY Zenon DEF Init, InputInit
<1>2. 0 \in KeyCells /\ Len(log) = 0
  BY <1>1, RingAssumption DEF KeyCells
<1>3. DOMAIN irq1 = {"pc", "key"} /\ irq1.pc = "idle"
  BY <1>1, Zenon DEF Idle1
<1>4. KeyType
  <2>1. "free" \notin DOMAIN rd
    BY <1>1, NamesAssumption, Zenon
  <2>2. \A r \in DOMAIN rd : DOMAIN rd[r] = {"pc", "out", "key"}
    BY <1>1, Zenon
  <2>3. log \in Seq({})
    BY <1>1
  <2>4. DOMAIN RING = KeyCells
    BY <1>1, Zenon DEF KeyCells
  <2> QED
    BY <1>1, <1>2, <1>3, <2>1, <2>2, <2>3, <2>4, Zenon DEF KeyType
<1>5. RingInv
  <2>1. 0 = (0 + 0) % RING_LEN /\ 0 < RING_LEN
    BY RingAssumption
  <2> QED
    BY <1>1, <1>2, <1>3, <2>1 DEF RingInv
<1>6. LockInv
  BY <1>1, Zenon DEF LockInv
<1>7. TextInv
  BY <1>1, <1>2 DEF TextInv, Spells
<1>8. LineIsTyped
  BY <1>1, Zenon DEF LineIsTyped
<1> QED
  BY <1>4, <1>5, <1>6, <1>7, <1>8, Zenon DEF KeyInv

\* The interrupt: the slot written is free, and becomes the newest.
LEMMA StoreKeeps ==
  ASSUME KeyInv, RingStore
  PROVE  KeyInv'
<1>1. irq1.pc = "push" /\ UNCHANGED <<HEAD, TAIL, LINE, LINE_LOCK, rd, typed, log, got>>
  BY Zenon DEF RingStore, lines
<1>2. PICK S : log \in Seq(S)
  BY Zenon DEF KeyInv, KeyType
<1>3. /\ HEAD \in KeyCells /\ TAIL \in KeyCells /\ DOMAIN RING = KeyCells
      /\ HEAD = (TAIL + Len(log)) % RING_LEN /\ Len(log) < RING_LEN /\ Len(log) \in Nat
  BY <1>2 DEF KeyInv, KeyType, RingInv
<1>4. TextInv' /\ LineIsTyped'
  BY <1>1, Zenon DEF KeyInv, TextInv, LineIsTyped
<1>5. CASE (HEAD + 1) % RING_LEN = TAIL
  <2>1. RING' = RING /\ irq1' = Idle1
    BY <1>5, Zenon DEF RingStore
  <2>2. DOMAIN irq1' = {"pc", "key"} /\ irq1'.pc = "idle"
    BY <2>1, Zenon DEF Idle1
  <2>3. KeyType' /\ RingInv' /\ LockInv'
    BY <1>1, <2>1, <2>2, Zenon DEF KeyInv, KeyType, RingInv, LockInv
  <2> QED
    BY <1>4, <2>3, Zenon DEF KeyInv
<1>6. CASE (HEAD + 1) % RING_LEN # TAIL
  <2>1. RING' = [RING EXCEPT ![HEAD] = irq1.key] /\ irq1' = [irq1 EXCEPT !.pc = "publish"]
    BY <1>6, Zenon DEF RingStore
  <2>2. DOMAIN irq1' = {"pc", "key"} /\ irq1'.pc = "publish" /\ irq1'.key = irq1.key
    BY <2>1, Zenon DEF KeyInv, KeyType
  <2>3. DOMAIN RING' = KeyCells /\ RING'[HEAD] = irq1.key
        /\ \A c \in KeyCells : c # HEAD => RING'[c] = RING[c]
    BY <1>3, <2>1, Zenon
  <2>4. KeyType'
    BY <1>1, <2>2, <2>3, Zenon DEF KeyInv, KeyType
  <2>5. ASSUME NEW i \in 0..(RING_LEN - 1), i < Len(log)
        PROVE  (TAIL + i) % RING_LEN \in KeyCells /\ (TAIL + i) % RING_LEN # HEAD
    <3>1. Len(log) \in 0..(RING_LEN - 1) /\ i \in 0..RING_LEN
      BY <1>3, RingAssumption
    <3> QED
      BY <1>3, <2>5, <3>1, KeyWrap, KeyWrapDiffers
  <2>6. Len(log) + 1 < RING_LEN
    <3>1. Len(log) \in 0..(RING_LEN - 1) /\ Len(log) \in 0..RING_LEN /\ 1 \in 0..RING_LEN
      BY <1>3, RingAssumption
    <3>2. HEAD = IF TAIL + Len(log) < RING_LEN THEN TAIL + Len(log) ELSE TAIL + Len(log) - RING_LEN
      BY <1>3, <3>1, KeyWrap, Zenon
    <3>3. (HEAD + 1) % RING_LEN = IF HEAD + 1 < RING_LEN THEN HEAD + 1 ELSE HEAD + 1 - RING_LEN
      BY <1>3, <3>1, KeyWrap, Zenon
    <3> QED
      BY <1>3, <1>6, <3>2, <3>3, RingAssumption DEF KeyCells
  <2>7. RingInv'
    <3>1. ASSUME NEW i \in 1..Len(log)
          PROVE  log[i].key = RING'[(TAIL + (i - 1)) % RING_LEN]
      <4>1. i - 1 \in 0..(RING_LEN - 1) /\ i - 1 < Len(log)
        BY <1>3, RingAssumption
      <4>2. log[i].key = RING[(TAIL + (i - 1)) % RING_LEN]
        BY Zenon DEF KeyInv, RingInv
      <4> QED
        BY <2>3, <2>5, <4>1, <4>2, Zenon
    <3> QED
      BY <1>1, <1>3, <2>2, <2>3, <2>6, <3>1, Zenon DEF RingInv
  <2>8. LockInv'
    <3>1. log # <<>> => TAIL # HEAD
      <4>1. log # <<>> => Len(log) > 0
        BY <1>2
      <4>2. (TAIL + 0) % RING_LEN = TAIL /\ 0 \in 0..(RING_LEN - 1)
        BY <1>3, RingAssumption DEF KeyCells
      <4> QED
        BY <1>3, <2>5, <4>1, <4>2, Zenon
    <3> QED
      BY <1>1, <1>3, <2>3, <3>1, Zenon DEF KeyInv, LockInv
  <2> QED
    BY <1>4, <2>4, <2>7, <2>8, Zenon DEF KeyInv
<1> QED
  BY <1>5, <1>6, Zenon

LEMMA PublishesKey ==
  ASSUME KeyInv, RingPublish
  PROVE  KeyInv'
<1> DEFINE n == Len(log)
           e == [key |-> irq1.key, text |-> Edited(typed, irq1.key)]
<1>1. /\ irq1.pc = "publish" /\ HEAD' = (HEAD + 1) % RING_LEN /\ irq1' = Idle1
      /\ log' = Append(log, e) /\ UNCHANGED <<RING, TAIL, LINE, LINE_LOCK, rd, got>>
      /\ typed' = IF irq1.key = "enter" THEN <<>> ELSE Edited(typed, irq1.key)
  BY Zenon DEF RingPublish
<1>2. PICK S : log \in Seq(S)
  BY Zenon DEF KeyInv, KeyType
<1>3. /\ HEAD \in KeyCells /\ TAIL \in KeyCells /\ n \in Nat
      /\ HEAD = (TAIL + n) % RING_LEN /\ n + 1 < RING_LEN /\ RING[HEAD] = irq1.key
      /\ \A i \in 1..n : log[i].key = RING[(TAIL + (i - 1)) % RING_LEN]
  <2>1. HEAD \in KeyCells /\ TAIL \in KeyCells
    BY Zenon DEF KeyInv, KeyType
  <2>2. n \in Nat
    BY <1>2
  <2>3. /\ HEAD = (TAIL + n) % RING_LEN /\ n + 1 < RING_LEN /\ RING[HEAD] = irq1.key
        /\ \A i \in 1..n : log[i].key = RING[(TAIL + (i - 1)) % RING_LEN]
    BY <1>1, Zenon DEF KeyInv, RingInv
  <2> QED
    BY <2>1, <2>2, <2>3, Zenon
<1>4. e.key = irq1.key /\ e.text = Edited(typed, irq1.key) /\ After(e) = typed'
  BY <1>1, Zenon DEF After
<1> HIDE DEF e
<1>5. /\ log' \in Seq(S \cup {e}) /\ Len(log') = n + 1 /\ log' # <<>> /\ log'[n + 1] = e
      /\ \A i \in 1..n : log'[i] = log[i]
  <2>1. log \in Seq(S \cup {e}) /\ e \in S \cup {e}
    BY <1>2, SeqWiden, Zenon
  <2>2. /\ Append(log, e) \in Seq(S \cup {e}) /\ Append(log, e) # <<>>
        /\ Len(Append(log, e)) = n + 1 /\ Append(log, e)[n + 1] = e
        /\ \A i \in 1..n : Append(log, e)[i] = log[i]
    BY <2>1, SeqAppend
  <2> QED
    BY <1>1, <2>2, Zenon
<1>6. DOMAIN irq1' = {"pc", "key"} /\ irq1'.pc = "idle"
  BY <1>1, Zenon DEF Idle1
<1> HIDE DEF n
<1>7. HEAD' \in KeyCells /\ HEAD' = (TAIL + (n + 1)) % RING_LEN
  <2>1. 1 \in 0..(RING_LEN - 1) /\ 1 \in 0..RING_LEN /\ n \in 0..RING_LEN /\ n + 1 \in 0..RING_LEN
    BY <1>3, RingAssumption
  <2>2. HEAD' \in KeyCells
    BY <1>1, <1>3, <2>1, KeyWrap, Zenon
  <2>3. HEAD = IF TAIL + n < RING_LEN THEN TAIL + n ELSE TAIL + n - RING_LEN
    BY <1>3, <2>1, KeyWrap, Zenon
  <2>4. HEAD' = IF HEAD + 1 < RING_LEN THEN HEAD + 1 ELSE HEAD + 1 - RING_LEN
    BY <1>1, <1>3, <2>1, KeyWrap, Zenon
  <2>5. (TAIL + (n + 1)) % RING_LEN = IF TAIL + (n + 1) < RING_LEN THEN TAIL + (n + 1)
                                      ELSE TAIL + (n + 1) - RING_LEN
    BY <1>3, <2>1, KeyWrap, Zenon
  <2>6. HEAD' = (TAIL + (n + 1)) % RING_LEN
    BY <1>3, <2>3, <2>4, <2>5, RingAssumption DEF KeyCells
  <2> QED
    BY <2>2, <2>6, Zenon
<1>8. KeyType'
  BY <1>1, <1>5, <1>6, <1>7, Zenon DEF KeyInv, KeyType
<1>9. RingInv'
  <2>1. ASSUME NEW i \in 1..(n + 1)
        PROVE  log'[i].key = RING[(TAIL + (i - 1)) % RING_LEN]
    <3>1. CASE i = n + 1
      <4>1. i - 1 = n
        BY <1>3, <3>1
      <4> QED
        BY <1>3, <1>4, <1>5, <3>1, <4>1, Zenon
    <3>2. CASE i # n + 1
      <4>1. i \in 1..n
        BY <1>3, <3>2
      <4> QED
        BY <1>3, <1>5, <4>1, Zenon
    <3> QED
      BY <3>1, <3>2, Zenon
  <2> QED
    BY <1>1, <1>3, <1>5, <1>6, <1>7, <2>1, Zenon DEF RingInv
<1>10. LockInv'
  BY <1>1, <1>5, Zenon DEF KeyInv, LockInv
<1>11. TextInv'
  <2>1. typed = IF n = 0 THEN LINE ELSE After(log[n])
    <3>1. log = <<>> <=> n = 0
      BY <1>2, SeqEmpty, Zenon DEF n
    <3> QED
      BY <3>1, Zenon DEF KeyInv, TextInv, n
  <2>2. ASSUME NEW i \in 1..(n + 1)
        PROVE  log'[i].text = Edited(IF i = 1 THEN LINE ELSE After(log'[i - 1]), log'[i].key)
    <3>1. i # 1 => i - 1 \in 1..n
      BY <1>3
    <3>2. i # 1 => log'[i - 1] = log[i - 1]
      BY <1>5, <3>1, Zenon
    <3>3. CASE i = n + 1
      <4>1. i - 1 = n /\ (i = 1 <=> n = 0)
        BY <1>3, <3>3
      <4>2. typed = IF i = 1 THEN LINE ELSE After(log'[i - 1])
        BY <2>1, <3>2, <4>1, Zenon
      <4> QED
        BY <1>4, <1>5, <3>3, <4>2, Zenon
    <3>4. CASE i # n + 1
      <4>1. i \in 1..n
        BY <1>3, <3>4
      <4>2. log[i].text = Edited(IF i = 1 THEN LINE ELSE After(log[i - 1]), log[i].key)
        BY <4>1, Zenon DEF KeyInv, TextInv, Spells, n
      <4> QED
        BY <1>5, <3>2, <4>1, <4>2, Zenon
    <3> QED
      BY <3>3, <3>4, Zenon
  <2>3. Spells(LINE, log')
    BY <1>5, <2>2, Zenon DEF Spells
  <2> QED
    BY <1>1, <1>4, <1>5, <2>3, Zenon DEF TextInv
<1>12. LineIsTyped'
  BY <1>1, Zenon DEF KeyInv, LineIsTyped
<1> QED
  BY <1>8, <1>9, <1>10, <1>11, <1>12, Zenon DEF KeyInv

\* The oldest key leaves the ring and becomes part of LINE, or ends it.
LEMMA ConsumesKey ==
  ASSUME KeyInv, NEW r \in DOMAIN rd, Consume(r)
  PROVE  KeyInv'
<1> DEFINE n == Len(log)
           k == rd[r].key
           line == SubSeq(LINE, 1, IF Len(LINE) < rd[r].out THEN Len(LINE) ELSE rd[r].out)
<1>1. /\ rd[r].pc = "got" /\ TAIL' = (TAIL + 1) % RING_LEN
      /\ log' = (IF log = <<>> THEN log ELSE Tail(log))
      /\ UNCHANGED <<RING, HEAD, irq1, typed>>
  BY Zenon DEF Consume
<1>2. PICK S : log \in Seq(S)
  BY Zenon DEF KeyInv, KeyType
<1>3. log # <<>> /\ k = RING[TAIL] /\ LINE_LOCK = r
  BY <1>1, Zenon DEF KeyInv, LockInv
<1>4. /\ TAIL \in KeyCells /\ HEAD = (TAIL + n) % RING_LEN /\ n < RING_LEN /\ n \in Nat /\ n > 0
      /\ \A i \in 1..n : log[i].key = RING[(TAIL + (i - 1)) % RING_LEN]
  <2>1. TAIL \in KeyCells
    BY Zenon DEF KeyInv, KeyType
  <2>2. n \in Nat /\ n > 0
    BY <1>2, <1>3, SeqEmpty
  <2>3. /\ HEAD = (TAIL + n) % RING_LEN /\ n < RING_LEN
        /\ \A i \in 1..n : log[i].key = RING[(TAIL + (i - 1)) % RING_LEN]
    BY Zenon DEF KeyInv, RingInv
  <2> QED
    BY <2>1, <2>2, <2>3, Zenon
<1>5. /\ log' \in Seq(S) /\ Len(log') = n - 1 /\ \A i \in 1..(n - 1) : log'[i] = log[i + 1]
      /\ Head(log) = log[1]
  <2>1. log' = Tail(log) /\ Head(log) = log[1]
    BY <1>1, <1>2, <1>3
  <2>2. /\ Tail(log) \in Seq(S) /\ Len(Tail(log)) = n - 1
        /\ \A i \in 1..Len(Tail(log)) : Tail(log)[i] = log[i + 1]
    BY <1>2, <1>3, SeqTail, Zenon
  <2> QED
    BY <2>1, <2>2, Zenon
<1>6. log[1].key = k
  <2> HIDE DEF n, k
  <2>1. (TAIL + (1 - 1)) % RING_LEN = TAIL
    <3>1. 0 \in 0..RING_LEN /\ 1 - 1 = 0 /\ TAIL + 0 = TAIL /\ TAIL < RING_LEN
      BY <1>4, RingAssumption DEF KeyCells
    <3> QED
      BY <1>4, <3>1, KeyWrap, Zenon
  <2>2. log[1].key = RING[(TAIL + (1 - 1)) % RING_LEN]
    BY <1>4
  <2> QED
    BY <1>3, <2>1, <2>2, Zenon
<1>7. log[1].text = Edited(LINE, k)
  BY <1>4, <1>6 DEF KeyInv, TextInv, Spells
<1>8. /\ LINE' = After(log[1])
      /\ \/ LINE_LOCK' = "free" /\ rd'[r].pc \in {"none", "user"}
         \/ LINE_LOCK' = r /\ rd'[r].pc = "pop"
      /\ DOMAIN rd' = DOMAIN rd /\ DOMAIN rd'[r] = {"pc", "out", "key"}
      /\ \A s \in DOMAIN rd : s # r => rd'[s] = rd[s]
      /\ LineIsTyped'
  <2>1. DOMAIN rd[r] = {"pc", "out", "key"}
    BY Zenon DEF KeyInv, KeyType
  <2>2. CASE k = "enter"
    <3>1. /\ LINE' = <<>> /\ LINE_LOCK' = "free"
          /\ rd' = [rd EXCEPT ![r].pc = IF line = <<>> THEN "none" ELSE "user", ![r].key = "none"]
          /\ got' = {[line |-> line, out |-> rd[r].out,
                      of |-> IF log = <<>> THEN {} ELSE {Head(log)}]}
      BY <2>2, Zenon DEF Consume, Finish
    <3>2. log[1].text = LINE
      BY <1>7, <2>2, NamesAssumption, Zenon DEF Edited
    <3>3. got' = {[line |-> line, out |-> rd[r].out, of |-> {log[1]}]}
      BY <1>3, <1>5, <3>1, Zenon
    <3>4. LineIsTyped'
      <4>1. log[1].key = "enter"
        BY <1>6, <2>2, Zenon
      <4> QED
        BY <3>2, <3>3, <4>1 DEF LineIsTyped
    <3> HIDE DEF line
    <3>5. After(log[1]) = <<>>
      BY <1>6, <2>2, Zenon DEF After
    <3> QED
      BY <2>1, <3>1, <3>4, <3>5, Zenon
  <2>3. CASE k # "enter"
    <3>1. /\ LINE' = Edited(LINE, k) /\ UNCHANGED <<LINE_LOCK, got>>
          /\ rd' = [rd EXCEPT ![r].pc = "pop", ![r].key = "none"]
      BY <2>3, Zenon DEF Consume
    <3>2. LineIsTyped'
      BY <3>1, Zenon DEF KeyInv, LineIsTyped
    <3>3. After(log[1]) = Edited(LINE, k)
      BY <1>6, <1>7, <2>3, Zenon DEF After
    <3> QED
      BY <1>3, <2>1, <3>1, <3>2, <3>3, Zenon
  <2> QED
    BY <2>2, <2>3, Zenon
<1> HIDE DEF n, k, line
<1>9. TAIL' \in KeyCells /\ \A i \in 0..(RING_LEN - 1) : (TAIL' + i) % RING_LEN = (TAIL + (i + 1)) % RING_LEN
  <2>1. 1 \in 0..RING_LEN
    BY RingAssumption
  <2> QED
    BY <1>1, <1>4, <2>1, KeyWrap, KeyWrapNext, Zenon
<1>10. KeyType'
  <2>1. HEAD' \in KeyCells /\ DOMAIN RING' = KeyCells /\ DOMAIN irq1' = {"pc", "key"}
    BY <1>1, Zenon DEF KeyInv, KeyType
  <2>2. /\ \A s \in DOMAIN rd' : DOMAIN rd'[s] = {"pc", "out", "key"}
        /\ "free" \notin DOMAIN rd'
    BY <1>8, Zenon DEF KeyInv, KeyType
  <2> QED
    BY <1>5, <1>9, <2>1, <2>2, Zenon DEF KeyType
<1>11. RingInv'
  <2>1. HEAD = (TAIL' + (n - 1)) % RING_LEN
    <3>1. n - 1 \in 0..(RING_LEN - 1) /\ (n - 1) + 1 = n
      BY <1>4, RingAssumption
    <3> QED
      BY <1>4, <1>9, <3>1, Zenon
  <2>2. ASSUME NEW i \in 1..(n - 1)
        PROVE  log'[i].key = RING[(TAIL' + (i - 1)) % RING_LEN]
    <3>1. i - 1 \in 0..(RING_LEN - 1) /\ (i - 1) + 1 = (i + 1) - 1 /\ i + 1 \in 1..n
      BY <1>4, RingAssumption
    <3> QED
      BY <1>4, <1>5, <1>9, <3>1, ZenonT(40)
  <2>3. n - 1 < RING_LEN /\ (n - 1) + 1 < RING_LEN
    <3>1. n \in Nat /\ n < RING_LEN
      BY <1>4, Zenon
    <3> QED
      BY <3>1, RingAssumption
  <2>4. irq1.pc = "publish" => RING[HEAD] = irq1.key
    BY Zenon DEF KeyInv, RingInv
  <2> QED
    BY <1>1, <1>5, <2>1, <2>2, <2>3, <2>4, ZenonT(40) DEF RingInv
<1>12. LockInv'
  <2>1. \A s \in DOMAIN rd : s # r => rd[s].pc \notin {"pop", "got"}
    BY <1>3, Zenon DEF KeyInv, LockInv
  <2> QED
    BY <1>8, <2>1, Zenon DEF LockInv
<1>13. TextInv'
  <2>1. ASSUME NEW i \in 1..(n - 1)
        PROVE  log'[i].text = Edited(IF i = 1 THEN LINE' ELSE After(log'[i - 1]), log'[i].key)
    <3>1. i + 1 \in 1..n /\ i + 1 # 1 /\ (i + 1) - 1 = i
      BY <1>4
    <3>2. log[i + 1].text = Edited(After(log[i]), log[i + 1].key)
      BY <3>1, Zenon DEF KeyInv, TextInv, Spells, n
    <3>3. (IF i = 1 THEN LINE' ELSE After(log'[i - 1])) = After(log[i])
      <4>1. i # 1 => i - 1 \in 1..(n - 1) /\ (i - 1) + 1 = i
        BY <1>4
      <4> QED
        BY <1>5, <1>8, <4>1, Zenon
    <3> QED
      BY <1>5, <3>2, <3>3, Zenon
  <2>2. Spells(LINE', log')
    BY <1>5, <2>1, Zenon DEF Spells
  <2>3. typed = After(log[n])
    BY <1>3, Zenon DEF KeyInv, TextInv, n
  <2>4. (IF log' = <<>> THEN LINE' ELSE After(log'[Len(log')])) = After(log[n])
    <3>1. CASE n = 1
      <4>1. log' = <<>>
        BY <1>5, <3>1, SeqEmpty
      <4> QED
        BY <1>8, <3>1, <4>1, Zenon
    <3>2. CASE n # 1
      <4>1. n - 1 \in 1..(n - 1) /\ (n - 1) + 1 = n
        BY <1>4, <3>2
      <4>2. log' # <<>>
        BY <1>5, <4>1
      <4> QED
        BY <1>5, <4>1, <4>2, Zenon
    <3> QED
      BY <3>1, <3>2, Zenon
  <2> QED
    BY <1>1, <2>2, <2>3, <2>4, Zenon DEF TextInv
<1> QED
  BY <1>8, <1>10, <1>11, <1>12, <1>13, Zenon DEF KeyInv

\* The steps of a reader that leave the ring and the line alone.
LEMMA ReaderKeeps ==
  ASSUME KeyInv, NEW r \in DOMAIN rd,
         StartRead(r) \/ TakeLock(r) \/ RingLoad(r) \/ Decide(r) \/ Wake(r)
  PROVE  KeyInv'
<1>1. UNCHANGED <<RING, HEAD, TAIL, irq1, LINE, typed, log, got>>
  BY Zenon DEF StartRead, TakeLock, RingLoad, Decide, Wake, lines
<1>2. DOMAIN rd[r] = {"pc", "out", "key"} /\ "free" \notin DOMAIN rd
  BY Zenon DEF KeyInv, KeyType
<1>3. /\ DOMAIN rd' = DOMAIN rd /\ DOMAIN rd'[r] = {"pc", "out", "key"}
      /\ \A s \in DOMAIN rd : s # r => rd'[s] = rd[s]
  BY <1>2, Zenon DEF StartRead, TakeLock, RingLoad, Decide, Wake
<1>4. LockInv'
  <2>1. CASE StartRead(r) \/ Decide(r) \/ Wake(r)
    <3>1. LINE_LOCK' = LINE_LOCK /\ rd'[r].pc \notin {"pop", "got"}
      BY <1>2, <2>1 DEF StartRead, Decide, Wake
    <3> QED
      BY <1>1, <1>3, <3>1, Zenon DEF KeyInv, LockInv
  <2>2. CASE TakeLock(r)
    <3>1. LINE_LOCK = "free" /\ LINE_LOCK' = r /\ rd'[r].pc = "pop"
      BY <1>2, <2>2, Zenon DEF TakeLock
    <3>2. \A s \in DOMAIN rd : rd[s].pc \notin {"pop", "got"}
      BY <1>2, <3>1, Zenon DEF KeyInv, LockInv
    <3> QED
      BY <1>3, <3>1, <3>2, Zenon DEF LockInv
  <2>3. CASE RingLoad(r)
    <3>1. LINE_LOCK = r /\ \A s \in DOMAIN rd : s # r => rd[s].pc \notin {"pop", "got"}
      BY <2>3, Zenon DEF KeyInv, LockInv, RingLoad
    <3>2. CASE TAIL = HEAD
      <4>1. rd'[r].pc = "none"
        BY <1>2, <2>3, <3>2, Zenon DEF RingLoad
      <4> QED
        BY <1>3, <3>1, <4>1, Zenon DEF LockInv
    <3>3. CASE TAIL # HEAD
      <4>1. LINE_LOCK' = LINE_LOCK /\ rd'[r].pc = "got" /\ rd'[r].key = RING[TAIL]
        <5>1. /\ LINE_LOCK' = LINE_LOCK
              /\ rd' = [rd EXCEPT ![r].pc = "got", ![r].key = RING[TAIL]]
          BY <2>3, <3>3, Zenon DEF RingLoad
        <5>2. rd'[r] = [rd[r] EXCEPT !.pc = "got", !.key = RING[TAIL]]
          BY <5>1, Zenon
        <5> QED
          BY <1>2, <5>1, <5>2, ZenonT(40)
      <4>2. log # <<>>
        <5>1. ASSUME log = <<>> PROVE TAIL = HEAD
          <6>1. Len(log) = 0 /\ HEAD = (TAIL + Len(log)) % RING_LEN /\ TAIL \in KeyCells
            BY <5>1, Zenon DEF KeyInv, KeyType, RingInv
          <6>2. 0 \in 0..RING_LEN /\ TAIL + 0 = TAIL /\ TAIL < RING_LEN
            BY <6>1, RingAssumption DEF KeyCells
          <6> QED
            BY <6>1, <6>2, KeyWrap, Zenon
        <5> QED
          BY <3>3, <5>1, Zenon
      <4> QED
        BY <1>1, <1>3, <3>1, <4>1, <4>2, Zenon DEF LockInv
    <3> QED
      BY <3>2, <3>3, Zenon
  <2> QED
    BY <2>1, <2>2, <2>3, Zenon
<1>5. KeyType' /\ RingInv' /\ TextInv' /\ LineIsTyped'
  <2>1. KeyType'
    BY <1>1, <1>3, Zenon DEF KeyInv, KeyType
  <2>2. RingInv'
    BY <1>1, Zenon DEF KeyInv, RingInv
  <2>3. TextInv'
    BY <1>1, Zenon DEF KeyInv, TextInv
  <2>4. LineIsTyped'
    BY <1>1, Zenon DEF KeyInv, LineIsTyped
  <2> QED
    BY <2>1, <2>2, <2>3, <2>4, Zenon
<1> QED
  BY <1>4, <1>5, Zenon DEF KeyInv

LEMMA KeyStep == KeyInv /\ [Next]_vars => KeyInv'
<1> SUFFICES ASSUME KeyInv, [Next]_vars PROVE KeyInv'
  BY Zenon
<1>1. ASSUME UNCHANGED <<RING, HEAD, TAIL, LINE, LINE_LOCK, rd, typed, log, got>>,
             DOMAIN irq1' = {"pc", "key"}, irq1' = irq1 \/ irq1'.pc # "publish"
      PROVE  KeyInv'
  <2>1. KeyType'
    BY <1>1, Zenon DEF KeyInv, KeyType
  <2>2. RingInv'
    BY <1>1, Zenon DEF KeyInv, RingInv
  <2>3. LockInv'
    BY <1>1, Zenon DEF KeyInv, LockInv
  <2>4. TextInv'
    BY <1>1, Zenon DEF KeyInv, TextInv
  <2>5. LineIsTyped'
    BY <1>1, Zenon DEF KeyInv, LineIsTyped
  <2> QED
    BY <2>1, <2>2, <2>3, <2>4, <2>5, Zenon DEF KeyInv
<1>2. DOMAIN irq1 = {"pc", "key"}
  BY Zenon DEF KeyInv, KeyType
<1>3. CASE RingStore
  BY <1>3, StoreKeeps, Zenon
<1>4. CASE RingPublish
  BY <1>4, PublishesKey, Zenon
<1>5. CASE \E k \in Keys \cup Releases, down \in BOOLEAN : KeyIrq(k, down)
  <2>1. PICK k \in Keys \cup Releases, down \in BOOLEAN : KeyIrq(k, down)
    BY <1>5, Zenon
  <2>2. UNCHANGED <<RING, HEAD, TAIL, LINE, LINE_LOCK, rd, typed, log, got>>
    BY <2>1, Zenon DEF KeyIrq, lines
  <2>3. irq1' = irq1 \/ irq1' = [pc |-> "push", key |-> k]
    BY <2>1, Zenon DEF KeyIrq
  <2> QED
    BY <1>1, <1>2, <2>2, <2>3
<1>6. CASE \E r \in DOMAIN rd : Reader(r)
  BY <1>6, ReaderKeeps, ConsumesKey, Zenon DEF Reader
<1>7. CASE MouseSends \/ Irq12(Points(size[1], size[2])) \/ drain \/ Watchdog
           \/ QueueClick \/ Signin \/ UNCHANGED vars
  <2>1. UNCHANGED keyVars
    <3>1. CASE MouseSends \/ drain \/ QueueClick \/ UNCHANGED vars
      BY <3>1, Zenon DEF MouseSends, drain, QueueClick, vars, inputVars
    <3>2. CASE Irq12(Points(size[1], size[2]))
      BY <3>2, Zenon DEF Irq12, Irq12Read, Assemble, Deliver
    <3>3. CASE Watchdog
      BY <3>3, Zenon DEF Watchdog, Stalled, RecoverLock, SendCommand, ReadAck
    <3>4. CASE Signin
      BY <3>4, Zenon DEF Signin, signin_test, signin_task, take_pending, run_pending, perform, inputVars
    <3> QED
      BY <1>7, <3>1, <3>2, <3>3, <3>4, Zenon
  <2> QED
    BY <1>1, <1>2, <2>1, Zenon DEF keyVars, lines
<1> QED
  BY <1>3, <1>4, <1>5, <1>6, <1>7, ZenonT(40) DEF Next, OfInput, InputNext, User, Irq1

(***************************************************************************)
(* Whatever is typed, however long the ring and the readers' buffers are,  *)
(* and however the readers' take_line and the keyboard interrupt           *)
(* interleave, a line handed to a task spells the keys accepted since the  *)
(* Enter before.                                                           *)
(***************************************************************************)
THEOREM LinesAreTyped == Spec => []LineIsTyped
<1>1. KeyInv => LineIsTyped
  BY Zenon DEF KeyInv
<1> QED
  BY KeyInit, KeyStep, <1>1, PTL DEF Spec
-----------------------------------------------------------------------------
(***************************************************************************)
(* The sign-in screen.  Everything rests on one fact of the layout, at     *)
(* every size: the sign-in button ends above the top of the power menu.    *)
(***************************************************************************)
Fits(w, h) == w \in Nat /\ h \in Nat /\ w >= 480 /\ h >= 480 /\ h <= 2 * w

LEMMA ScaleOf ==
  ASSUME NEW w, NEW h, Fits(w, h)
  PROVE  ui_scale(h) \in {1, 2} /\ (ui_scale(h) = 2 => h >= 874)
  BY DEF Fits, ui_scale, AtMost, AtLeast

\* The saturating subtractions of power_geom do not saturate.
LEMMA PowerLayout ==
  ASSUME NEW w, NEW h, Fits(w, h), NEW s, s = ui_scale(h), NEW g, g = power_geom(w, h)
  PROVE  /\ g.btn_x = w - 78 * s /\ g.btn_y = h - 78 * s /\ g.btn = 48 * s
         /\ g.menu_x = w - 226 * s /\ g.menu_y = h - 158 * s
         /\ g.menu_w = 196 * s /\ g.menu_h = 128 * s /\ g.item_h = 36 * s /\ g.pad = 10 * s
<1>1. s \in {1, 2} /\ (s = 2 => h >= 874) /\ w \in Nat /\ h \in Nat /\ w >= 480 /\ h >= 480
  BY ScaleOf DEF Fits
<1>2. Len(POWER_ITEMS) = 3
  BY Zenon DEF POWER_ITEMS
<1>3. /\ Sub(w, 78 * s) = w - 78 * s /\ Sub(h, 78 * s) = h - 78 * s
      /\ Sub(w, 30 * s + 196 * s) = w - 226 * s
      /\ Sub(h, 30 * s + (3 * 36 * s + 20 * s)) = h - 158 * s
  BY <1>1 DEF Sub
<1>4. 3 * 36 * s + 20 * s = 128 * s
  BY <1>1
<1>5. /\ g.btn_x = Sub(w, 78 * s) /\ g.btn_y = Sub(h, 78 * s) /\ g.btn = 48 * s
      /\ g.menu_x = Sub(w, 30 * s + 196 * s)
      /\ g.menu_y = Sub(h, 30 * s + (Len(POWER_ITEMS) * 36 * s + 20 * s))
      /\ g.menu_w = 196 * s /\ g.menu_h = Len(POWER_ITEMS) * 36 * s + 20 * s
      /\ g.item_h = 36 * s /\ g.pad = 10 * s
  BY Zenon DEF power_geom
<1>6. g.menu_y = h - 158 * s /\ g.menu_h = 128 * s
  BY <1>2, <1>3, <1>4, <1>5
<1> QED
  BY <1>3, <1>5, <1>6

LEMMA SigninLayout ==
  ASSUME NEW w, NEW h, Fits(w, h), NEW s, s = signin_geom(w, h)
  PROVE  /\ s.avatar_cy \in Nat /\ s.avatar_r \in Nat
         /\ s.avatar_cy >= s.avatar_r /\ s.avatar_cy + s.avatar_r < h
         /\ s.btn_x \in Nat /\ s.btn_w \in Nat /\ s.btn_w > 0 /\ s.btn_x + s.btn_w < w
         /\ s.btn_y \in Nat /\ s.btn_h \in Nat /\ s.btn_h > 0
         /\ 10000 * (s.btn_y + s.btn_h) <= 5525 * h
<1> DEFINE cy == (h * 30) \div 100
           r == (h * 11) \div 100
           fs == AtLeast((h * 3) \div 100, 12)
           btn_h == (h * 6) \div 100
           btn_w == (btn_h * 7) \div 2
           up == (fs * 5) \div 4
           down == (fs * 3) \div 2
<1>1. w \in Nat /\ h \in Nat /\ w >= 480 /\ h >= 480 /\ h <= 2 * w
  BY Zenon DEF Fits
<1>2. /\ s.avatar_cy = cy /\ s.avatar_r = r /\ s.btn_h = btn_h /\ s.btn_w = btn_w
      /\ s.btn_x = w \div 2 - btn_w \div 2 /\ s.btn_y = (cy + r + up) + down
  BY Zenon DEF signin_geom
<1>3. /\ cy \in Nat /\ 100 * cy <= 30 * h /\ 30 * h < 100 * cy + 100
      /\ r \in Nat /\ 100 * r <= 11 * h /\ 11 * h < 100 * r + 100
      /\ btn_h \in Nat /\ 100 * btn_h <= 6 * h /\ btn_h >= 28
  BY <1>1
<1>4. fs \in Nat /\ 100 * fs <= 3 * h
  BY <1>1 DEF AtLeast
<1> HIDE DEF cy, r, fs, btn_h
<1>5. /\ btn_w \in Nat /\ 2 * btn_w <= 7 * btn_h /\ btn_w > 0
      /\ up \in Nat /\ 4 * up <= 5 * fs /\ down \in Nat /\ 2 * down <= 3 * fs
  BY <1>3, <1>4
<1> HIDE DEF btn_w, up, down
<1>6. cy >= r /\ cy + r < h
  BY <1>1, <1>3
<1>7. 10000 * (((cy + r + up) + down) + btn_h) <= 5525 * h
  BY <1>1, <1>3, <1>4, <1>5
<1>8. btn_w + 1 < w /\ w \div 2 - btn_w \div 2 \in Nat /\ w \div 2 - btn_w \div 2 + btn_w < w
  <2>1. 200 * btn_w <= 42 * h /\ 50 * btn_w <= 21 * w
    BY <1>1, <1>3, <1>5
  <2>2. btn_w + 1 < w
    BY <1>1, <1>5, <2>1
  <2>3. /\ w \div 2 \in Nat /\ 2 * (w \div 2) <= w /\ w <= 2 * (w \div 2) + 1
        /\ btn_w \div 2 \in Nat /\ 2 * (btn_w \div 2) <= btn_w /\ btn_w <= 2 * (btn_w \div 2) + 1
    BY <1>1, <1>5
  <2> QED
    BY <1>1, <1>5, <2>2, <2>3
<1> QED
  BY <1>2, <1>3, <1>5, <1>6, <1>7, <1>8

\* What a click is taken for, by the boxes it is in.
LEMMA ClickClosed ==
  ASSUME NEW w, NEW h, NEW x, NEW y
  PROVE  /\ hit_power(power_geom(w, h), x, y) => classify_click(w, h, FALSE, x, y) = <<"power">>
         /\ ~hit_power(power_geom(w, h), x, y) /\ OnSignIn(signin_geom(w, h), x, y)
              => classify_click(w, h, FALSE, x, y) = <<"signin">>
         /\ ~hit_power(power_geom(w, h), x, y) /\ ~OnSignIn(signin_geom(w, h), x, y)
              => classify_click(w, h, FALSE, x, y) = <<"outside">>
<1>1. hit_power_item(power_geom(w, h), FALSE, x, y) = {}
  BY Zenon DEF hit_power_item
<1> QED
  BY <1>1, Zenon DEF classify_click

LEMMA ClickOutside ==
  ASSUME NEW w, NEW h, NEW x, NEW y,
         hit_power_item(power_geom(w, h), TRUE, x, y) = {},
         ~hit_power(power_geom(w, h), x, y), ~OnSignIn(signin_geom(w, h), x, y)
  PROVE  classify_click(w, h, TRUE, x, y) = <<"outside">>
  BY Zenon DEF classify_click

LEMMA RowsFound ==
  ASSUME NEW y \in Int, NEW k \in {1, 2}, NEW i \in {0, 1, 2}
  PROVE  ((y + 10 * k + i * (36 * k) + (36 * k) \div 2) - (y + 10 * k)) \div (36 * k) = i
<1>1. CASE k = 1
  BY <1>1
<1>2. CASE k = 2
  BY <1>2
<1> QED
  BY <1>1, <1>2, Zenon

\* The self-test of signin.rs passes at every size.
LEMMA SelfTestPasses ==
  ASSUME NEW w, NEW h, Fits(w, h)
  PROVE  FailedChecks(w, h) = {}
<1> DEFINE s == signin_geom(w, h)
           g == power_geom(w, h)
           k == ui_scale(h)
           bx == g.btn_x + g.btn \div 2
           by == g.btn_y + g.btn \div 2
           rx == g.menu_x + g.menu_w \div 2
           Row(i) == g.menu_y + g.pad + i * g.item_h + g.item_h \div 2
<1>1. /\ k \in {1, 2} /\ (k = 2 => h >= 874)
      /\ w \in Nat /\ h \in Nat /\ w >= 480 /\ h >= 480 /\ h <= 2 * w
  <2>1. k \in {1, 2} /\ (k = 2 => h >= 874)
    BY ScaleOf
  <2> QED
    BY <2>1 DEF Fits
<1>2. /\ g.btn_x = w - 78 * k /\ g.btn_y = h - 78 * k /\ g.btn = 48 * k
      /\ g.menu_x = w - 226 * k /\ g.menu_y = h - 158 * k
      /\ g.menu_w = 196 * k /\ g.menu_h = 128 * k /\ g.item_h = 36 * k /\ g.pad = 10 * k
  BY PowerLayout
<1>3. /\ s.avatar_cy \in Nat /\ s.avatar_r \in Nat
      /\ s.avatar_cy >= s.avatar_r /\ s.avatar_cy + s.avatar_r < h
      /\ s.btn_x \in Nat /\ s.btn_w \in Nat /\ s.btn_w > 0 /\ s.btn_x + s.btn_w < w
      /\ s.btn_y \in Nat /\ s.btn_h \in Nat /\ s.btn_h > 0
      /\ 10000 * (s.btn_y + s.btn_h) <= 5525 * h
  BY SigninLayout
<1>4. Len(POWER_ITEMS) = 3
  BY Zenon DEF POWER_ITEMS
<1> HIDE DEF s, g, k
<1>8. s.btn_y + s.btn_h <= g.menu_y
  BY <1>1, <1>2, <1>3
<1>9. /\ rx = w - 128 * k /\ rx < g.btn_x /\ rx >= g.menu_x /\ rx < g.menu_x + g.menu_w
      /\ bx = w - 54 * k /\ by = h - 54 * k
  BY <1>1, <1>2
<1>10. \A y \in Int : ~hit_power(g, rx, y)
  BY <1>1, <1>2, <1>9 DEF hit_power, In
<1>11. \A x, y \in Int : y >= g.menu_y => ~OnSignIn(s, x, y)
  BY <1>1, <1>2, <1>3, <1>8 DEF OnSignIn, In
<1>12. /\ s.avatar_cy >= s.avatar_r /\ s.avatar_cy + s.avatar_r < h
       /\ s.btn_x >= 0 /\ s.btn_x + s.btn_w < w /\ s.btn_y + s.btn_h < h
       /\ g.menu_y + g.menu_h < h /\ g.menu_x + g.menu_w < w
       /\ g.btn_y > s.btn_y + s.btn_h
  BY <1>1, <1>2, <1>3, <1>8
<1>13. classify_click(w, h, FALSE, bx, by) = <<"power">>
  <2>1. hit_power(g, bx, by)
    BY <1>1, <1>2, <1>9 DEF hit_power, In
  <2> QED
    BY <2>1, ClickClosed, ZenonT(40) DEF g
<1>14. ~hit_power(g, 4, 4)
  BY <1>1, <1>2 DEF hit_power, In
<1>15. classify_click(w, h, FALSE, rx, g.menu_y + g.pad + 2) = <<"outside">>
  <2>1. rx \in Int /\ g.menu_y + g.pad + 2 \in Int /\ g.menu_y + g.pad + 2 >= g.menu_y
    BY <1>1, <1>2, <1>9
  <2>2. ~hit_power(g, rx, g.menu_y + g.pad + 2) /\ ~OnSignIn(s, rx, g.menu_y + g.pad + 2)
    BY <1>10, <1>11, <2>1, Zenon
  <2> QED
    BY <2>2, ClickClosed, ZenonT(40) DEF g, s
<1>16. ASSUME NEW i \in 0..2 PROVE classify_click(w, h, TRUE, rx, Row(i)) = <<"item", i>>
  <2>1. i \in {0, 1, 2} /\ g.menu_y \in Int
    BY <1>1, <1>2
  <2>2. (Row(i) - (g.menu_y + g.pad)) \div g.item_h = i
    BY <1>1, <1>2, <2>1, RowsFound
  <2>3. /\ Row(i) >= g.menu_y + g.pad /\ Row(i) - (g.menu_y + g.pad) < 3 * g.item_h
        /\ Row(i) < g.menu_y + g.menu_h
    <3>1. CASE k = 1
      BY <1>1, <1>2, <2>1, <3>1
    <3>2. CASE k = 2
      BY <1>1, <1>2, <2>1, <3>2
    <3> QED
      BY <1>1, <3>1, <3>2
  <2>4. InMenu(g, rx, Row(i))
    BY <1>1, <1>2, <1>9, <2>3 DEF InMenu, In
  <2> HIDE DEF Row, rx
  <2>5. hit_power_item(g, TRUE, rx, Row(i)) = {i}
    BY <1>4, <2>2, <2>3, <2>4, Zenon DEF hit_power_item
  <2>6. (CHOOSE j \in {i} : TRUE) = i /\ {i} # {}
    BY Zenon
  <2> QED
    BY <2>5, <2>6, ZenonT(40) DEF classify_click, g
<1>17. ASSUME NEW y \in {g.menu_y + 1, g.menu_y + g.menu_h - 2}
       PROVE  classify_click(w, h, TRUE, rx, y) = <<"outside">>
  <2>1. /\ y \in Int /\ rx \in Int /\ y >= g.menu_y
        /\ y < g.menu_y + g.pad \/ y - (g.menu_y + g.pad) >= 3 * g.item_h
    BY <1>1, <1>2, <1>9
  <2>2. ~hit_power(g, rx, y) /\ ~OnSignIn(s, rx, y)
    BY <1>10, <1>11, <2>1, Zenon
  <2>3. hit_power_item(g, TRUE, rx, y) = {}
    <3>1. ~(y >= g.menu_y + g.pad /\ y - (g.menu_y + g.pad) < 3 * g.item_h)
      BY <1>1, <1>2, <2>1
    <3> QED
      BY <1>4, <3>1, Zenon DEF hit_power_item
  <2> QED
    BY <2>2, <2>3, ClickOutside, ZenonT(40) DEF g, s
<1>18. classify_click(w, h, FALSE, s.btn_x + s.btn_w \div 2, s.btn_y + s.btn_h \div 2) = <<"signin">>
  <2>1. OnSignIn(s, s.btn_x + s.btn_w \div 2, s.btn_y + s.btn_h \div 2)
    BY <1>3 DEF OnSignIn, In
  <2>2. ~hit_power(g, s.btn_x + s.btn_w \div 2, s.btn_y + s.btn_h \div 2)
    BY <1>1, <1>2, <1>3, <1>12 DEF hit_power, In
  <2> QED
    BY <2>1, <2>2, ClickClosed, ZenonT(40) DEF g, s
<1>19. \A i \in 0..Len(POWER_ITEMS) - 1 : classify_click(w, h, TRUE, rx, Row(i)) = <<"item", i>>
  <2> SUFFICES ASSUME NEW i \in 0..Len(POWER_ITEMS) - 1
               PROVE  classify_click(w, h, TRUE, rx, Row(i)) = <<"item", i>>
    BY Zenon
  <2>1. i \in 0..2
    BY <1>4
  <2> HIDE DEF rx, Row
  <2> QED
    BY <1>16, <2>1, Zenon
<1>20. /\ classify_click(w, h, TRUE, rx, g.menu_y + 1) = <<"outside">>
       /\ classify_click(w, h, TRUE, rx, g.menu_y + g.menu_h - 2) = <<"outside">>
  BY <1>17, Zenon
<1>21. \A name : check(name, TRUE) = {}
  BY Zenon DEF check
<1> QED
  BY <1>12, <1>13, <1>14, <1>15, <1>18, <1>19, <1>20, <1>21, Zenon DEF FailedChecks, check, s, g

\* Repainting the power widget's two boxes gives what drawing the whole screen does.
LEMMA RepaintIsDraw ==
  ASSUME NEW w, NEW h, Fits(w, h), NEW cells, cells \subseteq Int \X Int,
         NEW open, NEW sel, NEW open2, NEW sel2
  PROVE  draw_power(w, h, draw(w, h, cells, open, sel), open2, sel2)
           = draw(w, h, cells, open2, sel2)
<1> DEFINE s == signin_geom(w, h)
           g == power_geom(w, h)
           k == ui_scale(h)
           under(c) == IF OnSignIn(s, c[1], c[2]) THEN "signin" ELSE "backdrop"
           old == draw(w, h, cells, open, sel)
<1>1. /\ k \in {1, 2} /\ (k = 2 => h >= 874)
      /\ w \in Nat /\ h \in Nat /\ w >= 480 /\ h >= 480 /\ h <= 2 * w
  <2>1. k \in {1, 2} /\ (k = 2 => h >= 874)
    BY ScaleOf
  <2> QED
    BY <2>1 DEF Fits
<1>2. g.btn_y = h - 78 * k /\ g.menu_y = h - 158 * k
  BY PowerLayout
<1>3. s.btn_y \in Nat /\ s.btn_h \in Nat /\ 10000 * (s.btn_y + s.btn_h) <= 5525 * h
  BY SigninLayout
<1>4. s.btn_y + s.btn_h <= g.menu_y /\ g.menu_y <= g.btn_y /\ g.menu_y \in Int
  <2> HIDE DEF s, g, k
  <2> QED
    BY <1>1, <1>2, <1>3
<1>5. DOMAIN old = cells /\ \A c \in cells : old[c] = PowerWidget(g, open, sel, under(c), c)
  BY Zenon DEF draw
<1>6. draw(w, h, cells, open2, sel2) = [c \in cells |-> PowerWidget(g, open2, sel2, under(c), c)]
  BY Zenon DEF draw
<1>7. draw_power(w, h, old, open2, sel2) =
        [c \in DOMAIN old |->
           IF InMenu(g, c[1], c[2]) \/ hit_power(g, c[1], c[2])
           THEN PowerWidget(g, open2, sel2, "backdrop", c)
           ELSE old[c]]
  BY Zenon DEF draw_power
<1> HIDE DEF old
<1>8. ASSUME NEW c \in cells, InMenu(g, c[1], c[2]) \/ hit_power(g, c[1], c[2])
      PROVE  under(c) = "backdrop"
  <2>1. c[1] \in Int /\ c[2] \in Int
    BY <1>8, Zenon
  <2> HIDE DEF s, g, k
  <2>2. c[2] >= g.menu_y
    BY <1>1, <1>2, <1>4, <1>8, <2>1 DEF InMenu, hit_power, In
  <2>3. ~OnSignIn(s, c[1], c[2])
    BY <1>3, <1>4, <2>1, <2>2 DEF OnSignIn, In
  <2> QED
    BY <2>3, Zenon
<1> HIDE DEF s, g, k, under
<1>9. ASSUME NEW c \in cells, ~InMenu(g, c[1], c[2])
      PROVE  PowerWidget(g, open, sel, under(c), c) = PowerWidget(g, open2, sel2, under(c), c)
  BY <1>9, Zenon DEF PowerWidget
<1>10. \A c \in cells :
         (IF InMenu(g, c[1], c[2]) \/ hit_power(g, c[1], c[2])
          THEN PowerWidget(g, open2, sel2, "backdrop", c) ELSE old[c])
           = PowerWidget(g, open2, sel2, under(c), c)
  <2> SUFFICES ASSUME NEW c \in cells
               PROVE  (IF InMenu(g, c[1], c[2]) \/ hit_power(g, c[1], c[2])
                       THEN PowerWidget(g, open2, sel2, "backdrop", c) ELSE old[c])
                        = PowerWidget(g, open2, sel2, under(c), c)
    BY Zenon
  <2>1. CASE InMenu(g, c[1], c[2]) \/ hit_power(g, c[1], c[2])
    BY <1>8, <2>1, Zenon
  <2>2. CASE ~(InMenu(g, c[1], c[2]) \/ hit_power(g, c[1], c[2]))
    BY <1>5, <1>9, <2>2, Zenon
  <2> QED
    BY <2>1, <2>2, Zenon
<1> QED
  BY <1>5, <1>6, <1>7, <1>10, Zenon DEF old

\* What the screen shows once the task is in its loop.
Shown == IF PHASE = "desktop" THEN desktop_draw(DOMAIN screen)
         ELSE draw(size[1], size[2], DOMAIN screen, MENU_OPEN, SEL)

SigninInv ==
  /\ size \in Sizes /\ bad = {}
  /\ DOMAIN screen \subseteq Int \X Int
  /\ DOMAIN task = {"pc", "x", "y"}
  /\ task.pc \in {"test", "draw"} => PHASE = "signin"
  /\ task.pc \notin {"test", "draw"} => screen = Shown

LEMMA SizeFits == size \in Sizes => Fits(size[1], size[2])
  BY SizesAssumption DEF Fits

LEMMA CellsArePoints ==
  ASSUME NEW w, NEW h, Fits(w, h)
  PROVE  Cells(w, h) \subseteq Int \X Int
<1> DEFINE g == power_geom(w, h)
           s == signin_geom(w, h)
           k == ui_scale(h)
<1>1. k \in {1, 2}
  BY ScaleOf
<1>2. w \in Nat /\ h \in Nat
  BY Zenon DEF Fits
<1>3. /\ g.btn_x = w - 78 * k /\ g.btn_y = h - 78 * k /\ g.btn = 48 * k
      /\ g.menu_x = w - 226 * k /\ g.menu_y = h - 158 * k
      /\ g.menu_w = 196 * k /\ g.menu_h = 128 * k /\ g.item_h = 36 * k /\ g.pad = 10 * k
  BY PowerLayout
<1>4. s.btn_x \in Int /\ s.btn_w \in Int /\ s.btn_y \in Int /\ s.btn_h \in Int
  BY SigninLayout
<1>5. Cells(w, h) =
       {<<g.btn_x + g.btn \div 2, g.btn_y + g.btn \div 2>>,
        <<g.menu_x + g.menu_w \div 4, g.menu_y + g.pad + g.item_h + g.item_h \div 2>>,
        <<g.menu_x + g.menu_w \div 4, g.menu_y + g.pad + g.item_h \div 2>>,
        <<s.btn_x + s.btn_w \div 2, s.btn_y + s.btn_h \div 2>>}
         \cup {<<4, 4>>, <<g.menu_x + 1, g.menu_y + 1>>, <<g.btn_x, g.btn_y>>}
  BY Zenon DEF Cells, Points
<1> HIDE DEF g, s, k
<1>6. /\ g.btn_x \in Int /\ g.btn_y \in Int /\ g.menu_x \in Int /\ g.menu_y \in Int
      /\ g.btn \div 2 \in Int /\ g.menu_w \div 4 \in Int /\ g.pad \in Int /\ g.item_h \in Int
      /\ g.item_h \div 2 \in Int
  BY <1>1, <1>2, <1>3
<1> QED
  BY <1>4, <1>5, <1>6

LEMMA SigninInit == Init => SigninInv
<1> SUFFICES ASSUME Init PROVE SigninInv
  BY Zenon
<1>1. /\ size \in Sizes /\ bad = {} /\ PHASE = "signin" /\ task = [pc |-> "test", x |-> 0, y |-> 0]
      /\ screen = [c \in Cells(size[1], size[2]) |-> "console"]
  BY Zenon DEF Init
<1>2. DOMAIN screen \subseteq Int \X Int
  BY <1>1, SizeFits, CellsArePoints, Zenon
<1> QED
  BY <1>1, <1>2, Zenon DEF SigninInv

\* The four things on_click does.
LEMMA Clicked ==
  ASSUME run_pending, PHASE # "desktop"
  PROVE  PressPower \/ (\E i : PressItem(i)) \/ PressSignIn \/ PressOutside
<1> DEFINE c == classify_click(size[1], size[2], MENU_OPEN, task.x, task.y)
<1>1. on_click(c)
  BY Zenon DEF run_pending
<1>2. c[1] \in {"item", "power", "signin", "outside"}
  BY Zenon DEF classify_click
<1> HIDE DEF c
<1>3. CASE c[1] = "power"
  BY <1>1, <1>3, Zenon DEF on_click
<1>4. CASE c[1] = "item"
  BY <1>1, <1>4, Zenon DEF on_click
<1>5. CASE c[1] = "signin"
  BY <1>1, <1>5, Zenon DEF on_click
<1>6. CASE c[1] = "outside"
  BY <1>1, <1>6, Zenon DEF on_click
<1> QED
  BY <1>2, <1>3, <1>4, <1>5, <1>6, Zenon

LEMMA ClickShown ==
  ASSUME SigninInv, run_pending
  PROVE  SigninInv'
<1> DEFINE w == size[1]
           h == size[2]
           cells == DOMAIN screen
<1>1. /\ task.pc = "act" /\ UNCHANGED <<size, bad>> /\ size \in Sizes /\ bad = {}
      /\ cells \subseteq Int \X Int /\ DOMAIN task = {"pc", "x", "y"}
  BY Zenon DEF run_pending, SigninInv
<1>2. Fits(w, h) /\ screen = Shown
  BY <1>1, SizeFits, Zenon DEF SigninInv
<1>3. CASE PHASE = "desktop"
  <2>1. task' = [task EXCEPT !.pc = "sleep"] /\ UNCHANGED <<MENU_OPEN, SEL, PHASE, screen>>
    BY <1>3, Zenon DEF run_pending
  <2>2. Shown' = Shown
    BY <1>1, <2>1, Zenon DEF Shown
  <2> QED
    BY <1>1, <1>2, <2>1, <2>2, Zenon DEF SigninInv
<1>4. CASE PHASE # "desktop"
  <2>1. screen = draw(w, h, cells, MENU_OPEN, SEL)
    BY <1>2, <1>4, Zenon DEF Shown
  <2>2. \A pc : task' = [task EXCEPT !.pc = pc] => DOMAIN task' = {"pc", "x", "y"} /\ task'.pc = pc
    BY <1>1, Zenon
  <2>3. ASSUME NEW open, NEW sel, screen' = draw_power(w, h, screen, open, sel)
        PROVE  DOMAIN screen' = cells /\ screen' = draw(w, h, cells, open, sel)
    <3>1. DOMAIN screen' = cells
      BY <2>3, Zenon DEF draw_power
    <3>2. screen' = draw(w, h, cells, open, sel)
      <4> HIDE DEF w, h, cells
      <4>1. draw_power(w, h, draw(w, h, cells, MENU_OPEN, SEL), open, sel)
              = draw(w, h, cells, open, sel)
        BY <1>1, <1>2, RepaintIsDraw
      <4> QED
        BY <2>1, <2>3, <4>1, Zenon
    <3> QED
      BY <3>1, <3>2, Zenon
  <2>4. CASE PressPower
    <3>1. /\ MENU_OPEN' = ~MENU_OPEN /\ UNCHANGED <<SEL, PHASE>>
          /\ task' = [task EXCEPT !.pc = "sleep"]
          /\ screen' = draw_power(w, h, screen, ~MENU_OPEN, SEL)
      BY <2>4, Zenon DEF PressPower, Repaint
    <3>2. DOMAIN screen' = cells /\ screen' = draw(w, h, cells, ~MENU_OPEN, SEL)
      BY <2>3, <3>1, Zenon
    <3>3. screen' = Shown'
      BY <1>1, <1>4, <3>1, <3>2, Zenon DEF Shown
    <3> QED
      BY <1>1, <2>2, <3>1, <3>2, <3>3, Zenon DEF SigninInv
  <2>5. ASSUME NEW i, PressItem(i) PROVE SigninInv'
    <3>1. /\ SEL' = i /\ MENU_OPEN' = FALSE /\ UNCHANGED PHASE
          /\ \/ task' = [task EXCEPT !.pc = "sleep"] \/ task' = [task EXCEPT !.pc = "perform"]
          /\ screen' = draw_power(w, h, screen, FALSE, i)
      BY <2>5, Zenon DEF PressItem, Repaint
    <3>2. DOMAIN screen' = cells /\ screen' = draw(w, h, cells, FALSE, i)
      BY <2>3, <3>1, Zenon
    <3>3. screen' = Shown'
      BY <1>1, <1>4, <3>1, <3>2, Zenon DEF Shown
    <3> QED
      BY <1>1, <2>2, <3>1, <3>2, <3>3, Zenon DEF SigninInv
  <2>6. CASE PressSignIn
    <3>1. PHASE' = "desktop" /\ screen' = desktop_draw(cells) /\ task' = [task EXCEPT !.pc = "sleep"]
      BY <2>6, Zenon DEF PressSignIn
    <3>2. DOMAIN screen' = cells /\ screen' = Shown'
      BY <3>1, Zenon DEF desktop_draw, Shown
    <3> QED
      BY <1>1, <2>2, <3>1, <3>2, Zenon DEF SigninInv
  <2>7. CASE PressOutside
    <3>1. /\ MENU_OPEN' = FALSE /\ UNCHANGED <<SEL, PHASE>> /\ task' = [task EXCEPT !.pc = "sleep"]
          /\ IF MENU_OPEN THEN screen' = draw_power(w, h, screen, FALSE, SEL) ELSE screen' = screen
      BY <2>7, Zenon DEF PressOutside, Repaint
    <3>2. DOMAIN screen' = cells /\ screen' = draw(w, h, cells, FALSE, SEL)
      <4>1. CASE MENU_OPEN
        BY <2>3, <3>1, <4>1, Zenon
      <4>2. CASE ~MENU_OPEN
        <5>1. draw(w, h, cells, MENU_OPEN, SEL) = draw(w, h, cells, FALSE, SEL)
          BY <4>2, Zenon DEF draw, PowerWidget
        <5> QED
          BY <2>1, <3>1, <4>2, <5>1, ZenonT(40)
      <4> QED
        BY <4>1, <4>2, Zenon
    <3>3. screen' = Shown'
      BY <1>1, <1>4, <3>1, <3>2, Zenon DEF Shown
    <3> QED
      BY <1>1, <2>2, <3>1, <3>2, <3>3, Zenon DEF SigninInv
  <2> QED
    BY <1>4, <2>4, <2>5, <2>6, <2>7, Clicked, Zenon
<1> QED
  BY <1>3, <1>4, Zenon

LEMMA SigninStep == SigninInv /\ [Next]_vars => SigninInv'
<1> SUFFICES ASSUME SigninInv, [Next]_vars PROVE SigninInv'
  BY Zenon
<1>1. ASSUME UNCHANGED <<size, bad, screen, PHASE, MENU_OPEN, SEL>>, DOMAIN task' = {"pc", "x", "y"},
             task' = task \/ (task.pc \notin {"test", "draw"} /\ task'.pc \notin {"test", "draw"})
      PROVE  SigninInv'
  <2>1. Shown' = Shown
    BY <1>1, Zenon DEF Shown
  <2> QED
    BY <1>1, <2>1, Zenon DEF SigninInv
<1>2. DOMAIN task = {"pc", "x", "y"} /\ size \in Sizes /\ DOMAIN screen \subseteq Int \X Int /\ bad = {}
  BY Zenon DEF SigninInv
<1>3. CASE OfInput(InputNext(Points(size[1], size[2]))) \/ QueueClick \/ UNCHANGED vars
  <2>1. UNCHANGED <<size, ui, task>>
    BY <1>3, Zenon DEF OfInput, QueueClick, vars
  <2> QED
    BY <1>1, <1>2, <2>1, Zenon DEF ui
<1>4. CASE signin_test
  <2>1. /\ task.pc = "test" /\ UNCHANGED <<size, PHASE>> /\ task' = [task EXCEPT !.pc = "draw"]
        /\ bad' = FailedChecks(size[1], size[2])
        /\ screen' = draw(size[1], size[2], DOMAIN screen, FALSE, SEL)
    BY <1>4, Zenon DEF signin_test
  <2>2. bad' = {}
    BY <1>2, <2>1, SizeFits, SelfTestPasses, Zenon
  <2>3. DOMAIN screen' = DOMAIN screen
    BY <2>1, Zenon DEF draw
  <2>4. PHASE = "signin" /\ DOMAIN task' = {"pc", "x", "y"} /\ task'.pc = "draw"
    BY <1>2, <2>1, Zenon DEF SigninInv
  <2> QED
    BY <1>2, <2>1, <2>2, <2>3, <2>4, Zenon DEF SigninInv
<1>5. CASE signin_task
  <2>1. /\ task.pc = "draw" /\ task' = [task EXCEPT !.pc = "sleep"]
        /\ screen' = draw(size[1], size[2], DOMAIN screen, MENU_OPEN, SEL)
        /\ UNCHANGED <<size, MENU_OPEN, SEL, PHASE, bad>>
    BY <1>5, Zenon DEF signin_task
  <2>2. DOMAIN screen' = DOMAIN screen
    BY <2>1, Zenon DEF draw
  <2>3. PHASE = "signin" /\ DOMAIN task' = {"pc", "x", "y"} /\ task'.pc = "sleep"
    BY <1>2, <2>1, Zenon DEF SigninInv
  <2>4. screen' = Shown'
    BY <2>1, <2>2, <2>3, Zenon DEF Shown
  <2> QED
    BY <1>2, <2>1, <2>2, <2>3, <2>4, Zenon DEF SigninInv
<1>6. CASE take_pending
  <2>1. /\ UNCHANGED <<size, ui>> /\ task.pc \in {"sleep", "load_x", "load_y"}
        /\ \/ task' = [task EXCEPT !.pc = "load_x"]
           \/ task' = [task EXCEPT !.pc = "load_y", !.x = CLICK_X]
           \/ task' = [task EXCEPT !.pc = "act", !.y = CLICK_Y]
    BY <1>6, Zenon DEF take_pending
  <2>2. DOMAIN task' = {"pc", "x", "y"} /\ task'.pc \in {"load_x", "load_y", "act"}
    BY <1>2, <2>1, Zenon
  <2> QED
    BY <1>1, <2>1, <2>2, Zenon DEF ui
<1>7. CASE perform
  <2>1. /\ task.pc = "perform" /\ task' = [task EXCEPT !.pc = "halted"]
        /\ UNCHANGED <<size, MENU_OPEN, SEL, PHASE, screen, bad>>
    BY <1>7, Zenon DEF perform
  <2>2. DOMAIN task' = {"pc", "x", "y"} /\ task'.pc = "halted"
    BY <1>2, <2>1, Zenon
  <2> QED
    BY <1>1, <2>1, <2>2, Zenon
<1> QED
  BY <1>3, <1>4, <1>5, <1>6, <1>7, ClickShown, Zenon DEF Next, Signin

(***************************************************************************)
(* At every size the sign-in screen fits, after any clicks: signin_test    *)
(* finds no fault in the geometry, and repainting only the power widget    *)
(* (draw_power) leaves on the screen what drawing all of it would.         *)
(***************************************************************************)
THEOREM ScreenIsShown == Spec => []ScreenShowsState
<1>1. SigninInv => ScreenShowsState
  BY Zenon DEF SigninInv, Shown, ScreenShowsState
<1> QED
  BY SigninInit, SigninStep, <1>1, PTL DEF Spec
=============================================================================
