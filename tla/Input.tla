------------------------------- MODULE Input -------------------------------
(***************************************************************************)
(* keyboard.rs, mouse.rs and input.rs: what becomes of a key or of a mouse *)
(* byte between its interrupt and the task that reads it.                  *)
(*                                                                         *)
(*  - IRQ 1 puts every key into the raw event ring and every decoded press *)
(*    into a lock-free single-producer ring of keys, of which take_line,   *)
(*    under LINE_LOCK, makes lines for the tasks in SYS_READ(0);           *)
(*  - IRQ 12 assembles three bytes into a packet, under the kernel-service *)
(*    lock (KSL), and then puts it into the raw ring, moves the cursor and *)
(*    leaves a press for the sign-in screen;                               *)
(*  - the mouse task's watchdog runs the PS/2 enable sequence again when   *)
(*    the mouse has been silent, holding the KSL with interrupts off.  It  *)
(*    runs on the CPU IRQ 12 is routed to (main.rs spawns it there), so    *)
(*    the handler and the sequence never overlap, and an interrupt raised  *)
(*    during the sequence stays latched until it is over.                  *)
(*                                                                         *)
(* A key stands for its scancodes.  Where the cursor is after a packet is  *)
(* any of Points: module Cursor models the moves.                          *)
(***************************************************************************)
EXTENDS Integers, Sequences

CONSTANTS
  Chars,      \* printable keys, next to "enter", "bs" and the named key "shift"
  Packets,    \* three-byte packets the mouse may send
  RING_LEN,   \* slots of the key ring (256 in the code)
  EV_LEN,     \* slots of the raw event ring (256)
  LINE_MAX,   \* bytes LINE holds (128)
  OutLens,    \* lengths of the buffers given to SYS_READ(0)
  Releases,   \* bound: keys whose release is followed
  Scenarios   \* bound: [keys, packets, retries, readers, raw], what the user will
              \* do, how often the watchdog acts, which tasks read lines, and
              \* whether one reads raw events

ASSUME RingAssumption == EV_LEN \in Nat \ {0} /\ RING_LEN \in Nat \ {0}

ASSUME NamesAssumption ==
  "enter" \notin Chars /\ "bs" \notin Chars /\ \A s \in Scenarios : "free" \notin s.readers

\* The first byte of a packet has bit 3 set.
ASSUME PacketsAssumption ==
  \A p \in Packets : p \in [1..3 -> 0..255] /\ (p[1] \div 8) % 2 = 1

ACK == 250
Idle1 == [pc |-> "idle", key |-> "none"]
Idle12 == [pc |-> "idle", byte |-> 0, at |-> <<0, 0>>,
           pkt |-> [dx |-> 0, dy |-> 0, buttons |-> 0, press |-> FALSE]]
Keys == Chars \cup {"enter", "bs", "shift"}

VARIABLES
  left,        \* what is left of the scenario
  RING, HEAD, TAIL,
  irq1,        \* IRQ 1: [pc, key]
  LINE, LINE_LOCK,
  rd,          \* per reader: [pc, out, key]
  raw,         \* input.rs: [RING, HEAD, TAIL, COUNT, DROPPED]
  ksl,         \* the watchdog holds the KSL; other sections are one step
  wire,        \* bytes in the i8042, oldest first
  port,        \* the byte last read, which an empty data port returns again
  latched,     \* IRQ 12 is raised and not yet taken
  streaming,   \* the mouse sends packets
  irq12,       \* IRQ 12: [pc, byte, pkt, at]
  asm,         \* packet assembly: [IDX, FLAGS, DX, PREV_LEFT]
  dog,         \* the watchdog: [pc, cmd]
  SAW_PKT,
  typed,       \* ghost: what the keys accepted since the last Enter spell
  log,         \* ghost: keys accepted and not yet consumed, each with the text up to it
  got,         \* ghost: the last finished line, and the key it ended with
  sent,        \* ghost: packets sent and not yet completed
  done,        \* ghost: the last packet completed, and the one sent
  torn         \* ghost: the enable sequence met a packet, or IRQ 12 an empty port

lines == <<typed, log, got>>
i8042 == <<wire, port, latched>>
keyVars == <<RING, HEAD, TAIL, irq1, LINE, LINE_LOCK, rd, lines>>
mouseVars == <<ksl, i8042, streaming, irq12, asm, dog, SAW_PKT, sent, done, torn>>
inputVars == <<left, keyVars, raw, mouseVars>>
-----------------------------------------------------------------------------
(* input.rs *)

\* A guard on the indices alone, which takes one free slot for none.
PushByIndex(e) ==
  raw' = IF (raw.HEAD + 1) % EV_LEN = raw.TAIL THEN [raw EXCEPT !.DROPPED = @ + 1]
         ELSE [raw EXCEPT !.RING[raw.HEAD] = e, !.HEAD = (@ + 1) % EV_LEN,
                          !.COUNT = @ + 1]

\* push drops the new event when COUNT says the ring is full.
push(e) ==
  raw' = IF raw.COUNT = EV_LEN THEN [raw EXCEPT !.DROPPED = @ + 1]
         ELSE [raw EXCEPT !.RING[raw.HEAD] = e, !.HEAD = (@ + 1) % EV_LEN,
                          !.COUNT = @ + 1]

push_key(k, down) == push(<<"key", k, down>>)
push_mouse(dx, dy, buttons) == push(<<"mouse", dx, -dy, buttons>>)

\* SYS_INPUT_READ: as many whole events as fit into the caller's buffer.
drain ==
  /\ left.raw /\ ksl = "free" /\ raw.COUNT > 0
  /\ \E n \in 1..raw.COUNT :
       raw' = [raw EXCEPT !.TAIL = (@ + n) % EV_LEN, !.COUNT = @ - n]
  /\ UNCHANGED <<left, keyVars, mouseVars>>
-----------------------------------------------------------------------------
(* keyboard.rs: the interrupt *)

\* handle_irq: the raw event first; only a press is decoded into the key ring.
KeyIrq(k, down) ==
  /\ irq1.pc = "idle" /\ ksl = "free" /\ left.keys > 0
  /\ left' = [left EXCEPT !.keys = @ - 1]
  /\ push_key(k, down)
  /\ irq1' = IF down THEN [pc |-> "push", key |-> k] ELSE irq1
  /\ UNCHANGED <<RING, HEAD, TAIL, LINE, LINE_LOCK, rd, lines, mouseVars>>

\* A producer that does not look at TAIL.
RingStoreBlind ==
  /\ irq1.pc = "push"
  /\ RING' = [RING EXCEPT ![HEAD] = irq1.key] /\ irq1' = [irq1 EXCEPT !.pc = "publish"]
  /\ UNCHANGED <<left, HEAD, TAIL, LINE, LINE_LOCK, rd, lines, raw, mouseVars>>

\* ring_push up to the slot write; a full ring drops the key.
RingStore ==
  /\ irq1.pc = "push"
  /\ IF (HEAD + 1) % RING_LEN # TAIL
     THEN RING' = [RING EXCEPT ![HEAD] = irq1.key] /\ irq1' = [irq1 EXCEPT !.pc = "publish"]
     ELSE RING' = RING /\ irq1' = Idle1
  /\ UNCHANGED <<left, HEAD, TAIL, LINE, LINE_LOCK, rd, lines, raw, mouseVars>>

\* The key popped becomes part of LINE, edits it or is ignored.
Edited(line, k) ==
  CASE k = "bs" -> IF line = <<>> THEN line ELSE SubSeq(line, 1, Len(line) - 1)
    [] k \in Chars -> IF Len(line) < LINE_MAX THEN Append(line, k) ELSE line
    [] OTHER -> line

\* The Release store of HEAD, the end of ring_push.
RingPublish ==
  /\ irq1.pc = "publish"
  /\ HEAD' = (HEAD + 1) % RING_LEN
  /\ irq1' = Idle1
  /\ log' = Append(log, [key |-> irq1.key, text |-> Edited(typed, irq1.key)])
  /\ typed' = IF irq1.key = "enter" THEN <<>> ELSE Edited(typed, irq1.key)
  /\ UNCHANGED <<left, RING, TAIL, LINE, LINE_LOCK, rd, got, raw, mouseVars>>
-----------------------------------------------------------------------------
(* keyboard.rs and sys_read: the line discipline *)

\* The ring's keys, oldest first.
Pending == [i \in 1..((HEAD + RING_LEN - TAIL) % RING_LEN) |->
              RING[(TAIL + i - 1) % RING_LEN]]

\* A test that looks at the oldest key only.
FirstIsEnter == Pending # <<>> /\ Pending[1] = "enter"

line_pending == \E i \in DOMAIN Pending : Pending[i] = "enter"

StartRead(r) ==
  /\ rd[r].pc = "user"
  /\ \E n \in OutLens : rd' = [rd EXCEPT ![r] = [pc |-> "take", out |-> n, key |-> "none"]]
  /\ UNCHANGED <<left, RING, HEAD, TAIL, irq1, LINE, LINE_LOCK, lines, raw, mouseVars>>

TakeLock(r) ==
  /\ rd[r].pc = "take" /\ LINE_LOCK = "free"
  /\ LINE_LOCK' = r
  /\ rd' = [rd EXCEPT ![r].pc = "pop"]
  /\ UNCHANGED <<left, RING, HEAD, TAIL, irq1, LINE, lines, raw, mouseVars>>

\* ring_pop up to the slot read; an empty ring ends take_line with 0.
RingLoad(r) ==
  /\ rd[r].pc = "pop"
  /\ IF TAIL = HEAD
     THEN LINE_LOCK' = "free" /\ rd' = [rd EXCEPT ![r].pc = "none"]
     ELSE LINE_LOCK' = LINE_LOCK
          /\ rd' = [rd EXCEPT ![r].pc = "got", ![r].key = RING[TAIL]]
  /\ UNCHANGED <<left, RING, HEAD, TAIL, irq1, LINE, lines, raw, mouseVars>>

Finish(r, line) ==
  /\ LINE' = <<>> /\ LINE_LOCK' = "free"
  /\ rd' = [rd EXCEPT ![r].pc = IF line = <<>> THEN "none" ELSE "user", ![r].key = "none"]
  /\ got' = {[line |-> line, out |-> rd[r].out, of |-> IF log = <<>> THEN {} ELSE {Head(log)}]}

Consume(r) ==
  /\ rd[r].pc = "got"
  /\ TAIL' = (TAIL + 1) % RING_LEN
  /\ log' = IF log = <<>> THEN log ELSE Tail(log)
  /\ IF rd[r].key = "enter"
     THEN Finish(r, SubSeq(LINE, 1, IF Len(LINE) < rd[r].out THEN Len(LINE) ELSE rd[r].out))
     ELSE /\ LINE' = Edited(LINE, rd[r].key)
          /\ rd' = [rd EXCEPT ![r].pc = "pop", ![r].key = "none"]
          /\ UNCHANGED <<LINE_LOCK, got>>
  /\ UNCHANGED <<left, RING, HEAD, irq1, typed, raw, mouseVars>>

\* An empty take_line: yield if a line is on its way, block otherwise.
Decide(r) ==
  /\ rd[r].pc = "none"
  /\ rd' = [rd EXCEPT ![r].pc = IF line_pending THEN "take" ELSE "blocked"]
  /\ UNCHANGED <<left, RING, HEAD, TAIL, irq1, LINE, LINE_LOCK, lines, raw, mouseVars>>

\* The scheduler's wake pass.
Wake(r) ==
  /\ rd[r].pc = "blocked" /\ line_pending
  /\ rd' = [rd EXCEPT ![r].pc = "take"]
  /\ UNCHANGED <<left, RING, HEAD, TAIL, irq1, LINE, LINE_LOCK, lines, raw, mouseVars>>

Reader(r) == StartRead(r) \/ TakeLock(r) \/ RingLoad(r) \/ Consume(r) \/ Decide(r) \/ Wake(r)
-----------------------------------------------------------------------------
(* mouse.rs: packets *)

Bit(byte, b) == (byte \div b) % 2 = 1

\* Nine bits of two's complement: the byte and its sign flag.
Signed(byte, negative) == IF negative THEN byte - 256 ELSE byte

MouseSends ==
  /\ streaming /\ left.packets > 0
  /\ left' = [left EXCEPT !.packets = @ - 1]
  /\ \E p \in Packets : wire' = wire \o p /\ sent' = Append(sent, p)
  /\ latched' = TRUE
  /\ UNCHANGED <<keyVars, raw, ksl, port, streaming, irq12, asm, dog, SAW_PKT, done, torn>>

\* handle_irq reads the port before it takes the KSL, and without a look at the
\* status register: with no byte there it gets the last one again.  The next
\* byte raises the interrupt anew.
Irq12Read ==
  /\ irq12.pc = "idle" /\ latched /\ ksl # "dog"
  /\ port' = IF wire = <<>> THEN port ELSE Head(wire)
  /\ irq12' = [irq12 EXCEPT !.pc = "byte", !.byte = port']
  /\ wire' = IF wire = <<>> THEN wire ELSE Tail(wire)
  /\ latched' = (wire' # <<>>)
  /\ torn' = (torn \/ wire = <<>>)
  /\ UNCHANGED <<left, keyVars, raw, ksl, streaming, asm, dog, SAW_PKT, sent, done>>

\* The first byte is taken only with bit 3 set.
FirstByte(byte) ==
  /\ asm.IDX = 0
  /\ asm' = IF Bit(byte, 8) THEN [asm EXCEPT !.FLAGS = byte, !.IDX = 1] ELSE asm
  /\ irq12' = Idle12
  /\ UNCHANGED <<SAW_PKT, sent, done>>

SecondByte(byte) ==
  /\ asm.IDX = 1
  /\ asm' = [asm EXCEPT !.DX = Signed(byte, Bit(asm.FLAGS, 16)), !.IDX = 2]
  /\ irq12' = Idle12
  /\ UNCHANGED <<SAW_PKT, sent, done>>

\* The third byte completes a packet; a press is the left button going down.
Completed(byte) ==
  [dx |-> asm.DX, dy |-> Signed(byte, Bit(asm.FLAGS, 32)), buttons |-> asm.FLAGS % 4,
   press |-> Bit(asm.FLAGS, 1) /\ ~asm.PREV_LEFT]

ThirdByte(byte) ==
  /\ asm.IDX = 2
  /\ asm' = [asm EXCEPT !.IDX = 0, !.PREV_LEFT = Bit(asm.FLAGS, 1)]
  /\ irq12' = [irq12 EXCEPT !.pc = "push", !.pkt = Completed(byte)]
  /\ SAW_PKT' = TRUE
  /\ done' = {[pkt |-> Completed(byte), of |-> IF sent = <<>> THEN {} ELSE {Head(sent)}]}
  /\ sent' = IF sent = <<>> THEN sent ELSE Tail(sent)

\* The assembly section.
Assemble ==
  /\ irq12.pc = "byte" /\ ksl = "free"
  /\ FirstByte(irq12.byte) \/ SecondByte(irq12.byte) \/ ThirdByte(irq12.byte)
  /\ UNCHANGED <<left, keyVars, raw, ksl, i8042, streaming, dog, torn>>

\* After the section: the raw event and the cursor; a press is left to queue_click.
Deliver(Points) ==
  /\ irq12.pc = "push" /\ ksl = "free"
  /\ push_mouse(irq12.pkt.dx, irq12.pkt.dy, irq12.pkt.buttons)
  /\ \E p \in Points :
       irq12' = IF irq12.pkt.press THEN [irq12 EXCEPT !.pc = "x", !.at = p]
                                   ELSE Idle12
  /\ UNCHANGED <<left, keyVars, ksl, i8042, streaming, asm, dog, SAW_PKT, sent, done, torn>>
-----------------------------------------------------------------------------
(* mouse.rs: the watchdog *)

\* init's commands: streaming off, defaults, sample rate, streaming on.
Commands == <<245, 246, 243, 200, 244>>

\* run_reader finds the mouse silent for MOUSE_STALL_MS and out of its cooldown.
Stalled ==
  /\ dog.pc = "sleep" /\ SAW_PKT /\ left.retries > 0
  /\ wire = <<>> /\ irq12.pc = "idle"
  /\ left' = [left EXCEPT !.retries = @ - 1]
  /\ dog' = [dog EXCEPT !.pc = "lock"]
  /\ UNCHANGED <<keyVars, raw, ksl, i8042, streaming, irq12, asm, SAW_PKT, sent, done, torn>>

\* recover_streaming takes the KSL, with no handler under way on its CPU, and
\* leaves the assembly as it is.
RecoverLock ==
  /\ dog.pc = "lock" /\ ksl = "free" /\ irq12.pc = "idle"
  /\ ksl' = "dog"
  /\ dog' = [dog EXCEPT !.pc = "send", !.cmd = 1]
  /\ torn' = (torn \/ asm.IDX # 0 \/ wire # <<>>)
  /\ UNCHANGED <<left, keyVars, raw, i8042, streaming, irq12, asm, SAW_PKT, sent, done>>

\* One command reaches the mouse, which answers 0xFA after what it had queued.
\* The answer raises IRQ 12, which the sequence's polling does not take back.
SendCommand ==
  /\ dog.pc = "send"
  /\ wire' = Append(wire, ACK) /\ latched' = TRUE
  /\ streaming' = (Commands[dog.cmd] # 245 /\ (streaming \/ Commands[dog.cmd] = 244))
  /\ dog' = [dog EXCEPT !.pc = "ack"]
  /\ UNCHANGED <<left, keyVars, raw, ksl, port, irq12, asm, SAW_PKT, sent, done, torn>>

\* A driver that writes its commands and never reads what comes back.
AckUnread(bytes) == bytes

\* What send_command's reads leave: they stop at the acknowledgement.
AfterAck(bytes) ==
  LET First(i) == bytes[i] = ACK /\ \A j \in 1..(i - 1) : bytes[j] # ACK
  IN  IF \A i \in 1..Len(bytes) : bytes[i] # ACK THEN <<>>
      ELSE SubSeq(bytes, (CHOOSE i \in 1..Len(bytes) : First(i)) + 1, Len(bytes))

\* A read that times out fails the command, and the sequence goes on; the
\* output buffer is drained after the first command and once more.  The last
\* byte read is the acknowledgement (after the first command a configuration
\* byte, which nobody sees before the next acknowledgement).
ReadAck ==
  /\ dog.pc = "ack"
  /\ wire' = IF dog.cmd = 1 THEN <<>> ELSE AfterAck(wire)
  /\ port' = ACK
  /\ torn' = (torn \/ (dog.cmd = 1 /\ wire # <<ACK>>))
  /\ IF dog.cmd < Len(Commands)
     THEN dog' = [dog EXCEPT !.pc = "send", !.cmd = @ + 1] /\ ksl' = ksl
     ELSE dog' = [pc |-> "sleep", cmd |-> 1] /\ ksl' = "free"
  /\ UNCHANGED <<left, keyVars, raw, latched, streaming, irq12, asm, SAW_PKT, sent, done>>

Watchdog == Stalled \/ RecoverLock \/ SendCommand \/ ReadAck
-----------------------------------------------------------------------------
InputInit ==
  /\ left \in Scenarios
  /\ RING = [i \in 0..RING_LEN - 1 |-> "none"] /\ HEAD = 0 /\ TAIL = 0
  /\ irq1 = Idle1
  /\ LINE = <<>> /\ LINE_LOCK = "free"
  /\ rd = [r \in left.readers |-> [pc |-> "user", out |-> 0, key |-> "none"]]
  /\ raw = [RING |-> [i \in 0..EV_LEN - 1 |-> <<>>], HEAD |-> 0, TAIL |-> 0,
            COUNT |-> 0, DROPPED |-> 0]
  /\ ksl = "free" /\ wire = <<>> /\ port = ACK /\ latched = FALSE /\ streaming = TRUE
  /\ irq12 = Idle12
  /\ asm = [IDX |-> 0, FLAGS |-> 0, DX |-> 0, PREV_LEFT |-> FALSE]
  /\ dog = [pc |-> "sleep", cmd |-> 1]
  /\ SAW_PKT = FALSE
  /\ typed = <<>> /\ log = <<>> /\ got = {} /\ sent = <<>> /\ done = {} /\ torn = FALSE

Irq1 == RingStore \/ RingPublish
Irq12(Points) == Irq12Read \/ Assemble \/ Deliver(Points)
User == \/ MouseSends
        \/ \E k \in Keys : KeyIrq(k, TRUE)
        \/ \E k \in Releases : KeyIrq(k, FALSE)
InputNext(Points) ==
  User \/ Irq1 \/ Irq12(Points) \/ drain \/ Watchdog \/ \E r \in DOMAIN rd : Reader(r)
-----------------------------------------------------------------------------
(***************************************************************************)
(* A line handed to a task is what the keys accepted since the previous    *)
(* Enter spell, backspaces applied and cut at the caller's buffer: the key *)
(* ring neither loses, repeats nor reorders a key it accepted, whichever   *)
(* tasks take turns in assembling the line.                                *)
(***************************************************************************)
LineIsTyped ==
  \A g \in got : \E e \in g.of :
    /\ e.key = "enter"
    /\ g.line = SubSeq(e.text, 1, IF Len(e.text) < g.out THEN Len(e.text) ELSE g.out)

(***************************************************************************)
(* A packet the interrupt handler completes is the one the mouse sent, not *)
(* pieces of two, as long as neither of two things has happened, after     *)
(* which nothing puts the assembly into step again (IDX is not reset):     *)
(*  - the enable sequence met a packet that started while the watchdog was *)
(*    already on its way, and threw a part of it away;                     *)
(*  - IRQ 12 found the port empty.  The acknowledgements the sequence      *)
(*    polls leave an interrupt latched; if no packet comes before it is    *)
(*    taken, handle_irq reads the last 0xFA again, and its bit 3 makes it  *)
(*    a first byte.  Every recovery of a mouse that stays quiet ends so.   *)
(***************************************************************************)
FramesAreSent ==
  torn \/ \A d \in done : \E p \in d.of :
    /\ d.pkt.dx = Signed(p[2], Bit(p[1], 16))
    /\ d.pkt.dy = Signed(p[3], Bit(p[1], 32))
    /\ d.pkt.buttons = p[1] % 4

(***************************************************************************)
(* The raw event ring is a first-in first-out queue that turns an event    *)
(* away only when all its slots are taken.                                 *)
(***************************************************************************)
RawQueue == [i \in 1..raw.COUNT |-> raw.RING[(raw.TAIL + i - 1) % EV_LEN]]
RawFifo == INSTANCE Fifo WITH Cap <- EV_LEN, q <- RawQueue, lost <- raw.DROPPED
RawIsFifo == RawFifo!Spec
=============================================================================
