------------------------------- MODULE MCGpu -------------------------------
(* Machines for Gpu: one on which everything works, and that machine with  *)
(* one or two of its answers changed.                                      *)
EXTENDS Gpu, TLC

Cap(type, len, off, length, next) ==
  [vendor |-> TRUE, type |-> type, len |-> len, bar |-> 4, off |-> off,
   length |-> length, mul |-> 4, next |-> next]

\* QEMU's layout: four structures, each in a page of BAR 4.
Config ==
  (64 :> Cap("common", 16, 0, 4096, 80)) @@ (80 :> Cap("isr", 16, 4096, 4096, 96))
  @@ (96 :> Cap("device", 16, 8192, 4096, 112)) @@ (112 :> Cap("notify", 20, 12288, 4096, 0))

Latches == {"ack", "driver", "features_ok", "size", "enable", "driver_ok", "cursor_enable"}

Good ==
  [display |-> TRUE, virtio |-> TRUE, config |-> Config, head |-> 64,
   base |-> [b \in 0..5 |-> IF b = 4 THEN 65536 ELSE 0],
   latches |-> Latches, version1 |-> TRUE, virgl |-> FALSE, scanouts |-> 1,
   queues |-> 2, maxSize |-> 3, notifyOff |-> 1,
   dispi |-> TRUE, found |-> [mode |-> "firmware", on |-> TRUE],
   accepts |-> {"want", "bogus"}, flaky |-> FALSE, lfb |-> "good",
   memory |-> "all", backingReal |-> TRUE]

\* Boot-path variants: what the display device and its registers do.
Displays ==
  {[Good EXCEPT !.virtio = v, !.found = f, !.accepts = a, !.flaky = b, !.lfb = l] :
     v \in {FALSE}, a \in {{"want"}, {"bogus"}, {"want", "bogus"}}, b \in BOOLEAN,
     f \in {[mode |-> "firmware", on |-> TRUE], [mode |-> "firmware", on |-> FALSE],
            [mode |-> "zero", on |-> FALSE]},
     l \in {"none", "unmappable", "elsewhere", "good"}}
  \cup {[Good EXCEPT !.display = FALSE], [Good EXCEPT !.dispi = FALSE]}

\* Probe and queue variants: malformed capability lists, registers that do not latch.
Transports ==
  {[Good EXCEPT !.latches = Latches \ {l}] : l \in Latches}
  \cup {[Good EXCEPT !.head = 0],
        [Good EXCEPT !.config[112].next = 64],
        [Good EXCEPT !.config[64].next = 64],
        [Good EXCEPT !.config[64].length = 0],
        [Good EXCEPT !.config[64].off = 2048],
        [Good EXCEPT !.config[64].bar = 6],
        [Good EXCEPT !.config[64].bar = 2],
        [Good EXCEPT !.config[96].length = 8],
        [Good EXCEPT !.config[112].vendor = FALSE],
        [Good EXCEPT !.config[112].len = 16],
        [Good EXCEPT !.notifyOff = 1024],
        [Good EXCEPT !.version1 = FALSE], [Good EXCEPT !.virgl = TRUE],
        [Good EXCEPT !.scanouts = 0], [Good EXCEPT !.queues = 0],
        [Good EXCEPT !.queues = 1], [Good EXCEPT !.maxSize = 1],
        [Good EXCEPT !.memory = "none"], [Good EXCEPT !.memory = "queues"],
        [Good EXCEPT !.memory = "backing"], [Good EXCEPT !.backingReal = FALSE]}

MCMachines == {Good} \cup Displays \cup Transports
=============================================================================
