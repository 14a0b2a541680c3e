----------------------------- MODULE MCPresent -----------------------------
(* An instance of Present: the drawing tasks, the flusher and IRQ 12. *)
EXTENDS Present, TLC

\* A task stays on the CPU it was spawned on, and the boot CPU, which takes
\* IRQ 12, spawns every task that draws.
OnBsp == [a \in {"writer", "console", "mouse", "flusher"} |-> "bsp"]

\* The writer and the console draw a pixel each, the sprite covers both.
Areas == "writer" :> {{1}} @@ "console" :> {{2}} @@ "mouse" :> {{1, 2}}
=============================================================================
