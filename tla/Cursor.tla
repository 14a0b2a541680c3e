------------------------------- MODULE Cursor -------------------------------
(***************************************************************************)
(* The mouse pointer of framebuffer.rs.  The software sprite is stamped    *)
(* into the framebuffer and remembers the pixels under it in SAVE; the     *)
(* console, the sign-in screen, the frame clock, the latency probe and the *)
(* IRQ 12 handler all draw around it, until the GPU task hands the pointer *)
(* to the device's cursor queue, if it can.                                *)
(*                                                                         *)
(* A pixel is a point <<x, y>> and a console glyph covers one.  Colours    *)
(* are 0 (the slate background), 1 (anything else drawn) and 2 (the        *)
(* sprite).  Work done under the FB lock with interrupts off is one step.  *)
(***************************************************************************)
EXTENDS Integers, Sequences

CONSTANTS
  Width, Height,   \* the surface
  Top,             \* first row of the text console, under the header
  Sprite,          \* the opaque points of the sprite, from its hot spot
  SpriteW, SpriteH,
  Packets,         \* the <<dx, dy>> a mouse packet may carry
  Lines,           \* what tasks print: sequences of bytes
  Regions,         \* what with_writer_region callers repaint
  Track, Boxes,    \* the frame clock's track and the places of its box
  Marker,          \* the latency probe's marker
  MaxDraws         \* bound: calls that draw, followed

Pixels == (0..Width - 1) \X (0..Height - 1)
Footprint == (0..SpriteW - 1) \X (0..SpriteH - 1)
Slate == 0
Drawn == 1
Arrow == 2

ASSUME CursorAssumption ==
  /\ {Width, Height, Top, SpriteW, SpriteH} \subseteq Nat
  /\ Sprite \subseteq Footprint
  /\ SpriteW < Width /\ SpriteH < Height /\ Top < Height
  /\ Packets \subseteq Int \X Int
  /\ \A r \in Regions : r \subseteq Pixels
  /\ Track \subseteq Pixels /\ Marker \subseteq Pixels
  /\ \A b \in Boxes : b \subseteq Track

VARIABLES
  fb,           \* the framebuffer
  SAVE,         \* the pixels under the sprite, by footprint point
  CUR,          \* CUR_X, CUR_Y
  SW_VISIBLE, HW_CURSOR,
  acc,          \* ACC_X8, ACC_Y8: eighths of a pixel not yet moved
  text,         \* the console's text cursor
  irq,          \* where move_cursor is, and the position it moves from
  gpu,          \* where the GPU task is: "lfb", "adopted", "hidden", "set" and
                \* "live", or "kept" without a hardware cursor
  draws,
  under,        \* ghost: what the screen holds besides the sprite
  taint         \* ghost: what has spoilt SAVE on this surface

pointerVars == <<fb, SAVE, CUR, SW_VISIBLE, HW_CURSOR, acc, text, irq, gpu, draws, under, taint>>
pointer == <<CUR, HW_CURSOR, acc>>
-----------------------------------------------------------------------------
(* The sprite's building blocks, on a surface s *)

At(p, f) == <<p[1] + f[1], p[2] + f[2]>>
Offset(p, c) == <<p[1] - c[1], p[2] - c[2]>>
Covers(c, p) == Offset(p, c) \in Footprint

save_region(s, c) == [f \in Footprint |-> s[At(c, f)]]

\* draw_arrow draws nothing once the device owns the pointer.
draw_arrow(s, c) ==
  [p \in Pixels |-> IF ~HW_CURSOR /\ Offset(p, c) \in Sprite THEN Arrow ELSE s[p]]

\* hide_software_cursor_locked: SAVE goes back over the sprite's rectangle.
Hidden(s, c, save) ==
  [p \in Pixels |-> IF Covers(c, p) THEN save[Offset(p, c)] ELSE s[p]]

\* The rectangle rule the mask replaced: the whole overlap is left alone.
RestoreOutside(s, old, new, prev) ==
  [p \in Pixels |-> IF Covers(old, p) /\ ~Covers(new, p)
                    THEN prev[Offset(p, old)] ELSE s[p]]

\* restore_vacated: the old rectangle, but for what the new sprite will paint.
restore_vacated(s, old, new, prev) ==
  [p \in Pixels |-> IF Covers(old, p) /\ Offset(p, new) \notin Sprite
                    THEN prev[Offset(p, old)] ELSE s[p]]

\* capture_save: pixels still showing the old sprite come from the snapshot.
capture_save(s, new, old, prev) ==
  [f \in Footprint |-> IF Covers(old, At(new, f)) THEN prev[Offset(At(new, f), old)]
                                                  ELSE s[At(new, f)]]
-----------------------------------------------------------------------------
(* The text console: t is [s, x, y], a surface and the text cursor on it *)

Fill(s, S, colour) == [p \in Pixels |-> IF p \in S THEN colour ELSE s[p]]

\* scroll_up by one row moves whole rows of the console region.
scroll_up(s) ==
  [p \in Pixels |-> IF p[2] < Top THEN s[p]
                    ELSE IF p[2] = Height - 1 THEN Slate
                    ELSE s[<<p[1], p[2] + 1>>]]

newline(t) ==
  IF t.y + 1 >= Height THEN [s |-> scroll_up(t.s), x |-> 0, y |-> Height - 1]
                       ELSE [t EXCEPT !.x = 0, !.y = @ + 1]

write_char(t) ==
  LET Put(u) == [u EXCEPT !.s = Fill(@, {<<u.x, u.y>>}, Drawn), !.x = @ + 1]
  IN  IF t.x + 1 > Width THEN Put(newline(t)) ELSE Put(t)

backspace(t) ==
  IF t.x >= 1 THEN [t EXCEPT !.x = @ - 1, !.s = Fill(@, {<<t.x - 1, t.y>>}, Slate)]
              ELSE t

write_byte(t, b) ==
  CASE b = "cr" -> [t EXCEPT !.x = 0]
    [] b = "lf" -> newline(t)
    [] b = "bs" -> backspace(t)
    [] b = "a" -> write_char(t)

\* The surface after data has been written, and where that leaves the text cursor.
Printed(s, data) ==
  LET after[n \in 0..Len(data)] == IF n = 0 THEN [s |-> s, x |-> text[1], y |-> text[2]]
                                            ELSE write_byte(after[n - 1], data[n])
      t == after[Len(data)]
  IN  [s |-> [p \in Pixels |-> t.s[p]], x |-> t.x, y |-> t.y]
-----------------------------------------------------------------------------
Blank == [p \in Pixels |-> Slate]
Centre == <<IF Width \div 2 < Width - SpriteW THEN Width \div 2 ELSE Width - SpriteW,
            IF Height \div 2 < Height - SpriteH THEN Height \div 2 ELSE Height - SpriteH>>

\* init_global saves the boot text under the sprite, then the new console wipes it.
PointerInit ==
  /\ \E boot \in {Blank, Fill(Blank, Pixels, Drawn)} :
       /\ SAVE = save_region(boot, Centre)
       /\ under = [p \in Pixels |-> IF p[2] < Top THEN boot[p] ELSE Slate]
       /\ fb = [p \in Pixels |-> IF p[2] < Top /\ Offset(p, Centre) \in Sprite
                                 THEN Arrow ELSE under[p]]
       /\ taint = IF SAVE = save_region(under, Centre) THEN {} ELSE {"boot"}
  /\ CUR = Centre /\ SW_VISIBLE = TRUE /\ HW_CURSOR = FALSE
  /\ acc = <<0, 0>> /\ text = <<0, Top>>
  /\ irq = [pc |-> "idle", old |-> Centre]
  /\ gpu = "lfb" /\ draws = 0

\* SAVE no longer fits CUR while a move has been stored and not yet painted.
Moving == irq.pc # "idle" /\ SW_VISIBLE

\* Where the sprite is painted.
Place == IF Moving THEN irq.old ELSE CUR
-----------------------------------------------------------------------------
(* IRQ 12: move_cursor *)

gain(v) == LET g == 8 + ((IF v < 0 THEN -v ELSE v) \div 4) IN IF g < 32 THEN g ELSE 32
Eighths(i, d) == acc[i] + d * gain(d)
Clamp(v, max) == IF v < 0 THEN 0 ELSE IF v > max THEN max ELSE v

\* The new position is computed under the lock and stored after it is released.
MoveStore(dx, dy) ==
  /\ irq.pc = "idle"
  /\ acc' = <<Eighths(1, dx) % 8, Eighths(2, dy) % 8>>
  /\ CUR' = <<Clamp(CUR[1] + Eighths(1, dx) \div 8, Width - SpriteW),
              Clamp(CUR[2] + Eighths(2, dy) \div 8, Height - SpriteH)>>
  /\ irq' = IF CUR' = CUR THEN irq ELSE [pc |-> "stored", old |-> CUR]
  /\ UNCHANGED <<fb, SAVE, SW_VISIBLE, HW_CURSOR, text, gpu, draws, under, taint>>

\* HW_CURSOR decides between a MOVE_CURSOR command and repainting the sprite.
MoveCheck ==
  /\ irq.pc = "stored"
  /\ irq' = [irq EXCEPT !.pc = IF HW_CURSOR THEN "idle" ELSE "repaint"]
  /\ UNCHANGED <<fb, SAVE, SW_VISIBLE, pointer, text, gpu, draws, under, taint>>

Repaint ==
  /\ irq.pc = "repaint"
  /\ \E s \in {restore_vacated(fb, irq.old, CUR, SAVE)} :
       /\ SAVE' = capture_save(s, CUR, irq.old, SAVE)
       /\ fb' = draw_arrow(s, CUR)
  /\ SW_VISIBLE' = TRUE
  /\ irq' = [irq EXCEPT !.pc = "idle"]
  /\ taint' = IF gpu \in {"hidden", "set", "live"} THEN taint \cup {"handover"} ELSE taint
  /\ UNCHANGED <<pointer, text, gpu, draws, under>>
-----------------------------------------------------------------------------
(* Tasks that draw, on any CPU *)

\* refresh_cursor_save_locked.
Refreshed(s) ==
  /\ SAVE' = save_region(s, CUR)
  /\ fb' = draw_arrow(s, CUR)
  /\ SW_VISIBLE' = TRUE

Counted == draws < MaxDraws /\ draws' = draws + 1

\* console_bytes: hide, write, refresh.
Console(data) ==
  /\ Counted
  /\ \E t \in {Printed(IF SW_VISIBLE THEN Hidden(fb, CUR, SAVE) ELSE fb, data)} :
       /\ IF SW_VISIBLE THEN Refreshed(t.s)
                        ELSE fb' = t.s /\ UNCHANGED <<SAVE, SW_VISIBLE>>
       /\ text' = <<t.x, t.y>>
  /\ under' = Printed(under, data).s
  /\ taint' = IF Moving THEN taint \cup {"move"} ELSE taint
  /\ UNCHANGED <<pointer, irq, gpu>>

\* with_writer_region draws over the sprite, then saves whatever is there.
Writer(region, colour) ==
  /\ Counted
  /\ \E s \in {Fill(fb, region, colour)} :
       IF SW_VISIBLE THEN Refreshed(s) ELSE fb' = s /\ UNCHANGED <<SAVE, SW_VISIBLE>>
  /\ under' = Fill(under, region, colour)
  /\ taint' = IF Moving \/ (SW_VISIBLE /\ ~({At(CUR, f) : f \in Footprint} \subseteq region))
              THEN taint \cup {"writer"} ELSE taint
  /\ UNCHANGED <<pointer, text, irq, gpu>>

\* What draws without a look at the sprite or at SAVE: pixels S become those of t.
Unaware(S, t, cause) ==
  /\ Counted
  /\ fb' = t[1] /\ under' = t[2]
  /\ taint' = IF SW_VISIBLE /\ (\E p \in S : Covers(Place, p))
              THEN taint \cup {cause} ELSE taint
  /\ UNCHANGED <<SAVE, SW_VISIBLE, pointer, text, irq, gpu>>

\* present_bringup spawns the frame clock and the probe once it has dealt with
\* the pointer, whether or not the device took it.
Spawned == gpu \in {"live", "kept"}

\* draw_anim_frame clears the track and draws its box.
draw_anim_frame(box) ==
  LET Frame(s) == Fill(Fill(s, Track, Slate), box, Drawn)
  IN  Spawned /\ Unaware(Track, <<Frame(fb), Frame(under)>>, "frame")

draw_probe_marker ==
  Spawned /\ Unaware(Marker, <<Fill(fb, Marker, Slate), Fill(under, Marker, Slate)>>, "probe")
-----------------------------------------------------------------------------
(* The GPU task: a new surface, then a new owner for the pointer *)

\* adopt stamps the sprite before the new console wipes its rows.
Adopt ==
  /\ gpu = "lfb" /\ gpu' = "adopted"
  /\ under' = [p \in Pixels |-> IF p[2] < Top THEN Drawn ELSE Slate]
  /\ CUR' = Centre
  /\ SAVE' = save_region(under', Centre)
  /\ fb' = [p \in Pixels |-> IF p[2] < Top THEN draw_arrow(under', Centre)[p] ELSE Slate]
  /\ SW_VISIBLE' = TRUE /\ text' = <<0, Top>>
  /\ taint' = IF irq.pc # "idle" THEN {"move"} ELSE {}
  /\ UNCHANGED <<HW_CURSOR, acc, irq, draws>>

\* hardware_cursor_enable gives up on one of its steps ...
Keep ==
  /\ gpu = "adopted" /\ gpu' = "kept"
  /\ UNCHANGED <<fb, SAVE, SW_VISIBLE, pointer, text, irq, draws, under, taint>>

\* ... or erases the sprite ...
Hide ==
  /\ gpu = "adopted" /\ gpu' = "hidden"
  /\ fb' = IF SW_VISIBLE THEN Hidden(fb, CUR, SAVE) ELSE fb
  /\ SW_VISIBLE' = FALSE
  /\ taint' = IF Moving THEN taint \cup {"move"} ELSE taint
  /\ UNCHANGED <<SAVE, pointer, text, irq, draws, under>>

\* ... and set_hardware_cursor, one store after the other.
SetHardware ==
  /\ gpu = "hidden" /\ gpu' = "set"
  /\ HW_CURSOR' = TRUE
  /\ UNCHANGED <<fb, SAVE, CUR, SW_VISIBLE, acc, text, irq, draws, under, taint>>

ClearVisible ==
  /\ gpu = "set" /\ gpu' = "live"
  /\ SW_VISIBLE' = FALSE
  /\ UNCHANGED <<fb, SAVE, pointer, text, irq, draws, under, taint>>
-----------------------------------------------------------------------------
\* Bound: a surface is followed until its sprite is spoilt, then only to the next adopt.
Followed == taint \subseteq {"boot"}

Mouse == (\E d \in Packets : MoveStore(d[1], d[2])) \/ MoveCheck \/ Repaint
Draw ==
  \/ \E data \in Lines : Console(data)
  \/ \E r \in Regions, c \in {Slate, Drawn} : Writer(r, c)
  \/ \E b \in Boxes : draw_anim_frame(b)
  \/ draw_probe_marker
HandOver == Keep \/ Hide \/ SetHardware \/ ClearVisible

PointerNext == Adopt \/ (Followed /\ (Mouse \/ Draw \/ HandOver))

PointerSpec == PointerInit /\ [][PointerNext]_pointerVars

(***************************************************************************)
(* Wherever the pointer has been, the screen shows what was drawn on it    *)
(* and one arrow at most, at CUR, and SAVE is what is drawn under that     *)
(* arrow: no ghost arrow, no hole.  Six things alone can spoil it: boot    *)
(* text under the first sprite, a partial with_writer_region repaint over  *)
(* the sprite, the frame clock's track or the probe's marker drawn over a  *)
(* sprite the device did not take, a draw on another CPU between a move's  *)
(* stores and its repaint, and a move that repaints after the GPU task has *)
(* erased the sprite for the hardware cursor.                              *)
(***************************************************************************)
NoGhost ==
  taint = {} /\ ~Moving =>
    /\ \A p \in Pixels :
         \/ fb[p] = under[p]
         \/ SW_VISIBLE /\ Offset(p, CUR) \in Sprite /\ fb[p] = Arrow
    /\ SW_VISIBLE => SAVE = save_region(under, CUR)
=============================================================================
