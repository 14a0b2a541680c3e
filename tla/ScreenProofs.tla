---------------------------- MODULE ScreenProofs ----------------------------
(***************************************************************************)
(* What the screen shows: the damage-driven present path, the pointer and  *)
(* the display hand-over.                                                  *)
(*                                                                         *)
(* Present.  No drawn pixel drops out of the damage record, for every      *)
(* surface, every set of drawers and every placement on CPUs.  DrawnIsKept *)
(* is not inductive: when a flush completes, the rectangle leaves the      *)
(* flusher's hands and the pixels rewritten since the transfer stay out of *)
(* date, so the invariant also says that those pixels have been marked     *)
(* again (FlushedIsKept).                                                  *)
(*                                                                         *)
(* Cursor.  The software pointer leaves no ghost and no hole, on a surface *)
(* and with a sprite of any size.  NoGhost speaks of the moments at which  *)
(* no move is under way; the invariant follows the sprite through a move,  *)
(* to Place, and adds what the hand-over to the device relies on: the      *)
(* sprite is on the screen until the GPU task erases it, and only a        *)
(* repaint that comes after that (which spoils the surface) puts it back.  *)
(*                                                                         *)
(* Gpu.  The virtio queues of gpu.rs and virtio.rs, for any machine, any   *)
(* queue size and any range of the ring indices: an answer taken off the   *)
(* used ring is the one that many commands back as were given up on        *)
(* (AnswerLag) and the display reads the surface the console draws on,     *)
(* whichever step fails (ConsoleOnScreen).                                 *)
(***************************************************************************)
EXTENDS Present, Cursor, Gpu, TLAPS

Shape ==
  /\ place \in [Actors -> Places]
  /\ rect \in [Actors -> SUBSET Row]
  /\ box \subseteq Row
  /\ hostStale \subseteq Row /\ screenStale \subseteq Row
  /\ consoleDrawn \subseteq Row

FlushedIsKept ==
  place[Flusher] = "flush" =>
    \A p \in (rect[Flusher] \cap hostStale) \ consoleDrawn : p \in box \cup ToMark

KeptInv == Shape /\ DrawnIsKept /\ FlushedIsKept

\* The hull of a set of pixels covers it and stays on the surface.
LEMMA HullCovers ==
  ASSUME NEW S \in SUBSET Row
  PROVE  S \subseteq Hull(S) /\ Hull(S) \subseteq Row
  BY PresentAssumption DEF Hull, Row

\* A drawer is not the flusher and every rectangle it may draw is on the surface.
LEMMA DrawerFacts ==
  ASSUME NEW a \in Drawers
  PROVE  a \in Actors /\ a # Flusher /\ Reach[a] \subseteq SUBSET Row
<1>1. Rects \subseteq SUBSET Row
  BY PresentAssumption DEF Rects, Row
<1> QED
  BY <1>1, PresentAssumption, Zenon DEF Actors

\* The adopted surface starts fully marked.
LEMMA KeptInit == PresentInit => KeptInv
  BY PresentAssumption, Zenon DEF PresentInit, KeptInv, Shape, DrawnIsKept, FlushedIsKept, Actors, Places

\* Recording damage (mark_dirty_rect and request_present_wake).
LEMMA KeptMark ==
  ASSUME KeptInv, NEW a \in Actors, Mark(a)
  PROVE  KeptInv'
<1> USE PresentAssumption DEF KeptInv, surface
<1>0. AfterMark(a) \in {"idle", "draw", "leave", "failed"}
  <2>1. a \in Writers \/ a \in Consoles \/ a \in Mice \/ a = Flusher
    BY Zenon DEF Actors, Drawers
  <2> QED
    BY <2>1, Zenon DEF AfterMark
<1>1. CASE MarkLock(a)
  BY <1>1, Zenon DEF MarkLock, Goes, Shape, DrawnIsKept, FlushedIsKept, InFlight, ToMark, Places, Actors, Drawers
<1>2. CASE MarkWiden(a)
  <2>1. /\ box \cup rect[a] \subseteq Hull(box \cup rect[a])
        /\ Hull(box \cup rect[a]) \subseteq Row
    BY HullCovers, Zenon DEF Shape
  <2>2. Shape'
    BY <1>2, <2>1, Zenon DEF MarkWiden, Goes, Shape, Places, Actors, Drawers
  <2>3. DrawnIsKept'
    BY <1>2, <2>1, ZenonT(40) DEF MarkWiden, Goes, Shape, DrawnIsKept, InFlight, ToMark, Actors, Drawers
  <2>4. FlushedIsKept'
    BY <1>2, <2>1, ZenonT(40) DEF MarkWiden, Goes, Shape, FlushedIsKept, ToMark, Actors, Drawers
  <2> QED
    BY <2>2, <2>3, <2>4, Zenon
<1>3. CASE MarkBump(a)
  BY <1>0, <1>3 DEF MarkBump, Goes, Shape, DrawnIsKept, FlushedIsKept, InFlight, ToMark, Places, Actors, Drawers
<1>4. CASE RequestWake(a)
  BY <1>0, <1>4, Zenon DEF RequestWake, Goes, Shape, DrawnIsKept, FlushedIsKept, InFlight, ToMark, Places, Actors, Drawers
<1>5. CASE WakeFlusher(a)
  BY <1>0, <1>5 DEF WakeFlusher, Shape, DrawnIsKept, FlushedIsKept, InFlight, ToMark, Places, Actors, Drawers
<1> QED
  BY <1>1, <1>2, <1>3, <1>4, <1>5, Zenon DEF Mark

\* Drawing (with_writer_region, console_bytes, move_cursor).
LEMMA KeptDrawing ==
  ASSUME KeptInv, NEW a \in Drawers, Begin(a) \/ Drawing(a) \/ Reading(a)
  PROVE  KeptInv'
<1> USE PresentAssumption DEF KeptInv, surface
<1>0. a \in Actors /\ a # Flusher /\ Reach[a] \subseteq SUBSET Row
  BY DrawerFacts, Zenon
<1>1. CASE Begin(a)
  BY <1>0, <1>1 DEF Begin, Goes, Shape, DrawnIsKept, FlushedIsKept, InFlight, ToMark, Places
<1>2. CASE LockFB(a)
  BY <1>0, <1>2 DEF LockFB, Goes, Shape, DrawnIsKept, FlushedIsKept, InFlight, ToMark, Places
<1>3. CASE DrawRect(a)
  BY <1>0, <1>3 DEF DrawRect, Written, Goes, Shape, DrawnIsKept, FlushedIsKept, InFlight, ToMark, Places, Drawers
<1>4. CASE LeaveIrq(a)
  BY <1>0, <1>4 DEF LeaveIrq, Goes, Shape, DrawnIsKept, FlushedIsKept, InFlight, ToMark, Places
<1>5. CASE Mark(a)
  BY <1>0, <1>5, KeptMark, Zenon DEF KeptInv
<1>6. CASE ReadGeometry(a)
  BY <1>0, <1>6 DEF ReadGeometry, Goes, Shape, DrawnIsKept, FlushedIsKept, InFlight, ToMark, Places
<1>7. CASE GotGeometry(a)
  BY <1>0, <1>7 DEF GotGeometry, Goes, Shape, DrawnIsKept, FlushedIsKept, InFlight, ToMark, Places
<1> QED
  BY <1>1, <1>2, <1>3, <1>4, <1>5, <1>6, <1>7, Zenon DEF Drawing, Reading

\* The flusher's own steps.
LEMMA KeptFlushing ==
  ASSUME KeptInv, Flushing
  PROVE  KeptInv'
<1> USE PresentAssumption DEF KeptInv, surface
<1>0. Flusher \in Actors /\ Flusher \notin Writers \cup Mice
  BY Zenon DEF Actors, Drawers
<1>1. CASE PublishTask
  BY <1>0, <1>1 DEF PublishTask, Goes, Shape, DrawnIsKept, FlushedIsKept, InFlight, ToMark, Places
<1>2. CASE Snapshot
  BY <1>0, <1>2 DEF Snapshot, Goes, Shape, DrawnIsKept, FlushedIsKept, InFlight, ToMark, Places
<1>3. CASE ParkEnds
  BY <1>0, <1>3 DEF ParkEnds, Goes, Shape, DrawnIsKept, FlushedIsKept, InFlight, ToMark, Places
<1>4. CASE ReleaseWake
  BY <1>0, <1>4 DEF ReleaseWake, Goes, Shape, DrawnIsKept, FlushedIsKept, InFlight, ToMark, Places
<1>5. CASE LoadGeneration
  BY <1>0, <1>5 DEF LoadGeneration, Goes, Shape, DrawnIsKept, FlushedIsKept, InFlight, ToMark, Places
<1>6. CASE TakeLock
  BY <1>0, <1>6 DEF TakeLock, Goes, Shape, DrawnIsKept, FlushedIsKept, InFlight, ToMark, Places
<1>7. CASE TakeBox
  BY <1>0, <1>7 DEF TakeBox, Goes, Shape, DrawnIsKept, FlushedIsKept, InFlight, ToMark, Places
<1>8. CASE Transfer
  BY <1>0, <1>8 DEF Transfer, Goes, Shape, DrawnIsKept, FlushedIsKept, InFlight, ToMark, Places
<1>9. CASE Flush
  BY <1>0, <1>9 DEF Flush, Goes, Shape, DrawnIsKept, FlushedIsKept, InFlight, ToMark, Places
<1>10. CASE Refuse
  <2>1. CASE Goes(Flusher, "transfer", "mark")
    BY <1>0, <1>10, <2>1 DEF Refuse, Goes, Shape, DrawnIsKept, FlushedIsKept, InFlight, ToMark, Places
  <2>2. CASE Goes(Flusher, "flush", "mark")
    BY <1>0, <1>10, <2>2 DEF Refuse, Goes, Shape, DrawnIsKept, FlushedIsKept, InFlight, ToMark, Places
  <2> QED
    BY <1>10, <2>1, <2>2, Zenon DEF Refuse
<1>11. CASE GiveUp
  BY <1>0, <1>11 DEF GiveUp, Goes, Shape, DrawnIsKept, FlushedIsKept, InFlight, ToMark, Places
<1>12. CASE Mark(Flusher)
  BY <1>0, <1>12, KeptMark, Zenon
<1> QED
  BY <1>1, <1>2, <1>3, <1>4, <1>5, <1>6, <1>7, <1>8, <1>9, <1>10, <1>11, <1>12, Zenon DEF Flushing

\* take_dirty_rect's promise, for every surface width, every set of drawers,
\* every placement and every pattern of failed commands: a pixel that a
\* draw-then-mark path left out of date on the screen is in the box, in the
\* flusher's hands or about to be marked.
THEOREM DamageKept == PresentSpec => []DrawnIsKept
<1>1. PresentInit => KeptInv
  BY KeptInit, Zenon
<1>2. KeptInv /\ [PresentNext]_presentVars => KeptInv'
  <2> SUFFICES ASSUME KeptInv, [PresentNext]_presentVars PROVE KeptInv'
    BY Zenon
  <2>1. CASE Flushing
    BY <2>1, KeptFlushing, Zenon
  <2>2. ASSUME NEW a \in Drawers, Begin(a) \/ Drawing(a) \/ Reading(a) PROVE KeptInv'
    BY <2>2, KeptDrawing, Zenon
  <2>3. CASE UNCHANGED presentVars
    BY <2>3, Zenon DEF presentVars, KeptInv, Shape, DrawnIsKept, FlushedIsKept, InFlight, ToMark
  <2> QED
    BY <2>1, <2>2, <2>3, Zenon DEF PresentNext
<1>3. KeptInv => DrawnIsKept
  BY Zenon DEF KeptInv
<1> QED
  BY <1>1, <1>2, <1>3, PTL DEF PresentSpec
-----------------------------------------------------------------------------
(* The pointer *)

\* Where the sprite lies wholly on the surface.
Spots == (0..Width - SpriteW) \X (0..Height - SpriteH)

IsSurface(s) == s = [p \in Pixels |-> s[p]]

Types ==
  /\ IsSurface(fb) /\ IsSurface(under)
  /\ CUR \in Spots /\ irq.old \in Spots /\ acc \in Int \X Int
  /\ DOMAIN irq = {"pc", "old"} /\ irq.pc \in {"idle", "stored", "repaint"}
  /\ SW_VISIBLE \in BOOLEAN /\ HW_CURSOR \in BOOLEAN
  /\ HW_CURSOR <=> gpu \in {"set", "live"}
  /\ gpu \in {"lfb", "adopted", "kept", "hidden", "set", "live"}

\* The screen shows what was drawn on it, and the arrow at c if it is visible.
Shows(c) ==
  \A p \in Pixels : \/ fb[p] = under[p]
                    \/ SW_VISIBLE /\ Offset(p, c) \in Sprite /\ fb[p] = Arrow

Saved(c) == SW_VISIBLE => SAVE = save_region(under, c)

Clean ==
  /\ Shows(Place) /\ Saved(Place)
  /\ SW_VISIBLE <=> gpu \in {"lfb", "adopted", "kept"}

CursorInv == Types /\ (taint = {} => Clean)

-----------------------------------------------------------------------------
(* Points of the surface and points of the footprint *)

\* A footprint point of a sprite at c is a pixel, and the two maps are inverse.
LEMMA AtOffset ==
  ASSUME NEW c \in Spots, NEW f \in Footprint
  PROVE  At(c, f) \in Pixels /\ Offset(At(c, f), c) = f
  BY CursorAssumption DEF Spots, Footprint, Pixels, At, Offset

LEMMA OffsetAt ==
  ASSUME NEW c \in Spots, NEW p \in Pixels
  PROVE  At(c, Offset(p, c)) = p
  BY CursorAssumption DEF Spots, Pixels, At, Offset

\* What is saved of s is found again at the pixel it was saved from.
LEMMA SavedPixel ==
  ASSUME NEW s, NEW c \in Spots, NEW p \in Pixels, Covers(c, p)
  PROVE  save_region(s, c)[Offset(p, c)] = s[p]
  BY OffsetAt, Zenon DEF Covers, save_region

LEMMA CentreOnSurface == Centre \in Spots
  BY CursorAssumption DEF Centre, Spots

LEMMA ClampInto ==
  ASSUME NEW v \in Int, NEW max \in Nat
  PROVE  Clamp(v, max) \in 0..max
  BY DEF Clamp

\* Two surfaces with the same pixels are the same.
LEMMA SameSurface ==
  ASSUME NEW s, NEW t, IsSurface(s), IsSurface(t), \A p \in Pixels : s[p] = t[p]
  PROVE  s = t
  BY Zenon DEF IsSurface

\* Putting SAVE back over the sprite gives what is drawn under it.
LEMMA HidingUncovers ==
  ASSUME NEW c \in Spots, IsSurface(under), Shows(c), Saved(c), SW_VISIBLE
  PROVE  Hidden(fb, c, SAVE) = under
<1>1. IsSurface(Hidden(fb, c, SAVE))
  BY Zenon DEF IsSurface, Hidden
<1>2. ASSUME NEW p \in Pixels PROVE Hidden(fb, c, SAVE)[p] = under[p]
  <2>1. CASE Covers(c, p)
    BY <2>1, SavedPixel DEF Hidden, Saved
  <2>2. CASE ~Covers(c, p)
    <3>1. fb[p] = under[p]
      BY <2>2, CursorAssumption, Zenon DEF Shows, Covers
    <3> QED
      BY <2>2, <3>1, Zenon DEF Hidden
  <2> QED
    BY <2>1, <2>2, Zenon
<1> QED
  BY <1>1, <1>2, SameSurface, Zenon
-----------------------------------------------------------------------------
LEMMA CursorInit == PointerInit => CursorInv
<1> SUFFICES ASSUME PointerInit PROVE CursorInv
  BY Zenon
<1>1. /\ CUR = Centre /\ SW_VISIBLE = TRUE /\ HW_CURSOR = FALSE
      /\ irq = [pc |-> "idle", old |-> Centre] /\ gpu = "lfb" /\ acc = <<0, 0>>
  BY Zenon DEF PointerInit
<1>2. PICK boot \in {Blank, Fill(Blank, Pixels, Drawn)} :
        /\ under = [p \in Pixels |-> IF p[2] < Top THEN boot[p] ELSE Slate]
        /\ fb = [p \in Pixels |-> IF p[2] < Top /\ Offset(p, Centre) \in Sprite
                                  THEN Arrow ELSE under[p]]
        /\ taint = IF SAVE = save_region(under, Centre) THEN {} ELSE {"boot"}
  BY Zenon DEF PointerInit
<1>3. IsSurface(fb) /\ IsSurface(under)
  BY <1>2, Zenon DEF IsSurface
<1>4. Types
  <2>1. acc \in Int \X Int
    BY <1>1
  <2>2. irq.old = Centre /\ irq.pc = "idle" /\ DOMAIN irq = {"pc", "old"}
    BY <1>1, Zenon
  <2> QED
    BY <1>1, <1>3, <2>1, <2>2, CentreOnSurface, ZenonT(40) DEF Types
<1>5. Place = Centre
  BY <1>1, Zenon DEF Place, Moving
<1>6. taint = {} => Clean
  <2>1. Shows(Centre)
    BY <1>1, <1>2, Zenon DEF Shows
  <2>2. taint = {} => Saved(Centre)
    BY <1>2, Zenon DEF Saved
  <2> QED
    BY <1>1, <1>5, <2>1, <2>2, Zenon DEF Clean
<1> QED
  BY <1>4, <1>6, Zenon DEF CursorInv

LEMMA AdoptClean ==
  ASSUME CursorInv, Adopt
  PROVE  CursorInv'
<1>1. /\ gpu = "lfb" /\ gpu' = "adopted" /\ CUR' = Centre
      /\ under' = [p \in Pixels |-> IF p[2] < Top THEN Drawn ELSE Slate]
      /\ SAVE' = save_region(under', Centre)
      /\ fb' = [p \in Pixels |-> IF p[2] < Top THEN draw_arrow(under', Centre)[p] ELSE Slate]
      /\ SW_VISIBLE' = TRUE /\ UNCHANGED <<HW_CURSOR, acc, irq>>
      /\ taint' = IF irq.pc # "idle" THEN {"move"} ELSE {}
  BY Zenon DEF Adopt
<1>2. IsSurface(fb') /\ IsSurface(under')
  BY <1>1, Zenon DEF IsSurface
<1>3. Types'
  BY <1>1, <1>2, CentreOnSurface, Zenon DEF CursorInv, Types
<1>4. ASSUME taint' = {} PROVE Clean'
  <2>1. Place' = Centre
    BY <1>1, <1>4, Zenon DEF Place, Moving
  <2>2. ASSUME NEW p \in Pixels
        PROVE  fb'[p] = under'[p] \/ (Offset(p, Centre) \in Sprite /\ fb'[p] = Arrow)
    <3>1. CASE p[2] < Top
      BY <1>1, <3>1, Zenon DEF draw_arrow
    <3>2. CASE ~(p[2] < Top)
      BY <1>1, <3>2, Zenon
    <3> QED
      BY <3>1, <3>2, Zenon
  <2> QED
    BY <1>1, <2>1, <2>2, Zenon DEF Clean, Shows, Saved
<1> QED
  BY <1>3, <1>4, Zenon DEF CursorInv

\* A move stores the new position; the sprite stays where it is painted.
LEMMA MoveStoreClean ==
  ASSUME CursorInv, NEW d \in Packets, MoveStore(d[1], d[2])
  PROVE  CursorInv'
<1>1. /\ irq.pc = "idle"
      /\ UNCHANGED <<fb, SAVE, SW_VISIBLE, HW_CURSOR, gpu, under, taint>>
      /\ acc' = <<Eighths(1, d[1]) % 8, Eighths(2, d[2]) % 8>>
      /\ CUR' = <<Clamp(CUR[1] + Eighths(1, d[1]) \div 8, Width - SpriteW),
                  Clamp(CUR[2] + Eighths(2, d[2]) \div 8, Height - SpriteH)>>
      /\ irq' = IF CUR' = CUR THEN irq ELSE [pc |-> "stored", old |-> CUR]
  BY Zenon DEF MoveStore
<1>2. ASSUME NEW i \in {1, 2} PROVE Eighths(i, d[i]) \in Int
  <2>1. d[i] \in Int /\ acc[i] \in Int
    BY CursorAssumption, Zenon DEF CursorInv, Types
  <2>2. gain(d[i]) \in Int
    BY <2>1 DEF gain
  <2> QED
    BY <2>1, <2>2 DEF Eighths
<1>3. acc' \in Int \X Int
  BY <1>1, <1>2
<1>4. CUR' \in Spots
  <2>1. CUR[1] \in Int /\ CUR[2] \in Int /\ Width - SpriteW \in Nat /\ Height - SpriteH \in Nat
    BY CursorAssumption DEF CursorInv, Types, Spots
  <2>2. CUR[1] + Eighths(1, d[1]) \div 8 \in Int /\ CUR[2] + Eighths(2, d[2]) \div 8 \in Int
    BY <1>2, <2>1
  <2> QED
    BY <1>1, <2>1, <2>2, ClampInto, Zenon DEF Spots
<1>5. Types'
  BY <1>1, <1>3, <1>4, Zenon DEF CursorInv, Types
<1>6. SW_VISIBLE => Place' = Place
  BY <1>1, Zenon DEF Place, Moving
<1>7. taint' = {} => Clean'
  BY <1>1, <1>6, Zenon DEF CursorInv, Clean, Shows, Saved
<1> QED
  BY <1>5, <1>7, Zenon DEF CursorInv

LEMMA MoveCheckClean ==
  ASSUME CursorInv, MoveCheck
  PROVE  CursorInv'
<1>1. /\ irq.pc = "stored" /\ UNCHANGED <<fb, SAVE, SW_VISIBLE, CUR, HW_CURSOR, acc, gpu, under, taint>>
      /\ irq' = [irq EXCEPT !.pc = IF HW_CURSOR THEN "idle" ELSE "repaint"]
  BY Zenon DEF MoveCheck, pointer
<1>2. Types'
  BY <1>1, Zenon DEF CursorInv, Types
<1>3. ASSUME taint' = {} PROVE Clean'
  <2>1. Clean
    BY <1>1, <1>3, Zenon DEF CursorInv
  <2>2. SW_VISIBLE => ~HW_CURSOR
    BY <2>1, Zenon DEF CursorInv, Types, Clean
  <2>3. SW_VISIBLE => Place' = Place
    BY <1>1, <2>2, Zenon DEF CursorInv, Types, Place, Moving
  <2> QED
    BY <1>1, <2>1, <2>3, Zenon DEF Clean, Shows, Saved
<1> QED
  BY <1>2, <1>3, Zenon DEF CursorInv

(***************************************************************************)
(* The repaint of a move: the vacated pixels come from the snapshot, and   *)
(* so do the pixels of the new snapshot that still show the old sprite.    *)
(***************************************************************************)
LEMMA RepaintClean ==
  ASSUME CursorInv, Repaint
  PROVE  CursorInv'
<1> DEFINE old == irq.old
           s == restore_vacated(fb, old, CUR, SAVE)
<1>1. /\ irq.pc = "repaint" /\ irq' = [irq EXCEPT !.pc = "idle"]
      /\ SAVE' = capture_save(s, CUR, old, SAVE) /\ fb' = draw_arrow(s, CUR)
      /\ SW_VISIBLE' = TRUE /\ UNCHANGED <<CUR, HW_CURSOR, acc, gpu, under>>
      /\ taint' = IF gpu \in {"hidden", "set", "live"} THEN taint \cup {"handover"} ELSE taint
  BY Zenon DEF Repaint, pointer
<1>2. IsSurface(fb')
  BY <1>1, Zenon DEF IsSurface, draw_arrow
<1>3. Types'
  BY <1>1, <1>2, Zenon DEF CursorInv, Types
<1>4. ASSUME taint' = {} PROVE Clean'
  <2>1. taint = {} /\ gpu \in {"lfb", "adopted", "kept"}
    BY <1>1, <1>4, Zenon DEF CursorInv, Types
  <2>2. /\ SW_VISIBLE /\ HW_CURSOR = FALSE /\ Place = old
        /\ Shows(old) /\ SAVE = save_region(under, old) /\ old \in Spots /\ CUR \in Spots
    BY <1>1, <2>1, Zenon DEF CursorInv, Types, Clean, Place, Moving, Saved
  <2>3. \A p \in Pixels : Covers(old, p) => SAVE[Offset(p, old)] = under[p]
    BY <2>2, SavedPixel, Zenon
  <2>4. \A p \in Pixels : ~Covers(old, p) => fb[p] = under[p]
    BY <2>2, CursorAssumption, Zenon DEF Shows, Covers
  <2>5. ASSUME NEW p \in Pixels, Offset(p, CUR) \notin Sprite PROVE s[p] = under[p]
    BY <2>3, <2>4, <2>5, Zenon DEF restore_vacated
  <2>6. Shows(CUR)'
    BY <1>1, <2>2, <2>5, Zenon DEF Shows, draw_arrow
  <2>7. SAVE' = save_region(under, CUR)
    <3>1. ASSUME NEW f \in Footprint
          PROVE  (IF Covers(old, At(CUR, f)) THEN SAVE[Offset(At(CUR, f), old)] ELSE s[At(CUR, f)])
                   = under[At(CUR, f)]
      <4>1. At(CUR, f) \in Pixels
        BY <2>2, AtOffset, Zenon
      <4>2. ~Covers(old, At(CUR, f)) => s[At(CUR, f)] = fb[At(CUR, f)]
        BY <4>1, Zenon DEF restore_vacated
      <4> QED
        BY <2>3, <2>4, <4>1, <4>2, Zenon
    <3> HIDE DEF s
    <3> QED
      BY <1>1, <3>1, Zenon DEF capture_save, save_region
  <2>8. Place' = CUR
    BY <1>1, Zenon DEF Place, Moving, CursorInv, Types
  <2> QED
    BY <1>1, <2>1, <2>6, <2>7, <2>8, Zenon DEF Clean, Shows, Saved
<1> QED
  BY <1>3, <1>4, Zenon DEF CursorInv
-----------------------------------------------------------------------------
\* A surface is saved under the sprite and the sprite drawn on it.
LEMMA RefreshShows ==
  ASSUME NEW s, Refreshed(s), \A p \in Pixels : s[p] = under'[p], CUR' = CUR, CUR \in Spots
  PROVE  Shows(CUR)' /\ Saved(CUR)' /\ IsSurface(fb')
<1>1. SAVE' = save_region(s, CUR) /\ fb' = draw_arrow(s, CUR) /\ SW_VISIBLE' = TRUE
  BY Zenon DEF Refreshed
<1>2. \A f \in Footprint : s[At(CUR, f)] = under'[At(CUR, f)]
  BY AtOffset, Zenon
<1>3. save_region(s, CUR) = save_region(under', CUR)
  BY <1>2, Zenon DEF save_region
<1>4. IsSurface(fb')
  BY <1>1, Zenon DEF IsSurface, draw_arrow
<1> QED
  BY <1>1, <1>3, <1>4, Zenon DEF Shows, Saved, draw_arrow

LEMMA ConsoleClean ==
  ASSUME CursorInv, NEW data, Console(data)
  PROVE  CursorInv'
<1> DEFINE t == Printed(IF SW_VISIBLE THEN Hidden(fb, CUR, SAVE) ELSE fb, data)
<1>1. /\ IF SW_VISIBLE THEN Refreshed(t.s) ELSE fb' = t.s /\ UNCHANGED <<SAVE, SW_VISIBLE>>
      /\ under' = Printed(under, data).s
      /\ taint' = IF Moving THEN taint \cup {"move"} ELSE taint
      /\ UNCHANGED <<CUR, HW_CURSOR, acc, irq, gpu>>
  BY Zenon DEF Console, pointer
<1>2. \A s : IsSurface(Printed(s, data).s)
  BY DEF IsSurface, Printed
<1>3. IsSurface(under') /\ IsSurface(t.s) /\ CUR \in Spots
  BY <1>1, <1>2, Zenon DEF CursorInv, Types
<1> HIDE DEF t
<1>4. SW_VISIBLE' = SW_VISIBLE /\ IsSurface(fb')
  BY <1>1, <1>3, ZenonT(40) DEF Refreshed, IsSurface, draw_arrow, CursorInv, Types
<1>5. Types'
  BY <1>1, <1>3, <1>4, Zenon DEF CursorInv, Types
<1>6. ASSUME taint' = {} PROVE Clean'
  <2>1. taint = {} /\ ~Moving
    BY <1>1, <1>6, Zenon
  <2>2. Clean /\ Place = CUR
    BY <2>1, Zenon DEF CursorInv, Place
  <2>3. Place' = CUR
    BY <1>1, <1>4, <2>1, Zenon DEF Place, Moving
  <2>4. t.s = under'
    <3>1. CASE SW_VISIBLE
      <4>1. Hidden(fb, CUR, SAVE) = under
        BY <1>3, <2>2, <3>1, HidingUncovers, Zenon DEF CursorInv, Types, Clean
      <4> QED
        BY <1>1, <3>1, <4>1, Zenon DEF t
    <3>2. CASE ~SW_VISIBLE
      <4>1. fb = under
        BY <2>2, <3>2, SameSurface, Zenon DEF CursorInv, Types, Clean, Shows
      <4> QED
        BY <1>1, <3>2, <4>1, Zenon DEF t
    <3> QED
      BY <3>1, <3>2, Zenon
  <2>5. Shows(CUR)' /\ Saved(CUR)'
    <3>1. CASE SW_VISIBLE
      BY <1>1, <1>3, <2>4, <3>1, RefreshShows, Zenon
    <3>2. CASE ~SW_VISIBLE
      BY <1>1, <2>4, <3>2, Zenon DEF Shows, Saved
    <3> QED
      BY <3>1, <3>2, Zenon
  <2> QED
    BY <1>1, <1>4, <2>2, <2>3, <2>5, Zenon DEF Clean, Shows, Saved
<1> QED
  BY <1>5, <1>6, Zenon DEF CursorInv

LEMMA WriterClean ==
  ASSUME CursorInv, NEW region, NEW colour, Writer(region, colour)
  PROVE  CursorInv'
<1> DEFINE s == Fill(fb, region, colour)
<1>1. /\ IF SW_VISIBLE THEN Refreshed(s) ELSE fb' = s /\ UNCHANGED <<SAVE, SW_VISIBLE>>
      /\ under' = Fill(under, region, colour)
      /\ UNCHANGED <<CUR, HW_CURSOR, acc, irq, gpu>>
  BY Zenon DEF Writer, pointer
<1>2. taint' = {} => /\ taint = {} /\ ~Moving
                     /\ SW_VISIBLE => {At(CUR, f) : f \in Footprint} \subseteq region
  BY Zenon DEF Writer
<1>3. IsSurface(under') /\ IsSurface(s) /\ CUR \in Spots
  BY <1>1, Zenon DEF CursorInv, Types, IsSurface, Fill
<1>4. \A p \in Pixels : /\ s[p] = IF p \in region THEN colour ELSE fb[p]
                        /\ under'[p] = IF p \in region THEN colour ELSE under[p]
  BY <1>1, Zenon DEF Fill
<1> HIDE DEF s
<1>5. SW_VISIBLE' = SW_VISIBLE /\ IsSurface(fb')
  BY <1>1, <1>3, Zenon DEF Refreshed, IsSurface, draw_arrow, CursorInv, Types
<1>6. Types'
  BY <1>1, <1>3, <1>5, Zenon DEF CursorInv, Types
<1>7. ASSUME taint' = {} PROVE Clean'
  <2>1. Clean /\ Place = CUR
    BY <1>2, <1>7, Zenon DEF CursorInv, Place
  <2>2. Place' = CUR
    BY <1>1, <1>2, <1>5, <1>7, Zenon DEF Place, Moving
  <2>3. ASSUME NEW p \in Pixels PROVE s[p] = under'[p]
    <3>1. CASE fb[p] = under[p]
      BY <1>4, <3>1, Zenon
    <3>2. CASE SW_VISIBLE /\ Offset(p, CUR) \in Sprite
      <4>1. Offset(p, CUR) \in Footprint /\ At(CUR, Offset(p, CUR)) = p
        BY <1>3, <3>2, OffsetAt, CursorAssumption, Zenon
      <4>2. p \in region
        BY <1>2, <1>7, <3>2, <4>1, Zenon
      <4> QED
        BY <1>4, <4>2, Zenon
    <3> QED
      BY <2>1, <3>1, <3>2, Zenon DEF Clean, Shows
  <2>4. Shows(CUR)' /\ Saved(CUR)'
    <3>1. CASE SW_VISIBLE
      BY <1>1, <1>3, <2>3, <3>1, RefreshShows, Zenon
    <3>2. CASE ~SW_VISIBLE
      BY <1>1, <2>3, <3>2, Zenon DEF Shows, Saved
    <3> QED
      BY <3>1, <3>2, Zenon
  <2> QED
    BY <1>1, <1>5, <2>1, <2>2, <2>4, Zenon DEF Clean, Shows, Saved
<1> QED
  BY <1>6, <1>7, Zenon DEF CursorInv

\* A draw that leaves SAVE alone, on a set of pixels it makes the same in both.
LEMMA UnawareClean ==
  ASSUME CursorInv, NEW area, NEW t, NEW cause, Unaware(area, t, cause),
         IsSurface(t[1]), IsSurface(t[2]),
         \A p \in Pixels : /\ p \in area => t[1][p] = t[2][p]
                           /\ p \notin area => t[1][p] = fb[p] /\ t[2][p] = under[p]
  PROVE  CursorInv'
<1>1. /\ fb' = t[1] /\ under' = t[2]
      /\ taint' = IF SW_VISIBLE /\ (\E p \in area : Covers(Place, p))
                  THEN taint \cup {cause} ELSE taint
      /\ UNCHANGED <<SAVE, SW_VISIBLE, CUR, HW_CURSOR, acc, irq, gpu>>
  BY Zenon DEF Unaware, pointer
<1>2. IsSurface(fb') /\ IsSurface(under')
  BY <1>1, Zenon
<1>3. Types'
  BY <1>1, <1>2, Zenon DEF CursorInv, Types
<1>4. ASSUME taint' = {} PROVE Clean'
  <2>1. Clean /\ (SW_VISIBLE => \A p \in area : ~Covers(Place, p))
    BY <1>1, <1>4, Zenon DEF CursorInv
  <2>2. Place' = Place /\ Place \in Spots
    BY <1>1, Zenon DEF Place, Moving, CursorInv, Types
  <2>3. \A p \in Pixels : /\ p \in area => fb'[p] = under'[p]
                          /\ p \notin area => fb'[p] = fb[p] /\ under'[p] = under[p]
    BY <1>1, Zenon
  <2>4. SW_VISIBLE => \A f \in Footprint : under'[At(Place, f)] = under[At(Place, f)]
    BY <2>1, <2>2, <2>3, AtOffset, Zenon DEF Covers
  <2>5. SW_VISIBLE => save_region(under', Place) = save_region(under, Place)
    BY <2>4, Zenon DEF save_region
  <2>6. Shows(Place)'
    BY <1>1, <2>1, <2>2, <2>3, Zenon DEF Clean, Shows
  <2>7. Saved(Place)'
    BY <1>1, <2>1, <2>2, <2>5, Zenon DEF Clean, Saved
  <2> QED
    BY <1>1, <2>1, <2>6, <2>7, Zenon DEF Clean
<1> QED
  BY <1>3, <1>4, Zenon DEF CursorInv

LEMMA ProbeClean ==
  ASSUME CursorInv, draw_probe_marker
  PROVE  CursorInv'
<1> DEFINE t == <<Fill(fb, Marker, Slate), Fill(under, Marker, Slate)>>
<1>1. Unaware(Marker, t, "probe")
  BY Zenon DEF draw_probe_marker
<1>2. t[1] = Fill(fb, Marker, Slate) /\ t[2] = Fill(under, Marker, Slate)
  BY Zenon
<1> HIDE DEF t
<1>3. IsSurface(t[1]) /\ IsSurface(t[2])
  BY <1>2, Zenon DEF IsSurface, Fill
<1>4. \A p \in Pixels : /\ p \in Marker => t[1][p] = t[2][p]
                        /\ p \notin Marker => t[1][p] = fb[p] /\ t[2][p] = under[p]
  BY <1>2, Zenon DEF Fill
<1> QED
  BY <1>1, <1>3, <1>4, UnawareClean

LEMMA FrameClean ==
  ASSUME CursorInv, NEW bar \in Boxes, draw_anim_frame(bar)
  PROVE  CursorInv'
<1> DEFINE Frame(s) == Fill(Fill(s, Track, Slate), bar, Drawn)
           t == <<Frame(fb), Frame(under)>>
<1>1. Unaware(Track, t, "frame")
  BY Zenon DEF draw_anim_frame
<1>2. t[1] = Frame(fb) /\ t[2] = Frame(under)
  BY Zenon
<1>3. \A s : IsSurface(Frame(s))
  BY Zenon DEF IsSurface, Fill
<1>4. \A s : \A p \in Pixels : Frame(s)[p] = IF p \in bar THEN Drawn
                                           ELSE IF p \in Track THEN Slate ELSE s[p]
  BY Zenon DEF Fill
<1>5. bar \subseteq Track
  BY CursorAssumption, Zenon
<1> HIDE DEF t, Frame
<1>6. IsSurface(t[1]) /\ IsSurface(t[2])
  BY <1>2, <1>3, Zenon
<1>7. \A p \in Pixels : /\ p \in Track => t[1][p] = t[2][p]
                        /\ p \notin Track => t[1][p] = fb[p] /\ t[2][p] = under[p]
  BY <1>2, <1>4, <1>5
<1> QED
  BY <1>1, <1>6, <1>7, UnawareClean
-----------------------------------------------------------------------------
LEMMA HandOverClean ==
  ASSUME CursorInv, HandOver
  PROVE  CursorInv'
<1>1. CASE Hide
  <2>1. /\ gpu = "adopted" /\ gpu' = "hidden" /\ SW_VISIBLE' = FALSE
        /\ fb' = IF SW_VISIBLE THEN Hidden(fb, CUR, SAVE) ELSE fb
        /\ taint' = IF Moving THEN taint \cup {"move"} ELSE taint
        /\ UNCHANGED <<SAVE, CUR, HW_CURSOR, acc, irq, under>>
    BY <1>1, Zenon DEF Hide, pointer
  <2>2. IsSurface(Hidden(fb, CUR, SAVE))
    BY Zenon DEF IsSurface, Hidden
  <2>3. Types'
    BY <2>1, <2>2, Zenon DEF CursorInv, Types
  <2>4. ASSUME taint' = {} PROVE Clean'
    <3>1. Clean /\ Place = CUR /\ SW_VISIBLE
      BY <2>1, <2>4, Zenon DEF CursorInv, Place, Clean
    <3>2. fb' = under
      BY <2>1, <3>1, HidingUncovers, Zenon DEF CursorInv, Types, Clean
    <3> QED
      BY <2>1, <3>2, Zenon DEF Clean, Shows, Saved
  <2> QED
    BY <2>3, <2>4, Zenon DEF CursorInv
<1>2. CASE SetHardware
  <2>1. /\ gpu = "hidden" /\ gpu' = "set" /\ HW_CURSOR' = TRUE
        /\ UNCHANGED <<fb, SAVE, CUR, SW_VISIBLE, acc, irq, under, taint>>
    BY <1>2, Zenon DEF SetHardware
  <2>2. Types'
    BY <2>1, Zenon DEF CursorInv, Types
  <2>3. taint' = {} => Clean'
    BY <2>1, Zenon DEF CursorInv, Clean, Shows, Saved
  <2> QED
    BY <2>2, <2>3, Zenon DEF CursorInv
<1>3. CASE ClearVisible
  <2>1. /\ gpu = "set" /\ gpu' = "live" /\ SW_VISIBLE' = FALSE
        /\ UNCHANGED <<fb, SAVE, CUR, HW_CURSOR, acc, irq, under, taint>>
    BY <1>3, Zenon DEF ClearVisible, pointer
  <2>2. Types'
    BY <2>1, Zenon DEF CursorInv, Types
  <2>3. taint' = {} => Clean'
    BY <2>1, Zenon DEF CursorInv, Clean, Shows, Saved
  <2> QED
    BY <2>2, <2>3, Zenon DEF CursorInv
<1>4. CASE Keep
  <2>1. /\ gpu = "adopted" /\ gpu' = "kept"
        /\ UNCHANGED <<fb, SAVE, SW_VISIBLE, CUR, HW_CURSOR, acc, irq, under, taint>>
    BY <1>4, Zenon DEF Keep, pointer
  <2>2. Types'
    BY <2>1, Zenon DEF CursorInv, Types
  <2>3. taint' = {} => Clean'
    BY <2>1, Zenon DEF CursorInv, Clean, Shows, Saved, Place, Moving
  <2> QED
    BY <2>2, <2>3, Zenon DEF CursorInv
<1> QED
  BY <1>1, <1>2, <1>3, <1>4, Zenon DEF HandOver

LEMMA CursorStep == CursorInv /\ [PointerNext]_pointerVars => CursorInv'
<1> SUFFICES ASSUME CursorInv, [PointerNext]_pointerVars PROVE CursorInv'
  BY Zenon
<1>1. CASE Mouse
  BY <1>1, MoveStoreClean, MoveCheckClean, RepaintClean, Zenon DEF Mouse
<1>2. CASE Draw
  BY <1>2, ConsoleClean, WriterClean, FrameClean, ProbeClean, Zenon DEF Draw
<1>3. CASE UNCHANGED pointerVars
  BY <1>3, Zenon DEF pointerVars, CursorInv, Types, Clean, Shows, Saved, Place, Moving
<1> QED
  BY <1>1, <1>2, <1>3, AdoptClean, HandOverClean, Zenon DEF PointerNext

(***************************************************************************)
(* On every surface, with every sprite that fits it and whatever is        *)
(* printed, repainted or moved, the software pointer of framebuffer.rs     *)
(* leaves the screen as it was drawn, one arrow apart, unless one of the   *)
(* six things that spoil it has happened since the surface was adopted.    *)
(***************************************************************************)
THEOREM PointerLeavesNoGhost == PointerSpec => []NoGhost
<1>1. CursorInv => NoGhost
  BY Zenon DEF CursorInv, Clean, Shows, Saved, Place, NoGhost
<1> QED
  BY CursorInit, CursorStep, <1>1, PTL DEF PointerSpec
-----------------------------------------------------------------------------
(* The virtio queues and the surface the display reads *)

Queues == {0, 1}
BringUpCmds == {"create", "attach", "scanout", "transfer", "flush"}
CursorCmds == {"c_create", "c_attach", "c_update", "c_move"}
PresentCmds == {"f_transfer", "f_flush"}
Cmds == BringUpCmds \cup CursorCmds \cup PresentCmds
ModePcs == {"scan", "probe", "features", "config", "dispi", "modeset"}
BootPcs == ModePcs \cup {"rehearse", "reset", "bar", "map", "canary", "adopt_lfb"}
CmdPcs == {"build", "submit", "poll"}

\* A command of queue i is published and its answer awaited.
Waiting(i) == pc = "poll" /\ Queue(cmd) = i

\* ... or the IRQ 12 handler awaits the answer to a command of its own on the cursor queue.
Busy(i) == Waiting(i) \/ (irq12 = "poll" /\ i # 0)
Mine(i) == IF irq12 = "poll" /\ i # 0 THEN "i_move" ELSE cmd

QRec == [up : BOOLEAN, size : 1..Q_SIZE_MAX, avail : 0..IdxMod - 1, used : 0..IdxMod - 1]

GpuType ==
  /\ m \in Machines
  /\ pc \in BootPcs \cup CmdPcs \cup {"task", "bringup", "cursor", "hide", "park", "exit"}
  /\ pc \in CmdPcs => cmd \in Cmds
  /\ q \in [Queues -> QRec]
  /\ DOMAIN dev = Queues /\ DOMAIN req = Queues
  /\ late \in [Queues -> Nat]
  /\ \A i \in Queues : /\ DOMAIN dev[i] = {"seen", "done", "resp", "ring"}
                       /\ DOMAIN dev[i].ring = 0..Q_SIZE_MAX - 1
                       /\ dev[i].seen = dev[i].done /\ dev[i].done \in 0..IdxMod - 1

\* A queue is not used before it is up, and is brought up once.
UpInv ==
  /\ pc \in BootPcs \cup {"task", "bringup"} => ~q[0].up
  /\ pc \in CmdPcs \cup {"cursor", "hide", "park"} => q[0].up
  /\ pc \in BootPcs \cup {"task", "bringup", "cursor"} => ~q[1].up
  /\ pc \in CmdPcs => (cmd \in BringUpCmds => ~q[1].up) /\ (cmd \in CursorCmds => q[1].up)
  /\ pc = "hide" \/ hwCursor => q[1].up
  /\ \A i \in Queues : ~q[i].up => q[i].avail = 0 /\ q[i].used = 0 /\ late[i] = 0

\* The driver is behind by the commands given up on and the one it waits for; while it has
\* given up on none, the device has answered nothing but the command waited for.  The handler
\* waits only while the task is outside cursor_submit.
LagInv ==
  /\ pc \in {"submit", "poll"} => req[Queue(cmd)] = cmd
  /\ irq12 = "poll" => hwCursor /\ req[1] = "i_move" /\ ~CursorQueueHeld
  /\ \A i \in Queues :
       /\ q[i].avail = (q[i].used + late[i] + (IF Busy(i) THEN 1 ELSE 0)) % IdxMod
       /\ late[i] = 0 =>
            \/ dev[i].done = q[i].used
            \/ /\ Busy(i) /\ dev[i].done = q[i].avail
               /\ dev[i].ring[q[i].used % q[i].size].of = Mine(i)

QueueInv == GpuType /\ UpInv /\ LagInv /\ AnswerLag
-----------------------------------------------------------------------------
(* Arithmetic of the ring indices *)

LEMMA DivMod ==
  ASSUME NEW x \in Nat
  PROVE  /\ x \div IdxMod \in Nat /\ x % IdxMod \in 0..IdxMod - 1
         /\ x = IdxMod * (x \div IdxMod) + (x % IdxMod)
  BY QueueAssumption

\* A remainder is unique.
LEMMA ModUnique ==
  ASSUME NEW x \in Nat, NEW d \in Nat, NEW r \in 0..IdxMod - 1, x = IdxMod * d + r
  PROVE  x % IdxMod = r
<1>1. PICK e \in Nat, s \in 0..IdxMod - 1 : x = IdxMod * e + s /\ s = x % IdxMod
  BY DivMod, Zenon
<1>2. IdxMod \in Nat /\ IdxMod > 0
  BY QueueAssumption
<1>3. ASSUME NEW a \in Nat, NEW b \in Nat, a < b
      PROVE  IdxMod * a + IdxMod <= IdxMod * b
  <2>1. PICK k \in Nat : b = a + 1 + k
    BY <1>3
  <2>2. IdxMod * b = IdxMod * a + IdxMod + IdxMod * k
    BY <1>2, <2>1
  <2> QED
    BY <1>2, <2>2
<1>4. /\ IdxMod * d \in Nat /\ IdxMod * e \in Nat
      /\ d < e => IdxMod * d + IdxMod <= IdxMod * e
      /\ e < d => IdxMod * e + IdxMod <= IdxMod * d
  BY <1>2, <1>3
<1>5. ~(d < e) /\ ~(e < d)
  BY <1>1, <1>2, <1>4
<1>6. d = e
  BY <1>5
<1>7. IdxMod * d + r = IdxMod * d + s
  BY <1>1, <1>6, Zenon
<1>8. r = s
  BY <1>2, <1>4, <1>7
<1> QED
  BY <1>1, <1>8, ZenonT(40)

\* Counting up inside or outside the remainder.
LEMMA ModAdds ==
  ASSUME NEW x \in Nat, NEW k \in Nat
  PROVE  ((x % IdxMod) + k) % IdxMod = (x + k) % IdxMod
<1>1. PICK e \in Nat, s \in 0..IdxMod - 1 : x = IdxMod * e + s /\ s = x % IdxMod
  BY DivMod, Zenon
<1>2. s + k \in Nat /\ x + k \in Nat /\ IdxMod \in Nat
  BY QueueAssumption
<1>3. PICK f \in Nat, t \in 0..IdxMod - 1 : s + k = IdxMod * f + t /\ t = (s + k) % IdxMod
  BY <1>2, DivMod, Zenon
<1>4. x + k = IdxMod * (e + f) + t
  <2>1. IdxMod * (e + f) = IdxMod * e + IdxMod * f
    BY <1>2
  <2>2. IdxMod * e \in Nat /\ IdxMod * f \in Nat
    BY <1>2
  <2> QED
    BY <1>1, <1>2, <1>3, <2>1, <2>2
<1>5. e + f \in Nat
  OBVIOUS
<1>6. (x + k) % IdxMod = t
  BY <1>2, <1>4, <1>5, ModUnique, ZenonT(40)
<1> QED
  BY <1>1, <1>3, <1>6, Zenon

LEMMA ModSmall == \A n \in 0..IdxMod - 1 : n % IdxMod = n
  BY QueueAssumption

LEMMA BumpInto == \A n \in Nat : Bump(n) \in 0..IdxMod - 1
  BY DivMod DEF Bump

LEMMA RingSizeFits ==
  ASSUME NEW max \in Nat, RingSize(max) >= 2
  PROVE  RingSize(max) \in 1..Q_SIZE_MAX
<1> DEFINE size == IF max < Q_SIZE_MAX THEN max ELSE Q_SIZE_MAX
<1>1. size \in 0..64 /\ size <= Q_SIZE_MAX /\ Q_SIZE_MAX \in Nat
  BY QueueAssumption
<1>2. CASE size <= 2
  BY <1>1, <1>2 DEF RingSize
<1>3. CASE size > 2
  <2> DEFINE P(p) == p <= size /\ 2 * p > size
             c == CHOOSE p \in {2, 4, 8, 16, 32, 64} : P(p)
  <2>1. \E p \in {2, 4, 8, 16, 32, 64} : P(p)
    BY <1>1, <1>3
  <2>2. c \in {2, 4, 8, 16, 32, 64} /\ P(c)
    <3> HIDE DEF P
    <3> QED
      BY <2>1, Zenon
  <2>3. RingSize(max) = c
    BY <1>1, <1>3 DEF RingSize
  <2> HIDE DEF c
  <2> QED
    BY <1>1, <2>2, <2>3
<1> QED
  BY <1>1, <1>2, <1>3
-----------------------------------------------------------------------------
(* The queues *)

LEMMA QueueOf == \A c : Queue(c) \in Queues
  BY Zenon DEF Queue, Queues

LEMMA UpIsQueue ==
  ASSUME GpuType, RingSize(m.maxSize) >= 2
  PROVE  Up \in QRec /\ Up.up = TRUE /\ Up.avail = 0 /\ Up.used = 0
<1>1. m.maxSize \in Nat
  BY QueueAssumption, Zenon DEF GpuType
<1>2. RingSize(m.maxSize) \in 1..Q_SIZE_MAX
  BY <1>1, RingSizeFits, Zenon
<1>3. 0 \in 0..IdxMod - 1
  BY QueueAssumption
<1> QED
  BY <1>2, <1>3, Zenon DEF Up, QRec

\* A step of the task: the handler is not running.
Quiet == irq12 = "idle" /\ irq12' = "idle"

LEMMA QuietWaits ==
  ASSUME Quiet, NEW i
  PROVE  /\ Busy(i) <=> Waiting(i)
         /\ Busy(i)' <=> Waiting(i)'
         /\ Mine(i) = cmd
  BY Zenon DEF Quiet, Busy, Mine, Waiting

\* A step outside submit that leaves the queues and the device alone.
LEMMA QueuesRest ==
  ASSUME QueueInv, Quiet, UNCHANGED <<m, q, dev, late, took>>, DOMAIN req' = Queues, pc # "poll",
         pc' \in BootPcs \cup {"build", "submit", "task", "bringup", "cursor", "hide", "park", "exit"},
         pc' \in CmdPcs => cmd' \in Cmds,
         pc' = "submit" => req'[Queue(cmd')] = cmd',
         UpInv'
  PROVE  QueueInv'
<1>1. pc' # "poll"
  BY Zenon DEF BootPcs, ModePcs
<1>2. GpuType'
  BY Zenon DEF QueueInv, GpuType, CmdPcs
<1>3. \A i \in Queues : ~Busy(i) /\ ~Busy(i)'
  BY <1>1, Zenon DEF Waiting, Busy, Quiet
<1>4. LagInv'
  BY <1>1, <1>3, Zenon DEF QueueInv, LagInv, Quiet
<1> QED
  BY <1>2, <1>4, Zenon DEF QueueInv, AnswerLag

LEMMA QueueInit == Init => QueueInv
<1> SUFFICES ASSUME Init PROVE QueueInv
  BY Zenon
<1> DEFINE q0 == [up |-> FALSE, size |-> 1, avail |-> 0, used |-> 0]
           d0 == [seen |-> 0, done |-> 0, resp |-> "none",
                  ring |-> [s \in 0..Q_SIZE_MAX - 1 |-> [id |-> 0, len |-> 0, of |-> "none"]]]
<1>1. /\ m \in Machines /\ pc = "scan" /\ took = {} /\ req = [i \in Queues |-> "none"]
      /\ hwCursor = FALSE /\ irq12 = "idle"
      /\ q = [i \in Queues |-> q0] /\ dev = [i \in Queues |-> d0] /\ late = [i \in Queues |-> 0]
  BY Zenon DEF Init, Queues
<1>2. q0 \in QRec /\ q0.up = FALSE /\ q0.avail = 0 /\ q0.used = 0
  BY QueueAssumption DEF QRec
<1>3. /\ DOMAIN d0 = {"seen", "done", "resp", "ring"} /\ d0.seen = 0 /\ d0.done = 0
      /\ DOMAIN d0.ring = 0..Q_SIZE_MAX - 1
  BY Zenon
<1>4. 0 \in 0..IdxMod - 1 /\ 0 % IdxMod = 0
  BY QueueAssumption
<1> HIDE DEF q0, d0
<1>5. /\ q \in [Queues -> QRec] /\ late \in [Queues -> Nat] /\ DOMAIN dev = Queues
      /\ DOMAIN req = Queues /\ \A i \in Queues : q[i] = q0 /\ dev[i] = d0 /\ late[i] = 0
  BY <1>1, <1>2, Zenon
<1>6. GpuType
  BY <1>1, <1>3, <1>4, <1>5, Zenon DEF GpuType, QRec, BootPcs, ModePcs, CmdPcs
<1>7. UpInv
  BY <1>1, <1>2, <1>5, Zenon DEF UpInv, CmdPcs, Queues
<1>8. LagInv
  BY <1>1, <1>2, <1>3, <1>4, <1>5, SMTT(40) DEF LagInv, Waiting, Busy
<1> QED
  BY <1>1, <1>6, <1>7, <1>8, Zenon DEF QueueInv, AnswerLag

\* gpu::init and the start of the GPU task.
LEMMA BootKeeps ==
  ASSUME QueueInv, Quiet, Boot \/ Task
  PROVE  QueueInv'
<1>1. UNCHANGED <<m, engine, counts>>
  BY Zenon DEF Boot, Task, Scan, ProbeCaps, Negotiate, ReadConfig, Dispi, Modeset, Rehearse, Reset,
     FindLfb, MapLfb, Canary, AdoptLfb
<1>2. pc \in BootPcs \cup {"task"}
  BY Zenon DEF Boot, Task, Scan, ProbeCaps, Negotiate, ReadConfig, Dispi, Modeset, Rehearse, Reset,
     FindLfb, MapLfb, Canary, AdoptLfb, BootPcs, ModePcs
<1>3. pc' \in BootPcs \cup {"task", "bringup", "exit"}
  BY Zenon DEF Boot, Task, Scan, ProbeCaps, Negotiate, ReadConfig, Dispi, Modeset, Rehearse, Reset,
     FindLfb, MapLfb, Canary, AdoptLfb, BootPcs, ModePcs, Goto, Fallback
<1>4. UpInv'
  BY <1>1, <1>2, <1>3, Zenon DEF QueueInv, UpInv, engine, counts, CmdPcs, BootPcs, ModePcs
<1>5. pc' \notin CmdPcs /\ pc # "poll"
  BY <1>2, <1>3, Zenon DEF CmdPcs, BootPcs, ModePcs
<1>6. UNCHANGED <<q, dev, req, late, took>> /\ DOMAIN req' = Queues
  BY <1>1, Zenon DEF engine, counts, QueueInv, GpuType
<1> QED
  BY <1>1, <1>3, <1>4, <1>5, <1>6, QueuesRest, Zenon DEF CmdPcs

\* queue_init and cursor_queue_init: the queue starts where the device's side of it is.
LEMMA QueueUp ==
  ASSUME QueueInv, Quiet, NEW i \in Queues, ~q[i].up, RingSize(m.maxSize) >= 2,
         q' = [q EXCEPT ![i] = Up], UNCHANGED <<m, dev, req, late, took>>,
         pc # "poll", pc' \in {"build", "park", "exit"}, pc' = "build" => cmd' \in Cmds, UpInv'
  PROVE  QueueInv'
<1>1. Up \in QRec /\ Up.up = TRUE /\ Up.avail = 0 /\ Up.used = 0
  BY UpIsQueue, ZenonT(40) DEF QueueInv
<1>2. q \in [Queues -> QRec]
  BY Zenon DEF QueueInv, GpuType
<1>3. q' \in [Queues -> QRec] /\ q'[i] = Up /\ \A j \in Queues \ {i} : q'[j] = q[j]
  BY <1>1, <1>2, Zenon
<1>4. GpuType'
  BY <1>3, Zenon DEF QueueInv, GpuType, CmdPcs
<1>5. \A j \in Queues : ~Busy(j) /\ ~Busy(j)'
  BY Zenon DEF Waiting, Busy, Quiet
<1>6. ASSUME NEW j \in Queues
      PROVE  /\ q'[j].avail = (q'[j].used + late[j] + 0) % IdxMod
             /\ late[j] = 0 => dev[j].done = q'[j].used
  <2>1. q[j].avail = (q[j].used + late[j] + 0) % IdxMod
        /\ (late[j] = 0 => dev[j].done = q[j].used)
    BY <1>5, Zenon DEF QueueInv, LagInv
  <2>2. CASE j = i
    <3>1. q[j].used = 0 /\ late[j] = 0 /\ q[j].avail = 0
      BY <2>2, Zenon DEF QueueInv, UpInv
    <3> QED
      BY <1>1, <1>3, <2>1, <2>2, <3>1, Zenon
  <2>3. CASE j # i
    BY <1>3, <2>1, <2>3, Zenon
  <2> QED
    BY <2>2, <2>3, Zenon
<1>7. LagInv'
  BY <1>5, <1>6, Zenon DEF LagInv, Quiet
<1> QED
  BY <1>4, <1>7, Zenon DEF QueueInv, AnswerLag

LEMMA BringUpKeeps ==
  ASSUME QueueInv, Quiet, BringUp
  PROVE  QueueInv'
<1>1. /\ pc = "bringup" /\ ~q[0].up /\ ~q[1].up
      /\ UNCHANGED <<m, dev, req, hwCursor, late, took>> /\ ~hwCursor
  BY Zenon DEF BringUp, QueueInv, UpInv, counts
<1>2. pc' = "exit" \/ (pc' = "build" /\ cmd' = "create" /\ q' = [q EXCEPT ![0] = Up])
  BY Zenon DEF BringUp, Exit, Run
<1>3. CASE DEVICE = {} \/ ~QueueComesUp
  <2>1. pc' = "exit" /\ q' = q
    BY <1>3, Zenon DEF BringUp, Exit
  <2>2. UpInv'
    BY <1>1, <2>1, Zenon DEF QueueInv, UpInv, BootPcs, ModePcs, CmdPcs
  <2>3. DOMAIN req' = Queues
    BY <1>1, Zenon DEF QueueInv, GpuType
  <2> QED
    BY <1>1, <2>1, <2>2, <2>3, QueuesRest, Zenon DEF CmdPcs
<1>4. CASE ~(DEVICE = {} \/ ~QueueComesUp)
  <2>1. RingSize(m.maxSize) >= 2 /\ q' = [q EXCEPT ![0] = Up]
    BY <1>4, Zenon DEF BringUp, QueueComesUp
  <2>2. /\ q'[0].up = TRUE /\ q'[1] = q[1] /\ q'[0].avail = 0 /\ q'[0].used = 0
    <3>1. Up.up = TRUE /\ Up.avail = 0 /\ Up.used = 0
      BY <2>1, UpIsQueue, ZenonT(40) DEF QueueInv
    <3>2. q'[0] = Up /\ q'[1] = q[1]
      BY <2>1 DEF QueueInv, GpuType, Queues
    <3> QED
      BY <3>1, <3>2, Zenon
  <2>3. UpInv'
    BY <1>1, <1>2, <2>2, Zenon DEF QueueInv, UpInv, BootPcs, ModePcs, CmdPcs, Queues, CursorCmds
  <2>4. 0 \in Queues /\ "create" \in Cmds
    BY Zenon DEF Queues, Cmds, BringUpCmds
  <2> QED
    BY <1>1, <1>2, <2>1, <2>3, <2>4, QueueUp, ZenonT(40)
<1> QED
  BY <1>3, <1>4, Zenon

LEMMA CursorKeeps ==
  ASSUME QueueInv, Quiet, Cursor
  PROVE  QueueInv'
<1>1. /\ pc = "cursor" /\ q[0].up /\ ~q[1].up
      /\ UNCHANGED <<m, dev, req, hwCursor, late, took>> /\ ~hwCursor
  BY Zenon DEF Cursor, QueueInv, UpInv, counts
<1>2. pc' = "park" \/ (pc' = "build" /\ cmd' = "c_create" /\ q' = [q EXCEPT ![1] = Up])
  BY Zenon DEF Cursor, Park, Run
<1>3. CASE CursorQueueComesUp
  <2>1. RingSize(m.maxSize) >= 2 /\ q' = [q EXCEPT ![1] = Up]
    BY <1>3, Zenon DEF Cursor, CursorQueueComesUp
  <2>2. /\ q'[1].up = TRUE /\ q'[0] = q[0] /\ q'[1].avail = 0 /\ q'[1].used = 0
    <3>1. Up.up = TRUE /\ Up.avail = 0 /\ Up.used = 0
      BY <2>1, UpIsQueue, ZenonT(40) DEF QueueInv
    <3>2. q'[1] = Up /\ q'[0] = q[0]
      BY <2>1 DEF QueueInv, GpuType, Queues
    <3> QED
      BY <3>1, <3>2, Zenon
  <2>3. UpInv'
    BY <1>1, <1>2, <2>2, Zenon DEF QueueInv, UpInv, BootPcs, ModePcs, CmdPcs, Queues, BringUpCmds
  <2>4. 1 \in Queues /\ "c_create" \in Cmds
    BY Zenon DEF Queues, Cmds, CursorCmds
  <2> QED
    BY <1>1, <1>2, <2>1, <2>3, <2>4, QueueUp, ZenonT(40)
<1>4. CASE ~CursorQueueComesUp
  <2>1. q' = q /\ pc' = "park"
    BY <1>4, Zenon DEF Cursor, Park
  <2>2. UpInv'
    BY <1>1, <2>1, Zenon DEF QueueInv, UpInv, BootPcs, ModePcs, CmdPcs
  <2>3. DOMAIN req' = Queues
    BY <1>1, Zenon DEF QueueInv, GpuType
  <2> QED
    BY <1>1, <2>1, <2>2, <2>3, QueuesRest, Zenon DEF CmdPcs
<1> QED
  BY <1>3, <1>4, Zenon

\* The command is built, and later published; flush_loop starts a present, the pointer is handed
\* over.
LEMMA BuildKeeps ==
  ASSUME QueueInv, Quiet, Build \/ Present \/ HideSprite
  PROVE  QueueInv'
<1>1. CASE Build
  <2>1. /\ pc = "build" /\ pc' = "submit" /\ req' = [req EXCEPT ![Queue(cmd)] = cmd]
        /\ UNCHANGED <<m, q, dev, cmd, hwCursor, late, took>>
    BY <1>1, Zenon DEF Build, counts
  <2>2. DOMAIN req' = Queues /\ req'[Queue(cmd)] = cmd /\ cmd \in Cmds
    BY <2>1, QueueOf, Zenon DEF QueueInv, GpuType, CmdPcs
  <2>3. UpInv'
    BY <2>1, Zenon DEF QueueInv, UpInv, CmdPcs, BootPcs, ModePcs
  <2>4. req'[Queue(cmd')] = cmd' /\ cmd' \in Cmds
    BY <2>1, <2>2, Zenon
  <2> QED
    BY <2>1, <2>2, <2>3, <2>4, QueuesRest, Zenon
<1>2. CASE Present
  <2>1. /\ pc = "park" /\ pc' = "build" /\ cmd' = "f_transfer"
        /\ UNCHANGED <<m, q, dev, req, hwCursor, late, took>>
    BY <1>2, Zenon DEF Present, Run
  <2>2. UpInv'
    BY <2>1, Zenon DEF QueueInv, UpInv, CmdPcs, BootPcs, ModePcs, BringUpCmds, CursorCmds
  <2>3. DOMAIN req' = Queues /\ cmd' \in Cmds
    BY <2>1, Zenon DEF QueueInv, GpuType, Cmds, PresentCmds
  <2> QED
    BY <2>1, <2>2, <2>3, QueuesRest, Zenon
<1>3. CASE HideSprite
  <2>1. /\ pc = "hide" /\ pc' = "build" /\ cmd' = "c_move"
        /\ UNCHANGED <<m, q, dev, req, late, took>>
    BY <1>3, Zenon DEF HideSprite, Run, counts
  <2>2. UpInv'
    BY <2>1, Zenon DEF QueueInv, UpInv, CmdPcs, BootPcs, ModePcs, BringUpCmds, CursorCmds
  <2>3. DOMAIN req' = Queues /\ cmd' \in Cmds
    BY <2>1, Zenon DEF QueueInv, GpuType, Cmds, CursorCmds
  <2> QED
    BY <2>1, <2>2, <2>3, QueuesRest, Zenon
<1> QED
  BY <1>1, <1>2, <1>3, Zenon

\* A command is published on queue i, by the task or by the handler.
LEMMA PublishAt ==
  ASSUME QueueInv, NEW i \in Queues, ~Busy(i), q' = [q EXCEPT ![i].avail = Bump(q[i].avail)]
  PROVE  /\ q' \in [Queues -> QRec]
         /\ q'[i].used = q[i].used /\ q'[i].up = q[i].up /\ q'[i].size = q[i].size
         /\ \A j \in Queues \ {i} : q'[j] = q[j]
         /\ q'[i].avail = (q'[i].used + late[i] + 1) % IdxMod
         /\ late[i] = 0 => dev[i].done = q'[i].used
<1>2. q \in [Queues -> QRec]
  BY Zenon DEF QueueInv, GpuType
<1>5. q[i].avail \in Nat /\ q[i].used \in Nat /\ late[i] \in Nat
  BY <1>2, QueueAssumption DEF QRec, QueueInv, GpuType
<1>6. Bump(q[i].avail) \in 0..IdxMod - 1
  BY <1>5, BumpInto, Zenon
<1>7. /\ q' \in [Queues -> QRec] /\ q'[i].avail = Bump(q[i].avail) /\ q'[i].used = q[i].used
      /\ q'[i].up = q[i].up /\ q'[i].size = q[i].size /\ \A j \in Queues \ {i} : q'[j] = q[j]
  <2> DEFINE r == [q[i] EXCEPT !.avail = Bump(q[i].avail)]
  <2>1. /\ r \in QRec /\ r.avail = Bump(q[i].avail) /\ r.used = q[i].used
        /\ r.up = q[i].up /\ r.size = q[i].size
    BY <1>2, <1>6, Zenon DEF QRec
  <2>2. q' = [q EXCEPT ![i] = r]
    BY Zenon
  <2> HIDE DEF r
  <2>3. q' \in [Queues -> QRec] /\ q'[i] = r /\ \A j \in Queues \ {i} : q'[j] = q[j]
    BY <1>2, <2>1, <2>2, Zenon
  <2> QED
    BY <2>1, <2>3, Zenon
<1>8. /\ q[i].avail = (q[i].used + late[i] + 0) % IdxMod
      /\ late[i] = 0 => dev[i].done = q[i].used
  BY Zenon DEF QueueInv, LagInv
<1>9. q[i].used + late[i] + 0 \in Nat
  BY <1>5
<1>10. Bump(q[i].avail) = (q[i].used + late[i] + 0 + 1) % IdxMod
  BY <1>8, <1>9, ModAdds, Zenon DEF Bump
<1>11. q[i].used + late[i] + 0 + 1 = q[i].used + late[i] + 1
  BY <1>5, SMTT(40)
<1> QED
  BY <1>7, <1>8, <1>10, <1>11, Zenon

LEMMA PublishKeeps ==
  ASSUME QueueInv, Quiet, submit \/ cursor_submit
  PROVE  QueueInv'
<1> DEFINE i == Queue(cmd)
<1>1. /\ pc = "submit" /\ pc' = "poll" /\ UNCHANGED <<m, dev, req, cmd, hwCursor, late, took>>
      /\ q' = [q EXCEPT ![i].avail = Bump(q[i].avail)]
  BY Zenon DEF submit, cursor_submit, Publish, counts
<1>2. i \in Queues
  BY QueueOf, Zenon
<1>3. \A j \in Queues : Busy(j)' <=> j = i
  BY <1>1, QuietWaits, Zenon DEF Waiting
<1>4. \A j \in Queues : ~Busy(j)
  BY <1>1, QuietWaits, Zenon DEF Waiting
<1>5. q[i].up
  BY <1>1, Zenon DEF QueueInv, UpInv, GpuType, CmdPcs, Queue, Cmds, BringUpCmds, CursorCmds,
     PresentCmds
<1> HIDE DEF i
<1>7. /\ q' \in [Queues -> QRec]
      /\ q'[i].used = q[i].used /\ q'[i].up = q[i].up /\ q'[i].size = q[i].size
      /\ \A j \in Queues \ {i} : q'[j] = q[j]
      /\ q'[i].avail = (q'[i].used + late[i] + 1) % IdxMod
      /\ late[i] = 0 => dev[i].done = q'[i].used
  BY <1>1, <1>2, <1>4, PublishAt, Zenon
<1>8. GpuType'
  BY <1>1, <1>7, Zenon DEF QueueInv, GpuType, CmdPcs
<1>9. UpInv'
  <2>2. \A j \in Queues : (q'[j].up <=> q[j].up) /\ (~q[j].up => q'[j] = q[j])
    BY <1>5, <1>7, ZenonT(40)
  <2>3. (q'[0].up <=> q[0].up) /\ (q'[1].up <=> q[1].up)
    BY <2>2, Zenon DEF Queues
  <2>4. \A j \in Queues : ~q'[j].up => q'[j].avail = 0 /\ q'[j].used = 0 /\ late'[j] = 0
    <3>1. \A j \in Queues : ~q[j].up => q[j].avail = 0 /\ q[j].used = 0 /\ late[j] = 0
      BY Zenon DEF QueueInv, UpInv
    <3>2. late' = late
      BY <1>1, Zenon
    <3> QED
      BY <2>2, <3>1, <3>2, Zenon
  <2> QED
    BY <1>1, <2>3, <2>4, Zenon DEF QueueInv, UpInv, CmdPcs, BootPcs, ModePcs
<1>10. ASSUME NEW j \in Queues
       PROVE  /\ q'[j].avail = (q'[j].used + late[j] + (IF j = i THEN 1 ELSE 0)) % IdxMod
              /\ late[j] = 0 => dev[j].done = q'[j].used
  <2>1. /\ q[j].avail = (q[j].used + late[j] + 0) % IdxMod
        /\ late[j] = 0 => dev[j].done = q[j].used
    BY <1>4, Zenon DEF QueueInv, LagInv
  <2> QED
    BY <1>7, <2>1, Zenon
<1>11. LagInv'
  <2>1. req'[Queue(cmd')] = cmd'
    BY <1>1, Zenon DEF QueueInv, LagInv
  <2> QED
    BY <1>1, <1>3, <1>10, <2>1, Zenon DEF LagInv, Quiet
<1> QED
  BY <1>1, <1>8, <1>9, <1>11, Zenon DEF QueueInv, AnswerLag

\* Where the task goes on once a command has ended.
LEMMA Outcome ==
  ASSUME cmd \in Cmds, Succeed(cmd) \/ Fail(cmd)
  PROVE  \/ pc' \in {"park", "exit"} /\ cmd' = cmd
         \/ pc' = "hide" /\ cmd' = cmd /\ cmd = "c_update"
         \/ pc' = "cursor" /\ cmd' = cmd /\ cmd = "flush"
         \/ /\ pc' = "build" /\ cmd' \in Cmds
            /\ cmd \in BringUpCmds <=> cmd' \in BringUpCmds
            /\ cmd \in CursorCmds <=> cmd' \in CursorCmds
<1> USE DEF Cmds, BringUpCmds, CursorCmds, PresentCmds
<1>1. CASE Fail(cmd)
  BY <1>1, ZenonT(40) DEF Fail, Exit, Park
<1>2. CASE Succeed(cmd)
  <2>1. CASE cmd \in BringUpCmds
    BY <1>2, <2>1, Zenon DEF Succeed, Run, Exit
  <2>2. CASE cmd \in CursorCmds \cup PresentCmds
    BY <1>2, <2>2, Zenon DEF Succeed, Run, Park
  <2> QED
    BY <2>1, <2>2, Zenon
<1> QED
  BY <1>1, <1>2, Zenon

LEMMA OutcomeUp ==
  ASSUME GpuType, UpInv, pc = "poll", Succeed(cmd) \/ Fail(cmd), hwCursor' = hwCursor,
         \A j \in Queues : (q'[j].up <=> q[j].up) /\
                           (~q[j].up => q'[j].avail = 0 /\ q'[j].used = 0 /\ late'[j] = 0)
  PROVE  /\ UpInv' /\ pc' \in {"build", "cursor", "hide", "park", "exit"}
         /\ pc' = "build" => cmd' \in Cmds
<1>1. cmd \in Cmds /\ q[0].up /\ (cmd \in BringUpCmds => ~q[1].up) /\ (cmd \in CursorCmds => q[1].up)
  BY Zenon DEF GpuType, UpInv, CmdPcs
<1>2. (q'[0].up <=> q[0].up) /\ (q'[1].up <=> q[1].up)
  BY Zenon DEF Queues
<1>3. \A j \in Queues : ~q'[j].up => q'[j].avail = 0 /\ q'[j].used = 0 /\ late'[j] = 0
  BY Zenon
<1>4. \/ pc' \in {"park", "exit"} /\ cmd' = cmd
      \/ pc' = "hide" /\ cmd' = cmd /\ cmd = "c_update"
      \/ pc' = "cursor" /\ cmd' = cmd /\ cmd = "flush"
      \/ /\ pc' = "build" /\ cmd' \in Cmds
         /\ cmd \in BringUpCmds <=> cmd' \in BringUpCmds
         /\ cmd \in CursorCmds <=> cmd' \in CursorCmds
  BY <1>1, Outcome, Zenon
<1>5. "flush" \in BringUpCmds /\ "c_update" \in CursorCmds
  BY Zenon DEF BringUpCmds, CursorCmds
<1>6. UpInv'
  BY <1>1, <1>2, <1>3, <1>4, <1>5, Zenon DEF UpInv, CmdPcs, BootPcs, ModePcs
<1> QED
  BY <1>4, <1>6, Zenon

\* An element of queue i is consumed, by the task or by the handler: the oldest one not seen.
LEMMA PollAt ==
  ASSUME QueueInv, NEW i \in Queues, Busy(i), dev[i].done # q[i].used,
         q' = [q EXCEPT ![i].used = Bump(q[i].used)]
  PROVE  /\ q' \in [Queues -> QRec] /\ (q'[i].up <=> q[i].up)
         /\ \A j \in Queues \ {i} : q'[j] = q[j]
         /\ q[i].avail = (Bump(q[i].used) + late[i]) % IdxMod
         /\ q'[i].avail = (q'[i].used + late[i] + 0) % IdxMod
         /\ late[i] = 0 => /\ dev[i].done = q'[i].used
                          /\ dev[i].ring[q[i].used % q[i].size].of = Mine(i)
<1>2. q \in [Queues -> QRec]
  BY Zenon DEF QueueInv, GpuType
<1>4. /\ q[i].avail = (q[i].used + late[i] + 1) % IdxMod
      /\ late[i] = 0 => /\ dev[i].done = q[i].avail
                       /\ dev[i].ring[q[i].used % q[i].size].of = Mine(i)
  BY Zenon DEF QueueInv, LagInv
<1>5. q[i].used \in Nat /\ late[i] \in Nat
  BY <1>2, QueueAssumption DEF QRec, QueueInv, GpuType
<1>6. Bump(q[i].used) \in 0..IdxMod - 1
  BY <1>5, BumpInto, Zenon
<1>7. q[i].avail = (Bump(q[i].used) + late[i]) % IdxMod
  <2>1. q[i].used + 1 \in Nat /\ q[i].used + 1 + late[i] = q[i].used + late[i] + 1
    BY <1>5
  <2>2. (((q[i].used + 1) % IdxMod) + late[i]) % IdxMod = (q[i].used + 1 + late[i]) % IdxMod
    BY <1>5, <2>1, ModAdds, ZenonT(40)
  <2> QED
    BY <1>4, <2>1, <2>2, Zenon DEF Bump
<1>8. late[i] = 0 => dev[i].done = Bump(q[i].used)
  <2>1. late[i] = 0 => q[i].avail = (q[i].used + 1) % IdxMod
    BY <1>4, <1>5
  <2> QED
    BY <1>4, <2>1, Zenon DEF Bump
<1>9. /\ q' \in [Queues -> QRec] /\ q'[i].used = Bump(q[i].used) /\ q'[i].avail = q[i].avail
      /\ (q'[i].up <=> q[i].up) /\ \A j \in Queues \ {i} : q'[j] = q[j]
  <2> DEFINE r == [q[i] EXCEPT !.used = Bump(q[i].used)]
  <2>1. /\ r \in QRec /\ r.used = Bump(q[i].used) /\ r.avail = q[i].avail /\ r.up = q[i].up
    BY <1>2, <1>6, Zenon DEF QRec
  <2>2. q' = [q EXCEPT ![i] = r]
    BY Zenon
  <2> HIDE DEF r
  <2>3. q' \in [Queues -> QRec] /\ q'[i] = r /\ \A j \in Queues \ {i} : q'[j] = q[j]
    BY <1>2, <2>1, <2>2, Zenon
  <2> QED
    BY <2>1, <2>3, Zenon
<1>10. Bump(q[i].used) + late[i] + 0 = Bump(q[i].used) + late[i]
  BY <1>5, <1>6, QueueAssumption
<1> QED
  BY <1>4, <1>7, <1>8, <1>9, <1>10, Zenon

LEMMA PollKeeps ==
  ASSUME QueueInv, Quiet, Poll
  PROVE  QueueInv'
<1> DEFINE i == Queue(cmd)
           elem == dev[i].ring[q[i].used % q[i].size]
<1>1. /\ pc = "poll" /\ UNCHANGED <<m, dev, req, hwCursor, late>> /\ dev[i].done # q[i].used
      /\ q' = [q EXCEPT ![i].used = Bump(q[i].used)]
      /\ took' = {[mine |-> cmd, of |-> elem.of, own |-> q[i].avail,
                   entry |-> Bump(q[i].used), lag |-> late[i]]}
      /\ Succeed(cmd) \/ Fail(cmd)
  BY Zenon DEF Poll
<1>2. i \in Queues
  BY QueueOf, Zenon
<1>3. \A j \in Queues : Busy(j) <=> j = i
  BY <1>1, QuietWaits, Zenon DEF Waiting
<1>4. q[i].up
  BY <1>1, Zenon DEF QueueInv, UpInv, GpuType, CmdPcs, Queue, Cmds, BringUpCmds, CursorCmds,
     PresentCmds
<1> HIDE DEF i
<1>5. /\ q' \in [Queues -> QRec] /\ (q'[i].up <=> q[i].up)
      /\ \A j \in Queues \ {i} : q'[j] = q[j]
      /\ q[i].avail = (Bump(q[i].used) + late[i]) % IdxMod
      /\ q'[i].avail = (q'[i].used + late[i] + 0) % IdxMod
      /\ late[i] = 0 => dev[i].done = q'[i].used /\ elem.of = Mine(i)
  BY <1>1, <1>2, <1>3, PollAt, Zenon
<1> HIDE DEF elem
<1>6. late[i] = 0 => elem.of = cmd
  BY <1>5, QuietWaits, Zenon
<1>11. /\ UpInv' /\ pc' \in {"build", "cursor", "hide", "park", "exit"}
       /\ pc' = "build" => cmd' \in Cmds
  <2>1. \A j \in Queues : (q'[j].up <=> q[j].up) /\
                          (~q[j].up => q'[j].avail = 0 /\ q'[j].used = 0 /\ late'[j] = 0)
    BY <1>1, <1>4, <1>5, Zenon DEF QueueInv, UpInv
  <2> QED
    BY <1>1, <2>1, OutcomeUp, Zenon DEF QueueInv
<1>12. GpuType'
  BY <1>1, <1>5, <1>11, Zenon DEF QueueInv, GpuType, CmdPcs
<1>13. LagInv'
  <2>1. \A j \in Queues : ~Busy(j)'
    BY <1>11, QuietWaits, Zenon DEF Waiting
  <2>2. ASSUME NEW j \in Queues
        PROVE  /\ q'[j].avail = (q'[j].used + late[j] + 0) % IdxMod
               /\ late[j] = 0 => dev[j].done = q'[j].used
    <3>1. CASE j = i
      BY <1>5, <3>1, Zenon
    <3>2. CASE j # i
      BY <1>3, <1>5, <3>2, Zenon DEF QueueInv, LagInv
    <3> QED
      BY <3>1, <3>2, Zenon
  <2> QED
    BY <1>1, <1>11, <2>1, <2>2, Zenon DEF LagInv, Quiet
<1>14. AnswerLag'
  BY <1>1, <1>5, <1>6 DEF AnswerLag
<1> QED
  BY <1>11, <1>12, <1>13, <1>14, Zenon DEF QueueInv

\* CMD_TIMEOUT_MS passes: from now on the task is one more answer behind.
LEMMA TimeOutKeeps ==
  ASSUME QueueInv, Quiet, TimeOut
  PROVE  QueueInv'
<1> DEFINE i == Queue(cmd)
<1>1. /\ pc = "poll" /\ UNCHANGED <<m, q, dev, req, hwCursor, took>> /\ Fail(cmd)
      /\ late' = [late EXCEPT ![i] = late[i] + 1]
  BY Zenon DEF TimeOut
<1>2. i \in Queues /\ q \in [Queues -> QRec] /\ late \in [Queues -> Nat]
  BY QueueOf, Zenon DEF QueueInv, GpuType
<1>3. \A j \in Queues : Busy(j) <=> j = i
  BY <1>1, QuietWaits, Zenon DEF Waiting
<1>4. q[i].up
  BY <1>1, Zenon DEF QueueInv, UpInv, GpuType, CmdPcs, Queue, Cmds, BringUpCmds, CursorCmds,
     PresentCmds
<1> HIDE DEF i
<1>5. late[i] + 1 \in Nat /\ q[i].used \in Nat /\ late[i] \in Nat
  BY <1>2, QueueAssumption DEF QRec
<1>6. /\ late' \in [Queues -> Nat] /\ late'[i] = late[i] + 1
      /\ \A j \in Queues \ {i} : late'[j] = late[j]
  BY <1>1, <1>2, <1>5, Zenon
<1>7. /\ UpInv' /\ pc' \in {"build", "cursor", "hide", "park", "exit"}
      /\ pc' = "build" => cmd' \in Cmds
  <2>1. \A j \in Queues : (q'[j].up <=> q[j].up) /\
                          (~q[j].up => q'[j].avail = 0 /\ q'[j].used = 0 /\ late'[j] = 0)
    BY <1>1, <1>4, <1>6, Zenon DEF QueueInv, UpInv
  <2> QED
    BY <1>1, <2>1, OutcomeUp, Zenon DEF QueueInv
<1>8. GpuType'
  BY <1>1, <1>6, <1>7, Zenon DEF QueueInv, GpuType, CmdPcs
<1>9. LagInv'
  <2>1. \A j \in Queues : ~Busy(j)'
    BY <1>7, QuietWaits, Zenon DEF Waiting
  <2>2. ASSUME NEW j \in Queues
        PROVE  /\ q[j].avail = (q[j].used + late'[j] + 0) % IdxMod
               /\ late'[j] = 0 => dev[j].done = q[j].used
    <3>1. CASE j = i
      <4>1. q[i].avail = (q[i].used + late[i] + 1) % IdxMod
        BY <1>2, <1>3, Zenon DEF QueueInv, LagInv
      <4>2. q[i].used + late[i] + 1 = q[i].used + (late[i] + 1) + 0 /\ late[i] + 1 # 0
        BY <1>5
      <4> QED
        BY <1>6, <3>1, <4>1, <4>2, Zenon
    <3>2. CASE j # i
      BY <1>3, <1>6, <3>2, Zenon DEF QueueInv, LagInv
    <3> QED
      BY <3>1, <3>2, Zenon
  <2> QED
    BY <1>1, <1>7, <2>1, <2>2, Zenon DEF LagInv, Quiet
<1> QED
  BY <1>1, <1>7, <1>8, <1>9, Zenon DEF QueueInv, AnswerLag

\* The device answers: while none was given up on, only the command being waited for.
LEMMA DeviceKeeps ==
  ASSUME QueueInv, NEW i \in Queues, NEW answer, NEW elem, DeviceRuns(i, answer, elem)
  PROVE  /\ QueueInv'
         /\ late[i] = 0 => /\ Busy(i) /\ req[i] = Mine(i) /\ dev[i].done = q[i].used
                          /\ dev'[i].done = q[i].avail
<1> DEFINE slot == dev[i].done % q[i].size
           ring == [dev[i].ring EXCEPT ![slot] = [id |-> elem.id, len |-> elem.len, of |-> req[i]]]
           d == [seen |-> Bump(dev[i].seen), done |-> Bump(dev[i].done), resp |-> answer,
                 ring |-> ring]
<1>1. /\ UNCHANGED <<m, pc, q, req, cmd, hwCursor, irq12, late, took>> /\ dev[i].seen # q[i].avail
      /\ dev' = [dev EXCEPT ![i] = d]
  BY Zenon DEF DeviceRuns, counts, mouse
<1>2. /\ q[i] \in QRec /\ DOMAIN dev = Queues /\ dev[i].seen = dev[i].done
      /\ dev[i].done \in 0..IdxMod - 1 /\ DOMAIN dev[i].ring = 0..Q_SIZE_MAX - 1
      /\ late[i] \in Nat
  BY Zenon DEF QueueInv, GpuType
<1>3. dev[i].done \in Nat /\ q[i].used \in 0..IdxMod - 1 /\ q[i].size \in 1..Q_SIZE_MAX
  BY <1>2, QueueAssumption DEF QRec
<1>4. slot \in 0..Q_SIZE_MAX - 1
  BY <1>3, QueueAssumption
<1>5. DOMAIN ring = 0..Q_SIZE_MAX - 1 /\ ring[slot].of = req[i]
  BY <1>2, <1>4, Zenon
<1>6. Bump(dev[i].done) \in 0..IdxMod - 1 /\ Bump(dev[i].seen) = Bump(dev[i].done)
  BY <1>2, <1>3, BumpInto, Zenon
<1>7. /\ DOMAIN d = {"seen", "done", "resp", "ring"} /\ d.ring = ring
      /\ d.seen = d.done /\ d.done = Bump(dev[i].done)
  BY <1>6, Zenon
<1> HIDE DEF d, ring
<1>8. DOMAIN dev' = Queues /\ dev'[i] = d /\ \A j \in Queues \ {i} : dev'[j] = dev[j]
  BY <1>1, <1>2, Zenon
<1>9. GpuType'
  <2>1. ASSUME NEW j \in Queues
        PROVE  /\ DOMAIN dev'[j] = {"seen", "done", "resp", "ring"}
               /\ DOMAIN dev'[j].ring = 0..Q_SIZE_MAX - 1
               /\ dev'[j].seen = dev'[j].done /\ dev'[j].done \in 0..IdxMod - 1
    <3>1. CASE j = i
      BY <1>5, <1>6, <1>7, <1>8, <3>1, Zenon
    <3>2. CASE j # i
      BY <1>8, <3>2, Zenon DEF QueueInv, GpuType
    <3> QED
      BY <3>1, <3>2, Zenon
  <2> QED
    BY <1>1, <1>8, <2>1, Zenon DEF QueueInv, GpuType
<1>10. UpInv'
  BY <1>1, Zenon DEF QueueInv, UpInv
<1>11. \A j \in Queues : (Busy(j)' <=> Busy(j)) /\ Mine(j)' = Mine(j)
  BY <1>1, Zenon DEF Waiting, Busy, Mine
<1>12. ASSUME late[i] = 0
       PROVE  /\ Busy(i) /\ req[i] = Mine(i) /\ dev[i].done = q[i].used
              /\ dev'[i].done = q[i].avail /\ dev'[i].ring[q[i].used % q[i].size].of = Mine(i)
  <2>1. /\ q[i].avail = (q[i].used + 0 + (IF Busy(i) THEN 1 ELSE 0)) % IdxMod
        /\ dev[i].done = q[i].used \/ (Busy(i) /\ dev[i].done = q[i].avail)
    BY <1>12, Zenon DEF QueueInv, LagInv
  <2>2. dev[i].done # q[i].avail
    BY <1>1, <1>2, Zenon
  <2>3. dev[i].done = q[i].used
    BY <2>1, <2>2, Zenon
  <2>4. Busy(i)
    <3>1. CASE ~Busy(i)
      <4>1. q[i].avail = (q[i].used + 0 + 0) % IdxMod
        BY <2>1, <3>1, Zenon
      <4>2. q[i].used + 0 + 0 = q[i].used
        BY <1>3, QueueAssumption
      <4>3. q[i].avail = q[i].used
        BY <1>3, <4>1, <4>2, ModSmall, Zenon
      <4> QED
        BY <2>2, <2>3, <4>3, Zenon
    <3> QED
      BY <3>1, Zenon
  <2>5. req[i] = Mine(i)
    BY <2>4, Zenon DEF Waiting, Busy, Mine, Queues, QueueInv, LagInv
  <2>6. q[i].avail = Bump(q[i].used)
    <3>1. q[i].avail = (q[i].used + 0 + 1) % IdxMod
      BY <2>1, <2>4, Zenon
    <3>2. q[i].used + 0 + 1 = q[i].used + 1
      BY <1>3, QueueAssumption
    <3> QED
      BY <3>1, <3>2, Zenon DEF Bump
  <2>7. dev'[i].ring = ring /\ dev'[i].done = Bump(dev[i].done)
    BY <1>7, <1>8, Zenon
  <2> QED
    BY <1>5, <2>3, <2>4, <2>5, <2>6, <2>7, Zenon
<1>13. LagInv'
  <2>1. ASSUME NEW j \in Queues, late[j] = 0
        PROVE  \/ dev'[j].done = q[j].used
               \/ /\ Busy(j) /\ dev'[j].done = q[j].avail
                  /\ dev'[j].ring[q[j].used % q[j].size].of = Mine(j)
    <3>1. CASE j = i
      BY <1>12, <2>1, <3>1, Zenon
    <3>2. CASE j # i
      BY <1>8, <2>1, <3>2, Zenon DEF QueueInv, LagInv
    <3> QED
      BY <3>1, <3>2, Zenon
  <2>2. \A j \in Queues : q[j].avail = (q[j].used + late[j] + (IF Busy(j) THEN 1 ELSE 0)) % IdxMod
    BY Zenon DEF QueueInv, LagInv
  <2>3. /\ pc \in {"submit", "poll"} => req[Queue(cmd)] = cmd
        /\ irq12 = "poll" => hwCursor /\ req[1] = "i_move" /\ ~CursorQueueHeld
        /\ CursorQueueHeld' <=> CursorQueueHeld
    BY <1>1, Zenon DEF QueueInv, LagInv, CursorQueueHeld
  <2> QED
    BY <1>1, <1>11, <2>1, <2>2, <2>3, Zenon DEF LagInv
<1>14. AnswerLag'
  BY <1>1, Zenon DEF QueueInv, AnswerLag
<1> QED
  BY <1>9, <1>10, <1>12, <1>13, <1>14, Zenon DEF QueueInv

\* IRQ 12 finds a lock held, or publishes a command of its own while the task has none there.
LEMMA IrqKeeps ==
  ASSUME QueueInv, Irq12
  PROVE  QueueInv'
<1>1. /\ irq12 = "idle" /\ UNCHANGED <<m, pc, dev, cmd, hwCursor, late, took>>
      /\ \/ irq12' \in {"FB", "CURSOR_QUEUE"} /\ UNCHANGED <<q, req>>
         \/ /\ irq12' = "poll" /\ hwCursor /\ ~CursorQueueHeld
            /\ req' = [req EXCEPT ![1] = "i_move"]
            /\ q' = [q EXCEPT ![1].avail = Bump(q[1].avail)]
  BY Zenon DEF Irq12, counts
<1>2. \A j \in Queues : Busy(j) <=> Waiting(j)
  BY <1>1, Zenon DEF Busy
<1>3. /\ \A j \in Queues : Waiting(j)' <=> Waiting(j)
      /\ CursorQueueHeld' <=> CursorQueueHeld
  BY <1>1, Zenon DEF Waiting, CursorQueueHeld
<1>4. AnswerLag'
  BY <1>1, Zenon DEF QueueInv, AnswerLag
<1>5. CASE irq12' \in {"FB", "CURSOR_QUEUE"} /\ UNCHANGED <<q, req>>
  <2>1. irq12' # "poll"
    BY <1>5, Zenon
  <2>2. \A j \in Queues : (Busy(j)' <=> Busy(j)) /\ Mine(j)' = Mine(j)
    BY <1>1, <1>2, <1>3, <2>1, Zenon DEF Busy, Mine
  <2>3. GpuType' /\ UpInv'
    BY <1>1, <1>5, Zenon DEF QueueInv, GpuType, UpInv
  <2>4. LagInv'
    BY <1>1, <1>5, <2>1, <2>2, Zenon DEF QueueInv, LagInv
  <2> QED
    BY <1>4, <2>3, <2>4, Zenon DEF QueueInv
<1>6. CASE /\ irq12' = "poll" /\ hwCursor /\ ~CursorQueueHeld
           /\ req' = [req EXCEPT ![1] = "i_move"]
           /\ q' = [q EXCEPT ![1].avail = Bump(q[1].avail)]
  <2>1. 1 \in Queues /\ ~Busy(1) /\ q[1].up
    BY <1>2, <1>6, Zenon DEF Queues, CursorQueueHeld, Waiting, QueueInv, UpInv
  <2>2. /\ q' \in [Queues -> QRec]
        /\ q'[1].used = q[1].used /\ q'[1].up = q[1].up /\ q'[1].size = q[1].size
        /\ \A j \in Queues \ {1} : q'[j] = q[j]
        /\ q'[1].avail = (q'[1].used + late[1] + 1) % IdxMod
        /\ late[1] = 0 => dev[1].done = q'[1].used
    BY <1>6, <2>1, PublishAt, Zenon
  <2>3. 0 \in Queues \ {1} /\ \A j \in Queues : j = 1 \/ (j = 0 /\ j # 1)
    BY DEF Queues
  <2>4. q'[0] = q[0]
    BY <2>2, <2>3, Zenon
  <2>5. DOMAIN req' = Queues /\ req'[1] = "i_move" /\ req'[0] = req[0]
    BY <1>6, <2>1, <2>3, Zenon DEF QueueInv, GpuType
  <2>6. GpuType'
    BY <1>1, <2>2, <2>5, Zenon DEF QueueInv, GpuType
  <2>7. UpInv'
    BY <1>1, <2>1, <2>2, <2>3, <2>4, Zenon DEF QueueInv, UpInv
  <2>8. Busy(1)' /\ (Busy(0)' <=> Busy(0)) /\ Mine(0)' = Mine(0)
    BY <1>1, <1>2, <1>3, <1>6, <2>3, Zenon DEF Busy, Mine
  <2>9. pc \in {"submit", "poll"} => req'[Queue(cmd)] = cmd
    <3>1. pc \in {"submit", "poll"} => Queue(cmd) = 0 /\ req[Queue(cmd)] = cmd
      BY <1>6, QueueOf, <2>3, Zenon DEF CursorQueueHeld, QueueInv, LagInv
    <3> QED
      BY <2>5, <3>1, Zenon
  <2>10. /\ q'[1].avail = (q'[1].used + late'[1] + (IF Busy(1)' THEN 1 ELSE 0)) % IdxMod
         /\ late'[1] = 0 => dev'[1].done = q'[1].used
    BY <1>1, <2>2, <2>8, Zenon
  <2>11. /\ q'[0].avail = (q'[0].used + late'[0] + (IF Busy(0)' THEN 1 ELSE 0)) % IdxMod
         /\ late'[0] = 0 =>
               \/ dev'[0].done = q'[0].used
               \/ /\ Busy(0)' /\ dev'[0].done = q'[0].avail
                  /\ dev'[0].ring[q'[0].used % q'[0].size].of = Mine(0)'
    BY <1>1, <2>3, <2>4, <2>8, Zenon DEF QueueInv, LagInv
  <2>12. LagInv'
    BY <1>1, <1>3, <1>6, <2>3, <2>5, <2>9, <2>10, <2>11, Zenon DEF LagInv
  <2> QED
    BY <1>4, <2>6, <2>7, <2>12, Zenon DEF QueueInv
<1> QED
  BY <1>1, <1>5, <1>6, Zenon

LEMMA IrqPollKeeps ==
  ASSUME QueueInv, IrqPoll
  PROVE  QueueInv'
<1>1. /\ irq12 = "poll" /\ irq12' = "idle" /\ dev[1].done # q[1].used
      /\ UNCHANGED <<m, pc, dev, req, cmd, hwCursor, late>>
      /\ q' = [q EXCEPT ![1].used = Bump(q[1].used)]
      /\ took' = {[mine |-> "i_move", of |-> dev[1].ring[q[1].used % q[1].size].of,
                   own |-> q[1].avail, entry |-> Bump(q[1].used), lag |-> late[1]]}
  BY Zenon DEF IrqPoll
<1>2. 0 \in Queues \ {1} /\ 1 \in Queues /\ 1 # 0 /\ \A j \in Queues : j = 1 \/ (j = 0 /\ j # 1)
  BY DEF Queues
<1>3. Busy(1) /\ Mine(1) = "i_move" /\ q[1].up
  BY <1>1, <1>2, Zenon DEF Busy, Mine, QueueInv, LagInv, UpInv
<1>4. /\ q' \in [Queues -> QRec] /\ (q'[1].up <=> q[1].up)
      /\ \A j \in Queues \ {1} : q'[j] = q[j]
      /\ q[1].avail = (Bump(q[1].used) + late[1]) % IdxMod
      /\ q'[1].avail = (q'[1].used + late[1] + 0) % IdxMod
      /\ late[1] = 0 => /\ dev[1].done = q'[1].used
                       /\ dev[1].ring[q[1].used % q[1].size].of = Mine(1)
  BY <1>1, <1>2, <1>3, PollAt, Zenon
<1>5. q'[0] = q[0]
  BY <1>2, <1>4, Zenon
<1>6. GpuType'
  BY <1>1, <1>4, Zenon DEF QueueInv, GpuType
<1>7. UpInv'
  BY <1>1, <1>2, <1>3, <1>4, <1>5, Zenon DEF QueueInv, UpInv
<1>8. ~Busy(1)' /\ (Busy(0)' <=> Busy(0)) /\ Mine(0)' = Mine(0)
  BY <1>1, <1>2, Zenon DEF Busy, Mine, Waiting, QueueInv, LagInv, CursorQueueHeld
<1>9. pc \in {"submit", "poll"} => req[Queue(cmd)] = cmd
  BY Zenon DEF QueueInv, LagInv
<1>10. /\ q'[1].avail = (q'[1].used + late'[1] + (IF Busy(1)' THEN 1 ELSE 0)) % IdxMod
       /\ late'[1] = 0 => dev'[1].done = q'[1].used
  BY <1>1, <1>4, <1>8, Zenon
<1>11. /\ q'[0].avail = (q'[0].used + late'[0] + (IF Busy(0)' THEN 1 ELSE 0)) % IdxMod
       /\ late'[0] = 0 =>
             \/ dev'[0].done = q'[0].used
             \/ /\ Busy(0)' /\ dev'[0].done = q'[0].avail
                /\ dev'[0].ring[q'[0].used % q'[0].size].of = Mine(0)'
  BY <1>1, <1>2, <1>5, <1>8, Zenon DEF QueueInv, LagInv
<1>12. LagInv'
  BY <1>1, <1>2, <1>9, <1>10, <1>11, Zenon DEF LagInv
<1>13. AnswerLag'
  <2> DEFINE of == dev[1].ring[q[1].used % q[1].size].of
             own == q[1].avail
             entry == Bump(q[1].used)
             lag == late[1]
  <2>1. own = (entry + lag) % IdxMod /\ (lag = 0 => of = "i_move")
    BY <1>3, <1>4, Zenon
  <2>2. took' = {[mine |-> "i_move", of |-> of, own |-> own, entry |-> entry, lag |-> lag]}
    BY <1>1, Zenon
  <2> HIDE DEF of, own, entry, lag
  <2> QED
    BY <2>1, <2>2 DEF AnswerLag
<1> QED
  BY <1>6, <1>7, <1>12, <1>13, Zenon DEF QueueInv

LEMMA QueueStep == QueueInv /\ [Next]_vars => QueueInv'
<1> SUFFICES ASSUME QueueInv, [Next]_vars PROVE QueueInv'
  BY Zenon
<1>1. CASE Kernel \/ Presents
  <2>1. Quiet /\ (Boot \/ GpuTask \/ Present)
    BY <1>1, Zenon DEF Kernel, Presents, Quiet, mouse
  <2> QED
    BY <2>1, BootKeeps, BringUpKeeps, BuildKeeps, PublishKeeps, PollKeeps, TimeOutKeeps,
       CursorKeeps, Zenon DEF GpuTask
<1>2. CASE Device
  BY <1>2, DeviceKeeps, Zenon DEF Device, Queues
<1>3. CASE UNCHANGED vars
  BY <1>3, Zenon DEF vars, QueueInv, GpuType, UpInv, LagInv, AnswerLag, Waiting, Busy, Mine,
     CursorQueueHeld
<1>4. CASE Irq12 \/ IrqPoll
  BY <1>4, IrqKeeps, IrqPollKeeps, Zenon
<1> QED
  BY <1>1, <1>2, <1>3, <1>4, Zenon DEF Next

\* submit and cursor_submit on any device, at any speed, with any number of timeouts and of moves
\* from IRQ 12: the answer consumed is the one as many commands back as were given up on.
THEOREM AnswersLagBehind == Spec => []AnswerLag
<1>1. QueueInv => AnswerLag
  BY Zenon DEF QueueInv
<1> QED
  BY QueueInit, QueueStep, <1>1, PTL DEF Spec
-----------------------------------------------------------------------------
(***************************************************************************)
(* The surfaces.  ScreenInv follows, through the boot path and the GPU     *)
(* task, which surface the console draws on and which one the display has  *)
(* been told to read.  The device may run a command of the bring-up long   *)
(* after the task has given up on it: what it may still do is read off the *)
(* request buffer, and only a SET_SCANOUT in it moves the display.         *)
(***************************************************************************)
Desk == [mode |-> Want, on |-> TRUE]
Early == {"none", "create", "attach"}

\* The console is where the boot path left it.
OnLfb == MODE = "set" /\ console = "lfb" /\ dispi = Desk
OnBoot ==
  /\ MODE = "none" /\ console = "boot"
  /\ dispi = m.found \/ why = "reset" \/ (m.found.mode = "zero" /\ why # "none")

HostInv ==
  /\ DOMAIN host = {"made", "backed", "drawn", "scanout"}
  /\ req[1] # "scanout"
  /\ pc \in BootPcs \cup {"task", "bringup"} => req[0] = "none"
  /\ req[0] \in Early => host.scanout = "dispi"
  /\ (Waiting(0) /\ late[0] = 0 /\ cmd = "scanout" /\ dev[0].done # q[0].used
       /\ dev[0].resp = "ok") => host.scanout = "resource"

SurfaceInv ==
  /\ pc \in BootPcs => console = "boot" /\ MODE = "none" /\ why = "none"
  /\ pc \in ModePcs => dispi = m.found
  /\ pc \in {"bar", "map", "canary", "adopt_lfb"} => dispi = Desk
  /\ pc = "task" => OnBoot \/ OnLfb
  /\ pc = "bringup" => OnLfb
  /\ pc \in CmdPcs /\ cmd \in BringUpCmds =>
       /\ OnLfb /\ late[0] = 0
       /\ cmd \in {"create", "attach"} => req[0] \in Early
       /\ cmd \in {"transfer", "flush"} => host.scanout = "resource"
  /\ pc \in {"cursor", "hide", "park"} \/ (pc \in CmdPcs /\ cmd \notin BringUpCmds) =>
       console = "backing" /\ host.scanout = "resource"
  /\ pc = "exit" => \/ console = "backing" /\ host.scanout = "resource"
                    \/ why \in {"scanout", "transfer", "flush"}
                    \/ (OnBoot \/ OnLfb) /\ req[0] \in Early

ScreenInv == HostInv /\ SurfaceInv

LEMMA ScreenInit == Init => ScreenInv
<1> SUFFICES ASSUME Init PROVE ScreenInv
  BY Zenon
<1>1. /\ pc = "scan" /\ why = "none" /\ dispi = m.found /\ console = "boot" /\ MODE = "none"
      /\ req = [i \in {0, 1} |-> "none"]
      /\ host = [made |-> {}, backed |-> {}, drawn |-> "none", scanout |-> "dispi"]
  BY Zenon DEF Init
<1>2. HostInv
  BY <1>1, Zenon DEF HostInv, Waiting
<1>3. SurfaceInv
  BY <1>1, Zenon DEF SurfaceInv, CmdPcs
<1> QED
  BY <1>2, <1>3, Zenon DEF ScreenInv

\* fallback_restore puts the firmware's mode back, if there was one.
LEMMA FallbackHome ==
  ASSUME m \in Machines, console = "boot", MODE = "none", NEW step, step # "none", NEW now,
         Fallback(step, now), m' = m
  PROVE  OnBoot' /\ pc' = "task"
<1>1. m.found = [mode |-> m.found.mode, on |-> m.found.on] /\ m.found.on \in BOOLEAN
  BY FirmwareAssumption, Zenon
<1>2. m.found.mode = "zero" \/ dispi' = m.found
  <2>1. CASE m.found.mode = "zero"
    BY <2>1, Zenon
  <2>2. CASE m.found.mode # "zero" /\ m.found.on = TRUE
    BY <1>1, <2>2, Zenon DEF Fallback, Restored
  <2>3. CASE m.found.mode # "zero" /\ m.found.on = FALSE
    BY <2>3, Zenon DEF Fallback, Restored
  <2> QED
    BY <1>1, <2>1, <2>2, <2>3, Zenon
<1> QED
  BY <1>2, Zenon DEF Fallback, OnBoot

\* The boot path ends with the console where the display is, or in one of the named holes.
LEMMA BootScreen ==
  ASSUME QueueInv, ScreenInv, Boot
  PROVE  ScreenInv'
<1>1. UNCHANGED <<m, q, dev, req, cmd, host, late>> /\ pc \in BootPcs
  BY Zenon DEF Boot, Scan, ProbeCaps, Negotiate, ReadConfig, Dispi, Modeset, Rehearse, Reset,
     FindLfb, MapLfb, Canary, AdoptLfb, BootPcs, ModePcs, engine, counts
<1>2. console = "boot" /\ MODE = "none" /\ why = "none" /\ m \in Machines
  BY <1>1, Zenon DEF ScreenInv, SurfaceInv, QueueInv, GpuType
<1>3. ASSUME pc' \in BootPcs \cup {"task"}
      PROVE  HostInv'
  <2>1. pc' # "poll"
    BY <1>3, Zenon DEF BootPcs, ModePcs
  <2> QED
    BY <1>1, <2>1, Zenon DEF ScreenInv, HostInv, Waiting
<1>4. ASSUME pc' = "task", OnBoot' \/ OnLfb'
      PROVE  ScreenInv'
  BY <1>3, <1>4, Zenon DEF ScreenInv, SurfaceInv, BootPcs, ModePcs, CmdPcs
<1>5. ASSUME pc \in ModePcs, pc' \in ModePcs \cup {"task"}, UNCHANGED <<dispi, console, MODE, why>>
      PROVE  ScreenInv'
  <2>1. dispi' = m.found
    BY <1>5, Zenon DEF ScreenInv, SurfaceInv
  <2>2. CASE pc' = "task"
    BY <1>1, <1>2, <1>4, <1>5, <2>1, <2>2, Zenon DEF OnBoot
  <2>3. CASE pc' \in ModePcs
    BY <1>1, <1>2, <1>3, <1>5, <2>1, <2>3, Zenon DEF ScreenInv, SurfaceInv, BootPcs, ModePcs, CmdPcs
  <2> QED
    BY <1>5, <2>2, <2>3, Zenon
<1>6. CASE Scan \/ ProbeCaps \/ Negotiate \/ ReadConfig
  BY <1>5, <1>6, Zenon DEF Scan, ProbeCaps, Negotiate, ReadConfig, Goto, ModePcs
<1>7. CASE Dispi
  BY <1>5, <1>7, Zenon DEF Dispi, Goto, ModePcs
<1>8. ASSUME pc' \in {"rehearse", "reset"} \/ (pc' \in {"bar", "map", "canary", "adopt_lfb"} /\ dispi' = Desk),
             UNCHANGED <<console, MODE, why>>
      PROVE  ScreenInv'
  BY <1>2, <1>3, <1>8, Zenon DEF ScreenInv, SurfaceInv, BootPcs, ModePcs, CmdPcs
<1>9. ASSUME NEW step, step # "none", NEW now, Fallback(step, now)
      PROVE  ScreenInv'
  BY <1>1, <1>2, <1>4, <1>9, FallbackHome, Zenon
<1>10. CASE Modeset
  <2>1. PICK rb \in Programmed(Want, Want \in m.accepts) :
               IF unusable_mode(rb, Want)
               THEN Fallback("modeset", rb)
               ELSE dispi' = rb /\ pc' = "rehearse" /\ UNCHANGED <<console, MODE, why>>
    BY <1>10, Zenon DEF Modeset
  <2> QED
    BY <1>8, <1>9, <2>1, Zenon
<1>11. CASE Rehearse
  BY <1>8, <1>11, Zenon DEF Rehearse
<1>12. CASE Reset
  <2>1. PICK rb \in Programmed(Want, ~m.flaky) :
               /\ dispi' = rb
               /\ IF unusable_mode(rb, Want) THEN pc' = "task" /\ why' = "reset"
                                             ELSE pc' = "bar" /\ why' = why
    BY <1>12, Zenon DEF Reset
  <2>2. CASE unusable_mode(rb, Want)
    BY <1>2, <1>4, <1>12, <2>1, <2>2, Zenon DEF Reset, OnBoot
  <2>3. CASE ~unusable_mode(rb, Want)
    <3>1. rb = Desk
      BY <2>1, <2>3, SMTT(40) DEF unusable_mode, mode_matches, Programmed, Desk
    <3> QED
      BY <1>8, <1>12, <2>1, <2>3, <3>1, Zenon DEF Reset
  <2> QED
    BY <2>2, <2>3, Zenon
<1>13. CASE FindLfb \/ MapLfb \/ Canary
  <2>1. dispi = Desk
    BY <1>13, Zenon DEF FindLfb, MapLfb, Canary, ScreenInv, SurfaceInv
  <2>2. \/ pc' \in {"map", "canary", "adopt_lfb"} /\ UNCHANGED <<dispi, console, MODE, why>>
        \/ \E step : step # "none" /\ Fallback(step, dispi)
    BY <1>13, Zenon DEF FindLfb, MapLfb, Canary, Goto
  <2> QED
    BY <1>8, <1>9, <2>1, <2>2, Zenon
<1>14. CASE AdoptLfb
  <2>1. dispi = Desk
    BY <1>14, Zenon DEF AdoptLfb, ScreenInv, SurfaceInv
  <2> QED
    BY <1>4, <1>14, <2>1, Zenon DEF AdoptLfb, OnLfb
<1> QED
  BY <1>6, <1>7, <1>10, <1>11, <1>12, <1>13, <1>14, <1>5, Zenon DEF Boot

\* The steps of the task before a command's answer is awaited.
LEMMA TaskScreen ==
  ASSUME QueueInv, ScreenInv, Task \/ BringUp \/ Build \/ Cursor \/ HideSprite \/ Present
  PROVE  ScreenInv'
<1> USE DEF BootPcs, ModePcs, CmdPcs, BringUpCmds
<1>1. CASE Task
  <2>1. /\ pc = "task" /\ UNCHANGED <<m, q, dev, req, cmd, host, late, dispi, console, MODE, why>>
        /\ pc' = IF MODE = "none" THEN "exit" ELSE "bringup"
    BY <1>1, Zenon DEF Task, Goto, engine, counts
  <2>2. HostInv'
    BY <2>1, Zenon DEF ScreenInv, HostInv, Waiting
  <2>3. SurfaceInv'
    <3>1. req[0] \in Early /\ (OnBoot \/ OnLfb)
      BY <2>1, Zenon DEF ScreenInv, HostInv, SurfaceInv, Early
    <3>2. (OnBoot' <=> OnBoot) /\ (OnLfb' <=> OnLfb)
      BY <2>1, Zenon DEF OnBoot, OnLfb, Desk
    <3>3. MODE # "none" => OnLfb
      BY <3>1, Zenon DEF OnBoot
    <3> QED
      BY <2>1, <3>1, <3>2, <3>3, Zenon DEF SurfaceInv
  <2> QED
    BY <2>2, <2>3, Zenon DEF ScreenInv
<1>2. CASE BringUp
  <2>1. /\ pc = "bringup" /\ UNCHANGED <<m, dev, req, host, late, dispi, MODE, console>>
        /\ \/ pc' = "exit"
           \/ pc' = "build" /\ cmd' = "create"
    BY <1>2, Zenon DEF BringUp, Exit, Run, counts
  <2>2. OnLfb /\ OnLfb' /\ req[0] = "none" /\ late[0] = 0
    BY <2>1, Zenon DEF ScreenInv, HostInv, SurfaceInv, OnLfb, QueueInv, UpInv, Queues
  <2>3. HostInv'
    BY <2>1, <2>2, Zenon DEF ScreenInv, HostInv, Waiting
  <2>4. SurfaceInv'
    BY <2>1, <2>2, Zenon DEF SurfaceInv, Early
  <2> QED
    BY <2>3, <2>4, Zenon DEF ScreenInv
<1>3. CASE Build
  <2>1. /\ pc = "build" /\ pc' = "submit" /\ UNCHANGED <<m, dev, cmd, host, late, dispi, MODE, console>>
        /\ req' = [req EXCEPT ![Queue(cmd)] = cmd]
    BY <1>3, Zenon DEF Build, display, counts
  <2>2. cmd \in Cmds /\ DOMAIN req = {0, 1}
    BY <2>1, Zenon DEF QueueInv, GpuType, Queues
  <2>3. /\ Queue(cmd) = 1 => req'[1] = cmd /\ req'[0] = req[0] /\ cmd \in {"c_update", "c_move", "i_move"}
        /\ Queue(cmd) = 0 => req'[0] = cmd /\ req'[1] = req[1]
        /\ Queue(cmd) \in {0, 1}
    BY <2>1, <2>2 DEF Queue
  <2>4. HostInv'
    <3>1. DOMAIN host = {"made", "backed", "drawn", "scanout"}
      BY Zenon DEF ScreenInv, HostInv
    <3>2. req'[1] # "scanout"
      BY <2>3, Zenon DEF ScreenInv, HostInv
    <3>3. req'[0] \in Early => host.scanout = "dispi"
      <4>1. cmd \in {"create", "attach"} => host.scanout = "dispi"
        BY <2>1, Zenon DEF ScreenInv, HostInv, SurfaceInv
      <4>2. req[0] \in Early => host.scanout = "dispi"
        BY Zenon DEF ScreenInv, HostInv
      <4> QED
        BY <2>2, <2>3, <4>1, <4>2, Zenon DEF Early, Cmds, CursorCmds, PresentCmds
    <3> QED
      BY <2>1, <3>1, <3>2, <3>3, Zenon DEF HostInv, Waiting
  <2>5. SurfaceInv'
    <3>1. OnLfb' <=> OnLfb
      BY <2>1, Zenon DEF OnLfb
    <3>2. cmd \in {"create", "attach"} => req'[0] \in Early
      BY <2>3, Zenon DEF Early, Queue
    <3> QED
      BY <2>1, <3>1, <3>2, Zenon DEF ScreenInv, SurfaceInv
  <2> QED
    BY <2>4, <2>5, Zenon DEF ScreenInv
<1>4. CASE Cursor \/ HideSprite \/ Present
  <2>1. /\ pc \in {"cursor", "hide", "park"} /\ UNCHANGED <<m, dev, req, host, late, dispi, MODE, console>>
        /\ \/ pc' = "park"
           \/ pc' = "build" /\ cmd' \in {"c_create", "c_move", "f_transfer"}
    BY <1>4, Zenon DEF Cursor, HideSprite, Present, Run, Park, counts
  <2>2. console = "backing" /\ host.scanout = "resource"
    BY <2>1, Zenon DEF ScreenInv, SurfaceInv
  <2>3. HostInv'
    BY <2>1, Zenon DEF ScreenInv, HostInv, Waiting
  <2>4. SurfaceInv'
    BY <2>1, <2>2, Zenon DEF SurfaceInv
  <2> QED
    BY <2>3, <2>4, Zenon DEF ScreenInv
<1> QED
  BY <1>1, <1>2, <1>3, <1>4, Zenon

LEMMA PublishScreen ==
  ASSUME QueueInv, ScreenInv, NEW i \in Queues, Queue(cmd) = i, Publish(i)
  PROVE  ScreenInv'
<1>1. /\ pc = "submit" /\ pc' = "poll"
      /\ UNCHANGED <<m, dev, req, cmd, host, late, dispi, MODE, console, why>>
      /\ q' = [q EXCEPT ![i].avail = Bump(@)]
  BY Zenon DEF Publish, display, counts
<1>2. q'[0].used = q[0].used
  BY <1>1, Zenon DEF QueueInv, GpuType, Queues, QRec
<1>3. late[0] = 0 => dev[0].done = q[0].used
  BY <1>1, Zenon DEF QueueInv, LagInv, Waiting, Busy, Queues
<1>4. HostInv'
  BY <1>1, <1>2, <1>3, Zenon DEF ScreenInv, HostInv, Waiting, BootPcs, ModePcs
<1>5. (OnBoot' <=> OnBoot) /\ (OnLfb' <=> OnLfb)
  BY <1>1, Zenon DEF OnBoot, OnLfb
<1>6. SurfaceInv'
  BY <1>1, <1>5, Zenon DEF ScreenInv, SurfaceInv, BootPcs, ModePcs, CmdPcs
<1> QED
  BY <1>4, <1>6, Zenon DEF ScreenInv

\* What a command's outcome does to the console: a failed bring-up leaves it, the last command
\* of the bring-up moves it.
LEMMA OutcomeScreen ==
  ASSUME QueueInv, ScreenInv, pc = "poll", UNCHANGED <<m, dispi, MODE, dev, req, host>>,
         \/ Fail(cmd)
         \/ Succeed(cmd) /\ late' = late /\ (cmd = "scanout" => host.scanout = "resource")
  PROVE  ScreenInv'
<1> USE DEF BringUpCmds, CursorCmds, PresentCmds, CmdPcs
<1>1. cmd \in Cmds
  BY Zenon DEF QueueInv, GpuType
<1>2. pc' \in {"build", "cursor", "hide", "park", "exit"}
  BY <1>1, Zenon DEF Cmds, Fail, Succeed, Run, Exit, Park
<1>3. HostInv'
  BY <1>2, Zenon DEF ScreenInv, HostInv, Waiting, BootPcs, ModePcs
<1>4. CASE cmd \in BringUpCmds
  <2>1. /\ OnLfb /\ late[0] = 0
        /\ cmd \in {"create", "attach"} => req[0] \in Early
        /\ cmd \in {"transfer", "flush"} => host.scanout = "resource"
    BY <1>4, Zenon DEF ScreenInv, SurfaceInv
  <2>2. \/ pc' = "exit" /\ console' = console
           /\ (cmd \in {"create", "attach"} \/ why' \in {"scanout", "transfer", "flush"})
        \/ /\ pc' = "build" /\ console' = console /\ late' = late
           /\ \/ cmd = "create" /\ cmd' = "attach"
              \/ cmd = "attach" /\ cmd' = "scanout"
              \/ host.scanout = "resource" /\ cmd' \in {"transfer", "flush"}
        \/ pc' = "cursor" /\ console' = "backing" /\ cmd = "flush"
    <3>1. CASE Fail(cmd)
      BY <1>4, <3>1, ZenonT(40) DEF Fail, Exit
    <3>2. CASE Succeed(cmd) /\ ~Fail(cmd)
      BY <1>4, <2>1, <3>2, Zenon DEF Succeed, Exit, Run
    <3> QED
      BY <3>1, <3>2, Zenon
  <2>3. console' = console => OnLfb'
    BY <2>1, Zenon DEF OnLfb
  <2>4. SurfaceInv'
    BY <2>1, <2>2, <2>3, Zenon DEF SurfaceInv, BootPcs, ModePcs
  <2> QED
    BY <1>3, <2>4, Zenon DEF ScreenInv
<1>5. CASE cmd \in CursorCmds \cup PresentCmds
  <2>1. console = "backing" /\ host.scanout = "resource"
    BY <1>5, Zenon DEF ScreenInv, SurfaceInv
  <2>2. console' = console /\ (pc' = "build" => cmd' \notin BringUpCmds) /\ pc' # "cursor"
    <3>1. CASE Fail(cmd)
      BY <1>5, <3>1, Zenon DEF Fail, Park
    <3>2. CASE Succeed(cmd)
      BY <1>5, <3>2, Zenon DEF Succeed, Park, Run
    <3> QED
      BY <3>1, <3>2, Zenon
  <2>3. SurfaceInv'
    BY <1>2, <2>1, <2>2, Zenon DEF SurfaceInv, BootPcs, ModePcs
  <2> QED
    BY <1>3, <2>3, Zenon DEF ScreenInv
<1> QED
  BY <1>1, <1>4, <1>5, Zenon DEF Cmds

LEMMA PollScreen ==
  ASSUME QueueInv, ScreenInv, Poll \/ TimeOut
  PROVE  ScreenInv'
<1>1. pc = "poll" /\ UNCHANGED <<m, dispi, MODE, dev, req, host>>
  BY Zenon DEF Poll, TimeOut
<1>2. CASE TimeOut
  BY <1>1, <1>2, OutcomeScreen, Zenon DEF TimeOut
<1>3. CASE Poll
  <2> DEFINE i == Queue(cmd)
             elem == dev[i].ring[q[i].used % q[i].size]
  <2>1. /\ dev[i].done # q[i].used /\ late' = late
        /\ IF Accepted(i, elem) THEN Succeed(cmd) ELSE Fail(cmd)
    BY <1>3, Zenon DEF Poll
  <2>a. i = Queue(cmd)
    OBVIOUS
  <2> HIDE DEF i, elem
  <2>2. cmd = "scanout" /\ Accepted(i, elem) => host.scanout = "resource"
    <3>1. cmd = "scanout" => i = 0 /\ Waiting(0) /\ late[0] = 0
      BY <1>1, <2>a, Zenon DEF Queue, Waiting, ScreenInv, SurfaceInv, CmdPcs, BringUpCmds
    <3>2. i = 0 /\ Accepted(i, elem) => dev[0].resp = "ok"
      <4>1. SUFFICES ASSUME i = 0, Accepted(i, elem)
                     PROVE  dev[0].resp = "ok"
        BY Zenon
      <4>2. i # 1
        BY <4>1
      <4> QED
        BY <4>1, <4>2, Zenon DEF Accepted
    <3> QED
      BY <2>1, <3>1, <3>2, Zenon DEF ScreenInv, HostInv
  <2>3. \/ Fail(cmd)
        \/ Succeed(cmd) /\ late' = late /\ (cmd = "scanout" => host.scanout = "resource")
    BY <2>1, <2>2, Zenon
  <2> QED
    BY <1>1, <2>3, OutcomeScreen, Zenon
<1> QED
  BY <1>2, <1>3, Zenon

\* The device switches the scanout only by carrying out SET_SCANOUT, and never switches it back.
LEMMA DeviceScreen ==
  ASSUME QueueInv, ScreenInv, NEW i \in Queues, NEW answer, NEW elem, DeviceRuns(i, answer, elem)
  PROVE  ScreenInv'
<1>1. UNCHANGED <<m, pc, dispi, console, MODE, why, q, req, cmd, late>> /\ q[i].up
  BY Zenon DEF DeviceRuns, display, counts
<1>2. host' = IF answer = "ok" THEN Carried(req[i]) ELSE host
  BY Zenon DEF DeviceRuns
<1>3. DOMAIN host = {"made", "backed", "drawn", "scanout"}
  BY Zenon DEF ScreenInv, HostInv
<1>4. /\ DOMAIN host' = {"made", "backed", "drawn", "scanout"}
      /\ host'.scanout = host.scanout \/ (req[i] = "scanout" /\ host'.scanout = "resource")
      /\ req[i] = "scanout" /\ answer = "ok" => host'.scanout = "resource"
  BY <1>2, <1>3, Zenon DEF Carried
<1>5. host.scanout = "resource" => host'.scanout = "resource"
  BY <1>4, Zenon
<1>6. req[0] \in Early => host'.scanout = "dispi"
  <2>1. req[0] \in Early => host.scanout = "dispi" /\ req[i] # "scanout"
    BY Zenon DEF ScreenInv, HostInv, Early, Queues
  <2> QED
    BY <1>4, <2>1, Zenon
<1>7. ASSUME Waiting(0), late[0] = 0, cmd = "scanout", dev'[0].done # q[0].used,
             dev'[0].resp = "ok"
      PROVE  host'.scanout = "resource"
  <2>1. DOMAIN dev = Queues
    BY Zenon DEF QueueInv, GpuType
  <2>2. CASE i = 0
    <3>1. req[0] = "scanout"
      BY <1>7, <2>2, DeviceKeeps, Zenon DEF Mine
    <3>2. dev'[0].resp = answer
      BY <2>1, <2>2, SMTT(40) DEF DeviceRuns, Queues
    <3> QED
      BY <1>4, <1>7, <2>2, <3>1, <3>2, Zenon
  <2>3. CASE i = 1
    <3>1. dev'[0] = dev[0]
      BY <2>1, <2>3, SMTT(40) DEF DeviceRuns, Queues
    <3> QED
      BY <1>5, <1>7, <3>1, Zenon DEF ScreenInv, HostInv
  <2> QED
    BY <2>2, <2>3, Zenon DEF Queues
<1>8. HostInv'
  <2>1. Waiting(0)' <=> Waiting(0)
    BY <1>1, Zenon DEF Waiting
  <2> QED
    BY <1>1, <1>4, <1>6, <1>7, <2>1, Zenon DEF ScreenInv, HostInv
<1>9. (OnBoot' <=> OnBoot) /\ (OnLfb' <=> OnLfb)
  BY <1>1, Zenon DEF OnBoot, OnLfb
<1>10. SurfaceInv'
  BY <1>1, <1>5, <1>9, Zenon DEF ScreenInv, SurfaceInv
<1> QED
  BY <1>8, <1>10, Zenon DEF ScreenInv

\* IRQ 12 touches neither the display nor the control queue.
LEMMA IrqScreen ==
  ASSUME QueueInv, ScreenInv, Irq12 \/ IrqPoll
  PROVE  ScreenInv'
<1>1. /\ UNCHANGED <<m, pc, dispi, console, MODE, why, dev, cmd, host, late>>
      /\ \/ UNCHANGED req
         \/ req' = [req EXCEPT ![1] = "i_move"]
      /\ \/ UNCHANGED q
         \/ q' = [q EXCEPT ![1].avail = Bump(@)]
         \/ q' = [q EXCEPT ![1].used = Bump(@)]
  BY Zenon DEF Irq12, IrqPoll, display, counts
<1>2. DOMAIN req = {0, 1} /\ q \in [{0, 1} -> QRec]
  BY Zenon DEF QueueInv, GpuType, Queues
<1>3. req'[0] = req[0] /\ (req'[1] = req[1] \/ req'[1] = "i_move")
  BY <1>1, <1>2
<1>4. q'[0] = q[0]
  BY <1>1, <1>2
<1>5. HostInv'
  BY <1>1, <1>3, <1>4, Zenon DEF ScreenInv, HostInv, Waiting
<1>6. (OnBoot' <=> OnBoot) /\ (OnLfb' <=> OnLfb)
  BY <1>1, Zenon DEF OnBoot, OnLfb
<1>7. SurfaceInv'
  BY <1>1, <1>3, <1>6, Zenon DEF ScreenInv, SurfaceInv
<1> QED
  BY <1>5, <1>7, Zenon DEF ScreenInv

LEMMA ScreenStep == QueueInv /\ ScreenInv /\ [Next]_vars => ScreenInv'
<1> SUFFICES ASSUME QueueInv, ScreenInv, [Next]_vars PROVE ScreenInv'
  BY Zenon
<1>1. CASE Boot
  BY <1>1, BootScreen, Zenon
<1>2. CASE Task \/ BringUp \/ Build \/ Cursor \/ HideSprite \/ Present
  BY <1>2, TaskScreen, Zenon
<1>3. CASE submit \/ cursor_submit
  BY <1>3, PublishScreen, Zenon DEF submit, cursor_submit, Queues
<1>4. CASE Poll \/ TimeOut
  BY <1>4, PollScreen, Zenon
<1>5. CASE Device
  BY <1>5, DeviceScreen, Zenon DEF Device, Queues
<1>6. CASE UNCHANGED vars
  <2>1. HostInv'
    BY <1>6, Zenon DEF vars, ScreenInv, HostInv, Waiting
  <2>2. SurfaceInv'
    BY <1>6, Zenon DEF vars, ScreenInv, SurfaceInv, OnBoot, OnLfb
  <2> QED
    BY <2>1, <2>2, Zenon DEF ScreenInv
<1>7. CASE Irq12 \/ IrqPoll
  BY <1>7, IrqScreen, Zenon
<1> QED
  BY <1>1, <1>2, <1>3, <1>4, <1>5, <1>6, <1>7, Zenon DEF Next, Kernel, Presents, GpuTask

LEMMA ScreenHolds == ScreenInv /\ m \in Machines => ConsoleOnScreen
<1> SUFFICES ASSUME ScreenInv, m \in Machines, pc \in {"task", "cursor", "park", "exit"}
             PROVE  \/ Shown = console
                    \/ why \in {"reset", "scanout", "transfer", "flush"}
                    \/ m.found.mode = "zero" /\ why # "none"
  BY Zenon DEF ConsoleOnScreen
<1>1. m.found # Desk
  BY FirmwareAssumption DEF Desk
<1>2. pc = "task" => host.scanout = "dispi"
  BY Zenon DEF ScreenInv, HostInv, Early
<1>3. \/ console = "backing" /\ host.scanout = "resource"
      \/ why \in {"scanout", "transfer", "flush"}
      \/ (OnBoot \/ OnLfb) /\ host.scanout = "dispi"
  BY <1>2, Zenon DEF ScreenInv, SurfaceInv, HostInv
<1>4. CASE console = "backing" /\ host.scanout = "resource"
  BY <1>4, Zenon DEF Shown
<1>5. CASE OnLfb /\ host.scanout = "dispi"
  BY <1>5, Zenon DEF Shown, OnLfb, Desk
<1>6. CASE OnBoot /\ host.scanout = "dispi"
  BY <1>1, <1>6, Zenon DEF Shown, OnBoot, Desk
<1> QED
  BY <1>3, <1>4, <1>5, <1>6, Zenon

(***************************************************************************)
(* On every machine whose firmware mode is not the wanted one, whatever    *)
(* the device answers and whichever commands time out, the console draws   *)
(* on the surface the display reads once gpu::init, present_bringup or     *)
(* flush_loop has come to rest, but for the three holes ConsoleOnScreen    *)
(* names: no other step of fallback_restore or of the bring-up loses it.   *)
(***************************************************************************)
THEOREM ConsoleStaysOnScreen == Spec => []ConsoleOnScreen
<1>1. Init => QueueInv /\ ScreenInv
  BY QueueInit, ScreenInit, Zenon
<1>2. QueueInv /\ ScreenInv /\ [Next]_vars => (QueueInv /\ ScreenInv)'
  BY QueueStep, ScreenStep, Zenon
<1>3. QueueInv /\ ScreenInv => ConsoleOnScreen
  BY ScreenHolds, Zenon DEF QueueInv, GpuType
<1> QED
  BY <1>1, <1>2, <1>3, PTL DEF Spec
=============================================================================
