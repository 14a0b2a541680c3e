------------------------------ MODULE Session ------------------------------
(***************************************************************************)
(* signin.rs, desktop.rs and power.rs on top of module Input: the sign-in  *)
(* screen the user points at.  IRQ 12 leaves a press in a slot of three    *)
(* atomics (queue_click); the sign-in task takes it from there, finds out  *)
(* which widget it hit from the geometry and the menu's state at that      *)
(* time, and repaints all of the screen or the power widget only.          *)
(*                                                                         *)
(* The screen is followed at the points Cells: which widget is on top.     *)
(* Colours, glyphs and text are left out.                                  *)
(***************************************************************************)
EXTENDS Input

CONSTANTS Sizes    \* screen sizes the kernel may run at, <<width, height>>

\* The screen runs at the mode it is handed, 1080p in practice and 1024x768 in the
\* compositor's test (signin.rs); of a mode the layout needs no more than this.
ASSUME SizesAssumption ==
  \A z \in Sizes : z \in Nat \X Nat /\ z[1] >= 480 /\ z[2] >= 480 /\ z[2] <= 2 * z[1]

VARIABLES
  size,
  CLICK_X, CLICK_Y, CLICK_PENDING,
  task,              \* the sign-in task: [pc, x, y]
  MENU_OPEN, SEL, PHASE, SHOWN, POWER_REQUESTED,
  screen,            \* what is on top at each cell
  machine,           \* "on", "off" or "restarting"
  bad,               \* checks of signin_test that failed
  presses, newest,   \* ghost: presses queued so far, and where the last one was
  taken, acted       \* ghost: presses acted on so far, and where the last one was

slot == <<CLICK_X, CLICK_Y, CLICK_PENDING>>
ui == <<MENU_OPEN, SEL, PHASE, SHOWN, POWER_REQUESTED, screen, machine, bad>>
ghosts == <<presses, newest, taken, acted>>
vars == <<inputVars, size, slot, task, ui, ghosts>>
-----------------------------------------------------------------------------
(* signin.rs: geometry and hit tests *)

POWER_ITEMS == <<"Sleep", "Restart", "Shut down">>

Sub(a, b) == IF a > b THEN a - b ELSE 0
AtLeast(a, b) == IF a > b THEN a ELSE b
AtMost(a, b) == IF a < b THEN a ELSE b

ui_scale(h) == AtMost(AtLeast(((h * 3) \div 2) \div 655, 1), 2)

power_geom(w, h) ==
  LET s == ui_scale(h)
      menu_h == Len(POWER_ITEMS) * 36 * s + 20 * s
  IN  [btn_x |-> Sub(w, 78 * s), btn_y |-> Sub(h, 78 * s), btn |-> 48 * s,
       menu_x |-> Sub(w, 30 * s + 196 * s), menu_y |-> Sub(h, 30 * s + menu_h),
       menu_w |-> 196 * s, menu_h |-> menu_h, item_h |-> 36 * s, pad |-> 10 * s]

signin_geom(w, h) ==
  LET fs == AtLeast((h * 3) \div 100, 12)
      name == (h * 30) \div 100 + (h * 11) \div 100 + (fs * 5) \div 4
      btn_h == (h * 6) \div 100
      btn_w == (btn_h * 7) \div 2
  IN  [avatar_cy |-> (h * 30) \div 100, avatar_r |-> (h * 11) \div 100,
       btn_x |-> w \div 2 - btn_w \div 2, btn_y |-> name + (fs * 3) \div 2,
       btn_w |-> btn_w, btn_h |-> btn_h]

In(x, y, x0, y0, w, h) == x >= x0 /\ x < x0 + w /\ y >= y0 /\ y < y0 + h

hit_power(g, x, y) == In(x, y, g.btn_x, g.btn_y, g.btn, g.btn)
InMenu(g, x, y) == In(x, y, g.menu_x, g.menu_y, g.menu_w, g.menu_h)

\* The row of the open menu hit, counted from 0; nothing in the padding.
hit_power_item(g, open, x, y) ==
  IF open /\ InMenu(g, x, y) /\ y >= g.menu_y + g.pad
     /\ y - (g.menu_y + g.pad) < Len(POWER_ITEMS) * g.item_h
  THEN {(y - (g.menu_y + g.pad)) \div g.item_h}
  ELSE {}

OnSignIn(g, x, y) == In(x, y, g.btn_x, g.btn_y, g.btn_w, g.btn_h)

classify_click(w, h, open, x, y) ==
  LET item == hit_power_item(power_geom(w, h), open, x, y)
  IN  IF item # {} THEN <<"item", CHOOSE i \in item : TRUE>>
      ELSE IF hit_power(power_geom(w, h), x, y) THEN <<"power">>
      ELSE IF OnSignIn(signin_geom(w, h), x, y) THEN <<"signin">>
      ELSE <<"outside">>
-----------------------------------------------------------------------------
(* signin.rs and desktop.rs: drawing, back to front *)

\* The power button and, over it, the open menu; the button is drawn as a disc.
PowerWidget(g, open, sel, under, c) ==
  IF open /\ InMenu(g, c[1], c[2])
  THEN IF hit_power_item(g, TRUE, c[1], c[2]) = {sel} THEN "selected row" ELSE "menu"
  ELSE LET dx == c[1] - (g.btn_x + g.btn \div 2)
           dy == c[2] - (g.btn_y + g.btn \div 2)
       IN  IF dx * dx + dy * dy <= (g.btn \div 2) * (g.btn \div 2) THEN "button" ELSE under

\* draw: backdrop, sign-in button, power button and menu.
draw(w, h, cells, open, sel) ==
  [c \in cells |->
     PowerWidget(power_geom(w, h), open, sel,
                 IF OnSignIn(signin_geom(w, h), c[1], c[2]) THEN "signin" ELSE "backdrop", c)]

\* A repaint of the button's box alone once the menu has been closed.
DrawPowerClosed(w, h, old, open, sel) ==
  [c \in DOMAIN old |->
     IF hit_power(power_geom(w, h), c[1], c[2]) \/ (open /\ InMenu(power_geom(w, h), c[1], c[2]))
     THEN PowerWidget(power_geom(w, h), open, sel, "backdrop", c)
     ELSE old[c]]

\* draw_power repaints the union of the menu's and the button's boxes.
draw_power(w, h, old, open, sel) ==
  [c \in DOMAIN old |->
     IF InMenu(power_geom(w, h), c[1], c[2]) \/ hit_power(power_geom(w, h), c[1], c[2])
     THEN PowerWidget(power_geom(w, h), open, sel, "backdrop", c)
     ELSE old[c]]

desktop_draw(cells) == [c \in cells |-> "desktop"]

\* Where the user clicks, and where the screen is looked at.
Points(w, h) ==
  LET g == power_geom(w, h)
      s == signin_geom(w, h)
  IN  {<<g.btn_x + g.btn \div 2, g.btn_y + g.btn \div 2>>,
       <<g.menu_x + g.menu_w \div 4, g.menu_y + g.pad + g.item_h + g.item_h \div 2>>,
       <<g.menu_x + g.menu_w \div 4, g.menu_y + g.pad + g.item_h \div 2>>,
       <<s.btn_x + s.btn_w \div 2, s.btn_y + s.btn_h \div 2>>}
Cells(w, h) ==
  LET g == power_geom(w, h) IN
  Points(w, h) \cup {<<4, 4>>, <<g.menu_x + 1, g.menu_y + 1>>, <<g.btn_x, g.btn_y>>}
-----------------------------------------------------------------------------
(* signin_test, desktop and power *)

check(name, ok) == IF ok THEN {} ELSE {name}

\* The self-test's checks of geometry and hit-testing that do not hold.
FailedChecks(w, h) ==
  LET s == signin_geom(w, h)
      g == power_geom(w, h)
      bx == g.btn_x + g.btn \div 2   by == g.btn_y + g.btn \div 2
      rx == g.menu_x + g.menu_w \div 2
      Row(i) == g.menu_y + g.pad + i * g.item_h + g.item_h \div 2
      Click(open, x, y) == classify_click(w, h, open, x, y)
  IN  UNION {
        check("avatar", s.avatar_cy >= s.avatar_r /\ s.avatar_cy + s.avatar_r < h),
        check("signin on", s.btn_x >= 0 /\ s.btn_x + s.btn_w < w /\ s.btn_y + s.btn_h < h),
        check("menu on", g.menu_y + g.menu_h < h /\ g.menu_x + g.menu_w < w),
        check("clear", g.btn_x > s.btn_x + s.btn_w \/ g.btn_y > s.btn_y + s.btn_h),
        check("power", Click(FALSE, bx, by) = <<"power">>),
        check("origin", ~hit_power(g, 4, 4)),
        check("closed", Click(FALSE, rx, g.menu_y + g.pad + 2) = <<"outside">>),
        check("rows", \A i \in 0..Len(POWER_ITEMS) - 1 : Click(TRUE, rx, Row(i)) = <<"item", i>>),
        check("top", Click(TRUE, rx, g.menu_y + 1) = <<"outside">>),
        check("bottom", Click(TRUE, rx, g.menu_y + g.menu_h - 2) = <<"outside">>),
        check("signin", Click(FALSE, s.btn_x + s.btn_w \div 2, s.btn_y + s.btn_h \div 2)
                          = <<"signin">>)}

\* signin_test: it opens and closes the menu and leaves the whole screen drawn.
signin_test ==
  /\ task.pc = "test"
  /\ bad' = FailedChecks(size[1], size[2])
  /\ MENU_OPEN' = FALSE
  /\ screen' = draw(size[1], size[2], DOMAIN screen, FALSE, SEL)
  /\ task' = [task EXCEPT !.pc = "draw"]
  /\ UNCHANGED <<inputVars, size, slot, SEL, PHASE, SHOWN, POWER_REQUESTED, machine, ghosts>>

\* signin_task, from its start to the loop.
signin_task ==
  /\ task.pc = "draw"
  /\ screen' = draw(size[1], size[2], DOMAIN screen, MENU_OPEN, SEL)
  /\ task' = [task EXCEPT !.pc = "sleep"]
  /\ UNCHANGED <<inputVars, size, slot, MENU_OPEN, SEL, PHASE, SHOWN, POWER_REQUESTED,
                 machine, bad, ghosts>>
-----------------------------------------------------------------------------
(* The click slot: queue_click in the interrupt, take_pending in the task *)

StoreX ==
  /\ irq12.pc = "x"
  /\ CLICK_X' = irq12.at[1]
  /\ irq12' = [irq12 EXCEPT !.pc = "y"]
  /\ UNCHANGED <<CLICK_Y, CLICK_PENDING, presses, newest>>

StoreY ==
  /\ irq12.pc = "y"
  /\ CLICK_Y' = irq12.at[2]
  /\ irq12' = [irq12 EXCEPT !.pc = "flag"]
  /\ UNCHANGED <<CLICK_X, CLICK_PENDING, presses, newest>>

StoreFlag ==
  /\ irq12.pc = "flag"
  /\ CLICK_PENDING' = TRUE
  /\ irq12' = Idle12
  /\ presses' = presses + 1 /\ newest' = irq12.at
  /\ UNCHANGED <<CLICK_X, CLICK_Y>>

\* The flag published before the second coordinate.
FlagFirst ==
  \/ StoreX
  \/ /\ irq12.pc = "y"
     /\ CLICK_PENDING' = TRUE
     /\ irq12' = [irq12 EXCEPT !.pc = "flag"]
     /\ presses' = presses + 1 /\ newest' = irq12.at
     /\ UNCHANGED <<CLICK_X, CLICK_Y>>
  \/ /\ irq12.pc = "flag"
     /\ CLICK_Y' = irq12.at[2]
     /\ irq12' = Idle12
     /\ UNCHANGED <<CLICK_X, CLICK_PENDING, presses, newest>>

queue_click == StoreX \/ StoreY \/ StoreFlag

QueueClick ==
  /\ queue_click
  /\ UNCHANGED <<left, keyVars, raw, ksl, i8042, streaming, asm, dog, SAW_PKT, sent, done,
                 torn, size, task, ui, taken, acted>>

\* One pass of the task's loop: the flag is swapped, then the coordinates are read.
take_pending ==
  /\ \/ /\ task.pc = "sleep" /\ CLICK_PENDING
        /\ CLICK_PENDING' = FALSE /\ taken' = taken + 1
        /\ task' = [task EXCEPT !.pc = "load_x"]
     \/ /\ task.pc = "load_x"
        /\ task' = [task EXCEPT !.pc = "load_y", !.x = CLICK_X]
        /\ UNCHANGED <<CLICK_PENDING, taken>>
     \/ /\ task.pc = "load_y"
        /\ task' = [task EXCEPT !.pc = "act", !.y = CLICK_Y]
        /\ UNCHANGED <<CLICK_PENDING, taken>>
  /\ UNCHANGED <<inputVars, size, CLICK_X, CLICK_Y, ui, presses, newest, acted>>
-----------------------------------------------------------------------------
(* signin.rs: on_click *)

Repaint(open, sel) == screen' = draw_power(size[1], size[2], screen, open, sel)

PressPower ==
  /\ MENU_OPEN' = ~MENU_OPEN
  /\ Repaint(~MENU_OPEN, SEL)
  /\ task' = [task EXCEPT !.pc = "sleep"]
  /\ UNCHANGED <<SEL, PHASE, SHOWN>>

\* The menu is closed and repainted before the action.
PressItem(i) ==
  /\ SEL' = i /\ MENU_OPEN' = FALSE
  /\ Repaint(FALSE, i)
  /\ task' = [task EXCEPT !.pc = IF POWER_ITEMS[i + 1] = "Sleep" THEN "sleep" ELSE "perform"]
  /\ UNCHANGED <<PHASE, SHOWN>>

PressSignIn ==
  /\ PHASE' = "desktop" /\ SHOWN' = TRUE
  /\ screen' = desktop_draw(DOMAIN screen)
  /\ task' = [task EXCEPT !.pc = "sleep"]
  /\ UNCHANGED <<MENU_OPEN, SEL>>

PressOutside ==
  /\ MENU_OPEN' = FALSE
  /\ IF MENU_OPEN THEN Repaint(FALSE, SEL) ELSE screen' = screen
  /\ task' = [task EXCEPT !.pc = "sleep"]
  /\ UNCHANGED <<SEL, PHASE, SHOWN>>

on_click(click) ==
  CASE click[1] = "power" -> PressPower
    [] click[1] = "item" -> PressItem(click[2])
    [] click[1] = "signin" -> PressSignIn
    [] click[1] = "outside" -> PressOutside

\* run_pending: on the desktop a click does nothing.
run_pending ==
  /\ task.pc = "act"
  /\ acted' = <<task.x, task.y>>
  /\ IF PHASE = "desktop"
     THEN task' = [task EXCEPT !.pc = "sleep"] /\ UNCHANGED <<MENU_OPEN, SEL, PHASE, SHOWN, screen>>
     ELSE on_click(classify_click(size[1], size[2], MENU_OPEN, task.x, task.y))
  /\ UNCHANGED <<inputVars, size, slot, POWER_REQUESTED, machine, bad, presses, newest, taken>>

\* power.rs: the ports are written; where they are not honoured the task halts.
perform ==
  /\ task.pc = "perform"
  /\ POWER_REQUESTED' = TRUE
  /\ task' = [task EXCEPT !.pc = "halted"]
  /\ machine' \in {machine, IF POWER_ITEMS[SEL + 1] = "Restart" THEN "restarting" ELSE "off"}
  /\ UNCHANGED <<inputVars, size, slot, MENU_OPEN, SEL, PHASE, SHOWN, screen, bad, ghosts>>

Signin == signin_test \/ signin_task \/ take_pending \/ run_pending \/ perform
-----------------------------------------------------------------------------
Init ==
  /\ InputInit
  /\ size \in Sizes
  /\ CLICK_X = 0 /\ CLICK_Y = 0 /\ CLICK_PENDING = FALSE
  /\ task = [pc |-> "test", x |-> 0, y |-> 0]
  /\ MENU_OPEN = FALSE /\ SEL = 0 /\ PHASE = "signin" /\ SHOWN = FALSE
  /\ POWER_REQUESTED = FALSE
  /\ screen = [c \in Cells(size[1], size[2]) |-> "console"]
  /\ machine = "on" /\ bad = {}
  /\ presses = 0 /\ newest = <<0, 0>> /\ taken = 0 /\ acted = <<0, 0>>

OfInput(A) == machine = "on" /\ A /\ UNCHANGED <<size, slot, task, ui, ghosts>>

Next ==
  \/ OfInput(InputNext(Points(size[1], size[2])))
  \/ machine = "on" /\ (QueueClick \/ Signin)

(***************************************************************************)
(* Interrupts are taken, and the scheduler runs every reader, the watchdog *)
(* and the sign-in task.  The user owes nothing.                           *)
(***************************************************************************)
Spec ==
  /\ Init /\ [][Next]_vars
  /\ WF_vars(OfInput(Irq1)) /\ WF_vars(OfInput(Watchdog))
  /\ \A r \in {"r1", "r2"} : WF_vars(r \in DOMAIN rd /\ OfInput(Reader(r)))
-----------------------------------------------------------------------------
(***************************************************************************)
(* No press is lost or acted on too often: the task acts at most as often  *)
(* as there were presses, so that no single press both opens the power     *)
(* menu and chooses from it, and once it has caught up the last press it   *)
(* acted on is the newest, at both of its coordinates.                     *)
(***************************************************************************)
ClicksAreActed ==
  /\ taken <= presses
  /\ (presses > 0 /\ ~CLICK_PENDING /\ task.pc = "sleep" /\ irq12.pc \notin {"y", "flag"})
       => acted = newest

(***************************************************************************)
(* Between clicks the screen shows the state the hit tests go by: the menu *)
(* exactly when it is open, with the row last chosen marked, no remains of *)
(* a closed one, and the desktop once signed in; and signin_test passes.   *)
(***************************************************************************)
ScreenShowsState ==
  /\ bad = {}
  /\ task.pc \in {"sleep", "perform", "halted"} =>
       screen = IF PHASE = "desktop" THEN desktop_draw(DOMAIN screen)
                ELSE draw(size[1], size[2], DOMAIN screen, MENU_OPEN, SEL)

(***************************************************************************)
(* An Enter the key ring has accepted always reaches a task that reads: no *)
(* reader stays blocked, or keeps the line lock, while a line is there.    *)
(***************************************************************************)
Owed == DOMAIN rd # {} /\ \E i \in DOMAIN log : log[i].key = "enter"
LineComes == Owed ~> (~Owed \/ machine # "on")
=============================================================================
