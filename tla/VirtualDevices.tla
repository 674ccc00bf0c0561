--------------------------- MODULE VirtualDevices ----------------------------
(***************************************************************************)
(* AppData: what the remote input thread does with a request               *)
(* (src/src/remotedesktop/state.rs).                                       *)
(*                                                                         *)
(* A record d holds the fields of AppData (pressed_buttons, which never    *)
(* has a button twice, as a set; pointer_axis_*_active; mods) and in       *)
(* d.seat what the compositor has been told.  Handled(d, r) is the record   *)
(* after the notify_* function that the loop calls for r.  Positions have  *)
(* one dimension; frames and timestamps are left out.                      *)
(***************************************************************************)
EXTENDS Integers, FiniteSets

CONSTANTS
  Offset,   \* x of the output, an i32; the thread gets it as a u32
  Left,     \* the part of the desktop that lies left of the origin
  Space,    \* the part right of it: the extents that the portal computes
  Width,    \* bound: the size of u32, in bits
  PlainKey, \* keycodes that stand for no modifier
  None

Button == {"BTN_LEFT", "BTN_RIGHT"}
Axis == {"horizontal", "vertical"}
Modifier == {"Shift", "Ctrl", "Alt", "Super", "AltGr", "CapsLock"}
Slot == {"PAD_RIGHT", "OTHER"}
ModifierKey == {"LEFT_SHIFT", "RIGHT_SHIFT", "LEFT_CTRL", "RIGHT_CTRL", "LEFT_ALT",
                "LEFT_META", "RIGHT_META", "ALTGR", "CAPS_LOCK"}
Keycode == ModifierKey \cup PlainKey

ASSUME DeviceAssumption ==
  /\ Offset \in Int /\ Left \in Nat /\ Space \in Nat \ {0} /\ Width \in Nat
  /\ None \notin Modifier \cup Keycode

\* The output's position and the size of the desktop are an i32.
ASSUME WidthAssumption ==
  /\ 2 ^ Width \in Nat /\ 2 * Space <= 2 ^ Width /\ 2 * Left <= 2 ^ Width
  /\ -(2 ^ Width) <= 2 * Offset /\ 2 * Offset < 2 ^ Width

ModifierOf(keycode) ==
  CASE keycode \in {"LEFT_SHIFT", "RIGHT_SHIFT"} -> "Shift"
    [] keycode \in {"LEFT_CTRL", "RIGHT_CTRL"} -> "Ctrl"
    [] keycode = "LEFT_ALT" -> "Alt"
    [] keycode \in {"LEFT_META", "RIGHT_META"} -> "Super"
    [] keycode = "CAPS_LOCK" -> "CapsLock"
    [] keycode = "ALTGR" -> "AltGr"
    [] OTHER -> None

(***************************************************************************)
(* The requests.                                                           *)
(***************************************************************************)
InputRequest ==
  [kind : {"PointerMotion", "TouchMotion"}, dx : Int]
  \cup [kind : {"PointerMotionAbsolute"}, x : Int]
  \cup [kind : {"PointerButton"}, button : Button, press : BOOLEAN]
  \cup [kind : {"PointerAxis"}, moved : SUBSET Axis, finish : BOOLEAN]
  \cup [kind : {"PointerAxisDiscrete"}]
  \cup [kind : {"KeyboardKeycode"}, key : Keycode, press : BOOLEAN]
  \cup [kind : {"KeyboardKeysym"}, key : Keycode \cup {None}, level : Nat, press : BOOLEAN]
  \cup [kind : {"TouchDown"}, slot : Slot, x : Int]
  \cup [kind : {"TouchUp"}, slot : Slot]

(***************************************************************************)
(* The compositor: buttons that are down, and those that were pressed      *)
(* while they were down; axes that scroll; keys that are down; modifiers;  *)
(* the pointer's position x, and aim (history): whether that is the place  *)
(* the caller asked for ("there"), the caller asked for a point left of    *)
(* the origin ("astray"), or there is nothing to compare with ("none").    *)
(* An absolute position counts from the origin.                            *)
(***************************************************************************)
SeatPress(seat, b) ==
  [seat EXCEPT !.held = @ \cup {b},
               !.twice = IF b \in seat.held THEN @ \cup {b} ELSE @]

SeatRelease(seat, b) == [seat EXCEPT !.held = @ \ {b}]

Inside(x) == x \in -Left .. Space - 1

\* A motion beyond the edge of the desktop stops there.
SeatMove(seat, to, aim) ==
  [seat EXCEPT !.x = IF to < -Left THEN -Left ELSE IF Inside(to) THEN to ELSE Space - 1,
               !.aim = aim]

Aims == {"none", "there", "astray"}

Device ==
  [pressed : SUBSET Button, axes : SUBSET Axis, mods : SUBSET Modifier, down : SUBSET Keycode,
   seat : [held : SUBSET Button, twice : SUBSET Button, tapped : SUBSET Button,
           scrolling : SUBSET Axis, keys : SUBSET Keycode, mods : SUBSET Modifier,
           x : -Left .. Space - 1, aim : Aims]]

Unplugged ==
  [pressed |-> {}, axes |-> {}, mods |-> {}, down |-> {},
   seat |-> [held |-> {}, twice |-> {}, tapped |-> {}, scrolling |-> {},
             keys |-> {}, mods |-> {}, x |-> 0, aim |-> "none"]]

(***************************************************************************)
(* Absolute positions: x as u32 + self.x.  The cast of a float stops at    *)
(* the bounds of the type, the one of the output's position wraps, and so  *)
(* does the sum.                                                           *)
(***************************************************************************)
ToU32(x) == IF x < 0 THEN 0 ELSE IF x < 2 ^ Width THEN x ELSE 2 ^ Width - 1

\* The sum stops at the largest u32.
ShiftedSaturating(x) ==
  LET sum == ToU32(x) + (Offset % 2 ^ Width)
  IN IF sum < 2 ^ Width THEN sum ELSE 2 ^ Width - 1

Shifted(x) == (ToU32(x) + (Offset % 2 ^ Width)) % 2 ^ Width

NotifyMotion(d, dx) ==
  [d EXCEPT !.seat = SeatMove(@, @.x + dx,
                       IF @.aim = "there" /\ Inside(@.x + dx) THEN "there" ELSE "none")]

\* What an absolute position asks for.
Aim(x) ==
  IF x < 0 \/ ~Inside(x + Offset) THEN "none" ELSE IF x + Offset < 0 THEN "astray" ELSE "there"

NotifyMotionAbsolute(d, x) ==
  [d EXCEPT !.seat = SeatMove(@, Shifted(x), Aim(x))]

(***************************************************************************)
(* Buttons.                                                                *)
(***************************************************************************)
\* A button that is pressed is not released before it is pressed again.
NotifyButtonAgain(d, b, press) ==
  IF press THEN [d EXCEPT !.pressed = @ \cup {b}, !.seat = SeatPress(@, b)]
           ELSE [d EXCEPT !.pressed = @ \ {b}, !.seat = SeatRelease(@, b)]

\* A button pressed again is forgotten.
NotifyButtonToggles(d, b, press) ==
  IF press
  THEN [d EXCEPT !.pressed = IF b \in @ THEN @ \ {b} ELSE @ \cup {b},
                 !.seat = SeatPress(IF b \in d.pressed THEN SeatRelease(@, b) ELSE @, b)]
  ELSE [d EXCEPT !.pressed = @ \ {b}, !.seat = SeatRelease(@, b)]

NotifyButton(d, b, press) ==
  IF press
  THEN [d EXCEPT !.pressed = @ \cup {b},
                 !.seat = SeatPress(IF b \in d.pressed THEN SeatRelease(@, b) ELSE @, b)]
  ELSE [d EXCEPT !.pressed = @ \ {b}, !.seat = SeatRelease(@, b)]

NotifyButtonClear(d) ==
  [d EXCEPT !.pressed = {}, !.seat.held = @ \ d.pressed]

(***************************************************************************)
(* Scrolling: an axis that moved is active until a request says that the   *)
(* scrolling is finished.  A discrete step leaves nothing behind.          *)
(***************************************************************************)
NotifyAxis(d, moved, finish) ==
  LET active == d.axes \cup moved
  IN [d EXCEPT !.axes = IF finish THEN {} ELSE active,
               !.seat.scrolling = IF finish THEN (@ \cup moved) \ active ELSE @ \cup moved]

NotifyAxisDiscrete(d) == d

(***************************************************************************)
(* Keys.  A modifier is not sent as a key: it sets or clears its bit,      *)
(* Caps Lock at every press.  down (history) has the keys whose last       *)
(* request was a press.                                                    *)
(***************************************************************************)
\* A modifier that was set stays set.
NotCleared(mods, m) == mods

Cleared(mods, m) == mods \ {m}

ModsAfter(mods, key, press) ==
  LET m == ModifierOf(key)
  IN CASE m = None -> mods
       [] m = "CapsLock" /\ press -> IF m \in mods THEN mods \ {m} ELSE mods \cup {m}
       [] m = "CapsLock" /\ ~press -> mods
       [] OTHER -> IF press THEN mods \cup {m} ELSE Cleared(mods, m)

Turned(keys, key, press) == IF press THEN keys \cup {key} ELSE keys \ {key}

NotifyKeycode(d, key, press) ==
  LET mods == ModsAfter(d.mods, key, press)
      keys == IF ModifierOf(key) = None THEN Turned(d.seat.keys, key, press) ELSE d.seat.keys
  IN [d EXCEPT !.mods = mods, !.down = Turned(@, key, press),
               !.seat = [d.seat EXCEPT !.mods = mods, !.keys = keys]]

\* A keysym is typed with the key that has it, and with the modifier of its
\* level; one that no key has is ignored (key = None).
NotifyKeysym(d, key, level, press) ==
  LET with == CASE level = 1 -> NotifyKeycode(d, "LEFT_SHIFT", press)
                [] level = 2 -> NotifyKeycode(d, "ALTGR", press)
                [] OTHER -> d
  IN IF key = None THEN d ELSE NotifyKeycode(with, key, press)

(***************************************************************************)
(* Touches: a tap is the press of a button, which is not recorded.         *)
(***************************************************************************)
ButtonOf(slot) == IF slot = "PAD_RIGHT" THEN "BTN_RIGHT" ELSE "BTN_LEFT"

NotifyTouchDown(d, slot, x) ==
  LET b == ButtonOf(slot)
      seat == SeatPress(SeatMove(d.seat, Shifted(x), "none"), b)
  IN [d EXCEPT !.seat = [seat EXCEPT !.tapped = @ \cup {b}]]

NotifyTouchMotion(d, dx) == [d EXCEPT !.seat = SeatMove(@, @.x + dx, "none")]

NotifyTouchUp(d, slot) == [d EXCEPT !.seat = SeatRelease(@, ButtonOf(slot))]

(***************************************************************************)
(* The function that the loop calls for each request.                      *)
(***************************************************************************)
Handled(d, r) ==
  CASE r.kind = "PointerMotion" -> NotifyMotion(d, r.dx)
    [] r.kind = "PointerMotionAbsolute" -> NotifyMotionAbsolute(d, r.x)
    [] r.kind = "PointerButton" -> NotifyButton(d, r.button, r.press)
    [] r.kind = "PointerAxis" -> NotifyAxis(d, r.moved, r.finish)
    [] r.kind = "PointerAxisDiscrete" -> NotifyAxisDiscrete(d)
    [] r.kind = "KeyboardKeycode" -> NotifyKeycode(d, r.key, r.press)
    [] r.kind = "KeyboardKeysym" -> NotifyKeysym(d, r.key, r.level, r.press)
    [] r.kind = "TouchDown" -> NotifyTouchDown(d, r.slot, r.x)
    [] r.kind = "TouchMotion" -> NotifyTouchMotion(d, r.dx)
    [] r.kind = "TouchUp" -> NotifyTouchUp(d, r.slot)
    [] r.kind = "Exit" -> NotifyButtonClear(d)
=============================================================================
