-------------------------- MODULE RemoteInputProofs --------------------------
(***************************************************************************)
(* Theorems about RemoteInput: what the virtual devices and the channels   *)
(* of the remote threads hold for any number of sessions, threads, EIS     *)
(* listeners and requests.                                                 *)
(***************************************************************************)
EXTENDS RemoteInput, TLAPS

(***************************************************************************)
(* The devices.  What is down is recorded or tapped, a modifier has a key  *)
(* that is down: Handled keeps both.                                       *)
(***************************************************************************)
Recorded(d) == d.seat.held \subseteq d.pressed \cup d.seat.tapped
NoDouble(d) == d.seat.twice \subseteq d.seat.tapped
HasKeys(d) ==
  /\ d.seat.mods = d.mods
  /\ d.mods \ {"CapsLock"} \subseteq {ModifierOf(k) : k \in d.down}

DeviceInv(d) == d \in Device /\ Recorded(d) /\ NoDouble(d) /\ HasKeys(d)

LEMMA ModifierType == \A k : ModifierOf(k) \in Modifier \cup {None}
BY DEF ModifierOf, Modifier

LEMMA UnpluggedInv == DeviceInv(Unplugged)
BY DeviceAssumption DEF DeviceAssumption, DeviceInv, Device, Aims, Recorded, NoDouble, HasKeys, Unplugged

\* The pointer stays inside the desktop, whatever it is sent.
LEMMA MoveType ==
  ASSUME NEW d \in Device, NEW to, NEW aim \in Aims
  PROVE  /\ SeatMove(d.seat, to, aim).x \in -Left .. Space - 1
         /\ SeatMove(d.seat, to, aim) =
              [d.seat EXCEPT !.x = SeatMove(d.seat, to, aim).x, !.aim = aim]
<1> DEFINE at == IF to < -Left THEN -Left ELSE IF to \in -Left .. Space - 1 THEN to ELSE Space - 1
<1>1. at \in -Left .. Space - 1
  <2>1. -Left \in -Left .. Space - 1 /\ Space - 1 \in -Left .. Space - 1
    BY DeviceAssumption DEF DeviceAssumption
  <2> QED BY <2>1, Zenon
<1>2. SeatMove(d.seat, to, aim) = [d.seat EXCEPT !.x = at, !.aim = aim]
  BY DEF SeatMove, Inside
<1> HIDE DEF at
<1>3. SeatMove(d.seat, to, aim).x = at
  BY <1>2 DEF Device
<1> QED BY <1>1, <1>2, <1>3

\* Motions.
LEMMA MotionInv ==
  ASSUME NEW d, DeviceInv(d), NEW to, NEW aim \in Aims
  PROVE  DeviceInv([d EXCEPT !.seat = SeatMove(@, to, aim)])
<1> DEFINE at == SeatMove(d.seat, to, aim).x
           new == [d EXCEPT !.seat = [d.seat EXCEPT !.x = at, !.aim = aim]]
<1>1. d \in Device
  BY DEF DeviceInv
<1>2. at \in -Left .. Space - 1
  BY <1>1, MoveType
<1>3. [d EXCEPT !.seat = SeatMove(@, to, aim)] = new
  <2>1. SeatMove(d.seat, to, aim) = [d.seat EXCEPT !.x = at, !.aim = aim]
    BY <1>1, MoveType
  <2> QED BY <2>1
<1> HIDE DEF at
<1>4. new \in Device
  BY <1>1, <1>2 DEF Device
<1>5. /\ new.seat.held = d.seat.held /\ new.pressed = d.pressed
      /\ new.seat.tapped = d.seat.tapped /\ new.seat.twice = d.seat.twice
      /\ new.seat.mods = d.seat.mods /\ new.mods = d.mods /\ new.down = d.down
  BY <1>1 DEF Device
<1> HIDE DEF new
<1> QED BY <1>3, <1>4, <1>5 DEF DeviceInv, Recorded, NoDouble, HasKeys

\* Buttons.
LEMMA ButtonInv ==
  ASSUME NEW d, DeviceInv(d), NEW b \in Button, NEW press \in BOOLEAN
  PROVE  DeviceInv(NotifyButton(d, b, press))
<1>1. d \in Device
  BY DEF DeviceInv
<1>2. CASE press = TRUE
  <2> DEFINE held == IF b \in d.pressed THEN d.seat.held \ {b} ELSE d.seat.held
             twice == IF b \in held THEN d.seat.twice \cup {b} ELSE d.seat.twice
             new == [d EXCEPT !.pressed = @ \cup {b},
                              !.seat = [d.seat EXCEPT !.held = held \cup {b}, !.twice = twice]]
  <2>1. NotifyButton(d, b, press) = new
    BY <1>1, <1>2 DEF NotifyButton, SeatPress, SeatRelease, Device
  <2>2. held \subseteq d.seat.held /\ twice \subseteq d.seat.twice \cup (held \cap {b})
    OBVIOUS
  <2>3. b \in held => b \in d.seat.tapped
    BY DEF DeviceInv, Recorded
  <2>4. held \subseteq Button /\ twice \subseteq Button
    BY <1>1 DEF Device
  <2> HIDE DEF held, twice
  <2>5. new \in Device
    BY <1>1, <2>4 DEF Device
  <2>6. /\ new.seat.held = held \cup {b} /\ new.pressed = d.pressed \cup {b}
        /\ new.seat.tapped = d.seat.tapped /\ new.seat.twice = twice
        /\ new.seat.mods = d.seat.mods /\ new.mods = d.mods /\ new.down = d.down
    BY <1>1 DEF Device
  <2> HIDE DEF new
  <2> QED BY <2>1, <2>2, <2>3, <2>5, <2>6 DEF DeviceInv, Recorded, NoDouble, HasKeys
<1>3. CASE press = FALSE
  <2> DEFINE new == [d EXCEPT !.pressed = @ \ {b},
                              !.seat = [d.seat EXCEPT !.held = d.seat.held \ {b}]]
  <2>1. NotifyButton(d, b, press) = new
    BY <1>1, <1>3 DEF NotifyButton, SeatRelease
  <2>2. new \in Device
    BY <1>1 DEF Device
  <2>3. /\ new.seat.held = d.seat.held \ {b} /\ new.pressed = d.pressed \ {b}
        /\ new.seat.tapped = d.seat.tapped /\ new.seat.twice = d.seat.twice
        /\ new.seat.mods = d.seat.mods /\ new.mods = d.mods /\ new.down = d.down
    BY <1>1 DEF Device
  <2> HIDE DEF new
  <2> QED BY <2>1, <2>2, <2>3 DEF DeviceInv, Recorded, NoDouble, HasKeys
<1> QED BY <1>2, <1>3

\* Scrolling.
LEMMA AxisInv ==
  ASSUME NEW d, DeviceInv(d), NEW moved \in SUBSET Axis, NEW finish \in BOOLEAN
  PROVE  DeviceInv(NotifyAxis(d, moved, finish))
<1>1. d \in Device
  BY DEF DeviceInv
<1>2. PICK axes \in SUBSET Axis, scrolling \in SUBSET Axis :
        NotifyAxis(d, moved, finish) =
          [d EXCEPT !.axes = axes, !.seat = [d.seat EXCEPT !.scrolling = scrolling]]
  <2>1. CASE finish = TRUE
    <3> DEFINE scrolling == (d.seat.scrolling \cup moved) \ (d.axes \cup moved)
    <3>1. {} \in SUBSET Axis /\ scrolling \in SUBSET Axis
      BY <1>1 DEF Device
    <3>2. NotifyAxis(d, moved, finish) =
            [d EXCEPT !.axes = {}, !.seat = [d.seat EXCEPT !.scrolling = scrolling]]
      BY <1>1, <2>1 DEF NotifyAxis
    <3> QED BY <3>1, <3>2
  <2>2. CASE finish = FALSE
    <3> DEFINE scrolling == d.seat.scrolling \cup moved
               axes == d.axes \cup moved
    <3>1. axes \in SUBSET Axis /\ scrolling \in SUBSET Axis
      BY <1>1 DEF Device
    <3>2. NotifyAxis(d, moved, finish) =
            [d EXCEPT !.axes = axes, !.seat = [d.seat EXCEPT !.scrolling = scrolling]]
      BY <1>1, <2>2 DEF NotifyAxis
    <3> QED BY <3>1, <3>2
  <2> QED BY <2>1, <2>2
<1> DEFINE new == [d EXCEPT !.axes = axes, !.seat = [d.seat EXCEPT !.scrolling = scrolling]]
<1>3. new \in Device
  BY <1>1 DEF Device
<1>4. /\ new.seat.held = d.seat.held /\ new.pressed = d.pressed
      /\ new.seat.tapped = d.seat.tapped /\ new.seat.twice = d.seat.twice
      /\ new.seat.mods = d.seat.mods /\ new.mods = d.mods /\ new.down = d.down
  BY <1>1 DEF Device
<1> HIDE DEF new
<1> QED BY <1>2, <1>3, <1>4 DEF new, DeviceInv, Recorded, NoDouble, HasKeys

\* Keys.
LEMMA ModsAfterType ==
  ASSUME NEW mods \in SUBSET Modifier, NEW key, NEW press \in BOOLEAN
  PROVE  /\ ModsAfter(mods, key, press) \subseteq Modifier
         /\ \A n \in ModsAfter(mods, key, press) :
              \/ n = ModifierOf(key) /\ (press \/ n = "CapsLock")
              \/ n \in mods /\ (press \/ n # ModifierOf(key) \/ n = "CapsLock")
<1> DEFINE m == ModifierOf(key)
<1>1. m \in Modifier \cup {None}
  BY ModifierType
<1>2. None # "CapsLock"
  BY DeviceAssumption DEF DeviceAssumption, Modifier
<1>3. CASE m = None
  <2>1. ModsAfter(mods, key, press) = mods
    BY <1>2, <1>3 DEF ModsAfter
  <2>2. \A n \in mods : n # m
    BY <1>3, DeviceAssumption DEF DeviceAssumption
  <2> QED BY <2>1, <2>2
<1>4. CASE m = "CapsLock" /\ press
  <2>1. ModsAfter(mods, key, press) = IF m \in mods THEN mods \ {m} ELSE mods \cup {m}
    BY <1>2, <1>4 DEF ModsAfter
  <2> QED BY <1>1, <1>2, <1>4, <2>1
<1>5. CASE m = "CapsLock" /\ ~press
  <2>1. ModsAfter(mods, key, press) = mods
    BY <1>2, <1>5 DEF ModsAfter
  <2> QED BY <1>5, <2>1
<1>6. CASE m # None /\ m # "CapsLock" /\ press
  <2>1. ModsAfter(mods, key, press) = mods \cup {m}
    BY <1>6 DEF ModsAfter
  <2> QED BY <1>1, <1>6, <2>1
<1>7. CASE m # None /\ m # "CapsLock" /\ ~press
  <2>1. ModsAfter(mods, key, press) = mods \ {m}
    BY <1>7 DEF ModsAfter, Cleared
  <2> QED BY <1>7, <2>1
<1> QED BY <1>3, <1>4, <1>5, <1>6, <1>7

LEMMA TurnedType ==
  ASSUME NEW S, NEW key, NEW press \in BOOLEAN
  PROVE  /\ Turned(S, key, press) \subseteq S \cup {key}
         /\ \A k \in S : k # key \/ press => k \in Turned(S, key, press)
         /\ press => key \in Turned(S, key, press)
<1>1. CASE press = TRUE
  BY <1>1 DEF Turned
<1>2. CASE press = FALSE
  BY <1>2 DEF Turned
<1> QED BY <1>1, <1>2

LEMMA KeycodeInv ==
  ASSUME NEW d, DeviceInv(d), NEW key \in Keycode, NEW press \in BOOLEAN
  PROVE  DeviceInv(NotifyKeycode(d, key, press))
<1> DEFINE mods == ModsAfter(d.mods, key, press)
           keys == IF ModifierOf(key) = None THEN Turned(d.seat.keys, key, press) ELSE d.seat.keys
           down == Turned(d.down, key, press)
           new == [d EXCEPT !.mods = mods, !.down = down,
                            !.seat = [d.seat EXCEPT !.mods = mods, !.keys = keys]]
<1>1. d \in Device /\ d.mods \subseteq Modifier
  BY DEF DeviceInv, Device
<1>2. NotifyKeycode(d, key, press) = new
  BY DEF NotifyKeycode
<1>3. mods \subseteq Modifier
  BY <1>1, ModsAfterType
<1>4. keys \subseteq Keycode /\ down \subseteq Keycode
  <2>1. /\ Turned(d.seat.keys, key, press) \subseteq d.seat.keys \cup {key}
        /\ down \subseteq d.down \cup {key}
    BY TurnedType
  <2>2. d.seat.keys \subseteq Keycode /\ d.down \subseteq Keycode
    BY <1>1 DEF Device
  <2> QED BY <2>1, <2>2
<1>5. mods \ {"CapsLock"} \subseteq {ModifierOf(k) : k \in down}
  <2>1. SUFFICES ASSUME NEW n \in mods, n # "CapsLock"
                 PROVE  \E k \in down : ModifierOf(k) = n
    BY Zenon
  <2>2. CASE n = ModifierOf(key) /\ press
    <3>1. key \in down
      BY <2>2, TurnedType
    <3> QED BY <2>2, <3>1
  <2>3. CASE n \in d.mods /\ (press \/ n # ModifierOf(key))
    <3>1. PICK k \in d.down : ModifierOf(k) = n
      BY <2>1, <2>3 DEF DeviceInv, HasKeys
    <3>2. k # key \/ press
      BY <2>3, <3>1
    <3>3. k \in down
      BY <3>2, TurnedType
    <3> QED BY <3>1, <3>3
  <2> QED BY <1>1, <2>1, <2>2, <2>3, ModsAfterType
<1> HIDE DEF mods, keys, down
<1>6. new \in Device
  BY <1>1, <1>3, <1>4 DEF Device
<1>7. /\ new.seat.held = d.seat.held /\ new.pressed = d.pressed
      /\ new.seat.tapped = d.seat.tapped /\ new.seat.twice = d.seat.twice
      /\ new.seat.mods = mods /\ new.mods = mods /\ new.down = down
  BY <1>1 DEF Device
<1> HIDE DEF new
<1> QED BY <1>2, <1>5, <1>6, <1>7 DEF DeviceInv, Recorded, NoDouble, HasKeys

LEMMA KeysymInv ==
  ASSUME NEW d, DeviceInv(d), NEW key \in Keycode \cup {None}, NEW level \in Nat,
         NEW press \in BOOLEAN
  PROVE  DeviceInv(NotifyKeysym(d, key, level, press))
<1> DEFINE with == CASE level = 1 -> NotifyKeycode(d, "LEFT_SHIFT", press)
                     [] level = 2 -> NotifyKeycode(d, "ALTGR", press)
                     [] OTHER -> d
<1>1. DeviceInv(NotifyKeycode(d, "LEFT_SHIFT", press)) /\ DeviceInv(NotifyKeycode(d, "ALTGR", press))
  BY KeycodeInv DEF Keycode, ModifierKey
<1>2. DeviceInv(with)
  <2>1. CASE level = 1
    BY <1>1, <2>1
  <2>2. CASE level = 2
    BY <1>1, <2>2
  <2>3. CASE level # 1 /\ level # 2
    BY <2>3
  <2> QED BY <2>1, <2>2, <2>3
<1>3. NotifyKeysym(d, key, level, press) = IF key = None THEN d ELSE NotifyKeycode(with, key, press)
  BY DEF NotifyKeysym
<1> HIDE DEF with
<1>4. CASE key = None
  BY <1>3, <1>4
<1>5. CASE key # None
  <2>1. key \in Keycode
    BY <1>5
  <2>2. DeviceInv(NotifyKeycode(with, key, press))
    BY <1>2, <2>1, KeycodeInv
  <2> QED BY <1>3, <1>5, <2>2
<1> QED BY <1>4, <1>5

\* Touches.
LEMMA TouchDownInv ==
  ASSUME NEW d, DeviceInv(d), NEW slot \in Slot, NEW x
  PROVE  DeviceInv(NotifyTouchDown(d, slot, x))
<1> DEFINE b == ButtonOf(slot)
           at == SeatMove(d.seat, Shifted(x), "none").x
           twice == IF b \in d.seat.held THEN d.seat.twice \cup {b} ELSE d.seat.twice
           seat == [d.seat EXCEPT !.x = at, !.aim = "none", !.held = d.seat.held \cup {b},
                                  !.twice = twice, !.tapped = d.seat.tapped \cup {b}]
           new == [d EXCEPT !.seat = seat]
<1>0. "none" \in Aims
  BY DEF Aims
<1>1. d \in Device /\ b \in Button
  BY DEF DeviceInv, ButtonOf, Button
<1>2. NotifyTouchDown(d, slot, x) = new
  <2>1. SeatMove(d.seat, Shifted(x), "none") = [d.seat EXCEPT !.x = at, !.aim = "none"]
    BY <1>0, <1>1, MoveType
  <2> HIDE DEF at
  <2>2. SeatPress(SeatMove(d.seat, Shifted(x), "none"), b) =
          [d.seat EXCEPT !.x = at, !.aim = "none", !.held = d.seat.held \cup {b}, !.twice = twice]
    BY <1>1, <2>1 DEF SeatPress, Device
  <2> QED BY <1>1, <2>2 DEF NotifyTouchDown, Device
<1>3. at \in -Left .. Space - 1
  BY <1>0, <1>1, MoveType
<1>4. twice \subseteq d.seat.twice \cup {b} /\ twice \subseteq Button
  BY <1>1 DEF Device
<1> HIDE DEF b, at, twice
<1>5. new \in Device
  BY <1>0, <1>1, <1>3, <1>4 DEF Device
<1>6. /\ new.seat.held = d.seat.held \cup {b} /\ new.pressed = d.pressed
      /\ new.seat.tapped = d.seat.tapped \cup {b} /\ new.seat.twice = twice
      /\ new.seat.mods = d.seat.mods /\ new.mods = d.mods /\ new.down = d.down
  BY <1>1 DEF Device
<1> HIDE DEF new
<1> QED BY <1>2, <1>4, <1>5, <1>6 DEF DeviceInv, Recorded, NoDouble, HasKeys

\* Buttons that are no longer held.
LEMMA ReleaseInv ==
  ASSUME NEW d, DeviceInv(d), NEW held \in SUBSET d.seat.held, NEW pressed \in SUBSET d.pressed,
         held \subseteq pressed \cup d.seat.tapped
  PROVE  DeviceInv([d EXCEPT !.pressed = pressed, !.seat = [d.seat EXCEPT !.held = held]])
<1> DEFINE new == [d EXCEPT !.pressed = pressed, !.seat = [d.seat EXCEPT !.held = held]]
<1>1. d \in Device
  BY DEF DeviceInv
<1>2. new \in Device
  BY <1>1 DEF Device
<1>3. /\ new.seat.held = held /\ new.pressed = pressed
      /\ new.seat.tapped = d.seat.tapped /\ new.seat.twice = d.seat.twice
      /\ new.seat.mods = d.seat.mods /\ new.mods = d.mods /\ new.down = d.down
  BY <1>1 DEF Device
<1> HIDE DEF new
<1>4. DeviceInv(new)
  BY <1>2, <1>3 DEF DeviceInv, Recorded, NoDouble, HasKeys
<1> QED BY <1>4 DEF new

LEMMA TouchUpInv ==
  ASSUME NEW d, DeviceInv(d), NEW slot
  PROVE  DeviceInv(NotifyTouchUp(d, slot))
<1> DEFINE held == d.seat.held \ {ButtonOf(slot)}
<1>1. d \in Device /\ held \subseteq d.pressed \cup d.seat.tapped
  BY DEF DeviceInv, Recorded
<1>2. NotifyTouchUp(d, slot) = [d EXCEPT !.pressed = d.pressed, !.seat = [d.seat EXCEPT !.held = held]]
  BY <1>1 DEF NotifyTouchUp, SeatRelease, Device
<1>3. held \in SUBSET d.seat.held /\ d.pressed \in SUBSET d.pressed
  OBVIOUS
<1> HIDE DEF held
<1>4. DeviceInv([d EXCEPT !.pressed = d.pressed, !.seat = [d.seat EXCEPT !.held = held]])
  BY <1>1, <1>3, ReleaseInv
<1> QED BY <1>2, <1>4

LEMMA ClearInv ==
  ASSUME NEW d, DeviceInv(d)
  PROVE  /\ DeviceInv(NotifyButtonClear(d))
         /\ NotifyButtonClear(d).pressed = {}
<1> DEFINE held == d.seat.held \ d.pressed
<1>1. d \in Device /\ held \subseteq d.seat.tapped
  BY DEF DeviceInv, Recorded
<1>2. NotifyButtonClear(d) = [d EXCEPT !.pressed = {}, !.seat = [d.seat EXCEPT !.held = held]]
  BY <1>1 DEF NotifyButtonClear, Device
<1>3. DeviceInv(NotifyButtonClear(d))
  <2>1. held \in SUBSET d.seat.held /\ {} \in SUBSET d.pressed /\ held \subseteq {} \cup d.seat.tapped
    BY <1>1
  <2> HIDE DEF held
  <2>2. DeviceInv([d EXCEPT !.pressed = {}, !.seat = [d.seat EXCEPT !.held = held]])
    BY <2>1, ReleaseInv
  <2> QED BY <1>2, <2>2
<1>4. NotifyButtonClear(d).pressed = {}
  BY <1>1, <1>2 DEF Device
<1> QED BY <1>3, <1>4

LEMMA AimType == \A x : Aim(x) \in Aims
BY DEF Aim, Aims

\* Every request.
LEMMA HandledInv ==
  ASSUME NEW d, DeviceInv(d), NEW r \in InputRequest
  PROVE  DeviceInv(Handled(d, r))
<1>1. CASE r \in [kind : {"PointerMotion", "TouchMotion"}, dx : Int]
  <2> DEFINE aim == IF d.seat.aim = "there" /\ Inside(d.seat.x + r.dx) THEN "there" ELSE "none"
  <2>1. aim \in Aims /\ "none" \in Aims
    BY DEF Aims
  <2>2. DeviceInv(NotifyMotion(d, r.dx)) /\ DeviceInv(NotifyTouchMotion(d, r.dx))
    BY <2>1, MotionInv DEF NotifyMotion, NotifyTouchMotion
  <2> QED BY <1>1, <2>2 DEF Handled
<1>2. CASE r \in [kind : {"PointerMotionAbsolute"}, x : Int]
  <2>1. DeviceInv(NotifyMotionAbsolute(d, r.x))
    BY MotionInv, AimType DEF NotifyMotionAbsolute
  <2> QED BY <1>2, <2>1 DEF Handled
<1>3. CASE r \in [kind : {"PointerButton"}, button : Button, press : BOOLEAN]
  <2>1. DeviceInv(NotifyButton(d, r.button, r.press))
    BY <1>3, ButtonInv
  <2> QED BY <1>3, <2>1 DEF Handled
<1>4. CASE r \in [kind : {"PointerAxis"}, moved : SUBSET Axis, finish : BOOLEAN]
  <2>1. DeviceInv(NotifyAxis(d, r.moved, r.finish))
    BY <1>4, AxisInv
  <2> QED BY <1>4, <2>1 DEF Handled
<1>5. CASE r \in [kind : {"PointerAxisDiscrete"}]
  BY <1>5 DEF Handled, NotifyAxisDiscrete
<1>6. CASE r \in [kind : {"KeyboardKeycode"}, key : Keycode, press : BOOLEAN]
  <2>1. DeviceInv(NotifyKeycode(d, r.key, r.press))
    BY <1>6, KeycodeInv
  <2> QED BY <1>6, <2>1 DEF Handled
<1>7. CASE r \in [kind : {"KeyboardKeysym"}, key : Keycode \cup {None}, level : Nat, press : BOOLEAN]
  <2>1. DeviceInv(NotifyKeysym(d, r.key, r.level, r.press))
    BY <1>7, KeysymInv
  <2> QED BY <1>7, <2>1 DEF Handled
<1>8. CASE r \in [kind : {"TouchDown"}, slot : Slot, x : Int]
  <2>1. DeviceInv(NotifyTouchDown(d, r.slot, r.x))
    BY <1>8, TouchDownInv
  <2> QED BY <1>8, <2>1 DEF Handled
<1>9. CASE r \in [kind : {"TouchUp"}, slot : Slot]
  <2>1. DeviceInv(NotifyTouchUp(d, r.slot))
    BY TouchUpInv
  <2> QED BY <1>9, <2>1 DEF Handled
<1> QED BY <1>1, <1>2, <1>3, <1>4, <1>5, <1>6, <1>7, <1>8, <1>9 DEF InputRequest

-----------------------------------------------------------------------------
(***************************************************************************)
(* The portal.  The channels and threads agree with who holds the mutex:   *)
(* a task between its look-up and its sending has a thread of the list,    *)
(* and a thread that was told to exit is not in the list, or is the one of *)
(* the session that Close is removing.                                     *)
(***************************************************************************)
SessionsInv ==
  /\ \A i, j \in DOMAIN sessions :
       (sessions[i].thread = sessions[j].thread \/ sessions[i].handle = sessions[j].handle) => i = j
  /\ \A i \in DOMAIN sessions : thread[sessions[i].thread] # "none"

JobsInv ==
  /\ \A p \in {"notify", "forward"} :
       job[p] = Idle \/ (job[p].step = "found" /\ lock = p /\ job[p].thread \in Live)
  /\ \/ job["close"] = Idle
     \/ job["close"].step \in {"stopped", "leaving"} /\ lock = "close" /\ Has(job["close"].handle)

Told(t) ==
  (\E i \in DOMAIN queue[t] : queue[t][i] = Exit) \/ thread[t] \in {"stopping", "ended"}

ToldInv ==
  \A t \in Thread : Told(t) =>
    t \notin Live \/ (job["close"] # Idle /\ t = ThreadOf(job["close"].handle))

QueuesInv == \A t \in Thread : thread[t] = "none" => queue[t] = <<>>

DevicesInv ==
  \A t \in Thread :
    /\ DeviceInv(device[t])
    /\ thread[t] \in {"stopping", "ended"} => device[t].pressed = {}

IInv ==
  /\ TypeOK /\ SessionsInv /\ JobsInv /\ QueuesInv
  /\ ToldInv /\ NothingFollowsExit /\ DevicesInv

LEMMA ElementsTyped == ASSUME NEW S, NEW s \in Seq(S) PROVE \A i \in DOMAIN s : s[i] \in S
OBVIOUS

LEMMA TakenTyped ==
  ASSUME NEW S, NEW s \in Seq(S), s # <<>>
  PROVE  Head(s) \in S /\ Tail(s) \in Seq(S)
OBVIOUS

LEMMA SessionsTyped ==
  ASSUME TypeOK
  PROVE  /\ sessions \in Seq([handle : SessionHandle, thread : Thread])
         /\ \A i \in DOMAIN sessions :
              sessions[i].handle \in SessionHandle /\ sessions[i].thread \in Thread
<1>1. sessions \in Seq([handle : SessionHandle, thread : Thread])
  BY DEF TypeOK, PortalTypeOK
<1>2. \A i \in DOMAIN sessions : sessions[i] \in [handle : SessionHandle, thread : Thread]
  BY <1>1, ElementsTyped
<1> QED BY <1>1, <1>2

LEMMA IndexOfType ==
  ASSUME NEW h, Has(h)
  PROVE  IndexOf(h) \in DOMAIN sessions /\ sessions[IndexOf(h)].handle = h
BY DEF Has, IndexOf

LEMMA ThreadOfType ==
  ASSUME TypeOK, NEW h, Has(h)
  PROVE  ThreadOf(h) \in Live /\ ThreadOf(h) \in Thread
<1>1. \A i \in DOMAIN sessions : sessions[i].thread \in Thread
  BY SessionsTyped
<1> QED BY <1>1, IndexOfType DEF ThreadOf, Live

LEMMA LiveType == ASSUME TypeOK PROVE Live \subseteq Thread
<1>1. \A i \in DOMAIN sessions : sessions[i].thread \in Thread
  BY SessionsTyped
<1> QED BY <1>1 DEF Live

\* What is left of a sequence without one of its elements.
LEMMA WithoutIndex ==
  ASSUME NEW S, NEW s \in Seq(S), NEW i \in DOMAIN s
  PROVE  LET r == SubSeq(s, 1, i - 1) \o SubSeq(s, i + 1, Len(s))
         IN  /\ r \in Seq(S)
             /\ DOMAIN r = 1 .. Len(s) - 1
             /\ \A j \in DOMAIN r : r[j] = s[IF j < i THEN j ELSE j + 1]
<1> DEFINE a == SubSeq(s, 1, i - 1)
           b == SubSeq(s, i + 1, Len(s))
<1>1. i \in 1 .. Len(s) /\ Len(s) \in Nat
  OBVIOUS
<1>2. a \in Seq(S) /\ Len(a) = i - 1 /\ \A j \in 1 .. i - 1 : a[j] = s[j]
  BY <1>1
<1>3. b \in Seq(S) /\ Len(b) = Len(s) - i /\ \A j \in 1 .. Len(s) - i : b[j] = s[i + j]
  BY <1>1
<1> HIDE DEF a, b
<1>4. a \o b \in Seq(S) /\ Len(a \o b) = Len(s) - 1
  BY <1>1, <1>2, <1>3
<1>5. \A j \in 1 .. Len(s) - 1 : (a \o b)[j] = s[IF j < i THEN j ELSE j + 1]
  <2> SUFFICES ASSUME NEW j \in 1 .. Len(s) - 1
               PROVE  (a \o b)[j] = s[IF j < i THEN j ELSE j + 1]
    OBVIOUS
  <2>1. CASE j < i
    BY <1>1, <1>2, <1>3, <2>1
  <2>2. CASE ~(j < i)
    <3>1. (a \o b)[j] = b[j - (i - 1)]
      BY <1>1, <1>2, <1>3, <2>2
    <3>2. b[j - (i - 1)] = s[j + 1]
      BY <1>1, <1>3, <2>2
    <3> QED BY <2>2, <3>1, <3>2
  <2> QED BY <2>1, <2>2
<1>6. DOMAIN (a \o b) = 1 .. Len(s) - 1
  BY <1>1, <1>4
<1> QED BY <1>4, <1>5, <1>6 DEF a, b

\* Nobody is in the middle of anything while the mutex is free.
LEMMA FreeMeansIdle ==
  ASSUME IInv, LockFree
  PROVE  \A p \in Task : job[p] = Idle
BY InputAssumption DEF IInv, JobsInv, LockFree, InputAssumption, Task

\* A task that sends has the mutex to itself.
LEMMA OthersAreIdle ==
  ASSUME IInv, NEW p \in Task, job[p] # Idle
  PROVE  lock = p /\ \A q \in Task : q # p => job[q] = Idle
BY DEF IInv, JobsInv, Task

LEMMA ExitIsNoRequest == Exit \notin Request
<1>1. \A r \in InputRequest : r.kind # "Exit"
  BY DEF InputRequest
<1> QED BY <1>1, InputAssumption DEF Exit, InputAssumption

LEMMA StartSessionStep ==
  ASSUME IInv, NEW h \in SessionHandle, NEW t \in Thread, StartSession(h, t)
  PROVE  IInv'
<1>1. lock = None /\ thread[t] = "none" /\ ~Has(h)
  <2>1. t \in {u \in Thread : thread[u] = "none"}
    BY DEF StartSession, Fresh
  <2> QED BY <2>1 DEF StartSession, LockFree
<1>2. \A p \in Task : job[p] = Idle
  BY <1>1, FreeMeansIdle DEF LockFree
<1>3. /\ sessions' = Append(sessions, [handle |-> h, thread |-> t])
      /\ thread' = [thread EXCEPT ![t] = "starting"]
      /\ UNCHANGED <<cursor, lock, job, queue, device, eis>>
  BY DEF StartSession
<1>4. /\ sessions \in Seq([handle : SessionHandle, thread : Thread])
      /\ thread \in [Thread -> {"none", "starting", "running", "stopping", "ended", "failed"}]
  BY DEF IInv, TypeOK, PortalTypeOK, RemoteTypeOK
<1>5. /\ DOMAIN sessions = 1 .. Len(sessions) /\ Len(sessions) \in Nat
      /\ DOMAIN sessions' = 1 .. Len(sessions) + 1
      /\ \A i \in 1 .. Len(sessions) : sessions'[i] = sessions[i]
      /\ sessions'[Len(sessions) + 1] = [handle |-> h, thread |-> t]
      /\ sessions' \in Seq([handle : SessionHandle, thread : Thread])
  BY <1>3, <1>4
<1>6. \A i \in DOMAIN sessions : sessions[i].thread # t /\ sessions[i].handle # h
  BY <1>1 DEF IInv, SessionsInv, Has
<1>7. TypeOK'
  <2>1. PortalTypeOK'
    BY <1>3, <1>5 DEF IInv, TypeOK, PortalTypeOK
  <2>2. RemoteTypeOK'
    BY <1>3, <1>4 DEF IInv, TypeOK, RemoteTypeOK
  <2>3. EisTypeOK'
    BY <1>3 DEF eis, IInv, TypeOK, EisTypeOK
  <2> QED BY <2>1, <2>2, <2>3 DEF TypeOK
<1>8. SessionsInv'
  <2>1. \A i \in DOMAIN sessions' : thread'[sessions'[i].thread] # "none"
    <3>1. \A i \in DOMAIN sessions : sessions[i].thread \in Thread
      BY SessionsTyped DEF IInv
    <3> QED BY <1>3, <1>4, <1>5, <3>1 DEF IInv, SessionsInv
  <2>2. \A i, j \in DOMAIN sessions' :
          (sessions'[i].thread = sessions'[j].thread \/ sessions'[i].handle = sessions'[j].handle)
          => i = j
    BY <1>5, <1>6 DEF IInv, SessionsInv
  <2> QED BY <2>1, <2>2 DEF SessionsInv
<1>9. JobsInv'
  BY <1>2, <1>3 DEF JobsInv, Task
<1>10. \A u \in Thread : Told(u)' => Told(u) /\ u # t
  <2>1. queue[t] = <<>>
    BY <1>1 DEF IInv, QueuesInv
  <2> QED BY <1>3, <1>4, <2>1 DEF Told
<1>11. ToldInv'
  <2>1. \A u \in Thread : u \in Live' => u \in Live \/ u = t
    BY <1>5 DEF Live
  <2> QED BY <1>2, <1>3, <1>10, <2>1 DEF IInv, ToldInv, Task
<1>12. QueuesInv' /\ NothingFollowsExit' /\ DevicesInv'
  BY <1>1, <1>3, <1>4 DEF IInv, QueuesInv, NothingFollowsExit, DevicesInv
<1> QED BY <1>7, <1>8, <1>9, <1>11, <1>12 DEF IInv

\* Nothing but the mutex and the task changes hands.
LEMMA FoundStep ==
  ASSUME IInv, LockFree, NEW p \in {"notify", "forward"}, NEW h \in SessionHandle,
         NEW r \in Request, Found(p, h, r),
         UNCHANGED <<sessions, cursor, remote>>, EisTypeOK'
  PROVE  IInv'
<1>1. \A q \in Task : job[q] = Idle
  BY FreeMeansIdle
<1>2. CASE ~Has(h)
  <2>1. UNCHANGED <<sessions, cursor, lock, job, thread, queue, device>>
    BY <1>2 DEF Found, remote
  <2>2. TypeOK'
    BY <2>1 DEF IInv, TypeOK, PortalTypeOK, RemoteTypeOK
  <2>3. /\ SessionsInv' /\ JobsInv' /\ QueuesInv' /\ ToldInv'
        /\ NothingFollowsExit' /\ DevicesInv'
    BY <2>1 DEF IInv, SessionsInv, JobsInv, QueuesInv, ToldInv, Told, NothingFollowsExit,
                DevicesInv, Live, Has, ThreadOf, IndexOf
  <2> QED BY <2>2, <2>3 DEF IInv
<1>3. CASE Has(h)
  <2> DEFINE found == [step |-> "found", thread |-> ThreadOf(h), request |-> r]
  <2>1. /\ lock' = p /\ job' = [job EXCEPT ![p] = found]
        /\ UNCHANGED <<sessions, cursor, thread, queue, device>>
    BY <1>3 DEF Found, remote
  <2>2. ThreadOf(h) \in Live /\ found \in Job
    <3>1. ThreadOf(h) \in Live /\ ThreadOf(h) \in Thread
      BY <1>3, ThreadOfType DEF IInv
    <3> QED BY <3>1 DEF Job
  <2>3. job \in [Task -> Job] /\ p \in Task
    BY DEF IInv, TypeOK, PortalTypeOK, Task
  <2> HIDE DEF found
  <2>4. job' \in [Task -> Job] /\ job'[p] = found /\ \A q \in Task : q # p => job'[q] = Idle
    BY <1>1, <2>1, <2>2, <2>3
  <2>5. TypeOK'
    BY <2>1, <2>3, <2>4 DEF IInv, TypeOK, PortalTypeOK, RemoteTypeOK
  <2>6. JobsInv'
    <3>1. found.step = "found" /\ found.thread \in Live' /\ "close" # p
      BY <2>1, <2>2 DEF found, Live
    <3> QED BY <2>1, <2>4, <3>1 DEF JobsInv, Task
  <2>7. ToldInv'
    BY <1>1, <2>1, <2>4 DEF IInv, ToldInv, Told, Live, Task
  <2>8. SessionsInv' /\ QueuesInv' /\ NothingFollowsExit' /\ DevicesInv'
    BY <2>1 DEF IInv, SessionsInv, QueuesInv, NothingFollowsExit, DevicesInv
  <2> QED BY <2>5, <2>6, <2>7, <2>8 DEF IInv
<1> QED BY <1>2, <1>3

LEMMA NotifyStep ==
  ASSUME IInv, NEW h \in SessionHandle, NEW r \in Request, Notify(h, r)
  PROVE  IInv'
<1>1. LockFree /\ Found("notify", h, r) /\ UNCHANGED <<sessions, cursor, remote, eis>>
  BY DEF Notify
<1>2. EisTypeOK'
  BY <1>1 DEF eis, IInv, TypeOK, EisTypeOK
<1> QED BY <1>1, <1>2, FoundStep

LEMMA ForwardStep == ASSUME IInv, Forward PROVE IInv'
<1>1. /\ LockFree /\ inputs # <<>> /\ inputs' = Tail(inputs)
      /\ Found("forward", Head(inputs).handle, Head(inputs).request)
      /\ UNCHANGED <<sessions, cursor, remote>>
      /\ UNCHANGED <<messages, clients, listener, connection, handleOf, owner>>
  BY DEF Forward
<1>2. inputs \in Seq([handle : SessionHandle, request : EisRequest])
  BY DEF IInv, TypeOK, EisTypeOK
<1>3. /\ Head(inputs) \in [handle : SessionHandle, request : EisRequest]
      /\ inputs' \in Seq([handle : SessionHandle, request : EisRequest])
  BY <1>1, <1>2, TakenTyped
<1>4. Head(inputs).handle \in SessionHandle /\ Head(inputs).request \in Request
  BY <1>3, InputAssumption DEF InputAssumption
<1>5. EisTypeOK'
  BY <1>1, <1>3 DEF IInv, TypeOK, EisTypeOK
<1> QED BY <1>1, <1>4, <1>5, FoundStep

LEMMA MovedType ==
  ASSUME NEW c \in Int, NEW r \in Request
  PROVE  Moved(c, r) \in Int
BY InputAssumption DEF InputAssumption, InputRequest, Moved

\* What is sent to a thread is at the end of its channel or nowhere.
LEMMA SentType ==
  ASSUME IInv, NEW t \in Thread, NEW r \in Request \cup {Exit}
  PROVE  /\ Sent(t, r) \in [Thread -> Seq(Request \cup {Exit})]
         /\ \A u \in Thread : u # t => Sent(t, r)[u] = queue[u]
         /\ \/ Sent(t, r)[t] = queue[t]
            \/ Receives(t) /\ Sent(t, r)[t] = Append(queue[t], r)
<1>1. queue \in [Thread -> Seq(Request \cup {Exit})]
  BY DEF IInv, TypeOK, RemoteTypeOK
<1> QED BY <1>1 DEF Sent

LEMMA SendRequestStep ==
  ASSUME IInv, NEW p \in {"notify", "forward"}, SendRequest(p)
  PROVE  IInv'
<1>1. p \in Task /\ job \in [Task -> Job] /\ p # "close" /\ "close" \in Task
  BY DEF IInv, TypeOK, PortalTypeOK, Task
<1>2. job[p].step = "found" /\ job[p] # Idle /\ job[p] \in Job
  BY <1>1 DEF SendRequest, Idle
<1>3. PICK t \in Thread, r \in Request : t = job[p].thread /\ r = job[p].request
  BY <1>2 DEF Job, Idle
<1>4. /\ lock = p /\ lock' = None
      /\ cursor' = [cursor EXCEPT ![t] = Moved(@, r)]
      /\ queue' = Sent(t, r)
      /\ job' = [job EXCEPT ![p] = Idle]
      /\ UNCHANGED <<sessions, thread, device, eis>>
  BY <1>3 DEF SendRequest, Done
<1>5. t \in Live /\ \A q \in Task : q # p => job[q] = Idle
  <2>1. t \in Live
    BY <1>2, <1>3 DEF IInv, JobsInv
  <2> QED BY <1>1, <1>2, <2>1, OthersAreIdle
<1>6. \A q \in Task : job'[q] = Idle
  BY <1>1, <1>4, <1>5
<1>7. ~Told(t)
  BY <1>1, <1>3, <1>5 DEF IInv, ToldInv
<1>8. /\ queue' \in [Thread -> Seq(Request \cup {Exit})]
      /\ \A u \in Thread : u # t => queue'[u] = queue[u]
      /\ queue'[t] = queue[t] \/ (Receives(t) /\ queue'[t] = Append(queue[t], r))
  BY <1>4, <1>3, SentType
<1>9. queue[t] \in Seq(Request \cup {Exit}) /\ r # Exit
  BY <1>3, ExitIsNoRequest DEF IInv, TypeOK, RemoteTypeOK
<1>10. \A i \in DOMAIN queue'[t] : queue'[t][i] # Exit
  <2>1. \A i \in DOMAIN queue[t] : queue[t][i] # Exit
    BY <1>7 DEF Told
  <2>2. CASE queue'[t] = queue[t]
    BY <2>1, <2>2
  <2>3. CASE queue'[t] = Append(queue[t], r)
    BY <1>9, <2>1, <2>3
  <2> QED BY <1>8, <2>2, <2>3
<1>11. TypeOK'
  <2>1. cursor' \in [Thread -> Int]
    <3>1. cursor \in [Thread -> Int]
      BY DEF IInv, TypeOK, PortalTypeOK
    <3> QED BY <1>4, <1>3, <3>1, MovedType
  <2>2. job' \in [Task -> Job] /\ lock' \in Task \cup {None}
    BY <1>4, <1>1 DEF Job
  <2>3. PortalTypeOK'
    BY <1>4, <2>1, <2>2 DEF IInv, TypeOK, PortalTypeOK
  <2>4. RemoteTypeOK' /\ EisTypeOK'
    BY <1>4, <1>8 DEF eis, IInv, TypeOK, RemoteTypeOK, EisTypeOK
  <2> QED BY <2>3, <2>4 DEF TypeOK
<1>12. SessionsInv' /\ JobsInv' /\ DevicesInv'
  BY <1>4, <1>6 DEF IInv, SessionsInv, JobsInv, DevicesInv, Task
<1>13. \A u \in Thread : Told(u)' => Told(u) /\ u # t
  <2>1. ~Told(t)'
    BY <1>4, <1>7, <1>10 DEF Told
  <2>2. \A u \in Thread : u # t => (Told(u)' <=> Told(u))
    BY <1>4, <1>8 DEF Told
  <2> QED BY <2>1, <2>2
<1>14. ToldInv'
  <2>1. \A u \in Thread : Told(u) => u \notin Live
    BY <1>1, <1>5 DEF IInv, ToldInv
  <2> QED BY <1>4, <1>13, <2>1 DEF ToldInv, Live
<1>15. QueuesInv'
  <2>1. Receives(t) => thread[t] # "none"
    BY DEF Receives
  <2> QED BY <1>4, <1>8, <2>1 DEF IInv, QueuesInv
<1>16. NothingFollowsExit'
  <2>1. thread[t] \notin {"stopping", "ended"}
    BY <1>7 DEF Told
  <2> QED BY <1>4, <1>8, <1>10, <2>1 DEF IInv, NothingFollowsExit
<1> QED BY <1>11, <1>12, <1>14, <1>15, <1>16 DEF IInv

LEMMA StopRemoteStep ==
  ASSUME IInv, NEW h \in SessionHandle, StopRemote(h)
  PROVE  IInv'
<1> DEFINE t == ThreadOf(h)
           stopped == [step |-> "stopped", handle |-> h]
<1>1. /\ LockFree /\ Has(h) /\ lock' = "close"
      /\ queue' = Sent(t, Exit)
      /\ job' = [job EXCEPT !["close"] = stopped]
      /\ UNCHANGED <<sessions, cursor, thread, device, eis>>
  BY DEF StopRemote
<1>2. job \in [Task -> Job] /\ "close" \in Task /\ stopped \in Job
  BY DEF IInv, TypeOK, PortalTypeOK, Task, Job
<1>3. \A q \in Task : job[q] = Idle
  BY <1>1, FreeMeansIdle
<1>4. t \in Live /\ t \in Thread
  BY <1>1, ThreadOfType DEF IInv
<1>5. \A u \in Thread : Told(u) => u \notin Live
  BY <1>2, <1>3 DEF IInv, ToldInv
<1>6. job'["close"] = stopped /\ \A q \in Task : q # "close" => job'[q] = Idle
  BY <1>1, <1>2, <1>3
<1>7. stopped # Idle /\ stopped.step = "stopped" /\ stopped.handle = h
  BY DEF Idle
<1>8. Live' = Live /\ ThreadOf(h)' = t
  BY <1>1 DEF Live, ThreadOf, IndexOf
<1> HIDE DEF t, stopped
<1>9. /\ queue' \in [Thread -> Seq(Request \cup {Exit})]
      /\ \A u \in Thread : u # t => queue'[u] = queue[u]
      /\ queue'[t] = queue[t] \/ (Receives(t) /\ queue'[t] = Append(queue[t], Exit))
  BY <1>1, <1>4, SentType
<1>10. queue[t] \in Seq(Request \cup {Exit})
  BY <1>4 DEF IInv, TypeOK, RemoteTypeOK
<1>11. TypeOK'
  <2>1. PortalTypeOK'
    BY <1>1, <1>2 DEF IInv, TypeOK, PortalTypeOK, Task
  <2>2. RemoteTypeOK' /\ EisTypeOK'
    BY <1>1, <1>9 DEF eis, IInv, TypeOK, RemoteTypeOK, EisTypeOK
  <2> QED BY <2>1, <2>2 DEF TypeOK
<1>12. SessionsInv' /\ DevicesInv'
  BY <1>1 DEF IInv, SessionsInv, DevicesInv
<1>13. JobsInv'
  <2>1. Has(h)'
    BY <1>1 DEF Has
  <2> QED BY <1>1, <1>6, <1>7, <2>1 DEF JobsInv, Task
<1>14. ToldInv'
  <2>1. \A u \in Thread : u # t => (Told(u)' <=> Told(u))
    BY <1>1, <1>9 DEF Told
  <2> QED BY <1>5, <1>6, <1>7, <1>8, <2>1 DEF ToldInv
<1>15. QueuesInv'
  <2>1. Receives(t) => thread[t] # "none"
    BY DEF Receives
  <2> QED BY <1>1, <1>9, <2>1 DEF IInv, QueuesInv
<1>16. NothingFollowsExit'
  <2>1. \A i \in DOMAIN queue[t] : queue[t][i] # Exit
    BY <1>4, <1>5 DEF Told
  <2>2. thread[t] \notin {"stopping", "ended"}
    BY <1>4, <1>5 DEF Told
  <2>3. \A i \in DOMAIN queue'[t] : queue'[t][i] = Exit => i = Len(queue'[t])
    <3>1. CASE queue'[t] = queue[t]
      BY <2>1, <3>1
    <3>2. CASE queue'[t] = Append(queue[t], Exit)
      BY <1>10, <2>1, <3>2
    <3> QED BY <1>9, <3>1, <3>2
  <2> QED BY <1>1, <1>9, <2>2, <2>3 DEF IInv, NothingFollowsExit
<1> QED BY <1>11, <1>12, <1>13, <1>14, <1>15, <1>16 DEF IInv

LEMMA RemoveListenerStep == ASSUME IInv, RemoveListener PROVE IInv'
<1>1. /\ job["close"].step = "stopped"
      /\ messages' = messages \o <<[kind |-> "Remove", handle |-> job["close"].handle]>>
      /\ job' = [job EXCEPT !["close"].step = "leaving"]
      /\ UNCHANGED <<sessions, cursor, lock, thread, queue, device>>
      /\ UNCHANGED <<inputs, clients, listener, connection, handleOf, owner>>
  BY DEF RemoveListener, RemoveMessage, remote
<1>2. job \in [Task -> Job] /\ "close" \in Task /\ messages \in Seq(Message)
  BY DEF IInv, TypeOK, PortalTypeOK, EisTypeOK, Task
<1>3. job["close"] \in [step : {"stopped", "leaving"}, handle : SessionHandle]
  <2>1. job["close"] \in Job
    BY <1>2
  <2> QED BY <1>1, <2>1 DEF Job, Idle
<1>4. PICK h \in SessionHandle : h = job["close"].handle
  BY <1>3
<1>5. /\ job'["close"] = [step |-> "leaving", handle |-> h]
      /\ job' \in [Task -> Job]
      /\ \A q \in Task : q # "close" => job'[q] = job[q]
  <2>1. [job["close"] EXCEPT !.step = "leaving"] = [step |-> "leaving", handle |-> h]
    BY <1>3, <1>4
  <2>2. [step |-> "leaving", handle |-> h] \in Job
    BY DEF Job
  <2> QED BY <1>1, <1>2, <2>1, <2>2
<1>6. job["close"] # Idle /\ job'["close"] # Idle /\ job'["close"].handle = h
  BY <1>1, <1>5 DEF Idle
<1>7. lock = "close" /\ Has(h)
  BY <1>1, <1>4, <1>6 DEF IInv, JobsInv
<1>8. TypeOK'
  <2>1. [kind |-> "Remove", handle |-> h] \in Message
    BY DEF Message
  <2>2. messages' \in Seq(Message)
    BY <1>1, <1>2, <1>4, <2>1
  <2> QED BY <1>1, <1>5, <2>2 DEF IInv, TypeOK, PortalTypeOK, RemoteTypeOK, EisTypeOK
<1>9. SessionsInv' /\ QueuesInv' /\ NothingFollowsExit' /\ DevicesInv'
  BY <1>1 DEF IInv, SessionsInv, QueuesInv, NothingFollowsExit, DevicesInv
<1>10. JobsInv'
  <2>1. Has(h)'
    BY <1>1, <1>7 DEF Has
  <2>2. \A p \in {"notify", "forward"} : p \in Task /\ p # "close"
    BY DEF Task
  <2>3. \A p \in {"notify", "forward"} :
          job'[p] = Idle \/ (job'[p].step = "found" /\ lock' = p /\ job'[p].thread \in Live')
    BY <1>1, <1>5, <2>2 DEF IInv, JobsInv, Live
  <2>4. job'["close"].step = "leaving"
    BY <1>5
  <2> QED BY <1>1, <1>6, <1>7, <2>1, <2>3, <2>4 DEF JobsInv
<1>11. ToldInv'
  <2>1. \A u \in Thread : Told(u)' <=> Told(u)
    BY <1>1 DEF Told
  <2>2. Live' = Live /\ ThreadOf(h)' = ThreadOf(h)
    BY <1>1 DEF Live, ThreadOf, IndexOf
  <2>3. \A u \in Thread : Told(u) => u \notin Live \/ u = ThreadOf(h)
    BY <1>4 DEF IInv, ToldInv
  <2>4. ThreadOf(job["close"].handle)' = ThreadOf(h)'
    BY <1>6 DEF ThreadOf, IndexOf
  <2> QED BY <1>6, <2>1, <2>2, <2>3, <2>4 DEF ToldInv
<1> QED BY <1>8, <1>9, <1>10, <1>11 DEF IInv

LEMMA RemoveSessionStep == ASSUME IInv, RemoveSession PROVE IInv'
<1>1. job \in [Task -> Job] /\ "close" \in Task
  BY DEF IInv, TypeOK, PortalTypeOK, Task
<1>2. job["close"].step = "leaving" /\ job["close"] # Idle
  BY DEF RemoveSession, Idle
<1>3. PICK h : h = job["close"].handle /\ Has(h)
  BY <1>2 DEF IInv, JobsInv
<1>4. PICK i \in DOMAIN sessions : i = IndexOf(h) /\ sessions[i].handle = h
  BY <1>3, IndexOfType
<1>5. /\ sessions' = SubSeq(sessions, 1, i - 1) \o SubSeq(sessions, i + 1, Len(sessions))
      /\ lock' = None /\ job' = [job EXCEPT !["close"] = Idle]
      /\ UNCHANGED <<cursor, thread, queue, device, eis>>
  BY <1>3, <1>4 DEF RemoveSession, remote
<1>6. /\ sessions \in Seq([handle : SessionHandle, thread : Thread])
      /\ Len(sessions) \in Nat /\ i \in 1 .. Len(sessions) /\ DOMAIN sessions = 1 .. Len(sessions)
  BY SessionsTyped DEF IInv
<1>7. /\ sessions' \in Seq([handle : SessionHandle, thread : Thread])
      /\ DOMAIN sessions' = 1 .. Len(sessions) - 1
      /\ \A j \in DOMAIN sessions' : sessions'[j] = sessions[IF j < i THEN j ELSE j + 1]
  BY <1>5, <1>6, WithoutIndex
<1>8. \A q \in Task : job'[q] = Idle
  BY <1>1, <1>2, <1>5, OthersAreIdle
<1>9. TypeOK'
  <2>1. job' \in [Task -> Job]
    BY <1>1, <1>5 DEF Job
  <2>2. PortalTypeOK'
    BY <1>5, <1>7, <2>1 DEF IInv, TypeOK, PortalTypeOK
  <2> QED BY <1>5, <2>2 DEF eis, IInv, TypeOK, RemoteTypeOK, EisTypeOK
<1>10. \A j \in DOMAIN sessions' : \E k \in DOMAIN sessions \ {i} :
         sessions'[j] = sessions[k] /\ k = IF j < i THEN j ELSE j + 1
  <2> SUFFICES ASSUME NEW j \in DOMAIN sessions'
               PROVE  \E k \in DOMAIN sessions \ {i} :
                        sessions'[j] = sessions[k] /\ k = IF j < i THEN j ELSE j + 1
    OBVIOUS
  <2>1. j \in 1 .. Len(sessions) - 1
    BY <1>7
  <2>2. (IF j < i THEN j ELSE j + 1) \in DOMAIN sessions \ {i}
    BY <1>6, <2>1
  <2> QED BY <1>7, <2>2
<1>11. SessionsInv'
  <2>1. \A j \in DOMAIN sessions' : thread'[sessions'[j].thread] # "none"
    <3>1. \A k \in DOMAIN sessions : thread[sessions[k].thread] # "none"
      BY DEF IInv, SessionsInv
    <3> QED BY <1>5, <1>10, <3>1
  <2>2. ASSUME NEW j \in DOMAIN sessions', NEW k \in DOMAIN sessions',
               \/ sessions'[j].thread = sessions'[k].thread
               \/ sessions'[j].handle = sessions'[k].handle
        PROVE  j = k
    <3>1. (IF j < i THEN j ELSE j + 1) = (IF k < i THEN k ELSE k + 1)
      BY <1>10, <2>2 DEF IInv, SessionsInv
    <3>2. j \in Int /\ k \in Int /\ i \in Int
      BY <1>6, <1>7
    <3> QED BY <3>1, <3>2
  <2> QED BY <2>1, <2>2 DEF SessionsInv
<1>12. JobsInv'
  BY <1>8 DEF JobsInv, Task
<1>13. ToldInv'
  <2>1. Live' \subseteq Live /\ sessions[i].thread \notin Live'
    BY <1>6, <1>10 DEF Live, IInv, SessionsInv
  <2>2. sessions[i].thread = ThreadOf(h)
    BY <1>4 DEF ThreadOf
  <2>3. \A u \in Thread : Told(u)' <=> Told(u)
    BY <1>5 DEF Told
  <2> QED BY <1>3, <2>1, <2>2, <2>3 DEF IInv, ToldInv
<1>14. QueuesInv' /\ NothingFollowsExit' /\ DevicesInv'
  BY <1>5 DEF IInv, QueuesInv, NothingFollowsExit, DevicesInv
<1> QED BY <1>9, <1>11, <1>12, <1>13, <1>14 DEF IInv

-----------------------------------------------------------------------------
(***************************************************************************)
(* The remote threads.                                                     *)
(***************************************************************************)
ThreadState == {"none", "starting", "running", "stopping", "ended", "failed"}

\* A step of one thread leaves the portal and the EIS server alone, and nobody
\* is told to exit who was not told before.
LEMMA ThreadStep ==
  ASSUME IInv, NEW t \in Thread, NEW state \in ThreadState \ {"none"},
         thread[t] # "none", thread' = [thread EXCEPT ![t] = state],
         UNCHANGED <<portal, eis>>,
         queue' \in [Thread -> Seq(Request \cup {Exit})],
         \A u \in Thread : u # t => queue'[u] = queue[u] /\ device'[u] = device[u],
         device' \in [Thread -> Device],
         Told(t)' => Told(t),
         \A i \in DOMAIN queue'[t] : queue'[t][i] = Exit => i = Len(queue'[t]),
         state \in {"stopping", "ended"} => queue'[t] = <<>> /\ device'[t].pressed = {},
         DeviceInv(device'[t])
  PROVE  IInv'
<1>1. thread \in [Thread -> ThreadState]
  BY DEF IInv, TypeOK, RemoteTypeOK, ThreadState
<1>2. /\ thread' \in [Thread -> ThreadState] /\ thread'[t] = state
      /\ \A u \in Thread : u # t => thread'[u] = thread[u]
  BY <1>1
<1>3. UNCHANGED <<sessions, cursor, lock, job>>
  BY DEF portal
<1>4. TypeOK'
  BY <1>2, <1>3 DEF eis, IInv, TypeOK, PortalTypeOK, RemoteTypeOK, EisTypeOK, ThreadState
<1>5. SessionsInv'
  <2>1. \A i \in DOMAIN sessions : sessions[i].thread \in Thread /\ thread[sessions[i].thread] # "none"
    BY SessionsTyped DEF IInv, SessionsInv
  <2>2. \A i \in DOMAIN sessions' : thread'[sessions'[i].thread] # "none"
    BY <1>2, <1>3, <2>1
  <2> QED BY <1>3, <2>2 DEF IInv, SessionsInv
<1>6. JobsInv'
  BY <1>3 DEF IInv, JobsInv, Live, Has
<1>7. ToldInv'
  <2>1. \A u \in Thread : Told(u)' => Told(u)
    BY <1>2 DEF Told
  <2>2. Live' = Live /\ \A h : ThreadOf(h)' = ThreadOf(h)
    BY <1>3 DEF Live, ThreadOf, IndexOf
  <2> QED BY <1>3, <2>1, <2>2 DEF IInv, ToldInv
<1>8. QueuesInv' /\ NothingFollowsExit'
  BY <1>2 DEF IInv, QueuesInv, NothingFollowsExit
<1>9. DevicesInv'
  BY <1>2 DEF IInv, DevicesInv
<1> QED BY <1>4, <1>5, <1>6, <1>7, <1>8, <1>9 DEF IInv

LEMMA QueueTyped ==
  ASSUME IInv
  PROVE  queue \in [Thread -> Seq(Request \cup {Exit})] /\ device \in [Thread -> Device]
BY DEF IInv, TypeOK, RemoteTypeOK

LEMMA DevicesReadyStep ==
  ASSUME IInv, NEW t \in Thread, DevicesReady(t)
  PROVE  IInv'
<1>1. /\ thread[t] = "starting" /\ thread' = [thread EXCEPT ![t] = "running"]
      /\ queue' = queue /\ device' = device /\ UNCHANGED <<portal, eis>>
  BY DEF DevicesReady
<1>2. "running" \in ThreadState \ {"none"}
  BY DEF ThreadState
<1>3. thread'[t] = "running"
  BY <1>1 DEF IInv, TypeOK, RemoteTypeOK
<1>4. Told(t)' => Told(t)
  BY <1>1, <1>3 DEF Told
<1>5. /\ \A i \in DOMAIN queue'[t] : queue'[t][i] = Exit => i = Len(queue'[t])
      /\ DeviceInv(device'[t])
  BY <1>1 DEF IInv, NothingFollowsExit, DevicesInv
<1> QED BY <1>1, <1>2, <1>4, <1>5, QueueTyped, ThreadStep

LEMMA ThreadFailsStep ==
  ASSUME IInv, NEW t \in Thread, ThreadFails(t)
  PROVE  IInv'
<1>1. /\ thread[t] # "none" /\ thread' = [thread EXCEPT ![t] = "failed"]
      /\ queue' = [queue EXCEPT ![t] = <<>>] /\ device' = device
      /\ UNCHANGED <<portal, eis>>
  BY DEF ThreadFails
<1>2. "failed" \in ThreadState \ {"none"}
  BY DEF ThreadState
<1>3. /\ queue' \in [Thread -> Seq(Request \cup {Exit})] /\ queue'[t] = <<>>
      /\ \A u \in Thread : u # t => queue'[u] = queue[u]
  BY <1>1, QueueTyped
<1>4. thread'[t] = "failed"
  BY <1>1 DEF IInv, TypeOK, RemoteTypeOK
<1>5. Told(t)' => Told(t)
  BY <1>3, <1>4 DEF Told
<1>6. /\ \A i \in DOMAIN queue'[t] : queue'[t][i] = Exit => i = Len(queue'[t])
      /\ \A u \in Thread : u # t => queue'[u] = queue[u] /\ device'[u] = device[u]
  BY <1>1, <1>3
<1>7. DeviceInv(device'[t]) /\ device' \in [Thread -> Device]
  BY <1>1, QueueTyped DEF IInv, DevicesInv
<1> QED BY <1>1, <1>2, <1>3, <1>5, <1>6, <1>7, ThreadStep

LEMMA LoopEndsStep ==
  ASSUME IInv, NEW t \in Thread, LoopEnds(t)
  PROVE  IInv'
<1>1. /\ thread[t] = "stopping" /\ queue[t] = <<>>
      /\ thread' = [thread EXCEPT ![t] = "ended"]
      /\ queue' = queue /\ device' = device /\ UNCHANGED <<portal, eis>>
  BY DEF LoopEnds
<1>2. "ended" \in ThreadState \ {"none"}
  BY DEF ThreadState
<1>3. Told(t)
  BY <1>1 DEF Told
<1>4. DeviceInv(device'[t]) /\ device'[t].pressed = {}
  BY <1>1 DEF IInv, DevicesInv
<1>5. /\ queue'[t] = <<>> /\ \A i \in DOMAIN queue'[t] : queue'[t][i] = Exit => i = Len(queue'[t])
      /\ \A u \in Thread : u # t => queue'[u] = queue[u] /\ device'[u] = device[u]
  BY <1>1
<1>6. thread[t] # "none"
  BY <1>1
<1> QED BY <1>1, <1>2, <1>3, <1>4, <1>5, <1>6, QueueTyped, ThreadStep

LEMMA HandleRequestStep ==
  ASSUME IInv, NEW t \in Thread, HandleRequest(t)
  PROVE  IInv'
<1> DEFINE r == Head(queue[t])
           state == AfterRequest(t, r)
<1>1. /\ thread[t] \in {"running", "stopping"} /\ queue[t] # <<>>
      /\ queue' = [queue EXCEPT ![t] = Tail(queue[t])]
      /\ device' = [device EXCEPT ![t] = Handled(device[t], r)]
      /\ thread' = [thread EXCEPT ![t] = state]
      /\ UNCHANGED <<portal, eis>>
  BY DEF HandleRequest
<1>2. thread[t] = "running"
  BY <1>1 DEF IInv, NothingFollowsExit
<1>3. /\ queue[t] \in Seq(Request \cup {Exit}) /\ r \in Request \cup {Exit}
      /\ Tail(queue[t]) \in Seq(Request \cup {Exit})
  BY <1>1, QueueTyped, TakenTyped
<1>4. DeviceInv(Handled(device[t], r)) /\ (r = Exit => Handled(device[t], r).pressed = {})
  <2>1. DeviceInv(device[t])
    BY DEF IInv, DevicesInv
  <2>2. CASE r = Exit
    <3>1. Handled(device[t], r) = NotifyButtonClear(device[t])
      BY <2>2 DEF Handled, Exit
    <3> QED BY <2>1, <3>1, ClearInv
  <2>3. CASE r # Exit
    <3>1. r \in InputRequest
      BY <1>3, <2>3, InputAssumption DEF InputAssumption
    <3> QED BY <2>1, <2>3, <3>1, HandledInv
  <2> QED BY <2>2, <2>3
<1>5. state = IF r = Exit THEN "stopping" ELSE "running"
  BY <1>2 DEF AfterRequest
<1>6. state \in ThreadState \ {"none"}
  BY <1>5 DEF ThreadState
<1>7. /\ Len(Tail(queue[t])) = Len(queue[t]) - 1 /\ Len(queue[t]) \in Nat
      /\ \A i \in DOMAIN Tail(queue[t]) :
           i \in Nat /\ i + 1 \in DOMAIN queue[t] /\ Tail(queue[t])[i] = queue[t][i + 1]
      /\ 1 \in DOMAIN queue[t] /\ queue[t][1] = r
  BY <1>1, <1>3
<1>8. \A i \in DOMAIN queue[t] : queue[t][i] = Exit => i = Len(queue[t])
  BY DEF IInv, NothingFollowsExit
<1>9. r = Exit => Tail(queue[t]) = <<>>
  <2> SUFFICES ASSUME r = Exit PROVE Tail(queue[t]) = <<>>
    OBVIOUS
  <2>1. Len(queue[t]) = 1
    BY <1>7, <1>8
  <2> HIDE DEF r
  <2> QED BY <1>3, <1>7, <2>1
<1> HIDE DEF r, state
<1>10. /\ queue' \in [Thread -> Seq(Request \cup {Exit})] /\ queue'[t] = Tail(queue[t])
       /\ \A u \in Thread : u # t => queue'[u] = queue[u] /\ device'[u] = device[u]
       /\ device'[t] = Handled(device[t], r)
  BY <1>1, <1>3, QueueTyped
<1>11. device' \in [Thread -> Device]
  BY <1>1, <1>4, QueueTyped DEF DeviceInv
<1>12. \A i \in DOMAIN queue'[t] : queue'[t][i] = Exit => i = Len(queue'[t])
  BY <1>7, <1>8, <1>10
<1>13. Told(t)' => Told(t)
  <2>1. thread'[t] = state
    BY <1>1 DEF IInv, TypeOK, RemoteTypeOK
  <2> QED BY <1>5, <1>7, <1>10, <2>1 DEF Told
<1>14. state \in {"stopping", "ended"} => queue'[t] = <<>> /\ device'[t].pressed = {}
  BY <1>4, <1>5, <1>9, <1>10
<1>15. DeviceInv(device'[t]) /\ thread[t] # "none"
  BY <1>2, <1>4, <1>10
<1> QED BY <1>1, <1>6, <1>10, <1>11, <1>12, <1>13, <1>14, <1>15, ThreadStep

-----------------------------------------------------------------------------
(***************************************************************************)
(* The EIS server, and the calls that only talk to it: they leave alone    *)
(* what the invariant is about.                                            *)
(***************************************************************************)
LEMMA EisStep ==
  ASSUME IInv, UNCHANGED <<portal, remote>>, EisTypeOK'
  PROVE  IInv'
<1>1. UNCHANGED <<sessions, cursor, lock, job, thread, queue, device>>
  BY DEF portal, remote
<1>2. TypeOK'
  BY <1>1 DEF IInv, TypeOK, PortalTypeOK, RemoteTypeOK
<1>3. SessionsInv' /\ QueuesInv' /\ NothingFollowsExit' /\ DevicesInv'
  BY <1>1 DEF IInv, SessionsInv, QueuesInv, NothingFollowsExit, DevicesInv
<1>4. JobsInv' /\ ToldInv'
  BY <1>1 DEF IInv, JobsInv, ToldInv, Told, Live, Has, ThreadOf, IndexOf
<1> QED BY <1>2, <1>3, <1>4 DEF IInv

LEMMA ConnectStep ==
  ASSUME IInv, NEW h \in SessionHandle, NEW l \in Listener, ConnectToEIS(h, l)
  PROVE  IInv'
<1> DEFINE new == [kind |-> "New", handle |-> h, listener |-> l]
           its == IF Has(h) /\ ~(job["close"].step = "leaving" /\ job["close"].handle = h)
                  THEN ThreadOf(h) ELSE None
<1>1. /\ handleOf' = [handleOf EXCEPT ![l] = h] /\ owner' = [owner EXCEPT ![l] = its]
      /\ connection' = [connection EXCEPT ![l] = "waiting"]
      /\ messages' = Append(messages, new)
      /\ UNCHANGED <<portal, remote>> /\ UNCHANGED <<inputs, clients, listener>>
  BY DEF ConnectToEIS
<1>2. its \in Thread \cup {None} /\ new \in Message
  BY ThreadOfType DEF IInv, Message
<1> HIDE DEF its, new
<1>3. EisTypeOK'
  BY <1>1, <1>2 DEF IInv, TypeOK, EisTypeOK
<1> QED BY <1>1, <1>3, EisStep

LEMMA ToggleStep ==
  ASSUME IInv, NEW h \in SessionHandle, NEW kind \in {"Active", "Stop"}, Toggle(h, kind)
  PROVE  IInv'
<1> DEFINE m == [kind |-> kind, handle |-> h]
<1>1. m \in Message
  BY DEF Message
<1>2. messages' = Append(messages, m) /\ UNCHANGED <<portal, remote>>
  BY DEF Toggle
<1> HIDE DEF m
<1>3. EisTypeOK'
  BY <1>1, <1>2 DEF Toggle, IInv, TypeOK, EisTypeOK
<1> QED BY <1>2, <1>3, EisStep

LEMMA TakeMessageStep == ASSUME IInv, TakeMessage PROVE IInv'
<1>1. PICK m : /\ m = Head(messages) /\ messages # <<>> /\ messages' = Tail(messages)
               /\ NewListener(m) \/ SwitchListener(m) \/ DropListener(m) \/ UnknownSession(m)
               /\ UNCHANGED <<portal, remote>> /\ UNCHANGED <<inputs, handleOf, owner>>
  BY DEF TakeMessage
<1>2. messages \in Seq(Message)
  BY DEF IInv, TypeOK, EisTypeOK
<1>3. m \in Message /\ messages' \in Seq(Message)
  BY <1>1, <1>2, TakenTyped
<1>4. /\ clients \in [SessionHandle -> Listener \cup {None}]
      /\ listener \in [Listener -> {"none", "on", "off", "gone"}]
      /\ connection \in [Listener -> {"none", "waiting", "open", "refused", "closed"}]
  BY DEF IInv, TypeOK, EisTypeOK
<1>5. /\ clients' \in [SessionHandle -> Listener \cup {None}]
      /\ listener' \in [Listener -> {"none", "on", "off", "gone"}]
      /\ connection' \in [Listener -> {"none", "waiting", "open", "refused", "closed"}]
  <2>1. CASE NewListener(m)
    <3>1. m.listener \in Listener
      BY <1>3, <2>1 DEF NewListener, Message
    <3> QED BY <1>4, <2>1, <3>1 DEF NewListener
  <2>2. CASE SwitchListener(m)
    BY <1>4, <2>2 DEF SwitchListener
  <2>3. CASE DropListener(m)
    BY <1>4, <2>3 DEF DropListener
  <2>4. CASE UnknownSession(m)
    BY <1>4, <2>4 DEF UnknownSession
  <2> QED BY <1>1, <2>1, <2>2, <2>3, <2>4
<1>6. EisTypeOK'
  BY <1>1, <1>3, <1>5 DEF IInv, TypeOK, EisTypeOK
<1> QED BY <1>1, <1>6, EisStep

LEMMA ConnectionStep ==
  ASSUME IInv, NEW l \in Listener, Accept(l) \/ ClientLeaves(l)
  PROVE  IInv'
<1>1. /\ UNCHANGED <<portal, remote>>
      /\ UNCHANGED <<inputs, messages, clients, listener, handleOf, owner>>
      /\ \/ connection' = [connection EXCEPT ![l] = "open"]
         \/ connection' = [connection EXCEPT ![l] = "closed"]
  BY DEF Accept, ClientLeaves
<1>2. EisTypeOK'
  BY <1>1 DEF IInv, TypeOK, EisTypeOK
<1> QED BY <1>1, <1>2, EisStep

LEMMA EisInputStep ==
  ASSUME IInv, NEW l \in Listener, NEW r \in EisRequest, EisInput(l, r),
         handleOf[l] \in SessionHandle
  PROVE  IInv'
<1> DEFINE input == [handle |-> handleOf[l], request |-> r]
<1>1. /\ inputs' = Append(inputs, input)
      /\ UNCHANGED <<portal, remote>>
      /\ UNCHANGED <<messages, clients, listener, connection, handleOf, owner>>
  BY DEF EisInput
<1>2. input \in [handle : SessionHandle, request : EisRequest]
  OBVIOUS
<1> HIDE DEF input
<1>3. EisTypeOK'
  BY <1>1, <1>2 DEF IInv, TypeOK, EisTypeOK
<1> QED BY <1>1, <1>3, EisStep

\* A connection is one to a listener of some session.
HandlesInv == \A l \in Listener : connection[l] # "none" => handleOf[l] \in SessionHandle

LEMMA HandlesStep ==
  ASSUME IInv, HandlesInv, [Next]_vars
  PROVE  HandlesInv'
<1>1. /\ connection \in [Listener -> {"none", "waiting", "open", "refused", "closed"}]
      /\ handleOf \in [Listener -> SessionHandle \cup {None}]
      /\ messages \in Seq(Message)
  BY DEF IInv, TypeOK, EisTypeOK
<1>2. CASE UNCHANGED <<connection, handleOf>>
  BY <1>2 DEF HandlesInv
<1>3. ASSUME NEW h \in SessionHandle, NEW l \in Listener, ConnectToEIS(h, l)
      PROVE  HandlesInv'
  BY <1>1, <1>3 DEF ConnectToEIS, HandlesInv
<1>4. CASE TakeMessage
  <2>1. UNCHANGED handleOf
    BY <1>4 DEF TakeMessage
  <2>2. connection' = connection \/ \E l : /\ connection' = [connection EXCEPT ![l] =
                                               IF @ = "waiting" THEN "refused" ELSE @]
    BY <1>4 DEF TakeMessage, NewListener, SwitchListener, DropListener, UnknownSession
  <2>3. \A l \in Listener : connection'[l] # "none" => connection[l] # "none"
    BY <1>1, <2>2
  <2> QED BY <2>1, <2>3 DEF HandlesInv
<1>5. ASSUME NEW l \in Listener, Accept(l) \/ ClientLeaves(l)
      PROVE  HandlesInv'
  <2>1. /\ UNCHANGED handleOf /\ connection[l] # "none"
        /\ \A k \in Listener : k # l => connection'[k] = connection[k]
    BY <1>1, <1>5 DEF Accept, ClientLeaves
  <2> QED BY <2>1 DEF HandlesInv
<1>6. ASSUME NEW t \in Thread, RemoteThread(t) \/ ThreadFails(t)
      PROVE  UNCHANGED <<connection, handleOf>>
  BY <1>6 DEF RemoteThread, DevicesReady, ThreadFails, HandleRequest, LoopEnds, eis
<1>7. CASE Portals
  <2>1. ASSUME NEW h \in SessionHandle, NEW t \in Thread, StartSession(h, t)
        PROVE  UNCHANGED <<connection, handleOf>>
    BY <2>1 DEF StartSession, eis
  <2>2. ASSUME NEW h \in SessionHandle, NEW r \in Request, Notify(h, r)
        PROVE  UNCHANGED <<connection, handleOf>>
    BY <2>2 DEF Notify, eis
  <2>3. ASSUME Forward \/ RemoveListener
        PROVE  UNCHANGED <<connection, handleOf>>
    BY <2>3 DEF Forward, RemoveListener
  <2>4. ASSUME NEW p \in {"notify", "forward"}, SendRequest(p)
        PROVE  UNCHANGED <<connection, handleOf>>
    BY <2>4 DEF SendRequest, eis
  <2>5. ASSUME NEW h \in SessionHandle, StopRemote(h)
        PROVE  UNCHANGED <<connection, handleOf>>
    BY <2>5 DEF StopRemote, eis
  <2>6. ASSUME RemoveSession
        PROVE  UNCHANGED <<connection, handleOf>>
    BY <2>6 DEF RemoveSession, eis
  <2>7. ASSUME NEW h \in SessionHandle, NEW kind \in {"Active", "Stop"}, Toggle(h, kind)
        PROVE  UNCHANGED <<connection, handleOf>>
    BY <2>7 DEF Toggle
  <2> QED BY <1>2, <1>3, <1>7, <2>1, <2>2, <2>3, <2>4, <2>5, <2>6, <2>7 DEF Portals
<1>8. ASSUME NEW l \in Listener, NEW r \in EisRequest, EisInput(l, r)
      PROVE  UNCHANGED <<connection, handleOf>>
  BY <1>8 DEF EisInput
<1>9. CASE UNCHANGED vars
  BY <1>2, <1>9 DEF vars, eis
<1> QED BY <1>2, <1>4, <1>5, <1>6, <1>7, <1>8, <1>9 DEF Next, EisServer

-----------------------------------------------------------------------------
(***************************************************************************)
(* The invariant of the specification.                                     *)
(***************************************************************************)
LEMMA InitInv == Init => IInv /\ HandlesInv
<1> SUFFICES ASSUME Init PROVE IInv /\ HandlesInv
  OBVIOUS
<1>1. sessions = <<>> /\ \A p \in Task : job[p] = Idle
  BY DEF Init
<1>2. \A t \in Thread : /\ thread[t] = "none" /\ queue[t] = <<>> /\ device[t] = Unplugged
  BY DEF Init
<1>3. \A t \in Thread : DeviceInv(device[t])
  BY <1>2, UnpluggedInv
<1>4. TypeOK
  <2>1. PortalTypeOK
    BY DEF Init, PortalTypeOK, Job
  <2>2. RemoteTypeOK
    BY UnpluggedInv DEF Init, RemoteTypeOK, DeviceInv
  <2>3. EisTypeOK
    BY DEF Init, EisTypeOK
  <2> QED BY <2>1, <2>2, <2>3 DEF TypeOK
<1>5. SessionsInv /\ JobsInv
  BY <1>1 DEF SessionsInv, JobsInv, Task
<1>6. \A t \in Thread : ~Told(t)
  BY <1>2 DEF Told
<1>7. QueuesInv /\ ToldInv /\ NothingFollowsExit /\ DevicesInv
  BY <1>2, <1>3, <1>6 DEF QueuesInv, ToldInv, NothingFollowsExit, DevicesInv
<1>8. HandlesInv
  BY DEF Init, HandlesInv
<1> QED BY <1>4, <1>5, <1>7, <1>8 DEF IInv

LEMMA NextInv ==
  ASSUME IInv, HandlesInv, [Next]_vars
  PROVE  IInv' /\ HandlesInv'
<1>1. ASSUME Portals PROVE IInv'
  BY <1>1, StartSessionStep, NotifyStep, ForwardStep, SendRequestStep, StopRemoteStep,
     RemoveListenerStep, RemoveSessionStep, ConnectStep, ToggleStep DEF Portals
<1>2. ASSUME NEW t \in Thread, RemoteThread(t) \/ ThreadFails(t) PROVE IInv'
  BY <1>2, DevicesReadyStep, ThreadFailsStep, HandleRequestStep, LoopEndsStep DEF RemoteThread
<1>3. ASSUME EisServer PROVE IInv'
  <2>1. ASSUME NEW l \in Listener, NEW r \in EisRequest, EisInput(l, r) PROVE IInv'
    <3>1. handleOf[l] \in SessionHandle
      BY <2>1 DEF EisInput, HandlesInv
    <3> QED BY <2>1, <3>1, EisInputStep
  <2> QED BY <1>3, <2>1, TakeMessageStep, ConnectionStep DEF EisServer
<1>4. CASE UNCHANGED vars
  <2>1. UNCHANGED <<portal, remote>> /\ EisTypeOK'
    BY <1>4 DEF vars, eis, IInv, TypeOK, EisTypeOK
  <2> QED BY <2>1, EisStep, HandlesStep
<1> QED BY <1>1, <1>2, <1>3, <1>4, HandlesStep DEF Next

-----------------------------------------------------------------------------
(***************************************************************************)
(* The cursor.  The session moves it when a request is sent, the thread    *)
(* moves the pointer when it handles the request.  A path of a channel     *)
(* says where the cursor was before each request that is still in it: it   *)
(* begins where the pointer is and ends at the cursor.                     *)
(***************************************************************************)
LEMMA SmallRemainder ==
  ASSUME NEW n \in Nat \ {0}, NEW o \in Int, -n <= o, o < n
  PROVE  o % n = IF o < 0 THEN o + n ELSE o
OBVIOUS

LEMMA OneWrap ==
  ASSUME NEW n \in Nat \ {0}, NEW o \in Int, 0 <= o, o < 2 * n
  PROVE  o % n = IF o < n THEN o ELSE o - n
OBVIOUS

\* The casts to u32 and the sum that wraps give the position, whenever it is in
\* the desktop and not left of the origin.
LEMMA ShiftedExact ==
  ASSUME NEW x \in Int, x >= 0, x + Offset \in 0 .. Space - 1
  PROVE  Shifted(x) = x + Offset
<1> DEFINE n == 2 ^ Width
<1>1. /\ n \in Nat \ {0} /\ 2 * Space <= n /\ -n <= 2 * Offset /\ 2 * Offset < n
      /\ Space \in Nat \ {0} /\ Offset \in Int
  BY DeviceAssumption, WidthAssumption DEF DeviceAssumption, WidthAssumption
<1>2. Shifted(x) = ((IF x < n THEN x ELSE n - 1) + (Offset % n)) % n
  BY DEF Shifted, ToU32
<1> HIDE DEF n
<1>3. x < n
  BY <1>1
<1>4. Offset % n = IF Offset < 0 THEN Offset + n ELSE Offset
  <2>1. -n <= Offset /\ Offset < n
    BY <1>1
  <2> QED BY <1>1, <2>1, SmallRemainder
<1>5. (x + (Offset % n)) % n = x + Offset
  <2>1. CASE Offset < 0
    <3> DEFINE sum == x + (Offset + n)
    <3>1. sum \in Int /\ 0 <= sum /\ sum < 2 * n /\ ~(sum < n) /\ sum - n = x + Offset
      BY <1>1, <1>3, <2>1
    <3>2. sum % n = sum - n
      <4> HIDE DEF sum
      <4> QED BY <1>1, <3>1, OneWrap
    <3>3. (x + (Offset % n)) % n = sum % n
      BY <1>4, <2>1
    <3> QED BY <3>1, <3>2, <3>3
  <2>2. CASE ~(Offset < 0)
    <3>1. x + Offset \in Int /\ 0 <= x + Offset /\ x + Offset < 2 * n /\ x + Offset < n
      BY <1>1, <1>3, <2>2
    <3>2. (x + Offset) % n = x + Offset
      BY <1>1, <3>1, OneWrap
    <3>3. (x + (Offset % n)) % n = (x + Offset) % n
      BY <1>4, <2>2
    <3> QED BY <3>2, <3>3
  <2> QED BY <2>1, <2>2
<1>6. (IF x < n THEN x ELSE n - 1) = x
  BY <1>3
<1> QED BY <1>2, <1>5, <1>6

\* For a position left of the origin they give one beyond the right edge.
LEMMA ShiftedBeyond ==
  ASSUME NEW x \in Int, x >= 0, Inside(x + Offset), x + Offset < 0
  PROVE  Shifted(x) \in Int /\ Shifted(x) >= Space
<1> DEFINE n == 2 ^ Width
           sum == x + (Offset + n)
<1>1. /\ n \in Nat \ {0} /\ 2 * Space <= n /\ 2 * Left <= n /\ -n <= 2 * Offset
      /\ Space \in Nat \ {0} /\ Left \in Nat /\ Offset \in Int /\ Offset < 0
  BY DeviceAssumption, WidthAssumption DEF DeviceAssumption, WidthAssumption
<1>2. Shifted(x) = ((IF x < n THEN x ELSE n - 1) + (Offset % n)) % n
  BY DEF Shifted, ToU32
<1> HIDE DEF n
<1>3. x < n /\ -n <= Offset /\ Offset < n
  BY <1>1
<1>4. Offset % n = Offset + n
  BY <1>1, <1>3, SmallRemainder
<1>5. sum \in Int /\ 0 <= sum /\ sum < n /\ sum < 2 * n /\ sum >= Space
  BY <1>1, <1>3 DEF Inside
<1>6. Shifted(x) = sum % n
  BY <1>2, <1>3, <1>4
<1>7. sum % n = sum
  <2> HIDE DEF sum
  <2> QED BY <1>1, <1>5, OneWrap
<1> QED BY <1>5, <1>6, <1>7

\* The pointer is where the caller put it, or on the right edge for a position
\* left of the origin.
Pointed(d, c) ==
  /\ d.seat.aim = "there" => d.seat.x = c + Offset
  /\ d.seat.aim = "astray" => c + Offset < 0 /\ d.seat.x = Space - 1

\* Requests that leave the pointer alone.
LEMMA Unmoved ==
  ASSUME NEW d, NEW e, NEW c, Pointed(d, c),
         e.seat.x = d.seat.x, e.seat.aim = d.seat.aim
  PROVE  Pointed(e, c)
BY DEF Pointed

LEMMA MoveTo ==
  ASSUME NEW d \in Device, NEW to \in Int, NEW aim \in Aims, NEW c,
         aim = "there" => Inside(to) /\ to = c + Offset,
         aim = "astray" => c + Offset < 0 /\ to >= Space
  PROVE  Pointed([d EXCEPT !.seat = SeatMove(@, to, aim)], c)
<1> DEFINE new == [d EXCEPT !.seat = SeatMove(@, to, aim)]
<1>1. new.seat = SeatMove(d.seat, to, aim)
  BY DEF Device
<1>2. SeatMove(d.seat, to, aim).aim = aim
  BY DEF SeatMove, Device
<1>3. aim = "there" => SeatMove(d.seat, to, aim).x = to
  BY DeviceAssumption DEF SeatMove, Device, Inside, DeviceAssumption
<1>4. aim = "astray" => SeatMove(d.seat, to, aim).x = Space - 1
  BY DeviceAssumption DEF SeatMove, Device, Inside, DeviceAssumption
<1> QED BY <1>1, <1>2, <1>3, <1>4 DEF Pointed

LEMMA KeycodeUnmoved ==
  ASSUME NEW d \in Device, NEW key, NEW press
  PROVE  /\ NotifyKeycode(d, key, press).seat.x = d.seat.x
         /\ NotifyKeycode(d, key, press).seat.aim = d.seat.aim
BY DEF NotifyKeycode, Device

LEMMA KeysymUnmoved ==
  ASSUME NEW d, DeviceInv(d), NEW key, NEW level \in Nat, NEW press \in BOOLEAN
  PROVE  /\ NotifyKeysym(d, key, level, press).seat.x = d.seat.x
         /\ NotifyKeysym(d, key, level, press).seat.aim = d.seat.aim
<1> DEFINE with == CASE level = 1 -> NotifyKeycode(d, "LEFT_SHIFT", press)
                     [] level = 2 -> NotifyKeycode(d, "ALTGR", press)
                     [] OTHER -> d
<1>1. d \in Device
  BY DEF DeviceInv
<1>2. with \in Device /\ with.seat.x = d.seat.x /\ with.seat.aim = d.seat.aim
  <2>1. CASE level = 1
    <3>1. DeviceInv(NotifyKeycode(d, "LEFT_SHIFT", press))
      BY KeycodeInv DEF Keycode, ModifierKey
    <3> QED BY <1>1, <2>1, <3>1, KeycodeUnmoved DEF DeviceInv
  <2>2. CASE level = 2
    <3>1. DeviceInv(NotifyKeycode(d, "ALTGR", press))
      BY KeycodeInv DEF Keycode, ModifierKey
    <3> QED BY <1>1, <2>2, <3>1, KeycodeUnmoved DEF DeviceInv
  <2>3. CASE level # 1 /\ level # 2
    BY <1>1, <2>3
  <2> QED BY <2>1, <2>2, <2>3
<1>3. NotifyKeysym(d, key, level, press) = IF key = None THEN d ELSE NotifyKeycode(with, key, press)
  BY DEF NotifyKeysym
<1> HIDE DEF with
<1> QED BY <1>2, <1>3, KeycodeUnmoved

\* Every request moves the pointer as the session moved the cursor for it, or
\* there is nothing to compare any more.
LEMMA HandledPointed ==
  ASSUME NEW d, DeviceInv(d), NEW c \in Int, Pointed(d, c), NEW r \in InputRequest
  PROVE  Pointed(Handled(d, r), Moved(c, r))
<1>0. d \in Device /\ d.seat.x \in Int /\ Offset \in Int /\ "none" \in Aims
  BY DeviceAssumption DEF DeviceInv, Device, Aims, DeviceAssumption
<1>1. CASE r \in [kind : {"PointerMotion"}, dx : Int]
  <2>1. Handled(d, r) = NotifyMotion(d, r.dx) /\ Moved(c, r) = c + r.dx
    BY <1>1 DEF Handled, Moved
  <2> DEFINE aim == IF d.seat.aim = "there" /\ Inside(d.seat.x + r.dx) THEN "there" ELSE "none"
  <2>2. aim \in Aims /\ aim # "astray" /\ d.seat.x + r.dx \in Int
    BY <1>0, <1>1 DEF Aims
  <2>3. aim = "there" => Inside(d.seat.x + r.dx) /\ d.seat.x + r.dx = (c + r.dx) + Offset
    BY <1>0, <1>1 DEF Pointed
  <2>4. Pointed([d EXCEPT !.seat = SeatMove(@, d.seat.x + r.dx, aim)], c + r.dx)
    <3> HIDE DEF aim
    <3> QED BY <1>0, <2>2, <2>3, MoveTo
  <2> QED BY <1>0, <2>1, <2>4 DEF NotifyMotion
<1>2. CASE r \in [kind : {"PointerMotionAbsolute"}, x : Int]
  <2>1. Handled(d, r) = NotifyMotionAbsolute(d, r.x) /\ Moved(c, r) = r.x
    BY <1>2 DEF Handled, Moved
  <2>2. Aim(r.x) = "there" => Inside(Shifted(r.x)) /\ Shifted(r.x) = r.x + Offset
    <3> SUFFICES ASSUME Aim(r.x) = "there"
                 PROVE  Inside(Shifted(r.x)) /\ Shifted(r.x) = r.x + Offset
      OBVIOUS
    <3>1. r.x \in Int /\ r.x >= 0 /\ Inside(r.x + Offset) /\ ~(r.x + Offset < 0)
      BY <1>2 DEF Aim
    <3>2. r.x + Offset \in 0 .. Space - 1
      BY <1>0, <3>1, DeviceAssumption DEF Inside, DeviceAssumption
    <3> QED BY <3>1, <3>2, ShiftedExact
  <2>3. Shifted(r.x) \in Int
    <3>1. 2 ^ Width \in Nat \ {0}
      BY DeviceAssumption, WidthAssumption DEF DeviceAssumption, WidthAssumption
    <3> QED BY <1>0, <1>2, <3>1 DEF Shifted, ToU32
  <2>4. Aim(r.x) = "astray" => r.x + Offset < 0 /\ Shifted(r.x) >= Space
    BY <1>2, ShiftedBeyond DEF Aim
  <2>5. Pointed([d EXCEPT !.seat = SeatMove(@, Shifted(r.x), Aim(r.x))], r.x)
    BY <1>0, <2>2, <2>3, <2>4, AimType, MoveTo
  <2> QED BY <2>1, <2>5 DEF NotifyMotionAbsolute
<1>3. CASE r \in [kind : {"TouchMotion"}, dx : Int]
  <2>1. Handled(d, r) = NotifyTouchMotion(d, r.dx) /\ d.seat.x + r.dx \in Int
    BY <1>0, <1>3 DEF Handled
  <2>2. Pointed([d EXCEPT !.seat = SeatMove(@, d.seat.x + r.dx, "none")], Moved(c, r))
    BY <1>0, <2>1, MoveTo
  <2> QED BY <2>1, <2>2 DEF NotifyTouchMotion
<1>4. CASE r \in [kind : {"TouchDown"}, slot : Slot, x : Int]
  <2>1. Handled(d, r) = NotifyTouchDown(d, r.slot, r.x)
    BY <1>4 DEF Handled
  <2>2. NotifyTouchDown(d, r.slot, r.x).seat.aim = "none"
    BY <1>0 DEF NotifyTouchDown, SeatPress, SeatMove, Device
  <2> QED BY <2>1, <2>2 DEF Pointed
<1>5. CASE r.kind \notin {"PointerMotion", "PointerMotionAbsolute", "TouchMotion", "TouchDown"}
  <2>1. Moved(c, r) = c
    BY <1>5 DEF Moved
  <2>2. Handled(d, r).seat.x = d.seat.x /\ Handled(d, r).seat.aim = d.seat.aim
    <3>1. CASE r \in [kind : {"PointerButton"}, button : Button, press : BOOLEAN]
      <4>1. Handled(d, r) = NotifyButton(d, r.button, r.press)
        BY <3>1 DEF Handled
      <4> QED BY <1>0, <4>1 DEF NotifyButton, SeatPress, SeatRelease, Device
    <3>2. CASE r \in [kind : {"PointerAxis"}, moved : SUBSET Axis, finish : BOOLEAN]
      <4>1. Handled(d, r) = NotifyAxis(d, r.moved, r.finish)
        BY <3>2 DEF Handled
      <4> QED BY <1>0, <4>1 DEF NotifyAxis, Device
    <3>3. CASE r \in [kind : {"PointerAxisDiscrete"}]
      BY <3>3 DEF Handled, NotifyAxisDiscrete
    <3>4. CASE r \in [kind : {"KeyboardKeycode"}, key : Keycode, press : BOOLEAN]
      <4>1. Handled(d, r) = NotifyKeycode(d, r.key, r.press)
        BY <3>4 DEF Handled
      <4> QED BY <1>0, <4>1, KeycodeUnmoved
    <3>5. CASE r \in [kind : {"KeyboardKeysym"}, key : Keycode \cup {None}, level : Nat, press : BOOLEAN]
      <4>1. Handled(d, r) = NotifyKeysym(d, r.key, r.level, r.press)
        BY <3>5 DEF Handled
      <4> QED BY <3>5, <4>1, KeysymUnmoved
    <3>6. CASE r \in [kind : {"TouchUp"}, slot : Slot]
      <4>1. Handled(d, r) = NotifyTouchUp(d, r.slot)
        BY <3>6 DEF Handled
      <4> QED BY <1>0, <4>1 DEF NotifyTouchUp, SeatRelease, Device
    <3> QED BY <1>5, <3>1, <3>2, <3>3, <3>4, <3>5, <3>6 DEF InputRequest
  <2> QED BY <2>1, <2>2, Unmoved
<1> QED BY <1>1, <1>2, <1>3, <1>4, <1>5 DEF InputRequest

Path(f, q, c, d) ==
  /\ f \in [0 .. Len(q) -> Int] /\ f[Len(q)] = c
  /\ \A i \in 1 .. Len(q) : f[i] = Moved(f[i - 1], q[i])
  /\ Pointed(d, f[0])

CursorInv ==
  \A t \in Thread :
    /\ thread[t] = "none" => device[t].seat.aim = "none"
    /\ thread[t] \in {"starting", "running"} =>
         \E f : Path(f, queue[t], cursor[t], device[t])

\* A request that is sent makes the path longer.
LEMMA PathGrows ==
  ASSUME NEW S, NEW q \in Seq(S), NEW r \in S, NEW c, NEW d, NEW f, Path(f, q, c, d),
         Moved(c, r) \in Int
  PROVE  \E g : Path(g, Append(q, r), Moved(c, r), d)
<1> DEFINE n == Len(q)
           s == Append(q, r)
           g == [i \in 0 .. n + 1 |-> IF i \in 0 .. n THEN f[i] ELSE Moved(c, r)]
<1>1. n \in Nat /\ Len(s) = n + 1 /\ s[n + 1] = r /\ \A i \in 1 .. n : s[i] = q[i]
  OBVIOUS
<1>2. /\ f \in [0 .. n -> Int] /\ f[n] = c /\ Pointed(d, f[0])
      /\ \A i \in 1 .. n : f[i] = Moved(f[i - 1], q[i])
  BY DEF Path
<1> HIDE DEF s, n
<1>3. /\ g \in [0 .. n + 1 -> Int] /\ g[n + 1] = Moved(c, r)
      /\ \A i \in 0 .. n : g[i] = f[i]
  BY <1>1, <1>2
<1> HIDE DEF g
<1>4. g[0] = f[0] /\ g[n] = c
  BY <1>1, <1>2, <1>3
<1>5. \A i \in 1 .. n + 1 : g[i] = Moved(g[i - 1], s[i])
  <2> SUFFICES ASSUME NEW i \in 1 .. n + 1 PROVE g[i] = Moved(g[i - 1], s[i])
    OBVIOUS
  <2>1. CASE i = n + 1
    <3>1. i - 1 = n
      BY <1>1, <2>1
    <3> QED BY <1>1, <1>3, <1>4, <2>1, <3>1
  <2>2. CASE i \in 1 .. n
    <3>1. i \in 0 .. n /\ i - 1 \in 0 .. n
      BY <1>1, <2>2
    <3> QED BY <1>1, <1>2, <1>3, <2>2, <3>1
  <2> QED BY <1>1, <2>1, <2>2
<1>6. Path(g, s, Moved(c, r), d)
  BY <1>1, <1>2, <1>3, <1>4, <1>5 DEF Path
<1> QED BY <1>6 DEF s

\* A request that is handled makes it shorter.
LEMMA PathShrinks ==
  ASSUME NEW S, NEW q \in Seq(S), q # <<>>, NEW c, NEW d, DeviceInv(d), NEW f,
         Path(f, q, c, d), Head(q) \in InputRequest
  PROVE  \E g : Path(g, Tail(q), c, Handled(d, Head(q)))
<1> DEFINE n == Len(q)
           s == Tail(q)
           g == [i \in 0 .. n - 1 |-> f[i + 1]]
<1>1. n \in Nat \ {0} /\ Len(s) = n - 1 /\ q[1] = Head(q) /\ \A i \in 1 .. n - 1 : s[i] = q[i + 1]
  OBVIOUS
<1>2. /\ f \in [0 .. n -> Int] /\ f[n] = c /\ Pointed(d, f[0])
      /\ \A i \in 1 .. n : f[i] = Moved(f[i - 1], q[i])
  BY DEF Path
<1> HIDE DEF s, n
<1>3. /\ g \in [0 .. n - 1 -> Int] /\ \A i \in 0 .. n - 1 : g[i] = f[i + 1]
  BY <1>1, <1>2
<1> HIDE DEF g
<1>4. g[0] = Moved(f[0], Head(q)) /\ f[0] \in Int /\ g[n - 1] = c
  BY <1>1, <1>2, <1>3
<1>5. Pointed(Handled(d, Head(q)), g[0])
  BY <1>2, <1>4, HandledPointed
<1>6. \A i \in 1 .. n - 1 : g[i] = Moved(g[i - 1], s[i])
  <2> SUFFICES ASSUME NEW i \in 1 .. n - 1 PROVE g[i] = Moved(g[i - 1], s[i])
    OBVIOUS
  <2>1. /\ i \in 0 .. n - 1 /\ i - 1 \in 0 .. n - 1 /\ i + 1 \in 1 .. n
        /\ (i + 1) - 1 = i /\ (i - 1) + 1 = i
    BY <1>1
  <2>2. f[i + 1] = Moved(f[i], q[i + 1])
    BY <1>2, <2>1
  <2> QED BY <1>1, <1>3, <2>1, <2>2
<1>7. Path(g, s, c, Handled(d, Head(q)))
  BY <1>1, <1>3, <1>4, <1>5, <1>6 DEF Path
<1> QED BY <1>7 DEF s

LEMMA CursorTyped ==
  ASSUME IInv
  PROVE  /\ cursor \in [Thread -> Int] /\ queue \in [Thread -> Seq(Request \cup {Exit})]
         /\ device \in [Thread -> Device] /\ thread \in [Thread -> ThreadState]
BY DEF IInv, TypeOK, PortalTypeOK, RemoteTypeOK, ThreadState

\* Steps that send nothing and handle nothing.
LEMMA CursorUnchanged ==
  ASSUME CursorInv, UNCHANGED <<cursor, remote>>
  PROVE  CursorInv'
BY DEF CursorInv, remote

LEMMA CursorStart ==
  ASSUME IInv, CursorInv, NEW h \in SessionHandle, NEW t \in Thread, StartSession(h, t)
  PROVE  CursorInv'
<1>1. t \in {u \in Thread : thread[u] = "none"}
  BY DEF StartSession, Fresh
<1>2. /\ thread' = [thread EXCEPT ![t] = "starting"] /\ UNCHANGED <<cursor, queue, device>>
  BY DEF StartSession
<1>3. /\ thread'[t] = "starting" /\ queue[t] = <<>> /\ device[t].seat.aim = "none"
      /\ \A u \in Thread : u # t => thread'[u] = thread[u]
  BY <1>1, <1>2, CursorTyped DEF IInv, QueuesInv, CursorInv
<1>4. Path([i \in {0} |-> cursor[t]], <<>>, cursor[t], device[t])
  BY <1>3, CursorTyped DEF Path, Pointed
<1> QED BY <1>2, <1>3, <1>4 DEF CursorInv

LEMMA CursorSend ==
  ASSUME IInv, CursorInv, NEW p \in {"notify", "forward"}, SendRequest(p)
  PROVE  CursorInv'
<1>1. job[p].step = "found" /\ job[p] # Idle /\ job[p] \in Job
  BY DEF SendRequest, Idle, IInv, TypeOK, PortalTypeOK, Task
<1>2. PICK t \in Thread, r \in Request : t = job[p].thread /\ r = job[p].request
  BY <1>1 DEF Job, Idle
<1>3. /\ cursor' = [cursor EXCEPT ![t] = Moved(cursor[t], r)]
      /\ queue' = Sent(t, r) /\ UNCHANGED <<thread, device>>
  BY <1>2 DEF SendRequest
<1>4. Moved(cursor[t], r) \in Int
  BY CursorTyped, MovedType
<1>5. /\ cursor'[t] = Moved(cursor[t], r)
      /\ \A u \in Thread : u # t => cursor'[u] = cursor[u] /\ queue'[u] = queue[u]
  BY <1>3, CursorTyped, SentType
<1>6. ASSUME thread[t] \in {"starting", "running"}
      PROVE  \E g : Path(g, queue'[t], cursor'[t], device[t])
  <2>1. PICK f : Path(f, queue[t], cursor[t], device[t])
    BY <1>6 DEF CursorInv
  <2>2. queue'[t] = Append(queue[t], r) /\ r \in Request \cup {Exit}
    BY <1>3, <1>6, CursorTyped DEF Sent, Receives
  <2>3. queue[t] \in Seq(Request \cup {Exit})
    BY CursorTyped
  <2>4. \E g : Path(g, Append(queue[t], r), Moved(cursor[t], r), device[t])
    BY <1>4, <2>1, <2>2, <2>3, PathGrows
  <2> QED BY <1>5, <2>2, <2>4
<1> QED BY <1>3, <1>5, <1>6 DEF CursorInv

\* Exit is behind every request, and moves nothing.
LEMMA CursorStop ==
  ASSUME IInv, CursorInv, NEW h \in SessionHandle, StopRemote(h)
  PROVE  CursorInv'
<1> DEFINE t == ThreadOf(h)
<1>1. queue' = Sent(t, Exit) /\ UNCHANGED <<cursor, thread, device>> /\ Has(h)
  BY DEF StopRemote
<1>2. t \in Thread
  BY <1>1, ThreadOfType DEF IInv
<1> HIDE DEF t
<1>3. \A u \in Thread : u # t => queue'[u] = queue[u]
  BY <1>1, <1>2, SentType
<1>4. Moved(cursor[t], Exit) = cursor[t] /\ cursor[t] \in Int
  BY <1>2, CursorTyped DEF Moved, Exit
<1>5. ASSUME thread[t] \in {"starting", "running"}
      PROVE  \E g : Path(g, queue'[t], cursor[t], device[t])
  <2>1. PICK f : Path(f, queue[t], cursor[t], device[t])
    BY <1>2, <1>5 DEF CursorInv
  <2>2. queue'[t] = Append(queue[t], Exit)
    BY <1>1, <1>2, <1>5, CursorTyped DEF Sent, Receives
  <2>3. queue[t] \in Seq(Request \cup {Exit}) /\ Exit \in Request \cup {Exit}
    BY <1>2, CursorTyped
  <2>4. \E g : Path(g, Append(queue[t], Exit), Moved(cursor[t], Exit), device[t])
    BY <1>4, <2>1, <2>3, PathGrows
  <2> QED BY <1>4, <2>2, <2>4
<1> QED BY <1>1, <1>3, <1>5 DEF CursorInv

LEMMA CursorHandle ==
  ASSUME IInv, CursorInv, NEW t \in Thread, HandleRequest(t)
  PROVE  CursorInv'
<1> DEFINE r == Head(queue[t])
<1>1. /\ thread[t] \in {"running", "stopping"} /\ queue[t] # <<>>
      /\ queue' = [queue EXCEPT ![t] = Tail(queue[t])]
      /\ device' = [device EXCEPT ![t] = Handled(device[t], r)]
      /\ thread' = [thread EXCEPT ![t] = AfterRequest(t, r)]
      /\ cursor' = cursor
  BY DEF HandleRequest, portal
<1>2. thread[t] = "running" /\ queue[t] \in Seq(Request \cup {Exit}) /\ r \in Request \cup {Exit}
  BY <1>1, CursorTyped, TakenTyped DEF IInv, NothingFollowsExit
<1>3. /\ queue'[t] = Tail(queue[t]) /\ device'[t] = Handled(device[t], r)
      /\ thread'[t] = IF r = Exit THEN "stopping" ELSE "running"
      /\ \A u \in Thread : u # t =>
           queue'[u] = queue[u] /\ device'[u] = device[u] /\ thread'[u] = thread[u]
  BY <1>1, <1>2, CursorTyped DEF AfterRequest
<1>4. ASSUME r # Exit
      PROVE  \E g : Path(g, Tail(queue[t]), cursor[t], Handled(device[t], r))
  <2>1. r \in InputRequest
    BY <1>2, <1>4, InputAssumption DEF InputAssumption
  <2>2. DeviceInv(device[t])
    BY DEF IInv, DevicesInv
  <2>3. PICK f : Path(f, queue[t], cursor[t], device[t])
    BY <1>2 DEF CursorInv
  <2> QED BY <1>1, <1>2, <2>1, <2>2, <2>3, PathShrinks
<1> HIDE DEF r
<1> QED BY <1>1, <1>3, <1>4 DEF CursorInv

LEMMA CursorThread ==
  ASSUME IInv, CursorInv, NEW t \in Thread, DevicesReady(t) \/ LoopEnds(t) \/ ThreadFails(t)
  PROVE  CursorInv'
<1>1. UNCHANGED <<cursor, device>>
  BY DEF DevicesReady, LoopEnds, ThreadFails, portal
<1>2. \A u \in Thread : u # t => thread'[u] = thread[u] /\ queue'[u] = queue[u]
  BY CursorTyped DEF DevicesReady, LoopEnds, ThreadFails
<1>3. thread'[t] # "none"
  BY CursorTyped DEF DevicesReady, LoopEnds, ThreadFails
<1>4. thread'[t] \in {"starting", "running"} => thread[t] = "starting" /\ queue'[t] = queue[t]
  BY CursorTyped DEF DevicesReady, LoopEnds, ThreadFails
<1> QED BY <1>1, <1>2, <1>3, <1>4 DEF CursorInv

LEMMA CursorStep ==
  ASSUME IInv, CursorInv, [Next]_vars
  PROVE  CursorInv'
<1>1. ASSUME NEW h \in SessionHandle, NEW r \in Request, Notify(h, r)
      PROVE  UNCHANGED <<cursor, remote>>
  BY <1>1 DEF Notify
<1>2. ASSUME Forward \/ RemoveListener \/ RemoveSession
      PROVE  UNCHANGED <<cursor, remote>>
  BY <1>2 DEF Forward, RemoveListener, RemoveSession
<1>3. ASSUME NEW h \in SessionHandle, NEW l \in Listener, ConnectToEIS(h, l)
      PROVE  UNCHANGED <<cursor, remote>>
  BY <1>3 DEF ConnectToEIS, portal
<1>4. ASSUME NEW h \in SessionHandle, NEW kind \in {"Active", "Stop"}, Toggle(h, kind)
      PROVE  UNCHANGED <<cursor, remote>>
  BY <1>4 DEF Toggle, portal
<1>5. CASE Portals
  BY <1>1, <1>2, <1>3, <1>4, <1>5, CursorUnchanged, CursorStart, CursorSend, CursorStop DEF Portals
<1>6. ASSUME NEW t \in Thread, RemoteThread(t) \/ ThreadFails(t)
      PROVE  CursorInv'
  BY <1>6, CursorHandle, CursorThread DEF RemoteThread
<1>7. CASE EisServer
  BY <1>7, CursorUnchanged DEF EisServer, TakeMessage, Accept, ClientLeaves, EisInput, portal
<1>8. CASE UNCHANGED vars
  BY <1>8, CursorUnchanged DEF vars, portal
<1> QED BY <1>5, <1>6, <1>7, <1>8 DEF Next

-----------------------------------------------------------------------------
(***************************************************************************)
(* The EIS server.  What it will be told of a listener is in the channel:  *)
(* the listener itself, and later that its session is gone.                *)
(***************************************************************************)
News(i, l) == messages[i].kind = "New" /\ messages[i].listener = l
Removes(i, h) == messages[i].kind = "Remove" /\ messages[i].handle = h
Pending(l) == \E i \in DOMAIN messages : News(i, l)

\* The session of a listener is there, and Close has not yet told the EIS server
\* that it goes.
Kept(l) ==
  owner[l] \in Live /\ ~(job["close"].step = "leaving" /\ job["close"].handle = handleOf[l])

MessagesInv ==
  \A i \in DOMAIN messages : messages[i].kind = "New" =>
    messages[i].handle = handleOf[messages[i].listener]

ClientsInv == \A h \in SessionHandle : clients[h] # None => handleOf[clients[h]] = h

OwnersInv ==
  \A l \in Listener : owner[l] # None =>
    /\ handleOf[l] \in SessionHandle /\ thread[owner[l]] # "none"
    /\ \A i \in DOMAIN sessions :
         sessions[i].thread = owner[l] => sessions[i].handle = handleOf[l]

\* A listener whose session is there has come, or comes; a removal of its handle
\* that is still in the channel comes before it.
KeptInv ==
  \A l \in Listener : owner[l] # None /\ Kept(l) =>
    /\ Pending(l) \/ listener[l] \in {"on", "off"}
    /\ \A i \in DOMAIN messages : Removes(i, handleOf[l]) =>
         \E j \in DOMAIN messages : j > i /\ News(j, l)

\* A listener whose session goes is removed, or will be: the removal is behind
\* it in the channel.
GoneInv ==
  \A l \in Listener : owner[l] # None /\ ~Kept(l) =>
    \/ ~Pending(l) /\ clients[handleOf[l]] # l
    \/ \E i \in DOMAIN messages : /\ Removes(i, handleOf[l])
                                  /\ \A j \in DOMAIN messages : j >= i => ~News(j, l)

ListenerInv == MessagesInv /\ ClientsInv /\ OwnersInv /\ KeptInv /\ GoneInv

LEMMA ListenerTyped ==
  ASSUME TypeOK
  PROVE  /\ messages \in Seq(Message) /\ \A i \in DOMAIN messages : messages[i] \in Message
         /\ clients \in [SessionHandle -> Listener \cup {None}]
         /\ listener \in [Listener -> {"none", "on", "off", "gone"}]
         /\ handleOf \in [Listener -> SessionHandle \cup {None}]
         /\ owner \in [Listener -> Thread \cup {None}]
<1>1. messages \in Seq(Message)
  BY DEF TypeOK, EisTypeOK
<1> QED BY <1>1, ElementsTyped DEF TypeOK, EisTypeOK

\* Steps that tell the EIS server nothing, and take nothing from it.
LEMMA ListenerUnchanged ==
  ASSUME ListenerInv, UNCHANGED <<messages, clients, listener, handleOf, owner>>,
         UNCHANGED sessions,
         \A t \in Thread : thread[t] # "none" => thread'[t] # "none",
         TypeOK,
         \A h \in SessionHandle :
           (job["close"].step = "leaving" /\ job["close"].handle = h) <=>
           (job'["close"].step = "leaving" /\ job'["close"].handle = h)
  PROVE  ListenerInv'
<1>1. \A l \in Listener : owner[l] # None => owner[l] \in Thread /\ handleOf[l] \in SessionHandle
  BY ListenerTyped DEF ListenerInv, OwnersInv
<1>2. \A l \in Listener : owner[l] # None => (Kept(l)' <=> Kept(l))
  BY <1>1 DEF Kept, Live
<1>3. \A l : Pending(l)' <=> Pending(l)
  BY DEF Pending, News
<1>4. MessagesInv' /\ ClientsInv'
  BY DEF ListenerInv, MessagesInv, ClientsInv
<1>5. OwnersInv'
  BY <1>1 DEF ListenerInv, OwnersInv
<1>6. KeptInv'
  BY <1>2, <1>3 DEF ListenerInv, KeptInv, News, Removes
<1>7. GoneInv'
  BY <1>2, <1>3 DEF ListenerInv, GoneInv, News, Removes
<1> QED BY <1>4, <1>5, <1>6, <1>7 DEF ListenerInv

\* A thread that is started is nobody's yet.
LEMMA ListenerStart ==
  ASSUME IInv, ListenerInv, NEW h \in SessionHandle, NEW t \in Thread, StartSession(h, t)
  PROVE  ListenerInv'
<1>1. t \in {u \in Thread : thread[u] = "none"}
  BY DEF StartSession, Fresh
<1>2. /\ sessions' = Append(sessions, [handle |-> h, thread |-> t])
      /\ thread' = [thread EXCEPT ![t] = "starting"]
      /\ UNCHANGED <<job, messages, clients, listener, handleOf, owner>>
  BY DEF StartSession, eis
<1>3. sessions \in Seq([handle : SessionHandle, thread : Thread])
  BY SessionsTyped DEF IInv
<1>4. /\ DOMAIN sessions' = 1 .. Len(sessions) + 1 /\ DOMAIN sessions = 1 .. Len(sessions)
      /\ Len(sessions) \in Nat /\ \A i \in 1 .. Len(sessions) : sessions'[i] = sessions[i]
      /\ sessions'[Len(sessions) + 1].thread = t
  BY <1>2, <1>3
<1>5. \A l \in Listener : owner[l] # None => owner[l] # t /\ owner[l] \in Thread
  BY <1>1, ListenerTyped DEF IInv, ListenerInv, OwnersInv
<1>6. \A l \in Listener : owner[l] # None => (owner[l] \in Live' <=> owner[l] \in Live)
  <2> SUFFICES ASSUME NEW l \in Listener, owner[l] # None
               PROVE  owner[l] \in Live' <=> owner[l] \in Live
    OBVIOUS
  <2>1. \A i \in DOMAIN sessions' : sessions'[i].thread = owner[l] =>
          i \in DOMAIN sessions /\ sessions[i].thread = owner[l]
    BY <1>4, <1>5
  <2>2. \A i \in DOMAIN sessions : i \in DOMAIN sessions' /\ sessions'[i] = sessions[i]
    BY <1>4
  <2> QED BY <2>1, <2>2 DEF Live
<1>7. \A l \in Listener : owner[l] # None => (Kept(l)' <=> Kept(l))
  BY <1>2, <1>6 DEF Kept
<1>8. \A l : Pending(l)' <=> Pending(l)
  BY <1>2 DEF Pending, News
<1>9. MessagesInv' /\ ClientsInv'
  BY <1>2 DEF ListenerInv, MessagesInv, ClientsInv
<1>10. OwnersInv'
  <2>1. \A u \in Thread : thread[u] # "none" => thread'[u] # "none"
    BY <1>2, CursorTyped
  <2>2. \A l \in Listener, i \in DOMAIN sessions' :
          owner[l] # None /\ sessions'[i].thread = owner[l] =>
            i \in DOMAIN sessions /\ sessions'[i] = sessions[i]
    BY <1>4, <1>5
  <2> QED BY <1>2, <1>5, <2>1, <2>2 DEF ListenerInv, OwnersInv
<1>11. KeptInv'
  BY <1>2, <1>7, <1>8 DEF ListenerInv, KeptInv, News, Removes
<1>12. GoneInv'
  BY <1>2, <1>7, <1>8 DEF ListenerInv, GoneInv, News, Removes
<1> QED BY <1>9, <1>10, <1>11, <1>12 DEF ListenerInv

\* What is added to the channel comes last.
LEMMA Added ==
  ASSUME NEW S, NEW s \in Seq(S), NEW m
  PROVE  /\ Len(s) \in Nat /\ DOMAIN s = 1 .. Len(s)
         /\ DOMAIN Append(s, m) = 1 .. Len(s) + 1
         /\ Append(s, m)[Len(s) + 1] = m
         /\ \A i \in 1 .. Len(s) : Append(s, m)[i] = s[i]
OBVIOUS

\* Calls that only switch a listener.
LEMMA ListenerToggle ==
  ASSUME IInv, ListenerInv, NEW h \in SessionHandle, NEW kind \in {"Active", "Stop"},
         Toggle(h, kind)
  PROVE  ListenerInv'
<1> DEFINE m == [kind |-> kind, handle |-> h]
           n == Len(messages)
<1>1. /\ messages' = Append(messages, m) /\ m.kind # "New" /\ m.kind # "Remove"
      /\ UNCHANGED <<sessions, job, thread, clients, listener, handleOf, owner>>
  BY DEF Toggle, portal, remote
<1>2. messages \in Seq(Message)
  BY ListenerTyped DEF IInv
<1>3. /\ n \in Nat /\ DOMAIN messages = 1 .. n /\ DOMAIN messages' = 1 .. n + 1
      /\ messages'[n + 1] = m /\ \A i \in 1 .. n : messages'[i] = messages[i]
  BY <1>1, <1>2, Added
<1> HIDE DEF m, n
<1>4. \A i \in DOMAIN messages' : messages'[i].kind \in {"New", "Remove"} =>
        i \in DOMAIN messages /\ messages'[i] = messages[i]
  BY <1>1, <1>3
<1>5. \A i \in DOMAIN messages : i \in DOMAIN messages' /\ messages'[i] = messages[i]
  BY <1>3
<1>6. \A l : Kept(l)' <=> Kept(l)
  BY <1>1 DEF Kept, Live
<1>7. \A l : Pending(l)' <=> Pending(l)
  BY <1>4, <1>5 DEF Pending, News
<1>8. MessagesInv' /\ ClientsInv' /\ OwnersInv'
  BY <1>1, <1>4 DEF ListenerInv, MessagesInv, ClientsInv, OwnersInv
<1>9. KeptInv'
  BY <1>1, <1>4, <1>5, <1>6, <1>7 DEF ListenerInv, KeptInv, News, Removes
<1>10. GoneInv'
  BY <1>1, <1>4, <1>5, <1>6, <1>7 DEF ListenerInv, GoneInv, News, Removes
<1> QED BY <1>8, <1>9, <1>10 DEF ListenerInv

\* A new listener is announced after everything that is in the channel.
LEMMA ListenerConnect ==
  ASSUME IInv, ListenerInv, NEW h \in SessionHandle, NEW l \in Listener, ConnectToEIS(h, l)
  PROVE  ListenerInv'
<1> DEFINE m == [kind |-> "New", handle |-> h, listener |-> l]
           n == Len(messages)
           leaving == job["close"].step = "leaving" /\ job["close"].handle = h
           its == IF Has(h) /\ ~leaving THEN ThreadOf(h) ELSE None
<1>1. /\ handleOf' = [handleOf EXCEPT ![l] = h] /\ owner' = [owner EXCEPT ![l] = its]
      /\ messages' = Append(messages, m)
      /\ UNCHANGED <<sessions, job, thread, clients, listener>>
  BY DEF ConnectToEIS, portal, remote
<1>2. handleOf[l] = None
  <2>1. l \in {k \in Listener : handleOf[k] = None}
    BY DEF ConnectToEIS, Fresh
  <2> QED BY <2>1
<1>3. /\ messages \in Seq(Message) /\ \A i \in DOMAIN messages : messages[i] \in Message
      /\ clients \in [SessionHandle -> Listener \cup {None}]
      /\ handleOf \in [Listener -> SessionHandle \cup {None}]
      /\ owner \in [Listener -> Thread \cup {None}]
      /\ None \notin SessionHandle \cup Thread \cup Listener
  BY ListenerTyped, InputAssumption DEF IInv, InputAssumption
<1>4. /\ n \in Nat /\ DOMAIN messages = 1 .. n /\ DOMAIN messages' = 1 .. n + 1
      /\ messages'[n + 1] = m /\ \A i \in 1 .. n : messages'[i] = messages[i]
  BY <1>1, <1>3, Added
<1>5. m.kind = "New" /\ m.handle = h /\ m.listener = l
  OBVIOUS
<1>6. /\ handleOf'[l] = h /\ owner'[l] = its
      /\ \A k \in Listener : k # l => handleOf'[k] = handleOf[k] /\ owner'[k] = owner[k]
  BY <1>1, <1>3
<1>7. its # None => /\ its \in Thread /\ its \in Live /\ thread[its] # "none" /\ ~leaving
                    /\ \A i \in DOMAIN sessions : sessions[i].thread = its => sessions[i].handle = h
  <2> SUFFICES ASSUME its # None
               PROVE  /\ its \in Thread /\ its \in Live /\ thread[its] # "none" /\ ~leaving
                      /\ \A i \in DOMAIN sessions :
                           sessions[i].thread = its => sessions[i].handle = h
    OBVIOUS
  <2>1. Has(h) /\ ~leaving /\ its = ThreadOf(h)
    OBVIOUS
  <2>2. its \in Live /\ its \in Thread
    BY <2>1, ThreadOfType DEF IInv
  <2>3. IndexOf(h) \in DOMAIN sessions /\ sessions[IndexOf(h)].handle = h
    BY <2>1, IndexOfType
  <2>4. its = sessions[IndexOf(h)].thread
    BY <2>1 DEF ThreadOf
  <2> QED BY <2>1, <2>2, <2>3, <2>4 DEF IInv, SessionsInv
<1> HIDE DEF m, n, its
<1>8. \A i \in DOMAIN messages : messages[i].kind = "New" =>
        messages[i].listener \in Listener /\ messages[i].handle \in SessionHandle
  BY <1>3 DEF Message
<1>9. \A i \in DOMAIN messages : ~News(i, l)
  BY <1>2, <1>3, <1>8 DEF ListenerInv, MessagesInv, News
<1>10. \A k \in Listener : k # l => (Kept(k)' <=> Kept(k)) /\ (Pending(k)' <=> Pending(k))
  BY <1>1, <1>4, <1>5, <1>6 DEF Kept, Live, Pending, News
<1>11. MessagesInv'
  BY <1>2, <1>3, <1>4, <1>5, <1>6, <1>8 DEF ListenerInv, MessagesInv
<1>12. ClientsInv'
  <2>1. \A g \in SessionHandle : clients[g] # None => clients[g] \in Listener /\ clients[g] # l
    BY <1>2, <1>3 DEF ListenerInv, ClientsInv
  <2> QED BY <1>1, <1>6, <2>1 DEF ListenerInv, ClientsInv
<1>13. OwnersInv'
  BY <1>1, <1>6, <1>7 DEF ListenerInv, OwnersInv
<1>14. KeptInv'
  <2> SUFFICES ASSUME NEW k \in Listener, owner'[k] # None, Kept(k)'
               PROVE  /\ Pending(k)' \/ listener'[k] \in {"on", "off"}
                      /\ \A i \in DOMAIN messages' : messages'[i].kind = "Remove"
                           /\ messages'[i].handle = handleOf'[k] =>
                             \E j \in DOMAIN messages' : j > i /\ messages'[j].kind = "New"
                                                         /\ messages'[j].listener = k
    BY DEF KeptInv, News, Removes
  <2>1. CASE k = l
    <3>1. \A i \in DOMAIN messages' : messages'[i].kind = "Remove" => i \in 1 .. n
      BY <1>4, <1>5
    <3>2. n + 1 \in DOMAIN messages' /\ \A i \in 1 .. n : n + 1 > i
      BY <1>4
    <3> QED BY <1>4, <1>5, <2>1, <3>1, <3>2 DEF Pending, News
  <2>2. CASE k # l
    <3>1. owner[k] # None /\ Kept(k) /\ handleOf'[k] = handleOf[k]
      BY <1>6, <1>10, <2>2
    <3>2. Pending(k)' \/ listener'[k] \in {"on", "off"}
      BY <1>1, <1>10, <2>2, <3>1 DEF ListenerInv, KeptInv
    <3>3. \A i \in DOMAIN messages : Removes(i, handleOf[k]) =>
            \E j \in DOMAIN messages : j > i /\ News(j, k)
      BY <3>1 DEF ListenerInv, KeptInv
    <3>4. \A i \in DOMAIN messages' : messages'[i].kind = "Remove" => i \in 1 .. n
      BY <1>4, <1>5
    <3> QED BY <1>4, <3>1, <3>2, <3>3, <3>4 DEF News, Removes
  <2> QED BY <2>1, <2>2
<1>15. GoneInv'
  <2> SUFFICES ASSUME NEW k \in Listener, owner'[k] # None, ~Kept(k)'
               PROVE  \/ ~Pending(k)' /\ clients'[handleOf'[k]] # k
                      \/ \E i \in DOMAIN messages' :
                           /\ messages'[i].kind = "Remove" /\ messages'[i].handle = handleOf'[k]
                           /\ \A j \in DOMAIN messages' : j >= i =>
                                ~(messages'[j].kind = "New" /\ messages'[j].listener = k)
    BY DEF GoneInv, News, Removes
  <2>1. k # l
    BY <1>1, <1>6, <1>7 DEF Kept, Live
  <2>2. owner[k] # None /\ ~Kept(k) /\ handleOf'[k] = handleOf[k] /\ clients' = clients
    BY <1>1, <1>6, <1>10, <2>1
  <2>3. CASE ~Pending(k) /\ clients[handleOf[k]] # k
    BY <1>10, <2>1, <2>2, <2>3
  <2>4. CASE \E i \in DOMAIN messages : /\ Removes(i, handleOf[k])
                                        /\ \A j \in DOMAIN messages : j >= i => ~News(j, k)
    <3>1. PICK i \in DOMAIN messages : /\ Removes(i, handleOf[k])
                                       /\ \A j \in DOMAIN messages : j >= i => ~News(j, k)
      BY <2>4
    <3>2. \A j \in DOMAIN messages' : j \in DOMAIN messages \/ j = n + 1
      BY <1>4
    <3> QED BY <1>4, <1>5, <2>1, <2>2, <3>1, <3>2 DEF News, Removes
  <2> QED BY <2>2, <2>3, <2>4 DEF ListenerInv, GoneInv
<1> QED BY <1>11, <1>12, <1>13, <1>14, <1>15 DEF ListenerInv

\* Close tells the EIS server after every listener of the session was announced.
LEMMA ListenerRemove ==
  ASSUME IInv, ListenerInv, RemoveListener
  PROVE  ListenerInv'
<1>1. PICK h \in SessionHandle : /\ job["close"] = [step |-> "stopped", handle |-> h]
                                 /\ job'["close"] = [step |-> "leaving", handle |-> h]
  <2>1. job \in [Task -> Job] /\ "close" \in Task /\ job["close"].step = "stopped"
    BY DEF RemoveListener, IInv, TypeOK, PortalTypeOK, Task
  <2>2. job["close"] \in [step : {"stopped", "leaving"}, handle : SessionHandle]
    <3>1. job["close"] \in Job
      BY <2>1
    <3> QED BY <2>1, <3>1 DEF Job, Idle
  <2>3. job' = [job EXCEPT !["close"].step = "leaving"]
    BY DEF RemoveListener
  <2>4. job'["close"] = [job["close"] EXCEPT !.step = "leaving"]
    BY <2>1, <2>3
  <2> QED BY <2>1, <2>2, <2>4
<1> DEFINE m == [kind |-> "Remove", handle |-> h]
           n == Len(messages)
<1>2. /\ messages' = messages \o <<m>>
      /\ UNCHANGED <<sessions, thread, clients, listener, handleOf, owner>>
  BY <1>1 DEF RemoveListener, RemoveMessage, remote
<1>3. messages \in Seq(Message)
  BY ListenerTyped DEF IInv
<1>4. messages' = Append(messages, m)
  BY <1>2, <1>3
<1>5. /\ n \in Nat /\ DOMAIN messages = 1 .. n /\ DOMAIN messages' = 1 .. n + 1
      /\ messages'[n + 1] = m /\ \A i \in 1 .. n : messages'[i] = messages[i]
  BY <1>3, <1>4, Added
<1>6. m.kind = "Remove" /\ m.handle = h
  OBVIOUS
<1> HIDE DEF m, n
<1>7. \A k \in Listener : owner[k] # None =>
        /\ Kept(k)' <=> (Kept(k) /\ handleOf[k] # h)
        /\ Kept(k) <=> owner[k] \in Live
  BY <1>1, <1>2 DEF Kept, Live
<1>8. \A k : Pending(k)' <=> Pending(k)
  <2>1. \A i \in DOMAIN messages' : messages'[i].kind = "New" => i \in DOMAIN messages
    BY <1>5, <1>6
  <2> QED BY <1>5, <2>1 DEF Pending, News
<1>9. MessagesInv' /\ ClientsInv' /\ OwnersInv'
  <2>1. \A i \in DOMAIN messages' : messages'[i].kind = "New" => i \in DOMAIN messages
    BY <1>5, <1>6
  <2> QED BY <1>2, <1>5, <2>1 DEF ListenerInv, MessagesInv, ClientsInv, OwnersInv
<1>10. KeptInv'
  <2> SUFFICES ASSUME NEW k \in Listener, owner'[k] # None, Kept(k)'
               PROVE  /\ Pending(k)' \/ listener'[k] \in {"on", "off"}
                      /\ \A i \in DOMAIN messages' : messages'[i].kind = "Remove"
                           /\ messages'[i].handle = handleOf'[k] =>
                             \E j \in DOMAIN messages' : j > i /\ messages'[j].kind = "New"
                                                         /\ messages'[j].listener = k
    BY DEF KeptInv, News, Removes
  <2>1. owner[k] # None /\ Kept(k) /\ handleOf'[k] = handleOf[k] /\ handleOf[k] # h
    BY <1>2, <1>7
  <2>2. Pending(k)' \/ listener'[k] \in {"on", "off"}
    BY <1>2, <1>8, <2>1 DEF ListenerInv, KeptInv
  <2>3. \A i \in DOMAIN messages : Removes(i, handleOf[k]) =>
          \E j \in DOMAIN messages : j > i /\ News(j, k)
    BY <2>1 DEF ListenerInv, KeptInv
  <2>4. \A i \in DOMAIN messages' : messages'[i].handle = handleOf[k] => i \in 1 .. n
    BY <1>5, <1>6, <2>1
  <2> QED BY <1>5, <2>1, <2>2, <2>3, <2>4 DEF News, Removes
<1>11. GoneInv'
  <2> SUFFICES ASSUME NEW k \in Listener, owner'[k] # None, ~Kept(k)'
               PROVE  \/ ~Pending(k)' /\ clients'[handleOf'[k]] # k
                      \/ \E i \in DOMAIN messages' :
                           /\ messages'[i].kind = "Remove" /\ messages'[i].handle = handleOf'[k]
                           /\ \A j \in DOMAIN messages' : j >= i =>
                                ~(messages'[j].kind = "New" /\ messages'[j].listener = k)
    BY DEF GoneInv, News, Removes
  <2>1. owner[k] # None /\ handleOf'[k] = handleOf[k] /\ clients' = clients
    BY <1>2
  <2>2. CASE handleOf[k] = h
    <3>1. n + 1 \in DOMAIN messages' /\ \A j \in DOMAIN messages' : j >= n + 1 => j = n + 1
      BY <1>5
    <3>2. messages'[n + 1].kind = "Remove" /\ messages'[n + 1].handle = handleOf'[k]
      BY <1>5, <1>6, <2>1, <2>2
    <3> QED BY <3>1, <3>2
  <2>3. CASE handleOf[k] # h
    <3>1. ~Kept(k)
      BY <1>7, <2>1, <2>3
    <3>2. CASE ~Pending(k) /\ clients[handleOf[k]] # k
      BY <1>8, <2>1, <3>2
    <3>3. CASE \E i \in DOMAIN messages : /\ Removes(i, handleOf[k])
                                          /\ \A j \in DOMAIN messages : j >= i => ~News(j, k)
      <4>1. PICK i \in DOMAIN messages : /\ Removes(i, handleOf[k])
                                         /\ \A j \in DOMAIN messages : j >= i => ~News(j, k)
        BY <3>3
      <4>2. \A j \in DOMAIN messages' : messages'[j].kind = "New" => j \in DOMAIN messages
        BY <1>5, <1>6
      <4> QED BY <1>5, <2>1, <4>1, <4>2 DEF News, Removes
    <3> QED BY <2>1, <3>1, <3>2, <3>3 DEF ListenerInv, GoneInv
  <2> QED BY <2>2, <2>3
<1> QED BY <1>9, <1>10, <1>11 DEF ListenerInv

\* The session leaves the list; the EIS server was told.
LEMMA ListenerRemoveSession ==
  ASSUME IInv, ListenerInv, RemoveSession
  PROVE  ListenerInv'
<1>1. job \in [Task -> Job] /\ "close" \in Task
  BY DEF IInv, TypeOK, PortalTypeOK, Task
<1>2. job["close"].step = "leaving" /\ job["close"] # Idle
  BY DEF RemoveSession, Idle
<1>3. PICK h : h = job["close"].handle /\ Has(h)
  BY <1>2 DEF IInv, JobsInv
<1>4. PICK i \in DOMAIN sessions : i = IndexOf(h) /\ sessions[i].handle = h
  BY <1>3, IndexOfType
<1>5. /\ sessions' = SubSeq(sessions, 1, i - 1) \o SubSeq(sessions, i + 1, Len(sessions))
      /\ job' = [job EXCEPT !["close"] = Idle]
      /\ UNCHANGED <<thread, messages, clients, listener, handleOf, owner>>
  BY <1>3, <1>4 DEF RemoveSession, remote, eis
<1>6. /\ sessions \in Seq([handle : SessionHandle, thread : Thread])
      /\ Len(sessions) \in Nat /\ i \in 1 .. Len(sessions) /\ DOMAIN sessions = 1 .. Len(sessions)
  BY SessionsTyped DEF IInv
<1>7. /\ DOMAIN sessions' = 1 .. Len(sessions) - 1
      /\ \A j \in DOMAIN sessions' : sessions'[j] = sessions[IF j < i THEN j ELSE j + 1]
  BY <1>5, <1>6, WithoutIndex
<1>8. \A j \in DOMAIN sessions' : \E k \in DOMAIN sessions \ {i} : sessions'[j] = sessions[k]
  <2> SUFFICES ASSUME NEW j \in DOMAIN sessions'
               PROVE  \E k \in DOMAIN sessions \ {i} : sessions'[j] = sessions[k]
    OBVIOUS
  <2>1. j \in 1 .. Len(sessions) - 1
    BY <1>7
  <2>2. (IF j < i THEN j ELSE j + 1) \in DOMAIN sessions \ {i}
    BY <1>6, <2>1
  <2> QED BY <1>7, <2>2
<1>9. \A k \in DOMAIN sessions \ {i} : \E j \in DOMAIN sessions' : sessions'[j] = sessions[k]
  <2> SUFFICES ASSUME NEW k \in DOMAIN sessions \ {i}
               PROVE  \E j \in DOMAIN sessions' : sessions'[j] = sessions[k]
    OBVIOUS
  <2>1. k \in 1 .. Len(sessions) /\ k # i
    BY <1>6
  <2>2. CASE k < i
    <3>1. k \in DOMAIN sessions'
      BY <1>6, <1>7, <2>1, <2>2
    <3> QED BY <1>7, <2>2, <3>1
  <2>3. CASE ~(k < i)
    <3>1. k - 1 \in DOMAIN sessions' /\ ~(k - 1 < i) /\ (k - 1) + 1 = k
      BY <1>6, <1>7, <2>1, <2>3
    <3> QED BY <1>7, <3>1
  <2> QED BY <2>2, <2>3
<1>10. job'["close"] = Idle
  BY <1>1, <1>5
<1>11. \A l \in Listener : owner[l] # None => (Kept(l)' <=> Kept(l))
  <2> SUFFICES ASSUME NEW l \in Listener, owner[l] # None
               PROVE  Kept(l)' <=> Kept(l)
    OBVIOUS
  <2>1. Kept(l)' <=> owner[l] \in Live'
    BY <1>5, <1>10 DEF Kept, Idle
  <2>2. \A k \in DOMAIN sessions : sessions[k].thread = owner[l] => sessions[k].handle = handleOf[l]
    BY DEF ListenerInv, OwnersInv
  <2>3. Kept(l) <=> owner[l] \in Live /\ h # handleOf[l]
    BY <1>2, <1>3 DEF Kept
  <2>4. \A k \in DOMAIN sessions \ {i} : sessions[k].handle # h
    BY <1>4 DEF IInv, SessionsInv
  <2>5. owner[l] \in Live' <=> \E k \in DOMAIN sessions \ {i} : sessions[k].thread = owner[l]
    BY <1>8, <1>9 DEF Live
  <2>6. owner[l] \in Live <=> \E k \in DOMAIN sessions : sessions[k].thread = owner[l]
    BY DEF Live
  <2> QED BY <1>4, <2>1, <2>2, <2>3, <2>4, <2>5, <2>6
<1>12. \A l : Pending(l)' <=> Pending(l)
  BY <1>5 DEF Pending, News
<1>13. MessagesInv' /\ ClientsInv'
  BY <1>5 DEF ListenerInv, MessagesInv, ClientsInv
<1>14. OwnersInv'
  <2> SUFFICES ASSUME NEW l \in Listener, owner[l] # None
               PROVE  /\ handleOf[l] \in SessionHandle /\ thread[owner[l]] # "none"
                      /\ \A j \in DOMAIN sessions' :
                           sessions'[j].thread = owner[l] => sessions'[j].handle = handleOf[l]
    BY <1>5 DEF OwnersInv
  <2>1. /\ handleOf[l] \in SessionHandle /\ thread[owner[l]] # "none"
        /\ \A k \in DOMAIN sessions : sessions[k].thread = owner[l] => sessions[k].handle = handleOf[l]
    BY DEF ListenerInv, OwnersInv
  <2> QED BY <1>8, <2>1
<1>15. KeptInv'
  BY <1>5, <1>11, <1>12 DEF ListenerInv, KeptInv, News, Removes
<1>16. GoneInv'
  BY <1>5, <1>11, <1>12 DEF ListenerInv, GoneInv, News, Removes
<1> QED BY <1>13, <1>14, <1>15, <1>16 DEF ListenerInv

\* What is taken from the channel comes first.
LEMMA Taken ==
  ASSUME NEW S, NEW s \in Seq(S), s # <<>>
  PROVE  /\ Len(s) \in Nat \ {0} /\ DOMAIN s = 1 .. Len(s)
         /\ DOMAIN Tail(s) = 1 .. Len(s) - 1 /\ s[1] = Head(s)
         /\ \A i \in 1 .. Len(s) - 1 : Tail(s)[i] = s[i + 1]
OBVIOUS

LEMMA ListenerTake ==
  ASSUME IInv, ListenerInv, TakeMessage
  PROVE  ListenerInv'
<1> DEFINE n == Len(messages)
<1>1. PICK m : /\ m = Head(messages) /\ messages # <<>> /\ messages' = Tail(messages)
               /\ NewListener(m) \/ SwitchListener(m) \/ DropListener(m) \/ UnknownSession(m)
               /\ UNCHANGED <<sessions, job, thread, handleOf, owner>>
  BY DEF TakeMessage, portal, remote
<1>2. /\ messages \in Seq(Message) /\ \A i \in DOMAIN messages : messages[i] \in Message
      /\ clients \in [SessionHandle -> Listener \cup {None}]
      /\ listener \in [Listener -> {"none", "on", "off", "gone"}]
      /\ handleOf \in [Listener -> SessionHandle \cup {None}]
      /\ None \notin SessionHandle \cup Thread \cup Listener
  BY ListenerTyped, InputAssumption DEF IInv, InputAssumption
<1>3. /\ n \in Nat \ {0} /\ DOMAIN messages = 1 .. n /\ DOMAIN messages' = 1 .. n - 1
      /\ messages[1] = m /\ \A i \in 1 .. n - 1 : messages'[i] = messages[i + 1]
  BY <1>1, <1>2, Taken
<1> HIDE DEF n
<1>4. /\ 1 \in DOMAIN messages /\ m \in Message /\ m.handle \in SessionHandle
      /\ m.kind \in {"New", "Active", "Stop", "Remove"}
      /\ m.kind = "New" => m.listener \in Listener /\ handleOf[m.listener] = m.handle
  BY <1>2, <1>3 DEF Message, ListenerInv, MessagesInv
<1>5. \A i \in DOMAIN messages' : i + 1 \in DOMAIN messages /\ messages'[i] = messages[i + 1]
  BY <1>3
<1>6. \A i \in DOMAIN messages \ {1} :
        i - 1 \in DOMAIN messages' /\ messages'[i - 1] = messages[i] /\ (i - 1) + 1 = i
  BY <1>3
<1>7. \A l : Kept(l)' <=> Kept(l)
  BY <1>1 DEF Kept, Live
<1>8. \A l : Pending(l)' => Pending(l)
  BY <1>5 DEF Pending, News
<1>9. \A l : Pending(l) => Pending(l)' \/ News(1, l)
  BY <1>6 DEF Pending, News
<1>10. \A l : News(1, l) => m.kind = "New" /\ m.listener = l
  BY <1>3 DEF News
<1>11. MessagesInv'
  <2> SUFFICES ASSUME NEW i \in DOMAIN messages', messages'[i].kind = "New"
               PROVE  messages'[i].handle = handleOf[messages'[i].listener]
    BY <1>1 DEF MessagesInv
  <2> QED BY <1>5 DEF ListenerInv, MessagesInv
\* The listener that is kept for a handle is the one that was just announced, or
\* the one that was kept before.
<1>12. \A h \in SessionHandle :
         \/ clients'[h] = clients[h] \/ clients'[h] = None
         \/ m.kind = "New" /\ h = m.handle /\ clients'[h] = m.listener
  BY <1>1, <1>2 DEF NewListener, SwitchListener, DropListener, UnknownSession
<1>13. ClientsInv'
  BY <1>1, <1>4, <1>12 DEF ListenerInv, ClientsInv
<1>14. OwnersInv'
  BY <1>1 DEF ListenerInv, OwnersInv
\* Only the listener that is kept for the handle of a removal goes.
<1>15. \A l \in Listener :
         /\ m.kind = "New" /\ m.listener = l => listener'[l] = "on"
         /\ listener[l] \in {"on", "off"} /\ listener'[l] \notin {"on", "off"} =>
              m.kind = "Remove" /\ handleOf[l] = m.handle
  <2>1. CASE NewListener(m)
    BY <1>2, <1>4, <2>1 DEF NewListener
  <2>2. CASE SwitchListener(m)
    BY <1>2, <2>2 DEF SwitchListener
  <2>3. CASE DropListener(m)
    <3>1. handleOf[clients[m.handle]] = m.handle /\ m.kind = "Remove"
      BY <1>4, <2>3 DEF DropListener, ListenerInv, ClientsInv
    <3>2. listener' = [listener EXCEPT ![clients[m.handle]] = "gone"]
      BY <2>3 DEF DropListener
    <3>3. \A l \in Listener : l # clients[m.handle] => listener'[l] = listener[l]
      BY <1>2, <3>2
    <3> QED BY <3>1, <3>3
  <2>4. CASE UnknownSession(m)
    BY <2>4 DEF UnknownSession
  <2> QED BY <1>1, <2>1, <2>2, <2>3, <2>4
<1>16. KeptInv'
  <2> SUFFICES ASSUME NEW l \in Listener, owner[l] # None, Kept(l)
               PROVE  /\ Pending(l)' \/ listener'[l] \in {"on", "off"}
                      /\ \A i \in DOMAIN messages' : messages'[i].kind = "Remove"
                           /\ messages'[i].handle = handleOf[l] =>
                             \E j \in DOMAIN messages' : j > i /\ messages'[j].kind = "New"
                                                         /\ messages'[j].listener = l
    BY <1>1, <1>7 DEF KeptInv, News, Removes
  <2>1. /\ Pending(l) \/ listener[l] \in {"on", "off"}
        /\ \A i \in DOMAIN messages : Removes(i, handleOf[l]) =>
             \E j \in DOMAIN messages : j > i /\ News(j, l)
    BY DEF ListenerInv, KeptInv
  <2>2. Pending(l)' \/ listener'[l] \in {"on", "off"}
    <3>1. CASE Pending(l)
      BY <1>9, <1>10, <1>15, <3>1
    <3>2. CASE listener[l] \in {"on", "off"} /\ listener'[l] \notin {"on", "off"}
      <4>1. Removes(1, handleOf[l])
        BY <1>3, <1>15, <3>2 DEF Removes
      <4>2. PICK j \in DOMAIN messages : j > 1 /\ News(j, l)
        BY <1>4, <2>1, <4>1
      <4> QED BY <1>9, <1>10, <1>15, <4>2 DEF Pending
    <3> QED BY <2>1, <3>1, <3>2
  <2>3. ASSUME NEW i \in DOMAIN messages', messages'[i].kind = "Remove",
               messages'[i].handle = handleOf[l]
        PROVE  \E j \in DOMAIN messages' : j > i /\ messages'[j].kind = "New"
                                           /\ messages'[j].listener = l
    <3>1. PICK j \in DOMAIN messages : j > i + 1 /\ News(j, l)
      BY <1>5, <2>1, <2>3 DEF Removes
    <3>2. j - 1 > i /\ j # 1
      BY <1>3, <2>3, <3>1
    <3> QED BY <1>6, <3>1, <3>2 DEF News
  <2> QED BY <2>2, <2>3
<1>17. GoneInv'
  <2> SUFFICES ASSUME NEW l \in Listener, owner[l] # None, ~Kept(l)
               PROVE  \/ ~Pending(l)' /\ clients'[handleOf[l]] # l
                      \/ \E i \in DOMAIN messages' :
                           /\ messages'[i].kind = "Remove" /\ messages'[i].handle = handleOf[l]
                           /\ \A j \in DOMAIN messages' : j >= i =>
                                ~(messages'[j].kind = "New" /\ messages'[j].listener = l)
    BY <1>1, <1>7 DEF GoneInv, News, Removes
  <2>1. handleOf[l] \in SessionHandle
    BY DEF ListenerInv, OwnersInv
  <2>2. CASE ~Pending(l) /\ clients[handleOf[l]] # l
    <3>1. ~News(1, l)
      BY <1>4, <2>2 DEF Pending
    <3>2. ~(m.kind = "New" /\ m.listener = l)
      BY <1>3, <3>1 DEF News
    <3> QED BY <1>2, <1>8, <1>12, <2>1, <2>2, <3>2
  <2>3. ASSUME NEW i \in DOMAIN messages, Removes(i, handleOf[l]),
               \A j \in DOMAIN messages : j >= i => ~News(j, l)
        PROVE  \/ ~Pending(l)' /\ clients'[handleOf[l]] # l
               \/ \E k \in DOMAIN messages' :
                    /\ messages'[k].kind = "Remove" /\ messages'[k].handle = handleOf[l]
                    /\ \A j \in DOMAIN messages' : j >= k =>
                         ~(messages'[j].kind = "New" /\ messages'[j].listener = l)
    <3>1. CASE i = 1
      <4>1. m.kind = "Remove" /\ m.handle = handleOf[l]
        BY <1>3, <2>3, <3>1 DEF Removes
      <4>2. clients'[handleOf[l]] = None
        BY <1>1, <1>2, <2>1, <4>1 DEF NewListener, SwitchListener, DropListener, UnknownSession
      <4>3. ~Pending(l)
        BY <1>3, <2>3, <3>1 DEF Pending
      <4> QED BY <1>2, <1>8, <4>2, <4>3
    <3>2. CASE i # 1
      <4>1. i - 1 \in DOMAIN messages' /\ messages'[i - 1] = messages[i]
        BY <1>6, <3>2
      <4>2. \A j \in DOMAIN messages' : j >= i - 1 => j + 1 >= i
        BY <1>3, <2>3
      <4>3. \A j \in DOMAIN messages' : j >= i - 1 =>
              ~(messages'[j].kind = "New" /\ messages'[j].listener = l)
        BY <1>5, <2>3, <4>2 DEF News
      <4> QED BY <2>3, <4>1, <4>3 DEF Removes
    <3> QED BY <3>1, <3>2
  <2> QED BY <2>2, <2>3 DEF ListenerInv, GoneInv
<1> QED BY <1>11, <1>13, <1>14, <1>16, <1>17 DEF ListenerInv

LEMMA ListenerStep ==
  ASSUME IInv, ListenerInv, [Next]_vars
  PROVE  ListenerInv'
<1>0. TypeOK /\ job \in [Task -> Job] /\ Task = {"notify", "forward", "close"}
  BY DEF IInv, TypeOK, PortalTypeOK, Task
<1>1. ASSUME UNCHANGED <<messages, clients, listener, handleOf, owner, sessions>>,
             \A t \in Thread : thread[t] # "none" => thread'[t] # "none",
             job'["close"] = job["close"] \/ {job["close"].step, job'["close"].step} \subseteq {"idle", "stopped"}
      PROVE  ListenerInv'
  <2>1. \A h \in SessionHandle :
          (job["close"].step = "leaving" /\ job["close"].handle = h) <=>
          (job'["close"].step = "leaving" /\ job'["close"].handle = h)
    BY <1>1
  <2> QED BY <1>0, <1>1, <2>1, ListenerUnchanged
<1>2. ASSUME NEW p \in {"notify", "forward"}, NEW h, NEW r, Found(p, h, r)
      PROVE  job'["close"] = job["close"]
  BY <1>0, <1>2 DEF Found
<1>3. ASSUME NEW h \in SessionHandle, NEW r \in Request, Notify(h, r)
      PROVE  ListenerInv'
  <2>1. job'["close"] = job["close"]
    BY <1>2, <1>3 DEF Notify
  <2> QED BY <1>1, <1>3, <2>1 DEF Notify, remote, eis
<1>4. CASE Forward
  <2>1. job'["close"] = job["close"]
    BY <1>2, <1>4 DEF Forward
  <2> QED BY <1>1, <1>4, <2>1 DEF Forward, remote
<1>5. ASSUME NEW p \in {"notify", "forward"}, SendRequest(p)
      PROVE  ListenerInv'
  <2>1. job'["close"] = job["close"]
    BY <1>0, <1>5 DEF SendRequest
  <2> QED BY <1>1, <1>5, <2>1 DEF SendRequest, eis
<1>6. ASSUME NEW h \in SessionHandle, StopRemote(h)
      PROVE  ListenerInv'
  <2>1. job["close"].step = "idle" /\ job'["close"].step = "stopped"
    BY <1>0, <1>6 DEF StopRemote, Idle
  <2> QED BY <1>1, <1>6, <2>1 DEF StopRemote, eis
<1>7. CASE Portals
  BY <1>3, <1>4, <1>5, <1>6, <1>7, ListenerStart, ListenerRemove, ListenerRemoveSession,
     ListenerConnect, ListenerToggle DEF Portals
<1>8. ASSUME NEW t \in Thread, RemoteThread(t) \/ ThreadFails(t)
      PROVE  ListenerInv'
  <2>1. \A u \in Thread : thread[u] # "none" => thread'[u] # "none"
    BY <1>8, CursorTyped
       DEF RemoteThread, DevicesReady, HandleRequest, LoopEnds, ThreadFails, AfterRequest
  <2>2. UNCHANGED <<portal, eis>>
    BY <1>8 DEF RemoteThread, DevicesReady, HandleRequest, LoopEnds, ThreadFails
  <2> QED BY <1>1, <2>1, <2>2 DEF portal, eis
<1>9. ASSUME NEW l \in Listener, NEW r \in EisRequest, Accept(l) \/ ClientLeaves(l) \/ EisInput(l, r)
      PROVE  ListenerInv'
  BY <1>1, <1>9 DEF Accept, ClientLeaves, EisInput, portal, remote
<1>10. ASSUME NEW l \in Listener, Accept(l) \/ ClientLeaves(l)
       PROVE  ListenerInv'
  BY <1>1, <1>10 DEF Accept, ClientLeaves, portal, remote
<1>11. CASE UNCHANGED vars
  BY <1>1, <1>11 DEF vars, portal, remote, eis
<1> QED BY <1>7, <1>8, <1>9, <1>10, <1>11, ListenerTake DEF Next, EisServer

-----------------------------------------------------------------------------
(***************************************************************************)
(* The theorems.                                                           *)
(***************************************************************************)
LEMMA InitCursorListener == Init => CursorInv /\ ListenerInv
<1> SUFFICES ASSUME Init PROVE CursorInv /\ ListenerInv
  OBVIOUS
<1>1. CursorInv
  BY DEF Init, CursorInv, Unplugged
<1>2. messages = <<>> /\ \A h \in SessionHandle : clients[h] = None
  BY DEF Init
<1>3. \A l \in Listener : owner[l] = None
  BY DEF Init
<1>4. ListenerInv
  BY <1>2, <1>3 DEF ListenerInv, MessagesInv, ClientsInv, OwnersInv, KeptInv, GoneInv
<1> QED BY <1>1, <1>4

\* The strengthening on which the first four theorems rest is an invariant: what the
\* mutex of REMOTE_SESSIONS keeps between a look-up and the sending, and how
\* AppData's records relate to what the compositor was told.
THEOREM Invariance == Spec => [](IInv /\ HandlesInv)
<1>1. Init => IInv /\ HandlesInv
  BY InitInv
<1>2. IInv /\ HandlesInv /\ [Next]_vars => (IInv /\ HandlesInv)'
  BY NextInv
<1> QED BY <1>1, <1>2, PTL DEF Spec

\* Exit is the last thing that a thread is sent, however the portal calls, the
\* EIS server and Session.Close interleave.
THEOREM NothingIsSentAfterExit == Spec => []NothingFollowsExit
<1>1. IInv => NothingFollowsExit
  BY DEF IInv
<1> QED BY <1>1, Invariance, PTL

\* A thread leaves no button down that a request for a button pressed.
THEOREM ButtonsAreReleased == Spec => []ReleasedAtExit
<1>1. IInv => ReleasedAtExit
  BY DEF IInv, DevicesInv, DeviceInv, Recorded, ReleasedAtExit
<1> QED BY <1>1, Invariance, PTL

\* Only taps press a button that is down already.
THEOREM PressesAlternate == Spec => []PressedTwiceOnlyByTaps
<1>1. IInv => PressedTwiceOnlyByTaps
  BY DEF IInv, DevicesInv, DeviceInv, NoDouble, PressedTwiceOnlyByTaps
<1> QED BY <1>1, Invariance, PTL

\* No modifier stays set without a key that is down.
THEOREM ModifiersHaveKeys == Spec => []NoStuckModifier
<1>1. IInv => NoStuckModifier
  BY DEF IInv, DevicesInv, DeviceInv, HasKeys, NoStuckModifier
<1> QED BY <1>1, Invariance, PTL

\* The path of every channel is an invariant too: however requests, moves and the
\* end of a session interleave, what is in the channel leads from the pointer to
\* the cursor.
THEOREM CursorIsFollowed == Spec => []CursorFollowsPointer
<1>1. Init => IInv /\ HandlesInv /\ CursorInv
  BY InitInv, InitCursorListener
<1>2. IInv /\ HandlesInv /\ CursorInv /\ [Next]_vars => (IInv /\ HandlesInv /\ CursorInv)'
  BY NextInv, CursorStep
<1>3. IInv /\ CursorInv => CursorFollowsPointer
  <2> SUFFICES ASSUME IInv, CursorInv, NEW t \in Live, thread[t] = "running", queue[t] = <<>>
               PROVE  Pointed(device[t], cursor[t])
    BY DEF CursorFollowsPointer, Pointed
  <2>1. t \in Thread
    BY LiveType DEF IInv
  <2>2. PICK f : Path(f, queue[t], cursor[t], device[t])
    BY <2>1 DEF CursorInv
  <2> QED BY <2>2 DEF Path
<1> QED BY <1>1, <1>2, <1>3, PTL DEF Spec

\* The listener of a session comes and goes with it, as far as the EIS server has
\* taken its messages, for any number of sessions of one handle.
THEOREM ListenersAreRemoved == Spec => []ListenerFollowsSession
<1>1. Init => IInv /\ HandlesInv /\ ListenerInv
  BY InitInv, InitCursorListener
<1>2. IInv /\ HandlesInv /\ ListenerInv /\ [Next]_vars => (IInv /\ HandlesInv /\ ListenerInv)'
  BY NextInv, ListenerStep
<1>3. ListenerInv => ListenerFollowsSession
  <2> SUFFICES ASSUME ListenerInv, messages = <<>>, NEW l \in Listener, owner[l] # None
               PROVE  /\ (owner[l] \in Live /\ job["close"].step # "leaving")
                           => listener[l] \in {"on", "off"}
                      /\ owner[l] \notin Live => clients[handleOf[l]] # l
    BY DEF ListenerFollowsSession
  <2>1. DOMAIN messages = {} /\ ~Pending(l)
    BY DEF Pending
  <2>2. CASE Kept(l)
    BY <2>1, <2>2 DEF ListenerInv, KeptInv, Kept
  <2>3. CASE ~Kept(l)
    BY <2>1, <2>3 DEF ListenerInv, GoneInv, Kept
  <2> QED BY <2>2, <2>3
<1> QED BY <1>1, <1>2, <1>3, PTL DEF Spec
=============================================================================
