--------------------------- MODULE MCRemoteInput -----------------------------
(***************************************************************************)
(* RemoteInput on small instances.                                         *)
(***************************************************************************)
EXTENDS RemoteInput

CONSTANTS h1, t1, t2, l1, l2

\* An output that begins left of the origin and ends right of it.
LeftOfOrigin == -1

Buttons == [kind : {"PointerButton"}, button : {"BTN_LEFT"}, press : BOOLEAN]
Motions ==
  [kind : {"PointerMotionAbsolute"}, x : {0, 2}] \cup [kind : {"PointerMotion"}, dx : {-2}]
Scrolls ==
  [kind : {"PointerAxis"}, moved : {{"vertical"}}, finish : {TRUE}]
Keys ==
  [kind : {"KeyboardKeycode"}, key : {"LEFT_SHIFT"}, press : BOOLEAN]
  \cup [kind : {"KeyboardKeysym"}, key : {"KEY_A"}, level : {1}, press : BOOLEAN]
Taps ==
  [kind : {"TouchDown"}, slot : {"OTHER"}, x : {1}] \cup [kind : {"TouchUp"}, slot : {"OTHER"}]

AllRequests == Buttons \cup Motions \cup Scrolls \cup Keys \cup Taps
EisRequests == Buttons
=============================================================================
