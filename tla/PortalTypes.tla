---------------------------- MODULE PortalTypes ----------------------------
(***************************************************************************)
(* The values that the dialog (src/src/dialog.rs) and the D-Bus services   *)
(* exchange: Message to the dialog, CopySelect back from it.               *)
(*                                                                         *)
(* Titles, application names, screen lists and window previews carried by  *)
(* the messages decide nothing here and are left out; so a message is its  *)
(* kind and, for a background prompt, the request handle.  The asker of a  *)
(* dialog is history: the code does not pass it, and no guard reads it.    *)
(***************************************************************************)
CONSTANTS
  Handle,    \* object paths of background requests
  Asker,     \* calls of the other portals that open a dialog
  None       \* absence of a value

\* BackgroundPermission results: 0 is deny, 1 allow, 2 allow once.
Result == {"deny", "allow", "once"}

\* The dialogs of the other portals, named by the GuiMode they open.
Chooser    == {"ScreenShot", "ScreenCast"}
Permission == {"PermissionShot", "PermissionRemote"}
DialogKind == Chooser \cup Permission

Message ==
  [kind : DialogKind \cup {"BackgroundPrompt", "CloseBackgroundPrompt"},
   handle : Handle \cup {None},
   asker : Asker \cup {None}]

OpenDialog(k, d) == [kind |-> k, handle |-> None, asker |-> d]
Prompt(h) == [kind |-> "BackgroundPrompt", handle |-> h, asker |-> None]
ClosePrompt(h) == [kind |-> "CloseBackgroundPrompt", handle |-> h, asker |-> None]

\* CopySelect without its indices: "Pick" stands for Window, Screen, All and
\* Slurp; the Permission results are named by themselves.
PermissionResult == {"AllowOnce", "AlwaysAllow", "Reject"}
Selection == {"Pick", "Cancel"} \cup PermissionResult

CopySelect ==
  [kind : Selection \cup Result, handle : Handle \cup {None}]

DialogAnswer == [kind : Selection \cup Result, asker : Asker \cup {None}]

\* The answer channels that the dialog owns a sender of.
Channel == {"shot", "cast", "remote"}

\* sender_shot, sender_cast or sender_remote, by the dialog that answers.
ChannelOf(k) ==
  CASE k \in {"ScreenShot", "PermissionShot"} -> "shot"
    [] k = "ScreenCast"                       -> "cast"
    [] k = "PermissionRemote"                 -> "remote"
=============================================================================
