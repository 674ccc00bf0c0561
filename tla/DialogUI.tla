------------------------------ MODULE DialogUI ------------------------------
(***************************************************************************)
(* AreaSelectorGUI of src/src/dialog.rs: the one window in which every     *)
(* portal asks the user.  The iced event loop is a single thread, so one   *)
(* message of update() is one step.  The loop takes messages from two      *)
(* sources whose relative order nothing fixes: the channel on which the    *)
(* D-Bus tasks send (inbox) and the user's button presses (clicks).        *)
(*                                                                         *)
(* A button carries the id of the window it was drawn in, so a press that  *)
(* is handled after its window was closed still names that window.         *)
(***************************************************************************)
EXTENDS PortalTypes, Naturals, Sequences, FiniteSets, SequencesExt

CONSTANTS
  PromptQueueCapacity,   \* BACKGROUND_PROMPT_QUEUE_CAPACITY, 8 in the code
  TombstoneCapacity,     \* BACKGROUND_PROMPT_TOMBSTONE_CAPACITY, 64
  MaxClicks              \* bound of the model: button presses not yet handled

ASSUME CapacityAssumption ==
  /\ PromptQueueCapacity \in Nat
  /\ TombstoneCapacity \in Nat \ {0}
  /\ MaxClicks \in Nat \ {0}

VARIABLES
  inbox,          \* Sender<Message>: what update() has yet to handle
  clicks,         \* Message::Selected on its way from a drawn button
  windowId,       \* window_id; NoWindow while window_show is false
  guiMode,        \* gui_mode
  activeHandle,   \* active_background_handle
  queue,          \* background_queue, by handle
  tombstones,     \* tombstoned_background_handles
  asker,          \* history: who asked for the dialog on display
  answers,        \* sender_shot, sender_cast and sender_remote's channels
  toBackground    \* sender_background's channel

windowVars == <<windowId, guiMode, activeHandle, asker>>
promptVars == <<queue, tombstones>>
uiVars == <<inbox, clicks, windowVars, promptVars, answers, toBackground>>

-----------------------------------------------------------------------------
(* Windows.  iced::window::Id::unique() gives an id no press still carries; *)
(* the least such number is as good as a new one.  window_show and          *)
(* window_id are always set and cleared together and are one variable.      *)

NoWindow  == 0
WindowId  == 1 .. MaxClicks + 2
WindowShow == windowId # NoWindow

FreshIds == WindowId \ ({windowId} \cup {clicks[i].id : i \in DOMAIN clicks})
Unique == {w \in FreshIds : \A v \in FreshIds : w <= v}

GuiMode == DialogKind \cup {"BackgroundPrompt"}

UIInit ==
  /\ inbox = <<>>
  /\ clicks = <<>>
  /\ windowId = NoWindow
  /\ guiMode = "ScreenShot"
  /\ activeHandle = None
  /\ queue = <<>>
  /\ tombstones = <<>>
  /\ asker = None
  /\ answers = [ch \in Channel |-> <<>>]
  /\ toBackground = <<>>

UITypeOK ==
  /\ inbox \in Seq(Message)
  /\ clicks \in Seq([id : WindowId, select : CopySelect,
                     asker : Asker \cup {None}])
  /\ windowId \in WindowId \cup {NoWindow}
  /\ guiMode \in GuiMode
  /\ activeHandle \in Handle \cup {None}
  /\ queue \in Seq(Handle)
  /\ tombstones \in Seq(Handle)
  /\ asker \in Asker \cup {None}
  /\ answers \in [Channel -> Seq(DialogAnswer)]
  /\ toBackground \in Seq([handle : Handle, result : Result])

-----------------------------------------------------------------------------
(* What the user can press. *)

\* The buttons that view() draws for the dialog on display.
Buttons ==
  CASE guiMode \in Chooser ->
         {[kind |-> s, handle |-> None] : s \in {"Pick", "Cancel"}}
    [] guiMode \in Permission ->
         {[kind |-> s, handle |-> None] : s \in PermissionResult}
    [] guiMode = "BackgroundPrompt" ->
         {[kind |-> r, handle |-> activeHandle] : r \in Result}

Press(s) ==
  /\ WindowShow
  /\ Len(clicks) < MaxClicks
  /\ clicks' = Append(clicks, [id |-> windowId, select |-> s, asker |-> asker])
  /\ UNCHANGED <<inbox, windowVars, promptVars, answers, toBackground>>

PressAny == \E s \in Buttons : Press(s)

-----------------------------------------------------------------------------
(* Opening and closing the window. *)

\* open_background_prompt
OpenBackgroundPrompt(h) ==
  /\ windowId' \in Unique
  /\ guiMode' = "BackgroundPrompt"
  /\ activeHandle' = h
  /\ asker' = None

\* The window is closed with the dialog in a given mode, then
\* show_next_background_prompt opens the prompt that waited longest.
CloseAndShowNext(mode, active) ==
  \/ /\ queue = <<>>
     /\ windowId' = NoWindow
     /\ guiMode' = mode
     /\ activeHandle' = active
     /\ asker' = None
     /\ UNCHANGED queue
  \/ /\ queue # <<>>
     /\ OpenBackgroundPrompt(Head(queue))
     /\ queue' = Tail(queue)

-----------------------------------------------------------------------------
(* Message::Selected *)

\* mutants: one of the two kinds of selection is never passed on
AcceptsSelections(s) == s.kind \notin Result
AcceptsResults(s) == s.kind \in Result /\ s.handle = activeHandle

\* Which selections the mode on display passes on.
Accepts(s) ==
  CASE guiMode = "BackgroundPrompt" ->
         s.kind \in Result /\ s.handle = activeHandle
    [] guiMode = "ScreenCast" -> TRUE
    [] OTHER -> s.kind \notin Result

AnswersAnyWindow(click) == Accepts(click.select)   \* mutant: no window id check

\* A press counts in the window it was made in, and nowhere else.
Answers(click) == click.id = windowId /\ Accepts(click.select)

SelectedBackground(s) ==
  /\ guiMode = "BackgroundPrompt"
  /\ toBackground' = Append(toBackground, [handle |-> s.handle, result |-> s.kind])
  /\ CloseAndShowNext("ScreenShot", None)
  /\ UNCHANGED answers

SelectedDialog(click) ==
  /\ guiMode # "BackgroundPrompt"
  /\ answers' = [answers EXCEPT ![ChannelOf(guiMode)] =
       Append(@, [kind |-> click.select.kind, asker |-> click.asker])]
  /\ CloseAndShowNext(guiMode, activeHandle)
  /\ UNCHANGED toBackground

Selected ==
  /\ clicks # <<>>
  /\ clicks' = Tail(clicks)
  /\ UNCHANGED <<inbox, tombstones>>
  /\ \/ /\ Answers(Head(clicks))
        /\ \/ SelectedBackground(Head(clicks).select)
           \/ SelectedDialog(Head(clicks))
     \/ /\ ~Answers(Head(clicks))
        /\ UNCHANGED <<windowVars, queue, answers, toBackground>>

-----------------------------------------------------------------------------
(* ImageCopyOpen, ScreenCastOpen and PermissionDialog: while any window is  *)
(* on display the new dialog is refused with Cancel on its own channel.     *)

Receive(m) ==
  /\ inbox # <<>>
  /\ m = Head(inbox)
  /\ inbox' = Tail(inbox)

DialogOpen(k, d) ==
  /\ Receive(OpenDialog(k, d))
  /\ \/ /\ WindowShow
        /\ answers' = [answers EXCEPT ![ChannelOf(k)] =
             Append(@, [kind |-> "Cancel", asker |-> d])]
        /\ UNCHANGED <<windowId, guiMode, asker>>
     \/ /\ ~WindowShow
        /\ windowId' \in Unique
        /\ guiMode' = k
        /\ asker' = d
        /\ UNCHANGED answers
  /\ UNCHANGED <<clicks, activeHandle, promptVars, toBackground>>

-----------------------------------------------------------------------------
(* Message::BackgroundPrompt *)

IsTombstoned(h) == Contains(tombstones, h)

\* consume_background_tombstone: the prompt was withdrawn before it arrived.
\* A handle has at most one tombstone.
PromptWithdrawn(h) ==
  /\ \E i \in DOMAIN tombstones :
       tombstones[i] = h /\ tombstones' = RemoveAt(tombstones, i)
  /\ UNCHANGED <<windowVars, queue, toBackground>>

\* mutant: a prompt for which there is no room is forgotten
PromptForgotten(h) ==
  /\ ~IsTombstoned(h)
  /\ WindowShow
  /\ Len(queue) >= PromptQueueCapacity
  /\ UNCHANGED <<windowVars, promptVars, toBackground>>

\* No room to queue: the dialog answers "allow once" without asking.
PromptOverflows(h) ==
  /\ ~IsTombstoned(h)
  /\ WindowShow
  /\ Len(queue) >= PromptQueueCapacity
  /\ toBackground' = Append(toBackground, [handle |-> h, result |-> "once"])
  /\ UNCHANGED <<windowVars, promptVars>>

PromptQueued(h) ==
  /\ ~IsTombstoned(h)
  /\ WindowShow
  /\ Len(queue) < PromptQueueCapacity
  /\ queue' = Append(queue, h)
  /\ UNCHANGED <<windowVars, tombstones, toBackground>>

PromptShown(h) ==
  /\ ~IsTombstoned(h)
  /\ ~WindowShow
  /\ OpenBackgroundPrompt(h)
  /\ UNCHANGED <<promptVars, toBackground>>

BackgroundPrompt(h) ==
  /\ Receive(Prompt(h))
  /\ \/ PromptWithdrawn(h)
     \/ PromptOverflows(h)
     \/ PromptQueued(h)
     \/ PromptShown(h)
  /\ UNCHANGED <<clicks, answers>>

-----------------------------------------------------------------------------
(* Message::CloseBackgroundPrompt *)

\* retain(request.handle != h): SequencesExt's Remove, by the rank of what
\* remains, so that its elements and its type can be reasoned about.
Rank(S, i) == Cardinality({j \in S : j < i})
Without(q, h) ==
  LET kept == {i \in DOMAIN q : q[i] # h}
  IN [n \in 1 .. Cardinality(kept) |-> q[CHOOSE i \in kept : Rank(kept, i) = n - 1]]

OnDisplay(h) == guiMode = "BackgroundPrompt" /\ activeHandle = h

NoTombstone(h) == tombstones   \* mutant: an early withdrawal is not remembered

\* tombstone_background_handle: a full list forgets its oldest handle.
Tombstoned(h) ==
  IF IsTombstoned(h) THEN tombstones
  ELSE Append(IF Len(tombstones) >= TombstoneCapacity THEN Tail(tombstones)
                                                      ELSE tombstones, h)

CloseNotDisplayed(h) ==
  /\ ~OnDisplay(h)
  /\ queue' = Without(queue, h)
  /\ tombstones' = IF Contains(queue, h) THEN tombstones ELSE Tombstoned(h)
  /\ UNCHANGED windowVars

CloseDisplayed(h) ==
  /\ OnDisplay(h)
  /\ CloseAndShowNext("ScreenShot", None)
  /\ UNCHANGED tombstones

CloseBackgroundPrompt(h) ==
  /\ Receive(ClosePrompt(h))
  /\ CloseNotDisplayed(h) \/ CloseDisplayed(h)
  /\ UNCHANGED <<clicks, answers, toBackground>>

-----------------------------------------------------------------------------
\* update(), for the messages that come from the D-Bus tasks
Update ==
  \/ \E k \in DialogKind, d \in Asker : DialogOpen(k, d)
  \/ \E h \in Handle : BackgroundPrompt(h) \/ CloseBackgroundPrompt(h)

UINext == PressAny \/ Selected \/ Update
=============================================================================
