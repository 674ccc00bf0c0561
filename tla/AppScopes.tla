------------------------------ MODULE AppScopes ------------------------------
(***************************************************************************)
(* The background monitor (src/src/backend.rs): the portal tells the       *)
(* frontend when the set of running applications changes, and answers      *)
(* GetAppState (src/src/background.rs) when the frontend then asks.        *)
(*                                                                         *)
(* Two tasks work on it.  forward_systemd_scope_signals subscribes to the  *)
(* service manager, lists its units and forwards the list and then every   *)
(* UnitNew and UnitRemoved into a bounded channel; when anything fails it  *)
(* starts again after a pause.  watch_background_applications drains the   *)
(* channel into its AppScopeTracker and compares the windows with the      *)
(* last ones it saw every ten seconds.                                     *)
(*                                                                         *)
(* UnitNew and UnitRemoved are two streams, each in order, of which        *)
(* select! takes either.  wire keeps the signals of both in the order in   *)
(* which they were emitted, and forwarding takes the first of one kind.    *)
(* A unit runs once: the name of a scope ends in a generated suffix.       *)
(***************************************************************************)
EXTENDS ScopeTracker, Sequences, SequencesExt

CONSTANTS
  WindowId,         \* application ids that windows have
  TokenOf,          \* normalized_app_token of an application id
  ChannelSize,      \* capacity of the channel (32)
  MaxDisturbances   \* bound: windows that open or close, calls that fail and
                    \* streams that end, together

VARIABLES
  live, spent,    \* units that run, units that have been started
  windows,        \* application ids that have a window
  phase,          \* where forward_systemd_scope_signals stands
  wire,           \* signals its two streams hold
  listing,        \* the units it listed and has not sent yet
  channel,        \* SystemdMonitorEvents on their way to the watcher
  watcher,        \* watch_background_applications: starting, unseeded, seeded
  tracker,        \* app_scope_tracker
  lastWindowed,   \* last_windowed_app_ids
  told,           \* RunningApplicationsChanged the frontend has not acted on
  query,          \* GetAppState in progress: the units it listed
  view,           \* what the frontend was last answered
  disturbances,   \* count of what MaxDisturbances bounds
  crossed,        \* history: applications whose signals were forwarded out of order
  changed,        \* history: ids whose window came or went since lastWindowed
  flickered,      \* history: ids whose window did so twice since then
  blind           \* history: parts of the view that were read while nothing
                  \* watched them, or could not be read

world == <<live, spent, windows>>
forwarder == <<phase, wire, listing>>
monitor == <<watcher, tracker, lastWindowed>>
frontend == <<told, query, view>>
windowHistory == <<changed, flickered>>
vars == <<world, forwarder, channel, monitor, frontend, disturbances, crossed,
          windowHistory, blind>>

ASSUME MonitorAssumption ==
  WindowId \subseteq AppId /\
  ChannelSize \in Nat \ {0} /\ MaxDisturbances \in Nat

\* A list of units is never taken for none.
ASSUME AbsenceAssumption == \A us \in SUBSET Unit : us # None

New(u) == [kind |-> "New", unit |-> u]
Removed(u) == [kind |-> "Removed", unit |-> u]
Reconcile(us) == [kind |-> "Reconcile", units |-> us]
UnitSignal == [kind : {"New", "Removed"}, unit : Unit]
Event == UnitSignal \cup [kind : {"Reconcile"}, units : SUBSET Unit]

Phase == {"paused", "subscribed", "listed", "forwarding"}
AppStatus == {"Background", "Running"}

TypeOK ==
  /\ live \subseteq spent /\ spent \subseteq Unit /\ windows \subseteq WindowId
  /\ phase \in Phase /\ wire \in Seq(UnitSignal)
  /\ listing \in SUBSET Unit
  /\ channel \in Seq(Event) /\ Len(channel) <= ChannelSize
  /\ watcher \in {"starting", "unseeded", "seeded"}
  /\ IsTracker(tracker) /\ lastWindowed \subseteq AppId
  /\ told \in BOOLEAN /\ query \in (SUBSET Unit) \cup {None}
  /\ view \in UNION {[A -> AppStatus] : A \in SUBSET AppId}
  /\ disturbances \in 0 .. MaxDisturbances
  /\ crossed \subseteq AppId /\ changed \subseteq AppId /\ flickered \subseteq AppId
  /\ blind \subseteq {"scopes", "windows"}

Init ==
  /\ live \in SUBSET Unit /\ spent = live /\ windows = {}
  /\ phase = "paused" /\ wire = <<>> /\ listing = {}
  /\ channel = <<>>
  /\ watcher = "starting" /\ tracker = EmptyTracker /\ lastWindowed = {}
  /\ told = TRUE /\ query = None /\ view = [a \in {} |-> "Running"]
  /\ disturbances = 0
  /\ crossed = {} /\ changed = {} /\ flickered = {} /\ blind = {}

Disturbs == disturbances < MaxDisturbances /\ disturbances' = disturbances + 1

-----------------------------------------------------------------------------
(* The service manager and the compositor *)

\* The streams are made, and systemd told to emit, before the units are listed.
Receives == phase \in {"subscribed", "listed", "forwarding"}

Emit(event) == wire' = IF Receives THEN Append(wire, event) ELSE wire

UnitStarts(u) ==
  /\ u \notin spent
  /\ spent' = spent \cup {u} /\ live' = live \cup {u}
  /\ Emit(New(u))
  /\ UNCHANGED <<windows, phase, listing, channel, monitor, frontend, disturbances,
                 crossed, windowHistory, blind>>

UnitStops(u) ==
  /\ u \in live
  /\ live' = live \ {u}
  /\ Emit(Removed(u))
  /\ UNCHANGED <<spent, windows, phase, listing, channel, monitor,
                 frontend, disturbances, crossed, windowHistory, blind>>

\* A window opens or closes: an id gets its first window or loses its last.
WindowChanges(a) ==
  /\ Disturbs
  /\ windows' = IF a \in windows THEN windows \ {a} ELSE windows \cup {a}
  /\ changed' = changed \cup {a}
  /\ flickered' = flickered \cup (changed \cap {a})
  /\ UNCHANGED <<live, spent, forwarder, channel, monitor, frontend, crossed, blind>>

-----------------------------------------------------------------------------
(* forward_systemd_scope_signals *)

Subscribe ==
  /\ phase = "paused" /\ phase' = "subscribed"
  /\ UNCHANGED <<world, wire, listing, channel, monitor, frontend, disturbances,
                 crossed, windowHistory, blind>>

ListUnits ==
  /\ phase = "subscribed" /\ phase' = "listed"
  /\ listing' = live
  /\ UNCHANGED <<world, wire, channel, monitor, frontend, disturbances, crossed,
                 windowHistory, blind>>

\* send waits for room.
Room == Len(channel) < ChannelSize

SendListing ==
  /\ phase = "listed" /\ phase' = "forwarding"
  /\ Room /\ channel' = Append(channel, Reconcile(listing))
  /\ listing' = {}
  /\ UNCHANGED <<world, wire, monitor, frontend, disturbances, crossed,
                 windowHistory, blind>>

\* The next message of one of the two streams.
IsNext(i) == \A j \in 1 .. i - 1 : wire[j].kind # wire[i].kind

\* Applications of which an older signal stays behind.
Overtaken(i) ==
  AppsOf({wire[j].unit : j \in 1 .. i - 1}) \cap {AppOf[wire[i].unit]}

ForwardSignal(i) ==
  /\ phase = "forwarding" /\ Room /\ IsNext(i)
  /\ channel' = Append(channel, wire[i])
  /\ wire' = RemoveAt(wire, i)
  /\ crossed' = crossed \cup Overtaken(i)
  /\ UNCHANGED <<world, phase, listing, monitor, frontend, disturbances,
                 windowHistory, blind>>

\* Subscribing or listing fails, or a stream ends: both streams are dropped
\* with what they hold, and the task starts again after its pause.
StreamsEnd ==
  /\ phase \in {"subscribed", "forwarding"} /\ phase' = "paused"
  /\ Disturbs
  /\ wire' = <<>>
  /\ blind' = IF wire = <<>> THEN blind ELSE blind \cup {"scopes"}
  /\ UNCHANGED <<world, listing, channel, monitor, frontend, crossed, windowHistory>>

-----------------------------------------------------------------------------
(* watch_background_applications *)

\* collect_windowed_app_ids().unwrap_or_default(), before the loop.
StartWatching ==
  /\ watcher = "starting" /\ watcher' = "unseeded"
  /\ \/ lastWindowed' = windows /\ changed' = {} /\ UNCHANGED disturbances
     \/ lastWindowed' = {} /\ changed' = windows /\ Disturbs
  /\ UNCHANGED <<world, forwarder, channel, tracker, frontend, crossed,
                 flickered, blind>>

Watching == watcher # "starting"

\* RunningApplicationsChanged
Announce(yes) == told' = (told \/ yes)

\* emit_running_applications_changed_for_app_scope
TakeSignal ==
  /\ Watching /\ channel # <<>>
  /\ LET event == Head(channel) IN
       \/ /\ event.kind = "New"
          /\ tracker' = InsertUnit(tracker, event.unit)
          /\ Announce(AppStarted(tracker, event.unit))
       \/ /\ event.kind = "Removed"
          /\ tracker' = RemoveUnit(tracker, event.unit)
          /\ Announce(AppStopped(tracker, event.unit))
  /\ channel' = Tail(channel)
  /\ UNCHANGED <<world, forwarder, watcher, lastWindowed, query, view, disturbances,
                 crossed, windowHistory, blind>>

\* mutant: an application that is gone from the listing is not noticed
AppSetGrew(us) == ~(AppIds(Rebuild(us)) \subseteq AppIds(tracker))

\* reconcile_units
AppSetChanged(us) == AppIds(Rebuild(us)) # AppIds(tracker)

\* The first listing seeds the tracker and announces nothing.
TakeListing ==
  /\ Watching /\ channel # <<>> /\ Head(channel).kind = "Reconcile"
  /\ LET us == Head(channel).units IN
       /\ tracker' = Rebuild(us)
       /\ Announce(watcher = "seeded" /\ AppSetChanged(us))
  /\ watcher' = "seeded"
  /\ channel' = Tail(channel)
  /\ UNCHANGED <<world, forwarder, lastWindowed, query, view, disturbances, crossed,
                 windowHistory, blind>>

\* update_windowed_app_ids
Poll(tops) ==
  /\ Watching
  /\ lastWindowed' = tops
  /\ Announce(tops # lastWindowed)
  /\ changed' = {}
  /\ UNCHANGED <<world, forwarder, channel, watcher, tracker, query, view,
                 disturbances, crossed, flickered, blind>>

\* mutant: no window at all counts as a poll that failed
PollSome == IF windows = {} THEN UNCHANGED vars ELSE Poll(windows)

\* A tick of window_poll.  A poll that fails changes nothing.
PollWindows == Poll(windows)

-----------------------------------------------------------------------------
(* GetAppState, called by the frontend once and after every announcement *)

\* One part of the answer is read: unseen tells whether by nobody's watch.
Read(part, unseen) == blind' = IF unseen THEN blind \cup {part} ELSE blind \ {part}

AskAppState ==
  /\ told /\ query = None
  /\ told' = FALSE
  /\ \/ query' = live /\ Read("scopes", phase \in {"paused", "subscribed"})
        /\ UNCHANGED disturbances
     \/ query' = {} /\ Read("scopes", TRUE) /\ Disturbs
  /\ UNCHANGED <<world, forwarder, channel, monitor, view, crossed, windowHistory>>

\* fuzzy_systemd_app_id: the one scope with the same token, if there is one.
Alike(w, scopes) == {s \in scopes : TokenOf[s] = TokenOf[w] /\ TokenOf[w] # None}

NameFor(w, scopes) ==
  IF w \in scopes \/ Cardinality(Alike(w, scopes)) # 1
  THEN w
  ELSE CHOOSE s \in Alike(w, scopes) : TRUE

\* get_app_state_impl: what has a window is Running, another scope Background.
AppState(scopes, tops) ==
  LET shown == {NameFor(w, scopes) : w \in tops} IN
    [a \in scopes \cup shown |-> IF a \in shown THEN "Running" ELSE "Background"]

AnswerAppState ==
  /\ query # None /\ query' = None
  /\ \/ /\ view' = AppState(AppsOf(query), windows)
        /\ Read("windows", ~Watching)
        /\ flickered' = {} /\ UNCHANGED disturbances
     \/ /\ view' = AppState(AppsOf(query), {})
        /\ Read("windows", TRUE)
        /\ Disturbs /\ UNCHANGED flickered
  /\ UNCHANGED <<world, forwarder, channel, monitor, told, crossed, changed>>

-----------------------------------------------------------------------------
Forwarder ==
  \/ Subscribe \/ ListUnits \/ SendListing
  \/ \E i \in DOMAIN wire : ForwardSignal(i)

Watcher == StartWatching \/ TakeSignal \/ TakeListing
Frontend == AskAppState \/ AnswerAppState

Next ==
  \/ \E u \in Unit : UnitStarts(u) \/ UnitStops(u)
  \/ \E a \in WindowId : WindowChanges(a)
  \/ Forwarder \/ StreamsEnd
  \/ Watcher \/ PollWindows
  \/ Frontend

\* Three tasks of a runtime that schedules every task that can run, and a
\* timer.  Units, windows and failures owe nothing.
Spec == Init /\ [][Next]_vars /\ WF_vars(Forwarder) /\ WF_vars(Watcher)
             /\ WF_vars(PollWindows) /\ WF_vars(Frontend)

-----------------------------------------------------------------------------
(* Properties *)

\* The two maps of the tracker never disagree, whatever the order in which
\* listings and signals reach it (insert_unit, remove_unit,
\* rebuild_from_unit_names): a count that is off by one would silence the
\* announcement of the next start or stop of that application.
CountsAgree == CountsAgreeIn(tracker)

Settled ==
  phase = "forwarding" /\ wire = <<>> /\ channel = <<>> /\ watcher = "seeded"

\* RunningApplicationsChanged is emitted exactly when the tracker's set of
\* applications or the set of windows changes, but for the first listing,
\* which seeds the tracker silently.
AnnouncesChanges ==
  [][/\ watcher = "seeded" /\ AppIds(tracker') # AppIds(tracker) => told'
     /\ Watching /\ lastWindowed' # lastWindowed => told'
     /\ ~told /\ told' => \/ AppIds(tracker') # AppIds(tracker)
                          \/ lastWindowed' # lastWindowed]_vars

Current == view = AppState(AppsOf(live), windows)

\* What the frontend may have missed: signals of an application forwarded out
\* of order, a part of the state read while nothing watched it, a window that
\* came and went between two polls.
Excused == crossed # {} \/ blind # {} \/ flickered # {}

\* When nothing is left to forward, take, poll or answer, the frontend's view
\* of the running applications is the present one: no announcement is lost
\* between GetAppState's two readings, the tracker and the poll.
QuietViewIsCurrent ==
  Settled /\ ~told /\ query = None /\ changed = {} => Current \/ Excused

\* The view becomes current once applications stop starting and stopping: the
\* monitor seeds, resubscribes after a failure and polls without being asked.
ViewBecomesCurrent == <>[](Current \/ Excused)
=============================================================================
