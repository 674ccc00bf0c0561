# A specification of xdg-desktop-portal-luminous

xdg-desktop-portal-luminous is a backend of xdg-desktop-portal for wlroots
compositors.  It serves a dozen D-Bus interfaces to the portal frontend, asks
the user through one dialog window, and keeps threads that talk to the
compositor, to PipeWire and to EIS clients.  This directory holds TLA+ modules
that model its concurrent core, TLC configurations that check them on small
instances, and TLAPS proofs.

All paths below are those of the repository, under `src/`.

## The system

| component | source | state | operations | talks to |
|---|---|---|---|---|
| Background portal | `src/background.rs`, `src/request.rs` | registry of waiting requests (`by_handle`, `app_handles`); one Request object per open call | NotifyBackground, Request.Close, the router of answers; EnableAutostart; GetAppState | Dialog by messages, and back by an unbounded channel; systemd and compositor for GetAppState |
| Dialog | `src/dialog.rs` | one window, its mode, the active background handle, a queue of prompts, tombstones | one `update` per message | every portal that asks |
| Screenshot | `src/screenshot.rs` | none of its own | Screenshot, PickColor | Dialog, white list |
| ScreenCast | `src/screencast.rs` | `CAST_SESSIONS` | CreateSession, SelectSources, Start | Dialog, Sessions, PipeWire thread |
| RemoteDesktop | `src/remotedesktop.rs` | `REMOTE_SESSIONS`, with the cursor of each session | CreateSession, SelectDevices, Start, Notify..., ConnectToEIS | Dialog, white list, Sessions, remote input thread, EIS server, Clipboard |
| InputCapture | `src/input_capture.rs` | EIS client sockets; shares `REMOTE_SESSIONS` | CreateSession, GetZones, SetPointerBarriers, Enable, Disable, ConnectToEIS | Sessions, EIS server |
| Sessions | `src/session.rs` | `SESSIONS`, and a clone of each session in the object server | append, option changes, Close | the four tables of what hangs on a session |
| Clipboard portal | `src/clipboard.rs` | `CLIPBOARD_SESSION` | RequestClipboard, SetSelection, SelectionWrite, SelectionWriteDone, SelectionRead; the signal forwarder | Sessions, Clipboard worker |
| Clipboard worker | `src/clipboard/wayland_backend.rs` | offers, selection, own source, pending transfers | one event loop per session | compositor |
| White list | `src/settings/white_list.rs` | applications that are always allowed | check, add, load, save | a file |
| Settings | `src/settings.rs`, `src/settings/config.rs`, `src/backend.rs` | `SETTING_CONFIG`, and once for all the path of its file | Read, ReadAll; `update_settings` at the start and at every event of the watched directory | a file, the dialog, clients by signals |
| Background monitor | `src/backend.rs`, `src/systemd.rs` | tracked app scopes and their counts; the windows of the last poll | listing and signals of scopes, a poll of the windows every ten seconds, RunningApplicationsChanged | systemd, compositor, the frontend |
| Remote input | `src/remotedesktop/remote_thread.rs`, `state.rs`, `dispatch.rs` | a virtual pointer and keyboard for each session: pressed buttons, modifiers, scrolling axes | one request per Notify method, Exit | compositor |
| EIS server | `src/remotedesktop/eis_server.rs` | one listener per session handle, and the connections it accepted | New, Active, Stop, Remove; requests of clients | RemoteDesktop, InputCapture; a thread forwards its input |
| Cast thread | `src/pipewirethread.rs` | one PipeWire stream | stream callbacks, stop | compositor, PipeWire |
| Headless helper | `lumious_headless_helper/src/main.rs`, `stream_message/src` | a monitor choice | one request per connection | `src/utils.rs` |
| Access portal | `src/access.rs` | none | a stub | - |
| Start-up | `src/main.rs` | none | - | - |

### How the parts interact, and what is hard

* **Tasks.** zbus runs each D-Bus call as a task.  A method with `&mut self`
  locks its interface until it returns, the others share it; the methods of
  Clipboard (`spawn = false`) are handled inline, in the order they arrive.
  Between two awaits a task may be overtaken by any other.
* **Dialog.** Portals send messages to the dialog's event loop
  (`Message`).  It answers on four channels: one for background prompts, and
  `sender_shot`, `sender_cast`, `sender_remote` for the others.  Nothing in an
  answer names the call it is for, except for background prompts; that an
  answer reaches its asker follows from who can wait on a channel.
* **Registry and router.** Waiting NotifyBackground calls of one application
  share the prompt of the first.  The router takes their senders under the
  registry's mutex and sends after it has released it, while calls give up and
  clean up.
* **Tables.** A session lives in `SESSIONS`, in the object server (a clone) and
  in three more tables, each with its own mutex.  `Start` looks a session up,
  waits for the user, PipeWire or a clipboard worker, and registers the result
  afterwards, while `Close` may run.
* **Threads.** A clipboard worker, a cast thread, a remote input thread and EIS
  clients run beside the runtime and talk to it by channels; some of them are
  bounded and some answers time out.
* **Input.** Notify calls and the forwarding thread of the EIS server look a
  session up and send to its thread under the mutex of `REMOTE_SESSIONS`, which
  the removal of the session takes too before it sends Exit.  The EIS server
  hears of sessions by messages, after the fact, and a handle may come back.
* **Files.** `update_settings` runs at the start and in the watcher, with five
  messages to announce what it read; the white list is saved into the directory
  that is watched.
* **Monitor.** Scopes that start and stop arrive on two signal streams whose
  relative order is not kept, beside a listing that is made while they run; the
  frontend, once told, asks for scopes and windows at two moments.

Withdrawals that overtake what they withdraw, state that is looked up before an
await and used after it, late presses and late answers, partial failures, full
queues and two tables that must agree are where this program can go wrong;
`PROJECT.json` lists them line by line under `hazards`.  Crash and restart
matter for the two files only; everything else starts empty.

### What makes each component correct

* Background portal: each request is answered, once, by the decision its
  application got, or cancelled for a cause; the registry agrees with the calls
  that are open; nobody is asked twice, or about a request that is over.
* Dialog: one window at a time; each dialog is answered, refused or withdrawn;
  nothing is answered by a press that was meant for another window.
* Screenshot, ScreenCast, RemoteDesktop: each call gets its own answer, of its
  own kind; an application on the white list is not asked about.
* Sessions: what Start made is there as long as the session, and goes with it.
* InputCapture: the EIS listener is in the state that was signalled last, unless
  the application connected again since.
* Clipboard: the frontend is told who owns the selection; a paste is served or
  refused; a closed session stops using the clipboard, but for what is in hand;
  nothing blocks the bus.
* Settings: clients and dialog know the settings that were read last, and an
  edit of the file is picked up.  White list: what was saved is loaded, whatever
  failed or crashed since.
* Background monitor: the frontend ends up with the applications that run, and
  is told of changes, and only of them.
* Remote input: nothing is pressed after Exit; what was pressed is released;
  modifiers go with their keys.  EIS: a listener is there as long as its session.
* Cast thread: start returns a node id, and the stream is stopped by whoever
  owns it, once.

## Modules

| module | models | checked by |
|---|---|---|
| `PortalTypes` | messages to and from the dialog | - |
| `BackgroundRegistry` | `PendingBackgroundResponseRegistry`, as operators | `background_*` |
| `DialogUI` | the dialog: window, queue, tombstones, `update` | `background_*`, `dialog_clients` |
| `BackgroundPortal` | NotifyBackground, Close, router; composes the two above | `background_*` |
| `BackgroundConsent` | what NotifyBackground promises, abstractly | `background_liveness` |
| `DialogClients` | Screenshot, PickColor, ScreenCast.Start, RemoteDesktop.CreateSession and Start on the dialog, with background prompts in the way | `dialog_clients` |
| `Sessions` | the four session tables, Start, Close, ConnectToEIS, Enable, Disable, the cast's stream and the life of clipboard workers | `sessions`, `sessions_persist` |
| `Clipboard` | selection methods, forwarder and worker of one session, with the compositor as environment | `clipboard_*` |
| `ScopeTracker` | `AppScopeTracker`, as operators | `app_scopes` |
| `AppScopes` | both tasks of the monitor, the poll, GetAppState; systemd, compositor and frontend as environment | `app_scopes` |
| `Configuration` | settings, their watch, the white list and its file; user and crashes as environment | `configuration*` |
| `VirtualDevices` | `AppData`: what a request does to the devices, and the seat as the compositor has it, as operators | `remote_input` |
| `RemoteInput` | remote sessions, their threads, the EIS server and its connections | `remote_input` |
| `DialogProofs`, `BackgroundProofs`, `DialogClientsProofs`, `SessionsProofs`, `ClipboardProofs`, `AppScopesProofs`, `ConfigurationProofs`, `RemoteInputProofs` | theorems | - |

`MC...` modules add the sets that the runs use.  Operators with the comment
*mutant* are plausible bugs; no specification uses them.  Each one replaces a
definition in a mutant of `PROJECT.json`, which shows that the property it is
listed with can fail.

### Background portal and dialog

`registry.byHandle` and `registry.appHandles` are `by_handle` and
`app_handles`; the registry's methods are operators from a registry to a
registry.  The Vec of an application's handles is read only as "the first" and
"all of them", so a group is a primary and a set of followers.  A call
walks `serve`, `prompt`, `wait`, `cleanup`, `unserve`, one action for each
stretch of `notify_background` without an await; its oneshot receiver is
`response`, whose value is `Dropped` once the sender is gone.  `served` is the
object server.  The router has two actions, as it takes senders under the mutex
and sends without it.

The dialog handles one message of `inbox` at a time (`Update`), or one press
(`Selected`); a press is drawn in one window and handled later, perhaps in
another, so `clicks` is a queue.  `queue` and `tombstones` have capacities, the
code's 8 and 64; the runs set the first to 1, so that the queue overflows, and
the second to 1 or 2, which they do not exceed.

`BackgroundConsent` has a question for each application, and decisions.  The
refinement maps the question to the group in the registry, and a request is
decided at the moment its sender is taken, though it hears of it later.

### Dialog clients

`at` is where a call stands: called but still waiting for the interface's lock,
before or after the dialog is asked, or waiting for a permission or a choice.  The history variable `asker` says whose
dialog the window is; no guard reads it.  The white list is a sequence, as in
the code, so that adding an application twice is visible.

### Sessions

A cast thread, a remote control and a clipboard worker have the name of the
call that started them.  `casts` and `remotes` are sequences because the code
looks for the first entry of a handle and pushes without looking.  `Close` is
`close`, `dropCast`, `dropRemote`, `dropClipboard`, `unserve`, with `SESSIONS`
locked in between; `Start` is modelled for both portals, each with what it
looks up before it waits.  A Start that casts starts the thread (`StartThread`)
and waits for the node id (`awaitNode`); the stream sends it when it is paused
(`StreamPaused`), and a stream that is refused before never does (`StreamFails`).

A clipboard worker is dropped by whoever lets go of its handle, which raises its
shutdown flag (`stopped`); its thread (`workers`) ends later, when it sees the
flag, or by itself, when the compositor finishes its device or the connection
fails (`WorkerExits`).  `SpawnWorker` therefore has three outcomes: the worker
is ready, it has failed, or the timeout of `clipboard.rs:233` finds it in setup
and its handle is dropped while its thread goes on.  A worker that ended by
itself leaves its entry in `CLIPBOARD_SESSION`, as in the code.

`listener` is the newest EIS listener of a session, as the EIS server has it when
it has handled what it was sent; ConnectToEIS makes one that accepts, or cannot
bind it, and a command for a session without one is ignored.  The signal of
Enable and Disable may be refused by the bus after the activation id was stepped;
the history `unannounced` has the sessions whose listener changed without a signal.

### Clipboard

`requests` is the bounded channel to the worker, `toServer` and `toWorker` are
the Wayland connection, `transfers` and `owner`/`unseen` the two channels to
the forwarder.  A call takes the sender (`Arrive`), sends (`TrySend`), and waits
for a reply or its timeout, so an entry may go and a queue fill in between.
The worker takes one event a step.  A request takes two: it looks at the shutdown
flag, which `Drop` raises from another thread (`TakeRequest`), and carries it out
(`HandleRequest`), so a session may close in between; the history `overrun`
counts the requests that were carried out after it.  When the worker was told to
stop it may still handle what the same turn of its loop has collected, so
`stopping` and `Exit` are two steps.  The compositor tells every client of a new selection
after it has cancelled the source of the old one, as wlroots does.

### Background monitor

The tracker is two maps, from units to applications and from applications to
counts.  `phase` is where `forward_systemd_scope_signals` stands: it subscribes,
lists the units, sends the listing as one `Reconcile`, and forwards signals, from
whichever of the two streams of `wire` it likes; each stream keeps its own
order.  `channel` is the bounded channel to `watch_background_applications`,
which takes listings and signals and polls the windows (`lastWindowed`).
GetAppState is two steps, `AskAppState` that lists the scopes and
`AnswerAppState` that lists the windows.  Four histories say what no monitor of
this design can know, and excuse a stale view: `crossed` (applications whose
signals overtook each other), `flickered` (windows that came and went between
two polls), `blind` (a part of the view that was read while nothing watched it,
or by a query that failed), and `changed` (windows since the last poll).

### Configuration and white list

A configuration is a model value; a file is one, or `None`, or `Torn` while it
is half written.  `BeginUpdate`, `AnnounceSettings` and `TellDialog` are the three
stretches of `update_settings`, which keeps the mutex over all of them.  `path` is
the LazyLock, settled at the first read.  Events of the watched directory wait
in `events`: the code's channel holds one, but its sender blocks and drops
nothing, so the others wait in the kernel.  A client that reads the settings is
answered in two steps, `ReadAll` under the mutex and `SendReply` after it was
released, and an announcement in between makes the reply `Stale`.  A grant is
added to the list and saved under the list's mutex: create the directory,
truncate, write.  Each may fail, and so may the read of the list at its first
use, which then is empty (`Use`).  The portal may crash between any two steps and
start again, with `list` and `config` to be read anew; at the start the files are
whatever earlier runs have left.  The history `durable` is what a completed
write has put into the file, `unread` says that the list was loaded without
what its file holds and not written since, `unsaved` that the last save failed,
and `missed` that the file changed before its watch began.

### Remote input and EIS

`sessions` is `REMOTE_SESSIONS`, as pairs of a handle and a thread, so that a
handle may be used twice.  Every task that uses it does so in two steps with the
mutex `lock` held, which `job` tracks: it finds a session and then sends; Close
sends Exit, then the listener's `Remove`, then takes the session out.  A thread
is starting, running, stopping, ended or failed, and `queue` is its channel.  Its
`device` is `AppData`, and in `seat` the devices as the compositor has them
after what it was told; buttons that are told pressed while they are down are
kept in `twice`.  Coordinates have one dimension and `Width` bits, in which the
code adds.  The desktop reaches from `-Left` to `Space - 1`, the origin included,
and the output begins at `Offset`; the extents that the portal computes
(`remotedesktop.rs:828`) are `Space`, and the compositor is assumed to count an
absolute position from the origin.  The histories `tapped` and `aim` of the seat,
`down` of the device, and `owner` of a listener serve the properties only.

### Where data is abstracted

Titles, previews, icons, screen geometry, MIME strings beyond their identity,
file descriptors and pixel buffers are left out.  What a compositor, PipeWire
or the file system returns is a success or an error.  Of the bus that is so where
a handler goes on differently after an error: when a Request cannot be served,
and when the signals of Enable and Disable or of the clipboard are refused.  Where
the code ignores the result, as in `update_settings`, the signal arrives.  Configured values
that a method reads are nondeterministic choices.  Sleeps have no duration: a
timeout may fire at any time after it was armed.

## Runs

| run | question | bounds | states |
|---|---|---|---|
| `background_safety` | Do the registry, the dialog and the router lose, duplicate or confuse anything? | 3 calls, 2 applications, 1 Close | 1.2 M |
| `background_liveness` | Does the portal keep its abstract promise? Is every request answered if the user answers? Does Close suffice if not? | 2 calls, 1 Close, failures | 234 k |
| `background_reuse` | What is left when the caller breaks the rule of fresh handles? | 2 calls, 2 handles, 2 Closes | 616 k |
| `dialog_clients` | Does each answer reach the call that asked, and does each call return? | 2 calls, 1 prompt, 2 presses | 884 k |
| `sessions` | What does Close leave behind, whatever overlaps it, and if a session is started twice? Who waits for whom? | 1 session, 4 calls of 12 methods | 208 k |
| `clipboard_owner` | Does the worker know who owns the selection? Does a stalled worker hold up calls or Close? | 2 calls, 1 selection of others more than of the session | 561 k |
| `clipboard_transfers` | Does a slot leak, or an answer go to another call? | 3 calls, 2 pastes, 1 slot, queues of 1 and 2 | 3.2 M |
| `app_scopes` | Do tracker and frontend end up with what runs? | 2 units of 1 application, 1 window, a channel of 1, 2 disturbances | 771 k |
| `configuration` | Does everyone know the settings? Is a grant kept? | 2 configurations, 1 application, 2 edits or grants, 2 crashes or failures | 821 k |
| `remote_input` | Is what was pressed released, and do listeners follow their session? | 1 handle used twice, 2 threads, 2 listeners, 5 calls; an output that begins at -1 | 553 k |
| `sessions_persist` | Does a session that is to persist survive its Close, as the code says? (no) | 1 session | - |
| `configuration_hot_reload` | Is the configuration reloaded whenever its file changes, as README.md says? (no) | 2 edits, no faults | - |

Why these bounds are enough to be of interest: three calls are a primary, a
follower and a call of another application, or of the same one after the group
has gone; a Close can hit any of them at any point, and a prompt queue of one
overflows.  Two dialog calls are all that matter to a channel, since a third
waits like the second, and the second press of a window is the late one.  Four
calls on a session are creation, Start, Close, and one to spare, which may be
RequestClipboard, a second Start, ConnectToEIS, Enable or Disable; sessions share no state but
the locks.  On the clipboard, two sources of the session are one that is replaced
and one that replaces it, two pastes are one that fills the only slot and one
that is refused, and three requests overfill a queue of two.  Two units of one
application let a count be 2, 1 and 0 and a signal of one overtake that of the
other; the window's id only resembles the application's, so that the names are
matched; and a channel of one makes the forwarder wait.  Two edits are a change
and its reversal, a half-written file and its completion, or an edit and a grant;
two faults are a save or a read that fails and a crash before it is made good.  An
output that begins one left of the origin has a point where the sum is right and
one where it is not.  One handle and two threads
are a session that is replaced by another under the same name, two listeners one
that supersedes the other or outlives it, and five calls are a press, its
release and a Close beside two of another source.

Symmetry (`Interchangeable`) is used in `background_safety` and
`background_reuse` only, which check no temporal property, on calls, handles and
applications, which no definition tells apart.  Elsewhere units, threads and
calls are used in a fixed order where that loses nothing, which the modules say.
`CHECK_DEADLOCK FALSE` is set where everything may stop: in `background_reuse`,
where a request may be stranded; in the clipboard runs, when the worker has
exited and the frontend has made its calls; in the runs of `Sessions` and
`RemoteInput`, when the calls are used up.

`TypeOK` is an invariant of `background_safety`.  For the other modules it is
proved, as a theorem (`DialogClients`, `Sessions`, `Clipboard`) or as a part of the
invariant (`AppScopes`, `RemoteInput`, and most of it for `Configuration`), and no run
spends time on it.

### Fairness

* Tasks: weak fairness of each call's next step, of the router and of the
  dialog's event loop.  The tokio runtime and the iced loop run whatever is
  ready, and no step waits but for a lock, a message or a timeout.
  `DialogClients` needs less: that some call, the event loop or the user moves
  while one of them can.
* The user: `EveryRequestReplied` and `DialogClients` assume that someone presses a
  button of the window on display.  Of the background portal only
  `EveryRequestReplied` does, as its premise (`FairUser`): Close works without.
* PipeWire is assumed to take a stream or to refuse it.  It may refuse: then the
  call waits for ever, and `EveryCallReturns` of `Sessions` excepts it and the
  calls that wait for its interface's lock.
* Clipboard: the forwarder, `try_send`, the timeout and the removal of an entry
  are fair.  Nothing is asked of the worker or the compositor: that a stalled
  worker blocks nobody is the point.
* Monitor: its two tasks, the poll's timer and the frontend's answer to an
  announcement.  Units, windows and failures owe nothing; failures are bounded,
  since the task starts again after each.
* Configuration: the two tasks that update, the watcher and a save in progress.
  The user may leave a file half written, and nothing has to crash.
* Remote input: the threads, the EIS server, and a call that has found its
  session.  Nobody has to press, connect or close, and no thread has to fail.

### What the runs have shown

* All properties of the passing runs hold.
* **Finding** (`sessions_persist`).  `remove_session` returns early for a
  `persist_mode` of Application with the comment "It will always alive"
  (`src/session.rs:27`), but the Session it gets is the clone that was given to
  the object server when the session was created, and SelectSources and
  SelectDevices change the one in `SESSIONS`.  Close always removes the session.
* **Finding** (`configuration_hot_reload`).  `README.md:24` calls the
  configuration file "auto hot-reloaded".  A file that does not exist at the first
  read is not read later, since the path of the one in `/etc` is kept
  (`settings/config.rs:143`), and a directory that does not exist at the start is
  not watched later (`backend.rs:112`).
* Fresh handles matter.  When a handle is used again as soon as its reply is
  out, `NoRequestStranded`, `CancelHasCause` and `CoalescedShareAnswer` fail: a
  tombstone of the old request swallows the new prompt, a late
  `CloseBackgroundPrompt` withdraws it, a late `server.remove` drops the new
  Request.  When a handle is used while its request is open,
  `RegistryConsistent` fails too, as `remove_request` is then given a handle
  that is another application's.  Nothing leaks in either case
  (`background_reuse`).  The portal frontend makes fresh handles, so the other
  runs assume them.
* A Start that overlaps a Close leaves its cast thread or remote control behind
  (`screencast.rs:366`, `remotedesktop.rs:563`); `OrphansOnlyFromOverlap` says
  that nothing else does.  With two Starts of one RemoteDesktop session at once
  it fails too: both register, Close removes the first.
* A stream that PipeWire refuses before it is paused sends no node id, so its
  Start never returns (`pipewirethread.rs:80`).  `EveryCallReturns` shows how far
  that goes: calls of the same interface wait for its lock, all others return,
  and Close is not held up.
* A selection of another client that is already on its way when SetSelection
  runs is announced as the session's own (`wayland_backend.rs:165`), until the
  event of the session's own selection corrects it.
* A SelectionWriteDone that timed out is carried out all the same, so its retry
  fails with "no pending transfer".
* When UnitRemoved of a scope is forwarded before its own UnitNew, the tracker
  keeps a scope that is gone (`backend.rs:320`), until the next listing.
  GetAppState asks systemd itself, so what it returns is right all the same;
  what suffers is the announcement of the application's next start.
* Presses that come from touches are not recorded, against the comment at
  `remotedesktop/state.rs:41`, so a tap that is not lifted stays pressed when the
  session ends, and a tap on a button that is down presses it twice.
* The sum at `remotedesktop/state.rs:163` wraps for an output left of the origin,
  and comes out right for the points of it that are at or right of the origin.  For
  the others it is nearly 2^32, beyond the extents, and the pointer lands on the
  right edge of the desktop (`CursorFollowsPointer` says both).  A build with
  overflow checks would panic there instead.
* A listener that a second ConnectToEIS of a session supersedes is never removed,
  and connections outlive their listener (`eis_server.rs:418`).  Their input finds
  no session, or the one that uses the handle now.
* A crash between the truncation of the white list's file and its write loses the
  list (`settings/white_list.rs:73`).  A list that cannot be opened or read when it
  is first used loads as an empty one (line 59), and the next grant is written
  over what the file still holds.  `GrantsSurvive` says that nothing else does.
* Read and ReadAll release the mutex before their reply is sent, so a client may
  get an older reply after a newer SettingChanged and keep it until the next one
  (`settings.rs:66`, `settings.rs:92`).
* A clipboard worker that hangs in setup was told to stop but may never look, and
  one that ends by itself stays in `CLIPBOARD_SESSION` until Close or the next
  worker of the session (`clipboard.rs:233`, `wayland_backend.rs:176`).  A later
  SetSelection of that session finds a channel without a receiver.
* A request that the worker let past its look at the flag takes effect after
  Close (`wayland_backend.rs:320`), be it one that seizes the clipboard.
  `ClosedSessionWindsDown` says that it is one, and one signal.
* ConnectToEIS brings a listener that accepts, though Disabled may have been
  announced before (`eis_server.rs:405`): one that is stopped again needs another
  Disable.

## Proofs

`tlapm` checks every proof.  They hold for any finite or infinite sets of calls,
handles, applications, sessions, threads and transfers, and any capacities and
bounds; the set of units is finite.  Every safety property that a passing run
checks is a theorem; `PROJECT.json` lists them under "theorems".

### Dialog and background portal

* `DialogProofs` shows that every step of the dialog keeps its types.  Its first
  lemmas, `RankIsBijective` and `WithoutKeeps`, are about `retain`: an element's
  new place is its rank among those that stay.
* `BackgroundProofs` begins with one lemma for each method of the registry: given
  two maps that agree (`MapsAgree`), the result agrees, and which entries it
  keeps.  `RemoveRequestAgrees` needs that the application it is given is the one
  of the handle's own entry.
* `RegistryStaysConsistent`: the property is not inductive.  That cleanup removes
  the call's own entry depends on no other open call having the same handle.  So
  the inductive invariant `IInv` adds that calls beyond their reservation have
  parameters, and `OneOpenCallPerHandle`.  `PortalIsTypeCorrect` adds, with
  `TInv`, that served objects and closing calls have the calls they belong to.
* `PortalImplementsConsent` is the refinement of `BackgroundConsent`.  `FInv` says
  where the sender of each request is (registered, with the router, or used up by
  an answer) and who leads its group.  There is a lemma for each action: it is a
  step of the abstract module or a stutter.
* `NothingIsLeftOver` needs no discipline of the callers.  `OInv` says, for each
  entry, group and served object, that an unfinished call will remove it.
* `CancellationHasCause`, `AnswersAreShared` (`AInv`) and `NoRequestIsStranded`
  (`PromptInv`) assume that no handle is used again (`HandleReuse = "never"`).
  "afterReply" is not enough: the last step of a Close may remove the Request of
  the next call with the same handle, and a tombstone of the old one may swallow
  the new prompt.  TLC finds both.
* `DialogClientsProofs!AnswersReachAskers` and `NobodyListedTwice`.  An answer does
  not say whom it is for, so the property alone is not inductive.  `RouteInv` says
  that every dialog in the inbox, on display or answered is one that its asker
  waits for, `AloneInv` that the dialog of a call is in one such place only, and
  `ClickInv` that a press of the window on display was made for its dialog.  Why
  a channel then holds at most one answer is `LockInv`: calls that wait on the
  same channel are calls of the same interface with `&mut self`, and so one call
  (`OneWaits`).  The same lemma shows that nobody is asked about an application
  that another call is about to list.  If Screenshot's methods took `&self`, both
  proofs would fail there.

### Sessions and clipboard

* `SessionsProofs` builds its invariant in layers, since no property is inductive
  and each rests on those before: where a call stands and what it has copied
  (`CallInv`), which locks it has (`LockInv`, `EmitInv`, `ExclusionInv`), who
  created the session (`CreationInv`), what the tables say of the clipboard
  (`AskedInv`, `ClipboardInv`), workers, casts, remote controls and threads
  (`WorkerInv`, `CastInv`, `RemoteInv`, `ThreadInv`), the count of activations and
  the listener (`CountInv`, `ListenerInv`), and what is left after Close
  (`ClosedInv`, with `Late`: a Start that goes on with its copy of a session that
  Close has taken or is taking).
  The theorems are `ClipboardIsKept`, `ThreadsAreKept`, `ActivationsCount`,
  `ListenerIsAnnounced` and `ClosedLeavesNothing`.
* The attempt to prove `ActivationsInOrder` for every session failed for a good
  reason: a second Start of a session puts a new remote control, whose count
  begins at 0, in the place of the first one, so ids repeat.  The property is now about
  sessions that are started once.
* `ClipboardProofs`.  `EverySlotAccounted` and `AnswersAreTrue` (`AnswersInv`:
  whose call a message in the queue or an answer belongs to, calls that timed out
  included) hold at any number of calls.  `ClosedWindsDown` rests on the one
  signal that may follow the worker's exit (`LateInv`), and the one request that
  the worker had let past its look at the flag.  `OwnerIsKnown` needs the
  most: the property speaks of a quiet connection, so `SyncInv` follows
  everything on the wire in both directions.  The offers are introduced in order
  (`OffersInv`), the last selection announced is the compositor's
  (`SelectionInv`), sources are created, selected and cancelled in order
  (`SourcesInv`), and the portal has been or will be told of both (`OwnerInv`).

### Monitor, configuration and remote input

* `AppScopesProofs!MonitorKeepsCounts`: the two maps of the tracker agree.
  `InsertAgrees`, `RemoveAgrees` and `RebuildAgrees` are about its methods, with
  the library's facts on cardinalities for the counts.  `MonitorAnnouncesChanges`:
  a step that changes the tracker's applications or the polled windows announces,
  and no other does.  A count that agrees is what makes "the count became 1" mean
  "the application is new".
* `AppScopesProofs!QuietViewIsTrue` cannot be shown of the quiet states alone.
  `Pipeline` is what the watcher has yet to hear: its channel, the listing that was
  not sent yet, and the signals to forward.  `ReachInv`: applied to the tracker,
  it leads to the units that run, unless signals of an application crossed.
  `SeedInv`: a listing comes first.  `AskedInv` and `ViewInv` say of an answer of
  GetAppState that, for each application, the tracker is on its way through the
  state that was answered; so a later change will be announced.  `PollInv` says
  the same of windows.  On a quiet state the pipeline is empty and the four give
  the property.
* `ConfigurationProofs!EveryoneHearsTheSame`, with `SettingsInv`: a task is in
  the middle of an update exactly when it has the lock, and has told what is in
  `config`; a reply on its way says that too, or is `Stale`.
  `GrantsAreKept` and `FileFollowsList`, with `GrantsInv`: the grants
  in `durable` are in the file unless it is torn, and a save in progress has
  loaded the list before; and the list has them too, unless it was loaded when the
  file could not be read.  `DraftInv` types what the user writes.
* `RemoteInputProofs!NothingIsSentAfterExit`, `ButtonsAreReleased`,
  `PressesAlternate` and `ModifiersHaveKeys`, from one invariant.  `DeviceInv`
  relates a thread's records to the seat and is kept by each request, one lemma
  each.  `ToldInv` is the heart of the rest: a thread that was told to exit is no
  longer in the table, or is the one that Close, which has the lock, is about to
  take out; so no other task can send to it.  `SessionsInv` (a thread and a handle
  are in the table once), `JobsInv` (who has found a session has the lock) and
  `HandlesInv` carry it.
* `RemoteInputProofs!CursorIsFollowed`: the motions in a thread's channel are a
  path from the cursor to the pointer (`CursorInv`; the positions on the path are
  a function whose existence each step preserves).  The proof
  showed that the assumption on the width was too weak: a desktop as wide as the
  range of the wrapping sum leaves no room for an output left of the origin, so
  `WidthAssumption` now asks `2 * Space <= 2 ^ Width`, and as much of `Left`.
  The desktop's size is a
  `Size<i32>` (`remotedesktop.rs:828`) and the sum a `u32`, so it holds.
* `RemoteInputProofs!ListenersAreRemoved`, with `ListenerInv`: `KeptInv` and
  `GoneInv` are about the order of New and Remove in the server's channel.  A
  listener whose session is there has no removal behind it, and one whose session
  is gone has.

### Assumptions

`NoneAssumption`, `AbsenceAssumption` (of `BackgroundPortal` and of `AppScopes`),
`CapacityAssumption`, `PortalAssumption`, `OutcomeAssumption`,
`SessionAssumption`, `ClipboardAssumption`, `ScopeAssumption`,
`MonitorAssumption`, `ConfigAssumption`, `DeviceAssumption`, `WidthAssumption` and
`InputAssumption`, named where the constants are declared.  They say that bounds
are numbers and capacities positive, that the value for "nothing" is not one of
the values it stands beside, and what the widths are.  The theorems on
`BackgroundPortal` also state what they need of `HandleReuse`.

Only model-checked: liveness, for good, since neither ENABLED nor fairness is in
the prover's reach; and that `Without` is the library's `Remove`, a recursive
definition (`WithoutRemoves` in `MCBackgroundPortal`).

## Not modelled

* EnableAutostart (`background.rs:297`), which writes or removes one desktop file
  and shares no state.
* Callers with an empty application id (`id_valid` false): they get the same
  dialog without the AlwaysAllow button.
* Errors of `server.at` in CreateSession, and the Request objects that
  CreateSession serves and never removes.
* A dialog window that the compositor closes by itself.
* A configuration file that exists and cannot be opened or read
  (`settings/config.rs:154`), which loads as the default until the next event.
* Signals of settings and of running applications that the bus refuses, and a
  subscription to systemd's signals that fails where one on the same connection
  has succeeded (`backend.rs:335`): when the streams end the task subscribes anew.
* How a compositor whose layout reaches left of the origin spreads the extents
  of an absolute position over it; `VirtualDevices` counts from the origin.
* The 100 messages that the channel between the portals and the dialog holds,
  and the bus itself.
* Messages of the dialog that change only what is drawn: ShowModeChange,
  ToggleCursor, ColorSchemeChanged.
* Zones and barriers of InputCapture, which are geometry; and the branch of
  RemoteDesktop.Start that restores a monitor from `restore_data`
  (`remotedesktop.rs:576`), which differs from a choice of the user in that
  nobody is asked.
* The formats and buffers of a cast, which are negotiated and filled inside
  PipeWire's callbacks.
* The devices that the EIS server advertises when a client binds a seat, and
  states of keys and buttons other than pressed and released.
* Starts of one RemoteDesktop session that overlap are in `Sessions`; the module
  `RemoteInput` starts a session once.
* The headless helper, a program of its own that has one choice at a time and
  answers Busy to others; the portals see an answer or an error.  Its handler
  does not leave its loop when its socket is closed
  (`lumious_headless_helper/src/main.rs:22`).
* The access portal and start-up have no state.

## Plan

1. *Done:* `PortalTypes`, `BackgroundRegistry`, `DialogUI`, `BackgroundPortal`,
   `BackgroundConsent`, with the proofs of the registry's agreement and of types.
2. *Done:* `DialogClients`; then `Sessions`, with the cast's stream.
3. *Done:* `Clipboard`.
4. *Done:* `ScopeTracker` and `AppScopes`, with the proof of the tracker.
5. *Done:* `Configuration`, with the white list's file, and its proofs.
6. *Done:* `VirtualDevices` and `RemoteInput`, with the EIS server, and its proofs.
7. `HeadlessHelper` and its protocol, with a peer that goes away.
8. The buffers of a cast: which of them PipeWire and the compositor hold.

The safety properties of the modules of steps 1 to 6 are proved.  Theorems to
come: the lemmas that steps 7 and 8 need; that `DialogClients` and
`BackgroundPortal`, which share the dialog, can be read as one system in which a
dialog of one is traffic to the other; and an abstract specification of a session
that `Sessions` implements.
