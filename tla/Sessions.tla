------------------------------ MODULE Sessions ------------------------------
(***************************************************************************)
(* The life of a portal session (src/src/session.rs) and of what hangs on  *)
(* it: the cast thread of ScreenCast.Start (src/src/screencast.rs), the    *)
(* remote control of RemoteDesktop.Start and InputCapture                  *)
(* (src/src/remotedesktop.rs, src/src/input_capture.rs) and the clipboard  *)
(* worker (src/src/clipboard.rs).                                          *)
(*                                                                         *)
(* Four global tables hold them, SESSIONS, CAST_SESSIONS, REMOTE_SESSIONS  *)
(* and CLIPBOARD_SESSION, each behind a mutex of its own; they are related *)
(* by the session handle only.  Every D-Bus call is a task with one step   *)
(* per await-free stretch.  SESSIONS is held across awaits by Close and by *)
(* the registration of a clipboard worker, REMOTE_SESSIONS by Enable and   *)
(* Disable while they emit their signal; a mutex that is never held across *)
(* an await needs no variable.                                             *)
(*                                                                         *)
(* The frontend makes session handles up and uses each once, and calls on  *)
(* a session only after CreateSession has returned.  A cast thread, a      *)
(* remote control and a clipboard worker are named by the call that        *)
(* started them.                                                           *)
(***************************************************************************)
EXTENDS Naturals, Sequences, SequencesExt

CONSTANTS
  Session,     \* session handles
  Call,        \* D-Bus calls
  Used,        \* bound: the methods that the frontend calls
  None         \* absence of a value

VARIABLES
  sessions,     \* SESSIONS
  object,       \* object server: persist_mode of the Session at each handle
  casts,        \* CAST_SESSIONS
  remotes,      \* REMOTE_SESSIONS
  clipboards,   \* CLIPBOARD_SESSION: the worker registered for each session
  sessionsLock, \* the call that holds the SESSIONS mutex
  remoteLock,   \* the call that holds the REMOTE_SESSIONS mutex
  dispatcher,   \* the call that the connection handles inline (spawn = false)
  pc, op, on,   \* where each call stands, its method, its session
  local,        \* its copy of the session, current_session
  threads,      \* cast threads that have not been told to quit
  stream,       \* the state of the PipeWire stream of each cast thread
  workers,      \* clipboard workers whose thread runs
  stopped,      \* workers whose shutdown flag is set: their handle was dropped
  forwarding,   \* workers whose signals are forwarded
  listener,     \* each session's newest EIS listener, as the EIS server has it
                \* when it has done all that it was sent
  signalled,    \* the last Activated or Disabled signal of each session
  unannounced,  \* history: sessions whose listener changed without a signal
  heard,        \* history: RequestClipboard arrived before this Start did
  overlapped    \* history: Starts in progress when Close began

tables == <<sessions, object, casts, remotes, clipboards>>
locks == <<sessionsLock, remoteLock, dispatcher>>
calls == <<pc, op, on, local, heard, overlapped>>
running == <<threads, stream, workers, stopped, forwarding>>
input == <<listener, signalled, unannounced>>
vars == <<tables, locks, calls, running, input>>

SessionType == {"ScreenCast", "Remote", "InputCapture"}
\* ExplicitlyRevoked is told from DoNot nowhere on the way of Close.
PersistMode == {"DoNot", "Application"}
SessionData == [type : SessionType, persist : PersistMode, share : BOOLEAN,
                clipboard : BOOLEAN]
Remote == [by : Call, activation : Nat]

Creation == {"CreateCast", "CreateRemote", "CreateCapture"}
Start == {"CastStart", "RemoteStart"}
Operation == Creation \cup Start \cup
  {"SelectSources", "SelectDevices", "RequestClipboard", "ConnectToEIS", "Enable",
   "Disable", "Close"}

ASSUME SessionAssumption ==
  /\ None \notin Session \cup Call
  /\ None \notin SessionData /\ None \notin PersistMode /\ None \notin Operation
  /\ Used \subseteq Operation

NoSignal == [kind |-> "none", id |-> 0]
Signal == [kind : {"none", "Activated", "Disabled"}, id : Nat]

Init ==
  /\ sessions = [s \in Session |-> None]
  /\ object = [s \in Session |-> None]
  /\ casts = [s \in Session |-> <<>>]
  /\ remotes = [s \in Session |-> <<>>]
  /\ clipboards = [s \in Session |-> None]
  /\ sessionsLock = None /\ remoteLock = None /\ dispatcher = None
  /\ pc = [c \in Call |-> "idle"]
  /\ op = [c \in Call |-> None]
  /\ on = [c \in Call |-> None]
  /\ local = [c \in Call |-> None]
  /\ threads = {} /\ stream = [c \in Call |-> None]
  /\ workers = {} /\ stopped = {} /\ forwarding = {}
  /\ listener = [s \in Session |-> "none"]
  /\ signalled = [s \in Session |-> NoSignal]
  /\ unannounced = {} /\ heard = {} /\ overlapped = {}

-----------------------------------------------------------------------------
(* Calls *)

Goto(c, from, to) == pc[c] = from /\ pc' = [pc EXCEPT ![c] = to]
Open(c) == pc[c] \notin {"idle", "done"}
CallsOn(s) == {c \in Call : on[c] = s /\ pc[c] # "idle"}

\* The read-write lock of every interface: a method with &mut self excludes
\* the other methods of its interface, until it returns.
InterfaceOf(o) ==
  CASE o \in {"CreateCast", "SelectSources", "CastStart"}      -> "ScreenCast"
    [] o \in {"CreateRemote", "SelectDevices", "RemoteStart"}  -> "RemoteDesktop"
    [] o \in {"CreateCapture", "ConnectToEIS", "Enable", "Disable"} -> "InputCapture"
    [] o = "RequestClipboard"                                  -> "Clipboard"
    [] o = "Close"                                             -> "Session"
\* mutant
ExclusiveButDisable(o) == o \in {"CastStart", "CreateRemote", "ConnectToEIS"}
Exclusive(o) == o \in {"CastStart", "CreateRemote", "ConnectToEIS", "Disable"}
Inside(d) == Open(d) /\ pc[d] \notin {"called", "forward"}
LockFree(c) ==
  \A d \in Call \ {c} :
    Inside(d) /\ InterfaceOf(op[d]) = InterfaceOf(op[c]) =>
      ~Exclusive(op[c]) /\ ~Exclusive(op[d])

Known(s) == \E c \in CallsOn(s) : op[c] \in Creation /\ pc[c] = "done"

\* What the frontend calls.
MayCall(o, s) ==
  CASE o \in Creation -> CallsOn(s) = {}
    [] o = "Close"    -> Known(s) /\ object[s] # None
    [] OTHER          -> Known(s)

\* #[interface(spawn = false)]
HandledInline(o) == o = "RequestClipboard"

\* The connection takes calls from the bus in their order, unless it is busy
\* with a call that it handles inline.  Calls are named in that order.
Arrive(c, o, s) ==
  /\ dispatcher = None
  /\ Goto(c, "idle", "called")
  /\ c = CHOOSE d \in Call : pc[d] = "idle"
  /\ o \in Used /\ MayCall(o, s)
  /\ op' = [op EXCEPT ![c] = o]
  /\ on' = [on EXCEPT ![c] = s]
  /\ heard' = IF \E d \in CallsOn(s) : op[d] = "RequestClipboard"
              THEN heard \cup {c} ELSE heard
  /\ dispatcher' = IF HandledInline(o) THEN c ELSE None
  /\ UNCHANGED <<tables, sessionsLock, remoteLock, local, overlapped, running, input>>

FirstStep(o) ==
  CASE o \in Creation                          -> "append"
    [] o \in {"SelectSources", "SelectDevices"} -> "select"
    [] o = "RequestClipboard"                  -> "request"
    [] o = "CastStart"                         -> "findCast"
    [] o = "RemoteStart"                       -> "copy"
    [] o = "ConnectToEIS"                      -> "connect"
    [] o \in {"Enable", "Disable"}             -> "command"
    [] o = "Close"                             -> "close"

Enter(c) ==
  /\ Goto(c, "called", FirstStep(op[c]))
  /\ LockFree(c)
  /\ UNCHANGED <<tables, locks, op, on, local, heard, overlapped, running, input>>

-----------------------------------------------------------------------------
(* CreateSession *)

TypeOf(o) ==
  CASE o = "CreateCast"    -> "ScreenCast"
    [] o = "CreateRemote"  -> "Remote"
    [] o = "CreateCapture" -> "InputCapture"

\* append_session
AppendSession(c) ==
  /\ sessionsLock = None
  /\ Goto(c, "append", "serve")
  /\ sessions' = [sessions EXCEPT ![on[c]] =
       [type |-> TypeOf(op[c]), persist |-> "DoNot", share |-> FALSE, clipboard |-> FALSE]]
  /\ UNCHANGED <<object, casts, remotes, clipboards, locks, op, on, local, heard,
                 overlapped, running, input>>

\* The object server gets a clone of the session as it is created.
ServeSession(c) ==
  /\ Goto(c, "serve", IF op[c] = "CreateCapture" THEN "register" ELSE "done")
  /\ object' = [object EXCEPT ![on[c]] = "DoNot"]
  /\ UNCHANGED <<sessions, casts, remotes, clipboards, locks, op, on, local, heard,
                 overlapped, running, input>>

\* append_remote_session
AppendRemote(s, c) ==
  remotes' = [remotes EXCEPT ![s] = Append(@, [by |-> c, activation |-> 0])]

RegisterCapture(c) ==
  /\ op[c] = "CreateCapture"
  /\ remoteLock = None
  /\ Goto(c, "register", "done")
  /\ AppendRemote(on[c], c)
  /\ UNCHANGED <<sessions, object, casts, clipboards, locks, op, on, local, heard,
                 overlapped, running, input>>

-----------------------------------------------------------------------------
(* SelectSources, SelectDevices and RequestClipboard *)

\* No persist_mode among the options is no change.
Persisted(old, persist) == IF persist = None THEN old ELSE persist

\* set_screencast_options and set_remote_options
Select(c, persist) ==
  LET s == on[c]
      accepted == /\ sessions[s] # None
                  /\ op[c] = "SelectDevices" => sessions[s].type = "Remote"
  IN /\ sessionsLock = None
     /\ Goto(c, "select", "done")
     /\ sessions' = IF ~accepted THEN sessions
          ELSE [sessions EXCEPT
                  ![s].share = @ \/ op[c] = "SelectSources",
                  ![s].persist = Persisted(@, persist)]
     /\ UNCHANGED <<object, casts, remotes, clipboards, locks, op, on, local, heard,
                    overlapped, running, input>>

RequestClipboard(c) ==
  LET s == on[c]
      accepted == sessions[s] # None /\ sessions[s].type = "Remote"
  IN /\ sessionsLock = None
     /\ Goto(c, "request", "done")
     /\ sessions' = IF accepted THEN [sessions EXCEPT ![s].clipboard = TRUE] ELSE sessions
     /\ dispatcher' = IF dispatcher = c THEN None ELSE dispatcher
     /\ UNCHANGED <<object, casts, remotes, clipboards, sessionsLock, remoteLock, op, on,
                    local, heard, overlapped, running, input>>

-----------------------------------------------------------------------------
(* ScreenCast.Start.  The user's choice, on which it waits with every lock  *)
(* but its interface's released, is the time between "choose" and the next  *)
(* step; PipeWire's answer is awaited in the same way at "awaitNode".        *)

FindCast(c) ==
  /\ Goto(c, "findCast", IF casts[on[c]] # <<>> THEN "done" ELSE "copy")
  /\ UNCHANGED <<tables, locks, op, on, local, heard, overlapped, running, input>>

StartsType(o) == IF o = "CastStart" THEN "ScreenCast" ELSE "Remote"

\* The session as it is now; later changes are not seen.
CopySession(c) ==
  LET s == on[c]
      found == sessions[s] # None /\ sessions[s].type = StartsType(op[c])
  IN /\ sessionsLock = None
     /\ Goto(c, "copy", IF ~found THEN "done"
                        ELSE IF op[c] = "CastStart" THEN "choose" ELSE "findRemote")
     /\ local' = IF found THEN [local EXCEPT ![c] = sessions[s]] ELSE local
     /\ UNCHANGED <<tables, locks, op, on, heard, overlapped, running, input>>

\* Cancelled, or an error on the way to the cast thread.
GiveUp(c) ==
  /\ Goto(c, "choose", "done")
  /\ UNCHANGED <<tables, locks, op, on, local, heard, overlapped, running, input>>

Casts(c) == op[c] = "CastStart" \/ local[c].share

\* A remote session that does not share its screen
SkipCast(c) ==
  /\ Goto(c, "choose", "register")
  /\ ~Casts(c)
  /\ UNCHANGED <<tables, locks, op, on, local, heard, overlapped, running, input>>

\* start_cast: the thread has connected its stream and runs its loop.
StartThread(c) ==
  /\ Goto(c, "choose", "awaitNode")
  /\ Casts(c)
  /\ threads' = threads \cup {c}
  /\ stream' = [stream EXCEPT ![c] = "connecting"]
  /\ UNCHANGED <<tables, locks, op, on, local, heard, overlapped, workers, stopped,
                 forwarding, input>>

\* PipeWire takes the stream, or gives it up, soon or later.
StreamPaused(c) ==
  /\ stream[c] = "connecting" /\ c \in threads
  /\ stream' = [stream EXCEPT ![c] = "paused"]
  /\ UNCHANGED <<tables, locks, calls, threads, workers, stopped, forwarding, input>>

StreamFails(c) ==
  /\ stream[c] \in {"connecting", "paused"} /\ c \in threads
  /\ stream' = [stream EXCEPT ![c] = IF @ = "paused" THEN "failed" ELSE "refused"]
  /\ UNCHANGED <<tables, locks, calls, threads, workers, stopped, forwarding, input>>

\* mutant: the node id comes with the first frame, for which its reader
\* would have to know it
NodeSentWhenStreaming(c) == stream[c] = "streaming"
\* state_changed sends the node id when the stream pauses first, and sends
\* nothing about an error.
NodeSent(c) == stream[c] \in {"paused", "failed"}

TakeNode(c) ==
  /\ Goto(c, "awaitNode", "register")
  /\ NodeSent(c)
  /\ UNCHANGED <<tables, locks, op, on, local, heard, overlapped, running, input>>

RegisterCast(c) ==
  /\ op[c] = "CastStart"
  /\ Goto(c, "register", "done")
  /\ casts' = [casts EXCEPT ![on[c]] = Append(@, c)]
  /\ UNCHANGED <<sessions, object, remotes, clipboards, locks, op, on, local, heard,
                 overlapped, running, input>>

-----------------------------------------------------------------------------
(* RemoteDesktop.Start *)

AfterRemote(c) == IF local[c].clipboard THEN "ensure" ELSE "done"

FindRemote(c) ==
  /\ remoteLock = None
  /\ Goto(c, "findRemote", IF remotes[on[c]] # <<>> THEN AfterRemote(c) ELSE "choose")
  /\ UNCHANGED <<tables, locks, op, on, local, heard, overlapped, running, input>>

RegisterRemote(c) ==
  /\ op[c] = "RemoteStart"
  /\ remoteLock = None
  /\ Goto(c, "register", AfterRemote(c))
  /\ AppendRemote(on[c], c)
  /\ UNCHANGED <<sessions, object, casts, clipboards, locks, op, on, local, heard,
                 overlapped, running, input>>

\* ensure_clipboard_session: is the session still there?
EnsureClipboard(c) ==
  /\ sessionsLock = None
  /\ Goto(c, "ensure", IF sessions[on[c]] = None THEN "done" ELSE "spawn")
  /\ UNCHANGED <<tables, locks, op, on, local, heard, overlapped, running, input>>

LeaveRunning(ws) == UNCHANGED stopped   \* mutant: the flag is not set
\* Whoever drops the handle of a worker tells it to stop.
Drop(ws) == stopped' = stopped \cup ws

\* The worker answers ready; or it fails, or dies; or the timeout finds it still
\* in setup, where it may stay.
SpawnWorker(c) ==
  /\ \/ /\ Goto(c, "spawn", "recheck")
        /\ workers' = workers \cup {c}
        /\ UNCHANGED stopped
     \/ /\ Goto(c, "spawn", "done")
        /\ UNCHANGED <<workers, stopped>>
     \/ /\ Goto(c, "spawn", "done")
        /\ workers' = workers \cup {c}
        /\ Drop({c})
  /\ UNCHANGED <<tables, locks, op, on, local, heard, overlapped, threads, stream, forwarding, input>>

\* A worker ends when it sees its flag; or by itself, when the compositor
\* finishes its device or the connection fails, and no table hears of that.  Its
\* forwarder ends with it.
WorkerExits(w) ==
  /\ w \in workers
  /\ workers' = workers \ {w}
  /\ forwarding' = forwarding \ {w}
  /\ UNCHANGED <<tables, locks, calls, threads, stream, stopped, input>>

\* mutant: the session is not looked up again
NoRecheck(c) ==
  /\ Goto(c, "recheck", "insert")
  /\ UNCHANGED <<tables, locks, op, on, local, heard, overlapped, running, input>>

\* A session closed meanwhile drops the worker; else SESSIONS stays locked.
Recheck(c) ==
  /\ sessionsLock = None
  /\ \/ /\ Goto(c, "recheck", "done")
        /\ sessions[on[c]] = None
        /\ Drop({c})
        /\ UNCHANGED sessionsLock
     \/ /\ Goto(c, "recheck", "insert")
        /\ sessions[on[c]] # None
        /\ sessionsLock' = c
        /\ UNCHANGED stopped
  /\ UNCHANGED <<tables, remoteLock, dispatcher, op, on, local, heard, overlapped,
                 threads, stream, workers, forwarding, input>>

RegisteredFor(s) == {clipboards[s]} \ {None}

\* A displaced worker is dropped with its entry; one that died is not registered.
InsertClipboard(c) ==
  /\ \/ /\ Goto(c, "insert", "forward")
        /\ c \in workers
        /\ clipboards' = [clipboards EXCEPT ![on[c]] = c]
        /\ Drop(RegisteredFor(on[c]))
     \/ /\ Goto(c, "insert", "done")
        /\ c \notin workers
        /\ Drop({c})
        /\ UNCHANGED clipboards
  /\ sessionsLock' = None
  /\ UNCHANGED <<sessions, object, casts, remotes, remoteLock, dispatcher, op, on, local,
                 heard, overlapped, threads, stream, workers, forwarding, input>>

\* spawn_clipboard_forwarder, once the reply is on the bus: it forwards for
\* whichever worker is registered then, and ends at once if that one is dead.
Forward(c) ==
  /\ Goto(c, "forward", "done")
  /\ forwarding' = forwarding \cup ({clipboards[on[c]]} \cap workers)
  /\ UNCHANGED <<tables, locks, op, on, local, heard, overlapped, threads, stream, workers,
                 stopped, input>>

-----------------------------------------------------------------------------
(* InputCapture.ConnectToEIS, Enable and Disable *)

\* A new listener, which is enabled whatever was announced; or it cannot be bound.
Connect(c) ==
  /\ Goto(c, "connect", "done")
  /\ \/ /\ listener' = [listener EXCEPT ![on[c]] = "on"]
        /\ unannounced' = unannounced \cup {on[c]}
     \/ UNCHANGED <<listener, unannounced>>
  /\ UNCHANGED <<tables, locks, op, on, local, heard, overlapped, running, signalled>>

Commanded(l, o) == IF l = "none" THEN l ELSE IF o = "Enable" THEN "on" ELSE "off"

\* A command for a session without a listener is ignored.
Command(c) ==
  /\ Goto(c, "command", "find")
  /\ listener' = [listener EXCEPT ![on[c]] = Commanded(@, op[c])]
  /\ UNCHANGED <<tables, locks, op, on, local, heard, overlapped, running, signalled,
                 unannounced>>

\* Enable steps the activation id.
Stepped(c) ==
  IF op[c] = "Enable" THEN [remotes EXCEPT ![on[c]][1].activation = @ + 1] ELSE remotes

\* mutant: a read-write lock, which calls of Enable share
SharedByEnables(c) == remoteLock \in {None} \cup {d \in Call : op[d] = "Enable" /\ op[c] = "Enable"}
RemoteFree(c) == remoteLock = None

\* The remote session stays locked until the signal is emitted.
CaptureFound(c) ==
  /\ Goto(c, "find", "emit")
  /\ remotes[on[c]] # <<>>
  /\ remotes' = Stepped(c)
  /\ remoteLock' = c

FindCapture(c) ==
  LET s == on[c]
  IN /\ RemoteFree(c)
     /\ \/ /\ Goto(c, "find", "done")
           /\ remotes[s] = <<>>
           /\ UNCHANGED <<remotes, remoteLock>>
        \/ CaptureFound(c)
     /\ UNCHANGED <<sessions, object, casts, clipboards, sessionsLock, dispatcher, op, on,
                    local, heard, overlapped, running, input>>

\* The bus may refuse the signal, after the activation id was stepped.
Emit(c) ==
  /\ Goto(c, "emit", "done")
  /\ \/ /\ signalled' = [signalled EXCEPT ![on[c]] =
             [kind |-> IF op[c] = "Enable" THEN "Activated" ELSE "Disabled",
              id   |-> remotes[on[c]][1].activation]]
        /\ unannounced' = unannounced \ {on[c]}
     \/ /\ unannounced' = unannounced \cup {on[c]}
        /\ UNCHANGED signalled
  /\ remoteLock' = None
  /\ UNCHANGED <<tables, sessionsLock, dispatcher, op, on, local, heard, overlapped,
                 running, listener>>

-----------------------------------------------------------------------------
(* Session.Close and remove_session *)

\* The object looks at its own persist_mode; the table decides the rest.
BeginClose(c) ==
  LET s == on[c]
  IN \/ /\ Goto(c, "close", "done")
        /\ object[s] = "Application"
        /\ UNCHANGED sessionsLock
     \/ /\ sessionsLock = None
        /\ Goto(c, "close", IF sessions[s] = None THEN "unserve" ELSE "dropCast")
        /\ object[s] # "Application"
        /\ sessionsLock' = IF sessions[s] = None THEN None ELSE c

CloseSession(c) ==
  /\ BeginClose(c)
  /\ overlapped' = overlapped \cup {d \in CallsOn(on[c]) : op[d] \in Start /\ Open(d)}
  /\ UNCHANGED <<tables, remoteLock, dispatcher, op, on, local, heard, running, input>>

KeepAll(q) == q   \* mutant: nothing is removed
RemoveFirstOf(q) == IF q = <<>> THEN <<>> ELSE Tail(q)

\* remove_cast_session
DropCast(c) ==
  LET s == on[c]
  IN /\ Goto(c, "dropCast", "dropRemote")
     /\ casts' = [casts EXCEPT ![s] = RemoveFirstOf(@)]
     /\ threads' = threads \ (IF casts[s] = <<>> THEN {} ELSE {Head(casts[s])})
     /\ UNCHANGED <<sessions, object, remotes, clipboards, locks, op, on, local, heard,
                    overlapped, stream, workers, stopped, forwarding, input>>

\* remove_remote_session
DropRemote(c) ==
  LET s == on[c]
  IN /\ remoteLock = None
     /\ Goto(c, "dropRemote", "dropClipboard")
     /\ remotes' = [remotes EXCEPT ![s] = RemoveFirstOf(@)]
     /\ threads' = threads \ (IF remotes[s] = <<>> THEN {} ELSE {Head(remotes[s]).by})
     /\ listener' = IF remotes[s] = <<>> THEN listener
                    ELSE [listener EXCEPT ![s] = "none"]
     /\ UNCHANGED <<sessions, object, casts, clipboards, locks, op, on, local, heard,
                    overlapped, stream, workers, stopped, forwarding, signalled, unannounced>>

\* remove_clipboard_session, then the session itself
DropClipboard(c) ==
  LET s == on[c]
  IN /\ Goto(c, "dropClipboard", "unserve")
     /\ clipboards' = [clipboards EXCEPT ![s] = None]
     /\ Drop(RegisteredFor(s))
     /\ sessions' = [sessions EXCEPT ![s] = None]
     /\ sessionsLock' = None
     /\ UNCHANGED <<object, casts, remotes, remoteLock, dispatcher, op, on, local, heard,
                    overlapped, threads, stream, workers, forwarding, input>>

\* server.remove fails if another Close was faster.
UnserveSession(c) ==
  /\ Goto(c, "unserve", "done")
  /\ object' = [object EXCEPT ![on[c]] = None]
  /\ UNCHANGED <<sessions, casts, remotes, clipboards, locks, op, on, local, heard,
                 overlapped, running, input>>

-----------------------------------------------------------------------------
Method(c) ==
  \/ Enter(c)
  \/ AppendSession(c) \/ ServeSession(c) \/ RegisterCapture(c)
  \/ (\E p \in PersistMode \cup {None} : Select(c, p)) \/ RequestClipboard(c)
  \/ FindCast(c) \/ CopySession(c) \/ GiveUp(c)
  \/ SkipCast(c) \/ StartThread(c) \/ TakeNode(c) \/ RegisterCast(c)
  \/ FindRemote(c) \/ RegisterRemote(c)
  \/ EnsureClipboard(c) \/ SpawnWorker(c) \/ Recheck(c) \/ InsertClipboard(c) \/ Forward(c)
  \/ Connect(c) \/ Command(c) \/ FindCapture(c) \/ Emit(c)
  \/ CloseSession(c) \/ DropCast(c) \/ DropRemote(c) \/ DropClipboard(c) \/ UnserveSession(c)

Next ==
  \/ \E c \in Call, o \in Operation, s \in Session : Arrive(c, o, s)
  \/ \E c \in Call : Method(c) \/ StreamPaused(c) \/ StreamFails(c) \/ WorkerExits(c)

Spec == Init /\ [][Next]_vars

\* Every task that can go on does; the user and the clipboard worker answer,
\* and PipeWire takes a stream or refuses it.
FairSpec ==
  /\ Spec
  /\ \A c \in Call : WF_vars(Method(c)) /\ WF_vars(StreamPaused(c) \/ StreamFails(c))

-----------------------------------------------------------------------------
(* Properties *)

Place == {"idle", "called", "append", "serve", "register", "select", "request",
          "findCast", "copy", "choose", "awaitNode", "findRemote", "ensure", "spawn", "recheck",
          "insert", "forward", "connect", "command", "find", "emit", "close", "dropCast",
          "dropRemote", "dropClipboard", "unserve", "done"}

TablesType ==
  /\ sessions \in [Session -> SessionData \cup {None}]
  /\ object \in [Session -> PersistMode \cup {None}]
  /\ casts \in [Session -> Seq(Call)]
  /\ remotes \in [Session -> Seq(Remote)]
  /\ clipboards \in [Session -> Call \cup {None}]
LocksType == {sessionsLock, remoteLock, dispatcher} \subseteq Call \cup {None}
CallsType ==
  /\ pc \in [Call -> Place]
  /\ op \in [Call -> Operation \cup {None}]
  /\ on \in [Call -> Session \cup {None}]
  /\ local \in [Call -> SessionData \cup {None}]
  /\ heard \subseteq Call /\ overlapped \subseteq Call
RunningType ==
  /\ threads \subseteq Call
  /\ workers \subseteq Call /\ stopped \subseteq Call /\ forwarding \subseteq Call
  /\ stream \in [Call -> {"connecting", "paused", "failed", "refused", None}]
InputType ==
  /\ listener \in [Session -> {"none", "on", "off"}]
  /\ signalled \in [Session -> Signal]
  /\ unannounced \subseteq Session
TypeOK == TablesType /\ LocksType /\ CallsType /\ RunningType /\ InputType

Registered(s) == ToSet(casts[s]) \cup {remotes[s][i].by : i \in DOMAIN remotes[s]}

\* A clipboard worker is registered only for a session that is there and that
\* asked for the clipboard, whatever Close did while the worker came up; and a
\* Start that arrives after RequestClipboard, though both are calls of their
\* own, knows that the session asked.
ClipboardFollowsSession ==
  /\ \A s \in Session : clipboards[s] # None =>
       sessions[s] # None /\ sessions[s].type = "Remote" /\ sessions[s].clipboard
  /\ \A c \in heard : op[c] = "RemoteStart" /\ local[c] # None => local[c].clipboard

WorkersOfTable == {clipboards[s] : s \in Session} \ {None}
WorkersOfStart == {c \in Call : pc[c] \in {"recheck", "insert"}}

\* No thread is left on its own.  A cast thread that was not told to quit is in a
\* table or in the hands of the Start that made it; so is a clipboard worker
\* that was not told to stop, whether its Start timed out, found the session
\* closed or was overtaken by another Start.  No table names a thread that was
\* told to stop, and only a worker in the table, or on its way out, is
\* forwarded.  (A worker that timed out in setup may never see that it was told;
\* one that ended by itself stays in the table.)  A session has one cast:
\* ScreenCast.Start looks for it and registers it much later, after the user has
\* chosen, while a second Start may arrive.
ThreadsAreOwned ==
  /\ threads \subseteq (UNION {Registered(s) : s \in Session})
                      \cup {c \in Call : pc[c] \in {"awaitNode", "register"}}
  /\ workers \subseteq stopped \cup WorkersOfTable \cup WorkersOfStart
  /\ stopped \cap (WorkersOfTable \cup WorkersOfStart) = {}
  /\ forwarding \subseteq stopped \cup WorkersOfTable
  /\ \A s \in Session : ToSet(casts[s]) \subseteq threads
  /\ \A s \in Session : Len(casts[s]) <= 1

StartedOnce(s) ==
  \A c, d \in CallsOn(s) : op[c] \in Start /\ op[d] \in Start => c = d

\* Close leaves nothing behind of a session that is started once: a cast thread
\* or remote control whose session is gone belongs to a Start that was in
\* progress when Close began.
OrphansOnlyFromOverlap ==
  \A s \in Session : sessions[s] = None /\ Known(s) /\ StartedOnce(s) =>
    /\ Registered(s) \subseteq overlapped
    /\ object[s] # None => \E c \in CallsOn(s) : pc[c] = "unserve"

\* The session's listener does what the last signal announced, with Enable,
\* Disable and Close in every order: none accepts after Disabled and none is
\* stopped after Activated, unless the application connected again since, which
\* brings a listener that accepts, or the bus refused a later signal.  (A second
\* Start may bring a closed session's remote control back.)
ListenerFollowsSignals ==
  \A s \in Session \ unannounced :
    /\ remotes[s] # <<>> /\ StartedOnce(s)
    /\ \A c \in CallsOn(s) : op[c] \in {"Enable", "Disable"} => ~Inside(c)
    =>
      /\ signalled[s].kind = "Activated" => listener[s] # "off"
      /\ signalled[s].kind = "Disabled" => listener[s] # "on"

\* Activations are announced one by one, in the order of their ids: each has an
\* id of its own, later than the last, and Disabled never names an earlier one.
\* A second Start may replace the remote control, and with it the count.
ActivationsInOrder ==
  [][\A c \in Call :
       LET s == on[c]
           announced == pc[c] = "emit" /\ pc'[c] = "done" /\ s \notin unannounced'
       IN announced /\ StartedOnce(s) =>
            signalled'[s].id >= signalled[s].id + (IF op[c] = "Enable" THEN 1 ELSE 0)]_vars

\* session.rs:27 of a session that persists with its application: "It will
\* always alive".
ApplicationSessionStaysAlive ==
  [][\A s \in Session :
       sessions[s] # None /\ sessions[s].persist = "Application" =>
         sessions'[s] # None]_sessions

\* A Start whose stream PipeWire refused waits for its node id for ever
\* (src/src/pipewirethread.rs:80), and with it every call that its interface's
\* lock keeps out.
Hung(c) == pc[c] = "awaitNode" /\ stream[c] = "refused"
KeptOut(c) == \E d \in Call : Hung(d) /\ InterfaceOf(op[d]) = InterfaceOf(op[c])

\* Every call returns: no mutex, interface lock or inline call stops another
\* one for ever, and a stream that PipeWire refuses stops only calls of the
\* interface whose Start waits for it: Close, above all, goes through.
\* There are finitely many calls, so it is enough that time and again no other
\* one is open.
EveryCallReturns == []<>(\A c \in Call : Open(c) => KeptOut(c))
=============================================================================
