---------------------------- MODULE RemoteInput ------------------------------
(***************************************************************************)
(* Remote input: from the callers of the RemoteDesktop and InputCapture    *)
(* portals to the virtual devices (src/src/remotedesktop.rs,               *)
(* src/src/remotedesktop/, src/src/input_capture.rs, src/src/backend.rs).  *)
(*                                                                         *)
(* Every session of REMOTE_SESSIONS has a thread with a virtual pointer    *)
(* and keyboard (remote_loop) and a channel to it.  Requests get into the  *)
(* channel under the mutex of REMOTE_SESSIONS, and so does the Exit that   *)
(* remove_remote_session sends.  They come from two sides: the Notify*     *)
(* methods, and the EIS server, a thread whose connections put their input *)
(* into one channel that a forwarding thread empties.                      *)
(*                                                                         *)
(* ConnectToEIS, Enable, Disable and the removal of a session send the EIS *)
(* server messages.  It keeps one listener per session handle, but the     *)
(* connections that were accepted live on without it.                      *)
(*                                                                         *)
(* A session is started once here; starts of one session that overlap are  *)
(* in the module Sessions.                                                 *)
(***************************************************************************)
EXTENDS VirtualDevices, Sequences

CONSTANTS
  SessionHandle,
  Thread,         \* remote threads ever started
  Listener,       \* EIS listeners ever bound, each with the connection to it
  Request,        \* what the callers ask for
  EisRequest,     \* and those of them that are inputs of EIS clients
  Fails,          \* bound: whether a remote thread may fail to get its devices
  MaxCalls        \* bound: calls, and inputs of EIS clients

VARIABLES
  sessions,       \* REMOTE_SESSIONS: pairs of a handle and a thread
  cursor,         \* the cursor of each session, by its thread
  lock,           \* who holds the mutex of REMOTE_SESSIONS
  job,            \* what each task is at
  thread, queue,  \* the state of each remote thread and its channel
  device,         \* its AppData
  inputs,         \* the channel of the EIS server to the forwarding thread
  messages,       \* the channel of the portals to the EIS server
  clients,        \* State.clients of the EIS server
  listener,       \* the state of each listener in its event loop
  connection,     \* the state of the connection to it
  handleOf,       \* the session a listener was bound for
  owner,          \* history: the thread of that session, if it was still there
  calls

portal == <<sessions, cursor, lock, job>>
remote == <<thread, queue, device>>
eis == <<inputs, messages, clients, listener, connection, handleOf, owner>>
vars == <<portal, remote, eis, calls>>

\* A Notify* method, the forwarding thread, and Session.Close.
Task == {"notify", "forward", "close"}
Idle == [step |-> "idle"]
Job == {Idle} \cup [step : {"found"}, thread : Thread, request : Request]
       \cup [step : {"stopped", "leaving"}, handle : SessionHandle]

Exit == [kind |-> "Exit"]

ASSUME InputAssumption ==
  /\ Fails \in BOOLEAN /\ MaxCalls \in Nat
  /\ None \notin SessionHandle \cup Thread \cup Listener \cup Task
  /\ Request \subseteq InputRequest
  /\ EisRequest \subseteq Request
  \* EIS has no keysyms, and its scrolling is never finished.
  /\ \A r \in EisRequest :
       r.kind # "KeyboardKeysym" /\ (r.kind = "PointerAxis" => ~r.finish)

Message == [kind : {"New"}, handle : SessionHandle, listener : Listener]
           \cup [kind : {"Active", "Stop", "Remove"}, handle : SessionHandle]

PortalTypeOK ==
  /\ sessions \in Seq([handle : SessionHandle, thread : Thread])
  /\ cursor \in [Thread -> Int]
  /\ lock \in Task \cup {None}
  /\ job \in [Task -> Job]

RemoteTypeOK ==
  /\ thread \in [Thread -> {"none", "starting", "running", "stopping", "ended", "failed"}]
  /\ queue \in [Thread -> Seq(Request \cup {Exit})]
  /\ device \in [Thread -> Device]

EisTypeOK ==
  /\ inputs \in Seq([handle : SessionHandle, request : EisRequest])
  /\ messages \in Seq(Message)
  /\ clients \in [SessionHandle -> Listener \cup {None}]
  /\ listener \in [Listener -> {"none", "on", "off", "gone"}]
  /\ connection \in [Listener -> {"none", "waiting", "open", "refused", "closed"}]
  /\ handleOf \in [Listener -> SessionHandle \cup {None}]
  /\ owner \in [Listener -> Thread \cup {None}]

TypeOK == PortalTypeOK /\ RemoteTypeOK /\ EisTypeOK

Init ==
  /\ sessions = <<>> /\ cursor = [t \in Thread |-> 0] /\ lock = None
  /\ job = [p \in Task |-> Idle]
  /\ thread = [t \in Thread |-> "none"] /\ queue = [t \in Thread |-> <<>>]
  /\ device = [t \in Thread |-> Unplugged]
  /\ inputs = <<>> /\ messages = <<>>
  /\ clients = [h \in SessionHandle |-> None]
  /\ listener = [l \in Listener |-> "none"]
  /\ connection = [l \in Listener |-> "none"]
  /\ handleOf = [l \in Listener |-> None] /\ owner = [l \in Listener |-> None]
  /\ calls = 0

-----------------------------------------------------------------------------
(***************************************************************************)
(* REMOTE_SESSIONS has one session of a handle at most: see StartSession.  *)
(***************************************************************************)
Has(h) == \E i \in DOMAIN sessions : sessions[i].handle = h
IndexOf(h) == CHOOSE i \in DOMAIN sessions : sessions[i].handle = h
ThreadOf(h) == sessions[IndexOf(h)].thread

\* The look-up and the sending are not one critical section.
LockIgnored == TRUE

LockFree == lock = None

Called == calls < MaxCalls /\ calls' = calls + 1

\* Threads and listeners are named in the order in which they appear.
Fresh(x, unused) == unused # {} /\ x = CHOOSE y \in unused : TRUE

\* A channel whose receiver is dropped refuses what is sent.
Receives(t) == thread[t] \in {"starting", "running", "stopping"}

Sent(t, r) == IF Receives(t) THEN [queue EXCEPT ![t] = Append(@, r)] ELSE queue

(***************************************************************************)
(* RemoteDesktop.Start and InputCapture.CreateSession: a thread is spawned *)
(* and its session appended.                                               *)
(***************************************************************************)
StartSession(h, t) ==
  /\ Called /\ LockFree /\ ~Has(h) /\ Fresh(t, {u \in Thread : thread[u] = "none"})
  /\ thread' = [thread EXCEPT ![t] = "starting"]
  /\ sessions' = Append(sessions, [handle |-> h, thread |-> t])
  /\ UNCHANGED <<cursor, lock, job, queue, device, eis>>

(***************************************************************************)
(* notify_input_event.  Nothing is sent when there is no such session.     *)
(***************************************************************************)
Found(p, h, r) ==
  IF Has(h)
  THEN /\ lock' = p
       /\ job' = [job EXCEPT ![p] = [step |-> "found", thread |-> ThreadOf(h), request |-> r]]
  ELSE UNCHANGED <<lock, job>>

Notify(h, r) ==
  /\ Called /\ LockFree /\ job["notify"] = Idle
  /\ Found("notify", h, r)
  /\ UNCHANGED <<sessions, cursor, remote, eis>>

\* handle_input_event, for the next input of the EIS server.
Forward ==
  /\ LockFree /\ job["forward"] = Idle /\ inputs # <<>>
  /\ inputs' = Tail(inputs)
  /\ Found("forward", Head(inputs).handle, Head(inputs).request)
  /\ UNCHANGED <<sessions, cursor, remote, messages, clients, listener, connection,
                 handleOf, owner, calls>>

Moved(c, r) ==
  CASE r.kind = "PointerMotionAbsolute" -> r.x
    [] r.kind = "PointerMotion" -> c + r.dx
    [] OTHER -> c

\* It ends with the first error.
DoneUnlessGone(p) ==
  IF p = "forward" /\ ~Receives(job[p].thread) THEN job[p] ELSE Idle

\* The forwarding thread ignores that the thread of a session is gone.
Done(p) == Idle

SendRequest(p) ==
  LET t == job[p].thread
      r == job[p].request
  IN /\ job[p].step = "found" /\ lock = p
     /\ cursor' = [cursor EXCEPT ![t] = Moved(@, r)]
     /\ queue' = Sent(t, r)
     /\ lock' = None /\ job' = [job EXCEPT ![p] = Done(p)]
     /\ UNCHANGED <<sessions, thread, device, eis, calls>>

(***************************************************************************)
(* remove_remote_session: Exit to the thread, RemoveListener to the EIS    *)
(* server, and the session leaves the list.                                *)
(***************************************************************************)
StopRemote(h) ==
  /\ Called /\ LockFree /\ job["close"] = Idle /\ Has(h)
  /\ lock' = "close"
  /\ queue' = Sent(ThreadOf(h), Exit)
  /\ job' = [job EXCEPT !["close"] = [step |-> "stopped", handle |-> h]]
  /\ UNCHANGED <<sessions, cursor, thread, device, eis>>

\* The EIS server is not told.
NoMessage(h) == <<>>

RemoveMessage(h) == <<[kind |-> "Remove", handle |-> h]>>

RemoveListener ==
  /\ job["close"].step = "stopped"
  /\ messages' = messages \o RemoveMessage(job["close"].handle)
  /\ job' = [job EXCEPT !["close"].step = "leaving"]
  /\ UNCHANGED <<sessions, cursor, lock, remote, inputs, clients, listener, connection,
                 handleOf, owner, calls>>

RemoveSession ==
  LET i == IndexOf(job["close"].handle)
  IN /\ job["close"].step = "leaving"
     /\ sessions' = SubSeq(sessions, 1, i - 1) \o SubSeq(sessions, i + 1, Len(sessions))
     /\ lock' = None /\ job' = [job EXCEPT !["close"] = Idle]
     /\ UNCHANGED <<cursor, remote, eis, calls>>

-----------------------------------------------------------------------------
(***************************************************************************)
(* remote_loop.  The thread connects to the compositor and binds what it   *)
(* needs, then it handles its channel; after Exit it finishes the batch it *)
(* is in and drops its devices.  An error of the connection ends the       *)
(* thread at any time and drops its channel.                               *)
(***************************************************************************)
DevicesReady(t) ==
  /\ thread[t] = "starting"
  /\ thread' = [thread EXCEPT ![t] = "running"]
  /\ UNCHANGED <<portal, queue, device, eis, calls>>

ThreadFails(t) ==
  /\ Fails /\ thread[t] \in {"starting", "running"}
  /\ thread' = [thread EXCEPT ![t] = "failed"]
  /\ queue' = [queue EXCEPT ![t] = <<>>]
  /\ UNCHANGED <<portal, device, eis, calls>>

\* Exit only releases the buttons.
AfterRequest(t, r) == IF r = Exit THEN "stopping" ELSE thread[t]

HandleRequest(t) ==
  /\ thread[t] \in {"running", "stopping"} /\ queue[t] # <<>>
  /\ queue' = [queue EXCEPT ![t] = Tail(@)]
  /\ device' = [device EXCEPT ![t] = Handled(@, Head(queue[t]))]
  /\ thread' = [thread EXCEPT ![t] = AfterRequest(t, Head(queue[t]))]
  /\ UNCHANGED <<portal, eis, calls>>

LoopEnds(t) ==
  /\ thread[t] = "stopping" /\ queue[t] = <<>>
  /\ thread' = [thread EXCEPT ![t] = "ended"]
  /\ UNCHANGED <<portal, queue, device, eis, calls>>

-----------------------------------------------------------------------------
(***************************************************************************)
(* ConnectToEIS binds a listener, connects to it and only then sends it to *)
(* the EIS server.  It asks nothing of the session.                        *)
(***************************************************************************)
ConnectToEIS(h, l) ==
  /\ Called /\ Fresh(l, {k \in Listener : handleOf[k] = None})
  /\ handleOf' = [handleOf EXCEPT ![l] = h]
  /\ owner' = [owner EXCEPT ![l] =
                 IF Has(h) /\ ~(job["close"].step = "leaving" /\ job["close"].handle = h)
                 THEN ThreadOf(h) ELSE None]
  /\ connection' = [connection EXCEPT ![l] = "waiting"]
  /\ messages' = Append(messages, [kind |-> "New", handle |-> h, listener |-> l])
  /\ UNCHANGED <<portal, remote, inputs, clients, listener>>

\* InputCapture.Enable and Disable, as far as the EIS server hears of them.
Toggle(h, kind) ==
  /\ Called
  /\ messages' = Append(messages, [kind |-> kind, handle |-> h])
  /\ UNCHANGED <<portal, remote, inputs, clients, listener, connection, handleOf, owner>>

(***************************************************************************)
(* The EIS server takes a message.                                         *)
(***************************************************************************)
NewListener(m) ==
  /\ m.kind = "New"
  /\ listener' = [listener EXCEPT ![m.listener] = "on"]
  /\ clients' = [clients EXCEPT ![m.handle] = m.listener]
  /\ UNCHANGED connection

SwitchListener(m) ==
  /\ m.kind \in {"Active", "Stop"} /\ clients[m.handle] # None
  /\ listener' = [listener EXCEPT ![clients[m.handle]] = IF m.kind = "Active" THEN "on" ELSE "off"]
  /\ UNCHANGED <<clients, connection>>

\* A connection that waits to be accepted is refused; one that was accepted
\* stays.
DropListener(m) ==
  LET l == clients[m.handle]
  IN /\ m.kind = "Remove" /\ l # None
     /\ clients' = [clients EXCEPT ![m.handle] = None]
     /\ listener' = [listener EXCEPT ![l] = "gone"]
     /\ connection' = [connection EXCEPT ![l] = IF @ = "waiting" THEN "refused" ELSE @]

UnknownSession(m) ==
  /\ m.kind # "New" /\ clients[m.handle] = None
  /\ UNCHANGED <<clients, listener, connection>>

TakeMessage ==
  /\ messages # <<>> /\ messages' = Tail(messages)
  /\ LET m == Head(messages)
     IN NewListener(m) \/ SwitchListener(m) \/ DropListener(m) \/ UnknownSession(m)
  /\ UNCHANGED <<portal, remote, inputs, handleOf, owner, calls>>

\* handle_new_connection: the connection becomes a source of its own.
Accept(l) ==
  /\ listener[l] = "on" /\ connection[l] = "waiting"
  /\ connection' = [connection EXCEPT ![l] = "open"]
  /\ UNCHANGED <<portal, remote, inputs, messages, clients, listener, handleOf, owner,
                 calls>>

\* handle_request_source_event, for a request that is input.
EisInput(l, r) ==
  /\ Called /\ connection[l] = "open"
  /\ inputs' = Append(inputs, [handle |-> handleOf[l], request |-> r])
  /\ UNCHANGED <<portal, remote, messages, clients, listener, connection, handleOf, owner>>

\* The client hangs up.
ClientLeaves(l) ==
  /\ connection[l] = "open"
  /\ connection' = [connection EXCEPT ![l] = "closed"]
  /\ UNCHANGED <<portal, remote, inputs, messages, clients, listener, handleOf, owner,
                 calls>>

-----------------------------------------------------------------------------
Portals ==
  \/ \E h \in SessionHandle, t \in Thread : StartSession(h, t)
  \/ \E h \in SessionHandle, r \in Request : Notify(h, r)
  \/ Forward
  \/ \E p \in {"notify", "forward"} : SendRequest(p)
  \/ \E h \in SessionHandle : StopRemote(h)
  \/ RemoveListener \/ RemoveSession
  \/ \E h \in SessionHandle, l \in Listener : ConnectToEIS(h, l)
  \/ \E h \in SessionHandle, kind \in {"Active", "Stop"} : Toggle(h, kind)

RemoteThread(t) == DevicesReady(t) \/ HandleRequest(t) \/ LoopEnds(t)

EisServer ==
  \/ TakeMessage
  \/ \E l \in Listener : Accept(l) \/ ClientLeaves(l)
  \/ \E l \in Listener, r \in EisRequest : EisInput(l, r)

Next == Portals \/ (\E t \in Thread : RemoteThread(t) \/ ThreadFails(t)) \/ EisServer

Spec == Init /\ [][Next]_vars

\* The threads run, and a call that holds the mutex goes on.  Nothing has to
\* fail.
FairSpec ==
  /\ Spec
  /\ WF_vars(Forward) /\ WF_vars(RemoveListener) /\ WF_vars(RemoveSession)
  /\ \A p \in {"notify", "forward"} : WF_vars(SendRequest(p))
  /\ \A t \in Thread : WF_vars(RemoteThread(t))
  /\ WF_vars(TakeMessage) /\ \A l \in Listener : WF_vars(Accept(l))

-----------------------------------------------------------------------------
(***************************************************************************)
(* Properties.                                                             *)
(***************************************************************************)
Live == {sessions[i].thread : i \in DOMAIN sessions}

\* Nothing gets into a thread's channel after Exit, whichever of the callers
\* and Close are in the middle of their work: the mutex covers the look-up and
\* the sending.  What came later would press buttons after they were released.
NothingFollowsExit ==
  \A t \in Thread :
    /\ \A i \in DOMAIN queue[t] : queue[t][i] = Exit => i = Len(queue[t])
    /\ thread[t] \in {"stopping", "ended"} => queue[t] = <<>>

\* When a thread has ended, no button is down that a request for a pointer
\* button pressed: notify_pointer_button_clear knows them all.  Taps are not
\* recorded, so the buttons that were tapped are excepted.
ReleasedAtExit ==
  \A t \in Thread :
    thread[t] = "ended" => device[t].seat.held \subseteq device[t].seat.tapped

\* The compositor is not told that a button is pressed while it is down, unless
\* taps use that button too.
PressedTwiceOnlyByTaps ==
  \A t \in Thread : device[t].seat.twice \subseteq device[t].seat.tapped

\* A modifier other than Caps Lock is set only while a key that stands for it
\* is down, whether it was pressed as a keycode or with a keysym.
NoStuckModifier ==
  \A t \in Thread :
    device[t].seat.mods \ {"CapsLock"} \subseteq {ModifierOf(k) : k \in device[t].down}

\* The cursor that a session reports with the signal Activated is where the
\* pointer is, once its thread has caught up: from an absolute position at or
\* right of the origin on, wherever motions take it, until a touch or the edge
\* of the desktop moves the one without the other.  So the sum of state.rs:163
\* comes out right for an output left of the origin, where it wraps, but only
\* for the points of it that are not: an absolute position left of the origin
\* puts the pointer on the right edge of the desktop.
CursorFollowsPointer ==
  \A t \in Live :
    thread[t] = "running" /\ queue[t] = <<>> =>
      /\ device[t].seat.aim = "there" => device[t].seat.x = cursor[t] + Offset
      /\ device[t].seat.aim = "astray" =>
           cursor[t] + Offset < 0 /\ device[t].seat.x = Space - 1

\* Once the EIS server has taken its messages, a listener that was bound for a
\* session is there as long as the session is, and when the session is gone it
\* is not the one that is kept for the handle, even if the handle is in use
\* again.  (One that a second ConnectToEIS supersedes stays for good.)
ListenerFollowsSession ==
  messages = <<>> =>
    \A l \in Listener : owner[l] # None =>
      /\ (owner[l] \in Live /\ job["close"].step # "leaving") => listener[l] \in {"on", "off"}
      /\ owner[l] \notin Live => clients[handleOf[l]] # l

\* The input of the EIS clients is forwarded and handled, also when sessions go
\* away and threads fail in between.
InputDrains ==
  <>[](inputs = <<>> /\ \A t \in Thread : queue[t] = <<>>)
=============================================================================
