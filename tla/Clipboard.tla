----------------------------- MODULE Clipboard -----------------------------
(***************************************************************************)
(* The clipboard of one remote desktop session: the methods of the portal  *)
(* and the forwarder of its signals (src/src/clipboard.rs), and the worker *)
(* thread with its Wayland connection                                      *)
(* (src/src/clipboard/wayland_backend.rs).  The compositor is external.    *)
(*                                                                         *)
(* Four parties run side by side: the frontend's calls, one at a time, for *)
(* the interface is handled inline (spawn = false); the worker, which      *)
(* handles one Wayland event at a step and one request at two; the         *)
(* compositor; and the forwarder.  They exchange messages only, but for    *)
(* the flag that tells the worker to stop: requests and their oneshot      *)
(* replies, the Wayland connection both ways, a queue of transfers, and a  *)
(* watch channel that keeps the last owner state only.                     *)
(*                                                                         *)
(* The model starts when the worker has reported that it is ready, its     *)
(* first roundtrip done; what may fail before that is in Sessions.  MIME   *)
(* types are a set, and the Offer events of an offer are taken with its    *)
(* DataOffer, which they follow.                                           *)
(* Pipes are left out but for the write ends that the worker keeps.        *)
(***************************************************************************)
EXTENDS Naturals, Sequences, FiniteSets

CONSTANTS
  Mime,          \* MIME types
  MaxPending,    \* MAX_PENDING_TRANSFERS, 16
  QueueDepth,    \* REQUEST_QUEUE_DEPTH, 64
  SignalDepth,   \* SIGNAL_QUEUE_DEPTH, 64
  Used,          \* bound: the methods that the frontend calls
  MaxCalls,      \* bound: its calls
  MaxChanges,    \* bound: selections of other clients
  MaxTransfers,  \* bound: pastes of other clients, below the width of a serial
  Failures       \* what may fail: the bus, the Wayland "device"

Operation == {"SetSelection", "Write", "WriteDone", "Read"}

ASSUME ClipboardAssumption ==
  /\ Used \subseteq Operation
  /\ {MaxPending, QueueDepth, SignalDepth} \subseteq Nat \ {0}
  /\ {MaxCalls, MaxChanges} \subseteq Nat
  /\ MaxTransfers \in Nat
  /\ Failures \subseteq {"bus", "device"}

VARIABLES
  (* the worker: ClipboardWl *)
  running,     \* the thread is in its loop
  stopping,    \* the loop has been told to stop
  shutdown,    \* the flag shared with ClipboardThread
  defunct,
  handling,    \* the request that it carries out, if any
  offers,      \* pending_offers
  current,     \* current_selection: an offer, 0 if none
  mimes,       \* current_mime_types
  ownSource,   \* own_source: a data source, 0 if none
  isOwner,
  writes,      \* pending_writes: serials
  serial,      \* CLIPBOARD_SERIAL: the next one
  sources,     \* data sources created so far
  (* channels *)
  requests,    \* ClipboardRequests for the worker
  owner,       \* the watch channel: the last OwnerState
  unseen,      \* whether the forwarder has yet to see it
  transfers,   \* TransferEvents for the forwarder
  toServer,    \* Wayland requests, on their way to the compositor
  toWorker,    \* Wayland events, on their way to the worker
  (* the portal *)
  entry,       \* ClipboardEntry: "live", "closing" (about to be dropped), "gone"
  call,        \* the call in progress or the last one
  forwarder,   \* "parts" (not spawned), "top", "select", "ended"
  (* the compositor *)
  selection,   \* who holds the clipboard
  lastOffer,   \* offers introduced so far
  (* history *)
  done,        \* serials whose WriteDone the worker has carried out
  announced,   \* the last OwnerState signalled
  signalled,   \* transfers signalled
  pinned,      \* transfers whose signal could not be emitted
  late,        \* signals emitted after the worker had exited
  overrun      \* requests carried out after the flag was raised

data == <<offers, current, mimes, ownSource, isOwner, sources>>
loop == <<running, stopping, shutdown, defunct, handling, overrun>>
slots == <<writes, serial, transfers, done>>
wire == <<toServer, toWorker>>
watch == <<owner, unseen>>
portal == <<entry, call>>
signals == <<forwarder, announced, signalled, pinned, late>>
compositor == <<selection, lastOffer>>
vars == <<data, loop, slots, wire, watch, requests, portal, signals, compositor>>

Serial == 1 .. MaxTransfers + MaxCalls
OwnerState == [mimes : SUBSET Mime, session_is_owner : BOOLEAN]
State(M, is) == [mimes |-> M, session_is_owner |-> is]

\* A method call; "sending" between taking the sender and sending.
NoCall == [id |-> 0, op |-> "none", serial |-> 0, mimes |-> {}, st |-> "idle", ok |-> FALSE]

\* The selection: held by nobody, by another client, or by a source of ours.
Nobody == [by |-> "nobody", source |-> 0, mimes |-> {}, offer |-> 0]
Other(M) == [by |-> "other", source |-> 0, mimes |-> M, offer |-> 0]
Ours(s, M) == [by |-> "session", source |-> s, mimes |-> M, offer |-> 0]

\* Whatever the selection is when the worker starts, the first roundtrip has
\* told it.
Init ==
  /\ running = TRUE /\ stopping = FALSE /\ shutdown = FALSE /\ defunct = FALSE
  /\ handling = <<>> /\ overrun = 0
  /\ \E M \in SUBSET Mime :
       /\ selection = IF M = {} THEN Nobody ELSE [Other(M) EXCEPT !.offer = 1]
       /\ mimes = M
       /\ owner = State(M, FALSE)
  /\ current = selection.offer /\ lastOffer = selection.offer
  /\ unseen = TRUE
  /\ offers = <<>> /\ ownSource = 0 /\ isOwner = FALSE /\ sources = 0
  /\ writes = {} /\ serial = 1 /\ transfers = <<>> /\ done = {}
  /\ requests = <<>> /\ toServer = <<>> /\ toWorker = <<>>
  /\ entry = "live" /\ call = NoCall
  /\ forwarder = "parts" /\ announced = State({}, FALSE)
  /\ signalled = {} /\ pinned = {} /\ late = 0

-----------------------------------------------------------------------------
(* The compositor *)

Event(type, id, M) == [type |-> type, id |-> id, mimes |-> M]
Introduce(id, M, designate) ==
  <<Event("DataOffer", id, M), Event(designate, id, {})>>
Sent(events) == IF running THEN toWorker \o events ELSE toWorker

\* A new selection: the source that held the old one is cancelled, then
\* every client is told of the new one, the client that set it too.
Select(new) ==
  LET cancelled == IF selection.by = "session"
                   THEN <<Event("Cancelled", selection.source, {})>> ELSE <<>>
      told == IF new.by = "nobody" THEN <<Event("Selection", 0, {})>>
              ELSE Introduce(lastOffer + 1, new.mimes, "Selection")
      offer == IF new.by = "nobody" THEN 0 ELSE lastOffer + 1
  IN IF new = Nobody /\ selection.by = "nobody"
     THEN UNCHANGED <<compositor, toWorker>>
     ELSE /\ selection' = [new EXCEPT !.offer = offer]
          /\ lastOffer' = IF new.by = "nobody" THEN lastOffer ELSE lastOffer + 1
          /\ toWorker' = Sent(cancelled \o told)

Changes == lastOffer < MaxChanges + sources

OtherSelects ==
  \E M \in SUBSET Mime \ {{}} :
    Changes /\ Select(Other(M)) /\ UNCHANGED toServer

OtherSelectsPrimary ==
  \E M \in SUBSET Mime \ {{}} :
    /\ Changes
    /\ lastOffer' = lastOffer + 1
    /\ toWorker' = Sent(Introduce(lastOffer + 1, M, "PrimarySelection"))
    /\ UNCHANGED <<selection, toServer>>

Sends == Cardinality({i \in DOMAIN toWorker : toWorker[i].type = "Send"})

\* Another client pastes what the session offers.
OtherPastes ==
  \E m \in selection.mimes :
    /\ selection.by = "session"
    /\ serial + Sends <= MaxTransfers
    /\ toWorker' = Sent(<<Event("Send", selection.source, {m})>>)
    /\ UNCHANGED <<compositor, toServer>>

ServeRequest ==
  /\ toServer # <<>>
  /\ toServer' = Tail(toServer)
  /\ LET r == Head(toServer) IN
     CASE r.type = "set_selection" ->
            Select(IF r.id = 0 THEN Nobody ELSE Ours(r.id, r.mimes))
       [] r.type = "receive" ->
            /\ toWorker' = IF selection.by = "session" /\ selection.offer = r.id
                           THEN Sent(<<Event("Send", selection.source, r.mimes)>>)
                           ELSE toWorker
            /\ UNCHANGED compositor
       [] r.type = "disconnect" ->
            IF selection.by = "session" THEN Select(Nobody)
            ELSE UNCHANGED <<compositor, toWorker>>

DeviceFinishes ==
  /\ "device" \in Failures /\ running /\ ~defunct
  /\ \A i \in DOMAIN toWorker : toWorker[i].type # "Finished"
  /\ toWorker' = Sent(<<Event("Finished", 0, {})>>)
  /\ UNCHANGED <<compositor, toServer>>

Compositor ==
  /\ OtherSelects \/ OtherSelectsPrimary \/ OtherPastes \/ ServeRequest \/ DeviceFinishes
  /\ UNCHANGED <<data, loop, slots, watch, requests, portal, signals>>

-----------------------------------------------------------------------------
(* Wayland events of the worker *)

Remembered(f, o, M) == [x \in DOMAIN f \cup {o} |-> IF x = o THEN M ELSE f[x]]
Forgotten(f, o) == [x \in DOMAIN f \ {o} |-> f[x]]

\* DataOffer, and the Offer of each of its MIME types.
DataOffer(e) ==
  /\ offers' = Remembered(offers, e.id, e.mimes)
  /\ UNCHANGED <<current, mimes, ownSource, isOwner, sources, loop, slots, watch>>

Notify(M, is) == owner' = State(M, is) /\ unseen' = TRUE

SelectionEvent(e) ==
  LET M == IF e.id \in DOMAIN offers THEN offers[e.id] ELSE {} IN
  /\ offers' = Forgotten(Forgotten(offers, current), e.id)
  /\ mimes' = M
  /\ current' = e.id
  /\ Notify(M, isOwner)
  /\ UNCHANGED <<ownSource, isOwner, sources, loop, slots>>

\* The primary selection is remembered for its destruction only.
PrimarySelection(e) ==
  /\ offers' = Forgotten(offers, e.id)
  /\ UNCHANGED <<current, mimes, ownSource, isOwner, sources, loop, slots, watch>>

Finished(e) ==
  /\ defunct' = TRUE /\ stopping' = TRUE
  /\ current' = 0 /\ mimes' = {}
  /\ UNCHANGED <<offers, ownSource, isOwner, sources, running, shutdown, handling, overrun,
                 slots, watch>>

\* The receiver of the transfers is alive and its queue not full.
CanTransfer == forwarder # "ended" /\ Len(transfers) < SignalDepth

\* A paste: its fd is kept under a new serial if it can be announced.
HasCapacity == Cardinality(writes) < MaxPending
KeptAnyway(n) == writes \cup {n}                  \* mutant: no roll back
Kept(n) == IF CanTransfer THEN writes \cup {n} ELSE writes
Send(e) ==
  /\ IF HasCapacity
     THEN /\ serial' = serial + 1
          /\ writes' = Kept(serial)
          /\ transfers' = IF CanTransfer THEN Append(transfers, serial) ELSE transfers
     ELSE UNCHANGED <<serial, writes, transfers>>
  /\ UNCHANGED <<done, data, loop, watch>>

AnySource(s) == TRUE                              \* mutant
IsOwnSource(s) == ownSource = s
Cancelled(e) ==
  /\ IF IsOwnSource(e.id)
     THEN ownSource' = 0 /\ isOwner' = FALSE /\ Notify(mimes, FALSE)
     ELSE UNCHANGED <<ownSource, isOwner, watch>>
  /\ UNCHANGED <<offers, current, mimes, sources, loop, slots>>

Dispatch ==
  /\ running /\ handling = <<>> /\ toWorker # <<>>
  /\ toWorker' = Tail(toWorker)
  /\ LET e == Head(toWorker) IN
     CASE e.type = "DataOffer"        -> DataOffer(e)
       [] e.type = "Selection"        -> SelectionEvent(e)
       [] e.type = "PrimarySelection" -> PrimarySelection(e)
       [] e.type = "Finished"         -> Finished(e)
       [] e.type = "Send"             -> Send(e)
       [] e.type = "Cancelled"        -> Cancelled(e)
  /\ UNCHANGED <<toServer, requests, portal, signals, compositor>>
-----------------------------------------------------------------------------
(* Requests of the portal, handled by the worker *)

\* Every request carries the sender of a oneshot channel of its own, so a
\* reply reaches the call that waits for it or, timed out, nobody.
AwaitedByAny(id) == call.st = "waiting"          \* mutant: one reply channel
Awaited(id) == call.st = "waiting" /\ call.id = id
Replied(id, ok) ==
  IF Awaited(id) THEN [call EXCEPT !.st = "returned", !.ok = ok] ELSE call

Command(type, id, M) == [type |-> type, id |-> id, mimes |-> M]

SetSelection(r) ==
  /\ IF r.mimes = {}
     THEN /\ ownSource' = 0 /\ isOwner' = FALSE
          /\ Notify({}, FALSE)
          /\ UNCHANGED sources
     ELSE /\ ownSource' = sources + 1 /\ isOwner' = TRUE
          /\ sources' = sources + 1
          /\ UNCHANGED watch
  /\ toServer' = Append(toServer, Command("set_selection", ownSource', r.mimes))
  /\ UNCHANGED <<offers, current, mimes, slots, call>>

\* A pipe or a duplicate of a file descriptor can always be refused.
Read(r) ==
  /\ \E ok \in BOOLEAN :
       /\ call' = Replied(r.id, ok)
       /\ toServer' = IF ok /\ current # 0 /\ r.mimes \subseteq mimes
                      THEN Append(toServer, Command("receive", current, r.mimes))
                      ELSE toServer
  /\ UNCHANGED <<data, slots, watch>>

Write(r) ==
  /\ \E ok \in BOOLEAN : call' = Replied(r.id, ok /\ r.serial \in writes)
  /\ UNCHANGED <<data, slots, watch, toServer>>

WriteDone(r) ==
  /\ writes' = writes \ {r.serial}
  /\ done' = done \cup ({r.serial} \cap writes)
  /\ call' = Replied(r.id, r.serial \in writes)
  /\ UNCHANGED <<serial, transfers, data, watch, toServer>>

OnlyWhenDefunct == defunct                        \* mutant
ToldToStop == shutdown \/ defunct

\* A worker that must stop drops the request and the sender of its reply.  It
\* looks at the flag once: what it takes then is carried out, though the flag may
\* be raised in between.
TakeRequest ==
  /\ running /\ handling = <<>> /\ requests # <<>>
  /\ requests' = Tail(requests)
  /\ \/ /\ ToldToStop
        /\ stopping' = TRUE
        /\ call' = Replied(Head(requests).id, FALSE)
        /\ UNCHANGED handling
     \/ /\ ~ToldToStop
        /\ handling' = <<Head(requests)>>
        /\ UNCHANGED <<stopping, call>>
  /\ UNCHANGED <<running, shutdown, defunct, overrun, data, slots, wire, watch, entry,
                 signals, compositor>>

CarryOut(r) ==
  CASE r.op = "SetSelection" -> SetSelection(r)
    [] r.op = "Read"         -> Read(r)
    [] r.op = "Write"        -> Write(r)
    [] r.op = "WriteDone"    -> WriteDone(r)
    [] r.op = "Stop"         -> UNCHANGED <<data, slots, watch, toServer, call>>

HandleRequest ==
  /\ handling # <<>>
  /\ handling' = <<>>
  /\ LET r == Head(handling) IN
     /\ CarryOut(r)
     /\ defunct' = (defunct \/ r.op = "Stop")
     /\ stopping' = (stopping \/ r.op = "Stop")
  /\ overrun' = IF shutdown THEN overrun + 1 ELSE overrun
  /\ UNCHANGED <<running, shutdown, requests, toWorker, entry, signals, compositor>>

\* Every 20 ms, whatever has come.  The end of the requests' channel stops the
\* loop in the same way and is no step of its own: ClipboardThread raises the
\* flag before its sender, the last one but for those of calls, is dropped.
Tick ==
  /\ running /\ handling = <<>> /\ ~stopping /\ (shutdown \/ defunct)
  /\ stopping' = TRUE
  /\ UNCHANGED <<running, shutdown, defunct, handling, overrun, data, slots, wire, watch, requests,
                 portal, signals, compositor>>

\* The loop ends: the requests left and the connection are dropped.
Exit ==
  /\ running /\ handling = <<>> /\ stopping
  /\ running' = FALSE
  /\ requests' = <<>> /\ toWorker' = <<>> /\ writes' = {}
  /\ call' = IF call.st = "waiting" THEN [call EXCEPT !.st = "returned", !.ok = FALSE]
             ELSE call
  /\ toServer' = Append(toServer, Command("disconnect", 0, {}))
  /\ UNCHANGED <<stopping, shutdown, defunct, handling, overrun, serial, transfers, done,
                 data, watch, entry, signals, compositor>>

Worker == Dispatch \/ TakeRequest \/ HandleRequest \/ Tick \/ Exit

-----------------------------------------------------------------------------
(* Methods of the portal *)

\* clipboard_sender: the sender is cloned out of the entry.
Arrive(o, n, M) ==
  /\ call.st \in {"idle", "returned"} /\ call.id < MaxCalls /\ o \in Used
  /\ call' = [id |-> call.id + 1, op |-> o, serial |-> n, mimes |-> M, ok |-> FALSE,
              st |-> IF entry = "gone" THEN "returned" ELSE "sending"]
  /\ UNCHANGED <<data, loop, slots, wire, watch, requests, entry, signals, compositor>>

\* A serial is one that was signalled or one that is made up.
CallMethod ==
  \/ \E M \in SUBSET Mime : Arrive("SetSelection", 0, M)
  \/ \E m \in Mime : Arrive("Read", 0, {m})
  \/ \E o \in {"Write", "WriteDone"}, n \in signalled \cup {serial} : Arrive(o, n, {})

Request(id, o, n, M) == [id |-> id, op |-> o, serial |-> n, mimes |-> M]
HasRoom == running /\ Len(requests) < QueueDepth

\* try_send fails when the queue is full and when the worker is gone.
TrySend ==
  /\ call.st = "sending"
  /\ IF HasRoom
     THEN /\ requests' = Append(requests, Request(call.id, call.op, call.serial, call.mimes))
          /\ call' = IF call.op = "SetSelection"
                     THEN [call EXCEPT !.st = "returned", !.ok = TRUE, !.mimes = {}]
                     ELSE [call EXCEPT !.st = "waiting"]
     ELSE /\ call' = [call EXCEPT !.st = "returned"]
          /\ UNCHANGED requests
  /\ UNCHANGED <<data, loop, slots, wire, watch, entry, signals, compositor>>

\* WORKER_REPLY_TIMEOUT: the call gives up, its request stays in the queue.
NeverExpires == FALSE                             \* mutant
Expires == call.st = "waiting"
ReplyTimeout ==
  /\ Expires
  /\ call' = [call EXCEPT !.st = "returned", !.ok = FALSE]
  /\ UNCHANGED <<data, loop, slots, wire, watch, requests, entry, signals, compositor>>

-----------------------------------------------------------------------------
(* The entry and the forwarder *)

\* Close of the session, or a second Start whose worker displaces this one.
BeginRemove ==
  /\ entry = "live"
  /\ entry' = "closing"
  /\ UNCHANGED <<data, loop, slots, wire, watch, requests, call, signals, compositor>>

\* Drop of ClipboardThread: the flag, and a Stop if the queue has room.
StopQueued == Append(requests, Request(0, "Stop", 0, {}))
StopSent == HasRoom /\ requests' = StopQueued     \* mutant: waits for room
StopTried == requests' = IF HasRoom THEN StopQueued ELSE requests
RemoveClipboard ==
  /\ entry = "closing"
  /\ entry' = "gone"
  /\ shutdown' = TRUE
  /\ StopTried
  /\ forwarder' = IF forwarder = "parts" THEN "ended" ELSE forwarder
  /\ UNCHANGED <<running, stopping, defunct, handling, overrun, data, slots, wire, watch,
                 call, announced, signalled, pinned, late, compositor>>

\* Once the reply of Start is on the bus.
SeenAtSpawn == FALSE                              \* mutant
UnseenAtSpawn == unseen
SpawnForwarder ==
  /\ forwarder = "parts" /\ entry # "gone"
  /\ forwarder' = "top"
  /\ unseen' = UnseenAtSpawn
  /\ UNCHANGED <<owner, announced, signalled, pinned, late, data, loop, slots, wire,
                 requests, portal, compositor>>

WorkerExited == ~running
CheckExit ==
  /\ forwarder = "top"
  /\ forwarder' = IF WorkerExited THEN "ended" ELSE "select"
  /\ UNCHANGED <<announced, signalled, pinned, late, data, loop, slots, wire, watch,
                 requests, portal, compositor>>

Emitted == late' = IF running THEN late ELSE late + 1

ForwardOwner ==
  /\ forwarder = "select" /\ unseen
  /\ unseen' = FALSE
  /\ announced' \in {owner} \cup IF "bus" \in Failures THEN {announced} ELSE {}
  /\ Emitted
  /\ forwarder' = "top"
  /\ UNCHANGED <<owner, signalled, pinned, data, loop, slots, wire, requests, portal,
                 compositor>>

ForwardTransfer ==
  /\ forwarder = "select" /\ transfers # <<>>
  /\ transfers' = Tail(transfers)
  /\ \/ signalled' = signalled \cup {Head(transfers)} /\ UNCHANGED pinned
     \/ "bus" \in Failures /\ pinned' = pinned \cup {Head(transfers)} /\ UNCHANGED signalled
  /\ Emitted
  /\ forwarder' = "top"
  /\ UNCHANGED <<writes, serial, done, announced, data, loop, wire, watch, requests,
                 portal, compositor>>

EndForwarding ==
  /\ forwarder = "select" /\ ~running
  /\ forwarder' = "ended"
  /\ UNCHANGED <<announced, signalled, pinned, late, data, loop, slots, wire, watch,
                 requests, portal, compositor>>

Forwarder == CheckExit \/ ForwardOwner \/ ForwardTransfer \/ EndForwarding

Next ==
  \/ CallMethod \/ TrySend \/ ReplyTimeout
  \/ BeginRemove \/ RemoveClipboard \/ SpawnForwarder
  \/ Forwarder \/ Worker \/ Compositor

Spec == Init /\ [][Next]_vars

\* Tasks of the runtime run, and a timeout fires; nothing is asked of the
\* worker and of the compositor, which may stall.
PortalFairSpec ==
  /\ Spec
  /\ WF_vars(TrySend) /\ WF_vars(ReplyTimeout)
  /\ WF_vars(RemoveClipboard) /\ WF_vars(SpawnForwarder) /\ WF_vars(Forwarder)

-----------------------------------------------------------------------------
(* Properties *)

Requested == [id : Nat, op : Operation \cup {"Stop"}, serial : Nat, mimes : SUBSET Mime]
Called == [id : Nat, op : Operation \cup {"none"}, serial : Nat, mimes : SUBSET Mime,
           st : {"idle", "sending", "waiting", "returned"}, ok : BOOLEAN]
Selected == [by : {"nobody", "other", "session"}, source : Nat, mimes : SUBSET Mime, offer : Nat]
Message(T) == [type : T, id : Nat, mimes : SUBSET Mime]
EventType == {"DataOffer", "Selection", "PrimarySelection", "Finished", "Send", "Cancelled"}
CommandType == {"set_selection", "receive", "disconnect"}

WorkerType ==
  /\ running \in BOOLEAN /\ stopping \in BOOLEAN /\ shutdown \in BOOLEAN /\ defunct \in BOOLEAN
  /\ \A o \in DOMAIN offers : offers[o] \in SUBSET Mime
  /\ current \in Nat /\ mimes \in SUBSET Mime
  /\ ownSource \in Nat /\ sources \in Nat /\ isOwner \in BOOLEAN
  /\ handling \in Seq(Requested) /\ Len(handling) <= 1 /\ overrun \in Nat
  /\ handling # <<>> => running
SlotsType ==
  /\ serial \in Nat \ {0}
  /\ writes \subseteq 1 .. serial - 1 /\ done \subseteq 1 .. serial - 1
  /\ transfers \in Seq(1 .. serial - 1) /\ Len(transfers) <= SignalDepth
  /\ signalled \subseteq 1 .. serial - 1 /\ pinned \subseteq 1 .. serial - 1
WireType ==
  /\ toServer \in Seq(Message(CommandType)) /\ toWorker \in Seq(Message(EventType))
  /\ selection \in Selected /\ lastOffer \in Nat
PortalType ==
  /\ requests \in Seq(Requested) /\ Len(requests) <= QueueDepth
  /\ call \in Called /\ (call.st # "idle" => call.op # "none")
  /\ entry \in {"live", "closing", "gone"}
SignalType ==
  /\ owner \in OwnerState /\ announced \in OwnerState /\ unseen \in BOOLEAN
  /\ forwarder \in {"parts", "top", "select", "ended"}
  /\ late \in Nat

\* The queues stay within the limits that protect the process from a client
\* that never calls SelectionWriteDone.
TypeOK == WorkerType /\ SlotsType /\ WireType /\ PortalType /\ SignalType

Quiet == running /\ ~defunct /\ toServer = <<>> /\ toWorker = <<>>

\* Whatever order the session's own SetSelection calls, the selections of
\* other clients and the Cancelled events of replaced sources come in, once
\* the connection is quiet the worker knows who owns the clipboard and what it
\* holds, and that is what it has last announced; and none of the offers that
\* were introduced on the way is left among the pending ones.
OwnerAgrees ==
  Quiet =>
    /\ isOwner <=> selection.by = "session"
    /\ isOwner => ownSource = selection.source
    /\ mimes = selection.mimes /\ current = selection.offer
    /\ owner = State(mimes, isOwner)
    /\ DOMAIN offers = {}

\* A transfer keeps its file descriptor from its announcement until its
\* SelectionWriteDone, whatever timed out or failed in between; and no slot is
\* kept by a transfer that is not announced, but for a failed signal's.  However
\* many clients paste, the slots suffice.
TransfersAccounted ==
  running =>
    /\ writes = ({transfers[i] : i \in DOMAIN transfers} \cup signalled \cup pinned) \ done
    /\ Cardinality(writes) <= MaxPending

\* A late answer to a call that has timed out is never taken for the answer
\* of the next call: a SelectionWriteDone that succeeds has been carried out.
DoneMeansDone ==
  call.op = "WriteDone" /\ call.st = "returned" /\ call.ok => call.serial \in done

\* Once the entry of a session is dropped, what is queued, or sent by a call that
\* still holds the sender, takes no effect: a closed session does not seize the
\* clipboard, but by the one request for which the worker had looked at the flag
\* before.  Nor are the queued signals emitted: the forwarder emits at most the
\* one that it was about to when the worker exited.
Commands == Cardinality({i \in DOMAIN toServer : toServer[i].type # "disconnect"})
ClosedSessionWindsDown ==
  [][/\ shutdown /\ overrun' = overrun => Commands' <= Commands /\ done' = done
     /\ overrun' <= 1 /\ late' <= 1]_vars

\* The interface is handled inline, so a call that never returns would block
\* every call of the connection; each returns, even if the worker stalls.
EveryCallReturns == call.st \in {"sending", "waiting"} ~> call.st = "returned"

\* Session.Close does not wait for the worker, whatever its queue holds.
CloseNeverWaits == entry = "closing" ~> entry = "gone"

\* The owner state is signalled, the one from before the forwarder was spawned
\* too, if it is not replaced by a newer one first.
OwnerStateAnnounced ==
  unseen ~> (announced = owner \/ ~running \/ entry # "live")
=============================================================================
