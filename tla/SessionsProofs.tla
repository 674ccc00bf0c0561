--------------------------- MODULE SessionsProofs ---------------------------
(***************************************************************************)
(* Sessions for any number of session handles and calls: the clipboard     *)
(* follows its session, threads and workers have an owner, a session that  *)
(* is started once leaves nothing behind but what Close overlapped, and    *)
(* its EIS listener and its signals tell the same.                         *)
(*                                                                         *)
(* The invariant is built in layers, each proved from those before it:     *)
(* where a call stands and what it holds, who keeps whom out, who created  *)
(* the session, what the tables say of the clipboard, of the threads, of   *)
(* what Close leaves and of the activations.                               *)
(***************************************************************************)
EXTENDS Sessions, TLAPS

\* Where a call may stand, by its method, and whether it has its copy of the
\* session.
Placed(c) ==
  /\ pc[c] # "idle" => on[c] \in Session /\ op[c] \in Operation
  /\ pc[c] \in {"append", "serve"} => op[c] \in Creation
  /\ pc[c] = "register" => op[c] \in Start \cup {"CreateCapture"}
  /\ pc[c] = "select" => op[c] \in {"SelectSources", "SelectDevices"}
  /\ pc[c] = "request" => op[c] = "RequestClipboard"
  /\ pc[c] = "findCast" => op[c] = "CastStart"
  /\ pc[c] \in {"copy", "choose", "awaitNode"} => op[c] \in Start
  /\ pc[c] \in {"findRemote", "ensure", "spawn", "recheck", "insert", "forward"} =>
       op[c] = "RemoteStart"
  /\ pc[c] = "connect" => op[c] = "ConnectToEIS"
  /\ pc[c] \in {"command", "find", "emit"} => op[c] \in {"Enable", "Disable"}
  /\ pc[c] \in {"close", "dropCast", "dropRemote", "dropClipboard", "unserve"} =>
       op[c] = "Close"
Copied(c) ==
  /\ local[c] # None =>
       /\ op[c] \in Start /\ local[c].type = StartsType(op[c])
       /\ pc[c] \notin {"idle", "called", "findCast", "copy"}
  /\ \/ pc[c] \in {"choose", "awaitNode", "findRemote"}
     \/ pc[c] = "register" /\ op[c] \in Start
     => local[c] # None
  /\ pc[c] \in {"ensure", "spawn", "recheck", "insert"} =>
       local[c] # None /\ local[c].clipboard
CallInv == \A c \in Call : Placed(c) /\ Copied(c)

\* Locks belong to the calls that stand where they are held.
Closing == {"dropCast", "dropRemote", "dropClipboard"}
SessionsHeld(c) == sessionsLock = c <=> pc[c] \in Closing \cup {"insert"}
RemoteHeld(c) == remoteLock = c <=> pc[c] = "emit"
HandledNow(c) == op[c] = "RequestClipboard" /\ Open(c) => dispatcher = c
LockInv == \A c \in Call : SessionsHeld(c) /\ RemoteHeld(c) /\ HandledNow(c)
EmitInv == \A c \in Call : pc[c] = "emit" => remotes[on[c]] # <<>>
ExclusionInv ==
  \A c, d \in Call :
    c # d /\ Inside(c) /\ Inside(d) /\ InterfaceOf(op[c]) = InterfaceOf(op[d]) =>
      ~Exclusive(op[c])

\* One call creates a session, before any other call on it, and what it is
\* then, it remains.
CreatorOf(d, s) == d \in CallsOn(s) /\ op[d] \in Creation
CreationInv ==
  /\ \A s \in Session : \A c, d \in CallsOn(s) :
       op[c] \in Creation /\ c # d => op[d] \notin Creation /\ pc[c] = "done"
  /\ \A s \in Session : sessions[s] # None =>
       \E d \in Call : CreatorOf(d, s) /\ sessions[s].type = TypeOf(op[d])
  /\ \A c \in Call : local[c] # None =>
       \E d \in Call : CreatorOf(d, on[c]) /\ local[c].type = TypeOf(op[d])
  /\ \A c \in Call : op[c] \in Creation /\ pc[c] \in {"serve", "register"} =>
       sessions[on[c]] # None

\* A session that has asked for the clipboard remembers it, and so does the
\* copy of a Start.
Asked(s) == \E d \in CallsOn(s) : op[d] = "RequestClipboard" /\ pc[d] = "done"
AskedInv ==
  /\ \A s \in Session : Asked(s) /\ sessions[s] # None /\ sessions[s].type = "Remote" =>
       sessions[s].clipboard
  /\ \A c \in Call : local[c] # None /\ sessions[on[c]] # None /\ local[c].clipboard =>
       sessions[on[c]].clipboard
  /\ \A c \in heard :
       /\ pc[c] # "idle" /\ Asked(on[c])
       /\ op[c] = "RemoteStart" /\ local[c] # None => local[c].clipboard

\* The worker of a session was registered by a Start of its own.
ClipboardInv ==
  /\ \A s \in Session : clipboards[s] # None =>
       /\ sessions[s] # None /\ sessions[s].type = "Remote" /\ sessions[s].clipboard
       /\ clipboards[s] \in CallsOn(s) /\ op[clipboards[s]] = "RemoteStart"
       /\ pc[clipboards[s]] \in {"forward", "done"}
  /\ \A c \in Call : pc[c] = "insert" => sessions[on[c]] # None

\* A worker that was told to stop never comes up again: its Start is past that.
Up(c) == pc[c] \in {"recheck", "insert", "forward", "done"}
WorkerInv ==
  /\ workers \subseteq stopped \cup WorkersOfTable \cup WorkersOfStart
  /\ stopped \cap (WorkersOfTable \cup WorkersOfStart) = {}
  /\ forwarding \subseteq stopped \cup WorkersOfTable
  /\ \A c \in stopped : Up(c)

\* Casts and remote controls were registered by a call of their session that
\* has gone past the registration.
PastRegister == {"ensure", "spawn", "recheck", "insert", "forward", "done"}
Registrar(c, s) ==
  c \in CallsOn(s) /\ op[c] \in {"RemoteStart", "CreateCapture"} /\ pc[c] \in PastRegister
Fresh(c) == pc[c] = "awaitNode" \/ (pc[c] = "register" /\ op[c] = "CastStart")
CastInv ==
  /\ \A s \in Session : Len(casts[s]) <= 1
  /\ \A s \in Session : \A t \in ToSet(casts[s]) :
       t \in threads /\ t \in CallsOn(s) /\ op[t] = "CastStart" /\ pc[t] = "done"
  /\ \A c \in Call :
       op[c] = "CastStart" /\ pc[c] \in {"copy", "choose", "awaitNode", "register"} =>
         casts[on[c]] = <<>>
RemoteInv ==
  \A s \in Session : \A i \in DOMAIN remotes[s] : Registrar(remotes[s][i].by, s)
ThreadInv ==
  /\ \A c \in Call : Fresh(c) => c \in threads
  /\ threads \subseteq (UNION {Registered(s) : s \in Session})
                      \cup {c \in Call : pc[c] \in {"awaitNode", "register"}}

\* The one remote control of a session that is started once, and its count,
\* which is ahead of the last signal while Enable emits the next, and stays ahead
\* of it when the bus refuses that.
Wanted(o) == IF o = "Enable" THEN "on" ELSE "off"
Emitting(s) == {c \in CallsOn(s) : pc[c] = "emit"}
Ahead(s) == IF \E c \in Emitting(s) : op[c] = "Enable" THEN 1 ELSE 0
CountInv ==
  \A s \in Session :
    /\ signalled[s] # NoSignal => \E c \in Call : Registrar(c, s)
    /\ StartedOnce(s) =>
         /\ Len(remotes[s]) <= 1
         /\ remotes[s] # <<>> => remotes[s][1].activation >= signalled[s].id + Ahead(s)
ListenerInv ==
  \A c \in Call : pc[c] \in {"find", "emit"} => listener[on[c]] \in {Wanted(op[c]), "none"}

\* What Close leaves.
Gone(s) == sessions[s] = None /\ Known(s)
Late(c) ==
  /\ op[c] \in Start /\ Open(c) /\ local[c] # None
  /\ Gone(on[c]) \/ \E d \in CallsOn(on[c]) : pc[d] \in Closing
ClosedInv ==
  \A c \in Call :
    /\ Late(c) => c \in overlapped
    /\ pc[c] = "dropRemote" => ToSet(casts[on[c]]) \subseteq overlapped
    /\ pc[c] = "dropClipboard" /\ StartedOnce(on[c]) => Registered(on[c]) \subseteq overlapped

-----------------------------------------------------------------------------
(* Types and places *)

USE SessionAssumption

LEMMA InitType == Init => TypeOK /\ CallInv
<1> SUFFICES ASSUME Init PROVE TypeOK /\ CallInv
  OBVIOUS
<1>1. TypeOK
  BY DEF Init, TypeOK, TablesType, LocksType, CallsType, RunningType, InputType,
     Place, NoSignal, Signal
<1>2. CallInv
  BY DEF Init, CallInv, Placed, Copied
<1> QED BY <1>1, <1>2

LEMMA NewSession ==
  ASSUME NEW o \in Creation
  PROVE  LET new == [type |-> TypeOf(o), persist |-> "DoNot", share |-> FALSE, clipboard |-> FALSE]
         IN new \in SessionData /\ new # None
<1> DEFINE new == [type |-> TypeOf(o), persist |-> "DoNot", share |-> FALSE, clipboard |-> FALSE]
<1>1. TypeOf(o) \in SessionType
  BY DEF TypeOf, Creation, SessionType
<1>2. new \in SessionData
  BY <1>1 DEF SessionData, PersistMode
<1> HIDE DEF new
<1>3. new # None
  BY <1>2
<1> QED BY <1>2, <1>3 DEF new

\* What Select makes of a session.
LEMMA SelectChanges ==
  ASSUME TypeOK, NEW c \in Call, on[c] \in Session, NEW p \in PersistMode \cup {None}, Select(c, p)
  PROVE  /\ sessions' \in [Session -> SessionData \cup {None}]
         /\ \A s \in Session :
              /\ sessions'[s] = None <=> sessions[s] = None
              /\ sessions[s] # None => /\ sessions'[s].type = sessions[s].type
                                       /\ sessions'[s].clipboard = sessions[s].clipboard
<1> DEFINE s == on[c]
           r == [sessions[s] EXCEPT !.share = @ \/ op[c] = "SelectSources",
                                    !.persist = Persisted(@, p)]
<1>1. sessions' = sessions \/ (sessions[s] # None /\ sessions' = [sessions EXCEPT ![s] = r])
  BY DEF Select
<1>2. ASSUME sessions[s] # None
      PROVE  r \in SessionData /\ r.type = sessions[s].type /\ r.clipboard = sessions[s].clipboard
  <2>1. sessions[s] \in SessionData
    BY <1>2 DEF TypeOK, TablesType
  <2>2. (sessions[s].share \/ op[c] = "SelectSources") \in BOOLEAN
    OBVIOUS
  <2>3. Persisted(sessions[s].persist, p) \in PersistMode
    BY <2>1 DEF Persisted, SessionData
  <2> QED BY <2>1, <2>2, <2>3 DEF SessionData
<1> HIDE DEF r
<1>3. CASE sessions' = sessions
  BY <1>3 DEF TypeOK, TablesType
<1>4. CASE sessions[s] # None /\ sessions' = [sessions EXCEPT ![s] = r]
  BY <1>2, <1>4 DEF TypeOK, TablesType
<1> QED BY <1>1, <1>3, <1>4

LEMMA RequestChanges ==
  ASSUME TypeOK, NEW c \in Call, on[c] \in Session, RequestClipboard(c)
  PROVE  /\ sessions' \in [Session -> SessionData \cup {None}]
         /\ \A s \in Session :
              /\ sessions'[s] = None <=> sessions[s] = None
              /\ sessions[s] # None =>
                   /\ sessions'[s].type = sessions[s].type
                   /\ sessions[s].clipboard => sessions'[s].clipboard
                   /\ s # on[c] => sessions'[s].clipboard = sessions[s].clipboard
         /\ sessions[on[c]] # None /\ sessions[on[c]].type = "Remote" =>
              sessions'[on[c]].clipboard = TRUE
<1> DEFINE s == on[c]
           r == [sessions[s] EXCEPT !.clipboard = TRUE]
           accepted == sessions[s] # None /\ sessions[s].type = "Remote"
<1>1. sessions' = IF accepted THEN [sessions EXCEPT ![s] = r] ELSE sessions
  BY DEF RequestClipboard
<1>2. ASSUME accepted
      PROVE  r \in SessionData /\ r.type = sessions[s].type /\ r.clipboard = TRUE
  <2>1. sessions[s] \in SessionData
    BY <1>2 DEF TypeOK, TablesType
  <2> QED BY <2>1 DEF SessionData
<1>3. sessions \in [Session -> SessionData \cup {None}]
  BY DEF TypeOK, TablesType
<1> HIDE DEF r
<1>4. CASE ~accepted
  <2>1. sessions' = sessions
    BY <1>1, <1>4
  <2> QED BY <1>3, <1>4, <2>1
<1>5. CASE accepted
  <2>1. sessions' = [sessions EXCEPT ![s] = r] /\ r # None /\ sessions[s] # None
    BY <1>1, <1>2, <1>5
  <2>2. sessions'[s] = r /\ \A t \in Session : t # s => sessions'[t] = sessions[t]
    BY <1>3, <2>1
  <2>3. sessions' \in [Session -> SessionData \cup {None}]
    BY <1>2, <1>3, <1>5, <2>1
  <2>4. sessions'[s].type = sessions[s].type /\ sessions'[s].clipboard = TRUE
    BY <1>2, <1>5, <2>2
  <2> QED BY <2>1, <2>2, <2>3, <2>4
<1> QED BY <1>4, <1>5

LEMMA AppendRemoteType ==
  ASSUME TypeOK, NEW c \in Call, NEW s \in Session, AppendRemote(s, c)
  PROVE  remotes' \in [Session -> Seq(Remote)]
<1>1. [by |-> c, activation |-> 0] \in Remote
  BY DEF Remote
<1>2. Append(remotes[s], [by |-> c, activation |-> 0]) \in Seq(Remote)
  BY <1>1 DEF TypeOK, TablesType
<1> QED BY <1>2 DEF AppendRemote, TypeOK, TablesType

\* Enable steps the count of the first remote control.
LEMMA SteppedRemotes ==
  ASSUME TypeOK, NEW c \in Call, on[c] \in Session, remotes[on[c]] # <<>>, remotes' = Stepped(c)
  PROVE  /\ remotes' \in [Session -> Seq(Remote)]
         /\ \A s \in Session : /\ DOMAIN remotes'[s] = DOMAIN remotes[s]
                               /\ Len(remotes'[s]) = Len(remotes[s])
                               /\ s # on[c] => remotes'[s] = remotes[s]
         /\ \A s \in Session : \A i \in DOMAIN remotes[s] : remotes'[s][i].by = remotes[s][i].by
         /\ remotes'[on[c]][1].activation =
              remotes[on[c]][1].activation + (IF op[c] = "Enable" THEN 1 ELSE 0)
<1> DEFINE s == on[c]
           q == remotes[s]
           r == [q[1] EXCEPT !.activation = @ + 1]
           n == [q EXCEPT ![1] = r]
<1>1. q \in Seq(Remote) /\ q # <<>>
  BY DEF TypeOK, TablesType
<1>2. 1 \in DOMAIN q /\ q[1] \in Remote
  BY <1>1
<1>3. r \in Remote /\ r.by = q[1].by /\ r.activation = q[1].activation + 1
  BY <1>2 DEF Remote
<1> HIDE DEF r
<1>4. /\ n \in Seq(Remote) /\ Len(n) = Len(q) /\ DOMAIN n = DOMAIN q /\ n[1] = r
      /\ \A i \in DOMAIN q : i # 1 => n[i] = q[i]
  BY <1>1, <1>2, <1>3
<1>5. CASE op[c] = "Enable"
  <2>1. remotes' = [remotes EXCEPT ![s] = n]
    BY <1>5 DEF Stepped, r
  <2> HIDE DEF n
  <2>2. remotes'[s] = n /\ \A t \in Session : t # s => remotes'[t] = remotes[t]
    BY <2>1 DEF TypeOK, TablesType
  <2>3. remotes' \in [Session -> Seq(Remote)]
    BY <1>4, <2>1 DEF TypeOK, TablesType
  <2>4. \A t \in Session : \A i \in DOMAIN remotes[t] : remotes'[t][i].by = remotes[t][i].by
    BY <1>3, <1>4, <2>2
  <2> QED BY <1>3, <1>4, <1>5, <2>2, <2>3, <2>4
<1>6. CASE op[c] # "Enable"
  <2>1. remotes' = remotes
    BY <1>6 DEF Stepped
  <2>2. remotes[s][1].activation + 0 = remotes[s][1].activation
    BY <1>2 DEF Remote
  <2> QED BY <1>6, <2>1, <2>2 DEF TypeOK, TablesType
<1> QED BY <1>5, <1>6

\* What happens beside the calls.
Aside(c) == StreamPaused(c) \/ StreamFails(c) \/ WorkerExits(c)

\* A method takes one call from one place to another.
Moved(c) == \E b \in Place \ {"idle", "called"} : pc' = [pc EXCEPT ![c] = b]
LEMMA MethodMoves ==
  ASSUME TypeOK, CallInv, NEW c \in Call, Method(c)
  PROVE  /\ Moved(c) /\ UNCHANGED <<op, on, heard>>
         /\ pc[c] \in Place \ {"idle", "done"} /\ on[c] \in Session /\ op[c] \in Operation
         /\ pc'[c] \in Place \ {"idle", "called"}
         /\ \A d \in Call : d # c => pc'[d] = pc[d]
<1>1. ASSUME NEW a \in Place \ {"idle", "done"}, NEW b \in Place \ {"idle", "called"}, Goto(c, a, b)
      PROVE  Moved(c) /\ pc[c] \in Place \ {"idle", "done"}
  BY <1>1 DEF Goto, Moved
<1>2. Moved(c) /\ pc[c] \in Place \ {"idle", "done"}
  <2>1. CASE Enter(c)
    <3>1. op[c] \in Operation
      BY <2>1 DEF Enter, Goto, CallInv, Placed
    <3>2. FirstStep(op[c]) \in {"append", "select", "request", "findCast", "copy", "connect", "command", "close"}
      BY <3>1, Zenon DEF FirstStep, Operation, Creation, Start
    <3>3. Goto(c, "called", FirstStep(op[c]))
      BY <2>1 DEF Enter
    <3> QED BY <1>1, <3>2, <3>3 DEF Place
  <2>2. CASE AppendSession(c) \/ ServeSession(c) \/ RegisterCapture(c)
    BY <1>1, <2>2 DEF AppendSession, ServeSession, RegisterCapture, Place
  <2>3. CASE (\E p \in PersistMode \cup {None} : Select(c, p)) \/ RequestClipboard(c)
    BY <1>1, <2>3 DEF Select, RequestClipboard, Place
  <2>4. CASE FindCast(c) \/ GiveUp(c) \/ SkipCast(c) \/ StartThread(c) \/ TakeNode(c) \/ RegisterCast(c)
    BY <1>1, <2>4 DEF FindCast, GiveUp, SkipCast, StartThread, TakeNode, RegisterCast, Place
  <2>5. CASE CopySession(c)
    BY <1>1, <2>5 DEF CopySession, Place
  <2>6. CASE FindRemote(c) \/ RegisterRemote(c) \/ EnsureClipboard(c)
    BY <1>1, <2>6 DEF FindRemote, RegisterRemote, EnsureClipboard, AfterRemote, Place
  <2>7. CASE SpawnWorker(c) \/ Recheck(c) \/ InsertClipboard(c) \/ Forward(c)
    BY <1>1, <2>7 DEF SpawnWorker, Recheck, InsertClipboard, Forward, Place
  <2>8. CASE Connect(c) \/ Command(c) \/ FindCapture(c) \/ Emit(c)
    BY <1>1, <2>8 DEF Connect, Command, FindCapture, CaptureFound, Emit, Place
  <2>9. CASE CloseSession(c)
    BY <1>1, <2>9 DEF CloseSession, BeginClose, Place
  <2>10. CASE DropCast(c) \/ DropRemote(c) \/ DropClipboard(c) \/ UnserveSession(c)
    BY <1>1, <2>10 DEF DropCast, DropRemote, DropClipboard, UnserveSession, Place
  <2> QED BY <2>1, <2>2, <2>3, <2>4, <2>5, <2>6, <2>7, <2>8, <2>9, <2>10 DEF Method
<1>3. UNCHANGED <<op, on, heard>>
  BY DEF Method, Enter, AppendSession, ServeSession, RegisterCapture, Select, RequestClipboard,
     FindCast, CopySession, GiveUp, SkipCast, StartThread, TakeNode, RegisterCast,
     FindRemote, RegisterRemote, EnsureClipboard, SpawnWorker, Recheck, InsertClipboard, Forward,
     Connect, Command, FindCapture, Emit, CloseSession, DropCast, DropRemote, DropClipboard, UnserveSession
<1>4. on[c] \in Session /\ op[c] \in Operation
  BY <1>2 DEF CallInv, Placed
<1>5. pc'[c] \in Place \ {"idle", "called"} /\ \A d \in Call : d # c => pc'[d] = pc[d]
  BY <1>2 DEF Moved, TypeOK, CallsType
<1> QED BY <1>2, <1>3, <1>4, <1>5

LEMMA MethodTables == ASSUME TypeOK, CallInv, NEW c \in Call, Method(c) PROVE TablesType'
<1>1. on[c] \in Session /\ TablesType
  BY MethodMoves DEF TypeOK
<1>2. ASSUME UNCHANGED tables PROVE TablesType'
  BY <1>1, <1>2 DEF TablesType, tables
<1>3. CASE Enter(c) \/ FindCast(c) \/ CopySession(c) \/ GiveUp(c) \/ SkipCast(c) \/ StartThread(c)
           \/ TakeNode(c) \/ FindRemote(c) \/ EnsureClipboard(c) \/ SpawnWorker(c) \/ Recheck(c)
           \/ Forward(c) \/ Connect(c) \/ Command(c) \/ Emit(c) \/ CloseSession(c)
  BY <1>2, <1>3 DEF Enter, FindCast, CopySession, GiveUp, SkipCast, StartThread, TakeNode, FindRemote,
     EnsureClipboard, SpawnWorker, Recheck, Forward, Connect, Command, Emit, CloseSession
<1>4. CASE AppendSession(c)
  <2>1. [type |-> TypeOf(op[c]), persist |-> "DoNot", share |-> FALSE, clipboard |-> FALSE]
          \in SessionData
    BY <1>4 DEF AppendSession, Goto, CallInv, Placed, TypeOf, Creation, SessionData, SessionType, PersistMode
  <2> QED BY <1>1, <1>4, <2>1 DEF AppendSession, TablesType
<1>5. CASE ServeSession(c) \/ UnserveSession(c)
  BY <1>1, <1>5 DEF ServeSession, UnserveSession, PersistMode, TablesType
<1>6. CASE RegisterCapture(c) \/ RegisterRemote(c)
  <2>1. remotes' \in [Session -> Seq(Remote)]
    BY <1>1, <1>6, AppendRemoteType DEF RegisterCapture, RegisterRemote
  <2> QED BY <1>1, <1>6, <2>1 DEF RegisterCapture, RegisterRemote, TablesType
<1>7. CASE \E p \in PersistMode \cup {None} : Select(c, p)
  <2> PICK p \in PersistMode \cup {None} : Select(c, p)
    BY <1>7
  <2>1. sessions' \in [Session -> SessionData \cup {None}]
    BY <1>1, SelectChanges
  <2> QED BY <1>1, <2>1 DEF Select, TablesType
<1>8. CASE RequestClipboard(c)
  <2>1. sessions' \in [Session -> SessionData \cup {None}]
    BY <1>1, <1>8, RequestChanges
  <2> QED BY <1>1, <1>8, <2>1 DEF RequestClipboard, TablesType
<1>9. CASE RegisterCast(c)
  <2>1. Append(casts[on[c]], c) \in Seq(Call)
    BY <1>1 DEF TablesType
  <2> QED BY <1>1, <1>9, <2>1 DEF RegisterCast, TablesType
<1>10. CASE InsertClipboard(c)
  <2>1. clipboards' \in [Session -> Call \cup {None}]
    BY <1>1, <1>10 DEF InsertClipboard, TablesType
  <2> QED BY <1>1, <1>10, <2>1 DEF InsertClipboard, TablesType
<1>11. CASE FindCapture(c)
  <2>1. remotes' \in [Session -> Seq(Remote)]
    BY <1>1, <1>11, SteppedRemotes DEF FindCapture, CaptureFound, TablesType
  <2> QED BY <1>1, <1>11, <2>1 DEF FindCapture, TablesType
<1>12. CASE DropCast(c)
  <2>1. RemoveFirstOf(casts[on[c]]) \in Seq(Call)
    BY <1>1 DEF RemoveFirstOf, TablesType
  <2> QED BY <1>1, <1>12, <2>1 DEF DropCast, TablesType
<1>13. CASE DropRemote(c)
  <2>1. RemoveFirstOf(remotes[on[c]]) \in Seq(Remote)
    BY <1>1 DEF RemoveFirstOf, TablesType
  <2> QED BY <1>1, <1>13, <2>1 DEF DropRemote, TablesType
<1>14. CASE DropClipboard(c)
  BY <1>1, <1>14 DEF DropClipboard, TablesType
<1> QED BY <1>3, <1>4, <1>5, <1>6, <1>7, <1>8, <1>9, <1>10, <1>11, <1>12, <1>13, <1>14 DEF Method

LEMMA MethodLocks == ASSUME TypeOK, NEW c \in Call, Method(c) PROVE LocksType'
<1> USE DEF LocksType
<1>1. CASE Enter(c) \/ AppendSession(c) \/ ServeSession(c) \/ RegisterCapture(c)
           \/ \E p \in PersistMode \cup {None} : Select(c, p)
  BY <1>1 DEF TypeOK, locks, Enter, AppendSession, ServeSession, RegisterCapture, Select
<1>2. CASE FindCast(c) \/ CopySession(c) \/ GiveUp(c) \/ SkipCast(c) \/ StartThread(c) \/ TakeNode(c)
           \/ RegisterCast(c) \/ FindRemote(c) \/ RegisterRemote(c)
  BY <1>2 DEF TypeOK, locks, FindCast, CopySession, GiveUp, SkipCast, StartThread, TakeNode, RegisterCast,
     FindRemote, RegisterRemote
<1>3. CASE EnsureClipboard(c) \/ SpawnWorker(c) \/ Forward(c) \/ Connect(c) \/ Command(c) \/ DropCast(c)
           \/ DropRemote(c) \/ UnserveSession(c)
  BY <1>3 DEF TypeOK, locks, EnsureClipboard, SpawnWorker, Forward, Connect, Command, DropCast, DropRemote,
     UnserveSession
<1>4. CASE RequestClipboard(c) \/ Recheck(c) \/ InsertClipboard(c) \/ FindCapture(c) \/ Emit(c)
  BY <1>4 DEF TypeOK, RequestClipboard, Recheck, InsertClipboard, FindCapture, CaptureFound, Emit
<1>5. CASE CloseSession(c) \/ DropClipboard(c)
  BY <1>5 DEF TypeOK, CloseSession, BeginClose, DropClipboard
<1> QED BY <1>1, <1>2, <1>3, <1>4, <1>5 DEF Method

LEMMA MethodCalls == ASSUME TypeOK, CallInv, NEW c \in Call, Method(c) PROVE CallsType'
<1>1. CallsType /\ UNCHANGED <<op, on, heard>> /\ on[c] \in Session
  BY MethodMoves DEF TypeOK
<1>2. pc' \in [Call -> Place]
  BY <1>1, MethodMoves DEF Moved, CallsType
<1>3. local' \in [Call -> SessionData \cup {None}]
  <2>1. CASE CopySession(c)
    BY <1>1, <2>1 DEF CopySession, TypeOK, TablesType, CallsType
  <2>2. CASE ~CopySession(c)
    <3>1. local' = local
      BY <2>2 DEF Method, Enter, AppendSession, ServeSession, RegisterCapture, Select, RequestClipboard,
         FindCast, GiveUp, SkipCast, StartThread, TakeNode, RegisterCast, FindRemote, RegisterRemote,
         EnsureClipboard, SpawnWorker, Recheck, InsertClipboard, Forward, Connect, Command, FindCapture, Emit,
         CloseSession, DropCast, DropRemote, DropClipboard, UnserveSession
    <3> QED BY <1>1, <3>1 DEF CallsType
  <2> QED BY <2>1, <2>2
<1>4. overlapped' \subseteq Call
  <2>1. CASE CloseSession(c)
    BY <1>1, <2>1 DEF CloseSession, CallsOn, CallsType
  <2>2. CASE ~CloseSession(c)
    <3>1. overlapped' = overlapped
      BY <2>2 DEF Method, Enter, AppendSession, ServeSession, RegisterCapture, Select, RequestClipboard,
         FindCast, CopySession, GiveUp, SkipCast, StartThread, TakeNode, RegisterCast, FindRemote,
         RegisterRemote, EnsureClipboard, SpawnWorker, Recheck, InsertClipboard, Forward, Connect, Command,
         FindCapture, Emit, DropCast, DropRemote, DropClipboard, UnserveSession
    <3> QED BY <1>1, <3>1 DEF CallsType
  <2> QED BY <2>1, <2>2
<1> QED BY <1>1, <1>2, <1>3, <1>4 DEF CallsType

LEMMA MethodRunning == ASSUME TypeOK, CallInv, NEW c \in Call, Method(c) PROVE RunningType'
<1> USE DEF RunningType
<1>1. RunningType /\ on[c] \in Session
  BY MethodMoves DEF TypeOK
<1>2. CASE StartThread(c) \/ SpawnWorker(c) \/ Recheck(c)
  BY <1>1, <1>2 DEF StartThread, SpawnWorker, Recheck, Drop
<1>3. CASE InsertClipboard(c) \/ DropCast(c) \/ DropRemote(c) \/ DropClipboard(c)
  <2>1. RegisteredFor(on[c]) \subseteq Call
    BY <1>1 DEF RegisteredFor, TypeOK, TablesType
  <2> QED BY <1>1, <1>3, <2>1 DEF InsertClipboard, Drop, DropCast, DropRemote, DropClipboard
<1>4. CASE Forward(c)
  BY <1>1, <1>4 DEF Forward, TypeOK, TablesType
<1>5. CASE ~(StartThread(c) \/ SpawnWorker(c) \/ Recheck(c) \/ InsertClipboard(c) \/ Forward(c)
             \/ DropCast(c) \/ DropRemote(c) \/ DropClipboard(c))
  BY <1>1, <1>5 DEF running, Method, Enter, AppendSession, ServeSession, RegisterCapture, Select,
     RequestClipboard, FindCast, CopySession, GiveUp, SkipCast, TakeNode, RegisterCast, FindRemote,
     RegisterRemote, EnsureClipboard, Connect, Command, FindCapture, Emit, CloseSession, UnserveSession
<1> QED BY <1>2, <1>3, <1>4, <1>5

LEMMA MethodInput == ASSUME TypeOK, CallInv, EmitInv, NEW c \in Call, Method(c) PROVE InputType'
<1>1. InputType /\ on[c] \in Session
  BY MethodMoves DEF TypeOK
<1>2. CASE Connect(c) \/ Command(c) \/ DropRemote(c)
  BY <1>1, <1>2 DEF Connect, Command, Commanded, DropRemote, InputType
<1>3. CASE Emit(c)
  <2>1. remotes[on[c]][1].activation \in Nat
    <3>1. remotes[on[c]] \in Seq(Remote) /\ remotes[on[c]] # <<>>
      BY <1>1, <1>3 DEF Emit, Goto, EmitInv, TypeOK, TablesType
    <3>2. remotes[on[c]][1] \in Remote
      BY <3>1
    <3> QED BY <3>2 DEF Remote
  <2> QED BY <1>1, <1>3, <2>1 DEF Emit, InputType, Signal
<1>4. CASE ~(Connect(c) \/ Command(c) \/ Emit(c) \/ DropRemote(c))
  BY <1>1, <1>4 DEF input, InputType, Method, Enter, AppendSession, ServeSession, RegisterCapture, Select,
     RequestClipboard, FindCast, CopySession, GiveUp, SkipCast, StartThread, TakeNode, RegisterCast,
     FindRemote, RegisterRemote, EnsureClipboard, SpawnWorker, Recheck, InsertClipboard, Forward,
     FindCapture, CloseSession, DropCast, DropClipboard, UnserveSession
<1> QED BY <1>2, <1>3, <1>4

\* What happens beside the calls moves none.
LEMMA AsideKeeps ==
  ASSUME NEW c \in Call, Aside(c)
  PROVE  /\ UNCHANGED <<tables, locks, calls, threads, stopped, input>>
         /\ workers' \subseteq workers /\ forwarding' \subseteq forwarding
BY DEF Aside, StreamPaused, StreamFails, WorkerExits

LEMMA NextType == ASSUME TypeOK, CallInv, EmitInv, [Next]_vars PROVE TypeOK'
<1>1. ASSUME NEW c \in Call, NEW o \in Operation, NEW s \in Session, Arrive(c, o, s) PROVE TypeOK'
  <2>1. TablesType' /\ RunningType' /\ InputType'
    BY <1>1 DEF Arrive, TypeOK, TablesType, RunningType, InputType, tables, running, input
  <2>2. LocksType'
    BY <1>1 DEF Arrive, TypeOK, LocksType
  <2>3. CallsType'
    BY <1>1 DEF Arrive, Goto, TypeOK, CallsType, Place
  <2> QED BY <2>1, <2>2, <2>3 DEF TypeOK
<1>2. ASSUME NEW c \in Call, Aside(c) PROVE TypeOK'
  <2>1. stream' \in [Call -> {"connecting", "paused", "failed", "refused", None}]
    BY <1>2 DEF Aside, StreamPaused, StreamFails, WorkerExits, TypeOK, RunningType
  <2>2. workers' \subseteq Call /\ forwarding' \subseteq Call
    BY <1>2 DEF Aside, StreamPaused, StreamFails, WorkerExits, TypeOK, RunningType
  <2> QED BY <1>2, <2>1, <2>2, AsideKeeps DEF tables, locks, calls, input, TypeOK, TablesType, LocksType,
             CallsType, RunningType, InputType
<1>3. ASSUME NEW c \in Call, Method(c) PROVE TypeOK'
  BY <1>3, MethodTables, MethodLocks, MethodCalls, MethodRunning, MethodInput DEF TypeOK
<1>4. CASE UNCHANGED vars
  BY <1>4 DEF vars, tables, locks, calls, running, input, TypeOK, TablesType, LocksType,
     CallsType, RunningType, InputType
<1> QED BY <1>1, <1>2, <1>3, <1>4 DEF Next, Aside

\* A call has its copy of the session once it has looked at it.
LEMMA MethodCopies ==
  ASSUME TypeOK, CallInv, NEW c \in Call, Method(c)
  PROVE  /\ CopySession(c) \/ local' = local
         /\ \A d \in Call : d # c => local'[d] = local[d]
<1>1. CASE CopySession(c)
  BY <1>1 DEF CopySession, TypeOK, CallsType
<1>2. CASE ~CopySession(c)
  BY <1>2 DEF Method, Enter, AppendSession, ServeSession, RegisterCapture, Select, RequestClipboard,
     FindCast, GiveUp, SkipCast, StartThread, TakeNode, RegisterCast, FindRemote, RegisterRemote,
     EnsureClipboard, SpawnWorker, Recheck, InsertClipboard, Forward, Connect, Command, FindCapture, Emit,
     CloseSession, DropCast, DropRemote, DropClipboard, UnserveSession
<1> QED BY <1>1, <1>2

LEMMA MethodPlaced == ASSUME TypeOK, CallInv, NEW c \in Call, Method(c) PROVE CallInv'
<1>1. /\ op' = op /\ on' = on /\ pc \in [Call -> Place]
      /\ on[c] \in Session /\ op[c] \in Operation /\ Placed(c) /\ Copied(c)
      /\ \A d \in Call : d # c => pc'[d] = pc[d] /\ local'[d] = local[d]
  BY MethodMoves, MethodCopies DEF CallInv, TypeOK, CallsType
<1>2. ASSUME NEW d \in Call, d # c PROVE Placed(d)' /\ Copied(d)'
  BY <1>1, <1>2 DEF CallInv, Placed, Copied
<1>3. ASSUME NEW a, NEW b, Goto(c, a, b) PROVE pc[c] = a /\ pc'[c] = b
  BY <1>1, <1>3 DEF Goto
<1>4. Placed(c)' /\ Copied(c)'
  <2>1. CASE Enter(c)
    <3>1. pc[c] = "called" /\ pc'[c] = FirstStep(op[c]) /\ local' = local /\ local[c] = None
      BY <1>1, <1>3, <2>1 DEF Enter, Copied
    <3>2. Placed(c)'
      BY <1>1, <3>1 DEF Placed, FirstStep, Operation, Creation, Start
    <3>3. FirstStep(op[c]) \in {"append", "select", "request", "findCast", "copy", "connect", "command", "close"}
      BY <1>1, Zenon DEF FirstStep, Operation, Creation, Start
    <3> QED BY <1>1, <3>1, <3>2, <3>3 DEF Copied
  <2>2. CASE AppendSession(c) \/ ServeSession(c) \/ RegisterCapture(c)
    BY <1>1, <1>3, <2>2 DEF AppendSession, ServeSession, RegisterCapture, Placed, Copied, Creation, Start
  <2>3. CASE (\E p \in PersistMode \cup {None} : Select(c, p)) \/ RequestClipboard(c)
    <3>1. Goto(c, "select", "done") \/ Goto(c, "request", "done")
      BY <2>3 DEF Select, RequestClipboard
    <3>2. local' = local
      BY <2>3 DEF Select, RequestClipboard
    <3> QED BY <1>1, <1>3, <3>1, <3>2 DEF Placed, Copied
  <2>4. CASE FindCast(c) \/ GiveUp(c) \/ SkipCast(c) \/ StartThread(c) \/ TakeNode(c) \/ RegisterCast(c)
    BY <1>1, <1>3, <2>4 DEF FindCast, GiveUp, SkipCast, StartThread, TakeNode, RegisterCast,
       Placed, Copied, Start
  <2>5. CASE CopySession(c)
    <3> DEFINE found == sessions[on[c]] # None /\ sessions[on[c]].type = StartsType(op[c])
    <3>1. pc[c] = "copy" /\ op[c] \in Start /\ local[c] = None
      BY <1>1, <1>3, <2>5 DEF CopySession, Placed, Copied
    <3>2. CASE ~found
      BY <1>1, <1>3, <2>5, <3>1, <3>2 DEF CopySession, Placed, Copied
    <3>3. CASE found
      <4>1. local'[c] = sessions[on[c]]
        BY <2>5, <3>3 DEF CopySession, TypeOK, CallsType
      <4> QED BY <1>1, <1>3, <2>5, <3>1, <3>3, <4>1 DEF CopySession, Placed, Copied, Start
    <3> QED BY <3>2, <3>3
  <2>6. CASE FindRemote(c) \/ RegisterRemote(c) \/ EnsureClipboard(c)
    BY <1>1, <1>3, <2>6 DEF FindRemote, RegisterRemote, EnsureClipboard, AfterRemote, Placed, Copied, Start
  <2>7. CASE SpawnWorker(c) \/ Recheck(c) \/ InsertClipboard(c) \/ Forward(c)
    BY <1>1, <1>3, <2>7 DEF SpawnWorker, Recheck, InsertClipboard, Forward, Placed, Copied, Start
  <2>8. CASE Connect(c) \/ Command(c) \/ FindCapture(c) \/ Emit(c)
    BY <1>1, <1>3, <2>8 DEF Connect, Command, FindCapture, CaptureFound, Emit, Placed, Copied
  <2>9. CASE CloseSession(c)
    BY <1>1, <1>3, <2>9 DEF CloseSession, BeginClose, Placed, Copied
  <2>10. CASE DropCast(c) \/ DropRemote(c) \/ DropClipboard(c) \/ UnserveSession(c)
    BY <1>1, <1>3, <2>10 DEF DropCast, DropRemote, DropClipboard, UnserveSession, Placed, Copied
  <2> QED BY <2>1, <2>2, <2>3, <2>4, <2>5, <2>6, <2>7, <2>8, <2>9, <2>10 DEF Method
<1> QED BY <1>2, <1>4 DEF CallInv

\* A call that arrives is a new one.
LEMMA ArriveMoves ==
  ASSUME TypeOK, NEW c \in Call, NEW o \in Operation, NEW s \in Session, Arrive(c, o, s)
  PROVE  /\ pc[c] = "idle" /\ pc'[c] = "called" /\ op'[c] = o /\ on'[c] = s
         /\ \A d \in Call : d # c => pc'[d] = pc[d] /\ op'[d] = op[d] /\ on'[d] = on[d]
         /\ UNCHANGED <<tables, sessionsLock, remoteLock, local, overlapped, running, input>>
BY DEF Arrive, Goto, TypeOK, CallsType

LEMMA NextPlaced == ASSUME TypeOK, CallInv, [Next]_vars PROVE CallInv'
<1>1. ASSUME NEW c \in Call, NEW o \in Operation, NEW s \in Session, Arrive(c, o, s) PROVE CallInv'
  BY <1>1, ArriveMoves DEF CallInv, Placed, Copied
<1>2. ASSUME NEW c \in Call, Aside(c) PROVE CallInv'
  BY <1>2, AsideKeeps DEF calls, CallInv, Placed, Copied
<1>3. ASSUME NEW c \in Call, Method(c) PROVE CallInv'
  BY <1>3, MethodPlaced
<1>4. CASE UNCHANGED vars
  BY <1>4 DEF vars, calls, CallInv, Placed, Copied
<1> QED BY <1>1, <1>2, <1>3, <1>4 DEF Next, Aside

-----------------------------------------------------------------------------
(* Locks *)

LEMMA MethodSessionsHeld ==
  ASSUME TypeOK, LockInv, NEW c \in Call, Method(c), CallInv
  PROVE  \A d \in Call : SessionsHeld(d)'
<1>1. /\ \A d \in Call : d # c => pc'[d] = pc[d]
      /\ pc \in [Call -> Place]
      /\ \A d \in Call : sessionsLock = d <=> pc[d] \in Closing \cup {"insert"}
  BY MethodMoves DEF LockInv, SessionsHeld, TypeOK, CallsType
<1>2. ASSUME NEW a, NEW b, Goto(c, a, b) PROVE pc[c] = a /\ pc'[c] = b
  BY <1>1, <1>2 DEF Goto
<1>3. ASSUME sessionsLock' = sessionsLock,
             pc[c] \in Closing \cup {"insert"} <=> pc'[c] \in Closing \cup {"insert"}
      PROVE  \A d \in Call : SessionsHeld(d)'
  BY <1>1, <1>3 DEF SessionsHeld
<1>4. ASSUME sessionsLock' = None, pc[c] \in Closing \cup {"insert"}, pc'[c] \notin Closing \cup {"insert"}
      PROVE  \A d \in Call : SessionsHeld(d)'
  BY <1>1, <1>4 DEF SessionsHeld
<1>5. ASSUME sessionsLock = None, sessionsLock' = c, pc'[c] \in Closing \cup {"insert"}
      PROVE  \A d \in Call : SessionsHeld(d)'
  BY <1>1, <1>5 DEF SessionsHeld
<1> USE DEF Closing
<1>6. CASE Enter(c)
  <2>1. op[c] \in Operation
    BY MethodMoves
  <2>2. FirstStep(op[c]) \in {"append", "select", "request", "findCast", "copy", "connect", "command", "close"}
    BY <2>1, Zenon DEF FirstStep, Operation, Creation, Start
  <2>3. sessionsLock' = sessionsLock /\ Goto(c, "called", FirstStep(op[c]))
    BY <1>6 DEF Enter, locks
  <2> QED BY <1>2, <1>3, <2>2, <2>3
<1>7. CASE AppendSession(c) \/ ServeSession(c) \/ RegisterCapture(c)
  BY <1>2, <1>3, <1>7 DEF AppendSession, ServeSession, RegisterCapture, locks
<1>8. CASE (\E p \in PersistMode \cup {None} : Select(c, p)) \/ RequestClipboard(c)
  <2>1. Goto(c, "select", "done") \/ Goto(c, "request", "done")
    BY <1>8 DEF Select, RequestClipboard
  <2>2. sessionsLock' = sessionsLock
    BY <1>8 DEF Select, RequestClipboard, locks
  <2> QED BY <1>2, <1>3, <2>1, <2>2
<1>9. CASE FindCast(c) \/ GiveUp(c) \/ SkipCast(c) \/ StartThread(c) \/ TakeNode(c) \/ RegisterCast(c)
           \/ CopySession(c)
  BY <1>2, <1>3, <1>9 DEF FindCast, GiveUp, SkipCast, StartThread, TakeNode, RegisterCast, CopySession, locks
<1>10. CASE FindRemote(c) \/ RegisterRemote(c) \/ EnsureClipboard(c) \/ SpawnWorker(c) \/ Forward(c)
  BY <1>2, <1>3, <1>10 DEF FindRemote, RegisterRemote, AfterRemote, EnsureClipboard, SpawnWorker, Forward, locks
<1>11. CASE Recheck(c)
  BY <1>2, <1>3, <1>5, <1>11 DEF Recheck
<1>12. CASE InsertClipboard(c) \/ DropClipboard(c)
  BY <1>2, <1>4, <1>12 DEF InsertClipboard, DropClipboard
<1>13. CASE Connect(c) \/ Command(c) \/ FindCapture(c) \/ Emit(c) \/ DropCast(c) \/ DropRemote(c) \/ UnserveSession(c)
  BY <1>2, <1>3, <1>13 DEF Connect, Command, FindCapture, CaptureFound, Emit, DropCast, DropRemote, UnserveSession, locks
<1>14. CASE CloseSession(c)
  BY <1>2, <1>3, <1>5, <1>14 DEF CloseSession, BeginClose
<1> QED BY <1>6, <1>7, <1>8, <1>9, <1>10, <1>11, <1>12, <1>13, <1>14 DEF Method

LEMMA MethodRemoteHeld ==
  ASSUME TypeOK, LockInv, NEW c \in Call, Method(c), CallInv
  PROVE  \A d \in Call : RemoteHeld(d)'
<1>1. /\ \A d \in Call : d # c => pc'[d] = pc[d]
      /\ pc \in [Call -> Place]
      /\ \A d \in Call : remoteLock = d <=> pc[d] = "emit"
  BY MethodMoves DEF LockInv, RemoteHeld, TypeOK, CallsType
<1>2. ASSUME NEW a, NEW b, Goto(c, a, b) PROVE pc[c] = a /\ pc'[c] = b
  BY <1>1, <1>2 DEF Goto
<1>3. ASSUME remoteLock' = remoteLock, pc[c] # "emit" /\ pc'[c] # "emit"
      PROVE  \A d \in Call : RemoteHeld(d)'
  BY <1>1, <1>3 DEF RemoteHeld
<1>4. CASE Enter(c)
  <2>1. op[c] \in Operation
    BY MethodMoves
  <2>2. FirstStep(op[c]) \in {"append", "select", "request", "findCast", "copy", "connect", "command", "close"}
    BY <2>1, Zenon DEF FirstStep, Operation, Creation, Start
  <2>3. remoteLock' = remoteLock /\ Goto(c, "called", FirstStep(op[c]))
    BY <1>4 DEF Enter, locks
  <2> QED BY <1>2, <1>3, <2>2, <2>3
<1>5. CASE AppendSession(c) \/ ServeSession(c) \/ RegisterCapture(c)
  BY <1>2, <1>3, <1>5 DEF AppendSession, ServeSession, RegisterCapture, locks
<1>6. CASE (\E p \in PersistMode \cup {None} : Select(c, p)) \/ RequestClipboard(c)
  <2>1. Goto(c, "select", "done") \/ Goto(c, "request", "done")
    BY <1>6 DEF Select, RequestClipboard
  <2>2. remoteLock' = remoteLock
    BY <1>6 DEF Select, RequestClipboard, locks
  <2> QED BY <1>2, <1>3, <2>1, <2>2
<1>7. CASE FindCast(c) \/ GiveUp(c) \/ SkipCast(c) \/ StartThread(c) \/ TakeNode(c) \/ RegisterCast(c)
           \/ CopySession(c)
  BY <1>2, <1>3, <1>7 DEF FindCast, GiveUp, SkipCast, StartThread, TakeNode, RegisterCast, CopySession, locks
<1>8. CASE FindRemote(c) \/ RegisterRemote(c) \/ EnsureClipboard(c) \/ SpawnWorker(c) \/ Forward(c)
  BY <1>2, <1>3, <1>8 DEF FindRemote, RegisterRemote, AfterRemote, EnsureClipboard, SpawnWorker, Forward, locks
<1>9. CASE Recheck(c) \/ InsertClipboard(c) \/ DropClipboard(c) \/ CloseSession(c)
  BY <1>2, <1>3, <1>9 DEF Recheck, InsertClipboard, DropClipboard, CloseSession, BeginClose
<1>10. CASE Connect(c) \/ Command(c) \/ DropCast(c) \/ DropRemote(c) \/ UnserveSession(c)
  BY <1>2, <1>3, <1>10 DEF Connect, Command, DropCast, DropRemote, UnserveSession, locks
<1>11. CASE FindCapture(c)
  <2>1. CASE remoteLock' = c /\ Goto(c, "find", "emit")
    BY <1>1, <1>2, <1>11, <2>1 DEF FindCapture, RemoteFree, RemoteHeld
  <2>2. CASE remoteLock' = remoteLock /\ Goto(c, "find", "done")
    BY <1>2, <1>3, <2>2
  <2> QED BY <1>11, <2>1, <2>2 DEF FindCapture, CaptureFound
<1>12. CASE Emit(c)
  BY <1>1, <1>2, <1>12 DEF Emit, RemoteHeld
<1> QED BY <1>4, <1>5, <1>6, <1>7, <1>8, <1>9, <1>10, <1>11, <1>12 DEF Method

LEMMA MethodHandledNow ==
  ASSUME TypeOK, LockInv, NEW c \in Call, Method(c), CallInv
  PROVE  \A d \in Call : HandledNow(d)'
<1>1. /\ \A d \in Call : d # c => pc'[d] = pc[d]
      /\ op' = op /\ Open(c)
      /\ \A d \in Call : op[d] = "RequestClipboard" /\ Open(d) => dispatcher = d
  BY MethodMoves DEF LockInv, HandledNow, Open
<1>2. CASE RequestClipboard(c)
  <2>1. op[c] = "RequestClipboard" /\ pc'[c] = "done"
    BY <1>2 DEF RequestClipboard, Goto, CallInv, Placed, TypeOK, CallsType
  <2>2. \A d \in Call : d # c => ~(op[d] = "RequestClipboard" /\ Open(d))
    BY <1>1, <2>1
  <2> QED BY <1>1, <2>1, <2>2 DEF HandledNow, Open
<1>3. CASE ~RequestClipboard(c)
  <2>1. dispatcher' = dispatcher
    BY <1>3 DEF locks, Method, Enter, AppendSession, ServeSession, RegisterCapture, Select,
       FindCast, CopySession, GiveUp, SkipCast, StartThread, TakeNode, RegisterCast, FindRemote,
       RegisterRemote, EnsureClipboard, SpawnWorker, Recheck, InsertClipboard, Forward, Connect, Command,
       FindCapture, Emit, CloseSession, DropCast, DropRemote, DropClipboard, UnserveSession
  <2> QED BY <1>1, <2>1 DEF HandledNow, Open
<1> QED BY <1>2, <1>3

LEMMA NextLocks == ASSUME TypeOK, CallInv, LockInv, [Next]_vars PROVE LockInv'
<1>1. ASSUME NEW c \in Call, NEW o \in Operation, NEW s \in Session, Arrive(c, o, s) PROVE LockInv'
  <2>1. \A d \in Call : SessionsHeld(d)' /\ RemoteHeld(d)'
    BY <1>1, ArriveMoves DEF LockInv, SessionsHeld, RemoteHeld, Closing
  <2>2. \A d \in Call : HandledNow(d)'
    <3>1. dispatcher = None /\ dispatcher' = IF o = "RequestClipboard" THEN c ELSE None
      BY <1>1 DEF Arrive, HandledInline
    <3>2. \A d \in Call : ~(op[d] = "RequestClipboard" /\ Open(d))
      BY <3>1 DEF LockInv, HandledNow
    <3> QED BY <1>1, <3>1, <3>2, ArriveMoves DEF HandledNow, Open
  <2> QED BY <2>1, <2>2 DEF LockInv
<1>2. ASSUME NEW c \in Call, Aside(c) PROVE LockInv'
  BY <1>2, AsideKeeps DEF calls, locks, LockInv, SessionsHeld, RemoteHeld, HandledNow, Open
<1>3. ASSUME NEW c \in Call, Method(c) PROVE LockInv'
  BY <1>3, MethodSessionsHeld, MethodRemoteHeld, MethodHandledNow DEF LockInv
<1>4. CASE UNCHANGED vars
  BY <1>4 DEF vars, calls, locks, LockInv, SessionsHeld, RemoteHeld, HandledNow, Open
<1> QED BY <1>1, <1>2, <1>3, <1>4 DEF Next, Aside

\* A remote control is there as long as its lock is held.
LEMMA MethodEmits == ASSUME TypeOK, CallInv, LockInv, EmitInv, NEW c \in Call, Method(c) PROVE EmitInv'
<1>1. /\ \A d \in Call : d # c => pc'[d] = pc[d]
      /\ on' = on /\ on[c] \in Session /\ pc \in [Call -> Place]
      /\ remotes \in [Session -> Seq(Remote)]
  BY MethodMoves DEF TypeOK, CallsType, TablesType
<1>2. ASSUME NEW a, NEW b, Goto(c, a, b) PROVE pc[c] = a /\ pc'[c] = b
  BY <1>1, <1>2 DEF Goto
<1>3. ASSUME NEW d \in Call, pc[d] = "emit" PROVE on[d] \in Session /\ remoteLock = d
  BY <1>3 DEF CallInv, Placed, LockInv, RemoteHeld
<1>4. CASE DropRemote(c)
  <2>1. \A d \in Call : pc[d] # "emit"
    BY <1>3, <1>4 DEF DropRemote
  <2> QED BY <1>1, <1>2, <1>4, <2>1 DEF DropRemote, EmitInv
<1>5. CASE RegisterCapture(c) \/ RegisterRemote(c)
  <2>1. pc'[c] # "emit" /\ \A d \in Call : pc[d] # "emit"
    BY <1>2, <1>3, <1>5 DEF RegisterCapture, RegisterRemote, AfterRemote
  <2> QED BY <1>1, <2>1 DEF EmitInv
<1>6. CASE FindCapture(c)
  <2>1. \A d \in Call : pc[d] # "emit"
    BY <1>3, <1>6 DEF FindCapture, RemoteFree
  <2>2. CASE Goto(c, "find", "done")
    BY <1>1, <1>2, <2>1, <2>2 DEF EmitInv
  <2>3. CASE remotes[on[c]] # <<>> /\ remotes' = Stepped(c)
    <3>1. Len(remotes'[on[c]]) = Len(remotes[on[c]]) /\ remotes'[on[c]] \in Seq(Remote)
      BY <1>1, <2>3, SteppedRemotes
    <3>2. remotes'[on[c]] # <<>>
      BY <1>1, <2>3, <3>1
    <3> QED BY <1>1, <2>1, <3>2 DEF EmitInv
  <2> QED BY <1>6, <2>2, <2>3 DEF FindCapture, CaptureFound
<1>7. CASE ~(DropRemote(c) \/ RegisterCapture(c) \/ RegisterRemote(c) \/ FindCapture(c))
  <2>1. remotes' = remotes
    BY <1>7 DEF tables, Method, Enter, AppendSession, ServeSession, Select, RequestClipboard,
       FindCast, CopySession, GiveUp, SkipCast, StartThread, TakeNode, RegisterCast, FindRemote,
       EnsureClipboard, SpawnWorker, Recheck, InsertClipboard, Forward, Connect, Command,
       Emit, CloseSession, DropCast, DropClipboard, UnserveSession
  <2>2. pc'[c] # "emit"
    <3>1. CASE Enter(c)
      <4>1. FirstStep(op[c]) \in {"append", "select", "request", "findCast", "copy", "connect", "command", "close"}
        BY MethodMoves, Zenon DEF FirstStep, Operation, Creation, Start
      <4> QED BY <1>2, <3>1, <4>1 DEF Enter
    <3>2. CASE AppendSession(c) \/ ServeSession(c) \/ (\E p \in PersistMode \cup {None} : Select(c, p))
      <4>1. Goto(c, "append", "serve") \/ Goto(c, "serve", "register") \/ Goto(c, "serve", "done")
              \/ Goto(c, "select", "done")
        BY <3>2 DEF AppendSession, ServeSession, Select
      <4> QED BY <1>2, <4>1
    <3>3. CASE RequestClipboard(c) \/ FindCast(c) \/ CopySession(c) \/ GiveUp(c) \/ SkipCast(c) \/ StartThread(c)
      BY <1>2, <3>3 DEF RequestClipboard, FindCast, CopySession, GiveUp, SkipCast, StartThread
    <3>4. CASE TakeNode(c) \/ RegisterCast(c) \/ FindRemote(c) \/ EnsureClipboard(c) \/ SpawnWorker(c)
      BY <1>2, <3>4 DEF TakeNode, RegisterCast, FindRemote, AfterRemote, EnsureClipboard, SpawnWorker
    <3>5. CASE Recheck(c) \/ InsertClipboard(c) \/ Forward(c) \/ Connect(c) \/ Command(c) \/ Emit(c)
      BY <1>2, <3>5 DEF Recheck, InsertClipboard, Forward, Connect, Command, Emit
    <3>6. CASE CloseSession(c) \/ DropCast(c) \/ DropClipboard(c) \/ UnserveSession(c)
      BY <1>2, <3>6 DEF CloseSession, BeginClose, DropCast, DropClipboard, UnserveSession
    <3> QED BY <1>7, <3>1, <3>2, <3>3, <3>4, <3>5, <3>6 DEF Method
  <2> QED BY <1>1, <2>1, <2>2 DEF EmitInv
<1> QED BY <1>4, <1>5, <1>6, <1>7

LEMMA NextEmits == ASSUME TypeOK, CallInv, LockInv, EmitInv, [Next]_vars PROVE EmitInv'
<1>1. ASSUME NEW c \in Call, NEW o \in Operation, NEW s \in Session, Arrive(c, o, s) PROVE EmitInv'
  BY <1>1, ArriveMoves DEF tables, EmitInv
<1>2. ASSUME NEW c \in Call, Aside(c) PROVE EmitInv'
  BY <1>2, AsideKeeps DEF tables, calls, EmitInv
<1>3. ASSUME NEW c \in Call, Method(c) PROVE EmitInv'
  BY <1>3, MethodEmits
<1>4. CASE UNCHANGED vars
  BY <1>4 DEF vars, tables, calls, EmitInv
<1> QED BY <1>1, <1>2, <1>3, <1>4 DEF Next, Aside

LEMMA InitLocks == Init => LockInv /\ EmitInv /\ ExclusionInv
BY DEF Init, LockInv, SessionsHeld, RemoteHeld, HandledNow, Open, Closing, EmitInv, ExclusionInv, Inside

\* No limit on the number of sessions or calls: the tables keep their types, and
\* every mutex is held by the call that stands where the code holds it.
THEOREM TypeCorrect == Spec => [](TypeOK /\ CallInv /\ LockInv /\ EmitInv)
<1>1. Init => TypeOK /\ CallInv /\ LockInv /\ EmitInv
  BY InitType, InitLocks
<1>2. TypeOK /\ CallInv /\ LockInv /\ EmitInv /\ [Next]_vars => (TypeOK /\ CallInv /\ LockInv /\ EmitInv)'
  BY NextType, NextPlaced, NextLocks, NextEmits
<1> QED BY <1>1, <1>2, PTL DEF Spec

-----------------------------------------------------------------------------
(* Who keeps whom out, and who came first *)

LEMMA EntersOnce ==
  ASSUME TypeOK, CallInv, NEW c \in Call, Method(c), ~Enter(c), Inside(c)'
  PROVE  Inside(c)
<1>1. pc[c] \notin {"idle", "done"} /\ pc'[c] # "done" /\ pc \in [Call -> Place]
  BY MethodMoves DEF Inside, Open, TypeOK, CallsType
<1>2. ASSUME NEW a, NEW b, Goto(c, a, b) PROVE pc[c] = a /\ pc'[c] = b
  BY <1>1, <1>2 DEF Goto
<1>3. pc[c] \notin {"called", "forward"}
  <2>1. CASE AppendSession(c) \/ ServeSession(c) \/ RegisterCapture(c) \/ RequestClipboard(c)
    BY <1>2, <2>1 DEF AppendSession, ServeSession, RegisterCapture, RequestClipboard
  <2>2. CASE \E p \in PersistMode \cup {None} : Select(c, p)
    <3>1. Goto(c, "select", "done")
      BY <2>2 DEF Select
    <3> QED BY <1>2, <3>1
  <2>3. CASE FindCast(c) \/ CopySession(c) \/ GiveUp(c) \/ SkipCast(c) \/ StartThread(c)
             \/ TakeNode(c) \/ RegisterCast(c)
    BY <1>2, <2>3 DEF FindCast, CopySession, GiveUp, SkipCast, StartThread, TakeNode, RegisterCast
  <2>4. CASE FindRemote(c) \/ RegisterRemote(c) \/ EnsureClipboard(c) \/ SpawnWorker(c)
             \/ Recheck(c) \/ InsertClipboard(c)
    BY <1>2, <2>4 DEF FindRemote, RegisterRemote, EnsureClipboard, SpawnWorker, Recheck, InsertClipboard
  <2>5. CASE Forward(c)
    BY <1>1, <1>2, <2>5 DEF Forward
  <2>6. CASE Connect(c) \/ Command(c) \/ FindCapture(c) \/ Emit(c)
    BY <1>2, <2>6 DEF Connect, Command, FindCapture, CaptureFound, Emit
  <2>7. CASE CloseSession(c) \/ DropCast(c) \/ DropRemote(c) \/ DropClipboard(c) \/ UnserveSession(c)
    BY <1>2, <2>7 DEF CloseSession, BeginClose, DropCast, DropRemote, DropClipboard, UnserveSession
  <2> QED BY <2>1, <2>2, <2>3, <2>4, <2>5, <2>6, <2>7 DEF Method
<1> QED BY <1>1, <1>3 DEF Inside, Open

LEMMA NextExcludes == ASSUME TypeOK, CallInv, ExclusionInv, [Next]_vars PROVE ExclusionInv'
<1>1. ASSUME NEW c \in Call, NEW o \in Operation, NEW s \in Session, Arrive(c, o, s) PROVE ExclusionInv'
  <2>1. \A d \in Call : Inside(d)' => d # c /\ Inside(d) /\ op'[d] = op[d]
    BY <1>1, ArriveMoves DEF Inside, Open
  <2> QED BY <2>1 DEF ExclusionInv
<1>2. ASSUME UNCHANGED <<pc, op>> PROVE ExclusionInv'
  BY <1>2 DEF ExclusionInv, Inside, Open
<1>3. ASSUME NEW c \in Call, Method(c) PROVE ExclusionInv'
  <2>1. op' = op /\ \A d \in Call : d # c => (Inside(d)' <=> Inside(d))
    BY <1>3, MethodMoves DEF Inside, Open
  <2>2. CASE Enter(c)
    <3>1. \A d \in Call : d # c /\ Inside(d) /\ InterfaceOf(op[d]) = InterfaceOf(op[c]) =>
            ~Exclusive(op[c]) /\ ~Exclusive(op[d])
      BY <2>2 DEF Enter, LockFree
    <3> QED BY <2>1, <3>1 DEF ExclusionInv
  <2>3. CASE ~Enter(c)
    <3>1. \A d \in Call : Inside(d)' => Inside(d)
      BY <1>3, <2>1, <2>3, EntersOnce
    <3> QED BY <2>1, <3>1 DEF ExclusionInv
  <2> QED BY <2>2, <2>3
<1>4. CASE UNCHANGED vars
  BY <1>2, <1>4 DEF vars, calls
<1>5. ASSUME NEW c \in Call, Aside(c) PROVE ExclusionInv'
  BY <1>2, <1>5, AsideKeeps DEF calls
<1> QED BY <1>1, <1>3, <1>4, <1>5 DEF Next, Aside

\* What a method may make of the sessions.
LEMMA SessionsChange ==
  ASSUME TypeOK, CallInv, NEW c \in Call, Method(c)
  PROVE  /\ \A s \in Session : s # on[c] => sessions'[s] = sessions[s]
         /\ ~AppendSession(c) => \A s \in Session :
              sessions'[s] # None => /\ sessions[s] # None
                                     /\ sessions'[s].type = sessions[s].type
                                     /\ sessions[s].clipboard => sessions'[s].clipboard
         /\ ~DropClipboard(c) => \A s \in Session : sessions[s] # None => sessions'[s] # None
<1>1. sessions \in [Session -> SessionData \cup {None}] /\ on[c] \in Session
  BY MethodMoves DEF TypeOK, TablesType
<1>2. CASE AppendSession(c)
  <2>1. [type |-> TypeOf(op[c]), persist |-> "DoNot", share |-> FALSE, clipboard |-> FALSE]
          \in SessionData
    BY <1>2 DEF AppendSession, Goto, CallInv, Placed, TypeOf, Creation, SessionData, SessionType, PersistMode
  <2> DEFINE r == [type |-> TypeOf(op[c]), persist |-> "DoNot", share |-> FALSE, clipboard |-> FALSE]
  <2>2. r # None
    BY <2>1
  <2>3. sessions' = [sessions EXCEPT ![on[c]] = r]
    BY <1>2 DEF AppendSession
  <2> HIDE DEF r
  <2> QED BY <1>1, <1>2, <2>2, <2>3
<1>3. CASE \E p \in PersistMode \cup {None} : Select(c, p)
  <2> PICK p \in PersistMode \cup {None} : Select(c, p)
    BY <1>3
  <2>1. sessions' = sessions \/ \E r : sessions' = [sessions EXCEPT ![on[c]] = r]
    BY DEF Select
  <2> QED BY <1>1, <2>1, SelectChanges
<1>4. CASE RequestClipboard(c)
  <2>1. sessions' = sessions \/ \E r : sessions' = [sessions EXCEPT ![on[c]] = r]
    BY <1>4 DEF RequestClipboard
  <2> QED BY <1>1, <1>4, <2>1, RequestChanges
<1>5. CASE DropClipboard(c)
  BY <1>1, <1>5 DEF DropClipboard, AppendSession, Goto
<1>6. CASE ~(AppendSession(c) \/ (\E p \in PersistMode \cup {None} : Select(c, p)) \/ RequestClipboard(c)
             \/ DropClipboard(c))
  <2>1. sessions' = sessions
    BY <1>6 DEF tables, Method, Enter, ServeSession, RegisterCapture, FindCast, CopySession, GiveUp,
       SkipCast, StartThread, TakeNode, RegisterCast, FindRemote, RegisterRemote, EnsureClipboard,
       SpawnWorker, Recheck, InsertClipboard, Forward, Connect, Command, FindCapture, Emit, CloseSession,
       DropCast, DropRemote, UnserveSession
  <2> QED BY <2>1
<1> QED BY <1>2, <1>3, <1>4, <1>5, <1>6

LEMMA MethodKeepsCalls ==
  ASSUME TypeOK, CallInv, NEW c \in Call, Method(c)
  PROVE  /\ \A s : CallsOn(s)' = CallsOn(s)
         /\ c \in CallsOn(on[c])
BY MethodMoves DEF CallsOn

LEMMA ArriveAddsCall ==
  ASSUME TypeOK, CallInv, NEW c \in Call, NEW o \in Operation, NEW s \in Session, Arrive(c, o, s)
  PROVE  /\ CallsOn(s)' = CallsOn(s) \cup {c} /\ c \notin CallsOn(s)
         /\ \A t : t # s => CallsOn(t)' = CallsOn(t)
         /\ \A t, d : d \in CallsOn(t) =>
              d \in CallsOn(t)' /\ pc'[d] = pc[d] /\ op'[d] = op[d] /\ on'[d] = on[d]
<1>1. /\ pc[c] = "idle" /\ pc'[c] = "called" /\ on'[c] = s
      /\ \A d \in Call : d # c => pc'[d] = pc[d] /\ op'[d] = op[d] /\ on'[d] = on[d]
  BY ArriveMoves
<1> QED BY <1>1 DEF CallsOn

LEMMA RegisterFrom ==
  ASSUME TypeOK, CallInv, NEW c \in Call, Method(c), pc'[c] \in {"serve", "register"},
         op[c] \in Creation
  PROVE  AppendSession(c) \/ ServeSession(c)
<1>1. pc \in [Call -> Place] /\ Placed(c)
  BY DEF TypeOK, CallsType, CallInv
<1>2. ASSUME NEW a, NEW b, Goto(c, a, b) PROVE pc[c] = a /\ pc'[c] = b
  BY <1>1, <1>2 DEF Goto
<1>3. op[c] \notin Start
  BY DEF Creation, Start
<1>4. CASE Enter(c)
  <2>1. FirstStep(op[c]) \in {"append", "select", "request", "findCast", "copy", "connect", "command", "close"}
    BY MethodMoves, Zenon DEF FirstStep, Operation, Creation, Start
  <2> QED BY <1>2, <1>4, <2>1 DEF Enter
<1>5. CASE RegisterCapture(c) \/ RequestClipboard(c) \/ (\E p \in PersistMode \cup {None} : Select(c, p))
  <2>1. Goto(c, "register", "done") \/ Goto(c, "request", "done") \/ Goto(c, "select", "done")
    BY <1>5 DEF RegisterCapture, RequestClipboard, Select
  <2> QED BY <1>2, <2>1
<1>6. CASE FindCast(c) \/ CopySession(c) \/ GiveUp(c) \/ StartThread(c) \/ RegisterCast(c)
  BY <1>2, <1>6 DEF FindCast, CopySession, GiveUp, StartThread, RegisterCast
<1>7. CASE SkipCast(c) \/ TakeNode(c)
  BY <1>1, <1>2, <1>3, <1>7 DEF SkipCast, TakeNode, Placed
<1>8. CASE FindRemote(c) \/ RegisterRemote(c) \/ EnsureClipboard(c) \/ SpawnWorker(c)
           \/ Recheck(c) \/ InsertClipboard(c) \/ Forward(c)
  BY <1>2, <1>8 DEF FindRemote, RegisterRemote, AfterRemote, EnsureClipboard, SpawnWorker, Recheck,
     InsertClipboard, Forward
<1>9. CASE Connect(c) \/ Command(c) \/ FindCapture(c) \/ Emit(c)
  BY <1>2, <1>9 DEF Connect, Command, FindCapture, CaptureFound, Emit
<1>10. CASE CloseSession(c) \/ DropCast(c) \/ DropRemote(c) \/ DropClipboard(c) \/ UnserveSession(c)
  BY <1>2, <1>10 DEF CloseSession, BeginClose, DropCast, DropRemote, DropClipboard, UnserveSession
<1> QED BY <1>4, <1>5, <1>6, <1>7, <1>8, <1>9, <1>10 DEF Method

LEMMA MethodCreates ==
  ASSUME TypeOK, CallInv, CreationInv, NEW c \in Call, Method(c)
  PROVE  CreationInv'
<1>1. /\ op' = op /\ on' = on /\ on[c] \in Session /\ c \in CallsOn(on[c])
      /\ pc[c] # "done" /\ \A d \in Call : d # c => pc'[d] = pc[d]
      /\ \A s : CallsOn(s)' = CallsOn(s)
  BY MethodMoves, MethodKeepsCalls
<1>2. \A s \in Session : \A b, d \in CallsOn(s) :
        op[b] \in Creation /\ b # d => op[d] \notin Creation /\ pc'[b] = "done"
  <2> TAKE s \in Session
  <2> TAKE b, d \in CallsOn(s)
  <2> HAVE op[b] \in Creation /\ b # d
  <2>1. op[d] \notin Creation /\ pc[b] = "done"
    BY DEF CreationInv
  <2>2. b \in Call /\ b # c
    BY <1>1, <2>1 DEF CallsOn
  <2> QED BY <1>1, <2>1, <2>2
<1>3. \A s \in Session : sessions'[s] # None =>
        \E d \in Call : CreatorOf(d, s) /\ sessions'[s].type = TypeOf(op[d])
  <2>1. CASE AppendSession(c)
    <3>1. sessions'[on[c]].type = TypeOf(op[c]) /\ CreatorOf(c, on[c])
      BY <1>1, <2>1 DEF AppendSession, Goto, CallInv, Placed, CreatorOf, TypeOK, TablesType
    <3> QED BY <3>1, SessionsChange DEF CreationInv
  <2>2. CASE ~AppendSession(c)
    BY <2>2, SessionsChange DEF CreationInv
  <2> QED BY <2>1, <2>2
<1>4. \A d \in Call : local'[d] # None =>
        \E e \in Call : CreatorOf(e, on[d]) /\ local'[d].type = TypeOf(op[e])
  <2>1. ASSUME local'[c] # None
        PROVE  \E e \in Call : CreatorOf(e, on[c]) /\ local'[c].type = TypeOf(op[e])
    <3>1. CASE local' = local
      BY <2>1, <3>1 DEF CreationInv
    <3>2. CASE local' # local
      <4>1. sessions[on[c]] # None /\ local'[c] = sessions[on[c]]
        BY <3>2, MethodCopies DEF CopySession, TypeOK, CallsType
      <4> QED BY <1>1, <4>1 DEF CreationInv
    <3> QED BY <3>1, <3>2
  <2> QED BY <2>1, MethodCopies DEF CreationInv
<1>5. \A d \in Call : op[d] \in Creation /\ pc'[d] \in {"serve", "register"} => sessions'[on[d]] # None
  <2>1. ASSUME op[c] \in Creation, pc'[c] \in {"serve", "register"} PROVE sessions'[on[c]] # None
    <3>1. CASE AppendSession(c)
      <4>1. [type |-> TypeOf(op[c]), persist |-> "DoNot", share |-> FALSE, clipboard |-> FALSE] # None
        BY <2>1, NewSession
      <4> QED BY <1>1, <3>1, <4>1 DEF AppendSession, TypeOK, TablesType
    <3>2. CASE ServeSession(c)
      <4>1. sessions' = sessions /\ pc[c] = "serve"
        BY <3>2 DEF ServeSession, Goto
      <4> QED BY <2>1, <4>1 DEF CreationInv
    <3> QED BY <2>1, <3>1, <3>2, RegisterFrom
  <2>2. ASSUME NEW d \in Call, d # c, op[d] \in Creation, pc[d] \in {"serve", "register"}
        PROVE  sessions'[on[d]] # None
    <3>1. on[d] \in Session /\ d \in CallsOn(on[d]) /\ sessions[on[d]] # None
      BY <2>2 DEF CreationInv, CallInv, Placed, CallsOn
    <3>2. on[c] # on[d]
      BY <1>1, <2>2, <3>1 DEF CreationInv
    <3> QED BY <3>1, <3>2, SessionsChange
  <2> QED BY <1>1, <2>1, <2>2
<1> QED BY <1>1, <1>2, <1>3, <1>4, <1>5 DEF CreationInv, CreatorOf

LEMMA NextCreates == ASSUME TypeOK, CallInv, CreationInv, [Next]_vars PROVE CreationInv'
<1>1. ASSUME NEW c \in Call, NEW o \in Operation, NEW s \in Session, Arrive(c, o, s) PROVE CreationInv'
  <2>1. /\ CallsOn(s)' = CallsOn(s) \cup {c} /\ c \notin CallsOn(s)
        /\ \A t : t # s => CallsOn(t)' = CallsOn(t)
        /\ \A t, d : d \in CallsOn(t) =>
             d \in CallsOn(t)' /\ pc'[d] = pc[d] /\ op'[d] = op[d] /\ on'[d] = on[d]
    BY <1>1, ArriveAddsCall
  <2>2. sessions' = sessions /\ local' = local /\ pc[c] = "idle" /\ pc'[c] = "called" /\ op'[c] = o
    BY <1>1, ArriveMoves DEF tables
  <2>3. local[c] = None
    BY <2>2 DEF CallInv, Copied
  <2>4. \/ o \in Creation /\ CallsOn(s) = {}
        \/ o \notin Creation /\ \E k \in CallsOn(s) : op[k] \in Creation /\ pc[k] = "done"
    <3>1. MayCall(o, s)
      BY <1>1 DEF Arrive
    <3>2. o \notin Creation => Known(s)
      BY <3>1 DEF MayCall
    <3>3. o \in Creation => CallsOn(s) = {}
      BY <3>1 DEF MayCall, Creation
    <3> QED BY <3>2, <3>3 DEF Known
  <2>5. \A t \in Session : \A b, d \in CallsOn(t)' :
          op'[b] \in Creation /\ b # d => op'[d] \notin Creation /\ pc'[b] = "done"
    <3>1. ASSUME NEW t \in Session, t # s, NEW b \in CallsOn(t)', NEW d \in CallsOn(t)',
                 op'[b] \in Creation /\ b # d
          PROVE  op'[d] \notin Creation /\ pc'[b] = "done"
      BY <2>1, <3>1 DEF CreationInv
    <3>2. ASSUME NEW b \in CallsOn(s) \cup {c}, NEW d \in CallsOn(s) \cup {c},
                 op'[b] \in Creation /\ b # d
          PROVE  op'[d] \notin Creation /\ pc'[b] = "done"
      <4>1. CASE b # c /\ d # c
        BY <2>1, <3>2, <4>1 DEF CreationInv
      <4>2. CASE b = c
        BY <2>2, <2>4, <3>2, <4>2
      <4>3. CASE d = c /\ b # c
        <5>1. op[b] \in Creation
          BY <2>1, <3>2, <4>3
        <5>2. o \notin Creation /\ \E k \in CallsOn(s) : op[k] \in Creation /\ pc[k] = "done"
          BY <2>4, <4>3
        <5> QED BY <2>1, <2>2, <3>2, <4>3, <5>1, <5>2 DEF CreationInv
      <4> QED BY <4>1, <4>2, <4>3
    <3> QED BY <2>1, <3>1, <3>2
  <2>6. \A t \in Session : sessions[t] # None =>
          \E d \in Call : CreatorOf(d, t)' /\ sessions[t].type = TypeOf(op'[d])
    BY <2>1 DEF CreationInv, CreatorOf
  <2>7. \A d \in Call : local[d] # None =>
          \E e \in Call : CreatorOf(e, on[d])' /\ local[d].type = TypeOf(op'[e])
    <3> TAKE d \in Call
    <3> HAVE local[d] # None
    <3>1. on'[d] = on[d]
      BY <1>1, <2>3, ArriveMoves
    <3> QED BY <2>1, <3>1 DEF CreationInv, CreatorOf
  <2>8. \A d \in Call : op'[d] \in Creation /\ pc'[d] \in {"serve", "register"} => sessions[on'[d]] # None
    BY <1>1, <2>2, ArriveMoves DEF CreationInv
  <2> QED BY <2>2, <2>5, <2>6, <2>7, <2>8 DEF CreationInv
<1>2. ASSUME UNCHANGED <<sessions, pc, op, on, local>> PROVE CreationInv'
  BY <1>2 DEF CreationInv, CreatorOf, CallsOn
<1>3. ASSUME NEW c \in Call, Method(c) PROVE CreationInv'
  BY <1>3, MethodCreates
<1>4. CASE UNCHANGED vars
  BY <1>2, <1>4 DEF vars, calls, tables
<1>5. ASSUME NEW c \in Call, Aside(c) PROVE CreationInv'
  BY <1>2, <1>5, AsideKeeps DEF calls, tables
<1> QED BY <1>1, <1>3, <1>4, <1>5 DEF Next, Aside

-----------------------------------------------------------------------------
(* The clipboard *)

\* Which step a call takes from where, and where it takes it.
Edge(c, A, B) == pc[c] \in A /\ pc'[c] \in B
LEMMA MethodEdges ==
  ASSUME TypeOK, CallInv, NEW c \in Call, Method(c)
  PROVE  \/ Enter(c) /\ pc[c] = "called" /\ pc'[c] = FirstStep(op[c])
         \/ AppendSession(c) /\ Edge(c, {"append"}, {"serve"})
         \/ ServeSession(c) /\ Edge(c, {"serve"}, {"register", "done"})
         \/ RegisterCapture(c) /\ Edge(c, {"register"}, {"done"})
         \/ (\E p \in PersistMode \cup {None} : Select(c, p)) /\ Edge(c, {"select"}, {"done"})
         \/ RequestClipboard(c) /\ Edge(c, {"request"}, {"done"})
         \/ FindCast(c) /\ Edge(c, {"findCast"}, {"copy", "done"})
         \/ CopySession(c) /\ Edge(c, {"copy"}, {"choose", "findRemote", "done"})
         \/ GiveUp(c) /\ Edge(c, {"choose"}, {"done"})
         \/ SkipCast(c) /\ Edge(c, {"choose"}, {"register"})
         \/ StartThread(c) /\ Edge(c, {"choose"}, {"awaitNode"})
         \/ TakeNode(c) /\ Edge(c, {"awaitNode"}, {"register"})
         \/ RegisterCast(c) /\ Edge(c, {"register"}, {"done"})
         \/ FindRemote(c) /\ Edge(c, {"findRemote"}, {"choose", "ensure", "done"})
         \/ RegisterRemote(c) /\ Edge(c, {"register"}, {"ensure", "done"})
         \/ EnsureClipboard(c) /\ Edge(c, {"ensure"}, {"spawn", "done"})
         \/ SpawnWorker(c) /\ Edge(c, {"spawn"}, {"recheck", "done"})
         \/ Recheck(c) /\ Edge(c, {"recheck"}, {"insert", "done"})
         \/ InsertClipboard(c) /\ Edge(c, {"insert"}, {"forward", "done"})
         \/ Forward(c) /\ Edge(c, {"forward"}, {"done"})
         \/ Connect(c) /\ Edge(c, {"connect"}, {"done"})
         \/ Command(c) /\ Edge(c, {"command"}, {"find"})
         \/ FindCapture(c) /\ Edge(c, {"find"}, {"emit", "done"})
         \/ Emit(c) /\ Edge(c, {"emit"}, {"done"})
         \/ CloseSession(c) /\ Edge(c, {"close"}, {"dropCast", "unserve", "done"})
         \/ DropCast(c) /\ Edge(c, {"dropCast"}, {"dropRemote"})
         \/ DropRemote(c) /\ Edge(c, {"dropRemote"}, {"dropClipboard"})
         \/ DropClipboard(c) /\ Edge(c, {"dropClipboard"}, {"unserve"})
         \/ UnserveSession(c) /\ Edge(c, {"unserve"}, {"done"})
<1>1. pc \in [Call -> Place]
  BY DEF TypeOK, CallsType
<1>2. ASSUME NEW a, NEW b, Goto(c, a, b) PROVE pc[c] = a /\ pc'[c] = b
  BY <1>1, <1>2 DEF Goto
<1> USE DEF Edge
<1>3. CASE Enter(c) \/ AppendSession(c) \/ ServeSession(c) \/ RegisterCapture(c) \/ RequestClipboard(c)
  BY <1>2, <1>3 DEF Enter, AppendSession, ServeSession, RegisterCapture, RequestClipboard
<1>4. CASE \E p \in PersistMode \cup {None} : Select(c, p)
  <2>1. Goto(c, "select", "done")
    BY <1>4 DEF Select
  <2> QED BY <1>2, <1>4, <2>1
<1>5. CASE FindCast(c) \/ GiveUp(c) \/ SkipCast(c) \/ StartThread(c) \/ TakeNode(c) \/ RegisterCast(c)
  BY <1>2, <1>5 DEF FindCast, GiveUp, SkipCast, StartThread, TakeNode, RegisterCast
<1>6. CASE CopySession(c)
  <2>1. Goto(c, "copy", "done") \/ Goto(c, "copy", "choose") \/ Goto(c, "copy", "findRemote")
    BY <1>6 DEF CopySession
  <2> QED BY <1>2, <1>6, <2>1
<1>7. CASE FindRemote(c) \/ RegisterRemote(c) \/ EnsureClipboard(c) \/ SpawnWorker(c)
  BY <1>2, <1>7 DEF FindRemote, RegisterRemote, AfterRemote, EnsureClipboard, SpawnWorker
<1>8. CASE Recheck(c) \/ InsertClipboard(c) \/ Forward(c)
  BY <1>2, <1>8 DEF Recheck, InsertClipboard, Forward
<1>9. CASE Connect(c) \/ Command(c) \/ FindCapture(c) \/ Emit(c)
  BY <1>2, <1>9 DEF Connect, Command, FindCapture, CaptureFound, Emit
<1>10. CASE CloseSession(c) \/ DropCast(c) \/ DropRemote(c) \/ DropClipboard(c) \/ UnserveSession(c)
  BY <1>2, <1>10 DEF CloseSession, BeginClose, DropCast, DropRemote, DropClipboard, UnserveSession
<1> QED BY <1>3, <1>4, <1>5, <1>6, <1>7, <1>8, <1>9, <1>10 DEF Method

LEMMA EnterTo ==
  ASSUME TypeOK, CallInv, NEW c \in Call, Method(c), pc'[c] = FirstStep(op[c])
  PROVE  pc'[c] \in {"append", "select", "request", "findCast", "copy", "connect", "command", "close"}
BY MethodMoves, Zenon DEF FirstStep, Operation, Creation, Start

LEMMA MethodAsks ==
  ASSUME TypeOK, CallInv, LockInv, CreationInv, AskedInv, NEW c \in Call, Method(c)
  PROVE  AskedInv'
<1>1. /\ op' = op /\ on' = on /\ heard' = heard /\ on[c] \in Session /\ c \in CallsOn(on[c])
      /\ pc[c] \notin {"idle", "done"} /\ \A d \in Call : d # c => pc'[d] = pc[d]
      /\ \A s : CallsOn(s)' = CallsOn(s)
  BY MethodMoves, MethodKeepsCalls
<1>2. AppendSession(c) => op[c] \in Creation /\ CallsOn(on[c]) = {c}
  <2> HAVE AppendSession(c)
  <2>1. pc[c] = "append" /\ op[c] \in Creation
    BY DEF AppendSession, Goto, CallInv, Placed
  <2> QED BY <1>1, <2>1 DEF CreationInv
<1>3. \A s : Asked(s) => Asked(s)'
  BY <1>1 DEF Asked, CallsOn
<1>4. \A s \in Session : Asked(s)' /\ sessions'[s] # None /\ sessions'[s].type = "Remote" =>
        sessions'[s].clipboard
  <2> TAKE s \in Session
  <2> HAVE Asked(s)' /\ sessions'[s] # None /\ sessions'[s].type = "Remote"
  <2>1. PICK d \in CallsOn(s) : op[d] = "RequestClipboard" /\ pc'[d] = "done"
    BY <1>1 DEF Asked
  <2>2. d # c => ~(AppendSession(c) /\ on[c] = s)
    BY <1>2, <2>1
  <2>3. CASE d # c
    <3>1. Asked(s)
      BY <1>1, <2>1, <2>3 DEF Asked, CallsOn
    <3> QED BY <1>1, <2>2, <2>3, <3>1, SessionsChange DEF AskedInv
  <2>4. CASE d = c
    <3>1. Placed(c) /\ op[c] = "RequestClipboard" /\ pc'[c] = "done" /\ on[c] = s
      BY <2>1, <2>4 DEF CallInv, CallsOn
    <3>2. RequestClipboard(c)
      BY <3>1, MethodEdges, EnterTo DEF Edge, Placed, Start, Creation
    <3>3. ~AppendSession(c)
      BY <1>2, <3>1 DEF Creation
    <3> QED BY <3>1, <3>2, <3>3, SessionsChange, RequestChanges
  <2> QED BY <2>3, <2>4
<1>5. \A d \in Call : local'[d] # None /\ sessions'[on[d]] # None /\ local'[d].clipboard =>
        sessions'[on[d]].clipboard
  <2> TAKE d \in Call
  <2> HAVE local'[d] # None /\ sessions'[on[d]] # None /\ local'[d].clipboard
  <2>1. CASE local'[d] = local[d]
    <3>1. d \in CallsOn(on[d]) /\ on[d] \in Session /\ op[d] \in Start
      BY <2>1 DEF CallInv, Placed, Copied, CallsOn
    <3>2. ~(AppendSession(c) /\ on[c] = on[d])
      BY <1>2, <3>1 DEF Creation, Start
    <3> QED BY <2>1, <3>1, <3>2, SessionsChange DEF AskedInv
  <2>2. CASE local'[d] # local[d]
    <3>1. d = c /\ CopySession(c)
      BY <2>2, MethodCopies
    <3>2. local'[c] = sessions[on[c]] /\ sessions' = sessions
      BY <2>2, <3>1 DEF CopySession, TypeOK, CallsType, tables
    <3> QED BY <3>1, <3>2
  <2> QED BY <2>1, <2>2
<1>6. \A d \in heard : op[d] = "RemoteStart" /\ local'[d] # None => local'[d].clipboard
  <2> TAKE d \in heard
  <2> HAVE op[d] = "RemoteStart" /\ local'[d] # None
  <2>1. CASE local'[d] = local[d]
    BY <2>1 DEF AskedInv
  <2>2. CASE local'[d] # local[d]
    <3>1. d = c /\ CopySession(c)
      BY <2>2, MethodCopies DEF TypeOK, CallsType
    <3>2. local'[c] = sessions[on[c]] /\ sessions[on[c]] # None /\ sessions[on[c]].type = StartsType(op[c])
      BY <2>2, <3>1 DEF CopySession, TypeOK, CallsType
    <3>3. Asked(on[c]) /\ StartsType(op[c]) = "Remote"
      BY <3>1 DEF AskedInv, StartsType
    <3> QED BY <1>1, <3>1, <3>2, <3>3 DEF AskedInv
  <2> QED BY <2>1, <2>2
<1>7. \A d \in heard : pc'[d] # "idle" /\ Asked(on[d])'
  BY <1>1, <1>3, MethodMoves DEF AskedInv, TypeOK, CallsType
<1> QED BY <1>1, <1>4, <1>5, <1>6, <1>7 DEF AskedInv

LEMMA NextAsks == ASSUME TypeOK, CallInv, LockInv, CreationInv, AskedInv, [Next]_vars PROVE AskedInv'
<1>1. ASSUME NEW c \in Call, NEW o \in Operation, NEW s \in Session, Arrive(c, o, s) PROVE AskedInv'
  <2>1. /\ CallsOn(s)' = CallsOn(s) \cup {c} /\ c \notin CallsOn(s)
        /\ \A t : t # s => CallsOn(t)' = CallsOn(t)
        /\ \A t, d : d \in CallsOn(t) =>
             d \in CallsOn(t)' /\ pc'[d] = pc[d] /\ op'[d] = op[d] /\ on'[d] = on[d]
    BY <1>1, ArriveAddsCall
  <2>2. sessions' = sessions /\ local' = local /\ pc[c] = "idle" /\ pc'[c] = "called" /\ on'[c] = s
        /\ \A d \in Call : d # c => pc'[d] = pc[d] /\ op'[d] = op[d] /\ on'[d] = on[d]
    BY <1>1, ArriveMoves DEF tables
  <2>3. local[c] = None
    BY <2>2 DEF CallInv, Copied
  <2>4. \A t : Asked(t)' <=> Asked(t)
    BY <2>1, <2>2 DEF Asked
  <2>5. \A d \in heard' : pc'[d] # "idle" /\ Asked(on'[d])
    <3>1. \A d \in heard : d # c /\ pc[d] # "idle" /\ Asked(on[d])
      BY <2>2 DEF AskedInv
    <3>2. c \in heard' /\ c \notin heard => Asked(s)
      <4>1. SUFFICES ASSUME c \in heard', c \notin heard PROVE Asked(s)
        OBVIOUS
      <4>2. PICK d \in CallsOn(s) : op[d] = "RequestClipboard"
        BY <1>1, <4>1 DEF Arrive
      <4>3. dispatcher = None
        BY <1>1 DEF Arrive
      <4>4. ~Open(d)
        BY <4>2, <4>3 DEF LockInv, HandledNow, CallsOn
      <4> QED BY <4>2, <4>4 DEF Open, Asked, CallsOn
    <3>3. heard' \subseteq heard \cup {c} /\ heard \subseteq Call
      BY <1>1 DEF Arrive, TypeOK, CallsType
    <3> QED BY <2>2, <3>1, <3>2, <3>3
  <2>6. \A d \in heard' : op'[d] = "RemoteStart" /\ local[d] # None => local[d].clipboard
    <3>1. heard' \subseteq heard \cup {c} /\ heard \subseteq Call
      BY <1>1 DEF Arrive, TypeOK, CallsType
    <3> QED BY <2>2, <2>3, <3>1 DEF AskedInv
  <2>7. \A d \in Call : local[d] # None => on'[d] = on[d]
    BY <2>2, <2>3
  <2>8. \A d \in heard' : Asked(on[d])'
    <3> TAKE d \in heard'
    <3>1. PICK e \in CallsOn(on'[d]) : op[e] = "RequestClipboard" /\ pc[e] = "done"
      BY <2>5 DEF Asked
    <3>2. e \in Call /\ e # c /\ on[e] = on'[d]
      BY <2>2, <3>1 DEF CallsOn
    <3>3. e \in CallsOn(on[d])' /\ op'[e] = "RequestClipboard" /\ pc'[e] = "done"
      BY <2>2, <3>1, <3>2 DEF CallsOn
    <3> QED BY <3>3 DEF Asked
  <2> QED BY <2>2, <2>4, <2>5, <2>6, <2>7, <2>8 DEF AskedInv
<1>2. ASSUME UNCHANGED <<sessions, pc, op, on, local, heard>> PROVE AskedInv'
  BY <1>2 DEF AskedInv, Asked, CallsOn
<1>3. ASSUME NEW c \in Call, Method(c) PROVE AskedInv'
  BY <1>3, MethodAsks
<1>4. CASE UNCHANGED vars
  BY <1>2, <1>4 DEF vars, calls, tables
<1>5. ASSUME NEW c \in Call, Aside(c) PROVE AskedInv'
  BY <1>2, <1>5, AsideKeeps DEF calls, tables
<1> QED BY <1>1, <1>3, <1>4, <1>5 DEF Next, Aside

LEMMA MethodClipboards ==
  ASSUME TypeOK, CallInv, LockInv, CreationInv, AskedInv, ClipboardInv, NEW c \in Call, Method(c)
  PROVE  ClipboardInv'
<1>1. /\ op' = op /\ on' = on /\ on[c] \in Session /\ c \in CallsOn(on[c])
      /\ pc[c] \notin {"idle", "done"} /\ \A d \in Call : d # c => pc'[d] = pc[d]
      /\ \A s : CallsOn(s)' = CallsOn(s)
  BY MethodMoves, MethodKeepsCalls
<1>2. AppendSession(c) => op[c] \in Creation /\ CallsOn(on[c]) = {c}
  <2> HAVE AppendSession(c)
  <2>1. pc[c] = "append" /\ op[c] \in Creation
    BY DEF AppendSession, Goto, CallInv, Placed
  <2> QED BY <1>1, <2>1 DEF CreationInv
<1>3. \A d \in Call : pc'[d] = "insert" => sessions'[on[d]] # None
  <2>1. ASSUME pc'[c] = "insert" PROVE sessions'[on[c]] # None
    <3>1. Recheck(c) /\ pc[c] = "recheck"
      BY <2>1, MethodEdges, EnterTo DEF Edge
    <3>2. sessions[on[c]] # None /\ sessions' = sessions
      BY <2>1, <3>1 DEF Recheck, Goto, tables, TypeOK, CallsType
    <3> QED BY <3>2
  <2>2. ASSUME NEW d \in Call, d # c, pc[d] = "insert" PROVE sessions'[on[d]] # None
    <3>1. sessionsLock = d /\ on[d] \in Session
      BY <2>2 DEF LockInv, SessionsHeld, CallInv, Placed
    <3>2. ~DropClipboard(c)
      BY <2>2, <3>1 DEF DropClipboard, Goto, LockInv, SessionsHeld, Closing
    <3> QED BY <2>2, <3>1, <3>2, SessionsChange DEF ClipboardInv
  <2> QED BY <1>1, <2>1, <2>2
<1>4. ASSUME NEW s \in Session, clipboards'[s] = clipboards[s], clipboards[s] # None,
             ~(DropClipboard(c) /\ on[c] = s)
      PROVE  /\ sessions'[s] # None /\ sessions'[s].type = "Remote" /\ sessions'[s].clipboard
             /\ clipboards[s] \in CallsOn(s) /\ op[clipboards[s]] = "RemoteStart"
             /\ pc'[clipboards[s]] \in {"forward", "done"}
  <2> DEFINE w == clipboards[s]
  <2>1. /\ sessions[s] # None /\ sessions[s].type = "Remote" /\ sessions[s].clipboard
        /\ w \in CallsOn(s) /\ w \in Call /\ op[w] = "RemoteStart" /\ pc[w] \in {"forward", "done"}
    BY <1>4 DEF ClipboardInv, CallsOn
  <2> HIDE DEF w
  <2>2. pc'[w] \in {"forward", "done"}
    <3>1. CASE w = c
      BY <1>1, <2>1, <3>1, MethodEdges DEF Edge
    <3>2. CASE w # c
      BY <1>1, <2>1, <3>2
    <3> QED BY <3>1, <3>2
  <2>3. ~(AppendSession(c) /\ on[c] = s)
    BY <1>2, <2>1 DEF Creation
  <2>4. sessions'[s] # None /\ sessions'[s].type = "Remote" /\ sessions'[s].clipboard
    BY <1>4, <2>1, <2>3, SessionsChange
  <2> QED BY <2>1, <2>2, <2>4 DEF w
<1>5. CASE InsertClipboard(c)
  <2>1. /\ pc[c] = "insert" /\ op[c] = "RemoteStart" /\ local[c] # None /\ local[c].clipboard
        /\ local[c].type = "Remote" /\ sessions[on[c]] # None /\ sessions' = sessions
    BY <1>5 DEF InsertClipboard, Goto, CallInv, Placed, Copied, StartsType, ClipboardInv
  <2>2. sessions[on[c]].type = "Remote"
    <3>1. PICK d \in Call : CreatorOf(d, on[c]) /\ sessions[on[c]].type = TypeOf(op[d])
      BY <1>1, <2>1 DEF CreationInv
    <3>2. PICK e \in Call : CreatorOf(e, on[c]) /\ local[c].type = TypeOf(op[e])
      BY <2>1 DEF CreationInv
    <3>3. d = e
      BY <1>1, <3>1, <3>2 DEF CreationInv, CreatorOf
    <3> QED BY <2>1, <3>1, <3>2, <3>3
  <2>3. sessions[on[c]].clipboard
    BY <2>1 DEF AskedInv
  <2>4. CASE clipboards' = clipboards
    <3>1. ~DropClipboard(c)
      BY <2>1 DEF DropClipboard, Goto
    <3> QED BY <1>1, <1>3, <1>4, <2>4, <3>1 DEF ClipboardInv
  <2>5. CASE Goto(c, "insert", "forward") /\ clipboards' = [clipboards EXCEPT ![on[c]] = c]
    <3>1. /\ clipboards'[on[c]] = c /\ pc'[c] = "forward"
          /\ \A s \in Session : s # on[c] => clipboards'[s] = clipboards[s]
      BY <1>1, <2>5 DEF Goto, TypeOK, TablesType, CallsType
    <3>2. ~DropClipboard(c)
      BY <2>1 DEF DropClipboard, Goto
    <3>3. ASSUME NEW s \in Session, clipboards'[s] # None
          PROVE  /\ sessions'[s] # None /\ sessions'[s].type = "Remote" /\ sessions'[s].clipboard
                 /\ clipboards'[s] \in CallsOn(s) /\ op[clipboards'[s]] = "RemoteStart"
                 /\ pc'[clipboards'[s]] \in {"forward", "done"}
      <4>1. CASE s = on[c]
        BY <1>1, <2>1, <2>2, <2>3, <3>1, <4>1
      <4>2. CASE s # on[c]
        BY <1>4, <3>1, <3>2, <3>3, <4>2
      <4> QED BY <4>1, <4>2
    <3> QED BY <1>1, <1>3, <3>3 DEF ClipboardInv
  <2> QED BY <1>5, <2>4, <2>5 DEF InsertClipboard
<1>6. CASE DropClipboard(c)
  <2>1. clipboards'[on[c]] = None /\ \A s \in Session : s # on[c] => clipboards'[s] = clipboards[s]
    BY <1>1, <1>6 DEF DropClipboard, TypeOK, TablesType
  <2>2. ASSUME NEW s \in Session, clipboards'[s] # None
        PROVE  /\ sessions'[s] # None /\ sessions'[s].type = "Remote" /\ sessions'[s].clipboard
               /\ clipboards'[s] \in CallsOn(s) /\ op[clipboards'[s]] = "RemoteStart"
               /\ pc'[clipboards'[s]] \in {"forward", "done"}
    BY <1>4, <2>1, <2>2
  <2> QED BY <1>1, <1>3, <2>2 DEF ClipboardInv
<1>7. CASE ~InsertClipboard(c) /\ ~DropClipboard(c)
  <2>1. clipboards' = clipboards
    BY <1>7 DEF tables, Method, Enter, AppendSession, ServeSession, RegisterCapture, Select, RequestClipboard,
       FindCast, CopySession, GiveUp, SkipCast, StartThread, TakeNode, RegisterCast, FindRemote,
       RegisterRemote, EnsureClipboard, SpawnWorker, Recheck, Forward, Connect, Command, FindCapture, Emit,
       CloseSession, DropCast, DropRemote, UnserveSession
  <2> QED BY <1>1, <1>3, <1>4, <1>7, <2>1 DEF ClipboardInv
<1> QED BY <1>5, <1>6, <1>7

LEMMA NextClipboards ==
  ASSUME TypeOK, CallInv, LockInv, CreationInv, AskedInv, ClipboardInv, [Next]_vars
  PROVE  ClipboardInv'
<1>1. ASSUME NEW c \in Call, NEW o \in Operation, NEW s \in Session, Arrive(c, o, s) PROVE ClipboardInv'
  <2>1. UNCHANGED <<sessions, clipboards>>
    BY <1>1, ArriveMoves DEF tables
  <2>2. \A t, d : d \in CallsOn(t) =>
          d \in CallsOn(t)' /\ pc'[d] = pc[d] /\ op'[d] = op[d]
    BY <1>1, ArriveAddsCall
  <2>3. \A d \in Call : pc'[d] = "insert" => pc[d] = "insert" /\ on'[d] = on[d]
    BY <1>1, ArriveMoves
  <2> QED BY <2>1, <2>2, <2>3 DEF ClipboardInv
<1>2. ASSUME UNCHANGED <<sessions, clipboards, pc, op, on>> PROVE ClipboardInv'
  BY <1>2 DEF ClipboardInv, CallsOn
<1>3. ASSUME NEW c \in Call, Method(c) PROVE ClipboardInv'
  BY <1>3, MethodClipboards
<1>4. CASE UNCHANGED vars
  BY <1>2, <1>4 DEF vars, calls, tables
<1>5. ASSUME NEW c \in Call, Aside(c) PROVE ClipboardInv'
  BY <1>2, <1>5, AsideKeeps DEF calls, tables
<1> QED BY <1>1, <1>3, <1>4, <1>5 DEF Next, Aside

LEMMA InitClipboards == Init => CreationInv /\ AskedInv /\ ClipboardInv
BY DEF Init, CreationInv, AskedInv, ClipboardInv, CallsOn, Asked

\* Whatever Close, the worker's way up and the order of the calls do: a worker
\* is registered only for a session that is there and asked for the clipboard,
\* and a Start that arrives after RequestClipboard knows of it.
THEOREM ClipboardIsKept == Spec => []ClipboardFollowsSession
<1> DEFINE I == /\ TypeOK /\ CallInv /\ LockInv /\ EmitInv
                /\ CreationInv /\ AskedInv /\ ClipboardInv
<1>1. Init => I
  BY InitType, InitLocks, InitClipboards
<1>2. I /\ [Next]_vars => I'
  BY NextType, NextPlaced, NextLocks, NextEmits, NextCreates, NextAsks, NextClipboards
<1>3. I => ClipboardFollowsSession
  BY DEF ClipboardInv, AskedInv, ClipboardFollowsSession
<1> QED BY <1>1, <1>2, <1>3, PTL DEF Spec

-----------------------------------------------------------------------------
(* Workers and threads *)

\* A worker is registered for the session of its own call only.
LEMMA WorkersApart ==
  ASSUME ClipboardInv
  PROVE  \A s \in Session : clipboards[s] # None =>
           on[clipboards[s]] = s /\ pc[clipboards[s]] \in {"forward", "done"}
BY DEF ClipboardInv, CallsOn

LEMMA NextWorkers ==
  ASSUME TypeOK, CallInv, LockInv, ClipboardInv, WorkerInv, [Next]_vars
  PROVE  WorkerInv'
<1> DEFINE Held == WorkersOfTable
           Coming == WorkersOfStart
<1>1. /\ workers \subseteq stopped \cup Held \cup Coming
      /\ stopped \cap (Held \cup Coming) = {}
      /\ forwarding \subseteq stopped \cup Held
      /\ \A d \in stopped : Up(d)
  BY DEF WorkerInv
<1>2. ASSUME UNCHANGED <<clipboards, stopped>>, workers' \subseteq workers, forwarding' \subseteq forwarding,
             Coming' = Coming, \A d \in stopped : Up(d)'
      PROVE  WorkerInv'
  <2>1. Held' = Held
    BY <1>2 DEF WorkersOfTable
  <2> HIDE DEF Held, Coming
  <2> QED BY <1>1, <1>2, <2>1 DEF WorkerInv, Held, Coming
<1>3. ASSUME NEW c \in Call, NEW o \in Operation, NEW s \in Session, Arrive(c, o, s) PROVE WorkerInv'
  <2>1. UNCHANGED <<clipboards, workers, stopped, forwarding>>
    BY <1>3, ArriveMoves DEF tables, running
  <2>2. \A d \in Call : pc[d] \notin {"idle", "called"} \/ pc'[d] \notin {"idle", "called"} => pc'[d] = pc[d]
    BY <1>3, ArriveMoves
  <2>3. Coming' = Coming
    BY <2>2 DEF WorkersOfStart
  <2>4. \A d \in stopped : Up(d)'
    BY <1>1, <2>2 DEF Up, TypeOK, RunningType
  <2> QED BY <1>2, <2>1, <2>3, <2>4
<1>4. ASSUME NEW c \in Call, Aside(c) PROVE WorkerInv'
  <2>1. /\ UNCHANGED <<clipboards, stopped, pc>>
        /\ workers' \subseteq workers /\ forwarding' \subseteq forwarding
    BY <1>4, AsideKeeps DEF tables, calls
  <2>2. Coming' = Coming /\ \A d : Up(d)' <=> Up(d)
    BY <2>1 DEF WorkersOfStart, Up
  <2> QED BY <1>1, <1>2, <2>1, <2>2
<1>5. CASE UNCHANGED vars
  <2>1. UNCHANGED <<clipboards, stopped, pc, workers, forwarding>>
    BY <1>5 DEF vars, tables, calls, running
  <2>2. Coming' = Coming /\ \A d : Up(d)' <=> Up(d)
    BY <2>1 DEF WorkersOfStart, Up
  <2> QED BY <1>1, <1>2, <2>1, <2>2
<1>6. ASSUME NEW c \in Call, Method(c) PROVE WorkerInv'
  <2>1. /\ on[c] \in Session /\ on' = on /\ \A d \in Call : d # c => pc'[d] = pc[d]
        /\ clipboards \in [Session -> Call \cup {None}] /\ None \notin Call
        /\ stopped \subseteq Call /\ workers \subseteq Call /\ forwarding \subseteq Call
    BY <1>6, MethodMoves DEF TypeOK, TablesType, RunningType
  <2>2. \A d \in stopped : d # c => Up(d)'
    BY <1>1, <2>1 DEF Up
  <2>3. ASSUME Up(c) PROVE Up(c)'
    BY <1>6, <2>3, MethodEdges DEF Edge, Up
  <2>4. \A d \in stopped : Up(d)'
    BY <1>1, <2>2, <2>3
  <2>5. /\ RegisteredFor(on[c]) \subseteq Held /\ RegisteredFor(on[c]) \cap Coming = {}
        /\ \A d \in RegisteredFor(on[c]) : d \in Call /\ pc[d] \in {"forward", "done"}
    <3>1. \A d \in RegisteredFor(on[c]) : d \in Call /\ d \in Held /\ pc[d] \in {"forward", "done"}
      BY <2>1, WorkersApart DEF RegisteredFor, WorkersOfTable
    <3> QED BY <3>1 DEF WorkersOfStart
  <2>6. CASE SpawnWorker(c)
    <3>1. UNCHANGED <<clipboards, forwarding>> /\ pc[c] = "spawn"
      BY <2>6 DEF SpawnWorker, Goto, tables
    <3>2. c \notin stopped /\ c \notin Held /\ c \notin Coming
      BY <1>1, <2>1, <3>1, WorkersApart DEF WorkersOfTable, WorkersOfStart, Up
    <3>3. Held' = Held
      BY <3>1 DEF WorkersOfTable
    <3>4. CASE Goto(c, "spawn", "recheck") /\ workers' = workers \cup {c} /\ stopped' = stopped
      <4>1. pc'[c] = "recheck"
        BY <3>4 DEF Goto, TypeOK, CallsType
      <4>2. Coming' = Coming \cup {c}
        BY <2>1, <4>1 DEF WorkersOfStart
      <4> HIDE DEF Held, Coming
      <4> QED BY <1>1, <2>4, <3>1, <3>2, <3>3, <3>4, <4>2 DEF WorkerInv, Held, Coming
    <3>5. CASE Goto(c, "spawn", "done")
      <4>1. pc'[c] = "done"
        BY <3>5 DEF Goto, TypeOK, CallsType
      <4>2. Coming' = Coming /\ Up(c)'
        BY <2>1, <3>1, <4>1 DEF WorkersOfStart, Up
      <4>3. \/ workers' = workers /\ stopped' = stopped
            \/ workers' = workers \cup {c} /\ stopped' = stopped \cup {c}
        BY <2>6, <3>1, <4>1 DEF SpawnWorker, Goto, Drop, TypeOK, CallsType
      <4> HIDE DEF Held, Coming
      <4> QED BY <1>1, <2>4, <3>1, <3>2, <3>3, <4>2, <4>3 DEF WorkerInv, Held, Coming
    <3> QED BY <2>6, <3>4, <3>5 DEF SpawnWorker
  <2>7. CASE Recheck(c)
    <3>1. UNCHANGED <<clipboards, forwarding, workers>> /\ pc[c] = "recheck"
      BY <2>7 DEF Recheck, Goto, tables
    <3>2. Held' = Held
      BY <3>1 DEF WorkersOfTable
    <3>3. \/ pc'[c] = "insert" /\ stopped' = stopped
          \/ pc'[c] = "done" /\ stopped' = stopped \cup {c}
      BY <2>7 DEF Recheck, Goto, Drop, TypeOK, CallsType
    <3>4. c \notin Held
      BY <3>1, WorkersApart DEF WorkersOfTable
    <3>5. CASE pc'[c] = "insert"
      <4>1. Coming' = Coming
        BY <2>1, <3>1, <3>5 DEF WorkersOfStart
      <4> QED BY <1>2, <2>4, <3>1, <3>3, <3>5, <4>1
    <3>6. CASE pc'[c] # "insert"
      <4>1. Coming' = Coming \ {c} /\ Up(c)'
        BY <2>1, <3>1, <3>3, <3>6 DEF WorkersOfStart, Up
      <4> HIDE DEF Held, Coming
      <4> QED BY <1>1, <2>4, <3>1, <3>2, <3>3, <3>4, <3>6, <4>1 DEF WorkerInv, Held, Coming
    <3> QED BY <3>5, <3>6
  <2>8. CASE InsertClipboard(c)
    <3>1. UNCHANGED <<workers, forwarding>> /\ pc[c] = "insert" /\ c \notin Held /\ c \in Coming
      BY <2>8, WorkersApart DEF InsertClipboard, Goto, WorkersOfTable, WorkersOfStart
    <3>2. CASE Goto(c, "insert", "done") /\ c \notin workers /\ Drop({c}) /\ clipboards' = clipboards
      <4>1. pc'[c] = "done"
        BY <3>2 DEF Goto, TypeOK, CallsType
      <4>2. Coming' = Coming \ {c} /\ Up(c)' /\ Held' = Held
        BY <2>1, <3>1, <3>2, <4>1 DEF WorkersOfStart, WorkersOfTable, Up
      <4>3. stopped' = stopped \cup {c}
        BY <3>2 DEF Drop
      <4> HIDE DEF Held, Coming
      <4> QED BY <1>1, <2>4, <3>1, <4>2, <4>3 DEF WorkerInv, Held, Coming
    <3>3. CASE /\ Goto(c, "insert", "forward") /\ clipboards' = [clipboards EXCEPT ![on[c]] = c]
               /\ Drop(RegisteredFor(on[c]))
      <4> DEFINE R == RegisteredFor(on[c])
      <4>1. pc'[c] = "forward"
        BY <3>3 DEF Goto, TypeOK, CallsType
      <4>2. Coming' = Coming \ {c}
        BY <2>1, <4>1 DEF WorkersOfStart
      <4>3. clipboards'[on[c]] = c /\ \A s \in Session : s # on[c] => clipboards'[s] = clipboards[s]
        BY <2>1, <3>3
      <4>4. \A s \in Session : clipboards[s] # None /\ s # on[c] => clipboards[s] # clipboards[on[c]]
        BY <2>1, WorkersApart
      <4>5. Held' = (Held \ R) \cup {c}
        BY <2>1, <4>3, <4>4 DEF RegisteredFor, WorkersOfTable
      <4>6. stopped' = stopped \cup R
        BY <3>3 DEF Drop
      <4>7. \A d \in R : Up(d)'
        BY <2>1, <2>3, <2>5 DEF Up
      <4> HIDE DEF Held, Coming, R
      <4>8. R \cap Coming = {} /\ R \subseteq Held
        BY <2>5 DEF Held, Coming, R
      <4> QED BY <1>1, <2>4, <3>1, <4>2, <4>5, <4>6, <4>7, <4>8 DEF WorkerInv, Held, Coming
    <3> QED BY <2>8, <3>2, <3>3 DEF InsertClipboard
  <2>9. CASE Forward(c)
    <3>1. UNCHANGED <<clipboards, workers, stopped>>
      BY <2>9 DEF Forward, tables
    <3>2. pc[c] = "forward" /\ pc'[c] = "done"
      BY <2>9 DEF Forward, Goto, TypeOK, CallsType
    <3>3. Coming' = Coming /\ Held' = Held
      BY <2>1, <3>1, <3>2 DEF WorkersOfStart, WorkersOfTable
    <3>4. forwarding' = forwarding \cup ({clipboards[on[c]]} \cap workers)
      BY <2>9 DEF Forward
    <3>5. {clipboards[on[c]]} \cap workers \subseteq Held
      BY <2>1 DEF WorkersOfTable
    <3> HIDE DEF Held, Coming
    <3> QED BY <1>1, <2>4, <3>1, <3>3, <3>4, <3>5 DEF WorkerInv, Held, Coming
  <2>10. CASE DropClipboard(c)
    <3> DEFINE R == RegisteredFor(on[c])
    <3>1. pc[c] = "dropClipboard" /\ pc'[c] = "unserve" /\ UNCHANGED <<workers, forwarding>>
      BY <2>10 DEF DropClipboard, Goto, TypeOK, CallsType
    <3>2. Coming' = Coming
      BY <2>1, <3>1 DEF WorkersOfStart
    <3>3. clipboards'[on[c]] = None /\ \A s \in Session : s # on[c] => clipboards'[s] = clipboards[s]
      BY <2>1, <2>10 DEF DropClipboard
    <3>4. \A s \in Session : clipboards[s] # None /\ s # on[c] => clipboards[s] # clipboards[on[c]]
      BY <2>1, WorkersApart
    <3>5. Held' = Held \ R
      BY <2>1, <3>3, <3>4 DEF RegisteredFor, WorkersOfTable
    <3>6. stopped' = stopped \cup R
      BY <2>10 DEF DropClipboard, Drop
    <3>7. \A d \in R : Up(d)'
      BY <2>1, <2>3, <2>5 DEF Up
    <3> HIDE DEF Held, Coming, R
    <3>8. R \cap Coming = {} /\ R \subseteq Held
      BY <2>5 DEF Held, Coming, R
    <3> QED BY <1>1, <2>4, <3>1, <3>2, <3>5, <3>6, <3>7, <3>8 DEF WorkerInv, Held, Coming
  <2>11. CASE ~(SpawnWorker(c) \/ Recheck(c) \/ InsertClipboard(c) \/ Forward(c) \/ DropClipboard(c))
    <3>1. UNCHANGED <<clipboards, workers, stopped, forwarding>>
      BY <1>6, <2>11 DEF tables, running, Method, Enter, AppendSession, ServeSession, RegisterCapture, Select,
         RequestClipboard, FindCast, CopySession, GiveUp, SkipCast, StartThread, TakeNode, RegisterCast,
         FindRemote, RegisterRemote, EnsureClipboard, Connect, Command, FindCapture, Emit, CloseSession, DropCast,
         DropRemote, UnserveSession
    <3>2. pc[c] \notin {"recheck", "insert"} /\ pc'[c] \notin {"recheck", "insert"}
      BY <1>6, <2>11, MethodEdges, EnterTo DEF Edge
    <3>3. Coming' = Coming
      BY <2>1, <3>2 DEF WorkersOfStart
    <3> QED BY <1>2, <2>4, <3>1, <3>3
  <2> QED BY <2>6, <2>7, <2>8, <2>9, <2>10, <2>11
<1> QED BY <1>3, <1>4, <1>5, <1>6 DEF Next, Aside

-----------------------------------------------------------------------------
(* Cast threads and remote controls *)

Owners(q) == {q[i].by : i \in DOMAIN q}

LEMMA RegisteredOwners == ASSUME NEW s PROVE Registered(s) = ToSet(casts[s]) \cup Owners(remotes[s])
BY DEF Registered, Owners

LEMMA AppendedOwners ==
  ASSUME NEW q \in Seq(Remote), NEW c \in Call, NEW r, r = [by |-> c, activation |-> 0]
  PROVE  Owners(Append(q, r)) = Owners(q) \cup {c}
<1>1. r.by = c /\ r \in Remote
  BY DEF Remote
<1> HIDE DEF Remote
<1> DEFINE n == Append(q, r)
<1>2. /\ DOMAIN n = 1..(Len(q) + 1) /\ DOMAIN q = 1..Len(q) /\ Len(q) \in Nat
      /\ n[Len(q) + 1] = r /\ \A i \in DOMAIN q : n[i] = q[i]
  BY <1>1
<1>3. \A i \in DOMAIN n : i \in DOMAIN q \/ i = Len(q) + 1
  BY <1>2
<1>4. \A i \in DOMAIN q : i \in DOMAIN n
  BY <1>2
<1>5. Len(q) + 1 \in DOMAIN n
  BY <1>2
<1> HIDE DEF n
<1>6. Owners(n) = Owners(q) \cup {c}
  BY <1>1, <1>2, <1>3, <1>4, <1>5 DEF Owners
<1> QED BY <1>6 DEF n

LEMMA RemovedOwners ==
  ASSUME NEW q \in Seq(Remote)
  PROVE  /\ Owners(RemoveFirstOf(q)) \subseteq Owners(q)
         /\ q # <<>> => Owners(q) \subseteq Owners(RemoveFirstOf(q)) \cup {Head(q).by}
         /\ q = <<>> => Owners(RemoveFirstOf(q)) = Owners(q)
<1>1. CASE q = <<>>
  BY <1>1 DEF RemoveFirstOf
<1>2. CASE q # <<>>
  <2> DEFINE n == Tail(q)
  <2>1. /\ DOMAIN q = 1..Len(q) /\ DOMAIN n = 1..(Len(q) - 1) /\ Len(q) \in Nat \ {0}
        /\ \A i \in DOMAIN n : n[i] = q[i + 1]
        /\ Head(q) = q[1]
    BY <1>2
  <2>2. \A i \in DOMAIN n : i + 1 \in DOMAIN q
    BY <2>1
  <2>3. \A i \in DOMAIN q : i = 1 \/ (i - 1 \in DOMAIN n /\ n[i - 1] = q[i])
    BY <2>1
  <2>4. RemoveFirstOf(q) = n
    BY <1>2 DEF RemoveFirstOf
  <2> HIDE DEF n
  <2>5. Owners(n) \subseteq Owners(q)
    BY <2>1, <2>2 DEF Owners
  <2>6. Owners(q) \subseteq Owners(n) \cup {Head(q).by}
    BY <2>1, <2>3 DEF Owners
  <2> QED BY <1>2, <2>4, <2>5, <2>6
<1> QED BY <1>1, <1>2

\* What a method may make of the remote controls.
LEMMA OwnersChange ==
  ASSUME TypeOK, CallInv, NEW c \in Call, Method(c)
  PROVE  /\ \A s \in Session : s # on[c] => remotes'[s] = remotes[s]
         /\ RegisterCapture(c) \/ RegisterRemote(c) =>
              Owners(remotes'[on[c]]) = Owners(remotes[on[c]]) \cup {c}
         /\ DropRemote(c) =>
              /\ Owners(remotes'[on[c]]) \subseteq Owners(remotes[on[c]])
              /\ remotes[on[c]] # <<>> =>
                   Owners(remotes[on[c]]) \subseteq Owners(remotes'[on[c]]) \cup {Head(remotes[on[c]]).by}
              /\ remotes[on[c]] = <<>> => Owners(remotes'[on[c]]) = Owners(remotes[on[c]])
         /\ ~(RegisterCapture(c) \/ RegisterRemote(c) \/ DropRemote(c)) =>
              \A s \in Session : Owners(remotes'[s]) = Owners(remotes[s])
<1>1. remotes \in [Session -> Seq(Remote)] /\ on[c] \in Session
  BY MethodMoves DEF TypeOK, TablesType
<1>2. CASE RegisterCapture(c) \/ RegisterRemote(c)
  <2> DEFINE r == [by |-> c, activation |-> 0]
  <2>1. remotes' = [remotes EXCEPT ![on[c]] = Append(remotes[on[c]], r)]
    BY <1>2 DEF RegisterCapture, RegisterRemote, AppendRemote
  <2>2. Owners(Append(remotes[on[c]], r)) = Owners(remotes[on[c]]) \cup {c}
    BY <1>1, AppendedOwners
  <2> HIDE DEF r
  <2>3. ~DropRemote(c)
    BY <1>2 DEF RegisterCapture, RegisterRemote, DropRemote, Goto
  <2> QED BY <1>1, <1>2, <2>1, <2>2, <2>3
<1>3. CASE DropRemote(c)
  <2>1. remotes' = [remotes EXCEPT ![on[c]] = RemoveFirstOf(remotes[on[c]])]
    BY <1>3 DEF DropRemote
  <2>2. remotes'[on[c]] = RemoveFirstOf(remotes[on[c]]) /\ \A s \in Session : s # on[c] => remotes'[s] = remotes[s]
    BY <1>1, <2>1
  <2>3. ~(RegisterCapture(c) \/ RegisterRemote(c))
    BY <1>3 DEF RegisterCapture, RegisterRemote, DropRemote, Goto
  <2>4. remotes[on[c]] \in Seq(Remote)
    BY <1>1
  <2> QED BY <1>3, <2>2, <2>3, <2>4, RemovedOwners
<1>4. CASE FindCapture(c)
  <2>1. ~(RegisterCapture(c) \/ RegisterRemote(c) \/ DropRemote(c))
    BY <1>4 DEF RegisterCapture, RegisterRemote, DropRemote, FindCapture, CaptureFound, Goto
  <2>2. CASE remotes' = remotes
    BY <2>1, <2>2
  <2>3. CASE remotes[on[c]] # <<>> /\ remotes' = Stepped(c)
    <3>1. /\ \A s \in Session : s # on[c] => remotes'[s] = remotes[s]
          /\ \A s \in Session : DOMAIN remotes'[s] = DOMAIN remotes[s]
          /\ \A s \in Session : \A i \in DOMAIN remotes[s] : remotes'[s][i].by = remotes[s][i].by
      BY <1>1, <2>3, SteppedRemotes
    <3>2. \A s \in Session : Owners(remotes'[s]) = Owners(remotes[s])
      BY <3>1 DEF Owners
    <3> QED BY <2>1, <3>1, <3>2
  <2> QED BY <1>4, <2>2, <2>3 DEF FindCapture, CaptureFound
<1>5. CASE ~(DropRemote(c) \/ RegisterCapture(c) \/ RegisterRemote(c) \/ FindCapture(c))
  <2>1. remotes' = remotes
    BY <1>5 DEF tables, Method, Enter, AppendSession, ServeSession, Select, RequestClipboard,
       FindCast, CopySession, GiveUp, SkipCast, StartThread, TakeNode, RegisterCast, FindRemote,
       EnsureClipboard, SpawnWorker, Recheck, InsertClipboard, Forward, Connect, Command,
       Emit, CloseSession, DropCast, DropClipboard, UnserveSession
  <2> QED BY <1>5, <2>1
<1> QED BY <1>2, <1>3, <1>4, <1>5

\* What a method may make of the casts.
LEMMA CastsChange ==
  ASSUME TypeOK, CallInv, NEW c \in Call, Method(c)
  PROVE  /\ \A s \in Session : s # on[c] => casts'[s] = casts[s]
         /\ RegisterCast(c) =>
              /\ ToSet(casts'[on[c]]) = ToSet(casts[on[c]]) \cup {c}
              /\ Len(casts'[on[c]]) = Len(casts[on[c]]) + 1
         /\ DropCast(c) =>
              /\ ToSet(casts'[on[c]]) \subseteq ToSet(casts[on[c]])
              /\ casts[on[c]] # <<>> =>
                   ToSet(casts[on[c]]) \subseteq ToSet(casts'[on[c]]) \cup {Head(casts[on[c]])}
              /\ Len(casts[on[c]]) <= 1 => casts'[on[c]] = <<>>
         /\ ~(RegisterCast(c) \/ DropCast(c)) => casts' = casts
<1>1. casts \in [Session -> Seq(Call)] /\ on[c] \in Session
  BY MethodMoves DEF TypeOK, TablesType
<1> DEFINE q == casts[on[c]]
<1>2. q \in Seq(Call) /\ Len(q) \in Nat /\ DOMAIN q = 1..Len(q)
  BY <1>1
<1>3. CASE RegisterCast(c)
  <2>1. casts'[on[c]] = Append(q, c) /\ \A s \in Session : s # on[c] => casts'[s] = casts[s]
    BY <1>1, <1>3 DEF RegisterCast
  <2>2. ~DropCast(c)
    BY <1>3 DEF RegisterCast, DropCast, Goto
  <2>3. /\ Len(Append(q, c)) = Len(q) + 1 /\ DOMAIN Append(q, c) = 1..(Len(q) + 1)
        /\ Append(q, c)[Len(q) + 1] = c /\ \A i \in DOMAIN q : Append(q, c)[i] = q[i]
    BY <1>2
  <2>4. ToSet(Append(q, c)) = ToSet(q) \cup {c}
    BY <1>2, <2>3 DEF ToSet
  <2> QED BY <1>3, <2>1, <2>2, <2>3, <2>4
<1>4. CASE DropCast(c)
  <2>1. casts'[on[c]] = RemoveFirstOf(q) /\ \A s \in Session : s # on[c] => casts'[s] = casts[s]
    BY <1>1, <1>4 DEF DropCast
  <2>2. ~RegisterCast(c)
    BY <1>4 DEF RegisterCast, DropCast, Goto
  <2>3. CASE q = <<>>
    BY <1>4, <2>1, <2>2, <2>3 DEF RemoveFirstOf
  <2>4. CASE q # <<>>
    <3> DEFINE n == Tail(q)
    <3>1. /\ DOMAIN n = 1..(Len(q) - 1) /\ Len(q) # 0 /\ Head(q) = q[1]
          /\ \A i \in DOMAIN n : n[i] = q[i + 1]
      BY <1>2, <2>4
    <3>2. Len(q) <= 1 => n = <<>>
      BY <1>2, <2>4
    <3>3. ToSet(n) \subseteq ToSet(q)
      BY <1>2, <3>1 DEF ToSet
    <3>4. \A i \in DOMAIN q : i = 1 \/ (i - 1 \in DOMAIN n /\ n[i - 1] = q[i])
      BY <1>2, <3>1
    <3>5. ToSet(q) \subseteq ToSet(n) \cup {Head(q)}
      BY <3>1, <3>4 DEF ToSet
    <3>6. casts'[on[c]] = n
      BY <2>1, <2>4 DEF RemoveFirstOf
    <3> QED BY <1>4, <2>1, <2>2, <3>2, <3>3, <3>5, <3>6
  <2> QED BY <2>3, <2>4
<1>5. CASE ~(RegisterCast(c) \/ DropCast(c))
  <2>1. casts' = casts
    BY <1>5 DEF tables, Method, Enter, AppendSession, ServeSession, RegisterCapture, Select, RequestClipboard,
       FindCast, CopySession, GiveUp, SkipCast, StartThread, TakeNode, FindRemote, RegisterRemote,
       EnsureClipboard, SpawnWorker, Recheck, InsertClipboard, Forward, Connect, Command, FindCapture,
       Emit, CloseSession, DropRemote, DropClipboard, UnserveSession
  <2> QED BY <1>5, <2>1
<1> QED BY <1>3, <1>4, <1>5

\* What a method may make of the threads.
LEMMA ThreadsChange ==
  ASSUME TypeOK, CallInv, NEW c \in Call, Method(c)
  PROVE  /\ StartThread(c) => threads' = threads \cup {c}
         /\ DropCast(c) =>
              /\ casts[on[c]] = <<>> => threads' = threads
              /\ casts[on[c]] # <<>> => threads' = threads \ {Head(casts[on[c]])}
         /\ DropRemote(c) =>
              /\ remotes[on[c]] = <<>> => threads' = threads
              /\ remotes[on[c]] # <<>> => threads' = threads \ {Head(remotes[on[c]]).by}
         /\ ~(StartThread(c) \/ DropCast(c) \/ DropRemote(c)) => threads' = threads
<1>1. CASE StartThread(c)
  BY <1>1 DEF StartThread, DropCast, DropRemote, Goto
<1>2. CASE DropCast(c)
  BY <1>2 DEF StartThread, DropCast, DropRemote, Goto
<1>3. CASE DropRemote(c)
  BY <1>3 DEF StartThread, DropCast, DropRemote, Goto
<1>4. CASE ~(StartThread(c) \/ DropCast(c) \/ DropRemote(c))
  BY <1>4 DEF running, Method, Enter, AppendSession, ServeSession, RegisterCapture, Select, RequestClipboard,
     FindCast, CopySession, GiveUp, SkipCast, TakeNode, RegisterCast, FindRemote, RegisterRemote,
     EnsureClipboard, SpawnWorker, Recheck, InsertClipboard, Forward, Connect, Command, FindCapture,
     Emit, CloseSession, DropClipboard, UnserveSession
<1> QED BY <1>1, <1>2, <1>3, <1>4

LEMMA RegistrarStays ==
  ASSUME TypeOK, CallInv, NEW c \in Call, Method(c), NEW d, NEW s, Registrar(d, s)
  PROVE  Registrar(d, s)'
<1>1. d \in Call /\ d \in CallsOn(s) /\ pc[d] \in PastRegister
  BY DEF Registrar, CallsOn
<1>2. pc'[d] \in PastRegister
  <2>1. CASE d # c
    BY <1>1, <2>1, MethodMoves
  <2>2. CASE d = c
    <3>1. pc[c] \in {"ensure", "spawn", "recheck", "insert", "forward"}
      BY <1>1, <2>2, MethodMoves DEF PastRegister
    <3>2. pc'[c] \in PastRegister
      BY <3>1, MethodEdges DEF Edge, PastRegister
    <3> QED BY <2>2, <3>2
  <2> QED BY <2>1, <2>2
<1> QED BY <1>1, <1>2, MethodMoves, MethodKeepsCalls DEF Registrar

LEMMA RemoteOwners == RemoteInv <=> \A s \in Session : \A t \in Owners(remotes[s]) : Registrar(t, s)
BY DEF RemoteInv, Owners

LEMMA MethodRemotes ==
  ASSUME TypeOK, CallInv, RemoteInv, NEW c \in Call, Method(c)
  PROVE  RemoteInv'
<1>1. on[c] \in Session /\ op' = op /\ on' = on /\ c \in CallsOn(on[c])'
  BY MethodMoves, MethodKeepsCalls
<1>2. RegisterCapture(c) \/ RegisterRemote(c) => Registrar(c, on[c])'
  <2> HAVE RegisterCapture(c) \/ RegisterRemote(c)
  <2>1. pc'[c] \in {"ensure", "done"} /\ op[c] \in {"RemoteStart", "CreateCapture"}
    BY DEF RegisterCapture, RegisterRemote, Goto, AfterRemote, TypeOK, CallsType
  <2> QED BY <1>1, <2>1 DEF Registrar, PastRegister
<1>3. \A s \in Session : \A t \in Owners(remotes[s]) : Registrar(t, s)'
  BY RemoteOwners, RegistrarStays
<1>4. ASSUME NEW s \in Session, NEW t \in Owners(remotes'[s])
      PROVE  t \in Owners(remotes[s]) \/ (s = on[c] /\ t = c /\ (RegisterCapture(c) \/ RegisterRemote(c)))
  <2>1. CASE s # on[c]
    BY <1>4, <2>1, OwnersChange
  <2>2. CASE s = on[c]
    BY <1>4, <2>2, OwnersChange
  <2> QED BY <2>1, <2>2
<1>5. \A s \in Session : \A t \in Owners(remotes'[s]) : Registrar(t, s)'
  <2> TAKE s \in Session
  <2> TAKE t \in Owners(remotes'[s])
  <2>1. CASE t \in Owners(remotes[s])
    BY <1>3, <2>1
  <2>2. CASE s = on[c] /\ t = c /\ (RegisterCapture(c) \/ RegisterRemote(c))
    BY <1>1, <1>2, <2>2
  <2>3. t \in Owners(remotes[s]) \/ (s = on[c] /\ t = c /\ (RegisterCapture(c) \/ RegisterRemote(c)))
    BY <1>4
  <2> QED BY <2>1, <2>2, <2>3
<1>6. \A s \in Session : \A i \in DOMAIN remotes'[s] : remotes'[s][i].by \in Owners(remotes'[s])
  BY DEF Owners
<1> QED BY <1>5, <1>6 DEF RemoteInv

LEMMA NextRemotes == ASSUME TypeOK, CallInv, RemoteInv, [Next]_vars PROVE RemoteInv'
<1>1. ASSUME NEW c \in Call, NEW o \in Operation, NEW s \in Session, Arrive(c, o, s) PROVE RemoteInv'
  <2>1. remotes' = remotes
    BY <1>1, ArriveMoves DEF tables
  <2>2. \A t, d : Registrar(d, t) => Registrar(d, t)'
    BY <1>1, ArriveAddsCall DEF Registrar
  <2> QED BY <2>1, <2>2 DEF RemoteInv
<1>2. ASSUME UNCHANGED <<remotes, pc, op, on>> PROVE RemoteInv'
  BY <1>2 DEF RemoteInv, Registrar, CallsOn
<1>3. ASSUME NEW c \in Call, Method(c) PROVE RemoteInv'
  BY <1>3, MethodRemotes
<1>4. CASE UNCHANGED vars
  BY <1>2, <1>4 DEF vars, calls, tables
<1>5. ASSUME NEW c \in Call, Aside(c) PROVE RemoteInv'
  BY <1>2, <1>5, AsideKeeps DEF calls, tables
<1> QED BY <1>1, <1>3, <1>4, <1>5 DEF Next, Aside

\* Between the look at the table and the registration, a cast has its session
\* for itself.
Casting == {"copy", "choose", "awaitNode", "register"}

LEMMA MethodCasts ==
  ASSUME TypeOK, CallInv, ExclusionInv, RemoteInv, CastInv, ThreadInv, NEW c \in Call, Method(c)
  PROVE  CastInv'
<1>1. /\ op' = op /\ on' = on /\ on[c] \in Session /\ c \in CallsOn(on[c])
      /\ pc[c] \notin {"idle", "done"} /\ \A d \in Call : d # c => pc'[d] = pc[d]
      /\ \A s : CallsOn(s)' = CallsOn(s)
      /\ casts \in [Session -> Seq(Call)]
  BY MethodMoves, MethodKeepsCalls DEF TypeOK, TablesType
<1>2. RegisterCast(c) => /\ op[c] = "CastStart" /\ pc[c] = "register" /\ pc'[c] = "done"
                         /\ casts[on[c]] = <<>> /\ c \in threads /\ threads' = threads
  <2> HAVE RegisterCast(c)
  <2>1. op[c] = "CastStart" /\ pc[c] = "register" /\ pc'[c] = "done"
    BY DEF RegisterCast, Goto, TypeOK, CallsType
  <2>2. threads' = threads
    BY DEF RegisterCast, running
  <2> QED BY <2>1, <2>2 DEF CastInv, ThreadInv, Fresh
<1>3. ASSUME NEW s \in Session PROVE Len(casts'[s]) <= 1
  <2>1. CASE s # on[c]
    BY <2>1, CastsChange DEF CastInv
  <2>2. CASE s = on[c] /\ RegisterCast(c)
    <3>1. Len(casts[on[c]]) = 0
      BY <1>2, <2>2
    <3> QED BY <2>2, <3>1, CastsChange
  <2>3. CASE s = on[c] /\ ~RegisterCast(c)
    <3>1. casts'[s] = <<>> \/ casts'[s] = casts[s]
      BY <2>3, CastsChange DEF CastInv
    <3>2. Len(casts[s]) <= 1
      BY DEF CastInv
    <3> QED BY <3>1, <3>2
  <2> QED BY <2>1, <2>2, <2>3
<1>4. ASSUME NEW s \in Session, NEW t \in ToSet(casts'[s])
      PROVE  t \in threads' /\ t \in CallsOn(s)' /\ op[t] = "CastStart" /\ pc'[t] = "done"
  <2>1. CASE t = c /\ s = on[c] /\ RegisterCast(c)
    BY <1>1, <1>2, <2>1
  <2>2. CASE t \in ToSet(casts[s])
    <3>1. t \in threads /\ t \in CallsOn(s) /\ op[t] = "CastStart" /\ pc[t] = "done" /\ t \in Call /\ on[t] = s
      BY <2>2 DEF CastInv, CallsOn
    <3>2. t # c
      BY <1>1, <3>1
    <3>3. t \in threads'
      <4>1. CASE DropCast(c)
        <5>1. casts'[on[c]] = <<>>
          BY <1>1, <4>1, CastsChange DEF CastInv
        <5>2. s # on[c]
          <6>1. ToSet(casts'[on[c]]) = {}
            BY <5>1 DEF ToSet
          <6> QED BY <1>4, <6>1
        <5>3. casts[on[c]] # <<>> => Head(casts[on[c]]) \in ToSet(casts[on[c]])
          BY <1>1 DEF ToSet
        <5>4. casts[on[c]] # <<>> => on[Head(casts[on[c]])] = on[c]
          BY <1>1, <5>3 DEF CastInv, CallsOn
        <5> QED BY <3>1, <4>1, <5>2, <5>4, ThreadsChange
      <4>2. CASE DropRemote(c)
        <5>1. remotes[on[c]] # <<>> => op[Head(remotes[on[c]]).by] \in {"RemoteStart", "CreateCapture"}
          <6> HAVE remotes[on[c]] # <<>>
          <6>1. remotes[on[c]] \in Seq(Remote)
            BY <1>1 DEF TypeOK, TablesType
          <6>2. 1 \in DOMAIN remotes[on[c]] /\ Head(remotes[on[c]]) = remotes[on[c]][1]
            BY <6>1
          <6> QED BY <1>1, <6>2 DEF RemoteInv, Registrar
        <5> QED BY <3>1, <4>2, <5>1, ThreadsChange
      <4>3. CASE ~DropCast(c) /\ ~DropRemote(c)
        BY <3>1, <4>3, ThreadsChange
      <4> QED BY <4>1, <4>2, <4>3
    <3> QED BY <1>1, <3>1, <3>2, <3>3
  <2> QED BY <1>4, <2>1, <2>2, CastsChange
<1>5. ASSUME NEW d \in Call, op[d] = "CastStart", pc'[d] \in Casting PROVE casts'[on[d]] = <<>>
  <2>1. casts[on[d]] = <<>> /\ on[d] \in Session
    <3>1. CASE d # c
      BY <1>1, <1>5, <3>1 DEF CastInv, Casting, CallInv, Placed
    <3>2. CASE d = c /\ FindCast(c)
      BY <1>1, <1>5, <3>2 DEF FindCast, Goto, Casting, TypeOK, CallsType
    <3>3. CASE d = c /\ ~FindCast(c)
      <4>1. Placed(c) /\ op[c] = "CastStart"
        BY <1>5, <3>3 DEF CallInv
      <4>2. FirstStep(op[c]) = "findCast"
        BY <4>1 DEF FirstStep, Creation
      <4>3. pc[c] \in Casting
        BY <1>5, <3>3, <4>1, <4>2, MethodEdges DEF Edge, Casting, Placed, Creation
      <4> QED BY <1>1, <3>3, <4>1, <4>3 DEF CastInv, Casting
    <3> QED BY <3>1, <3>2, <3>3
  <2>2. CASE RegisterCast(c) /\ on[c] = on[d]
    <3>1. d # c
      BY <1>2, <1>5, <2>2 DEF Casting
    <3>2. Inside(c) /\ Inside(d)
      BY <1>1, <1>2, <1>5, <2>2, <3>1 DEF Inside, Open, Casting
    <3>3. InterfaceOf(op[c]) = InterfaceOf(op[d]) /\ Exclusive(op[c])
      BY <1>2, <1>5, <2>2 DEF Exclusive
    <3> QED BY <3>1, <3>2, <3>3 DEF ExclusionInv
  <2>3. CASE DropCast(c) /\ on[c] = on[d]
    BY <2>1, <2>3, CastsChange DEF CastInv
  <2>4. CASE (~RegisterCast(c) /\ ~DropCast(c)) \/ on[c] # on[d]
    BY <2>1, <2>4, CastsChange
  <2> QED BY <2>2, <2>3, <2>4
<1> QED BY <1>1, <1>3, <1>4, <1>5 DEF CastInv, Casting

LEMMA NextCasts ==
  ASSUME TypeOK, CallInv, ExclusionInv, RemoteInv, CastInv, ThreadInv, [Next]_vars
  PROVE  CastInv'
<1>1. ASSUME NEW c \in Call, NEW o \in Operation, NEW s \in Session, Arrive(c, o, s) PROVE CastInv'
  <2>1. UNCHANGED <<casts, threads>>
    BY <1>1, ArriveMoves DEF tables, running
  <2>2. \A t, d : d \in CallsOn(t) => d \in CallsOn(t)' /\ pc'[d] = pc[d] /\ op'[d] = op[d]
    BY <1>1, ArriveAddsCall
  <2>3. \A d \in Call : pc'[d] \in Casting => pc[d] = pc'[d] /\ on'[d] = on[d] /\ op'[d] = op[d]
    BY <1>1, ArriveMoves DEF Casting
  <2> QED BY <2>1, <2>2, <2>3 DEF CastInv, Casting
<1>2. ASSUME UNCHANGED <<casts, threads, pc, op, on>> PROVE CastInv'
  BY <1>2 DEF CastInv, CallsOn
<1>3. ASSUME NEW c \in Call, Method(c) PROVE CastInv'
  BY <1>3, MethodCasts
<1>4. CASE UNCHANGED vars
  BY <1>2, <1>4 DEF vars, calls, tables, running
<1>5. ASSUME NEW c \in Call, Aside(c) PROVE CastInv'
  BY <1>2, <1>5, AsideKeeps DEF calls, tables
<1> QED BY <1>1, <1>3, <1>4, <1>5 DEF Next, Aside

\* Whom the threads belong to.
Owned(t) == \E s \in Session : t \in ToSet(casts[s]) \/ t \in Owners(remotes[s])
LEMMA ThreadOwners ==
  ThreadInv <=> /\ \A c \in Call : Fresh(c) => c \in threads
                /\ \A t \in threads : Owned(t) \/ (t \in Call /\ pc[t] \in {"awaitNode", "register"})
BY RegisteredOwners DEF ThreadInv, Owned

LEMMA MethodThreads ==
  ASSUME TypeOK, CallInv, RemoteInv, CastInv, ThreadInv, NEW c \in Call, Method(c)
  PROVE  /\ \A d \in Call : Fresh(d)' => d \in threads'
         /\ \A t \in threads' : Owned(t)' \/ (t \in Call /\ pc'[t] \in {"awaitNode", "register"})
<1>1. /\ op' = op /\ on' = on /\ on[c] \in Session
      /\ pc[c] \notin {"idle", "done"} /\ \A d \in Call : d # c => pc'[d] = pc[d]
      /\ casts \in [Session -> Seq(Call)] /\ remotes \in [Session -> Seq(Remote)]
  BY MethodMoves DEF TypeOK, TablesType
<1>2. casts[on[c]] # <<>> =>
        Head(casts[on[c]]) \in Call /\ pc[Head(casts[on[c]])] = "done"
  <2> HAVE casts[on[c]] # <<>>
  <2>1. casts[on[c]] \in Seq(Call)
    BY <1>1
  <2>2. Head(casts[on[c]]) \in ToSet(casts[on[c]])
    BY <2>1 DEF ToSet
  <2> QED BY <1>1, <2>2 DEF CastInv, CallsOn
<1>3. remotes[on[c]] # <<>> =>
        Head(remotes[on[c]]).by \in Call /\ pc[Head(remotes[on[c]]).by] \in PastRegister
  <2> HAVE remotes[on[c]] # <<>>
  <2>1. remotes[on[c]] \in Seq(Remote)
    BY <1>1
  <2>2. 1 \in DOMAIN remotes[on[c]] /\ Head(remotes[on[c]]) = remotes[on[c]][1]
    BY <2>1
  <2> QED BY <1>1, <2>2 DEF RemoteInv, Registrar, CallsOn
<1>4. ASSUME NEW d \in Call, Fresh(d)' PROVE d \in threads'
  <2>1. CASE StartThread(c) /\ d = c
    BY <2>1, ThreadsChange
  <2>2. CASE ~(StartThread(c) /\ d = c)
    <3>1. Fresh(d)
      <4>1. CASE d # c
        BY <1>1, <1>4, <4>1 DEF Fresh
      <4>2. CASE d = c
        <5>1. pc'[c] = "awaitNode" \/ (pc'[c] = "register" /\ op[c] = "CastStart")
          BY <1>1, <1>4, <4>2 DEF Fresh
        <5>2. ServeSession(c) => op[c] # "CastStart"
          BY DEF ServeSession, Goto, CallInv, Placed, Creation
        <5>3. SkipCast(c) => op[c] # "CastStart"
          BY DEF SkipCast, Casts
        <5>4. TakeNode(c) /\ pc[c] = "awaitNode"
          BY <2>2, <4>2, <5>1, <5>2, <5>3, MethodEdges, EnterTo DEF Edge
        <5> QED BY <4>2, <5>4 DEF Fresh
      <4> QED BY <4>1, <4>2
    <3>2. d \in threads /\ pc[d] \notin PastRegister
      BY <3>1 DEF ThreadInv, Fresh, PastRegister
    <3>3. CASE DropCast(c)
      BY <1>2, <3>2, <3>3, ThreadsChange DEF PastRegister
    <3>4. CASE DropRemote(c)
      BY <1>3, <3>2, <3>4, ThreadsChange
    <3>5. CASE ~DropCast(c) /\ ~DropRemote(c)
      BY <3>2, <3>5, ThreadsChange
    <3> QED BY <3>3, <3>4, <3>5
  <2> QED BY <2>1, <2>2
<1>5. ASSUME NEW t \in threads'
      PROVE  Owned(t)' \/ (t \in Call /\ pc'[t] \in {"awaitNode", "register"})
  <2>1. CASE StartThread(c) /\ t = c
    BY <2>1 DEF StartThread, Goto, TypeOK, CallsType
  <2>2. CASE ~(StartThread(c) /\ t = c)
    <3>1. t \in threads
      BY <1>5, <2>2, ThreadsChange
    <3>2. Owned(t) \/ (t \in Call /\ pc[t] \in {"awaitNode", "register"})
      BY <3>1, ThreadOwners
    <3>3. ASSUME NEW s \in Session, t \in ToSet(casts[s]) PROVE t \in ToSet(casts'[s])
      <4>1. CASE DropCast(c) /\ s = on[c]
        <5>1. casts[s] # <<>>
          BY <3>3 DEF ToSet
        <5>2. t # Head(casts[s])
          BY <1>5, <4>1, <5>1, ThreadsChange
        <5> QED BY <3>3, <4>1, <5>1, <5>2, CastsChange
      <4>2. CASE RegisterCast(c) /\ s = on[c]
        BY <3>3, <4>2, CastsChange
      <4>3. CASE (~DropCast(c) /\ ~RegisterCast(c)) \/ s # on[c]
        BY <3>3, <4>3, CastsChange
      <4> QED BY <4>1, <4>2, <4>3
    <3>4. ASSUME NEW s \in Session, t \in Owners(remotes[s]) PROVE t \in Owners(remotes'[s])
      <4>1. CASE DropRemote(c) /\ s = on[c]
        <5>1. remotes[s] # <<>>
          BY <3>4 DEF Owners
        <5>2. t # Head(remotes[s]).by
          BY <1>5, <4>1, <5>1, ThreadsChange
        <5> QED BY <3>4, <4>1, <5>1, <5>2, OwnersChange
      <4>2. CASE (RegisterCapture(c) \/ RegisterRemote(c)) /\ s = on[c]
        BY <3>4, <4>2, OwnersChange
      <4>3. CASE ~(DropRemote(c) \/ RegisterCapture(c) \/ RegisterRemote(c)) \/ s # on[c]
        BY <3>4, <4>3, OwnersChange
      <4> QED BY <4>1, <4>2, <4>3
    <3>5. ASSUME t \in Call, pc[t] \in {"awaitNode", "register"}
          PROVE  Owned(t)' \/ (t \in Call /\ pc'[t] \in {"awaitNode", "register"})
      <4>1. CASE t # c
        BY <1>1, <3>5, <4>1
      <4>2. CASE t = c
        <5>1. \/ TakeNode(c) /\ pc'[c] = "register"
              \/ RegisterCast(c) \/ RegisterCapture(c) \/ RegisterRemote(c)
          BY <3>5, <4>2, MethodEdges DEF Edge
        <5>2. RegisterCast(c) => c \in ToSet(casts'[on[c]])
          BY CastsChange
        <5>3. RegisterCapture(c) \/ RegisterRemote(c) => c \in Owners(remotes'[on[c]])
          BY OwnersChange
        <5> QED BY <1>1, <4>2, <5>1, <5>2, <5>3 DEF Owned
      <4> QED BY <4>1, <4>2
    <3>6. Owned(t) => Owned(t)'
      BY <3>3, <3>4 DEF Owned
    <3> QED BY <3>2, <3>5, <3>6
  <2> QED BY <2>1, <2>2
<1> QED BY <1>4, <1>5

LEMMA NextThreads == ASSUME TypeOK, CallInv, RemoteInv, CastInv, ThreadInv, [Next]_vars PROVE ThreadInv'
<1>1. ASSUME NEW c \in Call, NEW o \in Operation, NEW s \in Session, Arrive(c, o, s) PROVE ThreadInv'
  <2>1. UNCHANGED <<casts, remotes, threads>>
    BY <1>1, ArriveMoves DEF tables, running
  <2>2. \A d \in Call : pc[d] \in {"awaitNode", "register"} => pc'[d] = pc[d]
    BY <1>1, ArriveMoves
  <2>3. \A d \in Call : Fresh(d)' => Fresh(d)
    BY <1>1, ArriveMoves DEF Fresh
  <2> QED BY <2>1, <2>2, <2>3 DEF ThreadInv, Registered
<1>2. ASSUME UNCHANGED <<casts, remotes, threads, pc, op>> PROVE ThreadInv'
  BY <1>2 DEF ThreadInv, Fresh, Registered
<1>3. ASSUME NEW c \in Call, Method(c) PROVE ThreadInv'
  <2>1. /\ \A d \in Call : Fresh(d)' => d \in threads'
        /\ \A t \in threads' : Owned(t)' \/ (t \in Call /\ pc'[t] \in {"awaitNode", "register"})
    BY <1>3, MethodThreads
  <2>2. \A s : Registered(s)' = ToSet(casts'[s]) \cup Owners(remotes'[s])
    BY DEF Registered, Owners
  <2> QED BY <2>1, <2>2 DEF ThreadInv, Owned
<1>4. CASE UNCHANGED vars
  BY <1>2, <1>4 DEF vars, calls, tables, running
<1>5. ASSUME NEW c \in Call, Aside(c) PROVE ThreadInv'
  BY <1>2, <1>5, AsideKeeps DEF calls, tables
<1> QED BY <1>1, <1>3, <1>4, <1>5 DEF Next, Aside

LEMMA InitThreads == Init => WorkerInv /\ CastInv /\ RemoteInv /\ ThreadInv
<1> SUFFICES ASSUME Init PROVE WorkerInv /\ CastInv /\ RemoteInv /\ ThreadInv
  OBVIOUS
<1>1. WorkerInv
  BY DEF Init, WorkerInv, WorkersOfTable, WorkersOfStart
<1>2. CastInv /\ RemoteInv /\ ThreadInv
  BY DEF Init, CastInv, RemoteInv, ThreadInv, Fresh, ToSet
<1> QED BY <1>1, <1>2

\* However many sessions and calls there are, and however workers end by
\* themselves: a cast thread or a worker that nobody told to stop is in its table
\* or in the hands of its Start, no table names one that was told to, and a
\* session has one cast.
THEOREM ThreadsAreKept == Spec => []ThreadsAreOwned
<1> DEFINE I == /\ TypeOK /\ CallInv /\ LockInv /\ EmitInv /\ ExclusionInv
                /\ CreationInv /\ AskedInv /\ ClipboardInv
                /\ WorkerInv /\ CastInv /\ RemoteInv /\ ThreadInv
<1>1. Init => I
  BY InitType, InitLocks, InitClipboards, InitThreads
<1>2. I /\ [Next]_vars => I'
  BY NextType, NextPlaced, NextLocks, NextEmits, NextExcludes, NextCreates, NextAsks, NextClipboards,
     NextWorkers, NextCasts, NextRemotes, NextThreads
<1>3. I => ThreadsAreOwned
  <2> SUFFICES ASSUME I PROVE ThreadsAreOwned
    OBVIOUS
  <2>1. \A s \in Session : Len(casts[s]) <= 1 /\ ToSet(casts[s]) \subseteq threads
    BY DEF CastInv
  <2> QED BY <2>1 DEF ThreadInv, WorkerInv, ThreadsAreOwned
<1> QED BY <1>1, <1>2, <1>3, PTL DEF Spec

-----------------------------------------------------------------------------
(* Signals *)

\* Only Emit signals, and only Connect, Command and DropRemote reach the listener.
LEMMA InputChanges ==
  ASSUME TypeOK, CallInv, NEW c \in Call, Method(c)
  PROVE  /\ \A s \in Session : s # on[c] =>
              signalled'[s] = signalled[s] /\ listener'[s] = listener[s]
              /\ (s \in unannounced' <=> s \in unannounced)
         /\ ~Emit(c) => signalled' = signalled
         /\ ~(Connect(c) \/ Emit(c)) => unannounced' = unannounced
         /\ Connect(c) => on[c] \in unannounced' \/ (listener' = listener /\ unannounced' = unannounced)
         /\ Command(c) => listener'[on[c]] \in {Wanted(op[c]), "none"}
         /\ DropRemote(c) => listener'[on[c]] \in {listener[on[c]], "none"}
         /\ ~(Connect(c) \/ Command(c) \/ DropRemote(c)) => listener' = listener
<1>1. on[c] \in Session /\ listener \in [Session -> {"none", "on", "off"}]
      /\ signalled \in [Session -> Signal]
  BY MethodMoves DEF TypeOK, InputType
<1>2. CASE Connect(c)
  <2>1. signalled' = signalled /\ ~Emit(c) /\ ~Command(c) /\ ~DropRemote(c)
    BY <1>2 DEF Connect, Command, DropRemote, Emit, Goto
  <2>2. \/ listener' = [listener EXCEPT ![on[c]] = "on"] /\ unannounced' = unannounced \cup {on[c]}
        \/ listener' = listener /\ unannounced' = unannounced
    BY <1>2 DEF Connect
  <2> QED BY <1>1, <1>2, <2>1, <2>2
<1>3. CASE Command(c)
  <2>1. signalled' = signalled /\ unannounced' = unannounced /\ ~Emit(c) /\ ~Connect(c) /\ ~DropRemote(c)
    BY <1>3 DEF Connect, Command, DropRemote, Emit, Goto
  <2>2. listener' = [listener EXCEPT ![on[c]] = Commanded(@, op[c])]
    BY <1>3 DEF Command
  <2> QED BY <1>1, <1>3, <2>1, <2>2 DEF Commanded, Wanted
<1>4. CASE DropRemote(c)
  <2>1. signalled' = signalled /\ unannounced' = unannounced /\ ~Emit(c) /\ ~Connect(c) /\ ~Command(c)
    BY <1>4 DEF Connect, Command, DropRemote, Emit, Goto
  <2>2. listener' = listener \/ listener' = [listener EXCEPT ![on[c]] = "none"]
    BY <1>4 DEF DropRemote
  <2> QED BY <1>1, <1>4, <2>1, <2>2
<1>5. CASE Emit(c)
  <2>1. listener' = listener /\ ~Command(c) /\ ~DropRemote(c) /\ ~Connect(c)
    BY <1>5 DEF Emit, Connect, Command, DropRemote, Goto
  <2>2. \A s \in Session : s # on[c] => signalled'[s] = signalled[s] /\ (s \in unannounced' <=> s \in unannounced)
    BY <1>1, <1>5 DEF Emit
  <2> QED BY <1>5, <2>1, <2>2
<1>6. CASE ~(Connect(c) \/ Command(c) \/ Emit(c) \/ DropRemote(c))
  <2>1. UNCHANGED input
    BY <1>6 DEF Method, Enter, AppendSession, ServeSession, RegisterCapture, Select,
       RequestClipboard, FindCast, CopySession, GiveUp, SkipCast, StartThread, TakeNode, RegisterCast,
       FindRemote, RegisterRemote, EnsureClipboard, SpawnWorker, Recheck, InsertClipboard, Forward,
       FindCapture, CloseSession, DropCast, DropClipboard, UnserveSession
  <2> QED BY <1>6, <2>1 DEF input
<1> QED BY <1>2, <1>3, <1>4, <1>5, <1>6

\* The signal that got out names the count; one that did not is remembered.
LEMMA EmitSignals ==
  ASSUME TypeOK, CallInv, NEW c \in Call, Emit(c), on[c] \in Session
  PROVE  \/ /\ signalled'[on[c]].kind = IF op[c] = "Enable" THEN "Activated" ELSE "Disabled"
            /\ signalled'[on[c]].id = remotes[on[c]][1].activation
         \/ signalled' = signalled /\ on[c] \in unannounced'
<1>1. CASE signalled' = signalled /\ unannounced' = unannounced \cup {on[c]}
  BY <1>1
<1>2. CASE signalled' = [signalled EXCEPT ![on[c]] =
             [kind |-> IF op[c] = "Enable" THEN "Activated" ELSE "Disabled",
              id   |-> remotes[on[c]][1].activation]]
  BY <1>2 DEF TypeOK, InputType
<1> QED BY <1>1, <1>2 DEF Emit

LEMMA RemotesKept ==
  ASSUME TypeOK, CallInv, NEW c \in Call, Method(c),
         ~(RegisterCapture(c) \/ RegisterRemote(c) \/ DropRemote(c) \/ FindCapture(c))
  PROVE  remotes' = remotes
BY DEF tables, Method, Enter, AppendSession, ServeSession, Select, RequestClipboard,
   FindCast, CopySession, GiveUp, SkipCast, StartThread, TakeNode, RegisterCast, FindRemote,
   EnsureClipboard, SpawnWorker, Recheck, InsertClipboard, Forward, Connect, Command,
   Emit, CloseSession, DropCast, DropClipboard, UnserveSession

\* What is registered first for a session was signalled by nobody before.
LEMMA FirstRemote ==
  ASSUME TypeOK, CallInv, CreationInv, RemoteInv, CountInv, EmitInv,
         NEW c \in Call, RegisterCapture(c) \/ RegisterRemote(c), StartedOnce(on[c])
  PROVE  remotes[on[c]] = <<>> /\ signalled[on[c]] = NoSignal /\ Emitting(on[c]) = {}
<1> DEFINE s == on[c]
<1>1. pc[c] = "register" /\ op[c] \in {"RemoteStart", "CreateCapture"} /\ s \in Session /\ c \in CallsOn(s)
  BY DEF RegisterCapture, RegisterRemote, Goto, CallInv, Placed, CallsOn
<1>2. ASSUME NEW d \in Call, Registrar(d, s) PROVE FALSE
  <2>1. /\ d \in CallsOn(s) /\ op[d] \in {"RemoteStart", "CreateCapture"} /\ pc[d] \in PastRegister
        /\ d # c
    BY <1>1, <1>2 DEF Registrar, PastRegister
  <2>2. CASE op[c] = "CreateCapture"
    BY <1>1, <2>1, <2>2 DEF CreationInv, Creation
  <2>3. CASE op[c] = "RemoteStart" /\ op[d] = "RemoteStart"
    BY <1>1, <2>1, <2>3 DEF StartedOnce, Start
  <2>4. CASE op[c] = "RemoteStart" /\ op[d] = "CreateCapture"
    <3>1. local[c] # None /\ local[c].type = "Remote"
      BY <1>1, <2>4 DEF CallInv, Copied, Start, StartsType
    <3>2. PICK e \in Call : CreatorOf(e, s) /\ TypeOf(op[e]) = "Remote"
      BY <3>1 DEF CreationInv
    <3>3. op[e] # "CreateCapture" /\ e # d
      BY <2>4, <3>2 DEF TypeOf
    <3> QED BY <1>1, <2>1, <2>4, <3>2, <3>3 DEF CreationInv, CreatorOf, Creation
  <2> QED BY <1>1, <2>1, <2>2, <2>3, <2>4
<1>3. remotes[s] = <<>>
  <2>1. remotes[s] \in Seq(Remote)
    BY <1>1 DEF TypeOK, TablesType
  <2>2. SUFFICES ASSUME remotes[s] # <<>> PROVE FALSE
    OBVIOUS
  <2>3. 1 \in DOMAIN remotes[s] /\ remotes[s][1] \in Remote
    BY <2>1, <2>2
  <2>4. remotes[s][1].by \in Call
    BY <2>3 DEF Remote
  <2> QED BY <1>1, <1>2, <2>3, <2>4 DEF RemoteInv
<1>4. signalled[s] = NoSignal
  BY <1>1, <1>2 DEF CountInv
<1>5. Emitting(s) = {}
  BY <1>3 DEF Emitting, EmitInv, CallsOn
<1> QED BY <1>3, <1>4, <1>5

LEMMA MethodCounts ==
  ASSUME TypeOK, CallInv, LockInv, EmitInv, CreationInv, RemoteInv, CountInv, NEW c \in Call, Method(c)
  PROVE  CountInv'
<1>1. /\ op' = op /\ on' = on /\ on[c] \in Session /\ c \in CallsOn(on[c])
      /\ \A d \in Call : d # c => pc'[d] = pc[d]
      /\ \A s : CallsOn(s)' = CallsOn(s)
      /\ remotes \in [Session -> Seq(Remote)] /\ signalled \in [Session -> Signal]
  BY MethodMoves, MethodKeepsCalls DEF TypeOK, TablesType, InputType
<1>2. ASSUME NEW s \in Session, remotes[s] # <<>> PROVE \E d \in Call : Registrar(d, s)
  <2>1. 1 \in DOMAIN remotes[s] /\ remotes[s][1] \in Remote
    BY <1>1, <1>2
  <2>2. remotes[s][1].by \in Call
    BY <2>1 DEF Remote
  <2> QED BY <2>1, <2>2 DEF RemoteInv
<1>3. ASSUME NEW s \in Session, signalled'[s] # NoSignal
      PROVE  \E d \in Call : Registrar(d, s)'
  <2>1. \E d \in Call : Registrar(d, s)
    <3>1. CASE Emit(c) /\ s = on[c]
      BY <1>2, <3>1 DEF Emit, Goto, EmitInv
    <3>2. CASE s # on[c] \/ ~Emit(c)
      <4>1. signalled'[s] = signalled[s]
        BY <3>2, InputChanges
      <4> QED BY <1>3, <4>1 DEF CountInv
    <3> QED BY <3>1, <3>2
  <2> QED BY <2>1, RegistrarStays
<1>4. \A s \in Session : StartedOnce(s)' => StartedOnce(s)
  BY <1>1 DEF StartedOnce
<1>5. ASSUME NEW s \in Session, StartedOnce(s), remotes'[s] = remotes[s], signalled'[s] = signalled[s],
             Ahead(s)' = Ahead(s)
      PROVE  /\ Len(remotes'[s]) <= 1
             /\ remotes'[s] # <<>> => remotes'[s][1].activation >= signalled'[s].id + Ahead(s)'
  BY <1>5 DEF CountInv
<1>6. ASSUME NEW s \in Session, s # on[c] PROVE Emitting(s)' = Emitting(s)
  BY <1>1, <1>6 DEF Emitting, CallsOn
<1>7. ASSUME NEW s \in Session, pc[c] # "emit", pc'[c] # "emit" PROVE Emitting(s)' = Emitting(s)
  BY <1>1, <1>7 DEF Emitting, CallsOn
<1>8. ASSUME NEW s \in Session, Emitting(s)' = Emitting(s) PROVE Ahead(s)' = Ahead(s)
  BY <1>1, <1>8 DEF Ahead
<1>9. ASSUME NEW s \in Session, StartedOnce(s)
      PROVE  /\ Len(remotes'[s]) <= 1
             /\ remotes'[s] # <<>> => remotes'[s][1].activation >= signalled'[s].id + Ahead(s)'
  <2>1. CASE s # on[c]
    <3>1. remotes'[s] = remotes[s]
      BY <2>1, OwnersChange
    <3>2. signalled'[s] = signalled[s]
      BY <2>1, InputChanges
    <3> QED BY <1>5, <1>6, <1>8, <1>9, <2>1, <3>1, <3>2
  <2>2. CASE s = on[c] /\ (RegisterCapture(c) \/ RegisterRemote(c))
    <3>1. remotes[s] = <<>> /\ signalled[s] = NoSignal /\ Emitting(s) = {}
      BY <1>9, <2>2, FirstRemote
    <3>2. pc[c] # "emit" /\ pc'[c] # "emit" /\ signalled' = signalled
      BY <2>2 DEF RegisterCapture, RegisterRemote, AfterRemote, Goto, TypeOK, CallsType, input
    <3>3. Ahead(s)' = 0
      BY <1>7, <3>1, <3>2 DEF Ahead
    <3>4. PICK r : r = [by |-> c, activation |-> 0]
      OBVIOUS
    <3>5. remotes'[s] = Append(remotes[s], r)
      BY <1>1, <2>2, <3>4 DEF RegisterCapture, RegisterRemote, AppendRemote
    <3>6. remotes'[s] = <<r>>
      BY <3>1, <3>5
    <3>7. Len(remotes'[s]) <= 1 /\ remotes'[s][1] = r
      BY <3>6
    <3>8. r.activation = 0 /\ NoSignal.id = 0
      BY <3>4 DEF NoSignal
    <3> QED BY <3>1, <3>2, <3>3, <3>7, <3>8
  <2>3. CASE s = on[c] /\ FindCapture(c)
    <3>1. signalled' = signalled /\ remoteLock = None /\ pc[c] = "find"
      BY <2>3 DEF FindCapture, RemoteFree, CaptureFound, Goto, input
    <3>2. Emitting(s) = {}
      BY <3>1 DEF Emitting, LockInv, RemoteHeld, CallsOn
    <3>3. CASE Goto(c, "find", "done") /\ remotes' = remotes
      <4>1. pc'[c] = "done"
        BY <3>3 DEF Goto, TypeOK, CallsType
      <4> QED BY <1>5, <1>7, <1>8, <1>9, <3>1, <3>3, <4>1
    <3>4. CASE CaptureFound(c)
      <4>1. pc'[c] = "emit" /\ remotes[s] # <<>> /\ remotes' = Stepped(c)
        BY <2>3, <3>4 DEF CaptureFound, Goto, TypeOK, CallsType
      <4>2. Emitting(s)' = {c}
        BY <1>1, <2>3, <3>2, <4>1 DEF Emitting, CallsOn
      <4>3. Ahead(s) = 0 /\ Ahead(s)' = IF op[c] = "Enable" THEN 1 ELSE 0
        BY <1>1, <3>2, <4>2 DEF Ahead
      <4>4. /\ Len(remotes'[s]) = Len(remotes[s])
            /\ remotes'[s][1].activation =
                 remotes[s][1].activation + (IF op[c] = "Enable" THEN 1 ELSE 0)
        BY <1>1, <2>3, <4>1, SteppedRemotes
      <4>5. /\ Len(remotes[s]) <= 1
            /\ remotes[s][1].activation >= signalled[s].id + 0
        BY <1>9, <4>1, <4>3 DEF CountInv
      <4>6. signalled[s].id \in Nat /\ remotes[s][1].activation \in Nat
        <5>1. remotes[s][1] \in Remote
          BY <1>1, <4>1
        <5> QED BY <1>1, <5>1 DEF Signal, Remote
      <4>7. remotes'[s][1].activation >= signalled[s].id + Ahead(s)'
        BY <4>3, <4>4, <4>5, <4>6
      <4> QED BY <3>1, <4>4, <4>5, <4>7
    <3> QED BY <2>3, <3>3, <3>4 DEF FindCapture
  <2>4. CASE s = on[c] /\ Emit(c)
    <3>1. pc[c] = "emit" /\ pc'[c] = "done" /\ remotes' = remotes
      BY <1>1, <2>4 DEF Emit, Goto, TypeOK, CallsType, tables
    <3>2. \A d \in Call : pc[d] = "emit" => d = c
      BY <3>1 DEF LockInv, RemoteHeld
    <3>3. Emitting(s)' = {}
      BY <1>1, <3>1, <3>2 DEF Emitting, CallsOn
    <3>4. Ahead(s)' = 0
      BY <3>3 DEF Ahead
    <3>5. remotes[s] # <<>> /\ remotes[s][1].activation \in Nat
      <4>1. remotes[s] # <<>> /\ remotes[s] \in Seq(Remote)
        BY <1>1, <2>4, <3>1 DEF EmitInv
      <4>2. remotes[s][1] \in Remote
        BY <4>1
      <4> QED BY <4>1, <4>2 DEF Remote
    <3>6. Len(remotes[s]) <= 1 /\ remotes[s][1].activation >= signalled[s].id + Ahead(s)
      BY <1>9, <3>5 DEF CountInv
    <3>7. remotes[s][1].activation >= signalled'[s].id + 0
      <4>1. CASE signalled' = signalled
        <5>1. signalled[s].id \in Nat /\ Ahead(s) \in {0, 1}
          BY <1>1 DEF Signal, Ahead
        <5> QED BY <3>5, <3>6, <4>1, <5>1
      <4>2. CASE signalled'[s].id = remotes[s][1].activation
        BY <3>5, <4>2
      <4> QED BY <2>4, <4>1, <4>2, EmitSignals
    <3> QED BY <3>1, <3>4, <3>6, <3>7
  <2>5. CASE s = on[c] /\ DropRemote(c)
    <3>1. remotes'[s] = RemoveFirstOf(remotes[s])
      BY <1>1, <2>5 DEF DropRemote
    <3>2. Len(remotes[s]) <= 1 /\ remotes[s] \in Seq(Remote)
      BY <1>1, <1>9 DEF CountInv
    <3>3. remotes'[s] = <<>>
      BY <3>1, <3>2 DEF RemoveFirstOf
    <3> QED BY <3>3
  <2>6. CASE s = on[c] /\ ~(RegisterCapture(c) \/ RegisterRemote(c) \/ FindCapture(c) \/ Emit(c) \/ DropRemote(c))
    <3>1. remotes' = remotes
      BY <2>6, RemotesKept
    <3>2. signalled' = signalled
      BY <2>6, InputChanges
    <3>3. pc[c] # "emit" /\ pc'[c] # "emit"
      BY <2>6, MethodEdges, EnterTo DEF Edge
    <3> QED BY <1>5, <1>7, <1>8, <1>9, <3>1, <3>2, <3>3
  <2> QED BY <2>1, <2>2, <2>3, <2>4, <2>5, <2>6
<1> QED BY <1>3, <1>4, <1>9 DEF CountInv

LEMMA NextCounts ==
  ASSUME TypeOK, CallInv, LockInv, EmitInv, CreationInv, RemoteInv, CountInv, [Next]_vars
  PROVE  CountInv'
<1>1. ASSUME NEW c \in Call, NEW o \in Operation, NEW s \in Session, Arrive(c, o, s) PROVE CountInv'
  <2>1. UNCHANGED <<remotes, signalled>>
    BY <1>1, ArriveMoves DEF tables, input
  <2>2. \A t, d : d \in CallsOn(t) => d \in CallsOn(t)' /\ pc'[d] = pc[d] /\ op'[d] = op[d]
    BY <1>1, ArriveAddsCall
  <2>3. \A t, d : Registrar(d, t) => Registrar(d, t)'
    BY <2>2 DEF Registrar
  <2>4. \A t : StartedOnce(t)' => StartedOnce(t)
    BY <2>2 DEF StartedOnce
  <2>5. ASSUME NEW t PROVE Ahead(t)' = Ahead(t)
    <3>1. Emitting(t)' = Emitting(t)
      BY <1>1, <2>2, ArriveAddsCall, ArriveMoves DEF Emitting
    <3>2. \A d \in Emitting(t) : op'[d] = op[d]
      BY <2>2 DEF Emitting
    <3> QED BY <3>1, <3>2 DEF Ahead
  <2> QED BY <2>1, <2>3, <2>4, <2>5 DEF CountInv
<1>2. ASSUME UNCHANGED <<remotes, signalled, pc, op, on>> PROVE CountInv'
  BY <1>2 DEF CountInv, Registrar, CallsOn, StartedOnce, Ahead, Emitting
<1>3. ASSUME NEW c \in Call, Method(c) PROVE CountInv'
  BY <1>3, MethodCounts
<1>4. CASE UNCHANGED vars
  BY <1>2, <1>4 DEF vars, calls, tables, input
<1>5. ASSUME NEW c \in Call, Aside(c) PROVE CountInv'
  BY <1>2, <1>5, AsideKeeps DEF calls, tables, input
<1> QED BY <1>1, <1>3, <1>4, <1>5 DEF Next, Aside

\* What the record of a session says of who registered what when.
RegistryInv ==
  /\ TypeOK /\ CallInv /\ LockInv /\ EmitInv /\ ExclusionInv /\ CreationInv
  /\ RemoteInv /\ CountInv
LEMMA InitRegistry == Init => RegistryInv
<1> SUFFICES ASSUME Init PROVE RegistryInv
  OBVIOUS
<1>1. CountInv
  BY DEF Init, CountInv
<1> QED BY <1>1, InitType, InitLocks, InitClipboards, InitThreads DEF RegistryInv
LEMMA NextRegistry == RegistryInv /\ [Next]_vars => RegistryInv'
BY NextType, NextPlaced, NextLocks, NextEmits, NextExcludes, NextCreates, NextRemotes, NextCounts
   DEF RegistryInv

\* The signals of a session that is started once carry ids that never fall, and
\* a new one with each activation, however the bus refuses some: no activation is
\* announced twice or after a later one, and Disabled names none before the last.
THEOREM ActivationsCount == Spec => ActivationsInOrder
<1> DEFINE A == \A c \in Call :
                  LET s == on[c]
                      announced == pc[c] = "emit" /\ pc'[c] = "done" /\ s \notin unannounced'
                  IN announced /\ StartedOnce(s) =>
                       signalled'[s].id >= signalled[s].id + (IF op[c] = "Enable" THEN 1 ELSE 0)
<1>1. RegistryInv /\ [Next]_vars => [A]_vars
  <2> SUFFICES ASSUME RegistryInv, Next,
                      NEW c \in Call, pc[c] = "emit", pc'[c] = "done", on[c] \notin unannounced',
                      StartedOnce(on[c])
               PROVE  signalled'[on[c]].id >= signalled[on[c]].id + (IF op[c] = "Enable" THEN 1 ELSE 0)
    OBVIOUS
  <2> USE DEF RegistryInv
  <2>1. Emit(c)
    <3>1. ASSUME NEW d \in Call, NEW o \in Operation, NEW s \in Session, Arrive(d, o, s) PROVE FALSE
      BY <3>1, ArriveMoves
    <3>2. ASSUME NEW d \in Call, Aside(d) PROVE FALSE
      BY <3>2, AsideKeeps DEF calls
    <3>3. ASSUME NEW d \in Call, Method(d) PROVE Emit(c)
      <4>1. d = c
        BY <3>3, MethodMoves
      <4> QED BY <3>3, <4>1, MethodEdges DEF Edge
    <3> QED BY <3>1, <3>2, <3>3 DEF Next, Aside
  <2>2. on[c] \in Session /\ c \in CallsOn(on[c])
    BY DEF CallInv, Placed, CallsOn
  <2>3. signalled'[on[c]].id = remotes[on[c]][1].activation
    BY <2>1, <2>2, EmitSignals
  <2>4. \A d \in Call : pc[d] = "emit" => d = c
    BY DEF LockInv, RemoteHeld
  <2>5. Emitting(on[c]) = {c}
    BY <2>2, <2>4 DEF Emitting, CallsOn
  <2>6. Ahead(on[c]) = IF op[c] = "Enable" THEN 1 ELSE 0
    BY <2>5 DEF Ahead
  <2>7. remotes[on[c]] # <<>>
    BY DEF EmitInv
  <2>8. remotes[on[c]][1].activation >= signalled[on[c]].id + Ahead(on[c])
    BY <2>2, <2>7 DEF CountInv
  <2> QED BY <2>3, <2>6, <2>8
<1>2. Spec => [][A]_vars
  BY <1>1, InitRegistry, NextRegistry, PTL DEF Spec
<1> QED BY <1>2 DEF ActivationsInOrder

-----------------------------------------------------------------------------
(* The listener *)

LEMMA MethodListens ==
  ASSUME TypeOK, CallInv, ExclusionInv, ListenerInv, NEW c \in Call, Method(c)
  PROVE  ListenerInv'
<1>1. /\ op' = op /\ on' = on /\ on[c] \in Session
      /\ \A d \in Call : d # c => pc'[d] = pc[d]
  BY MethodMoves
<1>2. ASSUME NEW d \in Call, pc'[d] \in {"find", "emit"}
      PROVE  listener'[on[d]] \in {Wanted(op[d]), "none"}
  <2>1. CASE d = c /\ Command(c)
    BY <2>1, InputChanges
  <2>2. CASE d = c /\ ~Command(c)
    <3>1. FindCapture(c) /\ pc[c] = "find"
      BY <1>2, <2>2, MethodEdges, EnterTo DEF Edge
    <3>2. listener' = listener
      BY <3>1 DEF FindCapture, input
    <3> QED BY <2>2, <3>1, <3>2 DEF ListenerInv
  <2>3. CASE d # c
    <3>1. /\ pc[d] \in {"find", "emit"} /\ listener[on[d]] \in {Wanted(op[d]), "none"}
          /\ on[d] \in Session /\ op[d] \in {"Enable", "Disable"}
      BY <1>1, <1>2, <2>3 DEF ListenerInv, CallInv, Placed
    <3>2. CASE Command(c) /\ on[d] = on[c]
      <4>1. pc[c] = "command" /\ op[c] \in {"Enable", "Disable"}
        BY <3>2 DEF Connect, Command, Goto, CallInv, Placed
      <4>2. Inside(c) /\ Inside(d)
        BY <3>1, <4>1 DEF Inside, Open
      <4>3. InterfaceOf(op[c]) = InterfaceOf(op[d])
        BY <3>1, <4>1 DEF InterfaceOf, Creation
      <4>4. ~Exclusive(op[c]) /\ ~Exclusive(op[d])
        BY <2>3, <4>2, <4>3 DEF ExclusionInv
      <4>5. op[c] = op[d]
        BY <3>1, <4>1, <4>4 DEF Exclusive
      <4> QED BY <3>2, <4>5, InputChanges
    <3>3. CASE DropRemote(c) \/ on[d] # on[c]
      BY <3>1, <3>3, InputChanges
    <3>4. ~Connect(c)
      <4> SUFFICES ASSUME Connect(c) PROVE FALSE
        OBVIOUS
      <4>1. pc[c] = "connect" /\ op[c] = "ConnectToEIS"
        BY DEF Connect, Goto, CallInv, Placed
      <4>2. Inside(c) /\ Inside(d)
        BY <3>1, <4>1 DEF Inside, Open
      <4>3. InterfaceOf(op[c]) = InterfaceOf(op[d]) /\ Exclusive(op[c])
        BY <3>1, <4>1 DEF InterfaceOf, Creation, Exclusive
      <4> QED BY <2>3, <4>2, <4>3 DEF ExclusionInv
    <3>5. CASE ~DropRemote(c) /\ ~Command(c)
      <4>1. listener'[on[d]] = listener[on[d]]
        BY <3>1, <3>4, <3>5, InputChanges
      <4> QED BY <3>1, <4>1
    <3> QED BY <3>2, <3>3, <3>5
  <2> QED BY <2>1, <2>2, <2>3
<1> QED BY <1>1, <1>2 DEF ListenerInv

LEMMA NextListens == ASSUME TypeOK, CallInv, ExclusionInv, ListenerInv, [Next]_vars PROVE ListenerInv'
<1>1. ASSUME NEW c \in Call, NEW o \in Operation, NEW s \in Session, Arrive(c, o, s) PROVE ListenerInv'
  <2>1. listener' = listener
    BY <1>1, ArriveMoves DEF input
  <2>2. \A d \in Call : pc'[d] \in {"find", "emit"} => pc[d] = pc'[d] /\ op'[d] = op[d] /\ on'[d] = on[d]
    BY <1>1, ArriveMoves
  <2> QED BY <2>1, <2>2 DEF ListenerInv
<1>2. ASSUME UNCHANGED <<listener, pc, op, on>> PROVE ListenerInv'
  BY <1>2 DEF ListenerInv
<1>3. ASSUME NEW c \in Call, Method(c) PROVE ListenerInv'
  BY <1>3, MethodListens
<1>4. CASE UNCHANGED vars
  BY <1>2, <1>4 DEF vars, calls, input
<1>5. ASSUME NEW c \in Call, Aside(c) PROVE ListenerInv'
  BY <1>2, <1>5, AsideKeeps DEF calls, input
<1> QED BY <1>1, <1>3, <1>4, <1>5 DEF Next, Aside

\* Nobody switches the capture of a session on or off.
Quiet(s) == \A c \in CallsOn(s) : op[c] \in {"Enable", "Disable"} => ~Inside(c)
Agrees(s) == /\ signalled[s].kind = "Activated" => listener[s] # "off"
             /\ signalled[s].kind = "Disabled" => listener[s] # "on"
LEMMA MethodFollows ==
  ASSUME RegistryInv, ListenerInv, ListenerFollowsSignals, NEW c \in Call, Method(c)
  PROVE  ListenerFollowsSignals'
<1> USE DEF RegistryInv
<1>1. /\ op' = op /\ on' = on /\ on[c] \in Session /\ c \in CallsOn(on[c])
      /\ \A d \in Call : d # c => pc'[d] = pc[d]
      /\ \A s : CallsOn(s)' = CallsOn(s)
      /\ remotes \in [Session -> Seq(Remote)]
  BY MethodMoves, MethodKeepsCalls DEF TypeOK, TablesType
<1>2. \A s \in Session \ unannounced : remotes[s] # <<>> /\ StartedOnce(s) /\ Quiet(s) => Agrees(s)
  BY DEF ListenerFollowsSignals, Quiet, Agrees
<1>3. ASSUME NEW s \in Session, s \notin unannounced', remotes'[s] # <<>>, StartedOnce(s), Quiet(s)'
      PROVE  Agrees(s)'
  <2>1. CASE s # on[c]
    <3>1. /\ remotes'[s] = remotes[s] /\ signalled'[s] = signalled[s] /\ listener'[s] = listener[s]
          /\ s \notin unannounced
      <4>1. remotes'[s] = remotes[s]
        BY <2>1, OwnersChange
      <4>2. /\ signalled'[s] = signalled[s] /\ listener'[s] = listener[s]
            /\ s \notin unannounced
        BY <1>3, <2>1, InputChanges
      <4> QED BY <4>1, <4>2
    <3>2. Quiet(s)
      BY <1>1, <1>3, <2>1 DEF Quiet, CallsOn, Inside, Open
    <3> QED BY <1>2, <1>3, <3>1, <3>2 DEF Agrees
  <2>2. CASE s = on[c] /\ op[c] \in {"Enable", "Disable"}
    <3>1. ~Inside(c)'
      BY <1>1, <1>3, <2>2 DEF Quiet
    <3>2. Placed(c)
      BY DEF CallInv
    <3>3. Emit(c) \/ (FindCapture(c) /\ pc'[c] = "done")
      BY <2>2, <3>1, <3>2, MethodEdges, EnterTo DEF Edge, Placed, Inside, Open, Creation, Start
    <3>4. CASE Emit(c)
      <4>1. pc[c] = "emit" /\ remotes' = remotes
        BY <3>4 DEF Emit, Goto, tables
      <4>2. listener[s] \in {Wanted(op[c]), "none"}
        BY <2>2, <4>1 DEF ListenerInv
      <4>3. listener' = listener
        BY <3>4 DEF Emit
      <4>4. signalled'[s].kind = (IF op[c] = "Enable" THEN "Activated" ELSE "Disabled")
        BY <1>3, <2>2, <3>4, EmitSignals
      <4> QED BY <2>2, <4>2, <4>3, <4>4 DEF Agrees, Wanted
    <3>5. CASE FindCapture(c) /\ pc'[c] = "done"
      <4>1. remotes[s] = <<>> /\ remotes' = remotes
        BY <2>2, <3>5 DEF FindCapture, CaptureFound, Goto, TypeOK, CallsType
      <4> QED BY <1>3, <4>1
    <3> QED BY <3>3, <3>4, <3>5
  <2>3. CASE s = on[c] /\ (RegisterCapture(c) \/ RegisterRemote(c))
    <3>1. signalled[s] = NoSignal
      BY <1>3, <2>3, FirstRemote
    <3>2. signalled' = signalled
      BY <2>3 DEF RegisterCapture, RegisterRemote, input
    <3> QED BY <3>1, <3>2 DEF Agrees, NoSignal
  <2>4. CASE s = on[c] /\ DropRemote(c)
    <3>1. remotes'[s] = RemoveFirstOf(remotes[s])
      BY <1>1, <2>4 DEF DropRemote
    <3>2. Len(remotes[s]) <= 1 /\ remotes[s] \in Seq(Remote)
      BY <1>1, <1>3 DEF CountInv
    <3>3. remotes'[s] = <<>>
      BY <3>1, <3>2 DEF RemoveFirstOf
    <3> QED BY <1>3, <3>3
  <2>5. CASE /\ s = on[c] /\ op[c] \notin {"Enable", "Disable"}
             /\ ~(RegisterCapture(c) \/ RegisterRemote(c) \/ DropRemote(c))
    <3>1. ~FindCapture(c) /\ ~Command(c) /\ ~Emit(c)
      BY <2>5 DEF FindCapture, CaptureFound, Connect, Command, Emit, Goto, CallInv, Placed
    <3>2. /\ remotes' = remotes /\ signalled' = signalled /\ listener' = listener
          /\ s \notin unannounced
      BY <1>3, <2>5, <3>1, RemotesKept, InputChanges
    <3>3. Quiet(s)
      BY <1>1, <1>3, <2>5 DEF Quiet, CallsOn, Inside, Open
    <3> QED BY <1>2, <1>3, <3>2, <3>3 DEF Agrees
  <2> QED BY <2>1, <2>2, <2>3, <2>4, <2>5
<1>4. \A s \in Session : StartedOnce(s)' => StartedOnce(s)
  BY <1>1 DEF StartedOnce
<1>5. \A s \in Session \ unannounced' : remotes'[s] # <<>> /\ StartedOnce(s)' /\ Quiet(s)' => Agrees(s)'
  BY <1>3, <1>4
<1> QED BY <1>5 DEF ListenerFollowsSignals, Quiet, Agrees

\* Whatever Enable, Disable, ConnectToEIS and their interleaving with Close and
\* the one Start do: as long as the remote control is there and nobody is about to
\* change it, the listener does not contradict what was announced last, unless
\* the application connected again since or the bus refused a signal.
THEOREM ListenerIsAnnounced == Spec => []ListenerFollowsSignals
<1> DEFINE I == RegistryInv /\ ListenerInv /\ ListenerFollowsSignals
<1>1. Init => I
  <2> SUFFICES ASSUME Init PROVE ListenerInv /\ ListenerFollowsSignals
    BY InitRegistry
  <2> QED BY DEF Init, ListenerInv, ListenerFollowsSignals
<1>2. ASSUME I, [Next]_vars PROVE ListenerFollowsSignals'
  <2>1. ASSUME NEW c \in Call, NEW o \in Operation, NEW s \in Session, Arrive(c, o, s)
        PROVE  ListenerFollowsSignals'
    <3>1. UNCHANGED <<remotes, signalled, listener, unannounced>>
      BY <1>2, <2>1, ArriveMoves DEF RegistryInv, tables, input
    <3>2. \A t, d : d \in CallsOn(t) => d \in CallsOn(t)' /\ pc'[d] = pc[d] /\ op'[d] = op[d]
      BY <1>2, <2>1, ArriveAddsCall DEF RegistryInv
    <3>3. \A t : StartedOnce(t)' => StartedOnce(t)
      BY <3>2 DEF StartedOnce
    <3>4. \A t : \A d \in CallsOn(t) : Inside(d)' <=> Inside(d)
      BY <3>2 DEF Inside, Open
    <3> QED BY <1>2, <3>1, <3>2, <3>3, <3>4 DEF ListenerFollowsSignals
  <2>2. ASSUME UNCHANGED <<remotes, signalled, listener, unannounced, pc, op, on>> PROVE ListenerFollowsSignals'
    BY <1>2, <2>2 DEF ListenerFollowsSignals, StartedOnce, CallsOn, Inside, Open
  <2>3. ASSUME NEW c \in Call, Method(c) PROVE ListenerFollowsSignals'
    BY <1>2, <2>3, MethodFollows
  <2>4. CASE UNCHANGED vars
    BY <2>2, <2>4 DEF vars, calls, tables, input
  <2>5. ASSUME NEW c \in Call, Aside(c) PROVE ListenerFollowsSignals'
    BY <2>2, <2>5, AsideKeeps DEF calls, tables, input
  <2> QED BY <1>2, <2>1, <2>3, <2>4, <2>5 DEF Next, Aside
<1>3. I /\ [Next]_vars => I'
  BY <1>2, NextRegistry, NextListens DEF RegistryInv
<1> QED BY <1>1, <1>3, PTL DEF Spec

-----------------------------------------------------------------------------
(* What Close leaves *)

LEMMA OverlappedGrows ==
  ASSUME TypeOK, CallInv, NEW c \in Call, Method(c)
  PROVE  /\ overlapped \subseteq overlapped'
         /\ CloseSession(c) =>
              \A d \in CallsOn(on[c]) : op[d] \in Start /\ Open(d) => d \in overlapped'
<1>1. CASE CloseSession(c)
  BY <1>1 DEF CloseSession
<1>2. CASE ~CloseSession(c)
  BY <1>2 DEF Method, Enter, AppendSession, ServeSession, RegisterCapture, Select, RequestClipboard,
     FindCast, CopySession, GiveUp, SkipCast, StartThread, TakeNode, RegisterCast, FindRemote,
     RegisterRemote, EnsureClipboard, SpawnWorker, Recheck, InsertClipboard, Forward, Connect, Command,
     FindCapture, Emit, DropCast, DropRemote, DropClipboard, UnserveSession
<1> QED BY <1>1, <1>2

Registers(c) == RegisterCast(c) \/ RegisterCapture(c) \/ RegisterRemote(c)
LEMMA RegisteredGrows ==
  ASSUME TypeOK, CallInv, NEW c \in Call, Method(c), NEW s \in Session
  PROVE  /\ \A t \in ToSet(casts'[s]) : t \in ToSet(casts[s]) \/ (t = c /\ s = on[c] /\ RegisterCast(c))
         /\ \A t \in Owners(remotes'[s]) :
              t \in Owners(remotes[s]) \/ (t = c /\ s = on[c] /\ (RegisterCapture(c) \/ RegisterRemote(c)))
<1>1. \A t \in ToSet(casts'[s]) : t \in ToSet(casts[s]) \/ (t = c /\ s = on[c] /\ RegisterCast(c))
  <2>1. CASE s # on[c]
    BY <2>1, CastsChange
  <2>2. CASE s = on[c]
    <3>1. CASE RegisterCast(c)
      <4>1. ToSet(casts'[on[c]]) = ToSet(casts[on[c]]) \cup {c}
        BY <3>1, CastsChange
      <4> QED BY <2>2, <3>1, <4>1
    <3>2. CASE ~RegisterCast(c)
      <4>1. casts' = casts \/ ToSet(casts'[on[c]]) \subseteq ToSet(casts[on[c]])
        BY <3>2, CastsChange
      <4> QED BY <2>2, <4>1
    <3> QED BY <3>1, <3>2
  <2> QED BY <2>1, <2>2
<1>2. \A t \in Owners(remotes'[s]) :
        t \in Owners(remotes[s]) \/ (t = c /\ s = on[c] /\ (RegisterCapture(c) \/ RegisterRemote(c)))
  <2>1. CASE s # on[c]
    BY <2>1, OwnersChange
  <2>2. CASE s = on[c]
    BY <2>2, OwnersChange
  <2> QED BY <2>1, <2>2
<1> QED BY <1>1, <1>2

\* Whoever registers is not known to be late, unless Close saw it.
LEMMA RegistersLate ==
  ASSUME TypeOK, CallInv, CreationInv, ClosedInv, NEW c \in Call, Registers(c),
         Gone(on[c]) \/ \E d \in CallsOn(on[c]) : pc[d] \in Closing
  PROVE  c \in overlapped
<1>1. pc[c] = "register" /\ op[c] \in Start \cup {"CreateCapture"} /\ on[c] \in Session /\ c \in CallsOn(on[c])
  BY DEF Registers, RegisterCast, RegisterCapture, RegisterRemote, Goto, CallInv, Placed, CallsOn
<1>2. op[c] # "CreateCapture"
  <2> SUFFICES ASSUME op[c] = "CreateCapture" PROVE FALSE
    OBVIOUS
  <2>1. CASE Gone(on[c])
    BY <1>1, <2>1 DEF Gone, CreationInv, Creation
  <2>2. CASE \E d \in CallsOn(on[c]) : pc[d] \in Closing
    <3>1. PICK d \in CallsOn(on[c]) : pc[d] \in Closing
      BY <2>2
    <3>2. d # c
      BY <1>1, <3>1 DEF Closing
    <3> QED BY <1>1, <3>1, <3>2 DEF CreationInv, Creation
  <2> QED BY <2>1, <2>2
<1>3. local[c] # None /\ Open(c) /\ op[c] \in Start
  BY <1>1, <1>2 DEF CallInv, Copied, Open
<1> QED BY <1>3 DEF Late, ClosedInv

\* A session that comes to be known is there.
LEMMA KnownBefore ==
  ASSUME TypeOK, CallInv, CreationInv, NEW c \in Call, Method(c), NEW s \in Session, Known(s)'
  PROVE  Known(s) \/ (CallsOn(s) = {c} /\ op[c] \in Creation /\ sessions'[s] # None)
<1>1. PICK d \in CallsOn(s) : op[d] \in Creation /\ pc'[d] = "done"
  BY MethodMoves, MethodKeepsCalls DEF Known
<1>2. CASE pc[d] = "done"
  BY <1>1, <1>2 DEF Known
<1>3. CASE pc[d] # "done"
  <2>1. d = c /\ on[c] = s
    BY <1>1, <1>3, MethodMoves DEF CallsOn
  <2>2. CallsOn(s) = {c}
    BY <1>1, <1>3, <2>1 DEF CreationInv
  <2>3. Placed(c) /\ op[c] \in Creation /\ pc'[c] = "done"
    BY <1>1, <2>1 DEF CallInv
  <2>4. ServeSession(c) \/ RegisterCapture(c) \/ RegisterCast(c) \/ RegisterRemote(c)
    BY <2>3, MethodEdges, EnterTo DEF Edge, Placed, Creation, Start
  <2>5. pc[c] \in {"serve", "register"} /\ sessions' = sessions
    BY <2>4 DEF ServeSession, RegisterCapture, RegisterCast, RegisterRemote, Goto
  <2> QED BY <2>1, <2>2, <2>3, <2>5 DEF CreationInv
<1> QED BY <1>2, <1>3

LEMMA MethodLate ==
  ASSUME TypeOK, CallInv, LockInv, CreationInv, ClosedInv, NEW c \in Call, Method(c),
         NEW d \in Call, Late(d)'
  PROVE  d \in overlapped'
<1>1. /\ op' = op /\ on' = on /\ on[c] \in Session /\ c \in CallsOn(on[c])
      /\ pc[c] \notin {"idle", "done"} /\ \A e \in Call : e # c => pc'[e] = pc[e]
      /\ \A s : CallsOn(s)' = CallsOn(s)
  BY MethodMoves, MethodKeepsCalls
<1>2. op[d] \in Start /\ Open(d) /\ on[d] \in Session /\ d \in CallsOn(on[d])
  <2>1. op[d] \in Start /\ Open(d)
    BY <1>1 DEF Late, Open
  <2> QED BY <2>1 DEF Open, CallInv, Placed, CallsOn
<1> DEFINE s == on[d]
<1>3. local'[d] # None /\ (Gone(s)' \/ \E e \in CallsOn(s) : pc'[e] \in Closing)
  BY <1>1 DEF Late
<1>4. CASE local[d] = None
  <2>1. d = c /\ CopySession(c)
    BY <1>3, <1>4, MethodCopies
  <2>2. /\ sessions[s] # None /\ sessions' = sessions /\ sessionsLock = None
        /\ pc[c] = "copy"
    BY <1>3, <1>4, <2>1 DEF CopySession, Goto, tables
  <2>3. pc'[c] \notin Closing
    BY <2>2, MethodEdges DEF Edge, Closing
  <2>4. \A e \in CallsOn(s) : pc'[e] \notin Closing
    BY <1>1, <2>2, <2>3 DEF CallsOn, LockInv, SessionsHeld
  <2>5. ~Gone(s)'
    BY <1>1, <2>2 DEF Gone
  <2> QED BY <1>3, <2>4, <2>5
<1>5. CASE local[d] # None /\ \E e \in CallsOn(s) : pc[e] \in Closing
  BY <1>2, <1>5, OverlappedGrows DEF ClosedInv, Late
<1>6. CASE local[d] # None /\ ~\E e \in CallsOn(s) : pc[e] \in Closing
  <2>1. CASE \E e \in CallsOn(s) : pc'[e] \in Closing
    <3>1. PICK e \in CallsOn(s) : pc'[e] \in Closing
      BY <2>1
    <3>2. e = c /\ on[c] = s /\ pc[c] \notin Closing
      BY <1>1, <1>6, <3>1 DEF CallsOn
    <3>3. CloseSession(c)
      BY <3>1, <3>2, MethodEdges, EnterTo DEF Edge, Closing
    <3> QED BY <1>2, <3>2, <3>3, OverlappedGrows
  <2>2. CASE Gone(s)'
    <3>1. sessions'[s] = None /\ Known(s)'
      BY <1>1, <2>2 DEF Gone
    <3>2. sessions[s] = None
      <4> SUFFICES ASSUME sessions[s] # None PROVE FALSE
        OBVIOUS
      <4>1. DropClipboard(c) /\ on[c] = s
        BY <1>2, <3>1, SessionsChange
      <4>2. pc[c] \in Closing
        BY <4>1 DEF DropClipboard, Goto, Closing
      <4> QED BY <1>1, <1>6, <4>1, <4>2
    <3>3. Known(s)
      <4>1. \A r \in Session : Known(r)' => Known(r) \/ (CallsOn(r) = {c} /\ op[c] \in Creation)
        BY KnownBefore
      <4>2. PICK r \in Session : r = s
        BY <1>2
      <4>3. Known(r)'
        BY <1>1, <3>1, <4>2
      <4>4. ~(CallsOn(r) = {c} /\ op[c] \in Creation)
        BY <1>2, <4>2 DEF Start, Creation
      <4> QED BY <4>1, <4>2, <4>3, <4>4
    <3> QED BY <1>2, <1>6, <3>2, <3>3, OverlappedGrows DEF ClosedInv, Late, Gone
  <2> QED BY <1>3, <2>1, <2>2
<1> QED BY <1>4, <1>5, <1>6

LEMMA MethodCloses ==
  ASSUME RegistryInv, CastInv, ClosedInv, NEW c \in Call, Method(c)
  PROVE  ClosedInv'
<1> USE DEF RegistryInv
<1>1. /\ op' = op /\ on' = on /\ on[c] \in Session /\ c \in CallsOn(on[c])
      /\ pc[c] \notin {"idle", "done"} /\ \A e \in Call : e # c => pc'[e] = pc[e]
      /\ \A s : CallsOn(s)' = CallsOn(s)
  BY MethodMoves, MethodKeepsCalls
<1>2. ASSUME NEW s \in Session, \E d \in CallsOn(s) : pc[d] \in Closing,
             NEW t, t = c, s = on[c], Registers(c)
      PROVE  t \in overlapped
  BY <1>2, RegistersLate
<1>3. ASSUME NEW d \in Call, pc'[d] = "dropRemote"
      PROVE  ToSet(casts'[on[d]]) \subseteq overlapped'
  <2>1. CASE pc[d] = "dropRemote"
    <3>1. /\ on[d] \in Session /\ d \in CallsOn(on[d]) /\ pc[d] \in Closing
          /\ ToSet(casts[on[d]]) \subseteq overlapped
      BY <2>1 DEF CallInv, Placed, CallsOn, Closing, ClosedInv
    <3>2. \A t \in ToSet(casts'[on[d]]) : t \in overlapped
      BY <1>2, <3>1, RegisteredGrows DEF Registers
    <3> QED BY <3>2, OverlappedGrows
  <2>2. CASE pc[d] # "dropRemote"
    <3>1. d = c /\ DropCast(c)
      BY <1>1, <1>3, <2>2, MethodEdges, EnterTo DEF Edge
    <3>2. casts'[on[c]] = <<>>
      BY <1>1, <3>1, CastsChange DEF CastInv
    <3>3. ToSet(casts'[on[c]]) = {}
      BY <3>2 DEF ToSet
    <3> QED BY <3>1, <3>3
  <2> QED BY <2>1, <2>2
<1>4. ASSUME NEW d \in Call, pc'[d] = "dropClipboard", StartedOnce(on[d])
      PROVE  ToSet(casts'[on[d]]) \cup Owners(remotes'[on[d]]) \subseteq overlapped'
  <2>1. CASE pc[d] = "dropClipboard"
    <3>1. /\ on[d] \in Session /\ d \in CallsOn(on[d]) /\ pc[d] \in Closing
          /\ ToSet(casts[on[d]]) \cup Owners(remotes[on[d]]) \subseteq overlapped
      BY <1>4, <2>1, RegisteredOwners DEF CallInv, Placed, CallsOn, Closing, ClosedInv
    <3>2. \A t \in ToSet(casts'[on[d]]) \cup Owners(remotes'[on[d]]) : t \in overlapped
      BY <1>2, <3>1, RegisteredGrows DEF Registers
    <3> QED BY <3>2, OverlappedGrows
  <2>2. CASE pc[d] # "dropClipboard"
    <3>1. d = c /\ DropRemote(c)
      BY <1>1, <1>4, <2>2, MethodEdges, EnterTo DEF Edge
    <3>2. remotes'[on[c]] = RemoveFirstOf(remotes[on[c]])
      BY <1>1, <3>1 DEF DropRemote, TypeOK, TablesType
    <3>3. Len(remotes[on[c]]) <= 1 /\ remotes[on[c]] \in Seq(Remote)
      BY <1>1, <1>4, <3>1 DEF CountInv, TypeOK, TablesType
    <3>4. remotes'[on[c]] = <<>>
      BY <3>2, <3>3 DEF RemoveFirstOf
    <3>5. Owners(remotes'[on[c]]) = {}
      BY <3>4 DEF Owners
    <3>6. ToSet(casts[on[c]]) \subseteq overlapped /\ casts' = casts /\ overlapped' = overlapped
      BY <3>1 DEF DropRemote, Goto, ClosedInv
    <3> QED BY <3>1, <3>5, <3>6
  <2> QED BY <2>1, <2>2
<1>5. \A s : Registered(s)' = ToSet(casts'[s]) \cup Owners(remotes'[s])
  BY DEF Registered, Owners
<1>6. \A s : StartedOnce(s)' => StartedOnce(s)
  BY <1>1 DEF StartedOnce
<1>7. \A d \in Call : Late(d)' => d \in overlapped'
  BY MethodLate
<1> QED
  <2> SUFFICES ASSUME NEW d \in Call
               PROVE  /\ Late(d)' => d \in overlapped'
                      /\ pc'[d] = "dropRemote" => ToSet(casts'[on[d]]) \subseteq overlapped'
                      /\ pc'[d] = "dropClipboard" /\ StartedOnce(on[d])' =>
                           Registered(on[d])' \subseteq overlapped'
    BY <1>1 DEF ClosedInv
  <2>1. pc'[d] = "dropClipboard" /\ StartedOnce(on[d])' => Registered(on[d])' \subseteq overlapped'
    BY <1>1, <1>4, <1>5, <1>6
  <2> QED BY <1>3, <1>7, <2>1

LEMMA NextCloses == ASSUME RegistryInv, CastInv, ClosedInv, [Next]_vars PROVE ClosedInv'
<1> USE DEF RegistryInv
<1>1. ASSUME NEW c \in Call, NEW o \in Operation, NEW s \in Session, Arrive(c, o, s) PROVE ClosedInv'
  <2>1. /\ UNCHANGED <<sessions, casts, remotes, local, overlapped>>
        /\ pc[c] = "idle" /\ pc'[c] = "called" /\ local[c] = None
        /\ \A d \in Call : d # c => pc'[d] = pc[d] /\ op'[d] = op[d] /\ on'[d] = on[d]
    BY <1>1, ArriveMoves DEF tables, CallInv, Copied
  <2>2. \A t, d : d \in CallsOn(t) => d \in CallsOn(t)' /\ pc'[d] = pc[d] /\ op'[d] = op[d]
    BY <1>1, ArriveAddsCall
  <2>3. \A t : \A d \in CallsOn(t)' : d \in CallsOn(t) \/ d = c
    BY <1>1, ArriveAddsCall
  <2>4. \A t : StartedOnce(t)' => StartedOnce(t)
    BY <2>2 DEF StartedOnce
  <2>5. \A t : Known(t)' => Known(t)
    <3> SUFFICES ASSUME NEW t, Known(t)' PROVE Known(t)
      OBVIOUS
    <3>1. PICK d \in CallsOn(t)' : op'[d] \in Creation /\ pc'[d] = "done"
      BY DEF Known
    <3>2. d \in CallsOn(t)
      BY <2>1, <2>3, <3>1
    <3> QED BY <2>2, <3>1, <3>2 DEF Known
  <2>6. ASSUME NEW d \in Call, Late(d)' PROVE Late(d)
    <3>1. d # c /\ local[d] # None
      BY <2>1, <2>6 DEF Late
    <3>2. op[d] \in Start /\ Open(d) /\ on'[d] = on[d]
      BY <2>1, <2>6, <3>1 DEF Late, Open
    <3>3. CASE Gone(on[d])'
      BY <2>1, <2>5, <3>1, <3>2, <3>3 DEF Gone, Late
    <3>4. CASE \E e \in CallsOn(on[d])' : pc'[e] \in Closing
      <4>1. PICK e \in CallsOn(on[d])' : pc'[e] \in Closing
        BY <3>4
      <4>2. e \in Call /\ e # c /\ pc[e] \in Closing /\ on[e] = on[d]
        BY <2>1, <3>2, <4>1 DEF CallsOn, Closing
      <4>3. e \in CallsOn(on[d])
        BY <4>2 DEF CallsOn, Closing
      <4> QED BY <3>1, <3>2, <4>2, <4>3 DEF Late
    <3> QED BY <2>6, <3>3, <3>4 DEF Late
  <2>7. ASSUME NEW d \in Call, pc'[d] \in Closing PROVE pc[d] = pc'[d] /\ on'[d] = on[d]
    BY <2>1, <2>7 DEF Closing
  <2>8. \A t : Registered(t)' = Registered(t)
    BY <2>1 DEF Registered
  <2> SUFFICES ASSUME NEW d \in Call
               PROVE  /\ Late(d)' => d \in overlapped'
                      /\ pc'[d] = "dropRemote" => ToSet(casts'[on'[d]]) \subseteq overlapped'
                      /\ pc'[d] = "dropClipboard" /\ StartedOnce(on[d])' =>
                           Registered(on[d])' \subseteq overlapped'
    BY DEF ClosedInv
  <2>9. Late(d)' => d \in overlapped'
    BY <2>1, <2>6 DEF ClosedInv
  <2>10. pc'[d] = "dropRemote" => ToSet(casts'[on'[d]]) \subseteq overlapped'
    BY <2>1, <2>7 DEF ClosedInv, Closing
  <2>11. pc'[d] = "dropClipboard" /\ StartedOnce(on[d])' => Registered(on[d])' \subseteq overlapped'
    <3> HAVE pc'[d] = "dropClipboard" /\ StartedOnce(on[d])'
    <3>1. pc[d] = "dropClipboard" /\ on'[d] = on[d]
      BY <2>7 DEF Closing
    <3>2. StartedOnce(on[d])
      BY <2>4, <3>1 DEF StartedOnce
    <3>3. Registered(on[d]) \subseteq overlapped
      BY <3>1, <3>2 DEF ClosedInv
    <3> QED BY <2>1, <3>1, <3>3 DEF Registered
  <2> QED BY <2>9, <2>10, <2>11
<1>2. ASSUME UNCHANGED <<sessions, casts, remotes, local, overlapped, pc, op, on>> PROVE ClosedInv'
  BY <1>2 DEF ClosedInv, Late, Gone, Known, StartedOnce, Registered, CallsOn, Open
<1>3. ASSUME NEW c \in Call, Method(c) PROVE ClosedInv'
  BY <1>3, MethodCloses
<1>4. CASE UNCHANGED vars
  BY <1>2, <1>4 DEF vars, calls, tables
<1>5. ASSUME NEW c \in Call, Aside(c) PROVE ClosedInv'
  BY <1>2, <1>5, AsideKeeps DEF calls, tables
<1> QED BY <1>1, <1>3, <1>4, <1>5 DEF Next, Aside

LEMMA MethodOrphans ==
  ASSUME RegistryInv, CastInv, ClosedInv, OrphansOnlyFromOverlap, NEW c \in Call, Method(c)
  PROVE  OrphansOnlyFromOverlap'
<1> USE DEF RegistryInv
<1>1. /\ op' = op /\ on' = on /\ on[c] \in Session /\ c \in CallsOn(on[c])
      /\ \A e \in Call : e # c => pc'[e] = pc[e]
      /\ \A s : CallsOn(s)' = CallsOn(s)
      /\ object \in [Session -> PersistMode \cup {None}]
      /\ pc \in [Call -> Place]
  BY MethodMoves, MethodKeepsCalls DEF TypeOK, TablesType, CallsType
<1>2. ASSUME NEW s \in Session, sessions'[s] = None, Known(s)', StartedOnce(s)
      PROVE  /\ ToSet(casts'[s]) \cup Owners(remotes'[s]) \subseteq overlapped'
             /\ object'[s] # None => \E d \in CallsOn(s) : pc'[d] = "unserve"
  <2>1. Known(s)
    BY <1>2, KnownBefore
  <2>2. CASE sessions[s] # None
    <3>1. DropClipboard(c) /\ on[c] = s
      BY <1>2, <2>2, SessionsChange
    <3>2. /\ pc[c] = "dropClipboard" /\ pc'[c] = "unserve"
          /\ UNCHANGED <<casts, remotes, overlapped>>
      BY <1>1, <3>1 DEF DropClipboard, Goto
    <3>3. ToSet(casts[s]) \cup Owners(remotes[s]) \subseteq overlapped
      BY <1>2, <3>1, <3>2, RegisteredOwners DEF ClosedInv
    <3> QED BY <1>1, <3>1, <3>2, <3>3
  <2>3. CASE sessions[s] = None
    <3>1. /\ ToSet(casts[s]) \cup Owners(remotes[s]) \subseteq overlapped
          /\ object[s] # None => \E d \in CallsOn(s) : pc[d] = "unserve"
      BY <1>2, <2>1, <2>3, RegisteredOwners DEF OrphansOnlyFromOverlap
    <3>2. s = on[c] /\ Registers(c) => c \in overlapped
      BY <2>1, <2>3, RegistersLate DEF Gone
    <3>3. \A t \in ToSet(casts'[s]) \cup Owners(remotes'[s]) : t \in overlapped
      BY <3>1, <3>2, RegisteredGrows DEF Registers
    <3>4. ASSUME object'[s] # None PROVE \E d \in CallsOn(s) : pc'[d] = "unserve"
      <4>1. ~(ServeSession(c) /\ on[c] = s)
        BY <2>3 DEF ServeSession, Goto, CallInv, Placed, CreationInv
      <4>2. ~(UnserveSession(c) /\ on[c] = s)
        BY <1>1, <3>4 DEF UnserveSession
      <4>3. object'[s] = object[s]
        <5>1. CASE ServeSession(c) \/ UnserveSession(c)
          BY <1>1, <4>1, <4>2, <5>1 DEF ServeSession, UnserveSession
        <5>2. CASE ~(ServeSession(c) \/ UnserveSession(c))
          BY <5>2 DEF tables, Method, Enter, AppendSession, RegisterCapture, Select, RequestClipboard,
             FindCast, CopySession, GiveUp, SkipCast, StartThread, TakeNode, RegisterCast, FindRemote,
             RegisterRemote, EnsureClipboard, SpawnWorker, Recheck, InsertClipboard, Forward, Connect, Command,
             FindCapture, Emit, CloseSession, DropCast, DropRemote, DropClipboard
        <5> QED BY <5>1, <5>2
      <4>4. PICK d \in CallsOn(s) : pc[d] = "unserve"
        BY <3>1, <3>4, <4>3
      <4>5. pc'[d] = "unserve"
        <5>1. d # c
          <6> SUFFICES ASSUME d = c PROVE FALSE
            OBVIOUS
          <6>1. UnserveSession(c)
            BY <4>4, MethodEdges DEF Edge
          <6> QED BY <4>2, <4>4, <6>1 DEF CallsOn
        <5> QED BY <1>1, <4>4, <5>1 DEF CallsOn
      <4> QED BY <4>4, <4>5
    <3> QED BY <3>3, <3>4, OverlappedGrows
  <2> QED BY <2>2, <2>3
<1>3. \A s : Registered(s)' = ToSet(casts'[s]) \cup Owners(remotes'[s])
  BY DEF Registered, Owners
<1>4. \A s : StartedOnce(s)' => StartedOnce(s)
  BY <1>1 DEF StartedOnce
<1> QED
  <2> SUFFICES ASSUME NEW s \in Session, sessions'[s] = None, Known(s)', StartedOnce(s)'
               PROVE  /\ Registered(s)' \subseteq overlapped'
                      /\ object'[s] # None => \E d \in CallsOn(s) : pc'[d] = "unserve"
    BY <1>1 DEF OrphansOnlyFromOverlap
  <2> QED BY <1>2, <1>3, <1>4

\* Close leaves nothing behind of a session that is started once, however many
\* calls of whatever kind are in progress: what is still registered for it
\* belongs to a Start that was in progress when Close began.
THEOREM ClosedLeavesNothing == Spec => []OrphansOnlyFromOverlap
<1> DEFINE I == /\ RegistryInv /\ AskedInv /\ ClipboardInv /\ CastInv /\ ThreadInv
                /\ ClosedInv /\ OrphansOnlyFromOverlap
<1>1. Init => I
  <2> SUFFICES ASSUME Init PROVE ClosedInv /\ OrphansOnlyFromOverlap
    BY InitRegistry, InitClipboards, InitThreads
  <2> QED BY DEF Init, ClosedInv, Late, OrphansOnlyFromOverlap, Known, CallsOn
<1>2. ASSUME RegistryInv, CastInv, ClosedInv, OrphansOnlyFromOverlap, [Next]_vars
      PROVE  OrphansOnlyFromOverlap'
  <2> USE DEF RegistryInv
  <2>1. ASSUME NEW c \in Call, NEW o \in Operation, NEW s \in Session, Arrive(c, o, s)
        PROVE  OrphansOnlyFromOverlap'
    <3>1. UNCHANGED <<sessions, object, casts, remotes, overlapped>> /\ pc[c] = "idle" /\ pc'[c] = "called"
      BY <1>2, <2>1, ArriveMoves DEF tables
    <3>2. \A t, d : d \in CallsOn(t) => d \in CallsOn(t)' /\ pc'[d] = pc[d] /\ op'[d] = op[d]
      BY <1>2, <2>1, ArriveAddsCall
    <3>3. \A t : \A d \in CallsOn(t)' : d \in CallsOn(t) \/ d = c
      BY <1>2, <2>1, ArriveAddsCall
    <3>4. \A t : StartedOnce(t)' => StartedOnce(t)
      BY <3>2 DEF StartedOnce
    <3>5. \A t : Known(t)' => Known(t)
      BY <3>1, <3>2, <3>3 DEF Known
    <3>6. \A t : Registered(t)' = Registered(t)
      BY <3>1 DEF Registered
    <3> SUFFICES ASSUME NEW t \in Session, sessions'[t] = None, Known(t)', StartedOnce(t)'
                 PROVE  /\ Registered(t)' \subseteq overlapped'
                        /\ object'[t] # None => \E d \in CallsOn(t)' : pc'[d] = "unserve"
      BY DEF OrphansOnlyFromOverlap
    <3>7. /\ Registered(t) \subseteq overlapped
          /\ object[t] # None => \E d \in CallsOn(t) : pc[d] = "unserve"
      BY <1>2, <3>1, <3>4, <3>5 DEF OrphansOnlyFromOverlap
    <3> QED BY <3>1, <3>2, <3>6, <3>7
  <2>2. ASSUME UNCHANGED <<sessions, object, casts, remotes, overlapped, pc, op, on>>
        PROVE  OrphansOnlyFromOverlap'
    BY <1>2, <2>2 DEF OrphansOnlyFromOverlap, Known, StartedOnce, Registered, CallsOn
  <2>3. ASSUME NEW c \in Call, Method(c) PROVE OrphansOnlyFromOverlap'
    BY <1>2, <2>3, MethodOrphans
  <2>4. CASE UNCHANGED vars
    BY <2>2, <2>4 DEF vars, calls, tables
  <2>5. ASSUME NEW c \in Call, Aside(c) PROVE OrphansOnlyFromOverlap'
    BY <2>2, <2>5, AsideKeeps DEF calls, tables
  <2> QED BY <1>2, <2>1, <2>3, <2>4, <2>5 DEF Next, Aside
<1>3. I /\ [Next]_vars => I'
  BY <1>2, NextRegistry, NextAsks, NextClipboards, NextCasts, NextThreads, NextCloses DEF RegistryInv
<1> QED BY <1>1, <1>3, PTL DEF Spec

=============================================================================
