--------------------------- MODULE AppScopesProofs ---------------------------
(***************************************************************************)
(* The background monitor for every number of units, applications and      *)
(* windows.  The two maps of its tracker agree after any listings and      *)
(* signals in any order, and so what insert_unit, remove_unit and          *)
(* reconcile_units report is exactly that the set of applications changed. *)
(*                                                                         *)
(* Whatever the frontend was last answered is the present state once the   *)
(* monitor is quiet.  That cannot be shown of the quiet states alone: the  *)
(* invariant says of every state that the watcher, on its way through what *)
(* it has yet to hear, comes to the units that run (ReachInv), and for     *)
(* each application through the answered state before that (ViewInv).      *)
(***************************************************************************)
EXTENDS AppScopes, FiniteSetTheorems, TLAPS

-----------------------------------------------------------------------------
(* The methods of the tracker *)

\* A tracker knows units of finite number, each of some application.
LEMMA UnitsAreFinite ==
  ASSUME NEW us \in SUBSET Unit, NEW a
  PROVE  IsFiniteSet(us) /\ IsFiniteSet(UnitsOf(us, a))
<1>1. UnitsOf(us, a) \subseteq Unit
  BY DEF UnitsOf
<1> QED BY <1>1, ScopeAssumption, FS_Subset

\* An application is known exactly when some unit of it is counted.
LEMMA CountIsPositive ==
  ASSUME NEW us \in SUBSET Unit, NEW a \in AppsOf(us)
  PROVE  Cardinality(UnitsOf(us, a)) \in Nat \ {0}
<1>1. UnitsOf(us, a) # {}
  BY DEF UnitsOf, AppsOf
<1>2. IsFiniteSet(UnitsOf(us, a))
  BY UnitsAreFinite
<1> QED BY <1>1, <1>2, FS_CardinalityType, FS_EmptySet

\* CountOf reads the number of units of an application, 0 when it has none.
LEMMA CountOfCounts ==
  ASSUME NEW t, IsTracker(t), CountsAgreeIn(t), NEW a \in AppId
  PROVE  /\ CountOf(t, a) = Cardinality(UnitsOf(t.units, a))
         /\ CountOf(t, a) \in Nat
         /\ CountOf(t, a) = 0 <=> a \notin AppIds(t)
<1>1. t.units \in SUBSET Unit
  BY DEF IsTracker
<1>2. CASE a \in AppIds(t)
  BY <1>1, <1>2, CountIsPositive DEF CountOf, CountsAgreeIn
<1>3. CASE a \notin AppIds(t)
  <2>1. UnitsOf(t.units, a) = {}
    <3>1. a # None
      BY ScopeAssumption
    <3> QED BY <1>3, <3>1 DEF CountsAgreeIn, AppsOf, UnitsOf
  <2> QED BY <1>3, <2>1, FS_EmptySet DEF CountOf
<1> QED BY <1>2, <1>3

\* insert_unit keeps a tracker whose maps agree, and returns whether the set of
\* applications grew.
LEMMA InsertAgrees ==
  ASSUME NEW t, IsTracker(t), CountsAgreeIn(t), NEW u \in Unit
  PROVE  /\ IsTracker(InsertUnit(t, u))
         /\ CountsAgreeIn(InsertUnit(t, u))
         /\ AppStarted(t, u) <=> AppIds(InsertUnit(t, u)) # AppIds(t)
<1>1. CASE Ignored(t, u)
  BY <1>1 DEF InsertUnit, AppStarted
<1>2. CASE ~Ignored(t, u)
  <2> DEFINE new == InsertUnit(t, u)
             b == AppOf[u]
  <2>1. b \in AppId /\ b # None /\ u \notin t.units
    BY <1>2, ScopeAssumption DEF Ignored
  <2>2. /\ new.units = t.units \cup {u}
        /\ AppIds(new) = AppIds(t) \cup {b}
        /\ new.counts = [a \in AppIds(t) \cup {b} |->
                           IF a = b THEN CountOf(t, b) + 1 ELSE t.counts[a]]
        /\ new = [units |-> new.units, counts |-> new.counts]
    BY <1>2 DEF InsertUnit, AppIds, CountOf
  <2>3. CountOf(t, b) \in Nat /\ CountOf(t, b) = Cardinality(UnitsOf(t.units, b))
    BY <2>1, CountOfCounts
  <2>4. IsTracker(new)
    BY <2>1, <2>2, <2>3 DEF IsTracker
  <2>5. AppIds(new) = AppsOf(new.units)
    BY <2>1, <2>2 DEF CountsAgreeIn, AppsOf
  <2>6. ASSUME NEW a \in AppIds(new)
        PROVE  new.counts[a] = Cardinality(UnitsOf(new.units, a))
    <3>1. CASE a = b
      <4>1. UnitsOf(new.units, b) = UnitsOf(t.units, b) \cup {u}
        BY <2>2 DEF UnitsOf
      <4>2. u \notin UnitsOf(t.units, b) /\ IsFiniteSet(UnitsOf(t.units, b))
        BY <2>1, UnitsAreFinite DEF UnitsOf, IsTracker
      <4>3. Cardinality(UnitsOf(new.units, b)) = Cardinality(UnitsOf(t.units, b)) + 1
        BY <4>1, <4>2, FS_AddElement
      <4> QED BY <3>1, <4>3, <2>2, <2>3
    <3>2. CASE a # b
      <4>1. UnitsOf(new.units, a) = UnitsOf(t.units, a)
        BY <3>2, <2>2 DEF UnitsOf
      <4>2. a \in AppIds(t) /\ new.counts[a] = t.counts[a]
        BY <3>2, <2>2
      <4> QED BY <4>1, <4>2 DEF CountsAgreeIn
    <3> QED BY <3>1, <3>2
  <2>7. AppStarted(t, u) <=> AppIds(new) # AppIds(t)
    BY <1>2, <2>1, <2>2, CountOfCounts DEF AppStarted
  <2> QED BY <2>4, <2>5, <2>6, <2>7 DEF CountsAgreeIn
<1> QED BY <1>1, <1>2

\* remove_unit keeps a tracker whose maps agree, and returns whether the set of
\* applications shrank.
LEMMA RemoveAgrees ==
  ASSUME NEW t, IsTracker(t), CountsAgreeIn(t), NEW u \in Unit
  PROVE  /\ IsTracker(RemoveUnit(t, u))
         /\ CountsAgreeIn(RemoveUnit(t, u))
         /\ AppStopped(t, u) <=> AppIds(RemoveUnit(t, u)) # AppIds(t)
<1>1. CASE u \notin t.units
  BY <1>1 DEF RemoveUnit, AppStopped
<1>2. CASE u \in t.units
  <2> DEFINE new == RemoveUnit(t, u)
             b == AppOf[u]
             left == {c \in AppIds(t) : c # b \/ t.counts[c] > 1}
  <2>1. b \in AppId /\ b # None /\ b \in AppIds(t)
    BY <1>2, ScopeAssumption DEF IsTracker, CountsAgreeIn, AppsOf
  <2>2. /\ new.units = t.units \ {u}
        /\ AppIds(new) = left
        /\ new.counts = [a \in left |-> IF a = b THEN t.counts[a] - 1 ELSE t.counts[a]]
        /\ new = [units |-> new.units, counts |-> new.counts]
    BY <1>2 DEF RemoveUnit, AppIds
  <2>3. /\ t.counts[b] = Cardinality(UnitsOf(t.units, b))
        /\ t.counts[b] \in Nat \ {0} /\ CountOf(t, b) = t.counts[b]
    BY <2>1, CountOfCounts DEF CountOf
  <2>4. IsTracker(new)
    <3>1. \A a \in left : (IF a = b THEN t.counts[a] - 1 ELSE t.counts[a]) \in Nat
      BY <2>3 DEF IsTracker
    <3> QED BY <3>1, <2>2 DEF IsTracker
  <2>5. UnitsOf(t.units, b) = UnitsOf(new.units, b) \cup {u} /\ u \notin new.units
    BY <1>2, <2>2 DEF UnitsOf
  <2>6. /\ Cardinality(UnitsOf(new.units, b)) = t.counts[b] - 1
        /\ IsFiniteSet(UnitsOf(new.units, b))
    <3>1. IsFiniteSet(UnitsOf(new.units, b)) /\ u \notin UnitsOf(new.units, b)
      BY <2>2, <2>5, UnitsAreFinite DEF IsTracker, UnitsOf
    <3>2. Cardinality(UnitsOf(t.units, b)) = Cardinality(UnitsOf(new.units, b)) + 1
      BY <3>1, <2>5, FS_AddElement
    <3>3. Cardinality(UnitsOf(new.units, b)) \in Nat
      BY <3>1, FS_CardinalityType
    <3> QED BY <3>1, <3>2, <3>3, <2>3
  <2>7. \A a : a # b => UnitsOf(new.units, a) = UnitsOf(t.units, a)
    BY <2>2 DEF UnitsOf
  <2>8. b \in AppsOf(new.units) <=> t.counts[b] > 1
    <3>1. UnitsOf(new.units, b) = {} <=> t.counts[b] = 1
      BY <2>6, <2>3, FS_EmptySet
    <3> QED BY <3>1, <2>1, <2>3 DEF UnitsOf, AppsOf
  <2>9. AppIds(new) = AppsOf(new.units)
    <3>1. \A a : a # b => (a \in AppsOf(new.units) <=> a \in AppsOf(t.units))
      BY <2>7 DEF AppsOf, UnitsOf
    <3> QED BY <3>1, <2>1, <2>2, <2>8 DEF CountsAgreeIn
  <2>10. ASSUME NEW a \in AppIds(new)
         PROVE  new.counts[a] = Cardinality(UnitsOf(new.units, a))
    BY <2>2, <2>6, <2>7 DEF CountsAgreeIn
  <2>11. AppStopped(t, u) <=> AppIds(new) # AppIds(t)
    BY <1>2, <2>1, <2>2, <2>3 DEF AppStopped
  <2> QED BY <2>4, <2>9, <2>10, <2>11 DEF CountsAgreeIn
<1> QED BY <1>1, <1>2

\* rebuild_from_unit_names makes a tracker whose maps agree.
LEMMA RebuildAgrees ==
  ASSUME NEW us \in SUBSET Unit
  PROVE  IsTracker(Rebuild(us)) /\ CountsAgreeIn(Rebuild(us))
<1> DEFINE new == Rebuild(us)
<1>1. /\ new.units = {u \in us : AppOf[u] # None}
      /\ AppIds(new) = AppsOf(us)
      /\ new.counts = [a \in AppsOf(us) |-> Cardinality(UnitsOf(us, a))]
      /\ new = [units |-> new.units, counts |-> new.counts]
  BY DEF Rebuild, AppIds
<1>2. AppsOf(new.units) = AppsOf(us) /\ AppsOf(us) \subseteq AppId
  BY <1>1, ScopeAssumption DEF AppsOf
<1>3. \A a \in AppsOf(us) : UnitsOf(new.units, a) = UnitsOf(us, a)
  BY <1>1 DEF UnitsOf, AppsOf
<1>4. \A a \in AppsOf(us) : Cardinality(UnitsOf(us, a)) \in Nat
  BY CountIsPositive
<1> QED BY <1>1, <1>2, <1>3, <1>4 DEF IsTracker, CountsAgreeIn

-----------------------------------------------------------------------------
(* The tasks *)

\* get_app_state_impl answers with a status for some application ids.
LEMMA AppStateType ==
  ASSUME NEW scopes \in SUBSET AppId, NEW tops \in SUBSET AppId
  PROVE  AppState(scopes, tops) \in UNION {[A -> AppStatus] : A \in SUBSET AppId}
<1> DEFINE shown == {NameFor(w, scopes) : w \in tops}
<1>1. ASSUME NEW w \in tops
      PROVE  NameFor(w, scopes) \in AppId
  <2>1. CASE w \in scopes \/ Cardinality(Alike(w, scopes)) # 1
    BY <2>1 DEF NameFor
  <2>2. CASE ~(w \in scopes \/ Cardinality(Alike(w, scopes)) # 1)
    <3>1. Alike(w, scopes) # {}
      BY <2>2, FS_EmptySet
    <3>2. (CHOOSE s \in Alike(w, scopes) : TRUE) \in Alike(w, scopes)
      BY <3>1
    <3> QED BY <2>2, <3>2 DEF NameFor, Alike
  <2> QED BY <2>1, <2>2
<1>2. scopes \cup shown \in SUBSET AppId
  BY <1>1
<1>3. AppState(scopes, tops) \in [scopes \cup shown -> AppStatus]
  BY DEF AppState, AppStatus
<1> QED BY <1>2, <1>3

\* Taking a signal out of the streams leaves signals.
LEMMA RemoveAtType ==
  ASSUME NEW S, NEW s \in Seq(S), NEW i \in DOMAIN s
  PROVE  RemoveAt(s, i) \in Seq(S)
<1>1. i \in 1 .. Len(s)
  OBVIOUS
<1>2. SubSeq(s, 1, i - 1) \in Seq(S) /\ SubSeq(s, i + 1, Len(s)) \in Seq(S)
  BY <1>1
<1> QED BY <1>2 DEF RemoveAt

TypedAndAgreeing == TypeOK /\ CountsAgree

\* At the start the tracker is empty.
LEMMA InitTyped == Init => TypedAndAgreeing
<1> SUFFICES ASSUME Init PROVE TypedAndAgreeing
  OBVIOUS
<1>1. IsTracker(EmptyTracker) /\ CountsAgreeIn(EmptyTracker)
  BY DEF IsTracker, CountsAgreeIn, EmptyTracker, AppIds, AppsOf
<1>2. view \in UNION {[A -> AppStatus] : A \in SUBSET AppId}
  <2>1. view \in [{} -> AppStatus] /\ {} \in SUBSET AppId
    BY DEF Init
  <2> QED BY <2>1
<1>3. wire \in Seq(UnitSignal) /\ channel \in Seq(Event) /\ Len(channel) = 0
  BY DEF Init
<1>4. IsTracker(tracker) /\ CountsAgree
  BY <1>1 DEF Init, CountsAgree
<1>5. Len(channel) <= ChannelSize /\ disturbances \in 0 .. MaxDisturbances
  BY <1>3, MonitorAssumption DEF Init
<1>6. /\ live \subseteq spent /\ spent \subseteq Unit /\ windows \subseteq WindowId
      /\ phase \in Phase /\ listing \in SUBSET Unit
      /\ watcher \in {"starting", "unseeded", "seeded"} /\ lastWindowed \subseteq AppId
      /\ told \in BOOLEAN /\ query \in (SUBSET Unit) \cup {None}
      /\ crossed \subseteq AppId /\ changed \subseteq AppId /\ flickered \subseteq AppId
      /\ blind \subseteq {"scopes", "windows"}
  BY DEF Init, Phase
<1> QED BY <1>2, <1>3, <1>4, <1>5, <1>6 DEF TypedAndAgreeing, TypeOK

\* Every signal, listing and restart keeps the types, and the two maps agree:
\* TypeOK says that the units of the channel are units, which it rests on.
LEMMA NextTyped == TypedAndAgreeing /\ [Next]_vars => TypedAndAgreeing'
<1> SUFFICES ASSUME TypedAndAgreeing, [Next]_vars PROVE TypedAndAgreeing'
  OBVIOUS
<1> USE MonitorAssumption DEF TypedAndAgreeing, TypeOK, CountsAgree
<1>1. ASSUME NEW u \in Unit, UnitStarts(u) PROVE TypedAndAgreeing'
  <2>1. New(u) \in UnitSignal
    BY DEF New, UnitSignal
  <2>2. wire' \in Seq(UnitSignal)
    BY <1>1, <2>1 DEF UnitStarts, Emit
  <2> QED BY <1>1, <2>2 DEF UnitStarts, monitor, frontend, windowHistory
<1>2. ASSUME NEW u \in Unit, UnitStops(u) PROVE TypedAndAgreeing'
  <2>1. Removed(u) \in UnitSignal
    BY DEF Removed, UnitSignal
  <2>2. wire' \in Seq(UnitSignal)
    BY <1>2, <2>1 DEF UnitStops, Emit
  <2> QED BY <1>2, <2>2 DEF UnitStops, monitor, frontend, windowHistory
<1>3. ASSUME NEW a \in WindowId, WindowChanges(a) PROVE TypedAndAgreeing'
  BY <1>3 DEF WindowChanges, Disturbs, forwarder, monitor, frontend
<1>4. CASE Subscribe
  BY <1>4 DEF Subscribe, Phase, world, monitor, frontend, windowHistory
<1>5. CASE ListUnits
  BY <1>5 DEF ListUnits, Phase, world, monitor, frontend, windowHistory
<1>6. CASE SendListing
  BY <1>6 DEF SendListing, Room, Reconcile, Event, Phase, world, monitor, frontend, windowHistory
<1>7. ASSUME NEW i \in DOMAIN wire, ForwardSignal(i) PROVE TypedAndAgreeing'
  <2>1. wire[i] \in UnitSignal /\ RemoveAt(wire, i) \in Seq(UnitSignal)
    BY RemoveAtType
  <2>2. Overtaken(i) \subseteq AppId
    <3>1. AppOf[wire[i].unit] \in AppId \cup {None}
      BY <2>1, ScopeAssumption DEF UnitSignal
    <3> QED BY <3>1 DEF Overtaken, AppsOf
  <2> QED BY <1>7, <2>1, <2>2
          DEF ForwardSignal, Room, Event, world, monitor, frontend, windowHistory
<1>8. CASE StreamsEnd
  BY <1>8 DEF StreamsEnd, Disturbs, Phase, world, monitor, frontend, windowHistory
<1>9. CASE StartWatching
  BY <1>9 DEF StartWatching, Disturbs, world, forwarder, frontend
<1>10. CASE TakeSignal
  <2>1. channel # <<>> /\ Head(channel) \in Event /\ Tail(channel) \in Seq(Event)
        /\ Len(Tail(channel)) <= ChannelSize
    BY <1>10 DEF TakeSignal
  <2>2. Head(channel).kind \in {"New", "Removed"} /\ Head(channel).unit \in Unit
    BY <1>10, <2>1 DEF TakeSignal, Event, UnitSignal
  <2>3. IsTracker(tracker') /\ CountsAgreeIn(tracker')
    BY <1>10, <2>2, InsertAgrees, RemoveAgrees DEF TakeSignal
  <2> QED BY <1>10, <2>1, <2>3 DEF TakeSignal, Announce, world, forwarder, windowHistory
<1>11. CASE TakeListing
  <2>1. channel # <<>> /\ Head(channel) \in Event /\ Tail(channel) \in Seq(Event)
        /\ Len(Tail(channel)) <= ChannelSize
    BY <1>11 DEF TakeListing
  <2>2. Head(channel).units \in SUBSET Unit
    BY <1>11, <2>1 DEF TakeListing, Event, UnitSignal
  <2>3. IsTracker(tracker') /\ CountsAgreeIn(tracker')
    BY <1>11, <2>2, RebuildAgrees DEF TakeListing
  <2> QED BY <1>11, <2>1, <2>3 DEF TakeListing, Announce, world, forwarder, windowHistory
<1>12. CASE PollWindows
  BY <1>12 DEF PollWindows, Poll, Announce, world, forwarder
<1>13. CASE AskAppState
  <2>1. blind' \subseteq {"scopes", "windows"}
    <3>1. blind' = blind \cup {"scopes"} \/ blind' = blind \ {"scopes"}
      BY <1>13 DEF AskAppState, Read
    <3> QED BY <3>1
  <2>2. query' \in (SUBSET Unit) \cup {None} /\ told' = FALSE
        /\ disturbances' \in 0 .. MaxDisturbances
    <3>1. \/ query' = live /\ UNCHANGED disturbances
          \/ query' = {} /\ Disturbs
      BY <1>13 DEF AskAppState
    <3>2. told' = FALSE
      BY <1>13 DEF AskAppState
    <3> QED BY <3>1, <3>2 DEF Disturbs
  <2>3. UNCHANGED <<world, forwarder, channel, monitor, view, crossed, windowHistory>>
    BY <1>13 DEF AskAppState
  <2> QED BY <2>1, <2>2, <2>3 DEF world, forwarder, monitor, windowHistory
<1>14. CASE AnswerAppState
  <2>1. query \in SUBSET Unit
    BY <1>14 DEF AnswerAppState
  <2>2. AppsOf(query) \subseteq AppId
    BY <2>1, ScopeAssumption DEF AppsOf
  <2>3. view' \in UNION {[A -> AppStatus] : A \in SUBSET AppId}
    <3>1. view' = AppState(AppsOf(query), windows) \/ view' = AppState(AppsOf(query), {})
      BY <1>14 DEF AnswerAppState
    <3>2. windows \in SUBSET AppId /\ {} \in SUBSET AppId
      OBVIOUS
    <3>3. \A tops \in SUBSET AppId :
            AppState(AppsOf(query), tops) \in UNION {[A -> AppStatus] : A \in SUBSET AppId}
      BY <2>2, AppStateType
    <3> QED BY <3>1, <3>2, <3>3
  <2>4. blind' \subseteq {"scopes", "windows"}
    <3>1. blind' = blind \cup {"windows"} \/ blind' = blind \ {"windows"}
      BY <1>14 DEF AnswerAppState, Read
    <3> QED BY <3>1
  <2>5. query' = None /\ flickered' \subseteq AppId
        /\ disturbances' \in 0 .. MaxDisturbances
    <3>1. \/ flickered' = {} /\ UNCHANGED disturbances
          \/ UNCHANGED flickered /\ Disturbs
      BY <1>14 DEF AnswerAppState
    <3>2. query' = None
      BY <1>14 DEF AnswerAppState
    <3> QED BY <3>1, <3>2 DEF Disturbs
  <2>6. UNCHANGED <<world, forwarder, channel, monitor, told, crossed, changed>>
    BY <1>14 DEF AnswerAppState
  <2> QED BY <2>3, <2>4, <2>5, <2>6 DEF world, forwarder, monitor
<1>15. CASE UNCHANGED vars
  BY <1>15 DEF vars, world, forwarder, monitor, frontend, windowHistory
<1> QED BY <1>1, <1>2, <1>3, <1>4, <1>5, <1>6, <1>7, <1>8, <1>9, <1>10, <1>11,
           <1>12, <1>13, <1>14, <1>15 DEF Next, Forwarder, Watcher, Frontend

\* The monitor's state is of its types, and the two maps of the tracker agree
\* after every signal, listing and restart.
THEOREM MonitorKeepsCounts == Spec => [](TypeOK /\ CountsAgree)
<1> QED BY InitTyped, NextTyped, PTL DEF Spec, TypedAndAgreeing

\* What a step tells the frontend.
Announced ==
  /\ watcher = "seeded" /\ AppIds(tracker') # AppIds(tracker) => told'
  /\ Watching /\ lastWindowed' # lastWindowed => told'
  /\ ~told /\ told' => \/ AppIds(tracker') # AppIds(tracker)
                       \/ lastWindowed' # lastWindowed

\* What insert_unit, remove_unit and reconcile_units report decides the signal.
LEMMA NextAnnounces == TypedAndAgreeing /\ [Next]_vars => [Announced]_vars
<1> USE DEF Announced
<1> SUFFICES ASSUME TypeOK, CountsAgree, Next PROVE Announced
  BY DEF TypedAndAgreeing
<1>1. CASE TakeSignal
  <2>1. Head(channel) \in Event
    BY <1>1 DEF TypeOK, TakeSignal
  <2>2. Head(channel).unit \in Unit
    BY <1>1, <2>1 DEF TakeSignal, Event, UnitSignal
  <2>3. IsTracker(tracker) /\ CountsAgreeIn(tracker)
    BY DEF TypeOK, CountsAgree
  <2>4. CASE tracker' = InsertUnit(tracker, Head(channel).unit)
             /\ Announce(AppStarted(tracker, Head(channel).unit))
    <3>1. AppStarted(tracker, Head(channel).unit) <=> AppIds(tracker') # AppIds(tracker)
      BY <2>2, <2>3, <2>4, InsertAgrees
    <3> QED BY <1>1, <2>4, <3>1 DEF TakeSignal, Announce, TypeOK
  <2>5. CASE tracker' = RemoveUnit(tracker, Head(channel).unit)
             /\ Announce(AppStopped(tracker, Head(channel).unit))
    <3>1. AppStopped(tracker, Head(channel).unit) <=> AppIds(tracker') # AppIds(tracker)
      BY <2>2, <2>3, <2>5, RemoveAgrees
    <3> QED BY <1>1, <2>5, <3>1 DEF TakeSignal, Announce, TypeOK
  <2> QED BY <1>1, <2>4, <2>5 DEF TakeSignal
<1>2. CASE TakeListing
  BY <1>2 DEF TakeListing, Announce, AppSetChanged, TypeOK
<1>3. CASE PollWindows
  BY <1>3 DEF PollWindows, Poll, Announce, TypeOK
<1>4. CASE StartWatching
  BY <1>4 DEF StartWatching, Watching, frontend
<1>5. CASE AskAppState \/ AnswerAppState
  <2>1. UNCHANGED monitor /\ (told' = FALSE \/ told' = told)
    BY <1>5 DEF AskAppState, AnswerAppState
  <2> QED BY <2>1 DEF monitor, TypeOK
<1>6. CASE UNCHANGED <<monitor, frontend>>
  BY <1>6 DEF monitor, frontend
<1>7. ASSUME \/ \E u \in Unit : UnitStarts(u) \/ UnitStops(u)
             \/ \E a \in WindowId : WindowChanges(a)
             \/ Forwarder \/ StreamsEnd
      PROVE  UNCHANGED <<monitor, frontend>>
  BY <1>7 DEF UnitStarts, UnitStops, WindowChanges, Forwarder, Subscribe, ListUnits,
              SendListing, ForwardSignal, StreamsEnd
<1> QED BY <1>1, <1>2, <1>3, <1>4, <1>5, <1>6, <1>7 DEF Next, Watcher, Frontend

\* The agreement of the maps makes every announcement a real change of the
\* application set or of the windows, and every such change announced.
THEOREM MonitorAnnouncesChanges == Spec => AnnouncesChanges
<1>1. TypeOK /\ CountsAgree /\ [Next]_vars => [Announced]_vars
  BY NextAnnounces DEF TypedAndAgreeing
<1>2. Spec => [](TypeOK /\ CountsAgree)
  BY MonitorKeepsCounts
<1> QED BY <1>1, <1>2, PTL DEF Spec, AnnouncesChanges, Announced

-----------------------------------------------------------------------------
(***************************************************************************)
(* That the frontend's last answer is current needs to be known before the *)
(* monitor is quiet.  Pipeline is what the watcher has yet to hear; what   *)
(* the frontend was answered is then current for some point of it, so that *)
(* the tracker comes to the present state through the answered one, and    *)
(* announces every change on its way.                                      *)
(***************************************************************************)

\* Whether an event of the channel says something about a unit, and what.
Mentions(e, u) == e.kind = "Reconcile" \/ e.unit = u
Runs(e, u) == IF e.kind = "Reconcile" THEN u \in e.units ELSE e.kind = "New"

\* Whether a unit is known after the first n events of p to one who starts with
\* the units of K: by the last event that mentions it.
Knows(K, p, n, u) ==
  \/ u \in K /\ \A i \in 1 .. n : ~Mentions(p[i], u)
  \/ \E i \in 1 .. n : /\ Mentions(p[i], u) /\ Runs(p[i], u)
                       /\ \A j \in i + 1 .. n : ~Mentions(p[j], u)

KnowsApp(K, p, n, a) == \E u \in Unit : AppOf[u] = a /\ Knows(K, p, n, u)

\* Nothing is learnt from no event.
LEMMA KnowsAtFirst ==
  ASSUME NEW K, NEW p, NEW u
  PROVE  Knows(K, p, 0, u) <=> u \in K
BY DEF Knows

\* What one event adds.
LEMMA KnowsNext ==
  ASSUME NEW K, NEW p, NEW n \in Nat, NEW u
  PROVE  Knows(K, p, n + 1, u) <=>
           IF Mentions(p[n + 1], u) THEN Runs(p[n + 1], u) ELSE Knows(K, p, n, u)
<1>1. CASE Mentions(p[n + 1], u)
  <2>1. n + 1 \in 1 .. n + 1 /\ \A j \in n + 1 + 1 .. n + 1 : FALSE
    OBVIOUS
  <2>2. \A i \in 1 .. n + 1 : (\A j \in i + 1 .. n + 1 : ~Mentions(p[j], u)) => i = n + 1
    <3> SUFFICES ASSUME NEW i \in 1 .. n + 1, i # n + 1
                 PROVE  n + 1 \in i + 1 .. n + 1
      BY <1>1
    <3> QED OBVIOUS
  <2> QED BY <1>1, <2>1, <2>2 DEF Knows
<1>2. CASE ~Mentions(p[n + 1], u)
  <2>1. \A i \in 1 .. n + 1 : i \in 1 .. n \/ i = n + 1
    OBVIOUS
  <2>2. 1 .. n \subseteq 1 .. n + 1
    OBVIOUS
  <2>3. \A i \in 1 .. n : (\A j \in i + 1 .. n + 1 : ~Mentions(p[j], u)) <=>
                          (\A j \in i + 1 .. n : ~Mentions(p[j], u))
    <3>1. \A i \in 1 .. n, j \in Int : j \in i + 1 .. n + 1 <=> j \in i + 1 .. n \/ j = n + 1
      OBVIOUS
    <3>2. \A i \in 1 .. n : i + 1 .. n + 1 \subseteq Int /\ i + 1 .. n \subseteq Int
      OBVIOUS
    <3> QED BY <1>2, <3>1, <3>2
  <2> QED BY <1>2, <2>1, <2>2, <2>3 DEF Knows
<1> QED BY <1>1, <1>2

\* Only the events heard so far count.
LEMMA KnowsOfPrefix ==
  ASSUME NEW K, NEW p, NEW q, NEW n \in Nat, NEW u, \A i \in 1 .. n : p[i] = q[i]
  PROVE  Knows(K, p, n, u) <=> Knows(K, q, n, u)
<1>1. \A i \in 1 .. n : \A j \in i + 1 .. n : p[j] = q[j]
  OBVIOUS
<1> QED BY <1>1 DEF Knows

\* The first event may be counted among the events or in what is known.
LEMMA KnowsOfTail ==
  ASSUME NEW K, NEW L, NEW p, NEW q, NEW n \in Nat, NEW u,
         \A i \in 1 .. n : q[i] = p[i + 1],
         u \in L <=> IF Mentions(p[1], u) THEN Runs(p[1], u) ELSE u \in K
  PROVE  Knows(L, q, n, u) <=> Knows(K, p, n + 1, u)
<1> DEFINE Silent(r, i, m) == \A j \in i .. m : ~Mentions(r[j], u)
           Said(r, i) == Mentions(r[i], u) /\ Runs(r[i], u)
<1>1. Knows(L, q, n, u) <=> \/ u \in L /\ Silent(q, 1, n)
                            \/ \E i \in 1 .. n : Said(q, i) /\ Silent(q, i + 1, n)
  BY DEF Knows
<1>2. Knows(K, p, n + 1, u) <=>
        \/ u \in K /\ Silent(p, 1, n + 1)
        \/ \E i \in 1 .. n + 1 : Said(p, i) /\ Silent(p, i + 1, n + 1)
  BY DEF Knows
<1>3. \A i \in 1 .. n + 1 : Silent(q, i, n) <=> Silent(p, i + 1, n + 1)
  <2> SUFFICES ASSUME NEW i \in 1 .. n + 1
               PROVE  Silent(q, i, n) <=> Silent(p, i + 1, n + 1)
    OBVIOUS
  <2>1. ASSUME Silent(q, i, n) PROVE Silent(p, i + 1, n + 1)
    <3> SUFFICES ASSUME NEW j \in i + 1 .. n + 1 PROVE ~Mentions(p[j], u)
      OBVIOUS
    <3>1. j - 1 \in i .. n /\ j - 1 \in 1 .. n /\ (j - 1) + 1 = j
      OBVIOUS
    <3>2. q[j - 1] = p[j]
      BY <3>1
    <3> QED BY <2>1, <3>1, <3>2
  <2>2. ASSUME Silent(p, i + 1, n + 1) PROVE Silent(q, i, n)
    <3> SUFFICES ASSUME NEW j \in i .. n PROVE ~Mentions(q[j], u)
      OBVIOUS
    <3>1. j + 1 \in i + 1 .. n + 1 /\ j \in 1 .. n
      OBVIOUS
    <3> QED BY <2>2, <3>1
  <2> QED BY <2>1, <2>2
<1>4. \A i \in 1 .. n : Said(q, i) <=> Said(p, i + 1)
  OBVIOUS
<1>5. Silent(p, 1, n + 1) <=> ~Mentions(p[1], u) /\ Silent(p, 2, n + 1)
  <2>1. \A j : j \in 1 .. n + 1 <=> j = 1 \/ j \in 2 .. n + 1
    OBVIOUS
  <2> QED BY <2>1
<1>6. (\E i \in 1 .. n + 1 : Said(p, i) /\ Silent(p, i + 1, n + 1)) <=>
        \/ Said(p, 1) /\ Silent(p, 2, n + 1)
        \/ \E i \in 1 .. n : Said(p, i + 1) /\ Silent(p, i + 1 + 1, n + 1)
  <2>1. \A i \in 1 .. n + 1 : i = 1 \/ (i - 1 \in 1 .. n /\ (i - 1) + 1 = i)
    OBVIOUS
  <2>2. 1 \in 1 .. n + 1 /\ 1 + 1 = 2 /\ \A i \in 1 .. n : i + 1 \in 1 .. n + 1
    OBVIOUS
  <2> HIDE DEF Said, Silent
  <2> QED BY <2>1, <2>2
<1>7. \A i \in 1 .. n : i + 1 \in 1 .. n + 1
  OBVIOUS
<1>8. Silent(q, 1, n) <=> Silent(p, 2, n + 1)
  <2>1. 1 \in 1 .. n + 1 /\ 1 + 1 = 2
    OBVIOUS
  <2> HIDE DEF Silent
  <2> QED BY <1>3, <2>1
<1>9. Said(p, 1) <=> Mentions(p[1], u) /\ Runs(p[1], u)
  OBVIOUS
<1> HIDE DEF Said, Silent
<1> QED BY <1>1, <1>2, <1>3, <1>4, <1>5, <1>6, <1>7, <1>8, <1>9

\* Events of other units may stand anywhere: what counts is that f carries those
\* of u among the first n of p to those among the first m of q, in the same order.
Carries(f, p, n, q, m, u) ==
  /\ \A i \in 1 .. n : Mentions(p[i], u) => f[i] \in 1 .. m /\ q[f[i]] = p[i]
  /\ \A j \in 1 .. m : Mentions(q[j], u) =>
       \E i \in 1 .. n : Mentions(p[i], u) /\ f[i] = j
  /\ \A i, k \in 1 .. n : Mentions(p[i], u) /\ Mentions(p[k], u) /\ i < k => f[i] < f[k]

LEMMA KnowsOfMoved ==
  ASSUME NEW K, NEW p, NEW q, NEW n \in Nat, NEW m \in Nat, NEW u, NEW f,
         Carries(f, p, n, q, m, u)
  PROVE  Knows(K, p, n, u) <=> Knows(K, q, m, u)
<1> USE DEF Carries
<1>1. (\A i \in 1 .. n : ~Mentions(p[i], u)) <=> (\A j \in 1 .. m : ~Mentions(q[j], u))
  OBVIOUS
<1>2. ASSUME NEW i \in 1 .. n, Mentions(p[i], u), Runs(p[i], u),
             \A k \in i + 1 .. n : ~Mentions(p[k], u)
      PROVE  \E j \in 1 .. m : /\ Mentions(q[j], u) /\ Runs(q[j], u)
                               /\ \A k \in j + 1 .. m : ~Mentions(q[k], u)
  <2>1. f[i] \in 1 .. m /\ q[f[i]] = p[i]
    BY <1>2
  <2>2. ASSUME NEW k \in f[i] + 1 .. m, Mentions(q[k], u)
        PROVE  FALSE
    <3>1. k \in 1 .. m /\ k > f[i]
      BY <2>1
    <3>2. PICK l \in 1 .. n : Mentions(p[l], u) /\ f[l] = k
      BY <2>2, <3>1
    <3>3. ~(l > i)
      BY <1>2, <3>2
    <3>4. l = i \/ l < i
      BY <3>3
    <3>5. l < i => f[l] < f[i]
      BY <1>2, <3>2
    <3> QED BY <2>1, <3>1, <3>2, <3>4, <3>5
  <2> QED BY <1>2, <2>1, <2>2
<1>3. ASSUME NEW j \in 1 .. m, Mentions(q[j], u), Runs(q[j], u),
             \A k \in j + 1 .. m : ~Mentions(q[k], u)
      PROVE  \E i \in 1 .. n : /\ Mentions(p[i], u) /\ Runs(p[i], u)
                               /\ \A k \in i + 1 .. n : ~Mentions(p[k], u)
  <2>1. PICK i \in 1 .. n : Mentions(p[i], u) /\ f[i] = j
    BY <1>3
  <2>2. q[j] = p[i]
    BY <2>1
  <2>3. ASSUME NEW k \in i + 1 .. n, Mentions(p[k], u)
        PROVE  FALSE
    <3>1. k \in 1 .. n /\ i < k
      OBVIOUS
    <3>2. f[k] \in 1 .. m /\ q[f[k]] = p[k] /\ f[i] < f[k]
      BY <2>1, <2>3, <3>1
    <3>3. f[k] \in j + 1 .. m
      BY <2>1, <3>2
    <3> QED BY <1>3, <2>3, <3>2, <3>3
  <2> QED BY <1>3, <2>1, <2>2, <2>3
<1> QED BY <1>1, <1>2, <1>3 DEF Knows

\* A listing makes what was known before it irrelevant.
LEMMA KnowsAfterListing ==
  ASSUME NEW K, NEW L, NEW p, NEW q, NEW m \in Nat, NEW n \in Nat, NEW u,
         p[m + 1] = Reconcile(L), \A i \in 1 .. n : p[m + 1 + i] = q[i]
  PROVE  Knows(K, p, m + 1 + n, u) <=> Knows(L, q, n, u)
<1>1. Mentions(p[m + 1], u) /\ (Runs(p[m + 1], u) <=> u \in L)
  BY DEF Reconcile, Mentions, Runs
<1> DEFINE Silent(r, i, k) == \A j \in i .. k : ~Mentions(r[j], u)
           Said(r, i) == Mentions(r[i], u) /\ Runs(r[i], u)
           N == m + 1 + n
<1>2. Knows(L, q, n, u) <=> \/ u \in L /\ Silent(q, 1, n)
                            \/ \E i \in 1 .. n : Said(q, i) /\ Silent(q, i + 1, n)
  BY DEF Knows
<1>3. Knows(K, p, N, u) <=> \E i \in 1 .. N : Said(p, i) /\ Silent(p, i + 1, N)
  <2>1. m + 1 \in 1 .. N
    OBVIOUS
  <2> QED BY <1>1, <2>1 DEF Knows
<1>4. \A i \in 1 .. n + 1 : Silent(q, i, n) <=> Silent(p, m + 1 + i, N)
  <2> SUFFICES ASSUME NEW i \in 1 .. n + 1
               PROVE  Silent(q, i, n) <=> Silent(p, m + 1 + i, N)
    OBVIOUS
  <2>1. ASSUME Silent(q, i, n) PROVE Silent(p, m + 1 + i, N)
    <3> SUFFICES ASSUME NEW j \in m + 1 + i .. N PROVE ~Mentions(p[j], u)
      OBVIOUS
    <3>1. /\ j - (m + 1) \in i .. n /\ j - (m + 1) \in 1 .. n
          /\ m + 1 + (j - (m + 1)) = j
      OBVIOUS
    <3>2. q[j - (m + 1)] = p[j]
      BY <3>1
    <3> QED BY <2>1, <3>1, <3>2
  <2>2. ASSUME Silent(p, m + 1 + i, N) PROVE Silent(q, i, n)
    <3> SUFFICES ASSUME NEW j \in i .. n PROVE ~Mentions(q[j], u)
      OBVIOUS
    <3>1. m + 1 + j \in m + 1 + i .. N /\ j \in 1 .. n
      OBVIOUS
    <3> QED BY <2>2, <3>1
  <2> QED BY <2>1, <2>2
<1>5. \A i \in 1 .. n : Said(q, i) <=> Said(p, m + 1 + i)
  OBVIOUS
<1>6. \A i \in 1 .. N : Silent(p, i + 1, N) => i >= m + 1
  <2> SUFFICES ASSUME NEW i \in 1 .. N, i < m + 1
               PROVE  m + 1 \in i + 1 .. N
    BY <1>1
  <2> QED OBVIOUS
<1>7. (\E i \in 1 .. N : Said(p, i) /\ Silent(p, i + 1, N)) <=>
        \/ Said(p, m + 1) /\ Silent(p, m + 1 + 1, N)
        \/ \E i \in 1 .. n : Said(p, m + 1 + i) /\ Silent(p, m + 1 + (i + 1), N)
  <2>1. \A i \in 1 .. N : i >= m + 1 =>
          i = m + 1 \/ (i - (m + 1) \in 1 .. n /\ m + 1 + (i - (m + 1)) = i
                          /\ m + 1 + ((i - (m + 1)) + 1) = i + 1)
    OBVIOUS
  <2>2. m + 1 \in 1 .. N /\ \A i \in 1 .. n : /\ m + 1 + i \in 1 .. N
                                              /\ m + 1 + (i + 1) = (m + 1 + i) + 1
    OBVIOUS
  <2> HIDE DEF Said, Silent, N
  <2> QED BY <1>6, <2>1, <2>2
<1>8. Silent(q, 1, n) <=> Silent(p, m + 1 + 1, N)
  <2>1. 1 \in 1 .. n + 1
    OBVIOUS
  <2> HIDE DEF Silent, N
  <2> QED BY <1>4, <2>1
<1>9. \A i \in 1 .. n : i + 1 \in 1 .. n + 1
  OBVIOUS
<1>10. Said(p, m + 1) <=> u \in L
  BY <1>1
<1> HIDE DEF Said, Silent, N
<1>11. Knows(K, p, N, u) <=> Knows(L, q, n, u)
  BY <1>2, <1>3, <1>4, <1>5, <1>7, <1>8, <1>9, <1>10
<1> QED BY <1>11 DEF N

\* The event at k of p stands at m in q, before those it has overtaken.
Overtakes(p, q, m, k) ==
  /\ m \in 1 .. Len(p) /\ k \in m .. Len(p)
  /\ Len(q) = Len(p)
  /\ \A j \in 1 .. m - 1 : q[j] = p[j]
  /\ q[m] = p[k]
  /\ \A j \in m .. k - 1 : q[j + 1] = p[j]
  /\ \A j \in k + 1 .. Len(p) : q[j] = p[j]

\* What the units of an application are known to be survives their signals'
\* being overtaken by others.
SurvivesAt(K, p, q, U, n, m) ==
  \E l \in 0 .. Len(p) : /\ l >= n \/ l = m - 1
                         /\ \A u \in U : Knows(K, p, n, u) <=> Knows(K, q, l, u)
SurvivesAtEnd(K, p, q, U) ==
  \A u \in U : Knows(K, p, Len(p), u) <=> Knows(K, q, Len(p), u)

\* No event is overtaken by one about the same units.
Apart(p, U, m, k) ==
  \A j \in m .. k - 1 : \A u, v \in U : ~(Mentions(p[j], u) /\ Mentions(p[k], v))

\* An event that overtakes others, none of them about the same application: the
\* units U of an application are still known as they were, at some point, and at
\* the end.
LEMMA KnowsOfOvertaken ==
  ASSUME NEW K, NEW p, NEW q, NEW m, NEW k, NEW U, Len(p) \in Nat,
         Overtakes(p, q, m, k), Apart(p, U, m, k), NEW n \in 0 .. Len(p)
  PROVE  SurvivesAt(K, p, q, U, n, m) /\ SurvivesAtEnd(K, p, q, U)
<1> SUFFICES ASSUME NEW N \in Nat, N = Len(p), n \in 0 .. N, m \in 1 .. N, k \in m .. N,
                    \A j \in 1 .. m - 1 : q[j] = p[j],
                    q[m] = p[k],
                    \A j \in m .. k - 1 : q[j + 1] = p[j],
                    \A j \in k + 1 .. N : q[j] = p[j],
                    \A j \in m .. k - 1 :
                      \A u, v \in U : ~(Mentions(p[j], u) /\ Mentions(p[k], v))
             PROVE  /\ \E l \in 0 .. N : /\ l >= n \/ l = m - 1
                                         /\ \A u \in U : Knows(K, p, n, u) <=> Knows(K, q, l, u)
                    /\ \A u \in U : Knows(K, p, N, u) <=> Knows(K, q, N, u)
  BY DEF Overtakes, Apart, SurvivesAt, SurvivesAtEnd
<1> DEFINE f == [j \in 1 .. N |-> IF j = k THEN m ELSE IF m <= j /\ j < k THEN j + 1 ELSE j]
<1>1. /\ \A j \in 1 .. N : f[j] \in 1 .. N /\ q[f[j]] = p[j]
      /\ f[k] = m
      /\ \A j \in m .. k - 1 : f[j] = j + 1
      /\ \A j \in 1 .. m - 1 : f[j] = j
      /\ \A j \in k + 1 .. N : f[j] = j
  <2>1. m \in Nat /\ k \in Nat /\ m <= k /\ k <= N /\ 1 <= m
    OBVIOUS
  <2>2. f[k] = m /\ k \in 1 .. N
    BY <2>1
  <2>3. \A j \in m .. k - 1 : f[j] = j + 1
    BY <2>1
  <2>4. \A j \in 1 .. m - 1 : f[j] = j
    BY <2>1
  <2>5. \A j \in k + 1 .. N : f[j] = j
    BY <2>1
  <2>6. \A j \in 1 .. N : j = k \/ j \in m .. k - 1 \/ j \in 1 .. m - 1 \/ j \in k + 1 .. N
    BY <2>1
  <2> HIDE DEF f
  <2>7. \A j \in 1 .. N : f[j] \in 1 .. N /\ q[f[j]] = p[j]
    <3> TAKE j \in 1 .. N
    <3>1. CASE j = k
      BY <2>1, <2>2, <3>1
    <3>2. CASE j \in m .. k - 1
      BY <2>1, <2>3, <3>2
    <3>3. CASE j \in 1 .. m - 1
      BY <2>1, <2>4, <3>3
    <3>4. CASE j \in k + 1 .. N
      BY <2>1, <2>5, <3>4
    <3> QED BY <2>6, <3>1, <3>2, <3>3, <3>4
  <2> QED BY <2>2, <2>3, <2>4, <2>5, <2>7
<1> HIDE DEF f
<1>2. m \in Nat /\ k \in Nat /\ n \in Nat /\ m <= k /\ k <= N /\ 1 <= m /\ n <= N
  OBVIOUS
<1>3. \A j \in 1 .. N : \/ j < m /\ f[j] = j
                        \/ m <= j /\ j < k /\ f[j] = j + 1
                        \/ j = k /\ f[j] = m
                        \/ k < j /\ f[j] = j
  BY <1>1, <1>2
<1>4. ASSUME NEW u \in U, NEW i \in 1 .. N, NEW j \in 1 .. N,
             Mentions(p[i], u), Mentions(p[j], u), i < j
      PROVE  f[i] < f[j]
  <2>1. ~(i \in m .. k - 1 /\ j = k)
    BY <1>4
  <2> QED BY <1>2, <1>3, <1>4, <2>1
<1>5. ASSUME NEW u \in U, NEW r \in Nat, k <= r, r <= N
      PROVE  Knows(K, p, r, u) <=> Knows(K, q, r, u)
  <2>1. \A i \in 1 .. r : i \in 1 .. N /\ f[i] \in 1 .. r
    BY <1>2, <1>3, <1>5
  <2>2. \A i \in 1 .. r : Mentions(p[i], u) => f[i] \in 1 .. r /\ q[f[i]] = p[i]
    BY <1>1, <2>1
  <2>3. \A j \in 1 .. r : \E i \in 1 .. r : f[i] = j
    <3> TAKE j \in 1 .. r
    <3>1. CASE j = m
      BY <1>1, <1>2, <1>5, <3>1
    <3>2. CASE m < j /\ j <= k
      <4>1. j - 1 \in m .. k - 1 /\ j - 1 \in 1 .. r /\ (j - 1) + 1 = j
        BY <1>2, <1>5, <3>2
      <4> QED BY <1>1, <4>1
    <3>3. CASE j < m \/ k < j
      BY <1>1, <1>2, <1>5, <3>3
    <3> QED BY <1>2, <3>1, <3>2, <3>3
  <2>4. \A j \in 1 .. r : Mentions(q[j], u) => \E i \in 1 .. r : Mentions(p[i], u) /\ f[i] = j
    <3> TAKE j \in 1 .. r
    <3> HAVE Mentions(q[j], u)
    <3>1. PICK i \in 1 .. r : f[i] = j
      BY <2>3
    <3>2. q[j] = p[i]
      BY <1>1, <2>1, <3>1
    <3> QED BY <3>1, <3>2
  <2>5. \A i, j \in 1 .. r : Mentions(p[i], u) /\ Mentions(p[j], u) /\ i < j => f[i] < f[j]
    BY <1>4, <2>1
  <2>6. Carries(f, p, r, q, r, u)
    BY <2>2, <2>4, <2>5 DEF Carries
  <2> QED BY <2>6, KnowsOfMoved
<1>6. \A u \in U : Knows(K, p, N, u) <=> Knows(K, q, N, u)
  BY <1>2, <1>5
<1>7. CASE n < m
  <2>1. \A i \in 1 .. n : p[i] = q[i]
    BY <1>2, <1>7
  <2>2. \A u \in U : Knows(K, p, n, u) <=> Knows(K, q, n, u)
    BY <1>2, <2>1, KnowsOfPrefix
  <2> QED BY <1>2, <1>6, <2>2
<1>8. CASE k <= n
  <2>1. \A u \in U : Knows(K, p, n, u) <=> Knows(K, q, n, u)
    BY <1>2, <1>5, <1>8
  <2> QED BY <1>2, <1>6, <2>1
<1>9. CASE m <= n /\ n < k /\ \A u \in U : ~Mentions(p[k], u)
  <2>1. ASSUME NEW u \in U
        PROVE  Knows(K, p, n, u) <=> Knows(K, q, n + 1, u)
    <3>1. \A i \in 1 .. n : i \in 1 .. N /\ f[i] \in 1 .. n + 1
      BY <1>2, <1>3, <1>9
    <3>2. \A i \in 1 .. n : Mentions(p[i], u) => f[i] \in 1 .. n + 1 /\ q[f[i]] = p[i]
      BY <1>1, <3>1
    <3>3. \A j \in 1 .. n + 1 : j = m \/ \E i \in 1 .. n : f[i] = j
      <4> TAKE j \in 1 .. n + 1
      <4>1. CASE j < m
        BY <1>1, <1>2, <1>9, <4>1
      <4>2. CASE m < j
        <5>1. j - 1 \in m .. k - 1 /\ j - 1 \in 1 .. n /\ (j - 1) + 1 = j
          BY <1>2, <1>9, <4>2
        <5> QED BY <1>1, <5>1
      <4> QED BY <1>2, <4>1, <4>2
    <3>4. ~Mentions(q[m], u)
      BY <1>9
    <3>5. \A j \in 1 .. n + 1 : Mentions(q[j], u) =>
            \E i \in 1 .. n : Mentions(p[i], u) /\ f[i] = j
      BY <1>1, <3>1, <3>3, <3>4
    <3>6. \A i, j \in 1 .. n : Mentions(p[i], u) /\ Mentions(p[j], u) /\ i < j => f[i] < f[j]
      BY <1>4, <3>1
    <3>7. Carries(f, p, n, q, n + 1, u)
      BY <3>2, <3>5, <3>6 DEF Carries
    <3>8. n + 1 \in Nat
      BY <1>2
    <3> QED BY <1>2, <3>7, <3>8, KnowsOfMoved
  <2>2. n + 1 \in 0 .. N /\ n + 1 >= n
    BY <1>2, <1>9
  <2> QED BY <1>6, <2>1, <2>2
<1>10. CASE m <= n /\ n < k /\ \E u \in U : Mentions(p[k], u)
  <2>1. \A j \in m .. k - 1 : \A u \in U : ~Mentions(p[j], u)
    BY <1>10
  <2>2. ASSUME NEW u \in U
        PROVE  Knows(K, p, n, u) <=> Knows(K, q, m - 1, u)
    <3> DEFINE id == [j \in Nat |-> j]
    <3>1. m - 1 \in Nat /\ \A i \in Nat : id[i] = i
      BY <1>2
    <3> HIDE DEF id
    <3>2. \A i \in 1 .. n : i \in Nat /\ (i \in 1 .. m - 1 \/ i \in m .. k - 1)
      BY <1>2, <1>10
    <3>3. \A i \in 1 .. n : Mentions(p[i], u) => id[i] \in 1 .. m - 1 /\ q[id[i]] = p[i]
      BY <2>1, <3>1, <3>2
    <3>4. \A j \in 1 .. m - 1 : j \in 1 .. n /\ j \in Nat /\ q[j] = p[j]
      BY <1>2, <1>10
    <3>5. \A j \in 1 .. m - 1 : Mentions(q[j], u) =>
            \E i \in 1 .. n : Mentions(p[i], u) /\ id[i] = j
      BY <3>1, <3>4
    <3>6. \A i, j \in 1 .. n : Mentions(p[i], u) /\ Mentions(p[j], u) /\ i < j => id[i] < id[j]
      BY <3>1, <3>2
    <3>7. Carries(id, p, n, q, m - 1, u)
      BY <3>3, <3>5, <3>6 DEF Carries
    <3> QED BY <1>2, <3>1, <3>7, KnowsOfMoved
  <2>3. m - 1 \in 0 .. N
    BY <1>2
  <2> QED BY <1>6, <2>2, <2>3
<1> QED BY <1>2, <1>7, <1>8, <1>9, <1>10


-----------------------------------------------------------------------------
(* What the watcher has yet to hear *)

Following == phase \in {"listed", "forwarding"}

Pipe(c, ph, l, w) ==
  IF ph = "listed" THEN Append(c, Reconcile(l)) \o w
  ELSE IF ph = "forwarding" THEN c \o w ELSE c

\* The channel, the listing that was not sent yet, and the signals to forward.
\* Those of a task that has not listed the units yet are part of its listing.
Pipeline == Pipe(channel, phase, listing, wire)

\* The elements of a pipeline p.
IsPipe(p, c, ph, l, w) ==
  /\ p \in Seq(Event)
  /\ Len(c) <= Len(p) /\ \A i \in 1 .. Len(c) : p[i] = c[i]
  /\ ph = "listed" => /\ Len(p) = Len(c) + 1 + Len(w)
                      /\ p[Len(c) + 1] = Reconcile(l)
                      /\ \A i \in 1 .. Len(w) : p[Len(c) + 1 + i] = w[i]
  /\ ph = "forwarding" => /\ Len(p) = Len(c) + Len(w)
                          /\ \A i \in 1 .. Len(w) : p[Len(c) + i] = w[i]
  /\ ph \notin {"listed", "forwarding"} => p = c

LEMMA PipeIs ==
  ASSUME NEW c \in Seq(Event), NEW ph, NEW l \in SUBSET Unit, NEW w \in Seq(UnitSignal)
  PROVE  IsPipe(Pipe(c, ph, l, w), c, ph, l, w)
<1> DEFINE p == Pipe(c, ph, l, w)
<1> SUFFICES IsPipe(p, c, ph, l, w)
  OBVIOUS
<1>1. Reconcile(l) \in Event /\ w \in Seq(Event)
  <2>1. Reconcile(l) \in Event
    BY DEF Reconcile, Event
  <2>2. UnitSignal \subseteq Event
    BY DEF Event
  <2> QED BY <2>1, <2>2
<1>2. CASE ph = "listed"
  <2>1. PICK d : d = Append(c, Reconcile(l))
    OBVIOUS
  <2>2. /\ d \in Seq(Event) /\ Len(d) = Len(c) + 1 /\ d[Len(c) + 1] = Reconcile(l)
        /\ \A i \in 1 .. Len(c) : d[i] = c[i]
    BY <1>1, <2>1
  <2>3. p = d \o w
    BY <1>2, <2>1 DEF Pipe
  <2> HIDE DEF p
  <2>4. /\ p \in Seq(Event) /\ Len(p) = Len(d) + Len(w)
        /\ \A i \in 1 .. Len(d) : p[i] = d[i]
        /\ \A i \in 1 .. Len(w) : p[Len(d) + i] = w[i]
    <3>1. d \in Seq(Event) /\ w \in Seq(Event)
      BY <1>1, <2>2
    <3>2. /\ d \o w \in Seq(Event) /\ Len(d \o w) = Len(d) + Len(w)
          /\ \A i \in 1 .. Len(d) : (d \o w)[i] = d[i]
          /\ \A i \in 1 .. Len(w) : (d \o w)[Len(d) + i] = w[i]
      BY <3>1
    <3> QED BY <2>3, <3>2, SMT
  <2>5. Len(c) \in Nat /\ Len(w) \in Nat /\ \A i \in 1 .. Len(c) : i \in 1 .. Len(d)
    BY <2>2
  <2>6. Len(c) + 1 \in 1 .. Len(d)
    BY <2>2
  <2> QED BY <1>2, <2>2, <2>4, <2>5, <2>6 DEF IsPipe
<1>3. CASE ph = "forwarding"
  BY <1>1, <1>3 DEF Pipe, IsPipe
<1>4. CASE ph \notin {"listed", "forwarding"}
  BY <1>4 DEF Pipe, IsPipe
<1> QED BY <1>2, <1>3, <1>4

\* Nothing of p is taken away.
Extends(p, q) == Len(p) <= Len(q) /\ \A i \in 1 .. Len(p) : q[i] = p[i]

\* The first event of p is taken, and the known units follow it.
Hears(K, p, L, q) ==
  /\ Len(p) = Len(q) + 1 /\ \A i \in 1 .. Len(q) : q[i] = p[i + 1]
  /\ \A u \in Unit : AppOf[u] # None =>
       (u \in L <=> IF Mentions(p[1], u) THEN Runs(p[1], u) ELSE u \in K)

\* insert_unit, remove_unit and rebuild_from_unit_names do what was heard.
LEMMA TakingHears ==
  ASSUME TypedAndAgreeing, TypedAndAgreeing', TakeSignal \/ TakeListing
  PROVE  Hears(tracker.units, Pipeline, tracker'.units, Pipeline')
<1> USE DEF TypedAndAgreeing, TypeOK
<1>1. /\ channel \in Seq(Event) /\ channel # <<>> /\ channel' = Tail(channel)
      /\ Len(channel) \in Nat \ {0} /\ Head(channel) = channel[1]
      /\ UNCHANGED <<phase, listing, wire>>
  BY DEF TakeSignal, TakeListing, forwarder
<1>2. /\ channel' \in Seq(Event) /\ Len(channel) = Len(channel') + 1
      /\ \A i \in 1 .. Len(channel') : channel'[i] = channel[i + 1]
  BY <1>1
<1> DEFINE p == Pipe(channel, phase, listing, wire)
           q == Pipe(channel', phase, listing, wire)
<1>3. Pipeline = p /\ Pipeline' = q
  BY <1>1 DEF Pipeline
<1>4. /\ IsPipe(p, channel, phase, listing, wire)
      /\ IsPipe(q, channel', phase, listing, wire)
  BY <1>1, <1>2, PipeIs
<1> HIDE DEF p, q
<1>5. 1 \in 1 .. Len(channel)
  BY <1>1
<1>6. p[1] = Head(channel)
  BY <1>1, <1>4, <1>5 DEF IsPipe
<1>7. Len(p) = Len(q) + 1 /\ \A i \in 1 .. Len(q) : q[i] = p[i + 1]
  <2>1. /\ \A i \in 1 .. Len(channel) : p[i] = channel[i]
        /\ \A i \in 1 .. Len(channel') : q[i] = channel'[i]
    BY <1>4 DEF IsPipe
  <2>2. CASE phase = "listed"
    <3>1. /\ Len(p) = Len(channel) + 1 + Len(wire)
          /\ p[Len(channel) + 1] = Reconcile(listing)
          /\ \A i \in 1 .. Len(wire) : p[Len(channel) + 1 + i] = wire[i]
          /\ Len(q) = Len(channel') + 1 + Len(wire)
          /\ q[Len(channel') + 1] = Reconcile(listing)
          /\ \A i \in 1 .. Len(wire) : q[Len(channel') + 1 + i] = wire[i]
      BY <1>4, <2>2 DEF IsPipe
    <3>2. Len(wire) \in Nat
      OBVIOUS
    <3>3. ASSUME NEW i \in 1 .. Len(q) PROVE q[i] = p[i + 1]
      <4>1. CASE i <= Len(channel')
        BY <1>1, <1>2, <2>1, <4>1
      <4>2. CASE i = Len(channel') + 1
        BY <1>1, <1>2, <3>1, <4>2
      <4>3. CASE i > Len(channel') + 1
        <5>1. PICK j \in 1 .. Len(wire) :
                i = Len(channel') + 1 + j /\ i + 1 = Len(channel) + 1 + j
          <6>1. /\ i - (Len(channel') + 1) \in 1 .. Len(wire)
                /\ i = Len(channel') + 1 + (i - (Len(channel') + 1))
                /\ i + 1 = Len(channel) + 1 + (i - (Len(channel') + 1))
            BY <1>1, <1>2, <3>1, <3>2, <4>3
          <6> QED BY <6>1
        <5> QED BY <3>1, <5>1
      <4>4. i \in Int /\ Len(channel') \in Int
        BY <1>2
      <4> QED BY <4>1, <4>2, <4>3, <4>4
    <3> QED BY <1>1, <1>2, <3>1, <3>2, <3>3
  <2>3. CASE phase = "forwarding"
    <3>1. /\ Len(p) = Len(channel) + Len(wire)
          /\ \A i \in 1 .. Len(wire) : p[Len(channel) + i] = wire[i]
          /\ Len(q) = Len(channel') + Len(wire)
          /\ \A i \in 1 .. Len(wire) : q[Len(channel') + i] = wire[i]
      BY <1>4, <2>3 DEF IsPipe
    <3>2. Len(wire) \in Nat
      OBVIOUS
    <3>3. ASSUME NEW i \in 1 .. Len(q) PROVE q[i] = p[i + 1]
      <4>1. CASE i <= Len(channel')
        BY <1>1, <1>2, <2>1, <4>1
      <4>2. CASE i > Len(channel')
        <5>1. PICK j \in 1 .. Len(wire) :
                i = Len(channel') + j /\ i + 1 = Len(channel) + j
          <6>1. /\ i - Len(channel') \in 1 .. Len(wire)
                /\ i = Len(channel') + (i - Len(channel'))
                /\ i + 1 = Len(channel) + (i - Len(channel'))
            BY <1>1, <1>2, <3>1, <3>2, <4>2
          <6> QED BY <6>1
        <5> QED BY <3>1, <5>1
      <4> QED BY <1>1, <1>2, <4>1, <4>2
    <3> QED BY <1>1, <1>2, <3>1, <3>2, <3>3
  <2>4. CASE phase \notin {"listed", "forwarding"}
    <3>1. p = channel /\ q = channel'
      BY <1>4, <2>4 DEF IsPipe
    <3> QED BY <1>2, <3>1
  <2> QED BY <2>2, <2>3, <2>4
<1>8. ASSUME NEW u \in Unit, AppOf[u] # None
      PROVE  u \in tracker'.units <=>
               IF Mentions(Head(channel), u) THEN Runs(Head(channel), u)
               ELSE u \in tracker.units
  <2>1. CASE TakeListing
    <3>1. Head(channel).kind = "Reconcile" /\ tracker' = Rebuild(Head(channel).units)
      BY <2>1 DEF TakeListing
    <3>2. tracker'.units = {v \in Head(channel).units : AppOf[v] # None}
      BY <3>1 DEF Rebuild
    <3> QED BY <1>8, <3>1, <3>2 DEF Mentions, Runs
  <2>2. CASE Head(channel).kind = "New" /\ tracker' = InsertUnit(tracker, Head(channel).unit)
    <3>1. CASE Ignored(tracker, Head(channel).unit)
      BY <1>8, <2>2, <3>1 DEF InsertUnit, Ignored, Mentions, Runs
    <3>2. CASE ~Ignored(tracker, Head(channel).unit)
      <4>1. tracker'.units = tracker.units \cup {Head(channel).unit}
        BY <2>2, <3>2 DEF InsertUnit
      <4> QED BY <2>2, <4>1 DEF Mentions, Runs
    <3> QED BY <3>1, <3>2
  <2>3. CASE /\ Head(channel).kind = "Removed"
             /\ tracker' = RemoveUnit(tracker, Head(channel).unit)
    <3>1. tracker'.units = tracker.units \ {Head(channel).unit}
      BY <2>3 DEF RemoveUnit, IsTracker
    <3> QED BY <2>3, <3>1 DEF Mentions, Runs
  <2> QED BY <2>1, <2>2, <2>3 DEF TakeSignal
<1> QED BY <1>3, <1>6, <1>7, <1>8 DEF Hears


\* One event more.
Gains(p, q, e) ==
  /\ Len(p) \in Nat /\ Len(q) = Len(p) + 1
  /\ q[Len(p) + 1] = e /\ \A i \in 1 .. Len(p) : q[i] = p[i]

\* A signal of a unit that starts or stops is the last the watcher will hear.
LEMMA EmittingGains ==
  ASSUME TypedAndAgreeing, TypedAndAgreeing', Following, NEW e \in UnitSignal,
         wire' = Append(wire, e), UNCHANGED <<phase, listing, channel>>
  PROVE  Gains(Pipeline, Pipeline', e)
<1> USE DEF TypedAndAgreeing, TypeOK
<1> DEFINE p == Pipe(channel, phase, listing, wire)
           q == Pipe(channel, phase, listing, wire')
<1>1. Pipeline = p /\ Pipeline' = q
  BY DEF Pipeline
<1>2. wire \in Seq(UnitSignal) /\ wire' \in Seq(UnitSignal) /\ channel \in Seq(Event)
  OBVIOUS
<1>3. /\ IsPipe(p, channel, phase, listing, wire)
      /\ IsPipe(q, channel, phase, listing, wire')
  BY <1>2, PipeIs
<1> HIDE DEF p, q
<1>4. /\ Len(wire') = Len(wire) + 1 /\ wire'[Len(wire) + 1] = e
      /\ \A i \in 1 .. Len(wire) : wire'[i] = wire[i]
  BY <1>2
<1>5. Len(wire) \in Nat /\ Len(channel) \in Nat
  BY <1>2
<1>6. PICK m \in Nat : \/ phase = "listed" /\ m = Len(channel) + 1
                       \/ phase = "forwarding" /\ m = Len(channel)
  BY <1>5 DEF Following
<1>7. /\ Len(p) = m + Len(wire) /\ Len(q) = m + Len(wire')
      /\ \A i \in 1 .. Len(wire) : p[m + i] = wire[i]
      /\ \A i \in 1 .. Len(wire') : q[m + i] = wire'[i]
      /\ \A i \in 1 .. m : p[i] = q[i]
  <2>1. CASE phase = "listed"
    <3>1. /\ Len(p) = Len(channel) + 1 + Len(wire) /\ Len(q) = Len(channel) + 1 + Len(wire')
          /\ \A i \in 1 .. Len(wire) : p[Len(channel) + 1 + i] = wire[i]
          /\ \A i \in 1 .. Len(wire') : q[Len(channel) + 1 + i] = wire'[i]
          /\ p[Len(channel) + 1] = q[Len(channel) + 1]
          /\ \A i \in 1 .. Len(channel) : p[i] = q[i]
      BY <1>3, <2>1 DEF IsPipe
    <3>2. m = Len(channel) + 1
      BY <1>6, <2>1
    <3>3. \A i \in 1 .. m : i \in 1 .. Len(channel) \/ i = Len(channel) + 1
      BY <1>5, <3>2
    <3> QED BY <3>1, <3>2, <3>3
  <2>2. CASE phase = "forwarding"
    <3>1. /\ Len(p) = Len(channel) + Len(wire) /\ Len(q) = Len(channel) + Len(wire')
          /\ \A i \in 1 .. Len(wire) : p[Len(channel) + i] = wire[i]
          /\ \A i \in 1 .. Len(wire') : q[Len(channel) + i] = wire'[i]
          /\ \A i \in 1 .. Len(channel) : p[i] = q[i]
      BY <1>3, <2>2 DEF IsPipe
    <3> QED BY <1>6, <2>2, <3>1
  <2> QED BY <2>1, <2>2 DEF Following
<1>8. q[Len(p) + 1] = e
  <2>1. Len(wire) + 1 \in 1 .. Len(wire') /\ Len(p) + 1 = m + (Len(wire) + 1)
    BY <1>4, <1>5, <1>7
  <2> QED BY <1>4, <1>7, <2>1
<1>9. ASSUME NEW i \in 1 .. Len(p) PROVE q[i] = p[i]
  <2>1. CASE i <= m
    BY <1>7, <2>1
  <2>2. CASE i > m
    <3>1. PICK k \in 1 .. Len(wire) : k \in 1 .. Len(wire') /\ i = m + k
      <4>1. i - m \in 1 .. Len(wire) /\ i - m \in 1 .. Len(wire') /\ i = m + (i - m)
        BY <1>4, <1>5, <1>7, <2>2
      <4> QED BY <4>1
    <3>2. p[i] = wire[k] /\ q[i] = wire'[k] /\ wire'[k] = wire[k]
      BY <1>4, <1>7, <3>1
    <3> QED BY <3>2
  <2> QED BY <2>1, <2>2
<1> QED BY <1>1, <1>4, <1>5, <1>7, <1>8, <1>9 DEF Gains

\* RemoveAt closes the gap that it makes.
IsWithout(t, s, i) ==
  /\ Len(t) = Len(s) - 1
  /\ \A j \in 1 .. i - 1 : t[j] = s[j]
  /\ \A j \in i .. Len(s) - 1 : t[j] = s[j + 1]

LEMMA RemoveAtIs ==
  ASSUME NEW S, NEW s \in Seq(S), NEW i \in DOMAIN s
  PROVE  IsWithout(RemoveAt(s, i), s, i)
<1>1. i \in 1 .. Len(s) /\ Len(s) \in Nat
  OBVIOUS
<1>2. PICK a : a = SubSeq(s, 1, i - 1)
  OBVIOUS
<1>3. PICK b : b = SubSeq(s, i + 1, Len(s))
  OBVIOUS
<1>4. PICK t : t = RemoveAt(s, i)
  OBVIOUS
<1>5. a \in Seq(S) /\ Len(a) = i - 1 /\ \A j \in 1 .. i - 1 : a[j] = s[j]
  BY <1>1, <1>2
<1>6. /\ b \in Seq(S) /\ Len(b) = Len(s) - i
      /\ \A j \in 1 .. Len(s) - i : b[j] = s[i + j]
  BY <1>1, <1>3
<1>7. t = a \o b
  BY <1>2, <1>3, <1>4 DEF RemoveAt
<1>8. /\ Len(t) = Len(a) + Len(b)
      /\ \A j \in 1 .. Len(a) : t[j] = a[j]
      /\ \A j \in 1 .. Len(b) : t[Len(a) + j] = b[j]
  <2>1. a \in Seq(S) /\ b \in Seq(S)
    BY <1>5, <1>6
  <2> QED BY <1>7, <2>1
<1>9. ASSUME NEW j \in i .. Len(s) - 1 PROVE t[j] = s[j + 1]
  <2>1. PICK k \in 1 .. Len(s) - i : i + k = j + 1 /\ (i - 1) + k = j
    <3>1. /\ j - (i - 1) \in 1 .. Len(s) - i /\ i + (j - (i - 1)) = j + 1
          /\ (i - 1) + (j - (i - 1)) = j
      BY <1>1
    <3> QED BY <3>1
  <2>2. b[k] = s[j + 1] /\ t[j] = b[k]
    BY <1>5, <1>6, <1>8, <2>1
  <2> QED BY <2>2
<1>10. Len(t) = Len(s) - 1 /\ \A j \in 1 .. i - 1 : t[j] = s[j]
  BY <1>1, <1>5, <1>6, <1>8
<1> QED BY <1>4, <1>9, <1>10 DEF IsWithout

\* The next signal of one stream passes those of the other that wait.
LEMMA ForwardingOvertakes ==
  ASSUME TypedAndAgreeing, TypedAndAgreeing', NEW i \in DOMAIN wire, ForwardSignal(i)
  PROVE  /\ Overtakes(Pipeline, Pipeline', Len(channel) + 1, Len(channel) + i)
         /\ \A j \in 1 .. Len(wire) : Pipeline[Len(channel) + j] = wire[j]
<1> USE DEF TypedAndAgreeing, TypeOK
<1> DEFINE p == Pipe(channel, phase, listing, wire)
           q == Pipe(channel', phase, listing, wire')
           c == Len(channel)
<1>1. /\ channel \in Seq(Event) /\ channel' \in Seq(Event)
      /\ wire \in Seq(UnitSignal) /\ wire' \in Seq(UnitSignal)
  OBVIOUS
<1>2. /\ phase = "forwarding" /\ UNCHANGED <<phase, listing>>
      /\ channel' = Append(channel, wire[i]) /\ wire' = RemoveAt(wire, i)
  BY DEF ForwardSignal
<1>3. Pipeline = p /\ Pipeline' = q
  BY <1>2 DEF Pipeline
<1>4. /\ IsPipe(p, channel, phase, listing, wire)
      /\ IsPipe(q, channel', phase, listing, wire')
  BY <1>1, PipeIs
<1>5. wire[i] \in Event
  BY <1>1 DEF Event
<1>6. /\ Len(channel') = Len(channel) + 1 /\ channel'[Len(channel) + 1] = wire[i]
      /\ \A j \in 1 .. Len(channel) : channel'[j] = channel[j]
  BY <1>1, <1>2, <1>5
<1>7. /\ Len(wire') = Len(wire) - 1
      /\ \A j \in 1 .. i - 1 : wire'[j] = wire[j]
      /\ \A j \in i .. Len(wire) - 1 : wire'[j] = wire[j + 1]
  BY <1>1, <1>2, RemoveAtIs DEF IsWithout
<1>8. /\ Len(p) = Len(channel) + Len(wire)
      /\ \A j \in 1 .. Len(wire) : p[Len(channel) + j] = wire[j]
      /\ \A j \in 1 .. Len(channel) : p[j] = channel[j]
      /\ Len(q) = Len(channel') + Len(wire')
      /\ \A j \in 1 .. Len(wire') : q[Len(channel') + j] = wire'[j]
      /\ \A j \in 1 .. Len(channel') : q[j] = channel'[j]
  BY <1>2, <1>4 DEF IsPipe
<1>9. c \in Nat /\ Len(wire) \in Nat /\ i \in 1 .. Len(wire)
  BY <1>1
<1> HIDE DEF p, q
<1>10. Len(q) = Len(p) /\ c + 1 \in 1 .. Len(p) /\ c + i \in c + 1 .. Len(p)
  BY <1>6, <1>7, <1>8, <1>9
<1>11. \A j \in 1 .. (c + 1) - 1 : q[j] = p[j]
  BY <1>6, <1>8, <1>9
<1>12. q[c + 1] = p[c + i]
  BY <1>6, <1>8, <1>9
<1>13. ASSUME NEW j \in c + 1 .. (c + i) - 1 PROVE q[j + 1] = p[j]
  <2>1. PICK k \in 1 .. i - 1 : /\ k \in 1 .. Len(wire) /\ k \in 1 .. Len(wire')
                                /\ c + k = j /\ (c + 1) + k = j + 1
    <3>1. /\ j - c \in 1 .. i - 1 /\ j - c \in 1 .. Len(wire) /\ j - c \in 1 .. Len(wire')
          /\ c + (j - c) = j /\ (c + 1) + (j - c) = j + 1
      BY <1>7, <1>9
    <3> QED BY <3>1
  <2>2. q[j + 1] = wire'[k] /\ p[j] = wire[k] /\ wire'[k] = wire[k]
    BY <1>6, <1>7, <1>8, <2>1
  <2> QED BY <2>2
<1>14. ASSUME NEW j \in c + i + 1 .. Len(p) PROVE q[j] = p[j]
  <2>1. PICK k \in i .. Len(wire) - 1 : /\ k \in 1 .. Len(wire') /\ k + 1 \in 1 .. Len(wire)
                                        /\ (c + 1) + k = j /\ c + (k + 1) = j
    <3>1. /\ j - c - 1 \in i .. Len(wire) - 1 /\ j - c - 1 \in 1 .. Len(wire')
          /\ (j - c - 1) + 1 \in 1 .. Len(wire)
          /\ (c + 1) + (j - c - 1) = j /\ c + ((j - c - 1) + 1) = j
      BY <1>7, <1>8, <1>9
    <3> QED BY <3>1
  <2>2. q[j] = wire'[k] /\ p[j] = wire[k + 1] /\ wire'[k] = wire[k + 1]
    BY <1>6, <1>7, <1>8, <2>1
  <2> QED BY <2>2
<1> QED BY <1>3, <1>8, <1>10, <1>11, <1>12, <1>13, <1>14 DEF Overtakes

\* A unit overtakes no signal of its application when nothing is marked.
LEMMA OvertakesOthers ==
  ASSUME TypedAndAgreeing, TypedAndAgreeing', NEW i \in DOMAIN wire, ForwardSignal(i),
         crossed' = {}, NEW a \in AppId
  PROVE  Apart(Pipeline, UnitsOf(Unit, a), Len(channel) + 1, Len(channel) + i)
<1> USE DEF TypedAndAgreeing, TypeOK
<1>1. wire \in Seq(UnitSignal) /\ channel \in Seq(Event) /\ i \in 1 .. Len(wire)
  OBVIOUS
<1>2. \A j \in 1 .. Len(wire) : Pipeline[Len(channel) + j] = wire[j]
  BY ForwardingOvertakes
<1>3. Overtaken(i) = {}
  BY DEF ForwardSignal
<1>4. \A j \in 1 .. Len(wire), u \in Unit : Mentions(wire[j], u) => u = wire[j].unit
  <2>1. \A j \in 1 .. Len(wire) : wire[j] \in UnitSignal
    BY <1>1
  <2> QED BY <2>1 DEF UnitSignal, Mentions
<1> SUFFICES ASSUME NEW j \in Len(channel) + 1 .. (Len(channel) + i) - 1,
                    NEW u \in UnitsOf(Unit, a), NEW v \in UnitsOf(Unit, a),
                    Mentions(Pipeline[j], u), Mentions(Pipeline[Len(channel) + i], v)
             PROVE  FALSE
  BY DEF Apart
<1>5. /\ j - Len(channel) \in 1 .. i - 1 /\ j - Len(channel) \in 1 .. Len(wire)
      /\ Len(channel) + (j - Len(channel)) = j
  BY <1>1
<1>6. PICK k \in 1 .. i - 1 : k \in 1 .. Len(wire) /\ Pipeline[j] = wire[k]
  BY <1>2, <1>5
<1>7. Pipeline[Len(channel) + i] = wire[i]
  BY <1>1, <1>2
<1>8. u \in Unit /\ v \in Unit /\ AppOf[u] = a /\ AppOf[v] = a /\ a # None
  BY ScopeAssumption DEF UnitsOf
<1>9. AppOf[wire[k].unit] = a /\ AppOf[wire[i].unit] = a
  BY <1>1, <1>4, <1>6, <1>7, <1>8
<1>10. a \in AppsOf({wire[j_1].unit : j_1 \in 1 .. i - 1})
  BY <1>6, <1>8, <1>9 DEF AppsOf
<1>11. a \in Overtaken(i)
  BY <1>9, <1>10 DEF Overtaken
<1> QED BY <1>3, <1>11


-----------------------------------------------------------------------------
(* The tracker will come to the units that run *)

\* One who knows the units of K and hears all of p then knows those of us.
Arrives(K, p, us) ==
  \A u \in Unit : AppOf[u] # None => (Knows(K, p, Len(p), u) <=> u \in us)

LEMMA ArrivesGained ==
  ASSUME NEW K, NEW L, NEW us, NEW vs, NEW p, NEW q, NEW e \in UnitSignal,
         Gains(p, q, e), Arrives(K, p, us),
         \A u \in Unit : u # e.unit => (u \in K <=> u \in L) /\ (u \in us <=> u \in vs),
         e.unit \in vs <=> e.kind = "New"
  PROVE  Arrives(L, q, vs)
<1>1. Len(p) \in Nat /\ Len(q) = Len(p) + 1
  BY DEF Gains
<1>2. \A u \in Unit : /\ Mentions(q[Len(p) + 1], u) <=> u = e.unit
                      /\ Runs(q[Len(p) + 1], u) <=> e.kind = "New"
  BY DEF Gains, Mentions, Runs, UnitSignal
<1> SUFFICES ASSUME NEW u \in Unit, AppOf[u] # None
             PROVE  Knows(L, q, Len(p) + 1, u) <=> u \in vs
  BY <1>1 DEF Arrives
<1>3. Knows(L, q, Len(p) + 1, u) <=> IF u = e.unit THEN e.kind = "New"
                                     ELSE Knows(L, q, Len(p), u)
  BY <1>1, <1>2, KnowsNext
<1>4. u # e.unit => (Knows(L, q, Len(p), u) <=> Knows(K, q, Len(p), u))
  BY DEF Knows
<1>5. Knows(K, q, Len(p), u) <=> Knows(K, p, Len(p), u)
  <2>1. \A i \in 1 .. Len(p) : q[i] = p[i]
    BY DEF Gains
  <2> QED BY <1>1, <2>1, KnowsOfPrefix
<1>6. Knows(K, p, Len(p), u) <=> u \in us
  BY DEF Arrives
<1> QED BY <1>3, <1>4, <1>5, <1>6

\* What was heard may be counted as known.
LEMMA KnowsOfHeard ==
  ASSUME NEW K, NEW L, NEW p, NEW q, Hears(K, p, L, q), Len(q) \in Nat,
         NEW u \in Unit, AppOf[u] # None, NEW n \in 0 .. Len(q)
  PROVE  Knows(L, q, n, u) <=> Knows(K, p, n + 1, u)
<1>1. n \in Nat /\ \A i \in 1 .. n : q[i] = p[i + 1]
  BY DEF Hears
<1>2. u \in L <=> IF Mentions(p[1], u) THEN Runs(p[1], u) ELSE u \in K
  BY DEF Hears
<1> QED BY <1>1, <1>2, KnowsOfTail

LEMMA ArrivesHeard ==
  ASSUME NEW K, NEW L, NEW us, NEW p, NEW q, Hears(K, p, L, q), Len(q) \in Nat,
         Arrives(K, p, us)
  PROVE  Arrives(L, q, us)
<1>1. Len(q) \in 0 .. Len(q) /\ Len(p) = Len(q) + 1
  BY DEF Hears
<1> SUFFICES ASSUME NEW u \in Unit, AppOf[u] # None
             PROVE  Knows(L, q, Len(q), u) <=> u \in us
  BY DEF Arrives
<1>2. Knows(L, q, Len(q), u) <=> Knows(K, p, Len(q) + 1, u)
  BY <1>1, KnowsOfHeard
<1> QED BY <1>1, <1>2 DEF Arrives

LEMMA KnowsOfForwarded ==
  ASSUME TypedAndAgreeing, TypedAndAgreeing', NEW i \in DOMAIN wire, ForwardSignal(i),
         crossed' = {}, NEW a \in AppId, NEW K
  PROVE  /\ \A n \in 0 .. Len(Pipeline) :
              SurvivesAt(K, Pipeline, Pipeline', UnitsOf(Unit, a), n, Len(channel) + 1)
         /\ SurvivesAtEnd(K, Pipeline, Pipeline', UnitsOf(Unit, a))
<1>1. PICK m : m = Len(channel) + 1
  OBVIOUS
<1>2. PICK k : k = Len(channel) + i
  OBVIOUS
<1>3. PICK p : p = Pipeline
  OBVIOUS
<1>4. PICK q : q = Pipeline'
  OBVIOUS
<1>5. PICK U : U = UnitsOf(Unit, a)
  OBVIOUS
<1>6. Overtakes(p, q, m, k)
  BY <1>1, <1>2, <1>3, <1>4, ForwardingOvertakes
<1>7. Apart(p, U, m, k)
  BY <1>1, <1>2, <1>3, <1>5, OvertakesOthers
<1>8. Len(p) \in Nat
  <2>1. /\ channel \in Seq(Event) /\ wire \in Seq(UnitSignal) /\ listing \in SUBSET Unit
    BY DEF TypedAndAgreeing, TypeOK
  <2>2. IsPipe(Pipeline, channel, phase, listing, wire)
    BY <2>1, PipeIs DEF Pipeline
  <2>3. p \in Seq(Event)
    BY <1>3, <2>2 DEF IsPipe
  <2> QED BY <2>3
<1>9. \A n \in 0 .. Len(p) : SurvivesAt(K, p, q, U, n, m) /\ SurvivesAtEnd(K, p, q, U)
  BY <1>6, <1>7, <1>8, KnowsOfOvertaken
<1>10. 0 \in 0 .. Len(p)
  BY <1>8
<1> QED BY <1>1, <1>3, <1>4, <1>5, <1>9, <1>10

\* Nothing waits for a task that pauses; one that subscribed holds what happened
\* since then; and once the units are listed, what is on its way to the watcher
\* brings the tracker to the units that run, unless a signal was overtaken by
\* another of its application.
ReachInv ==
  /\ phase = "paused" => wire = <<>>
  /\ phase = "subscribed" => Arrives(live, wire, live)
  /\ Following /\ crossed = {} => Arrives(tracker.units, Pipeline, live)

LEMMA EmittingReaches ==
  ASSUME TypedAndAgreeing, TypedAndAgreeing', ReachInv, NEW e \in UnitSignal,
         Emit(e), UNCHANGED <<phase, listing, channel, tracker, crossed>>,
         \A u \in Unit : u # e.unit => (u \in live <=> u \in live'),
         e.unit \in live' <=> e.kind = "New"
  PROVE  ReachInv'
<1>1. phase' = "paused" => wire' = <<>>
  BY DEF ReachInv, Emit, Receives
<1>2. phase' = "subscribed" => Arrives(live', wire', live')
  <2> SUFFICES ASSUME phase = "subscribed" PROVE Arrives(live', wire', live')
    OBVIOUS
  <2>1. wire' = Append(wire, e) /\ wire \in Seq(UnitSignal)
    BY DEF Emit, Receives, TypedAndAgreeing, TypeOK
  <2>2. Gains(wire, wire', e)
    BY <2>1 DEF Gains
  <2>3. Arrives(live, wire, live)
    BY DEF ReachInv
  <2> QED BY <2>2, <2>3, ArrivesGained
<1>3. Following' /\ crossed' = {} => Arrives(tracker'.units, Pipeline', live')
  <2> SUFFICES ASSUME Following', crossed' = {}
               PROVE  Arrives(tracker'.units, Pipeline', live')
    OBVIOUS
  <2>1. Following /\ wire' = Append(wire, e)
    BY DEF Following, Emit, Receives
  <2>2. Gains(Pipeline, Pipeline', e)
    BY <2>1, EmittingGains
  <2>3. Arrives(tracker.units, Pipeline, live)
    BY <2>1 DEF ReachInv
  <2> QED BY <2>2, <2>3, ArrivesGained
<1> QED BY <1>1, <1>2, <1>3 DEF ReachInv


LEMMA PipelineIs ==
  TypedAndAgreeing => IsPipe(Pipeline, channel, phase, listing, wire) /\ Len(Pipeline) \in Nat
<1> SUFFICES ASSUME TypedAndAgreeing
             PROVE  IsPipe(Pipeline, channel, phase, listing, wire) /\ Len(Pipeline) \in Nat
  OBVIOUS
<1>1. channel \in Seq(Event) /\ wire \in Seq(UnitSignal) /\ listing \in SUBSET Unit
  BY DEF TypedAndAgreeing, TypeOK
<1>2. IsPipe(Pipeline, channel, phase, listing, wire)
  BY <1>1, PipeIs DEF Pipeline
<1>3. Pipeline \in Seq(Event)
  BY <1>2 DEF IsPipe
<1> QED BY <1>2, <1>3

LEMMA NextPipelineIs ==
  ASSUME TypedAndAgreeing'
  PROVE  /\ IsPipe(Pipeline', channel', phase', listing', wire')
         /\ Len(Pipeline') \in Nat /\ Len(Pipeline') >= 0
<1>1. channel' \in Seq(Event) /\ wire' \in Seq(UnitSignal) /\ listing' \in SUBSET Unit
  BY DEF TypedAndAgreeing, TypeOK
<1>2. Pipeline' = Pipe(channel', phase', listing', wire')
  BY DEF Pipeline
<1>3. IsPipe(Pipeline', channel', phase', listing', wire')
  BY <1>1, <1>2, PipeIs
<1>4. Pipeline' \in Seq(Event)
  BY <1>3 DEF IsPipe
<1>5. Len(Pipeline') \in Nat
  BY <1>4
<1> QED BY <1>3, <1>5

\* Sending the listing moves it within the pipeline.
LEMMA SendingKeeps == SendListing => Pipeline' = Pipeline
BY DEF SendListing, Pipeline, Pipe

\* Steps that touch neither the units nor what is on its way to the watcher.
Aside == UNCHANGED <<live, phase, wire, listing, channel, tracker, crossed>>

LEMMA AsideSteps ==
  ASSUME \/ \E a \in WindowId : WindowChanges(a)
         \/ StartWatching \/ PollWindows \/ AskAppState \/ AnswerAppState
         \/ UNCHANGED vars
  PROVE  Aside
<1>1. ASSUME NEW a \in WindowId, WindowChanges(a) PROVE Aside
  BY <1>1 DEF WindowChanges, Aside, forwarder, monitor
<1>2. CASE StartWatching
  BY <1>2 DEF StartWatching, Aside, world, forwarder
<1>3. CASE PollWindows
  BY <1>3 DEF PollWindows, Poll, Aside, world, forwarder
<1>4. CASE AskAppState
  BY <1>4 DEF AskAppState, Aside, world, forwarder, monitor
<1>5. CASE AnswerAppState
  BY <1>5 DEF AnswerAppState, Aside, world, forwarder, monitor
<1>6. CASE UNCHANGED vars
  BY <1>6 DEF vars, Aside, world, forwarder, monitor
<1> QED BY <1>1, <1>2, <1>3, <1>4, <1>5, <1>6

LEMMA InitReaches == Init => ReachInv
BY DEF Init, ReachInv, Following

LEMMA NextReaches ==
  ASSUME TypedAndAgreeing, TypedAndAgreeing', ReachInv, [Next]_vars
  PROVE  ReachInv'
<1>1. ASSUME NEW u \in Unit, UnitStarts(u) PROVE ReachInv'
  <2>1. New(u) \in UnitSignal /\ New(u).unit = u /\ New(u).kind = "New"
    BY DEF New, UnitSignal
  <2>2. /\ Emit(New(u)) /\ UNCHANGED <<phase, listing, channel, tracker, crossed>>
        /\ live' = live \cup {u}
    BY <1>1 DEF UnitStarts, monitor
  <2> QED BY <2>1, <2>2, EmittingReaches
<1>2. ASSUME NEW u \in Unit, UnitStops(u) PROVE ReachInv'
  <2>1. Removed(u) \in UnitSignal /\ Removed(u).unit = u /\ Removed(u).kind = "Removed"
    BY DEF Removed, UnitSignal
  <2>2. /\ Emit(Removed(u)) /\ UNCHANGED <<phase, listing, channel, tracker, crossed>>
        /\ live' = live \ {u}
    BY <1>2 DEF UnitStops, monitor
  <2> QED BY <2>1, <2>2, EmittingReaches
<1>3. CASE Aside
  BY <1>3 DEF Aside, ReachInv, Following, Pipeline
<1>4. CASE Subscribe
  <2>1. phase = "paused" /\ phase' = "subscribed" /\ live' = live /\ wire' = <<>>
    BY <1>4 DEF Subscribe, world, ReachInv
  <2>2. Len(wire') = 0
    BY <2>1
  <2>3. Arrives(live', wire', live')
    BY <2>2, KnowsAtFirst DEF Arrives
  <2> QED BY <2>1, <2>3 DEF ReachInv, Following
<1>5. CASE ListUnits
  <2>1. /\ phase = "subscribed" /\ phase' = "listed" /\ listing' = live
        /\ UNCHANGED <<live, wire, channel, tracker>>
    BY <1>5 DEF ListUnits, world, monitor
  <2>2. channel \in Seq(Event) /\ wire \in Seq(UnitSignal)
    BY DEF TypedAndAgreeing, TypeOK
  <2>3. Len(channel) \in Nat /\ Len(wire) \in Nat
    BY <2>2
  <2>4. IsPipe(Pipeline', channel, "listed", live, wire)
    BY <2>1, NextPipelineIs
  <2>5. /\ Len(Pipeline') = Len(channel) + 1 + Len(wire)
        /\ Pipeline'[Len(channel) + 1] = Reconcile(live)
        /\ \A i \in 1 .. Len(wire) : Pipeline'[Len(channel) + 1 + i] = wire[i]
    BY <2>4 DEF IsPipe
  <2>6. ASSUME NEW u \in Unit, AppOf[u] # None
        PROVE  Knows(tracker.units, Pipeline', Len(Pipeline'), u) <=> u \in live
    <3>1. Knows(tracker.units, Pipeline', Len(channel) + 1 + Len(wire), u) <=>
            Knows(live, wire, Len(wire), u)
      BY <2>3, <2>5, KnowsAfterListing
    <3>2. Knows(live, wire, Len(wire), u) <=> u \in live
      BY <2>1, <2>6 DEF ReachInv, Arrives
    <3> QED BY <2>5, <3>1, <3>2
  <2>7. Arrives(tracker'.units, Pipeline', live')
    BY <2>1, <2>6 DEF Arrives
  <2> QED BY <2>1, <2>7 DEF ReachInv
<1>6. CASE SendListing
  <2>1. phase = "listed" /\ phase' = "forwarding" /\ UNCHANGED <<live, tracker, crossed>>
    BY <1>6 DEF SendListing, world, monitor
  <2> QED BY <1>6, <2>1, SendingKeeps DEF ReachInv, Following
<1>7. ASSUME NEW i \in DOMAIN wire, ForwardSignal(i) PROVE ReachInv'
  <2>1. /\ phase = "forwarding" /\ UNCHANGED <<live, phase, tracker>>
        /\ crossed \subseteq crossed'
    BY <1>7 DEF ForwardSignal, world, monitor
  <2> SUFFICES ASSUME crossed' = {} PROVE Arrives(tracker.units, Pipeline', live)
    BY <2>1 DEF ReachInv
  <2>2. Arrives(tracker.units, Pipeline, live)
    BY <2>1 DEF ReachInv, Following
  <2>3. Len(Pipeline') = Len(Pipeline)
    BY <1>7, ForwardingOvertakes DEF Overtakes
  <2>4. ASSUME NEW u \in Unit, AppOf[u] # None
        PROVE  Knows(tracker.units, Pipeline', Len(Pipeline), u) <=> u \in live
    <3>1. AppOf[u] \in AppId /\ u \in UnitsOf(Unit, AppOf[u])
      BY <2>4, ScopeAssumption DEF UnitsOf
    <3>2. SurvivesAtEnd(tracker.units, Pipeline, Pipeline', UnitsOf(Unit, AppOf[u]))
      BY <1>7, <3>1, KnowsOfForwarded
    <3> QED BY <2>2, <2>4, <3>1, <3>2 DEF SurvivesAtEnd, Arrives
  <2> QED BY <2>3, <2>4 DEF Arrives
<1>8. CASE StreamsEnd
  BY <1>8 DEF StreamsEnd, ReachInv, Following
<1>9. CASE TakeSignal \/ TakeListing
  <2>1. UNCHANGED <<live, phase, wire, listing, crossed>>
    BY <1>9 DEF TakeSignal, TakeListing, world, forwarder
  <2>2. Hears(tracker.units, Pipeline, tracker'.units, Pipeline')
    BY <1>9, TakingHears
  <2>3. Len(Pipeline') \in Nat
    BY NextPipelineIs
  <2>4. Following' /\ crossed' = {} => Arrives(tracker'.units, Pipeline', live')
    BY <2>1, <2>2, <2>3, ArrivesHeard DEF ReachInv, Following
  <2> QED BY <2>1, <2>4 DEF ReachInv
<1> QED BY <1>1, <1>2, <1>3, <1>4, <1>5, <1>6, <1>7, <1>8, <1>9, AsideSteps
        DEF Next, Forwarder, Watcher, Frontend

\* The first that the watcher takes is a listing, sent before any signal.
SeedInv ==
  watcher # "seeded" => /\ channel # <<>> => Head(channel).kind = "Reconcile"
                        /\ phase = "forwarding" => channel # <<>>

LEMMA NextSeeds ==
  ASSUME TypedAndAgreeing, TypedAndAgreeing', SeedInv, [Next]_vars
  PROVE  SeedInv'
<1>1. channel \in Seq(Event)
  BY DEF TypedAndAgreeing, TypeOK
<1>2. CASE channel' = channel /\ (watcher' = "seeded" => watcher = "seeded")
           /\ (phase' = "forwarding" => phase = "forwarding")
  <2>1. watcher = "seeded" /\ watcher' # "seeded" => FALSE
    BY <1>2 DEF Next, Forwarder, Watcher, Frontend, vars, monitor, UnitStarts, UnitStops,
                WindowChanges, Subscribe, ListUnits, SendListing, ForwardSignal, StreamsEnd,
                StartWatching, TakeSignal, TakeListing, PollWindows, Poll, AskAppState,
                AnswerAppState
  <2> QED BY <1>2, <2>1 DEF SeedInv
<1>3. CASE SendListing
  <2>1. /\ Reconcile(listing) \in Event /\ Reconcile(listing).kind = "Reconcile"
        /\ channel' = Append(channel, Reconcile(listing)) /\ watcher' = watcher
    BY <1>3 DEF SendListing, monitor, Reconcile, Event, TypedAndAgreeing, TypeOK
  <2>2. channel' # <<>> /\ Head(channel') = IF channel = <<>> THEN Reconcile(listing)
                                            ELSE Head(channel)
    BY <1>1, <2>1
  <2> QED BY <2>1, <2>2 DEF SeedInv
<1>4. ASSUME NEW i \in DOMAIN wire, ForwardSignal(i) PROVE SeedInv'
  <2>1. /\ wire[i] \in Event /\ channel' = Append(channel, wire[i]) /\ watcher' = watcher
        /\ phase = "forwarding"
    BY <1>4 DEF ForwardSignal, monitor, Event, TypedAndAgreeing, TypeOK
  <2>2. watcher # "seeded" => channel # <<>>
    BY <2>1 DEF SeedInv
  <2>3. channel # <<>> => channel' # <<>> /\ Head(channel') = Head(channel)
    BY <1>1, <2>1
  <2> QED BY <2>1, <2>2, <2>3 DEF SeedInv
<1>5. CASE TakeListing
  BY <1>5 DEF TakeListing, SeedInv
<1>6. CASE TakeSignal
  BY <1>6 DEF TakeSignal, SeedInv
<1>7. \/ channel' = channel /\ (watcher' = "seeded" => watcher = "seeded")
         /\ (phase' = "forwarding" => phase = "forwarding")
      \/ SendListing \/ (\E i \in DOMAIN wire : ForwardSignal(i))
      \/ TakeListing \/ TakeSignal
  BY DEF Next, Forwarder, Watcher, Frontend, vars, monitor, forwarder, UnitStarts, UnitStops,
         WindowChanges, Subscribe, ListUnits, StreamsEnd, StartWatching, PollWindows, Poll,
         AskAppState, AnswerAppState
<1> QED BY <1>2, <1>3, <1>4, <1>5, <1>6, <1>7


-----------------------------------------------------------------------------
(* The tracker will come through what the frontend was answered *)

\* One who knows the units of K and hears p agrees with S about application a at
\* some point from the one after the first low events on.
AgreesAbout(K, p, low, S, a) ==
  \E n \in low .. Len(p) : a \in S <=> KnowsApp(K, p, n, a)

\* The first listing is silent: what came before it does not count.
Least == IF watcher = "seeded" THEN 0 ELSE 1

\* The watcher comes, for each application, through a state in which it has a
\* scope exactly if it is in S.
Passes(S) == \A a \in AppId : AgreesAbout(tracker.units, Pipeline, Least, S, a)

LEMMA AgreesExtended ==
  ASSUME NEW K, NEW p, NEW q, Extends(p, q), Len(p) \in Nat, Len(q) \in Nat,
         NEW low \in Nat, NEW least \in Nat, least <= low, NEW S, NEW a,
         AgreesAbout(K, p, low, S, a)
  PROVE  AgreesAbout(K, q, least, S, a)
<1>1. PICK n \in low .. Len(p) : a \in S <=> KnowsApp(K, p, n, a)
  BY DEF AgreesAbout
<1>2. n \in Nat /\ n \in least .. Len(q) /\ \A i \in 1 .. n : q[i] = p[i]
  BY DEF Extends
<1>3. \A u \in Unit : Knows(K, p, n, u) <=> Knows(K, q, n, u)
  BY <1>2, KnowsOfPrefix
<1>4. KnowsApp(K, p, n, a) <=> KnowsApp(K, q, n, a)
  BY <1>3 DEF KnowsApp
<1> QED BY <1>1, <1>2, <1>4 DEF AgreesAbout

\* An event is taken: a point before it is one after it when the application
\* starts or stops with it for nobody to see.
LEMMA AgreesHeard ==
  ASSUME NEW K, NEW L, NEW p, NEW q, Hears(K, p, L, q), Len(q) \in Nat,
         NEW low \in Nat, NEW S, NEW a \in AppId, AgreesAbout(K, p, low, S, a),
         low = 0 => (a \in AppsOf(K) <=> a \in AppsOf(L)),
         K \subseteq Unit, L \subseteq Unit
  PROVE  AgreesAbout(L, q, 0, S, a)
<1>1. PICK n \in low .. Len(p) : a \in S <=> KnowsApp(K, p, n, a)
  BY DEF AgreesAbout
<1>2. Len(p) = Len(q) + 1 /\ a # None
  BY ScopeAssumption DEF Hears
<1>3. CASE n = 0
  <2>1. low = 0
    BY <1>3
  <2>2. KnowsApp(K, p, 0, a) <=> a \in AppsOf(K)
    BY <1>2, KnowsAtFirst DEF KnowsApp, AppsOf
  <2>3. KnowsApp(L, q, 0, a) <=> a \in AppsOf(L)
    BY <1>2, KnowsAtFirst DEF KnowsApp, AppsOf
  <2>4. 0 \in 0 .. Len(q)
    OBVIOUS
  <2> QED BY <1>1, <1>3, <2>1, <2>2, <2>3, <2>4 DEF AgreesAbout
<1>4. CASE n # 0
  <2>1. PICK m \in 0 .. Len(q) : n = m + 1
    <3>1. n - 1 \in 0 .. Len(q) /\ n = (n - 1) + 1
      BY <1>2, <1>4
    <3> QED BY <3>1
  <2>2. ASSUME NEW u \in Unit, AppOf[u] = a
        PROVE  Knows(L, q, m, u) <=> Knows(K, p, m + 1, u)
    BY <1>2, <2>2, KnowsOfHeard
  <2>3. KnowsApp(L, q, m, a) <=> KnowsApp(K, p, n, a)
    BY <2>1, <2>2 DEF KnowsApp
  <2> QED BY <1>1, <2>3 DEF AgreesAbout
<1> QED BY <1>3, <1>4

LEMMA AgreesForwarded ==
  ASSUME NEW K, NEW p, NEW q, Len(p) \in Nat, Len(q) = Len(p), NEW low \in {0, 1},
         NEW m \in Nat, low = 1 => m > 1, m >= 1, m <= Len(p), NEW S, NEW a,
         \A n \in 0 .. Len(p) : SurvivesAt(K, p, q, UnitsOf(Unit, a), n, m),
         AgreesAbout(K, p, low, S, a)
  PROVE  AgreesAbout(K, q, low, S, a)
<1>1. PICK n \in low .. Len(p) : a \in S <=> KnowsApp(K, p, n, a)
  BY DEF AgreesAbout
<1>2. n \in 0 .. Len(p)
  OBVIOUS
<1>3. PICK l \in 0 .. Len(p) : /\ l >= n \/ l = m - 1
                               /\ \A u \in UnitsOf(Unit, a) :
                                    Knows(K, p, n, u) <=> Knows(K, q, l, u)
  BY <1>2 DEF SurvivesAt
<1>4. l \in low .. Len(q)
  BY <1>3
<1>5. KnowsApp(K, p, n, a) <=> KnowsApp(K, q, l, a)
  BY <1>3 DEF KnowsApp, UnitsOf
<1> QED BY <1>1, <1>4, <1>5 DEF AgreesAbout

\* Steps that take nothing from the pipeline.
LEMMA PassesKept ==
  ASSUME TypedAndAgreeing, TypedAndAgreeing', Extends(Pipeline, Pipeline'),
         UNCHANGED tracker, watcher = "seeded" => watcher' = "seeded", NEW S, Passes(S)
  PROVE  Passes(S)'
<1>1. Len(Pipeline) \in Nat /\ Len(Pipeline') \in Nat
  BY PipelineIs, NextPipelineIs
<1>2. Least \in Nat /\ Least' \in Nat /\ Least' <= Least
  BY DEF Least
<1>3. ASSUME NEW a \in AppId
      PROVE  AgreesAbout(tracker.units, Pipeline', Least', S, a)
  <2>1. AgreesAbout(tracker.units, Pipeline, Least, S, a)
    BY DEF Passes
  <2> QED BY <1>1, <1>2, <2>1, AgreesExtended
<1> QED BY <1>3 DEF Passes

LEMMA NextPasses ==
  ASSUME TypedAndAgreeing, TypedAndAgreeing', SeedInv, [Next]_vars,
         ~told', crossed' = {}, "scopes" \notin blind', NEW S, Passes(S)
  PROVE  Passes(S)'
<1>1. Len(Pipeline) \in Nat /\ Len(Pipeline') \in Nat
  BY PipelineIs, NextPipelineIs
<1>2. IsPipe(Pipeline, channel, phase, listing, wire)
      /\ IsPipe(Pipeline', channel', phase', listing', wire')
  BY PipelineIs, NextPipelineIs
<1>3. channel \in Seq(Event) /\ Len(channel) \in Nat /\ wire \in Seq(UnitSignal)
      /\ Len(wire) \in Nat
  BY DEF TypedAndAgreeing, TypeOK
<1>4. ASSUME Pipeline' = Pipeline PROVE Extends(Pipeline, Pipeline')
  BY <1>1, <1>4 DEF Extends
<1>5. ASSUME NEW e \in UnitSignal, Emit(e),
             UNCHANGED <<phase, listing, channel, tracker, watcher>>
      PROVE  Passes(S)'
  <2>1. CASE Following
    <3>1. Gains(Pipeline, Pipeline', e)
      BY <1>5, <2>1, EmittingGains DEF Emit, Receives, Following
    <3>2. Extends(Pipeline, Pipeline')
      BY <3>1 DEF Gains, Extends
    <3> QED BY <1>5, <3>2, PassesKept
  <2>2. CASE ~Following
    <3>1. Pipeline' = Pipeline
      BY <1>5, <2>2 DEF Pipeline, Pipe, Following
    <3> QED BY <1>4, <1>5, <3>1, PassesKept
  <2> QED BY <2>1, <2>2
<1>6. ASSUME NEW u \in Unit, UnitStarts(u) PROVE Passes(S)'
  <2>1. New(u) \in UnitSignal
    BY DEF New, UnitSignal
  <2>2. Emit(New(u)) /\ UNCHANGED <<phase, listing, channel, tracker, watcher>>
    BY <1>6 DEF UnitStarts, monitor
  <2> QED BY <1>5, <2>1, <2>2
<1>7. ASSUME NEW u \in Unit, UnitStops(u) PROVE Passes(S)'
  <2>1. Removed(u) \in UnitSignal
    BY DEF Removed, UnitSignal
  <2>2. Emit(Removed(u)) /\ UNCHANGED <<phase, listing, channel, tracker, watcher>>
    BY <1>7 DEF UnitStops, monitor
  <2> QED BY <1>5, <2>1, <2>2
<1>8. ASSUME \/ \E a \in WindowId : WindowChanges(a)
             \/ StartWatching \/ PollWindows \/ AskAppState \/ AnswerAppState
             \/ UNCHANGED vars
      PROVE  Passes(S)'
  <2>1. Aside
    BY <1>8, AsideSteps
  <2>2. Pipeline' = Pipeline /\ UNCHANGED tracker
    BY <2>1 DEF Aside, Pipeline
  <2>3. watcher = "seeded" => watcher' = "seeded"
    BY <1>8 DEF WindowChanges, StartWatching, PollWindows, Poll, AskAppState,
                AnswerAppState, vars, monitor
  <2> QED BY <1>4, <2>2, <2>3, PassesKept
<1>9. CASE Subscribe
  <2>1. Pipeline' = Pipeline /\ UNCHANGED <<tracker, watcher>>
    BY <1>9 DEF Subscribe, Pipeline, Pipe, monitor
  <2> QED BY <1>4, <2>1, PassesKept
<1>10. CASE ListUnits
  <2>1. phase = "subscribed" /\ channel' = channel /\ UNCHANGED <<tracker, watcher>>
    BY <1>10 DEF ListUnits, monitor
  <2>2. Pipeline = channel
    BY <1>2, <2>1 DEF IsPipe
  <2>3. Extends(Pipeline, Pipeline')
    BY <1>2, <2>1, <2>2 DEF IsPipe, Extends
  <2> QED BY <2>1, <2>3, PassesKept
<1>11. CASE SendListing
  <2>1. Pipeline' = Pipeline /\ UNCHANGED <<tracker, watcher>>
    BY <1>11, SendingKeeps DEF SendListing, monitor
  <2> QED BY <1>4, <2>1, PassesKept
<1>12. CASE StreamsEnd
  <2>1. /\ phase \in {"subscribed", "forwarding"} /\ phase' = "paused"
        /\ UNCHANGED <<channel, tracker, watcher>>
        /\ wire = <<>>
    BY <1>12 DEF StreamsEnd, monitor
  <2>2. Pipeline' = channel
    BY <1>2, <2>1 DEF IsPipe
  <2>3. Extends(Pipeline, Pipeline')
    <3>1. CASE phase = "subscribed"
      <4>1. Pipeline = channel
        BY <1>2, <3>1 DEF IsPipe
      <4> QED BY <1>4, <2>2, <4>1
    <3>2. CASE phase = "forwarding"
      <4>1. Len(Pipeline) = Len(channel) + Len(wire)
            /\ \A i \in 1 .. Len(channel) : Pipeline[i] = channel[i]
        BY <1>2, <3>2 DEF IsPipe
      <4>2. Len(wire) = 0
        BY <2>1
      <4>3. Len(Pipeline) = Len(channel)
        BY <1>3, <4>1, <4>2
      <4> QED BY <1>3, <2>2, <4>1, <4>3 DEF Extends
    <3> QED BY <2>1, <3>1, <3>2
  <2> QED BY <2>1, <2>3, PassesKept
<1>13. ASSUME NEW i \in DOMAIN wire, ForwardSignal(i) PROVE Passes(S)'
  <2>1. phase = "forwarding" /\ UNCHANGED <<tracker, watcher>>
    BY <1>13 DEF ForwardSignal, monitor
  <2>2. Least \in {0, 1} /\ Least' = Least /\ (Least = 1 => channel # <<>>)
    BY <2>1 DEF Least, SeedInv
  <2>3. Least = 1 => Len(channel) + 1 > 1
    BY <1>3, <2>2
  <2>4. /\ Len(channel) + 1 \in Nat /\ Len(channel) + 1 >= 1
        /\ Len(channel) + 1 <= Len(Pipeline) /\ Len(Pipeline') = Len(Pipeline)
    BY <1>1, <1>3, <1>13, ForwardingOvertakes DEF Overtakes
  <2>5. ASSUME NEW a \in AppId
        PROVE  AgreesAbout(tracker.units, Pipeline', Least, S, a)
    <3>1. \A n \in 0 .. Len(Pipeline) : SurvivesAt(tracker.units, Pipeline, Pipeline',
                                          UnitsOf(Unit, a), n, Len(channel) + 1)
      BY <1>13, KnowsOfForwarded
    <3>2. AgreesAbout(tracker.units, Pipeline, Least, S, a)
      BY DEF Passes
    <3> QED BY <1>1, <2>2, <2>3, <2>4, <3>1, <3>2, AgreesForwarded
  <2> QED BY <2>1, <2>2, <2>5 DEF Passes
<1>14. CASE TakeSignal \/ TakeListing
  <2>1. Hears(tracker.units, Pipeline, tracker'.units, Pipeline')
    BY <1>14, TakingHears
  <2>2. watcher' = "seeded"
    BY <1>14 DEF TakeSignal, TakeListing, SeedInv
  <2>3. /\ IsTracker(tracker) /\ CountsAgreeIn(tracker)
        /\ IsTracker(tracker') /\ CountsAgreeIn(tracker')
    BY DEF TypedAndAgreeing, TypeOK, CountsAgree
  <2>4. Least = 0 => AppsOf(tracker.units) = AppsOf(tracker'.units)
    <3> SUFFICES ASSUME watcher = "seeded"
                 PROVE  AppsOf(tracker.units) = AppsOf(tracker'.units)
      BY DEF Least
    <3>1. AppIds(tracker') = AppIds(tracker)
      <4>1. [Announced]_vars
        BY NextAnnounces
      <4>2. vars' = vars => tracker' = tracker
        BY DEF vars, monitor
      <4> QED BY <4>1, <4>2 DEF Announced
    <3> QED BY <2>3, <3>1 DEF CountsAgreeIn
  <2>5. tracker.units \subseteq Unit /\ tracker'.units \subseteq Unit
    BY <2>3 DEF IsTracker
  <2>6. Least \in Nat /\ Least' = 0
    BY <2>2 DEF Least
  <2>7. ASSUME NEW a \in AppId
        PROVE  AgreesAbout(tracker'.units, Pipeline', 0, S, a)
    <3>1. AgreesAbout(tracker.units, Pipeline, Least, S, a)
      BY DEF Passes
    <3> QED BY <1>1, <2>1, <2>4, <2>5, <2>6, <3>1, AgreesHeard
  <2> QED BY <2>6, <2>7 DEF Passes
<1> QED BY <1>6, <1>7, <1>8, <1>9, <1>10, <1>11, <1>12, <1>13, <1>14
        DEF Next, Forwarder, Watcher, Frontend


\* An answer that is on its way was, in its scopes, one the watcher comes through.
AskedInv ==
  query # None /\ ~told /\ crossed = {} /\ "scopes" \notin blind => Passes(AppsOf(query))

LEMMA NextAsked ==
  ASSUME TypedAndAgreeing, TypedAndAgreeing', ReachInv, SeedInv, AskedInv, [Next]_vars
  PROVE  AskedInv'
<1> SUFFICES ASSUME query' # None, ~told', crossed' = {}, "scopes" \notin blind'
             PROVE  Passes(AppsOf(query))'
  BY DEF AskedInv
<1>1. PICK S : S = AppsOf(query')
  OBVIOUS
<1>2. ASSUME Passes(S)' PROVE Passes(AppsOf(query))'
  BY <1>1, <1>2 DEF Passes
<1>3. crossed = {}
  BY DEF Next, Forwarder, Watcher, Frontend, vars, UnitStarts, UnitStops, WindowChanges,
         Subscribe, ListUnits, SendListing, ForwardSignal, StreamsEnd, StartWatching,
         TakeSignal, TakeListing, PollWindows, Poll, AskAppState, AnswerAppState
<1>4. CASE AskAppState
  <2>1. query' = live /\ phase \in {"listed", "forwarding"}
    <3>1. \/ query' = live /\ Read("scopes", phase \in {"paused", "subscribed"})
          \/ Read("scopes", TRUE)
      BY <1>4 DEF AskAppState
    <3>2. Read("scopes", TRUE) => "scopes" \in blind'
      BY DEF Read
    <3>3. Read("scopes", phase \in {"paused", "subscribed"})
            => phase \notin {"paused", "subscribed"}
      BY DEF Read
    <3>4. phase \in Phase
      BY DEF TypedAndAgreeing, TypeOK
    <3> QED BY <3>1, <3>2, <3>3, <3>4 DEF Phase
  <2>2. Arrives(tracker.units, Pipeline, live)
    BY <1>3, <2>1 DEF ReachInv, Following
  <2>3. Len(Pipeline) \in Nat /\ Len(Pipeline) >= Least
    <3>1. IsPipe(Pipeline, channel, phase, listing, wire) /\ Len(Pipeline) \in Nat
      BY PipelineIs
    <3>2. channel \in Seq(Event) /\ Len(channel) \in Nat /\ Len(wire) \in Nat
      BY DEF TypedAndAgreeing, TypeOK
    <3>3. CASE watcher = "seeded"
      BY <3>1, <3>3 DEF Least
    <3>4. CASE watcher # "seeded" /\ phase = "listed"
      <4>1. Len(Pipeline) = Len(channel) + 1 + Len(wire)
        BY <3>1, <3>4 DEF IsPipe
      <4>2. Least = 1
        BY <3>4 DEF Least
      <4> QED BY <3>2, <4>1, <4>2
    <3>5. CASE watcher # "seeded" /\ phase = "forwarding"
      <4>1. channel # <<>>
        BY <3>5 DEF SeedInv
      <4>2. Len(channel) >= 1
        BY <3>2, <4>1
      <4>3. Len(channel) <= Len(Pipeline)
        BY <3>1 DEF IsPipe
      <4>4. Least = 1
        BY <3>5 DEF Least
      <4> QED BY <3>1, <3>2, <4>2, <4>3, <4>4
    <3> QED BY <2>1, <3>3, <3>4, <3>5
  <2>4. Least \in Nat /\ Len(Pipeline) \in Least .. Len(Pipeline)
    <3>1. Least \in Nat
      BY DEF Least
    <3> QED BY <2>3, <3>1
  <2>5. ASSUME NEW a \in AppId
        PROVE  AgreesAbout(tracker.units, Pipeline, Least, S, a)
    <3>1. a # None /\ live \subseteq Unit
      BY ScopeAssumption DEF TypedAndAgreeing, TypeOK
    <3>2. a \in S <=> KnowsApp(tracker.units, Pipeline, Len(Pipeline), a)
      BY <1>1, <2>1, <2>2, <3>1 DEF KnowsApp, Arrives, AppsOf
    <3> QED BY <2>4, <3>2 DEF AgreesAbout
  <2>6. Passes(S)
    BY <2>5 DEF Passes
  <2> QED BY <1>2, <2>6, NextPasses
<1>5. CASE ~AskAppState
  <2>1. query' = query /\ ("scopes" \in blind => "scopes" \in blind')
    BY <1>5 DEF Next, Forwarder, Watcher, Frontend, vars, frontend, UnitStarts, UnitStops,
                WindowChanges, Subscribe, ListUnits, SendListing, ForwardSignal, StreamsEnd,
                StartWatching, TakeSignal, TakeListing, PollWindows, Poll, AnswerAppState
  <2>2. told => told'
    BY <1>5 DEF Next, Forwarder, Watcher, Frontend, vars, frontend, UnitStarts, UnitStops,
                WindowChanges, Subscribe, ListUnits, SendListing, ForwardSignal, StreamsEnd,
                StartWatching, TakeSignal, TakeListing, PollWindows, Poll, Announce,
                AnswerAppState
  <2>3. Passes(S)
    BY <1>1, <1>3, <2>1, <2>2 DEF AskedInv
  <2> QED BY <1>2, <2>3, NextPasses
<1> QED BY <1>4, <1>5

\* What the last poll saw differs from the present windows in no application
\* whose window did not change since then.
PollInv == Watching => \A a \in AppId : a \in changed \/ (a \in windows <=> a \in lastWindowed)

LEMMA NextPolls ==
  ASSUME TypedAndAgreeing, PollInv, [Next]_vars
  PROVE  PollInv'
<1>1. ASSUME NEW b \in WindowId, WindowChanges(b) PROVE PollInv'
  <2>1. /\ \A a \in AppId : a # b => (a \in windows' <=> a \in windows)
        /\ changed' = changed \cup {b} /\ UNCHANGED <<watcher, lastWindowed>>
    BY <1>1 DEF WindowChanges, monitor
  <2> QED BY <2>1 DEF PollInv, Watching
<1>2. CASE StartWatching
  <2>1. windows' = windows /\ (\/ lastWindowed' = windows
                               \/ lastWindowed' = {} /\ changed' = windows)
    BY <1>2 DEF StartWatching, world
  <2> QED BY <2>1 DEF PollInv
<1>3. CASE PollWindows
  BY <1>3 DEF PollWindows, Poll, PollInv, world
<1>4. CASE UNCHANGED <<windows, watcher, lastWindowed, changed>>
  BY <1>4 DEF PollInv, Watching
<1>5. CASE TakeListing
  BY <1>5 DEF TakeListing, PollInv, Watching, world, windowHistory
<1>6. \/ \E b \in WindowId : WindowChanges(b)
      \/ StartWatching \/ PollWindows \/ TakeListing
      \/ UNCHANGED <<windows, watcher, lastWindowed, changed>>
  BY DEF Next, Forwarder, Watcher, Frontend, vars, world, monitor, windowHistory,
         UnitStarts, UnitStops, Subscribe, ListUnits, SendListing, ForwardSignal, StreamsEnd,
         TakeSignal, AskAppState, AnswerAppState
<1> QED BY <1>1, <1>2, <1>3, <1>4, <1>5, <1>6

\* The poll will come to the windows of W, or has seen them: an application whose
\* window went one way and back between two polls is not noticed.
Polled(W) ==
  \A a \in AppId : \/ a \in W <=> a \in lastWindowed
                   \/ a \in changed /\ (a \in W <=> a \in windows)
                   \/ a \in flickered

Shown(S, W) ==
  /\ view = AppState(S, W)
  /\ crossed = {} /\ "scopes" \notin blind => Passes(S)
  /\ "windows" \notin blind => Watching /\ Polled(W)

\* The last answer was made of scopes that the watcher comes through, and of
\* windows that the poll comes to: a change after it will be announced.
ViewInv == query = None /\ ~told => \E S \in SUBSET AppId, W \in SUBSET AppId : Shown(S, W)

LEMMA NextPolled ==
  ASSUME TypedAndAgreeing, TypedAndAgreeing', [Next]_vars, ~told', ~AnswerAppState,
         NEW W, Watching, Polled(W)
  PROVE  Watching' /\ Polled(W)'
<1>1. Watching'
  BY DEF Next, Forwarder, Watcher, Frontend, vars, monitor, Watching, UnitStarts, UnitStops,
         WindowChanges, Subscribe, ListUnits, SendListing, ForwardSignal, StreamsEnd,
         StartWatching, TakeSignal, TakeListing, PollWindows, Poll, AskAppState
<1>2. ASSUME NEW b \in WindowId, WindowChanges(b) PROVE Polled(W)'
  <2>1. /\ \A a \in AppId : a # b => (a \in windows' <=> a \in windows)
        /\ b \in windows' <=> b \notin windows
        /\ changed' = changed \cup {b} /\ lastWindowed' = lastWindowed
        /\ flickered' = flickered \cup (changed \cap {b})
    BY <1>2 DEF WindowChanges, monitor
  <2>2. ASSUME NEW a \in AppId
        PROVE  \/ a \in W <=> a \in lastWindowed'
               \/ a \in changed' /\ (a \in W <=> a \in windows')
               \/ a \in flickered'
    <3>1. \/ a \in W <=> a \in lastWindowed
          \/ a \in changed /\ (a \in W <=> a \in windows)
          \/ a \in flickered
      BY DEF Polled
    <3> QED BY <2>1, <3>1
  <2> QED BY <2>2 DEF Polled
<1>3. CASE PollWindows
  <2>1. lastWindowed' = windows /\ windows = lastWindowed /\ flickered' = flickered
    BY <1>3 DEF PollWindows, Poll, Announce, world, TypedAndAgreeing, TypeOK
  <2>2. lastWindowed' = lastWindowed
    BY <2>1
  <2>3. \A a \in AppId : (a \in W <=> a \in lastWindowed) \/ a \in flickered
    BY <2>1 DEF Polled
  <2> QED BY <1>1, <2>1, <2>2, <2>3 DEF Polled
<1>4. CASE UNCHANGED <<windows, lastWindowed, changed, flickered>>
  <2>1. /\ windows' = windows /\ lastWindowed' = lastWindowed /\ changed' = changed
        /\ flickered' = flickered
    BY <1>4
  <2> QED BY <1>1, <2>1 DEF Polled
<1>5. \/ \E b \in WindowId : WindowChanges(b)
      \/ PollWindows \/ UNCHANGED <<windows, lastWindowed, changed, flickered>>
  BY DEF Next, Forwarder, Watcher, Frontend, vars, world, monitor, windowHistory, Watching,
         UnitStarts, UnitStops, Subscribe, ListUnits, SendListing, ForwardSignal, StreamsEnd,
         StartWatching, TakeSignal, TakeListing, AskAppState
<1> QED BY <1>1, <1>2, <1>3, <1>4, <1>5

LEMMA NextViews ==
  ASSUME TypedAndAgreeing, TypedAndAgreeing', SeedInv, AskedInv, PollInv, ViewInv,
         [Next]_vars
  PROVE  ViewInv'
<1> SUFFICES ASSUME query' = None, ~told'
             PROVE  \E S \in SUBSET AppId, W \in SUBSET AppId : Shown(S, W)'
  BY DEF ViewInv
<1>1. crossed' = {} => crossed = {}
  BY DEF Next, Forwarder, Watcher, Frontend, vars, UnitStarts, UnitStops, WindowChanges,
         Subscribe, ListUnits, SendListing, ForwardSignal, StreamsEnd, StartWatching,
         TakeSignal, TakeListing, PollWindows, Poll, AskAppState, AnswerAppState
<1>2. CASE AnswerAppState
  <2>1. PICK S \in SUBSET AppId : S = AppsOf(query)
    <3>1. query \in SUBSET Unit
      BY <1>2 DEF AnswerAppState, TypedAndAgreeing, TypeOK
    <3>2. AppsOf(query) \in SUBSET AppId
      BY <3>1, ScopeAssumption DEF AppsOf
    <3> QED BY <3>2
  <2>2. query # None /\ told' = told /\ UNCHANGED <<windows, watcher, lastWindowed, changed>>
    BY <1>2 DEF AnswerAppState, world, monitor
  <2>3. crossed' = {} /\ "scopes" \notin blind' => Passes(S)'
    <3> SUFFICES ASSUME crossed' = {}, "scopes" \notin blind' PROVE Passes(S)'
      OBVIOUS
    <3>1. "scopes" \notin blind
      BY <1>2 DEF AnswerAppState, Read
    <3>2. Passes(S)
      BY <1>1, <2>1, <2>2, <3>1 DEF AskedInv
    <3> QED BY <3>2, NextPasses
  <2>4. CASE /\ view' = AppState(AppsOf(query), windows)
             /\ Read("windows", ~Watching) /\ flickered' = {}
    <3>1. "windows" \notin blind' => Watching' /\ Polled(windows)'
      <4> SUFFICES ASSUME "windows" \notin blind' PROVE Watching' /\ Polled(windows)'
        OBVIOUS
      <4>1. Watching
        BY <2>4 DEF Read
      <4>2. \A a \in AppId : a \in changed \/ (a \in windows <=> a \in lastWindowed)
        BY <4>1 DEF PollInv
      <4> QED BY <2>2, <4>1, <4>2 DEF Polled, Watching
    <3>2. PICK W \in SUBSET AppId : W = windows /\ W = windows'
      BY <2>2, MonitorAssumption DEF TypedAndAgreeing, TypeOK
    <3>3. "windows" \notin blind' => Watching' /\ Polled(W)'
      BY <3>1, <3>2 DEF Polled
    <3>4. Shown(S, W)'
      BY <2>1, <2>3, <2>4, <3>2, <3>3 DEF Shown
    <3> QED BY <3>4
  <2>5. CASE view' = AppState(AppsOf(query), {}) /\ Read("windows", TRUE)
    <3>1. "windows" \in blind'
      BY <2>5 DEF Read
    <3>2. Shown(S, {})'
      BY <2>1, <2>3, <2>5, <3>1 DEF Shown
    <3> QED BY <3>2
  <2> QED BY <1>2, <2>4, <2>5 DEF AnswerAppState
<1>3. CASE ~AnswerAppState
  <2>1. ~AskAppState
    <3> SUFFICES ASSUME AskAppState PROVE FALSE
      OBVIOUS
    <3>1. query' = live \/ query' = {}
      BY DEF AskAppState
    <3>2. query' \in SUBSET Unit
      BY <3>1 DEF TypedAndAgreeing, TypeOK
    <3> QED BY <3>2, AbsenceAssumption
  <2>2. /\ query = None /\ view' = view
        /\ "scopes" \in blind => "scopes" \in blind'
        /\ "windows" \in blind => "windows" \in blind'
    BY <1>3, <2>1 DEF Next, Forwarder, Watcher, Frontend, vars, frontend, UnitStarts,
                UnitStops, WindowChanges, Subscribe, ListUnits, SendListing, ForwardSignal,
                StreamsEnd, StartWatching, TakeSignal, TakeListing, PollWindows, Poll
  <2>7. told => told'
    BY <1>3, <2>1 DEF Next, Forwarder, Watcher, Frontend, vars, frontend, UnitStarts,
                UnitStops, WindowChanges, Subscribe, ListUnits, SendListing, ForwardSignal,
                StreamsEnd, StartWatching, TakeSignal, TakeListing, PollWindows, Poll, Announce
  <2>3. PICK S \in SUBSET AppId, W \in SUBSET AppId : Shown(S, W)
    BY <2>2, <2>7 DEF ViewInv
  <2>4. crossed' = {} /\ "scopes" \notin blind' => Passes(S)'
    <3> SUFFICES ASSUME crossed' = {}, "scopes" \notin blind' PROVE Passes(S)'
      OBVIOUS
    <3>1. Passes(S)
      BY <1>1, <2>2, <2>3 DEF Shown
    <3> QED BY <3>1, NextPasses
  <2>5. "windows" \notin blind' => Watching' /\ Polled(W)'
    <3> SUFFICES ASSUME "windows" \notin blind' PROVE Watching' /\ Polled(W)'
      OBVIOUS
    <3>1. Watching /\ Polled(W)
      BY <2>2, <2>3 DEF Shown
    <3> QED BY <1>3, <3>1, NextPolled
  <2>6. Shown(S, W)'
    BY <2>2, <2>3, <2>4, <2>5 DEF Shown
  <2> QED BY <2>6
<1> QED BY <1>2, <1>3

QuietInv ==
  TypedAndAgreeing /\ ReachInv /\ SeedInv /\ AskedInv /\ PollInv /\ ViewInv

LEMMA InitQuiet == Init => QuietInv
<1> SUFFICES ASSUME Init PROVE QuietInv
  OBVIOUS
<1>1. SeedInv /\ AskedInv /\ PollInv /\ ViewInv
  BY DEF Init, SeedInv, AskedInv, PollInv, ViewInv, Watching
<1> QED BY <1>1, InitTyped, InitReaches DEF QuietInv

LEMMA NextQuiet == QuietInv /\ [Next]_vars => QuietInv'
<1> SUFFICES ASSUME QuietInv, [Next]_vars PROVE QuietInv'
  OBVIOUS
<1>1. TypedAndAgreeing /\ ReachInv /\ SeedInv /\ AskedInv /\ PollInv /\ ViewInv
  BY DEF QuietInv
<1>2. TypedAndAgreeing'
  BY <1>1, NextTyped
<1>3. ReachInv'
  BY <1>1, <1>2, NextReaches
<1>4. SeedInv'
  BY <1>1, <1>2, NextSeeds
<1>5. AskedInv'
  BY <1>1, <1>2, NextAsked
<1>6. PollInv'
  BY <1>1, NextPolls
<1>7. ViewInv'
  BY <1>1, <1>2, NextViews
<1> QED BY <1>2, <1>3, <1>4, <1>5, <1>6, <1>7 DEF QuietInv

\* When the pipeline is empty, the one point of it is the present.
LEMMA QuietIsCurrent == QuietInv => QuietViewIsCurrent
<1> SUFFICES ASSUME QuietInv, Settled, ~told, query = None, changed = {},
                    crossed = {}, blind = {}, flickered = {}
             PROVE  view = AppState(AppsOf(live), windows)
  BY DEF QuietViewIsCurrent, Current, Excused
<1>1. TypedAndAgreeing /\ ReachInv /\ SeedInv /\ AskedInv /\ PollInv /\ ViewInv
  BY DEF QuietInv
<1>2. PICK S \in SUBSET AppId, W \in SUBSET AppId : Shown(S, W)
  BY <1>1 DEF ViewInv
<1>3. view = AppState(S, W) /\ Passes(S) /\ Watching /\ Polled(W)
  BY <1>2 DEF Shown
<1>4. Len(Pipeline) = 0
  <2>1. IsPipe(Pipeline, channel, phase, listing, wire)
    BY <1>1, PipelineIs
  <2>2. Len(channel) = 0 /\ Len(wire) = 0 /\ phase = "forwarding"
    BY DEF Settled
  <2>3. Len(Pipeline) = Len(channel) + Len(wire)
    BY <2>1, <2>2 DEF IsPipe
  <2> QED BY <2>2, <2>3
<1>5. ASSUME NEW a \in AppId
      PROVE  a \in S <=> a \in AppsOf(live)
  <2>1. a # None /\ live \subseteq Unit
    BY <1>1, ScopeAssumption DEF TypedAndAgreeing, TypeOK
  <2>2. AgreesAbout(tracker.units, Pipeline, Least, S, a)
    BY <1>3 DEF Passes
  <2>3. PICK n \in Least .. Len(Pipeline) : a \in S <=> KnowsApp(tracker.units, Pipeline, n, a)
    BY <2>2 DEF AgreesAbout
  <2>4. n = Len(Pipeline)
    BY <1>4, <2>3 DEF Least, Settled
  <2>5. Arrives(tracker.units, Pipeline, live)
    BY <1>1 DEF ReachInv, Following, Settled
  <2>6. KnowsApp(tracker.units, Pipeline, Len(Pipeline), a) <=> a \in AppsOf(live)
    BY <2>1, <2>5 DEF KnowsApp, Arrives, AppsOf
  <2> QED BY <2>3, <2>4, <2>6
<1>6. S = AppsOf(live)
  <2>1. AppsOf(live) \subseteq AppId
    BY <1>1, ScopeAssumption DEF AppsOf, TypedAndAgreeing, TypeOK
  <2> QED BY <1>5, <2>1
<1>7. W = windows
  <2>1. \A a \in AppId : a \in W <=> a \in lastWindowed
    BY <1>3 DEF Polled
  <2>2. \A a \in AppId : a \in windows <=> a \in lastWindowed
    BY <1>1, <1>3 DEF PollInv
  <2>3. windows \subseteq AppId
    BY <1>1, MonitorAssumption DEF TypedAndAgreeing, TypeOK
  <2> QED BY <2>1, <2>2, <2>3
<1> QED BY <1>3, <1>6, <1>7

\* No announcement is lost between GetAppState's two readings, the tracker and
\* the poll: when nothing is left to forward, take, poll or answer, what the
\* frontend was last answered is the present state, for any units, applications
\* and windows and any capacity of the channel.
THEOREM QuietViewIsTrue == Spec => []QuietViewIsCurrent
<1>1. Init => QuietInv
  BY InitQuiet
<1>2. QuietInv /\ [Next]_vars => QuietInv'
  BY NextQuiet
<1>3. QuietInv => QuietViewIsCurrent
  BY QuietIsCurrent
<1> QED BY <1>1, <1>2, <1>3, PTL DEF Spec
=============================================================================
