------------------------- MODULE BackgroundRegistry -------------------------
(***************************************************************************)
(* PendingBackgroundResponseRegistry of src/src/background.rs: the table   *)
(* of NotifyBackground calls that still wait for the user.  Two maps are   *)
(* kept in step:                                                           *)
(*                                                                         *)
(*   by_handle    request handle -> application and oneshot sender         *)
(*   app_handles  application    -> the handles waiting for it             *)
(*                                                                         *)
(* The first handle of an application is its primary: the only one of the  *)
(* group for which a prompt is shown.  The others, the followers, wait for *)
(* the same answer.  The Vec of app_handles is read only as "the first"    *)
(* and "all of them", so a group is a primary and a set of followers.  A   *)
(* oneshot sender is named by the call that holds its receiver.            *)
(*                                                                         *)
(* A registry is a record [byHandle, appHandles] and every method of the   *)
(* Rust type, which runs under one lock, is an operator on it.             *)
(***************************************************************************)
EXTENDS PortalTypes

CONSTANTS
  App,       \* application ids
  Call       \* NotifyBackground calls

Entry == [app : App, call : Call]
Group == [primary : Handle, followers : SUBSET Handle]

ASSUME NoneAssumption ==
  None \notin Handle \cup App \cup Call \cup Entry \cup Group

Registry == [byHandle   : [Handle -> Entry \cup {None}],
             appHandles : [App -> Group \cup {None}]]

\* PendingBackgroundResponseRegistry::default()
EmptyRegistry == [byHandle   |-> [h \in Handle |-> None],
                  appHandles |-> [a \in App |-> None]]

Members(g) == IF g = None THEN {} ELSE {g.primary} \cup g.followers

\* Senders found in by_handle under a set of handles.
SendersOf(reg, hs) ==
  {reg.byHandle[h].call : h \in {k \in hs : reg.byHandle[k] # None}}

\* by_handle without the handles of a set
Forget(reg, hs) ==
  [h \in Handle |-> IF h \in hs THEN None ELSE reg.byHandle[h]]

-----------------------------------------------------------------------------
(* reserve *)

IsDuplicate(reg, h) == reg.byHandle[h] # None

\* Whether the handle would be the first of its application.
PromptNeeded(reg, a) == reg.appHandles[a] = None

\* handles.push(h)
Joined(g, h) ==
  IF g = None THEN [primary |-> h, followers |-> {}]
              ELSE [primary |-> g.primary, followers |-> g.followers \cup {h}]

Reserve(reg, h, a, c) ==
  [byHandle   |-> [reg.byHandle EXCEPT ![h] = [app |-> a, call |-> c]],
   appHandles |-> [reg.appHandles EXCEPT ![a] = Joined(@, h)]]

-----------------------------------------------------------------------------
(* remove_app: the whole group leaves both maps; its senders are returned. *)

\* mutant: the followers stay in by_handle
RemovePrimaryOnly(reg, a) ==
  [byHandle   |-> IF reg.appHandles[a] = None THEN reg.byHandle
                  ELSE Forget(reg, {reg.appHandles[a].primary}),
   appHandles |-> [reg.appHandles EXCEPT ![a] = None]]

RemoveApp(reg, a) ==
  [byHandle   |-> Forget(reg, Members(reg.appHandles[a])),
   appHandles |-> [reg.appHandles EXCEPT ![a] = None]]

SendersOfApp(reg, a) == SendersOf(reg, Members(reg.appHandles[a]))

-----------------------------------------------------------------------------
(* take_app_responses_by_handle: an unknown handle takes nothing. *)

IsKnown(reg, h) == h \in Handle /\ reg.byHandle[h] # None

\* mutant: the answer reaches the request that prompted and no other
TakenAlone(reg, h) == IF IsKnown(reg, h) THEN SendersOf(reg, {h}) ELSE {}

TakenByHandle(reg, h) ==
  IF IsKnown(reg, h) THEN SendersOfApp(reg, reg.byHandle[h].app) ELSE {}

PeekByHandle(reg, h) == reg   \* mutant: an answered group is not removed

TakeByHandle(reg, h) ==
  IF IsKnown(reg, h) THEN RemoveApp(reg, reg.byHandle[h].app) ELSE reg

-----------------------------------------------------------------------------
(* remove_request: the primary takes its followers with it (their senders  *)
(* are dropped), a follower leaves alone, and a handle whose application   *)
(* has no group is removed from by_handle whatever its entry says.         *)

IsMember(reg, h, a) == h \in Members(reg.appHandles[a])   \* mutant

IsPrimary(reg, h, a) ==
  reg.appHandles[a] # None /\ reg.appHandles[a].primary = h

\* handles.retain(pending != h); the primary stays
Left(g, h) ==
  IF g = None THEN None
              ELSE [primary |-> g.primary, followers |-> g.followers \ {h}]

\* mutant: no request is treated as a primary
RemoveFollower(reg, h, a) ==
  [byHandle   |-> Forget(reg, {h}),
   appHandles |-> [reg.appHandles EXCEPT ![a] = Left(@, h)]]

RemoveRequest(reg, h, a) ==
  IF IsPrimary(reg, h, a)
  THEN RemoveApp(reg, a)
  ELSE [byHandle   |-> Forget(reg, {h}),
        appHandles |-> [reg.appHandles EXCEPT ![a] = Left(@, h)]]

DropsOne(reg, h, a) == SendersOf(reg, {h})   \* mutant: followers are not woken

\* The senders that remove_request drops.
DroppedByRequest(reg, h, a) ==
  IF IsPrimary(reg, h, a) THEN SendersOfApp(reg, a) ELSE SendersOf(reg, {h})

-----------------------------------------------------------------------------
(***************************************************************************)
(* The two maps agree: an entry of by_handle is a member of its own        *)
(* application's group and of no other, a member of a group has an entry,  *)
(* and a primary is not among its own followers.                           *)
(***************************************************************************)
MapsAgree(reg) ==
  /\ \A h \in Handle : reg.byHandle[h] # None =>
       h \in Members(reg.appHandles[reg.byHandle[h].app])
  /\ \A a \in App : \A h \in Members(reg.appHandles[a]) :
       reg.byHandle[h] # None /\ reg.byHandle[h].app = a
  /\ \A a \in App : reg.appHandles[a] # None =>
       reg.appHandles[a].primary \notin reg.appHandles[a].followers
=============================================================================
