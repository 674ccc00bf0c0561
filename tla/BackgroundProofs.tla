-------------------------- MODULE BackgroundProofs --------------------------
(***************************************************************************)
(* Theorems about BackgroundPortal.                                        *)
(*                                                                         *)
(*   IInv, TInv   the registry and the types          HandleReuse # "any"  *)
(*   FInv         where each request's sender is, and whom it waits        *)
(*                behind: the refinement of BackgroundConsent      # "any" *)
(*   OInv         nothing is left over                 any use of handles  *)
(*   AInv         cancellations have a cause, groups share their answer    *)
(*   PromptInv    nobody waits behind a lost prompt              = "never" *)
(*                                                                         *)
(* RegistryConsistent is not inductive: that a call removes its own entry  *)
(* and nobody else's depends on no other open call having its handle, so   *)
(* the inductive invariant carries the discipline of the callers.  It      *)
(* holds for callers that wait for the reply before they use a handle      *)
(* again; for others (HandleReuse = "any") TLC refutes the property.       *)
(***************************************************************************)
EXTENDS BackgroundPortal, DialogProofs

-----------------------------------------------------------------------------
(* What the methods of the registry preserve, one lemma each: they return  *)
(* a registry, its two maps agree, and by_handle changes as described.     *)

\* Reading a group: its members are handles.
LEMMA MembersAreHandles ==
  ASSUME NEW g \in Group \cup {None}
  PROVE  Members(g) \subseteq Handle
BY DEF Members, Group

\* reserve adds one entry and makes its handle a member of one group.
LEMMA ReserveAgrees ==
  ASSUME NEW reg \in Registry, NEW h \in Handle, NEW a \in App, NEW c \in Call,
         MapsAgree(reg), ~IsDuplicate(reg, h)
  PROVE  /\ Reserve(reg, h, a, c) \in Registry
         /\ MapsAgree(Reserve(reg, h, a, c))
         /\ Reserve(reg, h, a, c).byHandle =
              [reg.byHandle EXCEPT ![h] = [app |-> a, call |-> c]]
<1> DEFINE new == Reserve(reg, h, a, c)
           e == [app |-> a, call |-> c]
           g == Joined(reg.appHandles[a], h)
<1>1. /\ new.byHandle = [reg.byHandle EXCEPT ![h] = e]
      /\ new.appHandles = [reg.appHandles EXCEPT ![a] = g]
      /\ new = [byHandle |-> new.byHandle, appHandles |-> new.appHandles]
  BY DEF Reserve
<1>2. e \in Entry /\ e # None /\ g \in Group /\ g # None
  BY NoneAssumption DEF Entry, Group, Joined, Registry
<1>3. Members(g) = Members(reg.appHandles[a]) \cup {h}
  BY <1>2, NoneAssumption DEF Members, Joined, Group, Registry
<1>4. new \in Registry
  BY <1>1, <1>2 DEF Registry
<1>5. \A b \in App : h \notin Members(reg.appHandles[b])
  BY DEF MapsAgree, IsDuplicate
<1>6. \A k \in Handle : new.byHandle[k] # None =>
        k \in Members(new.appHandles[new.byHandle[k].app])
  <2> SUFFICES ASSUME NEW k \in Handle, new.byHandle[k] # None
               PROVE  k \in Members(new.appHandles[new.byHandle[k].app])
    OBVIOUS
  <2>1. CASE k = h
    <3>1. new.byHandle[k] = e
      BY <2>1, <1>1 DEF Registry
    <3>2. new.appHandles[a] = g
      BY <1>1 DEF Registry
    <3> QED BY <2>1, <3>1, <3>2, <1>3
  <2>2. CASE k # h
    <3>1. new.byHandle[k] = reg.byHandle[k] /\ reg.byHandle[k] \in Entry
      BY <2>2, <1>1 DEF Registry
    <3>2. k \in Members(reg.appHandles[reg.byHandle[k].app])
      BY <3>1 DEF MapsAgree
    <3>3. reg.byHandle[k].app \in App
      BY <3>1 DEF Entry
    <3>4. CASE reg.byHandle[k].app = a
      BY <3>1, <3>2, <3>4, <1>1, <1>3 DEF Registry
    <3>5. CASE reg.byHandle[k].app # a
      BY <3>1, <3>2, <3>3, <3>5, <1>1 DEF Registry
    <3> QED BY <3>4, <3>5
  <2> QED BY <2>1, <2>2
<1>7. \A b \in App : \A k \in Members(new.appHandles[b]) :
        new.byHandle[k] # None /\ new.byHandle[k].app = b
  <2> SUFFICES ASSUME NEW b \in App, NEW k \in Members(new.appHandles[b])
               PROVE  new.byHandle[k] # None /\ new.byHandle[k].app = b
    OBVIOUS
  <2>1. k \in Handle
    BY <1>4, MembersAreHandles DEF Registry
  <2>2. CASE b = a /\ k = h
    <3>1. new.byHandle[k] = e
      BY <2>2, <1>1 DEF Registry
    <3> QED BY <3>1, <2>2, <1>2
  <2>3. CASE ~(b = a /\ k = h)
    <3>1. k \in Members(reg.appHandles[b])
      BY <2>3, <1>1, <1>3 DEF Registry
    <3>2. k # h
      BY <3>1, <1>5
    <3>3. new.byHandle[k] = reg.byHandle[k]
      BY <3>2, <2>1, <1>1 DEF Registry
    <3> QED BY <3>1, <3>3 DEF MapsAgree
  <2> QED BY <2>2, <2>3
<1>8. \A b \in App : new.appHandles[b] # None =>
        new.appHandles[b].primary \notin new.appHandles[b].followers
  <2> SUFFICES ASSUME NEW b \in App, new.appHandles[b] # None
               PROVE  new.appHandles[b].primary \notin new.appHandles[b].followers
    OBVIOUS
  <2>1. CASE b # a
    BY <2>1, <1>1 DEF Registry, MapsAgree
  <2>2. CASE b = a /\ reg.appHandles[a] = None
    BY <2>2, <1>1 DEF Registry, Joined
  <2>3. CASE b = a /\ reg.appHandles[a] # None
    <3>1. reg.appHandles[a].primary # h
      BY <2>3, <1>5 DEF Members
    <3> QED BY <2>3, <3>1, <1>1 DEF Registry, Group, Joined, MapsAgree
  <2> QED BY <2>1, <2>2, <2>3
<1> QED BY <1>1, <1>4, <1>6, <1>7, <1>8 DEF MapsAgree

\* remove_app forgets the members of one group and nothing else.
LEMMA RemoveAppAgrees ==
  ASSUME NEW reg \in Registry, NEW a \in App, MapsAgree(reg)
  PROVE  /\ RemoveApp(reg, a) \in Registry
         /\ MapsAgree(RemoveApp(reg, a))
         /\ RemoveApp(reg, a).byHandle =
              [k \in Handle |-> IF k \in Members(reg.appHandles[a])
                                THEN None ELSE reg.byHandle[k]]
<1> DEFINE new == RemoveApp(reg, a)
           gone == Members(reg.appHandles[a])
<1>1. /\ new.byHandle = [k \in Handle |-> IF k \in gone THEN None ELSE reg.byHandle[k]]
      /\ new.appHandles = [reg.appHandles EXCEPT ![a] = None]
      /\ new = [byHandle |-> new.byHandle, appHandles |-> new.appHandles]
  BY DEF RemoveApp, Forget
<1>2. new \in Registry
  BY <1>1 DEF Registry
<1>3. \A k \in Handle : new.byHandle[k] # None =>
        k \in Members(new.appHandles[new.byHandle[k].app])
  <2> SUFFICES ASSUME NEW k \in Handle, new.byHandle[k] # None
               PROVE  k \in Members(new.appHandles[new.byHandle[k].app])
    OBVIOUS
  <2>1. new.byHandle[k] = reg.byHandle[k] /\ k \notin gone
    BY <1>1
  <2>2. k \in Members(reg.appHandles[reg.byHandle[k].app])
    BY <2>1 DEF MapsAgree
  <2>3. reg.byHandle[k].app \in App /\ reg.byHandle[k].app # a
    BY <2>1, <2>2 DEF Registry, Entry
  <2> QED BY <2>1, <2>2, <2>3, <1>1 DEF Registry
<1>4. \A b \in App : \A k \in Members(new.appHandles[b]) :
        new.byHandle[k] # None /\ new.byHandle[k].app = b
  <2> SUFFICES ASSUME NEW b \in App, NEW k \in Members(new.appHandles[b])
               PROVE  new.byHandle[k] # None /\ new.byHandle[k].app = b
    OBVIOUS
  <2>1. k \in Handle
    BY <1>2, MembersAreHandles DEF Registry
  <2>2. b # a /\ k \in Members(reg.appHandles[b])
    BY <1>1 DEF Members, Registry
  <2>3. reg.byHandle[k] # None /\ reg.byHandle[k].app = b
    BY <2>2 DEF MapsAgree
  <2>4. k \notin gone
    BY <2>2, <2>3 DEF MapsAgree
  <2> QED BY <2>1, <2>3, <2>4, <1>1
<1>5. \A b \in App : new.appHandles[b] # None =>
        new.appHandles[b].primary \notin new.appHandles[b].followers
  BY <1>1 DEF Registry, MapsAgree
<1> QED BY <1>1, <1>2, <1>3, <1>4, <1>5 DEF MapsAgree

\* take_app_responses_by_handle only removes entries, those of one group.
LEMMA TakeByHandleAgrees ==
  ASSUME NEW reg \in Registry, NEW h, MapsAgree(reg)
  PROVE  /\ TakeByHandle(reg, h) \in Registry
         /\ MapsAgree(TakeByHandle(reg, h))
         /\ \A k \in Handle :
              TakeByHandle(reg, h).byHandle[k] \in {reg.byHandle[k], None}
<1>1. CASE ~IsKnown(reg, h)
  BY <1>1 DEF TakeByHandle
<1>2. CASE IsKnown(reg, h)
  <2> DEFINE a == reg.byHandle[h].app
  <2>1. a \in App
    BY <1>2 DEF IsKnown, Registry, Entry
  <2>2. TakeByHandle(reg, h) = RemoveApp(reg, a)
    BY <1>2 DEF TakeByHandle
  <2>3. /\ RemoveApp(reg, a) \in Registry
        /\ MapsAgree(RemoveApp(reg, a))
        /\ RemoveApp(reg, a).byHandle =
             [k \in Handle |-> IF k \in Members(reg.appHandles[a])
                               THEN None ELSE reg.byHandle[k]]
    BY <2>1, RemoveAppAgrees
  <2> QED BY <2>2, <2>3
<1> QED BY <1>1, <1>2

\* remove_request, called with the application of the handle's own entry (if
\* it has one), removes at least that entry.
LEMMA RemoveRequestAgrees ==
  ASSUME NEW reg \in Registry, NEW h \in Handle, NEW a \in App, MapsAgree(reg),
         reg.byHandle[h] # None => reg.byHandle[h].app = a
  PROVE  /\ RemoveRequest(reg, h, a) \in Registry
         /\ MapsAgree(RemoveRequest(reg, h, a))
         /\ RemoveRequest(reg, h, a).byHandle[h] = None
         /\ \A k \in Handle :
              RemoveRequest(reg, h, a).byHandle[k] \in {reg.byHandle[k], None}
<1> DEFINE new == RemoveRequest(reg, h, a)
           g == reg.appHandles[a]
<1>1. CASE IsPrimary(reg, h, a)
  <2>1. new = RemoveApp(reg, a) /\ h \in Members(g)
    BY <1>1 DEF RemoveRequest, IsPrimary, Members
  <2>2. /\ RemoveApp(reg, a) \in Registry
        /\ MapsAgree(RemoveApp(reg, a))
        /\ RemoveApp(reg, a).byHandle =
             [k \in Handle |-> IF k \in Members(g) THEN None ELSE reg.byHandle[k]]
    BY RemoveAppAgrees
  <2> QED BY <2>1, <2>2
<1>2. CASE ~IsPrimary(reg, h, a)
  <2>1. new = [byHandle   |-> Forget(reg, {h}),
               appHandles |-> [reg.appHandles EXCEPT ![a] = Left(g, h)]]
    BY <1>2 DEF RemoveRequest
  <2>2. new.byHandle = [k \in Handle |-> IF k = h THEN None ELSE reg.byHandle[k]]
    BY <2>1 DEF Forget
  <2>3. new.appHandles = [reg.appHandles EXCEPT ![a] = Left(g, h)]
    BY <2>1
  <2>4. new \in Registry
    <3>1. Left(g, h) \in Group \cup {None}
      BY DEF Left, Group, Registry
    <3> QED BY <3>1, <2>1, <2>2, <2>3 DEF Registry
  <2>5. \A b \in App : b # a => new.appHandles[b] = reg.appHandles[b]
    BY <2>3 DEF Registry
  <2>6. Members(new.appHandles[a]) = Members(g) \ {h}
    <3>1. new.appHandles[a] = Left(g, h)
      BY <2>3 DEF Registry
    <3>2. CASE g = None
      BY <3>1, <3>2 DEF Members, Left
    <3>3. CASE g # None
      <4>1. g \in Group /\ g.primary # h
        BY <3>3, <1>2 DEF Registry, IsPrimary
      <4>2. Left(g, h) = [primary |-> g.primary, followers |-> g.followers \ {h}]
        BY <3>3 DEF Left
      <4>3. Left(g, h) \in Group
        BY <4>1, <4>2 DEF Group
      <4> QED BY <3>1, <3>3, <4>1, <4>2, <4>3, NoneAssumption DEF Members
    <3> QED BY <3>2, <3>3
  <2>7. \A b \in App : h \in Members(reg.appHandles[b]) => b = a
    BY DEF MapsAgree
  <2>8. \A k \in Handle : new.byHandle[k] # None =>
          k \in Members(new.appHandles[new.byHandle[k].app])
    <3> SUFFICES ASSUME NEW k \in Handle, new.byHandle[k] # None
                 PROVE  k \in Members(new.appHandles[new.byHandle[k].app])
      OBVIOUS
    <3>1. k # h /\ new.byHandle[k] = reg.byHandle[k]
      BY <2>2
    <3>2. reg.byHandle[k].app \in App
      BY <3>1 DEF Registry, Entry
    <3>3. k \in Members(reg.appHandles[reg.byHandle[k].app])
      BY <3>1 DEF MapsAgree
    <3> QED BY <3>1, <3>2, <3>3, <2>5, <2>6
  <2>9. \A b \in App : \A k \in Members(new.appHandles[b]) :
          new.byHandle[k] # None /\ new.byHandle[k].app = b
    <3> SUFFICES ASSUME NEW b \in App, NEW k \in Members(new.appHandles[b])
                 PROVE  new.byHandle[k] # None /\ new.byHandle[k].app = b
      OBVIOUS
    <3>1. k \in Handle
      BY <2>4, MembersAreHandles DEF Registry
    <3>2. k # h /\ k \in Members(reg.appHandles[b])
      BY <2>5, <2>6, <2>7
    <3> QED BY <3>1, <3>2, <2>2 DEF MapsAgree
  <2>10. \A b \in App : new.appHandles[b] # None =>
           new.appHandles[b].primary \notin new.appHandles[b].followers
    <3> SUFFICES ASSUME NEW b \in App, new.appHandles[b] # None
                 PROVE  new.appHandles[b].primary \notin new.appHandles[b].followers
      OBVIOUS
    <3>1. CASE b # a
      BY <3>1, <2>5 DEF MapsAgree
    <3>2. CASE b = a
      <4>1. new.appHandles[a] = Left(g, h) /\ g # None
        BY <3>2, <2>3 DEF Registry, Left
      <4>2. g \in Group /\ g.primary \notin g.followers
        BY <4>1 DEF Registry, MapsAgree
      <4> QED BY <3>2, <4>1, <4>2 DEF Group, Left
    <3> QED BY <3>1, <3>2
  <2>11. MapsAgree(new)
    BY <2>8, <2>9, <2>10 DEF MapsAgree
  <2> QED BY <2>2, <2>4, <2>11
<1> QED BY <1>1, <1>2

\* remove_request of a handle without an entry does nothing; a primary takes its
\* group along; a follower leaves both maps alone.
LEMMA RemoveRequestCases ==
  ASSUME NEW reg \in Registry, NEW h \in Handle, NEW a \in App, MapsAgree(reg),
         reg.byHandle[h] # None => reg.byHandle[h].app = a
  PROVE  /\ reg.byHandle[h] = None =>
              RemoveRequest(reg, h, a) = reg /\ DroppedByRequest(reg, h, a) = {}
         /\ reg.byHandle[h] # None /\ IsPrimary(reg, h, a) =>
              /\ RemoveRequest(reg, h, a) = RemoveApp(reg, a)
              /\ DroppedByRequest(reg, h, a) = SendersOfApp(reg, a)
         /\ reg.byHandle[h] # None /\ ~IsPrimary(reg, h, a) =>
              /\ RemoveRequest(reg, h, a).byHandle = [reg.byHandle EXCEPT ![h] = None]
              /\ \A b \in App :
                   /\ RemoveRequest(reg, h, a).appHandles[b] = None <=> reg.appHandles[b] = None
                   /\ reg.appHandles[b] # None =>
                        RemoveRequest(reg, h, a).appHandles[b].primary
                          = reg.appHandles[b].primary
              /\ reg.appHandles[a] # None /\ reg.appHandles[a].primary # h
              /\ DroppedByRequest(reg, h, a) = {reg.byHandle[h].call}
<1> DEFINE new == RemoveRequest(reg, h, a)
           g == reg.appHandles[a]
<1>1. ASSUME reg.byHandle[h] = None
      PROVE  new = reg /\ DroppedByRequest(reg, h, a) = {}
  <2>1. h \notin Members(g)
    BY <1>1 DEF MapsAgree
  <2>2. ~IsPrimary(reg, h, a)
    BY <2>1 DEF IsPrimary, Members
  <2>3. Left(g, h) = g
    <3>1. CASE g = None
      BY <3>1 DEF Left
    <3>2. CASE g # None
      <4>1. g \in Group /\ h \notin g.followers
        BY <2>1, <3>2 DEF Members, Registry
      <4>2. g.followers \ {h} = g.followers
        BY <4>1
      <4> QED BY <3>2, <4>1, <4>2 DEF Left, Group
    <3> QED BY <3>1, <3>2
  <2>4. Forget(reg, {h}) = reg.byHandle
    BY <1>1 DEF Forget, Registry
  <2>5. [reg.appHandles EXCEPT ![a] = Left(@, h)] = reg.appHandles
    BY <2>3 DEF Registry
  <2>6. new = [byHandle |-> reg.byHandle, appHandles |-> reg.appHandles]
    BY <2>2, <2>4, <2>5 DEF RemoveRequest
  <2>7. SendersOf(reg, {h}) = {}
    BY <1>1 DEF SendersOf
  <2> QED BY <2>2, <2>6, <2>7 DEF Registry, DroppedByRequest
<1>2. ASSUME reg.byHandle[h] # None, IsPrimary(reg, h, a)
      PROVE  new = RemoveApp(reg, a) /\ DroppedByRequest(reg, h, a) = SendersOfApp(reg, a)
  BY <1>2 DEF RemoveRequest, DroppedByRequest
<1>3. ASSUME reg.byHandle[h] # None, ~IsPrimary(reg, h, a)
      PROVE  /\ new.byHandle = [reg.byHandle EXCEPT ![h] = None]
             /\ \A b \in App :
                  /\ new.appHandles[b] = None <=> reg.appHandles[b] = None
                  /\ reg.appHandles[b] # None =>
                       new.appHandles[b].primary = reg.appHandles[b].primary
             /\ g # None /\ g.primary # h
             /\ DroppedByRequest(reg, h, a) = {reg.byHandle[h].call}
  <2>1. h \in Members(g)
    BY <1>3 DEF MapsAgree
  <2>2. g # None /\ g.primary # h /\ g \in Group
    BY <1>3, <2>1 DEF Members, IsPrimary, Registry
  <2>3. /\ new.byHandle = Forget(reg, {h})
        /\ new.appHandles = [reg.appHandles EXCEPT ![a] = Left(g, h)]
    BY <1>3 DEF RemoveRequest
  <2>4. Forget(reg, {h}) = [reg.byHandle EXCEPT ![h] = None]
    BY DEF Forget, Registry
  <2>5. Left(g, h) # None /\ Left(g, h).primary = g.primary
    <3>1. Left(g, h) = [primary |-> g.primary, followers |-> g.followers \ {h}]
      BY <2>2 DEF Left
    <3>2. Left(g, h) \in Group
      BY <2>2, <3>1 DEF Group
    <3> QED BY <3>1, <3>2, NoneAssumption
  <2>6. \A b \in App : new.appHandles[b] = IF b = a THEN Left(g, h) ELSE reg.appHandles[b]
    BY <2>3 DEF Registry
  <2>7. DroppedByRequest(reg, h, a) = {reg.byHandle[h].call}
    BY <1>3 DEF DroppedByRequest, SendersOf
  <2> QED BY <2>2, <2>3, <2>4, <2>5, <2>6, <2>7
<1> QED BY <1>1, <1>2, <1>3

-----------------------------------------------------------------------------
(* The registry in the portal *)

CallTypeOK ==
  /\ registry \in Registry
  /\ pc \in [Call -> PC]
  /\ handleOf \in [Call -> Handle \cup {None}]
  /\ appOf \in [Call -> App \cup {None}]

\* A call has its parameters from the moment it reserves.
CallsHaveParameters ==
  \A c \in Call : pc[c] \in Waiting \cup {"unserve"} =>
    handleOf[c] \in Handle /\ appOf[c] \in App

\* Two calls with the same handle are not open at the same time.
OneOpenCallPerHandle ==
  \A c, d \in Call : c # d /\ handleOf[c] = handleOf[d] /\ handleOf[c] # None =>
    pc[c] = "done" \/ pc[d] = "done"

IInv ==
  /\ CallTypeOK
  /\ RegistryConsistent
  /\ CallsHaveParameters
  /\ OneOpenCallPerHandle

\* What IInv reads.
coreVars == <<registry, pc, handleOf, appOf>>

-----------------------------------------------------------------------------
\* At the start the registry is empty and nobody has called.
LEMMA InitIInv == Init => IInv
<1> SUFFICES ASSUME Init PROVE IInv
  OBVIOUS
<1>1. CallTypeOK
  BY DEF Init, CallTypeOK, EmptyRegistry, Registry, PC, Waiting
<1>2. RegistryConsistent
  BY DEF Init, RegistryConsistent, MapsAgree, EmptyRegistry, Members
<1>3. CallsHaveParameters /\ OneOpenCallPerHandle
  BY DEF Init, CallsHaveParameters, OneOpenCallPerHandle, Waiting
<1> QED BY <1>1, <1>2, <1>3 DEF IInv

\* A step that leaves the core variables alone preserves IInv.
LEMMA CoreUnchanged ==
  ASSUME IInv, UNCHANGED coreVars
  PROVE  IInv'
<1>1. CallTypeOK'
  BY DEF coreVars, IInv, CallTypeOK
<1>2. RegistryConsistent'
  BY DEF coreVars, IInv, RegistryConsistent
<1>3. CallsHaveParameters'
  BY DEF coreVars, IInv, CallsHaveParameters
<1>4. OneOpenCallPerHandle'
  BY DEF coreVars, IInv, OneOpenCallPerHandle
<1> QED BY <1>1, <1>2, <1>3, <1>4 DEF IInv

\* The entry under the handle of an open call is that call's own.
LEMMA EntryIsOwn ==
  ASSUME IInv, NEW c \in Call, pc[c] \in Waiting,
         registry.byHandle[handleOf[c]] # None
  PROVE  /\ registry.byHandle[handleOf[c]].call = c
         /\ registry.byHandle[handleOf[c]].app = appOf[c]
<1> DEFINE h == handleOf[c]
           d == registry.byHandle[h].call
<1>1. h \in Handle /\ h # None
  BY NoneAssumption DEF IInv, CallsHaveParameters
<1>2. registry.byHandle[h] \in Entry
  BY <1>1 DEF IInv, CallTypeOK, Registry
<1>3. d \in Call /\ pc[d] \in Waiting /\ handleOf[d] = h
      /\ appOf[d] = registry.byHandle[h].app
  BY <1>1, <1>2 DEF Entry, IInv, RegistryConsistent
<1>4. d = c
  BY <1>1, <1>3 DEF IInv, OneOpenCallPerHandle, Waiting
<1> QED BY <1>3, <1>4

\* A call whose program counter moves on without leaving Waiting.
LEMMA MovesInWaiting ==
  ASSUME IInv, NEW c \in Call, NEW from \in Waiting, NEW to \in Waiting,
         Goto(c, from, to), UNCHANGED <<registry, handleOf, appOf>>
  PROVE  IInv'
<1> USE DEF Goto
<1>1. pc' \in [Call -> PC] /\ \A d \in Call : d # c => pc'[d] = pc[d]
  BY DEF IInv, CallTypeOK, PC
<1>2. pc[c] \in Waiting /\ pc'[c] \in Waiting
  BY DEF IInv, CallTypeOK
<1>3. CallTypeOK'
  BY <1>1 DEF IInv, CallTypeOK
<1>4. RegistryConsistent'
  <2> SUFFICES ASSUME NEW h \in Handle, registry.byHandle[h] # None
               PROVE  pc'[registry.byHandle[h].call] \in Waiting
    BY DEF IInv, RegistryConsistent
  <2>1. registry.byHandle[h].call \in Call
    BY DEF IInv, CallTypeOK, Registry, Entry
  <2> QED BY <2>1, <1>1, <1>2 DEF IInv, RegistryConsistent
<1>5. CallsHaveParameters'
  BY <1>1, <1>2 DEF IInv, CallsHaveParameters
<1>6. OneOpenCallPerHandle'
  BY <1>1, <1>2 DEF IInv, OneOpenCallPerHandle, Waiting
<1> QED BY <1>3, <1>4, <1>5, <1>6 DEF IInv

\* A call that leaves the registry and Waiting in the same step.
LEMMA Unregisters ==
  ASSUME IInv, NEW c \in Call, NEW from \in Waiting,
         NEW to \in {"unserve", "done"},
         Goto(c, from, to), Unregister(c), UNCHANGED <<handleOf, appOf>>
  PROVE  IInv'
<1> DEFINE h == handleOf[c]
           a == appOf[c]
<1>1. /\ pc[c] \in Waiting /\ pc'[c] = to /\ pc' \in [Call -> PC]
      /\ \A d \in Call : d # c => pc'[d] = pc[d]
  BY DEF Goto, IInv, CallTypeOK, PC
<1>2. h \in Handle /\ a \in App
  BY <1>1 DEF IInv, CallsHaveParameters
<1>3. registry \in Registry /\ MapsAgree(registry)
  BY DEF IInv, CallTypeOK, RegistryConsistent
<1>4. registry.byHandle[h] # None => registry.byHandle[h].app = a
  BY <1>1, EntryIsOwn
<1>5. registry' = RemoveRequest(registry, h, a)
  BY DEF Unregister
<1>6. /\ registry' \in Registry
      /\ MapsAgree(registry')
      /\ registry'.byHandle[h] = None
      /\ \A k \in Handle : registry'.byHandle[k] \in {registry.byHandle[k], None}
  BY <1>2, <1>3, <1>4, <1>5, RemoveRequestAgrees
<1>7. CallTypeOK'
  BY <1>1, <1>6 DEF IInv, CallTypeOK
<1>8. RegistryConsistent'
  <2> SUFFICES ASSUME NEW k \in Handle, registry'.byHandle[k] # None
               PROVE  LET d == registry'.byHandle[k].call
                      IN /\ pc'[d] \in Waiting
                         /\ handleOf[d] = k
                         /\ appOf[d] = registry'.byHandle[k].app
    BY <1>6 DEF RegistryConsistent
  <2>1. registry'.byHandle[k] = registry.byHandle[k] /\ k # h
    BY <1>6
  <2> DEFINE d == registry.byHandle[k].call
  <2>2. d \in Call
    BY <2>1, <1>3 DEF Registry, Entry
  <2>3. pc[d] \in Waiting /\ handleOf[d] = k /\ appOf[d] = registry.byHandle[k].app
    BY <2>1 DEF IInv, RegistryConsistent
  <2>4. d # c
    BY <2>1, <2>3
  <2> QED BY <2>1, <2>2, <2>3, <2>4, <1>1
<1>9. CallsHaveParameters'
  BY <1>1, <1>2 DEF IInv, CallsHaveParameters
<1>10. OneOpenCallPerHandle'
  BY <1>1 DEF IInv, OneOpenCallPerHandle, Waiting
<1> QED BY <1>7, <1>8, <1>9, <1>10 DEF IInv

\* A call that ends without an entry in the registry.
LEMMA Ends ==
  ASSUME IInv, NEW c \in Call, pc[c] \notin Waiting,
         pc' = [pc EXCEPT ![c] = "done"], UNCHANGED registry,
         handleOf' \in [Call -> Handle \cup {None}],
         appOf' \in [Call -> App \cup {None}],
         \A d \in Call : d # c => handleOf'[d] = handleOf[d] /\ appOf'[d] = appOf[d]
  PROVE  IInv'
<1>1. /\ pc'[c] = "done" /\ pc' \in [Call -> PC]
      /\ \A d \in Call : d # c => pc'[d] = pc[d]
  BY DEF IInv, CallTypeOK, PC
<1>2. CallTypeOK'
  BY <1>1 DEF IInv, CallTypeOK
<1>3. RegistryConsistent'
  <2> SUFFICES ASSUME NEW h \in Handle, registry.byHandle[h] # None
               PROVE  LET d == registry.byHandle[h].call
                      IN /\ pc'[d] \in Waiting
                         /\ handleOf'[d] = h
                         /\ appOf'[d] = registry.byHandle[h].app
    BY DEF IInv, RegistryConsistent
  <2>1. registry.byHandle[h].call \in Call
    BY DEF IInv, CallTypeOK, Registry, Entry
  <2> QED BY <2>1, <1>1 DEF IInv, RegistryConsistent
<1>4. CallsHaveParameters'
  BY <1>1 DEF IInv, CallsHaveParameters, Waiting
<1>5. OneOpenCallPerHandle'
  BY <1>1 DEF IInv, OneOpenCallPerHandle
<1> QED BY <1>2, <1>3, <1>4, <1>5 DEF IInv

-----------------------------------------------------------------------------
\* A new request: its handle is in use by no open call.
LEMMA BeginNotifyIInv ==
  ASSUME HandleReuse # "any", IInv,
         NEW c \in Call, NEW h \in Handle, NEW a \in App, BeginNotify(c, h, a)
  PROVE  IInv'
<1>1. /\ handleOf' = [handleOf EXCEPT ![c] = h] /\ appOf' = [appOf EXCEPT ![c] = a]
      /\ pc[c] = "idle" /\ Usable(h)
  BY DEF BeginNotify, ReserveHandle, RefuseDuplicate, Goto
<1>2. /\ handleOf' \in [Call -> Handle \cup {None}]
      /\ appOf' \in [Call -> App \cup {None}]
      /\ handleOf'[c] = h /\ appOf'[c] = a
      /\ \A d \in Call : d # c => handleOf'[d] = handleOf[d] /\ appOf'[d] = appOf[d]
  BY <1>1 DEF IInv, CallTypeOK
<1>3. CASE RefuseDuplicate(c, h)
  <2>1. pc' = [pc EXCEPT ![c] = "done"] /\ UNCHANGED registry
    BY <1>3 DEF RefuseDuplicate, Goto
  <2> QED BY <2>1, <1>1, <1>2, Ends DEF Waiting
<1>4. CASE ReserveHandle(c, h, a)
  <2>1. /\ pc'[c] = "serve" /\ pc' \in [Call -> PC]
        /\ \A d \in Call : d # c => pc'[d] = pc[d]
    BY <1>4 DEF ReserveHandle, Goto, IInv, CallTypeOK, PC, Waiting
  <2>2. registry' = Reserve(registry, h, a, c) /\ ~IsDuplicate(registry, h)
    BY <1>4 DEF ReserveHandle
  <2>3. registry \in Registry /\ MapsAgree(registry)
    BY DEF IInv, CallTypeOK, RegistryConsistent
  <2>4. /\ registry' \in Registry
        /\ MapsAgree(registry')
        /\ registry'.byHandle = [registry.byHandle EXCEPT ![h] = [app |-> a, call |-> c]]
    BY <2>2, <2>3, ReserveAgrees
  <2>5. \A d \in Call : handleOf[d] = h => pc[d] = "done"
    BY <1>1, PortalAssumption DEF Usable
  <2>6. CallTypeOK'
    BY <1>2, <2>1, <2>4 DEF CallTypeOK
  <2>7. RegistryConsistent'
    <3> SUFFICES ASSUME NEW k \in Handle, registry'.byHandle[k] # None
                 PROVE  LET d == registry'.byHandle[k].call
                        IN /\ pc'[d] \in Waiting
                           /\ handleOf'[d] = k
                           /\ appOf'[d] = registry'.byHandle[k].app
      BY <2>4 DEF RegistryConsistent
    <3>1. CASE k = h
      <4>1. registry'.byHandle[k] = [app |-> a, call |-> c]
        BY <3>1, <2>3, <2>4 DEF Registry
      <4> QED BY <4>1, <3>1, <1>2, <2>1 DEF Waiting
    <3>2. CASE k # h
      <4>1. registry'.byHandle[k] = registry.byHandle[k]
        BY <3>2, <2>3, <2>4 DEF Registry
      <4> DEFINE d == registry.byHandle[k].call
      <4>2. d \in Call
        BY <4>1, <2>3 DEF Registry, Entry
      <4>3. pc[d] \in Waiting /\ handleOf[d] = k /\ appOf[d] = registry.byHandle[k].app
        BY <4>1 DEF IInv, RegistryConsistent
      <4>4. d # c
        BY <4>3, <1>1 DEF Waiting
      <4> QED BY <4>1, <4>2, <4>3, <4>4, <1>2, <2>1
    <3> QED BY <3>1, <3>2
  <2>8. CallsHaveParameters'
    BY <1>2, <2>1 DEF IInv, CallsHaveParameters
  <2>9. OneOpenCallPerHandle'
    BY <1>2, <2>1, <2>5 DEF IInv, OneOpenCallPerHandle
  <2> QED BY <2>6, <2>7, <2>8, <2>9 DEF IInv
<1> QED BY <1>3, <1>4 DEF BeginNotify

\* The router takes a whole group out of the registry and touches no call.
LEMMA RouterTakeIInv ==
  ASSUME IInv, RouterTake
  PROVE  IInv'
<1>1. UNCHANGED <<pc, handleOf, appOf>>
  BY DEF RouterTake, callVars
<1>2. registry \in Registry /\ MapsAgree(registry)
  BY DEF IInv, CallTypeOK, RegistryConsistent
<1>3. registry' = TakeByHandle(registry, Head(toBackground).handle)
  BY DEF RouterTake
<1>4. /\ registry' \in Registry
      /\ MapsAgree(registry')
      /\ \A k \in Handle : registry'.byHandle[k] \in {registry.byHandle[k], None}
  BY <1>2, <1>3, TakeByHandleAgrees
<1>5. CallTypeOK'
  BY <1>1, <1>4 DEF IInv, CallTypeOK
<1>6. RegistryConsistent'
  BY <1>1, <1>4 DEF IInv, RegistryConsistent
<1>7. CallsHaveParameters' /\ OneOpenCallPerHandle'
  BY <1>1 DEF IInv, CallsHaveParameters, OneOpenCallPerHandle
<1> QED BY <1>5, <1>6, <1>7 DEF IInv

\* Every step of the specification preserves IInv.
LEMMA NextIInv ==
  ASSUME HandleReuse # "any", IInv, [Next]_vars
  PROVE  IInv'
<1>1. ASSUME NEW c \in Call, NEW r \in {"allow", "deny"}, AnswerFromConfig(c, r)
      PROVE  IInv'
  <2>1. /\ pc[c] = "idle" /\ pc' = [pc EXCEPT ![c] = "done"]
        /\ UNCHANGED <<registry, handleOf, appOf>>
    BY <1>1 DEF AnswerFromConfig, Goto
  <2>2. handleOf' \in [Call -> Handle \cup {None}] /\ appOf' \in [Call -> App \cup {None}]
    BY <2>1 DEF IInv, CallTypeOK
  <2> QED BY <2>1, <2>2, Ends DEF Waiting
<1>2. ASSUME NEW c \in Call, NEW h \in Handle, NEW a \in App, BeginNotify(c, h, a)
      PROVE  IInv'
  BY <1>2, BeginNotifyIInv
<1>3. ASSUME NEW c \in Call, Notify(c)
      PROVE  IInv'
  <2>1. CASE Serve(c)
    BY <2>1, MovesInWaiting DEF Serve, Waiting
  <2>2. CASE ServeFails(c)
    BY <2>2, Unregisters DEF ServeFails, Waiting
  <2>3. CASE SendPrompt(c)
    BY <2>3, MovesInWaiting DEF SendPrompt, Waiting
  <2>4. CASE PromptFails(c)
    BY <2>4, Unregisters DEF PromptFails, Waiting
  <2>5. CASE AwaitAnswer(c)
    BY <2>5, MovesInWaiting DEF AwaitAnswer, Waiting
  <2>6. CASE Cleanup(c)
    BY <2>6, Unregisters DEF Cleanup, Waiting
  <2>7. CASE Finish(c)
    <3>1. /\ pc[c] = "unserve" /\ pc' = [pc EXCEPT ![c] = "done"]
          /\ UNCHANGED <<registry, handleOf, appOf>>
      BY <2>7 DEF Finish, Goto
    <3>2. handleOf' \in [Call -> Handle \cup {None}] /\ appOf' \in [Call -> App \cup {None}]
      BY <3>1 DEF IInv, CallTypeOK
    <3> QED BY <3>1, <3>2, Ends DEF Waiting
  <2> QED BY <1>3, <2>1, <2>2, <2>3, <2>4, <2>5, <2>6, <2>7 DEF Notify
<1>4. ASSUME NEW k \in Close, NEW h \in Handle, BeginClose(k, h)
      PROVE  IInv'
  BY <1>4, CoreUnchanged DEF BeginClose, coreVars, callVars
<1>5. ASSUME NEW k \in Close, CloseRequest(k)
      PROVE  IInv'
  <2>1. UNCHANGED coreVars
    BY <1>5 DEF CloseRequest, CloseCancel, CloseWithdraw, CloseRemove, coreVars, callVars
  <2> QED BY <2>1, CoreUnchanged
<1>6. ASSUME Router
      PROVE  IInv'
  <2>1. CASE RouterTake
    BY <2>1, RouterTakeIInv
  <2>2. ASSUME NEW c \in Call, RouterSend(c)
        PROVE  IInv'
    BY <2>2, CoreUnchanged DEF RouterSend, coreVars
  <2> QED BY <1>6, <2>1, <2>2 DEF Router
<1>7. CASE UIStep
  BY <1>7, CoreUnchanged DEF UIStep, portalVars, callVars, coreVars
<1>8. CASE Rest \/ UNCHANGED vars
  BY <1>8, CoreUnchanged DEF Rest, vars, portalVars, callVars, coreVars
<1> QED BY <1>1, <1>2, <1>3, <1>4, <1>5, <1>6, <1>7, <1>8 DEF Next, BackgroundStep

-----------------------------------------------------------------------------
\* The two maps of PendingBackgroundResponseRegistry agree, and every entry
\* belongs to a call between reserve() and its cleanup: for any number of
\* calls, handles and applications, with failures, Close calls and a dialog
\* that answers whatever and whenever it does.
THEOREM RegistryStaysConsistent ==
  ASSUME HandleReuse # "any"
  PROVE  Spec => []RegistryConsistent
<1>1. Init => IInv
  BY InitIInv
<1>2. IInv /\ [Next]_vars => IInv'
  BY NextIInv
<1>3. IInv => RegistryConsistent
  BY DEF IInv
<1> QED BY <1>1, <1>2, <1>3, PTL DEF Spec

-----------------------------------------------------------------------------
(* Type correctness. *)

PortalTypeOK ==
  /\ prompts \in [Call -> BOOLEAN]
  /\ response \in [Call -> Result \cup {Pending, Dropped}]
  /\ cancelled \in [Call -> BOOLEAN]
  /\ reply \in [Call -> Reply \cup {None}]
  /\ leader \in [Call -> Call \cup {None}]
  /\ served \in [Handle -> Call \cup {None}]
  /\ closing \in [Close -> [pc : {"idle", "cancel", "withdraw", "remove", "done"},
                           call : Call \cup {None}]]
  /\ routing \in [senders : SUBSET Call, result : Result \cup {None}]

\* A Request object, and a Close that runs on one, belong to a call that has
\* its handle; and what the router hands out is a result.
ObjectsHaveCalls ==
  /\ \A h \in Handle : served[h] # None => handleOf[served[h]] \in Handle
  /\ \A k \in Close : closing[k].pc # "idle" =>
       closing[k].call \in Call /\ handleOf[closing[k].call] \in Handle
  /\ routing.senders # {} => routing.result \in Result

TInv ==
  /\ IInv
  /\ UIInv
  /\ PortalTypeOK
  /\ ObjectsHaveCalls

\* The initial state is well typed.
LEMMA InitTInv == Init => TInv
<1> SUFFICES ASSUME Init PROVE TInv
  OBVIOUS
<1>1. IInv
  BY InitIInv
<1>2. UIInv
  BY UIInitTypes DEF Init
<1>3. PortalTypeOK
  BY DEF Init, PortalTypeOK, IdleClose, NotRouting
<1>4. ObjectsHaveCalls
  BY NoneAssumption DEF Init, ObjectsHaveCalls, IdleClose, NotRouting
<1> QED BY <1>1, <1>2, <1>3, <1>4 DEF TInv

\* Dropping senders leaves the receivers well typed.
LEMMA DropSendersTypes ==
  ASSUME PortalTypeOK, NEW cs, DropSenders(cs)
  PROVE  response' \in [Call -> Result \cup {Pending, Dropped}]
BY DEF DropSenders, PortalTypeOK

\* Removing a Request object.
LEMMA UnserveTypes ==
  ASSUME PortalTypeOK, ObjectsHaveCalls, NEW h, Unserve(h)
  PROVE  /\ served' \in [Handle -> Call \cup {None}]
         /\ cancelled' \in [Call -> BOOLEAN]
         /\ \A g \in Handle : served'[g] # None => handleOf[served'[g]] \in Handle
<1>1. served' = [served EXCEPT ![h] = None]
  BY DEF Unserve
<1>2. cancelled' \in [Call -> BOOLEAN]
  BY DEF Unserve, PortalTypeOK
<1> QED BY <1>1, <1>2 DEF PortalTypeOK, ObjectsHaveCalls

\* A step of a NotifyBackground call.
LEMMA NotifyTypes ==
  ASSUME TInv, NEW c \in Call, Notify(c)
  PROVE  UIInv' /\ PortalTypeOK' /\ ObjectsHaveCalls'
<1> USE DEF TInv
<1>1. CASE Serve(c)
  <2>1. pc[c] = "serve" /\ handleOf[c] \in Handle
    BY <1>1 DEF Serve, Goto, IInv, CallsHaveParameters, Waiting
  <2>2. UIInv'
    BY <1>1 DEF Serve, uiVars, windowVars, promptVars, UIInv, UITypeOK
  <2>3. served' \in [Handle -> Call \cup {None}] /\ cancelled' \in [Call -> BOOLEAN]
    BY <1>1, <2>1 DEF Serve, PortalTypeOK
  <2>4. \A h \in Handle : served'[h] # None => handleOf[served'[h]] \in Handle
    BY <1>1, <2>1 DEF Serve, PortalTypeOK, ObjectsHaveCalls
  <2> QED BY <1>1, <2>2, <2>3, <2>4 DEF Serve, PortalTypeOK, ObjectsHaveCalls
<1>2. CASE ServeFails(c) \/ PromptFails(c)
  <2>1. /\ Unregister(c) /\ Return(c, "Error")
        /\ UNCHANGED <<uiVars, handleOf, prompts, cancelled, leader, served, closing,
                       routing>>
    BY <1>2 DEF ServeFails, PromptFails
  <2>2. UIInv'
    BY <2>1 DEF uiVars, windowVars, promptVars, UIInv, UITypeOK
  <2>3. response' \in [Call -> Result \cup {Pending, Dropped}]
    BY <2>1, DropSendersTypes DEF Unregister
  <2>4. reply' \in [Call -> Reply \cup {None}]
    BY <2>1 DEF Return, Reply, PortalTypeOK
  <2> QED BY <2>1, <2>2, <2>3, <2>4 DEF PortalTypeOK, ObjectsHaveCalls
<1>3. CASE SendPrompt(c)
  <2>1. pc[c] = "prompt" /\ handleOf[c] \in Handle
    BY <1>3 DEF SendPrompt, Goto, IInv, CallsHaveParameters, Waiting
  <2>2. inbox' \in Seq(Message)
    BY <1>3, <2>1, MessageTypes DEF SendPrompt, UIInv, UITypeOK
  <2> QED BY <1>3, <2>2 DEF SendPrompt, windowVars, promptVars, UIInv, UITypeOK,
                            PortalTypeOK, ObjectsHaveCalls
<1>4. CASE AwaitAnswer(c)
  <2>1. UIInv'
    BY <1>4 DEF AwaitAnswer, uiVars, windowVars, promptVars, UIInv, UITypeOK
  <2>2. reply' \in [Call -> Reply \cup {None}]
    BY <1>4 DEF AwaitAnswer, Awaited, Return, Reply, PortalTypeOK
  <2> QED BY <1>4, <2>1, <2>2 DEF AwaitAnswer, PortalTypeOK, ObjectsHaveCalls
<1>5. CASE Cleanup(c)
  <2>1. UIInv'
    BY <1>5 DEF Cleanup, uiVars, windowVars, promptVars, UIInv, UITypeOK
  <2>2. response' \in [Call -> Result \cup {Pending, Dropped}]
    BY <1>5, DropSendersTypes DEF Cleanup, Unregister
  <2> QED BY <1>5, <2>1, <2>2 DEF Cleanup, PortalTypeOK, ObjectsHaveCalls
<1>6. CASE Finish(c)
  <2>1. UIInv'
    BY <1>6 DEF Finish, uiVars, windowVars, promptVars, UIInv, UITypeOK
  <2>2. /\ served' \in [Handle -> Call \cup {None}]
        /\ cancelled' \in [Call -> BOOLEAN]
        /\ \A g \in Handle : served'[g] # None => handleOf[served'[g]] \in Handle
    BY <1>6, UnserveTypes DEF Finish
  <2> QED BY <1>6, <2>1, <2>2 DEF Finish, PortalTypeOK, ObjectsHaveCalls
<1> QED BY <1>1, <1>2, <1>3, <1>4, <1>5, <1>6 DEF Notify

\* A new request, or one that the configuration answers.
LEMMA BeginTypes ==
  ASSUME TInv, NEW c \in Call,
         \/ \E h \in Handle, a \in App : BeginNotify(c, h, a)
         \/ \E r \in {"allow", "deny"} : AnswerFromConfig(c, r)
  PROVE  UIInv' /\ PortalTypeOK' /\ ObjectsHaveCalls'
<1> USE DEF TInv
<1>1. ASSUME NEW r \in {"allow", "deny"}, AnswerFromConfig(c, r)
      PROVE  UIInv' /\ PortalTypeOK' /\ ObjectsHaveCalls'
  <2>1. UIInv'
    BY <1>1 DEF AnswerFromConfig, uiVars, windowVars, promptVars, UIInv, UITypeOK
  <2>2. reply' \in [Call -> Reply \cup {None}]
    BY <1>1 DEF AnswerFromConfig, Return, Reply, Result, PortalTypeOK
  <2> QED BY <1>1, <2>1, <2>2 DEF AnswerFromConfig, PortalTypeOK, ObjectsHaveCalls
<1>2. ASSUME NEW h \in Handle, NEW a \in App, BeginNotify(c, h, a)
      PROVE  UIInv' /\ PortalTypeOK' /\ ObjectsHaveCalls'
  <2>1. UIInv'
    BY <1>2 DEF BeginNotify, uiVars, windowVars, promptVars, UIInv, UITypeOK
  <2>2. ObjectsHaveCalls'
    <3>1. handleOf' = [handleOf EXCEPT ![c] = h] /\ UNCHANGED <<served, closing, routing>>
      BY <1>2 DEF BeginNotify
    <3>2. \A d \in Call : handleOf[d] \in Handle => handleOf'[d] \in Handle
      BY <3>1 DEF IInv, CallTypeOK
    <3> QED BY <3>1, <3>2 DEF ObjectsHaveCalls, PortalTypeOK
  <2>3. CASE RefuseDuplicate(c, h)
    <3>1. reply' \in [Call -> Reply \cup {None}]
      BY <2>3 DEF RefuseDuplicate, Return, Reply, PortalTypeOK
    <3> QED BY <1>2, <2>1, <2>2, <2>3, <3>1 DEF RefuseDuplicate, BeginNotify, PortalTypeOK
  <2>4. CASE ReserveHandle(c, h, a)
    <3>1. prompts' \in [Call -> BOOLEAN]
      BY <2>4 DEF ReserveHandle, PromptNeeded, PortalTypeOK
    <3>2. ~PromptNeeded(registry, a) => LeaderOf(a) \in Call \cup {None}
      <4> SUFFICES ASSUME ~PromptNeeded(registry, a)
                   PROVE  LeaderOf(a) \in Call \cup {None}
        OBVIOUS
      <4>1. registry.appHandles[a] \in Group
        BY DEF PromptNeeded, IInv, CallTypeOK, Registry
      <4>2. registry.byHandle[registry.appHandles[a].primary] \in Entry \cup {None}
        BY <4>1 DEF IInv, CallTypeOK, Registry, Group
      <4> QED BY <4>2 DEF LeaderOf, Entry
    <3>3. leader' \in [Call -> Call \cup {None}]
      BY <2>4, <3>2 DEF ReserveHandle, PortalTypeOK
    <3> QED BY <1>2, <2>1, <2>2, <2>4, <3>1, <3>3 DEF ReserveHandle, BeginNotify, PortalTypeOK
  <2> QED BY <1>2, <2>3, <2>4 DEF BeginNotify
<1> QED BY <1>1, <1>2

\* A Close call.
LEMMA CloseTypes ==
  ASSUME TInv, NEW k \in Close,
         CloseRequest(k) \/ \E h \in Handle : BeginClose(k, h)
  PROVE  UIInv' /\ PortalTypeOK' /\ ObjectsHaveCalls'
<1> USE DEF TInv
<1> DEFINE Step == [pc : {"idle", "cancel", "withdraw", "remove", "done"},
                    call : Call \cup {None}]
           x == closing[k].call
<1>1. closing \in [Close -> Step]
  BY DEF PortalTypeOK
<1>2. ASSUME NEW h \in Handle, BeginClose(k, h)
      PROVE  UIInv' /\ PortalTypeOK' /\ ObjectsHaveCalls'
  <2>1. UIInv'
    BY <1>2 DEF BeginClose, uiVars, windowVars, promptVars, UIInv, UITypeOK
  <2>2. /\ served[h] \in Call /\ handleOf[served[h]] \in Handle
        /\ closing' = [closing EXCEPT ![k] = [pc |-> "cancel", call |-> served[h]]]
        /\ UNCHANGED <<handleOf, served, routing>>
    BY <1>2 DEF BeginClose, callVars, PortalTypeOK, ObjectsHaveCalls
  <2>3. closing' \in [Close -> Step]
    BY <1>1, <2>2
  <2>4. ObjectsHaveCalls'
    BY <1>1, <2>2 DEF ObjectsHaveCalls
  <2> QED BY <1>2, <2>1, <2>3, <2>4 DEF BeginClose, callVars, PortalTypeOK
<1>3. ASSUME NEW from \in {"cancel", "withdraw", "remove"},
             NEW to \in {"withdraw", "remove", "done"}, CloseGoto(k, from, to)
      PROVE  /\ closing' \in [Close -> Step]
             /\ x \in Call /\ handleOf[x] \in Handle
             /\ \A j \in Close : closing'[j].pc # "idle" =>
                  closing'[j].call \in Call /\ handleOf[closing'[j].call] \in Handle
  <2>1. closing[k].pc = from /\ closing' = [closing EXCEPT ![k].pc = to]
    BY <1>3 DEF CloseGoto
  <2>2. closing' = [closing EXCEPT ![k] = [pc |-> to, call |-> x]]
    <3>1. closing[k] \in Step
      BY <1>1
    <3>2. [closing[k] EXCEPT !.pc = to] = [pc |-> to, call |-> x]
      BY <3>1
    <3> QED BY <2>1, <3>2
  <2>3. x \in Call /\ handleOf[x] \in Handle
    BY <2>1 DEF ObjectsHaveCalls
  <2>4. closing' \in [Close -> Step]
    BY <1>1, <2>2, <2>3
  <2> QED BY <1>1, <2>2, <2>3, <2>4 DEF ObjectsHaveCalls
<1>4. CASE CloseCancel(k)
  <2>1. CloseGoto(k, "cancel", "withdraw")
    BY <1>4 DEF CloseCancel
  <2>2. UIInv'
    BY <1>4 DEF CloseCancel, uiVars, windowVars, promptVars, UIInv, UITypeOK
  <2> QED BY <1>4, <2>1, <2>2, <1>3 DEF CloseCancel, PortalTypeOK, ObjectsHaveCalls
<1>5. CASE CloseWithdraw(k)
  <2>1. CloseGoto(k, "withdraw", "remove")
    BY <1>5 DEF CloseWithdraw
  <2>2. inbox' \in Seq(Message)
    BY <1>5, <2>1, <1>3, MessageTypes DEF CloseWithdraw, UIInv, UITypeOK
  <2>3. UIInv'
    BY <1>5, <2>2 DEF CloseWithdraw, windowVars, promptVars, UIInv, UITypeOK
  <2> QED BY <1>5, <2>1, <2>3, <1>3 DEF CloseWithdraw, callVars, PortalTypeOK, ObjectsHaveCalls
<1>6. CASE CloseRemove(k)
  <2>1. CloseGoto(k, "remove", "done")
    BY <1>6 DEF CloseRemove
  <2>2. UIInv'
    BY <1>6 DEF CloseRemove, uiVars, windowVars, promptVars, UIInv, UITypeOK
  <2>3. /\ served' \in [Handle -> Call \cup {None}]
        /\ cancelled' \in [Call -> BOOLEAN]
        /\ \A g \in Handle : served'[g] # None => handleOf[served'[g]] \in Handle
    BY <1>6, UnserveTypes DEF CloseRemove
  <2> QED BY <1>6, <2>1, <2>2, <2>3, <1>3 DEF CloseRemove, PortalTypeOK, ObjectsHaveCalls
<1> QED BY <1>2, <1>4, <1>5, <1>6 DEF CloseRequest

\* The router of the dialog's answers.
LEMMA RouterTypes ==
  ASSUME TInv, Router
  PROVE  UIInv' /\ PortalTypeOK' /\ ObjectsHaveCalls'
<1> USE DEF TInv
<1>1. CASE RouterTake
  <2> DEFINE answer == Head(toBackground)
             senders == TakenByHandle(registry, answer.handle)
             Answer == [handle : Handle, result : Result]
  <2>1. toBackground \in Seq(Answer) /\ toBackground # <<>> /\ toBackground' = Tail(toBackground)
    BY <1>1 DEF RouterTake, UIInv, UITypeOK
  <2>2. answer \in Answer /\ toBackground' \in Seq(Answer)
    <3> HIDE DEF Answer
    <3> QED BY <2>1
  <2>3. UIInv'
    BY <1>1, <2>2 DEF RouterTake, windowVars, promptVars, UIInv, UITypeOK
  <2>4. senders \subseteq Call
    <3>1. CASE IsKnown(registry, answer.handle)
      <4> DEFINE a == registry.byHandle[answer.handle].app
      <4>1. a \in App
        BY <3>1 DEF IsKnown, IInv, CallTypeOK, Registry, Entry
      <4>2. Members(registry.appHandles[a]) \subseteq Handle
        BY <4>1, MembersAreHandles DEF IInv, CallTypeOK, Registry
      <4>3. SendersOfApp(registry, a) \subseteq Call
        BY <4>2 DEF SendersOfApp, SendersOf, IInv, CallTypeOK, Registry, Entry
      <4> QED BY <3>1, <4>3 DEF TakenByHandle
    <3>2. CASE ~IsKnown(registry, answer.handle)
      BY <3>2 DEF TakenByHandle
    <3> QED BY <3>1, <3>2
  <2>5. routing' = IF senders = {} THEN NotRouting
                   ELSE [senders |-> senders, result |-> answer.result]
    BY <1>1 DEF RouterTake
  <2> HIDE DEF answer, senders
  <2>6. /\ routing' \in [senders : SUBSET Call, result : Result \cup {None}]
        /\ routing'.senders # {} => routing'.result \in Result
    BY <2>2, <2>4, <2>5 DEF NotRouting
  <2> QED BY <1>1, <2>3, <2>6 DEF RouterTake, callVars, PortalTypeOK, ObjectsHaveCalls
<1>2. ASSUME NEW c \in Call, RouterSend(c)
      PROVE  UIInv' /\ PortalTypeOK' /\ ObjectsHaveCalls'
  <2>1. routing \in [senders : SUBSET Call, result : Result \cup {None}]
    BY DEF PortalTypeOK
  <2>2. routing.result \in Result
    BY <1>2 DEF RouterSend, ObjectsHaveCalls
  <2>3. routing' \in {NotRouting, [senders |-> routing.senders \ {c}, result |-> routing.result]}
    BY <1>2, <2>1 DEF RouterSend
  <2>4. /\ routing' \in [senders : SUBSET Call, result : Result \cup {None}]
        /\ routing'.senders # {} => routing'.result \in Result
    BY <2>1, <2>2, <2>3 DEF NotRouting
  <2>5. response' \in [Call -> Result \cup {Pending, Dropped}]
    BY <1>2, <2>2 DEF RouterSend, PortalTypeOK
  <2>6. UIInv'
    BY <1>2 DEF RouterSend, uiVars, windowVars, promptVars, UIInv, UITypeOK
  <2> QED BY <1>2, <2>4, <2>5, <2>6 DEF RouterSend, PortalTypeOK, ObjectsHaveCalls
<1> QED BY <1>1, <1>2 DEF Router

\* Every step keeps the state well typed.
LEMMA NextTInv ==
  ASSUME HandleReuse # "any", TInv, [Next]_vars
  PROVE  TInv'
<1>1. IInv'
  BY NextIInv DEF TInv
<1>2. CASE BackgroundStep
  BY <1>1, <1>2, BeginTypes, NotifyTypes, CloseTypes, RouterTypes DEF BackgroundStep, TInv
<1>3. CASE UIStep
  <2>1. UIInv'
    BY <1>3, UINextTypes DEF UIStep, TInv
  <2>2. UNCHANGED <<callVars, served, closing, routing>>
    BY <1>3 DEF UIStep, portalVars
  <2> QED BY <1>1, <2>1, <2>2 DEF callVars, TInv, PortalTypeOK, ObjectsHaveCalls
<1>4. CASE UNCHANGED vars
  <2>1. UIInv'
    BY <1>4 DEF vars, uiVars, windowVars, promptVars, TInv, UIInv, UITypeOK
  <2>2. UNCHANGED <<callVars, served, closing, routing>>
    BY <1>4 DEF vars, portalVars
  <2> QED BY <1>1, <2>1, <2>2 DEF callVars, TInv, PortalTypeOK, ObjectsHaveCalls
<1> QED BY <1>2, <1>3, <1>4 DEF Next, Rest

\* Every variable of the portal and the dialog keeps its type; so the dialog
\* never reports a background answer without a handle and a result, and the
\* router never hands a waiting call anything else.
THEOREM PortalIsTypeCorrect ==
  ASSUME HandleReuse # "any"
  PROVE  Spec => []TypeOK
<1>1. Init => TInv
  BY InitTInv
<1>2. TInv /\ [Next]_vars => TInv'
  BY NextTInv
<1>3. TInv => TypeOK
  BY DEF TInv, IInv, CallTypeOK, PortalTypeOK, UIInv, TypeOK
<1> QED BY <1>1, <1>2, <1>3, PTL DEF Spec

-----------------------------------------------------------------------------
(***************************************************************************)
(* What becomes of a request.  The properties about answers need to know,  *)
(* for every request, where its sender is: in the registry, with the       *)
(* router, or gone with the answer it brought.                             *)
(***************************************************************************)

\* The sender of a request is in the registry.
Registered(c) ==
  \E h \in Handle : registry.byHandle[h] # None /\ registry.byHandle[h].call = c

\* What was decided for it, whether or not it has heard of it yet.
Fate(c) == IF c \in routing.senders THEN routing.result ELSE response[c]

\* A sender is in one place only, and a request has its reply when it has left
\* its select!.
FateInv ==
  \A c \in Call :
    /\ pc[c] = "idle" =>
         response[c] = Pending /\ c \notin routing.senders /\ leader[c] = None
    /\ pc[c] \in Waiting \cup {"unserve"} => leader[c] # None
    /\ Registered(c) \/ c \in routing.senders => response[c] = Pending
    /\ Registered(c) => c \notin routing.senders
    /\ leader[c] # None <=> Registered(c) \/ Fate(c) # Pending
    /\ reply[c] = None <=> pc[c] \in {"idle", "serve", "prompt", "wait"}

\* The requests that a group stands for.
Grouped(a) == {d \in Call : Registered(d) /\ appOf[d] = a}

\* A group is the registered requests of one leader, who is its primary and
\* prompts for it.
LeaderInv ==
  /\ \A a \in App : \A c \in Grouped(a) : leader[c] = LeaderOf(a) /\ prompts[leader[c]]
  /\ \A c \in Call : leader[c] # None => pc[leader[c]] # "idle"

FInv == TInv /\ FateInv /\ LeaderInv

-----------------------------------------------------------------------------
\* Where the entry of a registered request is.
LEMMA RegisteredEntry ==
  ASSUME IInv, NEW d \in Call
  PROVE  /\ Registered(d) =>
              /\ pc[d] \in Waiting /\ handleOf[d] \in Handle /\ appOf[d] \in App
              /\ registry.byHandle[handleOf[d]] = [app |-> appOf[d], call |-> d]
         /\ pc[d] \in Waiting /\ registry.byHandle[handleOf[d]] # None => Registered(d)
<1>1. ASSUME Registered(d)
      PROVE  /\ pc[d] \in Waiting /\ handleOf[d] \in Handle /\ appOf[d] \in App
             /\ registry.byHandle[handleOf[d]] = [app |-> appOf[d], call |-> d]
  <2>1. PICK h \in Handle : registry.byHandle[h] # None /\ registry.byHandle[h].call = d
    BY <1>1 DEF Registered
  <2>2. pc[d] \in Waiting /\ handleOf[d] = h /\ appOf[d] = registry.byHandle[h].app
    BY <2>1 DEF IInv, RegistryConsistent
  <2>3. registry.byHandle[h] \in Entry
    BY <2>1 DEF IInv, CallTypeOK, Registry
  <2>4. registry.byHandle[h] = [app |-> appOf[d], call |-> d] /\ appOf[d] \in App
    BY <2>1, <2>2, <2>3 DEF Entry
  <2> QED BY <2>1, <2>2, <2>4
<1>2. ASSUME pc[d] \in Waiting, registry.byHandle[handleOf[d]] # None
      PROVE  Registered(d)
  <2>1. handleOf[d] \in Handle
    BY <1>2 DEF IInv, CallsHaveParameters
  <2> QED BY <1>2, <2>1, EntryIsOwn DEF Registered
<1> QED BY <1>1, <1>2

\* The senders of a group are its registered requests; its leader is one.
LEMMA GroupedIs ==
  ASSUME IInv, NEW a \in App
  PROVE  /\ SendersOfApp(registry, a) = Grouped(a)
         /\ registry.appHandles[a] = None <=> Grouped(a) = {}
         /\ registry.appHandles[a] # None =>
              /\ LeaderOf(a) \in Grouped(a)
              /\ registry.appHandles[a].primary = handleOf[LeaderOf(a)]
              /\ registry.byHandle[registry.appHandles[a].primary].call = LeaderOf(a)
<1> DEFINE g == registry.appHandles[a]
<1>1. registry \in Registry /\ MapsAgree(registry) /\ g \in Group \cup {None}
  BY DEF IInv, CallTypeOK, RegistryConsistent, Registry
<1>2. Members(g) \subseteq Handle
  BY <1>1, MembersAreHandles
<1>3. ASSUME NEW h \in Members(g)
      PROVE  /\ registry.byHandle[h] # None /\ registry.byHandle[h].call \in Grouped(a)
             /\ handleOf[registry.byHandle[h].call] = h
  <2>1. h \in Handle /\ registry.byHandle[h] # None /\ registry.byHandle[h].app = a
    BY <1>1, <1>2 DEF MapsAgree
  <2>2. registry.byHandle[h] \in Entry
    BY <1>1, <2>1 DEF Registry
  <2>3. registry.byHandle[h].call \in Call
    BY <2>2 DEF Entry
  <2>4. Registered(registry.byHandle[h].call)
    BY <2>1 DEF Registered
  <2>5. handleOf[registry.byHandle[h].call] = h /\ appOf[registry.byHandle[h].call] = a
    BY <2>1 DEF IInv, RegistryConsistent
  <2> QED BY <2>1, <2>3, <2>4, <2>5 DEF Grouped
<1>4. ASSUME NEW d \in Grouped(a)
      PROVE  /\ handleOf[d] \in Members(g)
             /\ registry.byHandle[handleOf[d]] # None
             /\ registry.byHandle[handleOf[d]].call = d
  <2>1. d \in Call /\ Registered(d) /\ appOf[d] = a
    BY DEF Grouped
  <2>2. /\ handleOf[d] \in Handle
        /\ registry.byHandle[handleOf[d]] = [app |-> a, call |-> d]
    BY <2>1, RegisteredEntry
  <2>3. [app |-> a, call |-> d] \in Entry
    BY <2>1 DEF Entry
  <2>4. registry.byHandle[handleOf[d]] # None
    BY <2>2, <2>3, NoneAssumption
  <2> QED BY <2>2, <2>4, <1>1 DEF MapsAgree
<1>5. SendersOfApp(registry, a) = Grouped(a)
  <2>1. SendersOfApp(registry, a)
          = {registry.byHandle[h].call : h \in {k \in Members(g) : registry.byHandle[k] # None}}
    BY DEF SendersOfApp, SendersOf
  <2>2. ASSUME NEW d \in Grouped(a) PROVE d \in SendersOfApp(registry, a)
    BY <2>1, <1>4
  <2>3. ASSUME NEW d \in SendersOfApp(registry, a) PROVE d \in Grouped(a)
    BY <2>1, <1>3
  <2> QED BY <2>2, <2>3
<1>6. g # None => /\ LeaderOf(a) \in Grouped(a)
                  /\ g.primary = handleOf[LeaderOf(a)]
                  /\ registry.byHandle[g.primary].call = LeaderOf(a)
  <2> SUFFICES ASSUME g # None
               PROVE  /\ LeaderOf(a) \in Grouped(a)
                      /\ g.primary = handleOf[LeaderOf(a)]
                      /\ registry.byHandle[g.primary].call = LeaderOf(a)
    OBVIOUS
  <2>1. g.primary \in Members(g)
    BY DEF Members
  <2>2. LeaderOf(a) = registry.byHandle[g.primary].call
    BY <2>1, <1>3 DEF LeaderOf
  <2> QED BY <2>1, <2>2, <1>3
<1>7. g = None => Grouped(a) = {}
  BY <1>4 DEF Members
<1> QED BY <1>5, <1>6, <1>7

\* The leader of a registered request is registered for the same application,
\* leads itself, and two registered requests of one leader are in one group.
LEMMA LeaderFacts ==
  ASSUME IInv, LeaderInv, NEW c \in Call, Registered(c)
  PROVE  /\ leader[c] \in Call /\ Registered(leader[c]) /\ appOf[leader[c]] = appOf[c]
         /\ leader[leader[c]] = leader[c]
         /\ appOf[c] \in App /\ registry.appHandles[appOf[c]] # None
         /\ leader[c] = LeaderOf(appOf[c]) /\ prompts[leader[c]]
<1>1. appOf[c] \in App /\ c \in Grouped(appOf[c])
  BY RegisteredEntry DEF Grouped
<1>2. registry.appHandles[appOf[c]] # None /\ LeaderOf(appOf[c]) \in Grouped(appOf[c])
  BY <1>1, GroupedIs
<1> QED BY <1>1, <1>2 DEF LeaderInv, Grouped

-----------------------------------------------------------------------------
(* How the registry loses requests. *)

\* The requests of a set leave the registry and no other does; a group that
\* keeps a request keeps its leader.
Sheds(S) ==
  /\ \A d \in Call : Registered(d)' <=> Registered(d) /\ d \notin S
  /\ \A a \in App : Grouped(a) \ S # {} => LeaderOf(a)' = LeaderOf(a)

\* Whom a request takes along when it leaves.
Followers(c) == {d \in Call : Registered(d) /\ leader[d] = c}
ShedBy(c) ==
  IF ~Registered(c) THEN {} ELSE IF leader[c] = c THEN Followers(c) ELSE {c}

\* Nothing changes for the registry.
LEMMA ShedsNothing ==
  ASSUME UNCHANGED registry
  PROVE  /\ \A d \in Call : Registered(d)' <=> Registered(d)
         /\ \A a \in App : LeaderOf(a)' = LeaderOf(a)
         /\ Sheds({})
BY DEF Registered, LeaderOf, Sheds

\* remove_app
LEMMA RemoveAppSheds ==
  ASSUME IInv, NEW a \in App, registry' = RemoveApp(registry, a)
  PROVE  Sheds(Grouped(a))
<1>1. registry \in Registry /\ MapsAgree(registry)
  BY DEF IInv, CallTypeOK, RegistryConsistent
<1>2. registry'.byHandle = [k \in Handle |-> IF k \in Members(registry.appHandles[a])
                                             THEN None ELSE registry.byHandle[k]]
  BY <1>1, RemoveAppAgrees
<1>3. \A b \in App : b # a => registry'.appHandles[b] = registry.appHandles[b]
  BY <1>1 DEF RemoveApp, Registry
<1>4. \A h \in Handle : registry.byHandle[h] # None =>
        registry.byHandle[h].app \in App /\ registry.byHandle[h].call \in Call
  BY <1>1 DEF Registry, Entry
<1>5. ASSUME NEW h \in Handle, registry.byHandle[h] # None
      PROVE  h \in Members(registry.appHandles[a]) <=> registry.byHandle[h].app = a
  BY <1>1, <1>4, <1>5 DEF MapsAgree
<1>6. ASSUME NEW d \in Call
      PROVE  Registered(d)' <=> Registered(d) /\ d \notin Grouped(a)
  <2>1. ASSUME Registered(d)' PROVE Registered(d) /\ d \notin Grouped(a)
    <3>1. PICK h \in Handle : registry'.byHandle[h] # None /\ registry'.byHandle[h].call = d
      BY <2>1 DEF Registered
    <3>2. /\ registry.byHandle[h] = registry'.byHandle[h]
          /\ h \notin Members(registry.appHandles[a])
      BY <3>1, <1>2
    <3>3. Registered(d)
      BY <3>1, <3>2 DEF Registered
    <3>4. appOf[d] = registry.byHandle[h].app
      BY <3>1, <3>2 DEF IInv, RegistryConsistent
    <3> QED BY <3>1, <3>2, <3>3, <3>4, <1>5 DEF Grouped
  <2>2. ASSUME Registered(d), d \notin Grouped(a) PROVE Registered(d)'
    <3>1. PICK h \in Handle : registry.byHandle[h] # None /\ registry.byHandle[h].call = d
      BY <2>2 DEF Registered
    <3>2. appOf[d] = registry.byHandle[h].app /\ appOf[d] # a
      BY <2>2, <3>1 DEF IInv, RegistryConsistent, Grouped
    <3>3. registry'.byHandle[h] = registry.byHandle[h]
      BY <3>1, <3>2, <1>2, <1>5
    <3> QED BY <3>1, <3>3 DEF Registered
  <2> QED BY <2>1, <2>2
<1>7. ASSUME NEW b \in App, Grouped(b) \ Grouped(a) # {}
      PROVE  LeaderOf(b)' = LeaderOf(b)
  <2>1. b # a /\ Grouped(b) # {}
    BY <1>7
  <2>2. /\ registry.appHandles[b] # None
        /\ LeaderOf(b) \in Grouped(b)
        /\ registry.byHandle[registry.appHandles[b].primary].call = LeaderOf(b)
    BY <2>1, GroupedIs
  <2> DEFINE h == registry.appHandles[b].primary
  <2>3. h \in Handle /\ h \in Members(registry.appHandles[b])
    BY <2>2, <1>1 DEF Registry, Group, Members
  <2>4. registry.byHandle[h] # None /\ registry.byHandle[h].app = b
    BY <2>3, <1>1 DEF MapsAgree
  <2>5. registry'.byHandle[h] = registry.byHandle[h]
    BY <2>1, <2>3, <2>4, <1>2, <1>5
  <2>6. registry'.appHandles[b].primary = h
    BY <2>1, <1>3
  <2> QED BY <2>5, <2>6 DEF LeaderOf
<1> QED BY <1>6, <1>7 DEF Sheds

\* What a leader of a registered group stands for.
LEMMA FollowersAreGrouped ==
  ASSUME IInv, LeaderInv, NEW c \in Call, Registered(c)
  PROVE  Followers(leader[c]) = Grouped(appOf[c])
<1>1. ASSUME NEW d \in Call, Registered(d)
      PROVE  leader[d] = leader[c] <=> appOf[d] = appOf[c]
  BY <1>1, LeaderFacts
<1> QED BY <1>1 DEF Followers, Grouped

\* remove_request, called by the request itself
LEMMA UnregisterSheds ==
  ASSUME IInv, FateInv, LeaderInv, PortalTypeOK,
         NEW c \in Call, pc[c] \in Waiting, Unregister(c)
  PROVE  /\ Sheds(ShedBy(c))
         /\ response' = [d \in Call |-> IF d \in ShedBy(c) THEN Dropped ELSE response[d]]
         /\ \A d \in ShedBy(c) : Registered(d) /\ d \in Call
<1> DEFINE h == handleOf[c]
           a == appOf[c]
           S == DroppedByRequest(registry, h, a)
<1>1. h \in Handle /\ a \in App
  BY DEF IInv, CallsHaveParameters
<1>2. registry \in Registry /\ MapsAgree(registry)
  BY DEF IInv, CallTypeOK, RegistryConsistent
<1>3. registry.byHandle[h] # None <=> Registered(c)
  <2>1. [app |-> appOf[c], call |-> c] # None
    BY <1>1, NoneAssumption DEF Entry
  <2> QED BY <2>1, RegisteredEntry
<1>4. registry.byHandle[h] # None =>
        registry.byHandle[h].app = a /\ registry.byHandle[h].call = c
  BY EntryIsOwn
<1>5. registry' = RemoveRequest(registry, h, a)
      /\ response' = [d \in Call |-> IF d \in S /\ response[d] = Pending
                                     THEN Dropped ELSE response[d]]
  BY DEF Unregister, DropSenders
<1>6. \A d \in ShedBy(c) : Registered(d) /\ d \in Call /\ response[d] = Pending
  BY DEF ShedBy, Followers, FateInv
<1>7. Sheds(ShedBy(c)) /\ S = ShedBy(c)
  <2>1. CASE ~Registered(c)
    <3>1. registry' = registry /\ S = {}
      BY <1>1, <1>2, <1>3, <1>5, <2>1, RemoveRequestCases
    <3> QED BY <2>1, <3>1, ShedsNothing DEF ShedBy
  <2>2. CASE Registered(c) /\ IsPrimary(registry, h, a)
    <3>1. registry' = RemoveApp(registry, a) /\ S = SendersOfApp(registry, a)
      BY <1>1, <1>2, <1>3, <1>4, <1>5, <2>2, RemoveRequestCases
    <3>2. registry.appHandles[a] # None /\ registry.appHandles[a].primary = h
      BY <2>2 DEF IsPrimary
    <3>3. LeaderOf(a) = c
      BY <1>1, <1>3, <1>4, <2>2, <3>2, GroupedIs
    <3>4. leader[c] = c /\ Followers(c) = Grouped(a)
      BY <2>2, <3>3, LeaderFacts, FollowersAreGrouped
    <3>5. S = Grouped(a) /\ Sheds(Grouped(a))
      BY <3>1, <1>1, GroupedIs, RemoveAppSheds
    <3> QED BY <2>2, <3>4, <3>5 DEF ShedBy
  <2>3. CASE Registered(c) /\ ~IsPrimary(registry, h, a)
    <3>1. /\ registry'.byHandle = [registry.byHandle EXCEPT ![h] = None]
          /\ \A b \in App :
               /\ registry'.appHandles[b] = None <=> registry.appHandles[b] = None
               /\ registry.appHandles[b] # None =>
                    registry'.appHandles[b].primary = registry.appHandles[b].primary
          /\ registry.appHandles[a] # None /\ registry.appHandles[a].primary # h
          /\ S = {registry.byHandle[h].call}
      BY <1>1, <1>2, <1>3, <1>4, <1>5, <2>3, RemoveRequestCases
    <3>2. S = {c}
      BY <3>1, <1>3, <1>4, <2>3
    <3>3. leader[c] # c
      <4>1. registry.appHandles[a].primary = handleOf[LeaderOf(a)]
        BY <3>1, <1>1, GroupedIs
      <4> QED BY <4>1, <3>1, <2>3, LeaderFacts
    <3>4. \A k \in Handle : registry'.byHandle[k] =
            IF k = h THEN None ELSE registry.byHandle[k]
      BY <3>1, <1>1, <1>2 DEF Registry
    <3>5. ASSUME NEW d \in Call
          PROVE  Registered(d)' <=> Registered(d) /\ d # c
      <4>1. ASSUME Registered(d)' PROVE Registered(d) /\ d # c
        <5>1. PICK k \in Handle : registry'.byHandle[k] # None /\ registry'.byHandle[k].call = d
          BY <4>1 DEF Registered
        <5>2. k # h /\ registry.byHandle[k] = registry'.byHandle[k]
          BY <5>1, <3>4
        <5>3. Registered(d) /\ handleOf[d] = k
          BY <5>1, <5>2 DEF Registered, IInv, RegistryConsistent
        <5> QED BY <5>2, <5>3
      <4>2. ASSUME Registered(d), d # c PROVE Registered(d)'
        <5>1. PICK k \in Handle : registry.byHandle[k] # None /\ registry.byHandle[k].call = d
          BY <4>2 DEF Registered
        <5>2. k # h
          BY <5>1, <4>2, <1>4
        <5>3. registry'.byHandle[k] = registry.byHandle[k]
          BY <5>2, <3>4
        <5> QED BY <5>1, <5>3 DEF Registered
      <4> QED BY <4>1, <4>2
    <3>6. ASSUME NEW b \in App, Grouped(b) \ {c} # {}
          PROVE  LeaderOf(b)' = LeaderOf(b)
      <4>1. registry.appHandles[b] # None
        BY <3>6, GroupedIs
      <4> DEFINE k == registry.appHandles[b].primary
      <4>2. /\ k \in Handle /\ registry.byHandle[k] # None
            /\ registry.byHandle[k].app = b
        BY <4>1, <1>2 DEF Registry, Group, Members, MapsAgree
      <4>3. k # h
        BY <4>2, <1>4, <3>1
      <4>4. registry'.byHandle[k] = registry.byHandle[k] /\ registry'.appHandles[b].primary = k
        BY <4>1, <4>2, <4>3, <3>1, <3>4
      <4> QED BY <4>4 DEF LeaderOf
    <3>7. Sheds({c})
      BY <3>5, <3>6 DEF Sheds
    <3> QED BY <2>3, <3>2, <3>3, <3>7 DEF ShedBy
  <2> QED BY <2>1, <2>2, <2>3
<1>8. response' = [d \in Call |-> IF d \in ShedBy(c) THEN Dropped ELSE response[d]]
  <2>1. \A d \in Call : (d \in S /\ response[d] = Pending) <=> d \in ShedBy(c)
    BY <1>6, <1>7
  <2> QED BY <1>5, <2>1
<1> QED BY <1>6, <1>7, <1>8

\* take_app_responses_by_handle: nobody, or all requests of one leader
LEMMA RouterTakeSheds ==
  ASSUME TInv, LeaderInv, RouterTake
  PROVE  \/ registry' = registry /\ routing = NotRouting /\ routing' = NotRouting
         \/ /\ routing = NotRouting
            /\ routing'.result \in Result
            /\ \E a \in App :
                 /\ routing'.senders = Grouped(a)
                 /\ Grouped(a) # {}
                 /\ Sheds(Grouped(a))
<1> DEFINE answer == Head(toBackground)
           h == answer.handle
           Answer == [handle : Handle, result : Result]
<1>1. routing = NotRouting
  BY DEF RouterTake
<1>2. answer \in Answer
  <2>1. toBackground \in Seq(Answer) /\ toBackground # <<>>
    BY DEF RouterTake, TInv, UIInv, UITypeOK
  <2> HIDE DEF Answer
  <2> QED BY <2>1
<1>3. /\ registry' = TakeByHandle(registry, h)
      /\ routing' = IF TakenByHandle(registry, h) = {} THEN NotRouting
                    ELSE [senders |-> TakenByHandle(registry, h), result |-> answer.result]
  BY DEF RouterTake
<1> HIDE DEF answer
<1>4. CASE ~IsKnown(registry, h)
  BY <1>1, <1>3, <1>4 DEF TakeByHandle, TakenByHandle
<1>5. CASE IsKnown(registry, h)
  <2> DEFINE a == registry.byHandle[h].app
  <2>1. a \in App /\ h \in Handle /\ registry.byHandle[h] # None
    BY <1>5 DEF IsKnown, TInv, IInv, CallTypeOK, Registry, Entry
  <2>2. registry' = RemoveApp(registry, a) /\ TakenByHandle(registry, h) = Grouped(a)
    BY <1>3, <1>5, <2>1, GroupedIs DEF TakeByHandle, TakenByHandle, TInv
  <2>3. h \in Members(registry.appHandles[a])
    BY <2>1 DEF TInv, IInv, RegistryConsistent, MapsAgree
  <2>4. registry.appHandles[a] # None /\ Grouped(a) # {}
    BY <2>1, <2>3, GroupedIs DEF Members, TInv
  <2>5. Sheds(Grouped(a))
    BY <2>1, <2>2, RemoveAppSheds DEF TInv
  <2>6. routing' = [senders |-> Grouped(a), result |-> answer.result]
    BY <1>3, <2>2, <2>4
  <2> QED BY <1>1, <1>2, <2>1, <2>4, <2>5, <2>6
<1> QED BY <1>4, <1>5

-----------------------------------------------------------------------------
(* FateInv and LeaderInv are inductive, for callers that wait for replies. *)

\* reserve: one request more is registered, behind the leader of its group or as
\* the leader of a new one.
LEMMA ReserveEffect ==
  ASSUME TInv, TInv', NEW c \in Call, NEW h \in Handle, NEW a \in App, pc[c] = "idle",
         ReserveHandle(c, h, a),
         handleOf' = [handleOf EXCEPT ![c] = h],
         appOf' = [appOf EXCEPT ![c] = a]
  PROVE  /\ \A d \in Call : Registered(d)' <=> Registered(d) \/ d = c
         /\ ~Registered(c)
         /\ \A b \in App : Grouped(b)' = IF b = a THEN Grouped(b) \cup {c} ELSE Grouped(b)
         /\ \A b \in App : Grouped(b) # {} => LeaderOf(b)' = LeaderOf(b)
         /\ Grouped(a) = {} => LeaderOf(a)' = c
         /\ leader' = [leader EXCEPT ![c] = IF Grouped(a) = {} THEN c ELSE LeaderOf(a)]
         /\ prompts' = [prompts EXCEPT ![c] = (Grouped(a) = {})]
<1> USE DEF TInv
<1>1. registry \in Registry /\ MapsAgree(registry)
  BY DEF IInv, CallTypeOK, RegistryConsistent
<1>2. registry' = Reserve(registry, h, a, c) /\ registry.byHandle[h] = None
  BY DEF ReserveHandle, IsDuplicate
<1>3. /\ registry'.byHandle = [registry.byHandle EXCEPT ![h] = [app |-> a, call |-> c]]
      /\ registry'.appHandles = [registry.appHandles EXCEPT ![a] = Joined(@, h)]
  BY <1>2 DEF Reserve
<1>4. [app |-> a, call |-> c] # None
  BY NoneAssumption DEF Entry
<1>5. /\ \A k \in Handle : registry'.byHandle[k]
           = IF k = h THEN [app |-> a, call |-> c] ELSE registry.byHandle[k]
      /\ \A b \in App : registry'.appHandles[b]
           = IF b = a THEN Joined(registry.appHandles[a], h) ELSE registry.appHandles[b]
  BY <1>1, <1>3 DEF Registry
<1>6. ASSUME NEW d \in Call
      PROVE  Registered(d)' <=> Registered(d) \/ d = c
  <2>1. ASSUME Registered(d)', d # c PROVE Registered(d)
    BY <2>1, <1>4, <1>5 DEF Registered
  <2>2. ASSUME Registered(d) PROVE Registered(d)'
    BY <2>2, <1>2, <1>4, <1>5 DEF Registered
  <2>3. Registered(c)'
    BY <1>4, <1>5 DEF Registered
  <2> QED BY <2>1, <2>2, <2>3
<1>7. ~Registered(c)
  BY RegisteredEntry DEF Waiting
<1>8. \A d \in Call : appOf'[d] = IF d = c THEN a ELSE appOf[d]
  BY DEF IInv, CallTypeOK
<1>9. ASSUME NEW b \in App
      PROVE  Grouped(b)' = IF b = a THEN Grouped(b) \cup {c} ELSE Grouped(b)
  <2>1. Grouped(b)' = {d \in Call : Registered(d)' /\ appOf'[d] = b}
    BY DEF Grouped
  <2>2. \A d \in Call : (Registered(d)' /\ appOf'[d] = b) <=>
          (d \in Grouped(b) \/ (d = c /\ b = a))
    BY <1>6, <1>7, <1>8 DEF Grouped
  <2>3. Grouped(b) \subseteq Call
    BY DEF Grouped
  <2> QED BY <2>1, <2>2, <2>3
<1>10. ASSUME NEW b \in App, Grouped(b) # {}
       PROVE  LeaderOf(b)' = LeaderOf(b)
  <2>1. registry.appHandles[b] # None
    BY <1>10, GroupedIs
  <2> DEFINE k == registry.appHandles[b].primary
  <2>2. k \in Handle /\ registry.byHandle[k] # None
    BY <2>1, <1>1 DEF Registry, Group, Members, MapsAgree
  <2>3. registry'.byHandle[k] = registry.byHandle[k]
    BY <2>2, <1>2, <1>5
  <2>4. registry'.appHandles[b].primary = k
    BY <2>1, <1>5 DEF Joined
  <2> QED BY <2>3, <2>4 DEF LeaderOf
<1>11. ASSUME Grouped(a) = {}
       PROVE  LeaderOf(a)' = c
  <2>1. registry.appHandles[a] = None
    BY <1>11, GroupedIs
  <2>2. registry'.appHandles[a].primary = h
    BY <2>1, <1>5 DEF Joined
  <2> QED BY <2>2, <1>4, <1>5 DEF LeaderOf
<1>12. PromptNeeded(registry, a) <=> Grouped(a) = {}
  BY GroupedIs DEF PromptNeeded
<1>13. leader' = [leader EXCEPT ![c] = IF Grouped(a) = {} THEN c ELSE LeaderOf(a)]
  BY <1>12 DEF ReserveHandle
<1>14. prompts' = [prompts EXCEPT ![c] = (Grouped(a) = {})]
  <2>1. PromptNeeded(registry, a) = (Grouped(a) = {})
    BY <1>12 DEF PromptNeeded
  <2> QED BY <2>1 DEF ReserveHandle
<1> QED BY <1>6, <1>7, <1>9, <1>10, <1>11, <1>13, <1>14

\* A step of a call that leaves the registry and the answers alone.
LEMMA FateMoves ==
  ASSUME FInv, NEW c \in Call, NEW to \in PC \ {"idle"}, pc' = [pc EXCEPT ![c] = to],
         to \in Waiting \cup {"unserve"} => pc[c] \in Waiting \cup {"unserve"},
         UNCHANGED <<registry, response, leader, prompts, routing>>,
         \A d \in Call : Registered(d) => appOf'[d] = appOf[d],
         \A d \in Call : d # c => reply'[d] = reply[d],
         reply'[c] = None <=> to \in {"serve", "prompt", "wait"}
  PROVE  FateInv' /\ LeaderInv'
<1> USE DEF FInv, TInv
<1>1. /\ \A d \in Call : Registered(d)' <=> Registered(d)
      /\ \A a \in App : LeaderOf(a)' = LeaderOf(a)
  BY ShedsNothing
<1>2. \A d \in Call : pc'[d] = IF d = c THEN to ELSE pc[d]
  BY DEF IInv, CallTypeOK
<1>3. \A d \in Call : Fate(d)' = Fate(d)
  BY DEF Fate
<1>4. FateInv'
  <2> SUFFICES ASSUME NEW d \in Call
               PROVE  /\ pc'[d] = "idle" =>
                           response[d] = Pending /\ d \notin routing.senders /\ leader[d] = None
                      /\ pc'[d] \in Waiting \cup {"unserve"} => leader[d] # None
                      /\ Registered(d) \/ d \in routing.senders => response[d] = Pending
                      /\ Registered(d) => d \notin routing.senders
                      /\ leader[d] # None <=> Registered(d) \/ Fate(d) # Pending
                      /\ reply'[d] = None <=> pc'[d] \in {"idle", "serve", "prompt", "wait"}
    BY <1>1, <1>3 DEF FateInv
  <2> QED BY <1>2 DEF FateInv
<1>5. LeaderInv'
  <2>1. ASSUME NEW a \in App, NEW d \in Grouped(a)'
        PROVE  leader'[d] = LeaderOf(a)' /\ prompts'[leader'[d]]
    <3>1. d \in Call /\ Registered(d) /\ appOf[d] = a
      BY <2>1, <1>1 DEF Grouped
    <3>2. leader[d] = LeaderOf(a) /\ prompts[leader[d]]
      BY <3>1 DEF LeaderInv, Grouped
    <3> QED BY <3>2, <1>1
  <2>2. ASSUME NEW d \in Call, leader'[d] # None
        PROVE  pc'[leader'[d]] # "idle"
    <3>1. leader[d] \in Call /\ pc[leader[d]] # "idle"
      BY <2>2 DEF LeaderInv, PortalTypeOK
    <3> QED BY <3>1, <1>2
  <2> QED BY <2>1, <2>2 DEF LeaderInv
<1> QED BY <1>4, <1>5

\* A request that leaves the registry.
LEMMA FateUnregisters ==
  ASSUME FInv, NEW c \in Call, pc[c] \in Waiting, NEW to \in {"unserve", "done"},
         pc' = [pc EXCEPT ![c] = to], Unregister(c),
         UNCHANGED <<appOf, leader, prompts, routing>>,
         \A d \in Call : d # c => reply'[d] = reply[d],
         reply'[c] # None
  PROVE  FateInv' /\ LeaderInv'
<1> USE DEF FInv, TInv
<1> DEFINE S == ShedBy(c)
<1>1. /\ Sheds(S)
      /\ response' = [d \in Call |-> IF d \in S THEN Dropped ELSE response[d]]
      /\ \A d \in S : Registered(d) /\ d \in Call
  BY UnregisterSheds
<1>2. \A d \in Call : pc'[d] = IF d = c THEN to ELSE pc[d]
  BY DEF IInv, CallTypeOK
<1>3. \A d \in Call : /\ Registered(d)' <=> Registered(d) /\ d \notin S
                      /\ response'[d] = IF d \in S THEN Dropped ELSE response[d]
  BY <1>1 DEF Sheds
<1> HIDE DEF S
<1>4. ASSUME NEW d \in Call
      PROVE  Fate(d)' = IF d \in S THEN Dropped ELSE Fate(d)
  BY <1>1, <1>3 DEF Fate, FateInv
<1>5. FateInv'
  <2> SUFFICES ASSUME NEW d \in Call
               PROVE  /\ pc'[d] = "idle" =>
                           response'[d] = Pending /\ d \notin routing.senders /\ leader[d] = None
                      /\ pc'[d] \in Waiting \cup {"unserve"} => leader[d] # None
                      /\ Registered(d)' \/ d \in routing.senders => response'[d] = Pending
                      /\ Registered(d)' => d \notin routing.senders
                      /\ leader[d] # None <=> Registered(d)' \/ Fate(d)' # Pending
                      /\ reply'[d] = None <=> pc'[d] \in {"idle", "serve", "prompt", "wait"}
    BY DEF FateInv
  <2>1. Dropped # Pending
    BY DEF Dropped, Pending
  <2>2. d \in S => Registered(d) /\ pc[d] \in Waiting /\ d \notin routing.senders
    BY <1>1, RegisteredEntry DEF FateInv
  <2> QED BY <1>2, <1>3, <1>4, <2>1, <2>2 DEF FateInv, Waiting
<1>6. LeaderInv'
  <2>1. ASSUME NEW a \in App, NEW d \in Grouped(a)'
        PROVE  leader'[d] = LeaderOf(a)' /\ prompts'[leader'[d]]
    <3>1. d \in Call /\ Registered(d) /\ d \notin S /\ appOf[d] = a
      BY <2>1, <1>3 DEF Grouped
    <3>2. leader[d] = LeaderOf(a) /\ prompts[leader[d]] /\ d \in Grouped(a) \ S
      BY <3>1 DEF LeaderInv, Grouped
    <3>3. LeaderOf(a)' = LeaderOf(a)
      BY <3>2, <1>1 DEF Sheds
    <3> QED BY <3>2, <3>3
  <2>2. ASSUME NEW d \in Call, leader'[d] # None
        PROVE  pc'[leader'[d]] # "idle"
    <3>1. leader[d] \in Call /\ pc[leader[d]] # "idle"
      BY <2>2 DEF LeaderInv, PortalTypeOK
    <3> QED BY <3>1, <1>2
  <2> QED BY <2>1, <2>2 DEF LeaderInv
<1> QED BY <1>5, <1>6

\* A new request.
LEMMA FateReserves ==
  ASSUME FInv, TInv', NEW c \in Call, NEW h \in Handle, NEW a \in App, ReserveHandle(c, h, a),
         handleOf' = [handleOf EXCEPT ![c] = h],
         appOf' = [appOf EXCEPT ![c] = a],
         UNCHANGED <<response, routing>>
  PROVE  FateInv' /\ LeaderInv'
<1> USE DEF FInv
<1>1. pc[c] = "idle" /\ pc' = [pc EXCEPT ![c] = "serve"] /\ UNCHANGED reply
  BY DEF ReserveHandle, Goto
<1>2. /\ \A d \in Call : Registered(d)' <=> Registered(d) \/ d = c
      /\ ~Registered(c)
      /\ \A b \in App : Grouped(b)' = IF b = a THEN Grouped(b) \cup {c} ELSE Grouped(b)
      /\ \A b \in App : Grouped(b) # {} => LeaderOf(b)' = LeaderOf(b)
      /\ Grouped(a) = {} => LeaderOf(a)' = c
      /\ leader' = [leader EXCEPT ![c] = IF Grouped(a) = {} THEN c ELSE LeaderOf(a)]
      /\ prompts' = [prompts EXCEPT ![c] = (Grouped(a) = {})]
  BY <1>1, ReserveEffect
<1>3. \A d \in Call : pc'[d] = IF d = c THEN "serve" ELSE pc[d]
  BY <1>1 DEF TInv, IInv, CallTypeOK
<1>4. Grouped(a) # {} => LeaderOf(a) \in Grouped(a)
  BY GroupedIs DEF TInv
<1> DEFINE p == IF Grouped(a) = {} THEN c ELSE LeaderOf(a)
<1>5. \A d \in Call : leader'[d] = IF d = c THEN p ELSE leader[d]
  BY <1>2 DEF TInv, PortalTypeOK
<1>6. \A d \in Call : d # c => prompts'[d] = prompts[d]
  BY <1>2 DEF TInv, PortalTypeOK
<1>7. Grouped(a) = {} => prompts'[c]
  BY <1>2 DEF TInv, PortalTypeOK
<1>8. p \in Call /\ p # None /\ (p # c => Registered(p) /\ pc[p] \in Waiting /\ p \in Grouped(a))
  <2>1. Grouped(a) # {} => LeaderOf(a) \in Call /\ Registered(LeaderOf(a))
    BY <1>4 DEF Grouped
  <2> QED BY <2>1, <1>4, RegisteredEntry, NoneAssumption DEF TInv
<1>9. FateInv'
  <2> SUFFICES ASSUME NEW d \in Call
               PROVE  /\ pc'[d] = "idle" =>
                           response[d] = Pending /\ d \notin routing.senders /\ leader'[d] = None
                      /\ pc'[d] \in Waiting \cup {"unserve"} => leader'[d] # None
                      /\ Registered(d)' \/ d \in routing.senders => response[d] = Pending
                      /\ Registered(d)' => d \notin routing.senders
                      /\ leader'[d] # None <=> Registered(d)' \/ Fate(d) # Pending
                      /\ reply[d] = None <=> pc'[d] \in {"idle", "serve", "prompt", "wait"}
    BY <1>1 DEF FateInv, Fate
  <2> HIDE DEF p
  <2>1. CASE d = c
    BY <2>1, <1>1, <1>2, <1>3, <1>5, <1>8 DEF FateInv
  <2>2. CASE d # c
    BY <2>2, <1>1, <1>2, <1>3, <1>5 DEF FateInv
  <2> QED BY <2>1, <2>2
<1>10. LeaderInv'
  <2>1. ASSUME NEW b \in App, NEW d \in Grouped(b)'
        PROVE  leader'[d] = LeaderOf(b)' /\ prompts'[leader'[d]]
    <3>1. CASE d = c
      <4>1. b = a
        BY <3>1, <2>1, <1>2 DEF Grouped
      <4>2. CASE Grouped(a) = {}
        BY <4>1, <4>2, <3>1, <1>2, <1>5, <1>7
      <4>3. CASE Grouped(a) # {}
        <5>1. LeaderOf(a) \in Grouped(a) /\ LeaderOf(a) \in Call /\ LeaderOf(a) # c
          BY <4>3, <1>2, <1>4 DEF Grouped
        <5>2. leader[LeaderOf(a)] = LeaderOf(a) /\ prompts[leader[LeaderOf(a)]]
          BY <5>1 DEF LeaderInv
        <5>3. prompts'[LeaderOf(a)] /\ leader'[c] = LeaderOf(a) /\ LeaderOf(a)' = LeaderOf(a)
          BY <5>1, <5>2, <4>3, <1>2, <1>5, <1>6
        <5> QED BY <5>3, <4>1, <3>1
      <4> QED BY <4>2, <4>3
    <3>2. CASE d # c
      <4>1. d \in Grouped(b) /\ d \in Call
        BY <3>2, <2>1, <1>2 DEF Grouped
      <4>2. leader[d] = LeaderOf(b) /\ prompts[leader[d]]
        BY <4>1 DEF LeaderInv
      <4>3. LeaderOf(b) \in Grouped(b)
        BY <4>1, GroupedIs DEF TInv
      <4>4. LeaderOf(b) \in Call /\ LeaderOf(b) # c
        BY <4>3, <1>2 DEF Grouped
      <4> QED BY <3>2, <4>1, <4>2, <4>4, <1>2, <1>5, <1>6
    <3> QED BY <3>1, <3>2
  <2>2. ASSUME NEW d \in Call, leader'[d] # None
        PROVE  pc'[leader'[d]] # "idle"
    <3>1. CASE d = c
      BY <3>1, <1>3, <1>5, <1>8 DEF Waiting
    <3>2. CASE d # c
      <4>1. leader[d] \in Call /\ pc[leader[d]] # "idle"
        BY <2>2, <3>2, <1>5 DEF LeaderInv, TInv, PortalTypeOK
      <4> QED BY <4>1, <3>2, <1>3, <1>5
    <3> QED BY <3>1, <3>2
  <2> QED BY <2>1, <2>2 DEF LeaderInv
<1> QED BY <1>9, <1>10

\* The router takes a group, or nobody.
LEMMA FateTaken ==
  ASSUME FInv, RouterTake
  PROVE  FateInv' /\ LeaderInv'
<1> USE DEF FInv
<1>1. UNCHANGED <<pc, handleOf, appOf, prompts, response, reply, leader>>
  BY DEF RouterTake, callVars
<1>2. CASE registry' = registry /\ routing = NotRouting /\ routing' = NotRouting
  <2>1. /\ \A d \in Call : Registered(d)' <=> Registered(d)
        /\ \A a \in App : LeaderOf(a)' = LeaderOf(a)
    BY <1>2, ShedsNothing
  <2>2. FateInv'
    BY <1>1, <1>2, <2>1 DEF FateInv, Fate
  <2>3. LeaderInv'
    BY <1>1, <2>1 DEF LeaderInv, Grouped
  <2> QED BY <2>2, <2>3
<1>3. ASSUME routing = NotRouting, routing'.result \in Result, NEW a \in App,
             routing'.senders = Grouped(a), Sheds(Grouped(a))
      PROVE  FateInv' /\ LeaderInv'
  <2>1. routing.senders = {}
    BY <1>3 DEF NotRouting
  <2>2. \A d \in Call : Registered(d)' <=> Registered(d) /\ d \notin Grouped(a)
    BY <1>3 DEF Sheds
  <2>3. \A d \in Grouped(a) : d \in Call /\ Registered(d)
    BY DEF Grouped
  <2>4. \A d \in Call : Fate(d)' = IF d \in Grouped(a) THEN routing'.result ELSE Fate(d)
    BY <1>1, <1>3, <2>1 DEF Fate
  <2>5. routing'.result # Pending
    BY <1>3 DEF Result, Pending
  <2>6. FateInv'
    <3> SUFFICES ASSUME NEW d \in Call
                 PROVE  /\ pc[d] = "idle" =>
                             response[d] = Pending /\ d \notin routing'.senders /\ leader[d] = None
                        /\ pc[d] \in Waiting \cup {"unserve"} => leader[d] # None
                        /\ Registered(d)' \/ d \in routing'.senders => response[d] = Pending
                        /\ Registered(d)' => d \notin routing'.senders
                        /\ leader[d] # None <=> Registered(d)' \/ Fate(d)' # Pending
                        /\ reply[d] = None <=> pc[d] \in {"idle", "serve", "prompt", "wait"}
      BY <1>1 DEF FateInv
    <3>1. Registered(d) => pc[d] \in Waiting
      BY RegisteredEntry DEF TInv
    <3> QED BY <1>3, <2>2, <2>3, <2>4, <2>5, <3>1 DEF FateInv, Waiting
  <2>7. LeaderInv'
    <3>1. ASSUME NEW b \in App, NEW d \in Grouped(b)'
          PROVE  leader'[d] = LeaderOf(b)' /\ prompts'[leader'[d]]
      <4>1. d \in Call /\ Registered(d) /\ d \notin Grouped(a) /\ appOf[d] = b
        BY <3>1, <1>1, <2>2 DEF Grouped
      <4>2. leader[d] = LeaderOf(b) /\ prompts[leader[d]] /\ d \in Grouped(b) \ Grouped(a)
        BY <4>1 DEF LeaderInv, Grouped
      <4>3. LeaderOf(b)' = LeaderOf(b)
        BY <4>2, <1>3 DEF Sheds
      <4> QED BY <4>2, <4>3, <1>1
    <3> QED BY <3>1, <1>1 DEF LeaderInv
  <2> QED BY <2>6, <2>7
<1> QED BY <1>2, <1>3, RouterTakeSheds

\* The router hands an answer out.
LEMMA FateSent ==
  ASSUME FInv, NEW c \in Call, RouterSend(c)
  PROVE  /\ FateInv' /\ LeaderInv'
         /\ \A d \in Call : Fate(d)' = Fate(d)
<1> USE DEF FInv, TInv
<1>1. UNCHANGED <<pc, handleOf, appOf, prompts, reply, leader, registry>>
  BY DEF RouterSend
<1>2. c \in routing.senders /\ routing.result \in Result /\ routing.senders \subseteq Call
  BY DEF RouterSend, ObjectsHaveCalls, PortalTypeOK
<1>3. \A d \in Call : response'[d] = IF d = c THEN routing.result ELSE response[d]
  BY DEF RouterSend, PortalTypeOK
<1>4. /\ routing'.senders = routing.senders \ {c}
      /\ routing'.senders # {} => routing'.result = routing.result
  BY DEF RouterSend, PortalTypeOK, NotRouting
<1>5. /\ \A d \in Call : Registered(d)' <=> Registered(d)
      /\ \A a \in App : LeaderOf(a)' = LeaderOf(a)
  BY <1>1, ShedsNothing
<1>6. ASSUME NEW d \in Call
      PROVE  Fate(d)' = Fate(d)
  BY <1>2, <1>3, <1>4 DEF Fate
<1>7. FateInv'
  <2> SUFFICES ASSUME NEW d \in Call
               PROVE  /\ pc[d] = "idle" =>
                           response'[d] = Pending /\ d \notin routing'.senders /\ leader[d] = None
                      /\ pc[d] \in Waiting \cup {"unserve"} => leader[d] # None
                      /\ Registered(d) \/ d \in routing'.senders => response'[d] = Pending
                      /\ Registered(d) => d \notin routing'.senders
                      /\ leader[d] # None <=> Registered(d) \/ Fate(d) # Pending
                      /\ reply[d] = None <=> pc[d] \in {"idle", "serve", "prompt", "wait"}
    BY <1>1, <1>5, <1>6 DEF FateInv
  <2> QED BY <1>2, <1>3, <1>4 DEF FateInv
<1>8. LeaderInv'
  BY <1>1, <1>5 DEF LeaderInv, Grouped
<1> QED BY <1>6, <1>7, <1>8

\* A step that touches nothing of this.
LEMMA FateUnchanged ==
  ASSUME FateInv, LeaderInv, UNCHANGED <<pc, appOf, prompts, response, reply, leader, registry, routing>>
  PROVE  /\ FateInv' /\ LeaderInv'
         /\ \A d \in Call : Fate(d)' = Fate(d)
<1>1. /\ \A d \in Call : Registered(d)' <=> Registered(d)
      /\ \A a \in App : LeaderOf(a)' = LeaderOf(a)
  BY ShedsNothing
<1>2. FateInv' /\ \A d \in Call : Fate(d)' = Fate(d)
  BY <1>1 DEF FateInv, Fate
<1>3. LeaderInv'
  BY <1>1 DEF LeaderInv, Grouped
<1> QED BY <1>2, <1>3

\* What a call returns for its answer is a reply.
LEMMA AwaitedIsReply ==
  ASSUME NEW c
  PROVE  Awaited(c) \in Result \cup {"Cancelled"} /\ Awaited(c) # None
BY AbsenceAssumption DEF Awaited, Reply

\* A step of a NotifyBackground call.
LEMMA FateNotify ==
  ASSUME FInv, NEW c \in Call, Notify(c)
  PROVE  FateInv' /\ LeaderInv'
<1> USE DEF FInv, TInv
<1>1. \A r, d : d # c => [reply EXCEPT ![c] = r][d] = reply[d]
  BY DEF PortalTypeOK
<1>2. CASE Serve(c)
  BY <1>2, FateMoves DEF Serve, Goto, PC, Waiting, FateInv
<1>3. CASE SendPrompt(c)
  BY <1>3, FateMoves DEF SendPrompt, Goto, PC, Waiting, FateInv
<1>4. CASE Finish(c)
  <2>1. pc[c] = "unserve" /\ reply[c] # None
    BY <1>4 DEF Finish, Goto, FateInv
  <2> QED BY <1>4, <2>1, FateMoves DEF Finish, Goto, PC, Waiting
<1>5. CASE AwaitAnswer(c)
  <2>1. /\ pc[c] = "wait" /\ pc' = [pc EXCEPT ![c] = "cleanup"]
        /\ reply' = [reply EXCEPT ![c] = Awaited(c)]
        /\ UNCHANGED <<registry, response, leader, prompts, routing, appOf>>
    BY <1>5 DEF AwaitAnswer, Goto, Return
  <2>2. reply'[c] # None /\ \A d \in Call : d # c => reply'[d] = reply[d]
    BY <2>1, AwaitedIsReply DEF PortalTypeOK
  <2> QED BY <2>1, <2>2, FateMoves DEF PC, Waiting
<1>6. CASE ServeFails(c) \/ PromptFails(c)
  <2>1. PICK to \in {"unserve", "done"} :
          /\ pc[c] \in Waiting /\ pc' = [pc EXCEPT ![c] = to]
          /\ Unregister(c) /\ reply' = [reply EXCEPT ![c] = "Error"]
          /\ UNCHANGED <<appOf, leader, prompts, routing>>
    BY <1>6 DEF ServeFails, PromptFails, Goto, Return, Waiting
  <2>2. reply'[c] # None /\ \A d \in Call : d # c => reply'[d] = reply[d]
    BY <2>1, AbsenceAssumption DEF PortalTypeOK, Reply
  <2> QED BY <2>1, <2>2, FateUnregisters
<1>7. CASE Cleanup(c)
  <2>1. /\ pc[c] = "cleanup" /\ pc' = [pc EXCEPT ![c] = "unserve"]
        /\ Unregister(c)
        /\ UNCHANGED <<appOf, leader, prompts, routing, reply>>
    BY <1>7 DEF Cleanup, Goto
  <2>2. reply'[c] # None
    BY <2>1 DEF FateInv
  <2> QED BY <2>1, <2>2, FateUnregisters DEF Waiting
<1> QED BY <1>2, <1>3, <1>4, <1>5, <1>6, <1>7 DEF Notify

\* A request that ends before it is registered.
LEMMA FateRefused ==
  ASSUME FInv, NEW c \in Call, pc[c] = "idle", pc' = [pc EXCEPT ![c] = "done"],
         UNCHANGED <<registry, response, leader, prompts, routing>>,
         \A d \in Call : d # c => appOf'[d] = appOf[d],
         NEW r \in Reply, reply' = [reply EXCEPT ![c] = r]
  PROVE  FateInv' /\ LeaderInv'
<1> USE DEF FInv, TInv
<1>1. reply'[c] # None /\ \A d \in Call : d # c => reply'[d] = reply[d]
  BY AbsenceAssumption DEF PortalTypeOK
<1>2. ~Registered(c)
  BY RegisteredEntry DEF Waiting
<1>3. \A d \in Call : Registered(d) => appOf'[d] = appOf[d]
  BY <1>2
<1> QED BY <1>1, <1>3, FateMoves DEF PC, Waiting

\* Every step keeps the fate of every request accounted for.
LEMMA NextFInv ==
  ASSUME HandleReuse # "any", FInv, [Next]_vars
  PROVE  FInv'
<1> USE DEF FInv
<1>1. TInv'
  BY NextTInv
<1>2. ASSUME NEW c \in Call, NEW r \in {"allow", "deny"}, AnswerFromConfig(c, r)
      PROVE  FateInv' /\ LeaderInv'
  <2>1. r \in Reply
    BY DEF Reply, Result
  <2> QED BY <1>2, <2>1, FateRefused DEF AnswerFromConfig, Goto, Return
<1>3. ASSUME NEW c \in Call, NEW h \in Handle, NEW a \in App, BeginNotify(c, h, a)
      PROVE  FateInv' /\ LeaderInv'
  <2>1. /\ handleOf' = [handleOf EXCEPT ![c] = h]
        /\ appOf' = [appOf EXCEPT ![c] = a]
        /\ UNCHANGED <<response, routing>>
    BY <1>3 DEF BeginNotify
  <2>2. CASE ReserveHandle(c, h, a)
    BY <1>1, <2>1, <2>2, FateReserves
  <2>3. CASE RefuseDuplicate(c, h)
    <3>1. \A d \in Call : d # c => appOf'[d] = appOf[d]
      BY <2>1 DEF TInv, IInv, CallTypeOK
    <3>2. "DuplicateHandle" \in Reply
      BY DEF Reply
    <3> QED BY <2>1, <2>3, <3>1, <3>2, FateRefused DEF RefuseDuplicate, Goto, Return
  <2> QED BY <1>3, <2>2, <2>3 DEF BeginNotify
<1>4. ASSUME NEW c \in Call, Notify(c)
      PROVE  FateInv' /\ LeaderInv'
  BY <1>4, FateNotify
<1>5. CASE \E k \in Close : CloseRequest(k) \/ \E h \in Handle : BeginClose(k, h)
  <2>1. UNCHANGED <<pc, appOf, prompts, response, reply, leader, registry, routing>>
    BY <1>5 DEF CloseRequest, BeginClose, CloseCancel, CloseWithdraw, CloseRemove, callVars
  <2> QED BY <1>1, <2>1, FateUnchanged
<1>6. CASE Router
  BY <1>1, <1>6, FateTaken, FateSent DEF Router
<1>7. CASE UIStep \/ UNCHANGED vars
  <2>1. UNCHANGED <<pc, appOf, prompts, response, reply, leader, registry, routing>>
    BY <1>7 DEF UIStep, vars, portalVars, callVars
  <2> QED BY <1>1, <2>1, FateUnchanged
<1> QED BY <1>1, <1>2, <1>3, <1>4, <1>5, <1>6, <1>7 DEF Next, BackgroundStep, Rest

\* At the start nobody has called.
LEMMA InitFInv == Init => FInv
<1> SUFFICES ASSUME Init PROVE FInv
  OBVIOUS
<1>1. TInv
  BY InitTInv
<1>2. \A d \in Call : ~Registered(d)
  BY DEF Init, EmptyRegistry, Registered
<1>3. FateInv
  BY <1>2 DEF Init, FateInv, Fate, NotRouting, Waiting
<1>4. LeaderInv
  BY <1>2 DEF Init, LeaderInv, Grouped
<1> QED BY <1>1, <1>3, <1>4 DEF FInv

-----------------------------------------------------------------------------
(***************************************************************************)
(* The portal implements BackgroundConsent, step by step.                  *)
(***************************************************************************)

\* What the portal puts for the variables of BackgroundConsent.
Question ==
  [a \in App |->
    IF registry.appHandles[a] = None THEN None
    ELSE [asker   |-> registry.byHandle[registry.appHandles[a].primary].call,
          members |-> SendersOfApp(registry, a)]]
Decision ==
  [c \in Call |->
    IF c \in routing.senders THEN routing.result
    ELSE IF response[c] = Pending THEN None ELSE response[c]]

\* The same in terms of groups and fates.
QuestionOf(a) ==
  IF Grouped(a) = {} THEN None ELSE [asker |-> LeaderOf(a), members |-> Grouped(a)]
DecisionOf(c) == IF Fate(c) = Pending THEN None ELSE Fate(c)

AbstractState ==
  /\ Question = [a \in App |-> QuestionOf(a)]
  /\ Decision = [c \in Call |-> DecisionOf(c)]

\* The mapping, read in terms of groups and fates.
LEMMA AbstractStateIs == FInv => AbstractState
<1> SUFFICES ASSUME FInv PROVE AbstractState
  OBVIOUS
<1> USE DEF FInv, TInv
<1>1. ASSUME NEW a \in App
      PROVE  Question[a] = QuestionOf(a)
  BY GroupedIs DEF Question, QuestionOf
<1>2. ASSUME NEW c \in Call
      PROVE  Decision[c] = DecisionOf(c)
  <2>1. CASE c \in routing.senders
    <3>1. routing.result # Pending
      BY <2>1 DEF ObjectsHaveCalls, Result, Pending
    <3> QED BY <2>1, <3>1 DEF Decision, DecisionOf, Fate
  <2>2. CASE c \notin routing.senders
    BY <2>2 DEF Decision, DecisionOf, Fate
  <2> QED BY <2>1, <2>2
<1> QED BY <1>1, <1>2 DEF AbstractState, Question, Decision

\* The same after a step.
LEMMA AbstractStateNext == FInv' => AbstractState'
BY AbstractStateIs, PTL

\* What BackgroundConsent reads of the mapped state.
LEMMA ConsentReads ==
  ASSUME FInv
  PROVE  /\ \A a \in App : /\ Question[a] = QuestionOf(a)
                           /\ Question[a] = None <=> Grouped(a) = {}
                           /\ Consent!MembersOf(a) = Grouped(a)
         /\ \A c \in Call : /\ Decision[c] = DecisionOf(c)
                            /\ Consent!Asking(c) <=> Registered(c)
<1> USE DEF FInv, TInv
<1>1. ASSUME NEW a \in App
      PROVE  /\ Question[a] = QuestionOf(a)
             /\ Question[a] = None <=> Grouped(a) = {}
             /\ Consent!MembersOf(a) = Grouped(a)
  <2>1. Question[a] = QuestionOf(a)
    BY AbstractStateIs DEF AbstractState
  <2>2. Grouped(a) # {} => LeaderOf(a) \in Call /\ Grouped(a) \subseteq Call
    BY GroupedIs DEF Grouped
  <2>3. Grouped(a) # {} =>
          [asker |-> LeaderOf(a), members |-> Grouped(a)] \in [asker : Call, members : SUBSET Call]
    BY <2>2
  <2>4. Question[a] = None <=> Grouped(a) = {}
    BY <2>1, <2>3, AbsenceAssumption DEF QuestionOf
  <2>5. Consent!MembersOf(a) = IF Question[a] = None THEN {} ELSE Question[a].members
    BY DEF Consent!MembersOf, Question
  <2> QED BY <2>1, <2>4, <2>5 DEF QuestionOf
<1>2. ASSUME NEW c \in Call
      PROVE  Consent!Asking(c) <=> Registered(c)
  <2>1. Consent!Asking(c) <=> \E a \in App : c \in Grouped(a)
    BY <1>1 DEF Consent!Asking
  <2>2. Registered(c) => appOf[c] \in App
    BY RegisteredEntry
  <2> QED BY <2>1, <2>2 DEF Grouped
<1>3. \A c \in Call : Decision[c] = DecisionOf(c)
  BY AbstractStateIs DEF AbstractState
<1> QED BY <1>1, <1>2, <1>3

\* A step that keeps groups and fates keeps the abstract state.
LEMMA AbstractUnchanged ==
  ASSUME FInv, FInv',
         \A a \in App : /\ Grouped(a)' = Grouped(a)
                        /\ Grouped(a) # {} => LeaderOf(a)' = LeaderOf(a),
         \A c \in Call : Fate(c)' = Fate(c)
  PROVE  UNCHANGED <<Question, Decision>>
<1>1. AbstractState /\ AbstractState'
  BY AbstractStateIs, AbstractStateNext
<1>2. \A a \in App : QuestionOf(a)' = QuestionOf(a)
  BY DEF QuestionOf
<1>3. \A c \in Call : DecisionOf(c)' = DecisionOf(c)
  BY DEF DecisionOf
<1> QED BY <1>1, <1>2, <1>3 DEF AbstractState

\* A step that keeps the registry, the router and the receivers does.
LEMMA AbstractSame ==
  ASSUME FInv, FInv', UNCHANGED <<registry, response, routing>>,
         \A d \in Call : Registered(d) => appOf'[d] = appOf[d]
  PROVE  UNCHANGED <<Question, Decision>>
<1>1. /\ \A d \in Call : Registered(d)' <=> Registered(d)
      /\ \A a \in App : LeaderOf(a)' = LeaderOf(a)
  BY ShedsNothing
<1>2. \A a \in App : Grouped(a)' = Grouped(a)
  <2> TAKE a \in App
  <2>1. \A d \in Call : (Registered(d)' /\ appOf'[d] = a) <=> (Registered(d) /\ appOf[d] = a)
    BY <1>1
  <2> QED BY <2>1 DEF Grouped
<1>3. \A c \in Call : Fate(c)' = Fate(c)
  BY DEF Fate
<1> QED BY <1>1, <1>2, <1>3, AbstractUnchanged

ConsentStep == Consent!Next \/ UNCHANGED Consent!consentVars

\* A step that keeps the abstract state is a stutter.
LEMMA ConsentStutters ==
  ASSUME UNCHANGED <<Question, Decision, reply>>
  PROVE  ConsentStep
BY DEF ConsentStep, Consent!consentVars, Question, Decision

\* A request that leaves the registry leaves its question.
LEMMA ConsentLeaves ==
  ASSUME FInv, FInv', NEW c \in Call, pc[c] \in Waiting, Unregister(c),
         UNCHANGED <<appOf, routing>>,
         \/ reply[c] # None /\ UNCHANGED reply
         \/ reply[c] = None /\ reply' = [reply EXCEPT ![c] = "Error"]
  PROVE  ConsentStep
<1> USE DEF FInv, TInv
<1> DEFINE S == ShedBy(c)
<1>0. PICK a \in App : a = appOf[c]
  BY DEF IInv, CallsHaveParameters
<1>1. /\ Sheds(S)
      /\ response' = [d \in Call |-> IF d \in S THEN Dropped ELSE response[d]]
      /\ \A d \in S : Registered(d) /\ d \in Call
  BY UnregisterSheds
<1>2. \A d \in Call : Fate(d)' = IF d \in S THEN Dropped ELSE Fate(d)
  <2>1. \A d \in S : d \notin routing.senders
    BY <1>1 DEF FateInv
  <2> QED BY <1>1, <2>1 DEF Fate
<1>3. \A b \in App : Grouped(b)' = Grouped(b) \ S
  BY <1>1 DEF Sheds, Grouped
<1>4. CASE ~Registered(c)
  <2>1. S = {}
    BY <1>4 DEF ShedBy
  <2>2. UNCHANGED <<Question, Decision>>
    BY <1>1, <1>2, <1>3, <2>1, AbstractUnchanged DEF Sheds
  <2>3. Decision[c] # None
    <3>1. Fate(c) # Pending /\ Fate(c) \in Reply \cup {Pending, Dropped}
      BY <1>4 DEF FateInv, Fate, ObjectsHaveCalls, PortalTypeOK, Reply
    <3> QED BY <3>1, ConsentReads, AbsenceAssumption DEF DecisionOf
  <2>4. CASE UNCHANGED reply
    BY <2>2, <2>4, ConsentStutters
  <2>5. CASE reply[c] = None /\ reply' = [reply EXCEPT ![c] = "Error"]
    <3>1. Consent!Fail(c)
      BY <2>2, <2>3, <2>5 DEF Consent!Fail, Question, Decision
    <3> QED BY <3>1 DEF ConsentStep, Consent!Next
  <2> QED BY <2>4, <2>5
<1>5. CASE Registered(c)
  <2>1. /\ a \in App /\ c \in Grouped(a) /\ LeaderOf(a) = leader[c]
        /\ leader[c] \in Grouped(a)
    BY <1>0, <1>5, LeaderFacts DEF Grouped
  <2>2. Question[a] = [asker |-> LeaderOf(a), members |-> Grouped(a)] /\ Question[a] # None
    BY <2>1, ConsentReads DEF QuestionOf
  <2>3. AbstractState /\ AbstractState'
    BY AbstractStateIs, AbstractStateNext
  <2>4. S \subseteq Grouped(a)
    BY <1>0, <1>5, <2>1, FollowersAreGrouped DEF ShedBy
  <2>5. \A b \in App : b # a => QuestionOf(b)' = QuestionOf(b)
    <3> TAKE b \in App
    <3> HAVE b # a
    <3>1. Grouped(b) \ S = Grouped(b)
      BY <2>4 DEF Grouped
    <3> QED BY <1>1, <1>3, <3>1 DEF QuestionOf, Sheds
  <2>6. Decision' = [d \in Call |-> IF d \in S THEN Dropped ELSE Decision[d]]
    <3>1. \A d \in Call : DecisionOf(d)' = IF d \in S THEN Dropped ELSE DecisionOf(d)
      BY <1>2 DEF DecisionOf, Dropped, Pending
    <3> QED BY <2>3, <3>1 DEF AbstractState
  <2>7. CASE leader[c] = c
    <3>1. S = Grouped(a)
      BY <1>0, <1>5, <2>7, FollowersAreGrouped DEF ShedBy
    <3>2. QuestionOf(a)' = None
      BY <1>3, <2>1, <3>1 DEF QuestionOf
    <3>3. Question' = [Question EXCEPT ![a] = None]
      BY <2>3, <2>5, <3>2 DEF AbstractState
    <3>4. Consent!DecideFor(Consent!MembersOf(a), Dropped)
      BY <2>1, <2>6, <3>1, ConsentReads DEF Consent!DecideFor, Decision
    <3>5. Consent!Leave(c, a)
      <4>1. c \in Consent!MembersOf(a)
        BY <2>1, ConsentReads
      <4>2. Question[a].asker = c
        BY <2>1, <2>2, <2>7
      <4> QED BY <3>3, <3>4, <4>1, <4>2 DEF Consent!Leave, Question, Consent!TurnedAway, Dropped
    <3> QED BY <2>1, <3>5 DEF ConsentStep, Consent!Next
  <2>8. CASE leader[c] # c
    <3>1. S = {c}
      BY <1>5, <2>8 DEF ShedBy
    <3>2. Grouped(a) \ {c} # {}
      BY <2>1, <2>8
    <3>3. QuestionOf(a)' = [asker |-> LeaderOf(a), members |-> Grouped(a) \ {c}]
      BY <1>1, <1>3, <2>1, <3>1, <3>2 DEF QuestionOf, Sheds
    <3>4. Question' = [Question EXCEPT ![a].members = @ \ {c}]
      <4>1. [Question[a] EXCEPT !.members = @ \ {c}]
              = [asker |-> LeaderOf(a), members |-> Grouped(a) \ {c}]
        BY <2>2
      <4>2. Question = [b \in App |-> QuestionOf(b)] /\ Question' = [b \in App |-> QuestionOf(b)']
        BY <2>3 DEF AbstractState
      <4>3. \A b \in App : Question'[b] = IF b = a THEN [Question[a] EXCEPT !.members = @ \ {c}]
                                                   ELSE Question[b]
        BY <2>5, <3>3, <4>1, <4>2
      <4> QED BY <4>2, <4>3
    <3>5. Consent!DecideFor({c}, Dropped)
      BY <2>6, <3>1 DEF Consent!DecideFor, Decision
    <3>6. Consent!Leave(c, a)
      <4>1. c \in Consent!MembersOf(a)
        BY <2>1, ConsentReads
      <4>2. Question[a].asker # c
        BY <2>1, <2>2, <2>8
      <4> QED BY <3>4, <3>5, <4>1, <4>2 DEF Consent!Leave, Question, Consent!TurnedAway, Dropped
    <3> QED BY <2>1, <3>6 DEF ConsentStep, Consent!Next
  <2> QED BY <2>7, <2>8
<1> QED BY <1>4, <1>5

\* A request that is reserved asks, or joins the question that is open.
LEMMA ConsentAsks ==
  ASSUME FInv, FInv', NEW c \in Call, NEW h \in Handle, NEW a \in App, ReserveHandle(c, h, a),
         handleOf' = [handleOf EXCEPT ![c] = h],
         appOf' = [appOf EXCEPT ![c] = a],
         UNCHANGED <<response, routing>>
  PROVE  ConsentStep
<1>1. pc[c] = "idle" /\ UNCHANGED reply
  BY DEF ReserveHandle, Goto
<1>2. /\ ~Registered(c)
      /\ \A b \in App : Grouped(b)' = IF b = a THEN Grouped(b) \cup {c} ELSE Grouped(b)
      /\ \A b \in App : Grouped(b) # {} => LeaderOf(b)' = LeaderOf(b)
      /\ Grouped(a) = {} => LeaderOf(a)' = c
  BY <1>1, ReserveEffect DEF FInv
<1>3. AbstractState /\ AbstractState'
  BY AbstractStateIs, AbstractStateNext
<1>4. UNCHANGED Decision
  BY DEF Decision
<1>5. reply[c] = None /\ Decision[c] = None /\ ~Consent!Asking(c)
  <2>1. Fate(c) = Pending /\ reply[c] = None
    BY <1>1 DEF FInv, FateInv, Fate
  <2> QED BY <1>2, <2>1, ConsentReads DEF DecisionOf
<1> DEFINE joined == [asker   |-> IF Question[a] = None THEN c ELSE Question[a].asker,
                      members |-> Consent!MembersOf(a) \cup {c}]
<1>6. QuestionOf(a)' = joined
  <2>1. /\ Question[a] = QuestionOf(a) /\ (Question[a] = None <=> Grouped(a) = {})
        /\ Consent!MembersOf(a) = Grouped(a)
    BY ConsentReads
  <2>2. CASE Grouped(a) = {}
    BY <1>2, <2>1, <2>2 DEF QuestionOf
  <2>3. CASE Grouped(a) # {}
    BY <1>2, <2>1, <2>3 DEF QuestionOf
  <2> QED BY <2>2, <2>3
<1>7. Question' = [Question EXCEPT ![a] = joined]
  <2>1. \A b \in App : b # a => QuestionOf(b)' = QuestionOf(b)
    BY <1>2 DEF QuestionOf
  <2>2. Question = [b \in App |-> QuestionOf(b)] /\ Question' = [b \in App |-> QuestionOf(b)']
    BY <1>3 DEF AbstractState
  <2> HIDE DEF joined
  <2> QED BY <1>6, <2>1, <2>2
<1>8. Question' = [Question EXCEPT ![a] =
        [asker |-> IF @ = None THEN c ELSE @.asker, members |-> Consent!MembersOf(a) \cup {c}]]
  BY <1>7
<1>9. Consent!Ask(c, a)
  BY <1>1, <1>4, <1>5, <1>8 DEF Consent!Ask, Question, Decision
<1> QED BY <1>9 DEF ConsentStep, Consent!Next

\* A request that is answered by the configuration, or whose handle is taken.
LEMMA ConsentRefuses ==
  ASSUME FInv, FInv', NEW c \in Call, pc[c] = "idle",
         NEW r \in Result \cup {"DuplicateHandle"}, reply' = [reply EXCEPT ![c] = r],
         UNCHANGED <<registry, response, routing>>,
         \A d \in Call : d # c => appOf'[d] = appOf[d]
  PROVE  ConsentStep
<1>1. ~Registered(c) /\ Fate(c) = Pending /\ reply[c] = None
  BY RegisteredEntry DEF FInv, TInv, FateInv, Fate, Waiting
<1>2. UNCHANGED <<Question, Decision>>
  <2>1. \A d \in Call : Registered(d) => appOf'[d] = appOf[d]
    BY <1>1
  <2> QED BY <2>1, AbstractSame
<1>3. Decision[c] = None /\ ~Consent!Asking(c)
  BY <1>1, ConsentReads DEF DecisionOf
<1>4. Consent!Refuse(c, r)
  BY <1>1, <1>2, <1>3 DEF Consent!Refuse, Question, Decision
<1> QED BY <1>4 DEF ConsentStep, Consent!Next

\* A request that has its answer returns it; one that has none gives up.
LEMMA ConsentAnswers ==
  ASSUME FInv, FInv', NEW c \in Call, AwaitAnswer(c)
  PROVE  ConsentStep
<1>1. /\ pc[c] = "wait" /\ reply' = [reply EXCEPT ![c] = Awaited(c)]
      /\ UNCHANGED <<registry, response, routing, appOf>>
  BY DEF AwaitAnswer, Goto, Return
<1>2. UNCHANGED <<Question, Decision>>
  BY <1>1, AbstractSame
<1>3. reply[c] = None
  BY <1>1 DEF FInv, FateInv
<1>4. CASE response[c] \in Result
  <2>1. Fate(c) = response[c] /\ response[c] # Pending
    BY <1>4 DEF FInv, FateInv, Fate, Result, Pending
  <2>2. Decision[c] = response[c] /\ Awaited(c) = response[c]
    BY <1>4, <2>1, ConsentReads DEF DecisionOf, Awaited
  <2>3. Consent!Answer(c)
    BY <1>1, <1>2, <1>3, <1>4, <2>2 DEF Consent!Answer, Question, Decision
  <2> QED BY <2>3 DEF ConsentStep, Consent!Next
<1>5. CASE response[c] \notin Result
  <2>1. Awaited(c) = "Cancelled"
    BY <1>5 DEF Awaited
  <2>2. Registered(c) \/ Fate(c) # Pending
    BY <1>1 DEF FInv, FateInv, Waiting
  <2>3. Fate(c) \in Result \cup {Pending, Dropped}
    BY DEF Fate, FInv, TInv, ObjectsHaveCalls, PortalTypeOK
  <2>4. Consent!Asking(c) \/ Decision[c] # None
    BY <2>2, <2>3, ConsentReads, AbsenceAssumption DEF DecisionOf, Reply
  <2>5. Consent!GiveUp(c)
    BY <1>1, <1>2, <1>3, <2>1, <2>4 DEF Consent!GiveUp, Question, Decision
  <2> QED BY <2>5 DEF ConsentStep, Consent!Next
<1> QED BY <1>4, <1>5

\* The router takes the group of an answer: its question is decided.
LEMMA ConsentDecides ==
  ASSUME FInv, FInv', RouterTake
  PROVE  ConsentStep
<1>1. UNCHANGED <<appOf, response, reply>>
  BY DEF RouterTake, callVars
<1>2. CASE registry' = registry /\ routing = NotRouting /\ routing' = NotRouting
  BY <1>1, <1>2, AbstractSame, ConsentStutters
<1>3. ASSUME routing = NotRouting, routing'.result \in Result, NEW a \in App,
             routing'.senders = Grouped(a), Grouped(a) # {}, Sheds(Grouped(a))
      PROVE  ConsentStep
  <2> DEFINE S == Grouped(a)
             r == routing'.result
  <2>1. routing.senders = {}
    BY <1>3 DEF NotRouting
  <2>2. \A d \in Call : Fate(d)' = IF d \in S THEN r ELSE Fate(d)
    BY <1>1, <1>3, <2>1 DEF Fate
  <2>3. r \in Result /\ r # Pending
    BY <1>3 DEF Result, Pending
  <2>4. AbstractState /\ AbstractState'
    BY AbstractStateIs, AbstractStateNext
  <2>5. Decision' = [d \in Call |-> IF d \in S THEN r ELSE Decision[d]]
    <3> HIDE DEF r
    <3>1. \A d \in Call : DecisionOf(d)' = IF d \in S THEN r ELSE DecisionOf(d)
      BY <2>2, <2>3 DEF DecisionOf
    <3> QED BY <2>4, <3>1 DEF AbstractState
  <2>6. \A b \in App : Grouped(b)' = Grouped(b) \ S
    BY <1>1, <1>3 DEF Sheds, Grouped
  <2>7. \A b \in App : b # a => Grouped(b) \ S = Grouped(b)
    BY DEF Grouped
  <2>8. QuestionOf(a)' = None /\ \A b \in App : b # a => QuestionOf(b)' = QuestionOf(b)
    <3>1. Grouped(a)' = {}
      BY <2>6
    <3>2. \A b \in App : b # a => Grouped(b)' = Grouped(b)
      BY <2>6, <2>7
    <3>3. \A b \in App : b # a /\ Grouped(b) # {} => LeaderOf(b)' = LeaderOf(b)
      BY <1>3, <2>7 DEF Sheds
    <3> QED BY <3>1, <3>2, <3>3 DEF QuestionOf
  <2>9. Question' = [Question EXCEPT ![a] = None]
    BY <2>4, <2>8 DEF AbstractState
  <2>10. PICK s \in Result : s = r
    BY <2>3
  <2>11. Consent!DecideFor(Consent!MembersOf(a), s)
    BY <2>5, <2>10, ConsentReads DEF Consent!DecideFor, Decision
  <2>12. Question[a] # None
    BY <1>3, ConsentReads
  <2>13. Consent!Decide(a, s)
    BY <1>1, <2>9, <2>11, <2>12 DEF Consent!Decide, Question
  <2> QED BY <2>13 DEF ConsentStep, Consent!Next
<1> QED BY <1>2, <1>3, RouterTakeSheds DEF FInv

\* Handing an answer out decides nothing.
LEMMA ConsentSends ==
  ASSUME FInv, FInv', NEW c \in Call, RouterSend(c)
  PROVE  ConsentStep
<1>1. UNCHANGED <<registry, appOf, reply>>
  BY DEF RouterSend
<1>2. \A a \in App : Grouped(a)' = Grouped(a) /\ LeaderOf(a)' = LeaderOf(a)
  BY <1>1, ShedsNothing DEF Grouped
<1>3. \A d \in Call : Fate(d)' = Fate(d)
  BY FateSent
<1>4. UNCHANGED <<Question, Decision>>
  BY <1>2, <1>3, AbstractUnchanged
<1> QED BY <1>1, <1>4, ConsentStutters

\* Every step of the portal is a step of BackgroundConsent or a stutter.
LEMMA NextConsent ==
  ASSUME FInv, FInv', [Next]_vars
  PROVE  ConsentStep
<1>1. ASSUME UNCHANGED <<registry, response, routing, appOf, reply>>
      PROVE  ConsentStep
  BY <1>1, AbstractSame, ConsentStutters
<1>2. ASSUME NEW c \in Call, NEW r \in {"allow", "deny"}, AnswerFromConfig(c, r)
      PROVE  ConsentStep
  <2>1. r \in Result \cup {"DuplicateHandle"}
    BY DEF Result
  <2> QED BY <1>2, <2>1, ConsentRefuses DEF AnswerFromConfig, Goto, Return
<1>3. ASSUME NEW c \in Call, NEW h \in Handle, NEW a \in App, BeginNotify(c, h, a)
      PROVE  ConsentStep
  <2>1. /\ handleOf' = [handleOf EXCEPT ![c] = h]
        /\ appOf' = [appOf EXCEPT ![c] = a]
        /\ UNCHANGED <<response, routing>>
    BY <1>3 DEF BeginNotify
  <2>2. CASE ReserveHandle(c, h, a)
    BY <2>1, <2>2, ConsentAsks
  <2>3. CASE RefuseDuplicate(c, h)
    <3>1. \A d \in Call : d # c => appOf'[d] = appOf[d]
      BY <2>1 DEF FInv, TInv, IInv, CallTypeOK
    <3> QED BY <2>1, <2>3, <3>1, ConsentRefuses DEF RefuseDuplicate, Goto, Return
  <2> QED BY <1>3, <2>2, <2>3 DEF BeginNotify
<1>4. ASSUME NEW c \in Call, Notify(c)
      PROVE  ConsentStep
  <2>1. CASE Serve(c) \/ SendPrompt(c) \/ Finish(c)
    BY <1>1, <2>1 DEF Serve, SendPrompt, Finish
  <2>2. CASE ServeFails(c) \/ PromptFails(c)
    <3>1. /\ pc[c] \in {"serve", "prompt"} /\ Unregister(c)
          /\ reply' = [reply EXCEPT ![c] = "Error"]
          /\ UNCHANGED <<appOf, routing>>
      BY <2>2 DEF ServeFails, PromptFails, Goto, Return
    <3>2. reply[c] = None /\ pc[c] \in Waiting
      BY <3>1 DEF FInv, FateInv, Waiting
    <3> QED BY <3>1, <3>2, ConsentLeaves
  <2>3. CASE AwaitAnswer(c)
    BY <2>3, ConsentAnswers
  <2>4. CASE Cleanup(c)
    <3>1. pc[c] = "cleanup" /\ Unregister(c) /\ UNCHANGED <<appOf, routing, reply>>
      BY <2>4 DEF Cleanup, Goto
    <3>2. reply[c] # None /\ pc[c] \in Waiting
      BY <3>1 DEF FInv, FateInv, Waiting
    <3> QED BY <3>1, <3>2, ConsentLeaves
  <2> QED BY <1>4, <2>1, <2>2, <2>3, <2>4 DEF Notify
<1>5. CASE \E k \in Close : CloseRequest(k) \/ \E h \in Handle : BeginClose(k, h)
  BY <1>1, <1>5 DEF CloseRequest, BeginClose, CloseCancel, CloseWithdraw, CloseRemove, callVars
<1>6. CASE Router
  BY <1>6, ConsentDecides, ConsentSends DEF Router
<1>7. CASE UIStep \/ UNCHANGED vars
  BY <1>1, <1>7 DEF UIStep, vars, portalVars, callVars
<1> QED BY <1>2, <1>3, <1>4, <1>5, <1>6, <1>7 DEF Next, BackgroundStep, Rest

\* NotifyBackground keeps what BackgroundConsent promises: for every number of
\* calls, handles and applications, in every interleaving with Close, the dialog
\* and the router, and whatever fails, each application is asked one question at a
\* time, and a decision reaches exactly the requests that had joined it.
THEOREM PortalImplementsConsent ==
  ASSUME HandleReuse # "any"
  PROVE  Spec => ImplementsConsent
<1>1. Init => FInv
  BY InitFInv
<1>2. FInv /\ [Next]_vars => FInv'
  BY NextFInv
<1>3. Init => Consent!Init
  <2> SUFFICES ASSUME Init PROVE Consent!Init
    OBVIOUS
  <2>1. Question = [a \in App |-> None] /\ Decision = [c \in Call |-> None]
    BY DEF Init, Question, Decision, EmptyRegistry, NotRouting
  <2>2. reply = [c \in Call |-> None]
    BY DEF Init
  <2> QED BY <2>1, <2>2 DEF Consent!Init, Question, Decision
<1>4. FInv /\ FInv' /\ [Next]_vars => [Consent!Next]_Consent!consentVars
  BY NextConsent DEF ConsentStep
<1> QED BY <1>1, <1>2, <1>3, <1>4, PTL DEF Spec, ImplementsConsent, Consent!Spec

-----------------------------------------------------------------------------
(***************************************************************************)
(* Nothing leaks, whatever callers do with handles.  RegistryConsistent is *)
(* lost when a handle is used by two open requests, but not the ownership  *)
(* of what it holds: every entry, every member of a group and every        *)
(* Request object has an open call, with its handle, that will remove it.  *)
(***************************************************************************)
Owns(c, h, a) == pc[c] \in Waiting /\ handleOf[c] = h /\ appOf[c] = a

OwnedInv ==
  /\ \A h \in Handle : registry.byHandle[h] # None =>
       \E a \in App : Owns(registry.byHandle[h].call, h, a)
  /\ \A a \in App : \A h \in Members(registry.appHandles[a]) : \E c \in Call : Owns(c, h, a)

ServedInv ==
  \A h \in Handle : served[h] # None =>
    handleOf[served[h]] = h /\ pc[served[h]] \in {"prompt", "wait", "cleanup", "unserve"}

OInv ==
  /\ CallTypeOK
  /\ CallsHaveParameters
  /\ OwnedInv
  /\ served \in [Handle -> Call \cup {None}]
  /\ ServedInv

\* What a method that only removes leaves in the registry.
Shrinks ==
  /\ registry' \in Registry
  /\ \A k \in Handle : registry'.byHandle[k] \in {registry.byHandle[k], None}
  /\ \A b \in App : Members(registry'.appHandles[b]) \subseteq Members(registry.appHandles[b])

\* remove_app only removes.
LEMMA RemoveAppShrinks ==
  ASSUME registry \in Registry, NEW a \in App, registry' = RemoveApp(registry, a)
  PROVE  /\ Shrinks
         /\ Members(registry'.appHandles[a]) = {}
         /\ \A k \in Members(registry.appHandles[a]) : k \in Handle => registry'.byHandle[k] = None
<1>1. /\ registry'.byHandle = Forget(registry, Members(registry.appHandles[a]))
      /\ registry'.appHandles = [registry.appHandles EXCEPT ![a] = None]
      /\ registry' = [byHandle |-> registry'.byHandle, appHandles |-> registry'.appHandles]
  BY DEF RemoveApp
<1>2. \A k \in Handle : registry'.byHandle[k] =
        IF k \in Members(registry.appHandles[a]) THEN None ELSE registry.byHandle[k]
  BY <1>1 DEF Forget
<1>3. \A b \in App : registry'.appHandles[b] = IF b = a THEN None ELSE registry.appHandles[b]
  BY <1>1 DEF Registry
<1>4. registry' \in Registry
  BY <1>1 DEF Registry, Forget
<1> QED BY <1>2, <1>3, <1>4 DEF Shrinks, Members

\* remove_request only removes, and at least what its call owns.
LEMMA UnregisterShrinks ==
  ASSUME registry \in Registry, NEW c \in Call, handleOf[c] \in Handle, appOf[c] \in App,
         Unregister(c)
  PROVE  /\ Shrinks
         /\ registry'.byHandle[handleOf[c]] = None
         /\ handleOf[c] \notin Members(registry'.appHandles[appOf[c]])
<1> DEFINE h == handleOf[c]
           a == appOf[c]
           g == registry.appHandles[a]
<1>1. registry' = RemoveRequest(registry, h, a)
  BY DEF Unregister
<1>2. CASE IsPrimary(registry, h, a)
  <2>1. registry' = RemoveApp(registry, a) /\ h \in Members(g)
    BY <1>1, <1>2 DEF RemoveRequest, IsPrimary, Members
  <2> QED BY <2>1, RemoveAppShrinks
<1>3. CASE ~IsPrimary(registry, h, a)
  <2>1. registry' = [byHandle   |-> Forget(registry, {h}),
                     appHandles |-> [registry.appHandles EXCEPT ![a] = Left(g, h)]]
    BY <1>1, <1>3 DEF RemoveRequest
  <2>2. \A k \in Handle : registry'.byHandle[k] = IF k = h THEN None ELSE registry.byHandle[k]
    BY <2>1 DEF Forget
  <2>3. \A b \in App : registry'.appHandles[b] = IF b = a THEN Left(g, h) ELSE registry.appHandles[b]
    BY <2>1 DEF Registry
  <2>4. Left(g, h) \in Group \cup {None} /\ Members(Left(g, h)) = Members(g) \ {h}
    <3>1. CASE g = None
      BY <3>1 DEF Left, Members
    <3>2. CASE g # None
      <4>1. g \in Group /\ g.primary # h
        BY <3>2, <1>3 DEF Registry, IsPrimary
      <4>2. Left(g, h) = [primary |-> g.primary, followers |-> g.followers \ {h}]
        BY <3>2 DEF Left
      <4>3. Left(g, h) \in Group /\ Left(g, h) # None
        BY <4>1, <4>2, NoneAssumption DEF Group
      <4> QED BY <3>2, <4>1, <4>2, <4>3 DEF Members
    <3> QED BY <3>1, <3>2
  <2>5. registry' \in Registry
    <3>1. Forget(registry, {h}) \in [Handle -> Entry \cup {None}]
      BY DEF Forget, Registry
    <3>2. [registry.appHandles EXCEPT ![a] = Left(g, h)] \in [App -> Group \cup {None}]
      BY <2>4 DEF Registry
    <3> QED BY <2>1, <3>1, <3>2 DEF Registry
  <2> QED BY <2>2, <2>3, <2>4, <2>5 DEF Shrinks
<1> QED BY <1>2, <1>3

\* Where the calls of a step stand that removes entries: each still waits, or has
\* nothing left in the registry.
LEMMA OwnedShrinks ==
  ASSUME OInv, Shrinks, UNCHANGED <<handleOf, appOf>>,
         NEW c \in Call, \A d \in Call : d # c => pc'[d] = pc[d],
         \/ pc[c] \in Waiting => pc'[c] \in Waiting
         \/ /\ registry'.byHandle[handleOf[c]] = None
            /\ handleOf[c] \notin Members(registry'.appHandles[appOf[c]])
  PROVE  OwnedInv'
<1> USE DEF OInv
<1>1. \A d \in Call, h \in Handle, a \in App :
        Owns(d, h, a) /\ (d = c => pc'[c] \in Waiting) => Owns(d, h, a)'
  BY DEF Owns
<1>2. ASSUME NEW h \in Handle, registry'.byHandle[h] # None
      PROVE  \E a \in App : Owns(registry.byHandle[h].call, h, a)'
  <2>1. registry'.byHandle[h] = registry.byHandle[h] /\ registry.byHandle[h] \in Entry
    BY <1>2 DEF Shrinks, CallTypeOK, Registry
  <2>2. registry.byHandle[h].call \in Call
    BY <2>1 DEF Entry
  <2>3. PICK a \in App : Owns(registry.byHandle[h].call, h, a)
    BY <1>2, <2>1 DEF OwnedInv
  <2>4. registry.byHandle[h].call = c => pc'[c] \in Waiting
    BY <1>2, <2>3 DEF Owns
  <2>5. pc'[registry.byHandle[h].call] \in Waiting
    BY <2>2, <2>3, <2>4 DEF Owns
  <2>6. registry'.byHandle[h].call = registry.byHandle[h].call
    BY <2>1
  <2> QED BY <2>3, <2>5, <2>6 DEF Owns
<1>3. ASSUME NEW a \in App, NEW h \in Members(registry'.appHandles[a])
      PROVE  \E d \in Call : Owns(d, h, a)'
  <2>1. h \in Members(registry.appHandles[a])
    BY <1>3 DEF Shrinks
  <2>2. h \in Handle
    BY <2>1, MembersAreHandles DEF CallTypeOK, Registry
  <2>3. PICK d \in Call : Owns(d, h, a)
    BY <2>1 DEF OwnedInv
  <2>4. d = c => pc'[c] \in Waiting
    BY <1>3, <2>3 DEF Owns
  <2> QED BY <1>1, <2>2, <2>3, <2>4
<1> QED BY <1>2, <1>3 DEF OwnedInv, Owns, Shrinks

\* A registry that stays as it is.
LEMMA UnchangedShrinks ==
  ASSUME registry \in Registry, UNCHANGED registry
  PROVE  Shrinks
BY DEF Shrinks

\* A call moves on, and its Request object appears or goes.
LEMMA OwnedMoves ==
  ASSUME OInv, Shrinks, UNCHANGED <<handleOf, appOf>>,
         NEW c \in Call, NEW to \in PC, pc' = [pc EXCEPT ![c] = to],
         to \in Waiting \cup {"unserve"} => pc[c] \in Waiting \cup {"unserve"},
         \/ pc[c] \in Waiting => to \in Waiting
         \/ /\ registry'.byHandle[handleOf[c]] = None
            /\ handleOf[c] \notin Members(registry'.appHandles[appOf[c]]),
         served' \in [Handle -> Call \cup {None}],
         \A h \in Handle : served'[h] # None =>
           \/ served'[h] = served[h]
           \/ served'[h] = c /\ handleOf[c] = h,
         \A h \in Handle : served'[h] = c => to \in {"prompt", "wait", "cleanup", "unserve"}
  PROVE  OInv'
<1> USE DEF OInv
<1>1. \A d \in Call : pc'[d] = IF d = c THEN to ELSE pc[d]
  BY DEF CallTypeOK
<1>2. OwnedInv'
  BY <1>1, OwnedShrinks
<1>3. CallTypeOK'
  BY DEF CallTypeOK, Shrinks
<1>4. CallsHaveParameters'
  BY <1>1 DEF CallsHaveParameters
<1>5. ServedInv'
  <2> SUFFICES ASSUME NEW h \in Handle, served'[h] # None
               PROVE  /\ handleOf[served'[h]] = h
                      /\ pc'[served'[h]] \in {"prompt", "wait", "cleanup", "unserve"}
    BY DEF ServedInv
  <2>1. served'[h] \in Call
    OBVIOUS
  <2>2. CASE served'[h] = c
    BY <2>2, <1>1 DEF ServedInv
  <2>3. CASE served'[h] # c
    BY <2>1, <2>3, <1>1 DEF ServedInv
  <2> QED BY <2>2, <2>3
<1> QED BY <1>2, <1>3, <1>4, <1>5

\* Only Request objects go, or nothing of this changes.
LEMMA OwnedKeeps ==
  ASSUME OInv, Shrinks, UNCHANGED <<pc, handleOf, appOf>>,
         served' \in [Handle -> Call \cup {None}],
         \A h \in Handle : served'[h] \in {served[h], None}
  PROVE  OInv'
<1> USE DEF OInv
<1>1. OwnedInv'
  <2>1. CASE Call = {}
    <3>1. \A h \in Handle : registry.byHandle[h] = None
      BY <2>1 DEF CallTypeOK, Registry, Entry
    <3>2. \A a \in App : Members(registry.appHandles[a]) = {}
      BY <2>1 DEF OwnedInv
    <3> QED BY <3>1, <3>2 DEF Shrinks, OwnedInv
  <2>2. CASE Call # {}
    <3>1. PICK c \in Call : TRUE
      BY <2>2
    <3>2. pc[c] \in Waiting => pc'[c] \in Waiting
      OBVIOUS
    <3> QED BY <3>2, OwnedShrinks
  <2> QED BY <2>1, <2>2
<1>2. CallTypeOK' /\ CallsHaveParameters'
  BY DEF CallTypeOK, CallsHaveParameters, Shrinks
<1>3. ServedInv'
  BY DEF ServedInv
<1> QED BY <1>1, <1>2, <1>3


\* A new request, with whatever handle: it owns what it reserves.
LEMMA BeginOwns ==
  ASSUME OInv, NEW c \in Call, NEW h \in Handle, NEW a \in App, BeginNotify(c, h, a)
  PROVE  OInv'
<1> USE DEF OInv
<1>1. /\ pc[c] = "idle" /\ UNCHANGED served
      /\ handleOf' = [handleOf EXCEPT ![c] = h] /\ appOf' = [appOf EXCEPT ![c] = a]
  BY DEF BeginNotify, ReserveHandle, RefuseDuplicate, Goto
<1>2. PICK to \in {"serve", "done"} :
        /\ pc' = [pc EXCEPT ![c] = to]
        /\ \/ to = "serve" /\ ReserveHandle(c, h, a)
           \/ to = "done" /\ UNCHANGED registry
  BY DEF BeginNotify, ReserveHandle, RefuseDuplicate, Goto
<1>3. /\ \A d \in Call : pc'[d] = IF d = c THEN to ELSE pc[d]
      /\ \A d \in Call : handleOf'[d] = IF d = c THEN h ELSE handleOf[d]
      /\ \A d \in Call : appOf'[d] = IF d = c THEN a ELSE appOf[d]
      /\ pc' \in [Call -> PC] /\ handleOf' \in [Call -> Handle \cup {None}]
      /\ appOf' \in [Call -> App \cup {None}]
  BY <1>1, <1>2 DEF CallTypeOK, PC, Waiting
<1>4. \A d \in Call, k \in Handle, b \in App : Owns(d, k, b) => Owns(d, k, b)'
  BY <1>1, <1>3 DEF Owns, Waiting
<1>5. CallsHaveParameters'
  BY <1>3 DEF CallsHaveParameters
<1>6. ServedInv'
  BY <1>1, <1>3 DEF ServedInv
<1>7. registry' \in Registry /\ OwnedInv'
  <2>1. CASE to = "done"
    <3>1. UNCHANGED registry
      BY <1>2, <2>1
    <3>2. \A b \in App : Members(registry.appHandles[b]) \subseteq Handle
      BY MembersAreHandles DEF CallTypeOK, Registry
    <3>3. \A k \in Handle : registry.byHandle[k] # None => registry.byHandle[k].call \in Call
      BY DEF CallTypeOK, Registry, Entry
    <3>4. ASSUME NEW k \in Handle, registry.byHandle[k] # None
          PROVE  \E b \in App : Owns(registry.byHandle[k].call, k, b)'
      BY <3>1, <3>3, <3>4, <1>4 DEF OwnedInv
    <3>5. ASSUME NEW b \in App, NEW k \in Members(registry.appHandles[b])
          PROVE  \E d \in Call : Owns(d, k, b)'
      <4>1. PICK d \in Call : Owns(d, k, b)
        BY DEF OwnedInv
      <4> QED BY <4>1, <3>2, <1>4
    <3> QED BY <3>1, <3>4, <3>5 DEF OwnedInv, Owns, CallTypeOK
  <2>2. CASE to = "serve"
    <3>1. registry' = Reserve(registry, h, a, c)
      BY <1>2, <2>2 DEF ReserveHandle
    <3>2. /\ registry'.byHandle = [registry.byHandle EXCEPT ![h] = [app |-> a, call |-> c]]
          /\ registry'.appHandles = [registry.appHandles EXCEPT ![a] = Joined(@, h)]
          /\ registry' = [byHandle |-> registry'.byHandle, appHandles |-> registry'.appHandles]
      BY <3>1 DEF Reserve
    <3>3. /\ \A k \in Handle : registry'.byHandle[k]
               = IF k = h THEN [app |-> a, call |-> c] ELSE registry.byHandle[k]
          /\ \A b \in App : registry'.appHandles[b]
               = IF b = a THEN Joined(registry.appHandles[a], h) ELSE registry.appHandles[b]
      BY <3>2 DEF CallTypeOK, Registry
    <3>4. registry.appHandles[a] \in Group \cup {None}
      BY DEF CallTypeOK, Registry
    <3>5. /\ Joined(registry.appHandles[a], h) \in Group
          /\ Members(Joined(registry.appHandles[a], h)) = Members(registry.appHandles[a]) \cup {h}
      <4>1. CASE registry.appHandles[a] = None
        <5>1. [primary |-> h, followers |-> {}] \in Group
          BY DEF Group
        <5> QED BY <4>1, <5>1, NoneAssumption DEF Joined, Members
      <4>2. CASE registry.appHandles[a] # None
        <5> DEFINE g == registry.appHandles[a]
                   j == [primary |-> g.primary, followers |-> g.followers \cup {h}]
        <5>1. j \in Group /\ j # None
          BY <3>4, <4>2, NoneAssumption DEF Group
        <5> QED BY <4>2, <5>1 DEF Joined, Members
      <4> QED BY <4>1, <4>2
    <3>6. registry' \in Registry
      <4>1. [app |-> a, call |-> c] \in Entry
        BY DEF Entry
      <4>2. registry'.byHandle \in [Handle -> Entry \cup {None}]
        BY <3>2, <4>1 DEF CallTypeOK, Registry
      <4>3. registry'.appHandles \in [App -> Group \cup {None}]
        BY <3>2, <3>5 DEF CallTypeOK, Registry
      <4> QED BY <3>2, <4>2, <4>3 DEF Registry
    <3>7. Owns(c, h, a)'
      BY <1>3, <2>2 DEF Owns, Waiting
    <3>8. \A k \in Handle : registry.byHandle[k] # None => registry.byHandle[k].call \in Call
      BY DEF CallTypeOK, Registry, Entry
    <3>9. ASSUME NEW k \in Handle, registry'.byHandle[k] # None
          PROVE  \E b \in App : Owns(registry.byHandle[k].call, k, b)'
      <4>1. CASE k = h
        <5>1. registry'.byHandle[k].call = c
          BY <4>1, <3>3
        <5> QED BY <4>1, <5>1, <3>7 DEF Owns
      <4>2. CASE k # h
        <5>1. registry'.byHandle[k] = registry.byHandle[k]
          BY <4>2, <3>3
        <5>2. PICK d \in Call : d = registry.byHandle[k].call
          BY <5>1, <3>9, <3>8
        <5>3. PICK b \in App : Owns(d, k, b)
          BY <5>1, <5>2, <3>9 DEF OwnedInv
        <5>4. Owns(d, k, b)'
          BY <5>3, <1>4
        <5> QED BY <5>1, <5>2, <5>4 DEF Owns
      <4> QED BY <4>1, <4>2
    <3>10. ASSUME NEW b \in App, NEW k \in Members(registry'.appHandles[b])
           PROVE  \E d \in Call : Owns(d, k, b)'
      <4>1. CASE k \in Members(registry.appHandles[b])
        <5>1. PICK d \in Call : Owns(d, k, b)
          BY <4>1 DEF OwnedInv
        <5>2. k \in Handle
          BY <4>1, MembersAreHandles DEF CallTypeOK, Registry
        <5> QED BY <5>1, <5>2, <1>4
      <4>2. CASE k \notin Members(registry.appHandles[b])
        <5>1. b = a /\ k = h
          BY <4>2, <3>3, <3>5, <3>10
        <5> QED BY <5>1, <3>7
      <4> QED BY <4>1, <4>2
    <3> QED BY <3>6, <3>9, <3>10 DEF OwnedInv, Owns
  <2> QED BY <2>1, <2>2
<1>8. CallTypeOK'
  BY <1>3, <1>7 DEF CallTypeOK
<1> QED BY <1>1, <1>5, <1>6, <1>7, <1>8

\* server.remove only removes.
LEMMA UnserveShrinks ==
  ASSUME served \in [Handle -> Call \cup {None}], NEW h, Unserve(h)
  PROVE  /\ served' \in [Handle -> Call \cup {None}]
         /\ \A g \in Handle : served'[g] \in {served[g], None}
         /\ h \in Handle => served'[h] = None
BY DEF Unserve

\* take_app_responses_by_handle only removes.
LEMMA TakeShrinks ==
  ASSUME OInv, RouterTake
  PROVE  Shrinks
<1> DEFINE h == Head(toBackground).handle
<1>1. registry \in Registry /\ registry' = TakeByHandle(registry, h)
  BY DEF RouterTake, OInv, CallTypeOK
<1>2. CASE ~IsKnown(registry, h)
  BY <1>1, <1>2, UnchangedShrinks DEF TakeByHandle
<1>3. CASE IsKnown(registry, h)
  <2>1. PICK a \in App : registry' = RemoveApp(registry, a)
    BY <1>1, <1>3 DEF TakeByHandle, IsKnown, Registry, Entry
  <2> QED BY <1>1, <2>1, RemoveAppShrinks
<1> QED BY <1>2, <1>3

\* Every step keeps what is left owned.
LEMMA NextOInv ==
  ASSUME OInv, [Next]_vars
  PROVE  OInv'
<1>1. registry \in Registry /\ served \in [Handle -> Call \cup {None}]
  BY DEF OInv, CallTypeOK
<1>2. ASSUME NEW c \in Call, NEW r \in {"allow", "deny"}, AnswerFromConfig(c, r)
      PROVE  OInv'
  <2>1. /\ pc[c] = "idle" /\ pc' = [pc EXCEPT ![c] = "done"]
        /\ UNCHANGED <<registry, handleOf, appOf, served>>
    BY <1>2 DEF AnswerFromConfig, Goto
  <2>2. Shrinks
    BY <1>1, <2>1, UnchangedShrinks
  <2>3. \A h \in Handle : served'[h] # c
    BY <2>1, NoneAssumption DEF OInv, ServedInv
  <2> QED BY <1>1, <2>1, <2>2, <2>3, OwnedMoves DEF PC, Waiting
<1>3. ASSUME NEW c \in Call, NEW h \in Handle, NEW a \in App, BeginNotify(c, h, a)
      PROVE  OInv'
  BY <1>3, BeginOwns
<1>4. ASSUME NEW c \in Call, Notify(c)
      PROVE  OInv'
  <2>1. c # None
    BY NoneAssumption
  <2>2. \A h \in Handle : served[h] = c =>
          handleOf[c] = h /\ pc[c] \in {"prompt", "wait", "cleanup", "unserve"}
    BY <2>1 DEF OInv, ServedInv
  <2>3. pc[c] \in Waiting \cup {"unserve"} => handleOf[c] \in Handle /\ appOf[c] \in App
    BY DEF OInv, CallsHaveParameters
  <2>4. CASE Serve(c)
    <3>1. /\ pc[c] = "serve" /\ pc' = [pc EXCEPT ![c] = "prompt"]
          /\ UNCHANGED <<registry, handleOf, appOf>>
      BY <2>4 DEF Serve, Goto
    <3>2. /\ served' \in [Handle -> Call \cup {None}]
          /\ \A h \in Handle : served'[h] = served[h] \/ (served'[h] = c /\ handleOf[c] = h)
      BY <1>1, <2>3, <2>4, <3>1 DEF Serve, Waiting
    <3>3. Shrinks
      BY <1>1, <3>1, UnchangedShrinks
    <3> QED BY <3>1, <3>2, <3>3, OwnedMoves DEF PC, Waiting
  <2>5. CASE SendPrompt(c)
    <3>1. /\ pc[c] = "prompt" /\ pc' = [pc EXCEPT ![c] = "wait"]
          /\ UNCHANGED <<registry, handleOf, appOf, served>>
      BY <2>5 DEF SendPrompt, Goto
    <3>2. Shrinks
      BY <1>1, <3>1, UnchangedShrinks
    <3> QED BY <1>1, <3>1, <3>2, OwnedMoves DEF PC, Waiting
  <2>6. CASE AwaitAnswer(c)
    <3>1. /\ pc[c] = "wait" /\ pc' = [pc EXCEPT ![c] = "cleanup"]
          /\ UNCHANGED <<registry, handleOf, appOf, served>>
      BY <2>6 DEF AwaitAnswer, Goto
    <3>2. Shrinks
      BY <1>1, <3>1, UnchangedShrinks
    <3> QED BY <1>1, <3>1, <3>2, OwnedMoves DEF PC, Waiting
  <2>7. CASE ServeFails(c) \/ PromptFails(c) \/ Cleanup(c)
    <3>1. PICK to \in {"unserve", "done"} :
            /\ pc[c] \in Waiting /\ pc' = [pc EXCEPT ![c] = to]
            /\ to = "done" => pc[c] = "serve"
            /\ Unregister(c)
            /\ UNCHANGED <<handleOf, appOf, served>>
      BY <2>7 DEF ServeFails, PromptFails, Cleanup, Goto, Waiting
    <3>2. /\ Shrinks
          /\ registry'.byHandle[handleOf[c]] = None
          /\ handleOf[c] \notin Members(registry'.appHandles[appOf[c]])
      BY <1>1, <2>3, <3>1, UnregisterShrinks
    <3>3. \A h \in Handle : served'[h] = c => to = "unserve"
      BY <2>2, <3>1
    <3> QED BY <1>1, <3>1, <3>2, <3>3, OwnedMoves DEF PC, Waiting
  <2>8. CASE Finish(c)
    <3>1. /\ pc[c] = "unserve" /\ pc' = [pc EXCEPT ![c] = "done"]
          /\ UNCHANGED <<registry, handleOf, appOf>>
          /\ Unserve(handleOf[c])
      BY <2>8 DEF Finish, Goto
    <3>2. Shrinks
      BY <1>1, <3>1, UnchangedShrinks
    <3>3. /\ served' \in [Handle -> Call \cup {None}]
          /\ \A h \in Handle : served'[h] \in {served[h], None}
          /\ served'[handleOf[c]] = None
      BY <1>1, <2>3, <3>1, UnserveShrinks
    <3>4. \A h \in Handle : served'[h] # c
      BY <2>1, <2>2, <3>3
    <3> QED BY <3>1, <3>2, <3>3, <3>4, OwnedMoves DEF PC, Waiting
  <2> QED BY <1>4, <2>4, <2>5, <2>6, <2>7, <2>8 DEF Notify
<1>5. ASSUME UNCHANGED <<registry, pc, handleOf, appOf, served>>
      PROVE  OInv'
  BY <1>1, <1>5, UnchangedShrinks, OwnedKeeps
<1>6. CASE \E k \in Close : CloseRequest(k) \/ \E h \in Handle : BeginClose(k, h)
  <2>1. UNCHANGED <<registry, pc, handleOf, appOf>>
    BY <1>6 DEF CloseRequest, BeginClose, CloseCancel, CloseWithdraw, CloseRemove, callVars
  <2>2. UNCHANGED served \/ \E h : Unserve(h)
    BY <1>6 DEF CloseRequest, BeginClose, CloseCancel, CloseWithdraw, CloseRemove
  <2> QED BY <1>1, <2>1, <2>2, UnserveShrinks, UnchangedShrinks, OwnedKeeps
<1>7. CASE Router
  <2>1. CASE RouterTake
    BY <1>1, <2>1, TakeShrinks, OwnedKeeps DEF RouterTake, callVars
  <2>2. ASSUME NEW c \in Call, RouterSend(c) PROVE OInv'
    BY <1>5, <2>2 DEF RouterSend
  <2> QED BY <1>7, <2>1, <2>2 DEF Router
<1>8. CASE UIStep \/ UNCHANGED vars
  BY <1>5, <1>8 DEF UIStep, vars, portalVars, callVars
<1> QED BY <1>2, <1>3, <1>4, <1>6, <1>7, <1>8 DEF Next, BackgroundStep, Rest

\* At the start nothing is owned.
LEMMA InitOInv == Init => OInv
<1> SUFFICES ASSUME Init PROVE OInv
  OBVIOUS
<1>1. CallTypeOK
  BY InitIInv DEF IInv
<1>2. CallsHaveParameters /\ ServedInv /\ served \in [Handle -> Call \cup {None}]
  BY DEF Init, CallsHaveParameters, ServedInv, Waiting
<1>3. OwnedInv
  BY DEF Init, OwnedInv, EmptyRegistry, Members
<1> QED BY <1>1, <1>2, <1>3 DEF OInv

\* Whatever callers do with handles, and whatever fails: when every request has its
\* reply, nothing is left of any of them.  No entry of by_handle, no group and no
\* Request object at a path outlives the calls that it was made for.
THEOREM NothingIsLeftOver == Spec => []NothingLeftOver
<1>1. Init => OInv
  BY InitOInv
<1>2. OInv /\ [Next]_vars => OInv'
  BY NextOInv
<1>3. OInv => NothingLeftOver
  <2> SUFFICES ASSUME OInv, Quiet
               PROVE  registry = EmptyRegistry /\ \A h \in Handle : served[h] = None
    BY DEF NothingLeftOver
  <2>1. \A c \in Call : pc[c] \in {"idle", "done"}
    BY DEF Quiet
  <2>2. ASSUME NEW h \in Handle, served[h] # None
        PROVE  FALSE
    <3>1. served[h] \in Call
      BY <2>2 DEF OInv
    <3>2. pc[served[h]] \in {"prompt", "wait", "cleanup", "unserve"}
      BY <2>2 DEF OInv, ServedInv
    <3> QED BY <2>1, <3>1, <3>2
  <2>3. \A c \in Call : \A h, a : ~Owns(c, h, a)
    BY <2>1 DEF Owns, Waiting
  <2>4. \A h \in Handle : registry.byHandle[h] = None
    <3> SUFFICES ASSUME NEW h \in Handle, registry.byHandle[h] # None PROVE FALSE
      OBVIOUS
    <3>1. registry.byHandle[h].call \in Call
      BY DEF OInv, CallTypeOK, Registry, Entry
    <3> QED BY <2>3, <3>1 DEF OInv, OwnedInv
  <2>5. \A a \in App : registry.appHandles[a] = None
    <3> SUFFICES ASSUME NEW a \in App, registry.appHandles[a] # None PROVE FALSE
      OBVIOUS
    <3>1. registry.appHandles[a].primary \in Members(registry.appHandles[a])
      BY DEF Members
    <3> QED BY <2>3, <3>1 DEF OInv, OwnedInv
  <2>6. registry = EmptyRegistry
    BY <2>4, <2>5 DEF OInv, CallTypeOK, Registry, EmptyRegistry
  <2> QED BY <2>2, <2>6
<1> QED BY <1>1, <1>2, <1>3, PTL DEF Spec

-----------------------------------------------------------------------------
(***************************************************************************)
(* What a request is told, and why, for callers that never use a handle    *)
(* twice.  A caller that uses it again after the reply can have the last   *)
(* step of an earlier Close remove the Request object that the new call    *)
(* has at the path, and so cancel a request that nobody closed: TLC shows  *)
(* it for HandleReuse = "afterReply".                                      *)
(***************************************************************************)

\* Which steps change what is known of a request.
RepliedIn(c) ==
  \/ \E r \in {"allow", "deny"} : AnswerFromConfig(c, r)
  \/ \E h \in Handle, a \in App : BeginNotify(c, h, a) /\ RefuseDuplicate(c, h)
  \/ AwaitAnswer(c)
  \/ ServeFails(c) \/ PromptFails(c)

MovedIn(c) ==
  \/ \E r \in {"allow", "deny"} : AnswerFromConfig(c, r)
  \/ \E h \in Handle, a \in App : BeginNotify(c, h, a)
  \/ Notify(c)

BegunIn(c) == \E h \in Handle, a \in App : BeginNotify(c, h, a)

DroppedIn(d) == ServeFails(d) \/ PromptFails(d) \/ Cleanup(d)

CancelledIn ==
  \/ \E d \in Call : Serve(d) \/ Finish(d)
  \/ \E k \in Close : CloseCancel(k) \/ CloseRemove(k)

ChangesOf(c) ==
  /\ reply'[c] # reply[c] => RepliedIn(c)
  /\ pc'[c] # pc[c] => MovedIn(c)
  /\ handleOf'[c] # handleOf[c] \/ leader'[c] # leader[c] \/ prompts'[c] # prompts[c] => BegunIn(c)
  /\ response'[c] # response[c] => RouterSend(c) \/ \E d \in Call : DroppedIn(d)
  /\ cancelled'[c] # cancelled[c] => CancelledIn

\* A step of a NotifyBackground call changes what it may.
LEMMA NotifyChanges ==
  ASSUME TInv, NEW c \in Call, NEW d \in Call, Notify(d)
  PROVE  ChangesOf(c)
<1> USE DEF TInv, IInv, CallTypeOK, PortalTypeOK, ChangesOf
<1>1. CASE Serve(d)
  BY <1>1 DEF Serve, Goto, MovedIn, CancelledIn, Notify
<1>2. CASE ServeFails(d)
  BY <1>2 DEF ServeFails, Goto, Return, MovedIn, RepliedIn, DroppedIn, Notify
<1>3. CASE SendPrompt(d)
  BY <1>3 DEF SendPrompt, Goto, MovedIn, Notify
<1>4. CASE PromptFails(d)
  BY <1>4 DEF PromptFails, Goto, Return, MovedIn, RepliedIn, DroppedIn, Notify
<1>5. CASE AwaitAnswer(d)
  BY <1>5 DEF AwaitAnswer, Goto, Return, MovedIn, RepliedIn, Notify
<1>6. CASE Cleanup(d)
  BY <1>6 DEF Cleanup, Goto, MovedIn, DroppedIn, Notify
<1>7. CASE Finish(d)
  BY <1>7 DEF Finish, Goto, MovedIn, CancelledIn, Notify
<1> QED BY <1>1, <1>2, <1>3, <1>4, <1>5, <1>6, <1>7 DEF Notify

\* So does every other step.
LEMMA NextChanges ==
  ASSUME TInv, [Next]_vars, NEW c \in Call
  PROVE  ChangesOf(c)
<1> USE DEF TInv, IInv, CallTypeOK, PortalTypeOK
<1>1. ASSUME NEW d \in Call, NEW r \in {"allow", "deny"}, AnswerFromConfig(d, r)
      PROVE  ChangesOf(c)
  BY <1>1 DEF AnswerFromConfig, Goto, Return, MovedIn, RepliedIn, ChangesOf
<1>2. ASSUME NEW d \in Call, NEW h \in Handle, NEW a \in App, BeginNotify(d, h, a)
      PROVE  ChangesOf(c)
  <2>1. CASE d = c
    <3>1. MovedIn(c) /\ BegunIn(c)
      BY <1>2, <2>1 DEF MovedIn, BegunIn
    <3>2. reply'[c] # reply[c] => RepliedIn(c)
      BY <1>2, <2>1 DEF BeginNotify, ReserveHandle, RepliedIn
    <3> QED BY <1>2, <3>1, <3>2 DEF BeginNotify, ChangesOf
  <2>2. CASE d # c
    BY <1>2, <2>2 DEF BeginNotify, ReserveHandle, RefuseDuplicate, Goto, Return, ChangesOf
  <2> QED BY <2>1, <2>2
<1>3. ASSUME NEW d \in Call, Notify(d)
      PROVE  ChangesOf(c)
  BY <1>3, NotifyChanges
<1>4. CASE \E k \in Close : CloseRequest(k) \/ \E h \in Handle : BeginClose(k, h)
  BY <1>4 DEF CloseRequest, BeginClose, CloseCancel, CloseWithdraw, CloseRemove, callVars,
              CancelledIn, ChangesOf
<1>5. CASE Router
  BY <1>5 DEF Router, RouterTake, RouterSend, callVars, ChangesOf
<1>6. CASE UIStep \/ UNCHANGED vars
  BY <1>6 DEF UIStep, vars, portalVars, callVars, ChangesOf
<1> QED BY <1>1, <1>2, <1>3, <1>4, <1>5, <1>6 DEF Next, BackgroundStep, Rest

-----------------------------------------------------------------------------
\* What is once known of a request stays.
Lasts(c) ==
  /\ Closed(c) => Closed(c)'
  /\ cancelled[c] => cancelled'[c]
  /\ reply[c] # None => reply'[c] = reply[c]
  /\ response[c] # Pending => response'[c] = response[c]
  /\ pc[c] # "idle" => /\ handleOf'[c] = handleOf[c] /\ leader'[c] = leader[c]
                       /\ prompts'[c] = prompts[c] /\ pc'[c] # "idle"
  /\ pc[c] \in {"unserve", "done"} => pc'[c] \in {"unserve", "done"}
  /\ pc[c] = "done" => pc'[c] = "done"

\* A Request that a Close has reached stays reached.
LEMMA ClosedLasts ==
  ASSUME TInv, [Next]_vars, NEW c \in Call, Closed(c)
  PROVE  Closed(c)'
<1> SUFFICES ASSUME UNCHANGED closing \/
                    \E k \in Close : CloseRequest(k) \/ \E h \in Handle : BeginClose(k, h)
             PROVE  Closed(c)'
  <2>1. ASSUME NEW d \in Call, Notify(d) PROVE UNCHANGED closing
    BY <2>1 DEF Notify, Serve, ServeFails, SendPrompt, PromptFails, AwaitAnswer, Cleanup, Finish
  <2>2. CASE Router
    BY <2>2 DEF Router, RouterTake, RouterSend
  <2>3. CASE UIStep \/ UNCHANGED vars
    BY <2>3 DEF UIStep, vars, portalVars
  <2> QED BY <2>1, <2>2, <2>3 DEF Closed, Next, BackgroundStep, Rest, AnswerFromConfig, BeginNotify
<1>1. c # None
  BY NoneAssumption
<1>2. closing \in [Close -> [pc : {"idle", "cancel", "withdraw", "remove", "done"},
                             call : Call \cup {None}]]
  BY DEF TInv, PortalTypeOK
<1>3. PICK j \in Close : closing[j].call = c
  BY DEF Closed
<1>4. ASSUME NEW k \in Close, NEW h \in Handle, BeginClose(k, h)
      PROVE  closing'[j].call = c
  BY <1>1, <1>2, <1>3, <1>4 DEF BeginClose, IdleClose
<1>5. ASSUME NEW k \in Close, CloseRequest(k)
      PROVE  closing'[j].call = c
  <2>1. PICK from, to : CloseGoto(k, from, to)
    BY <1>5 DEF CloseRequest, CloseCancel, CloseWithdraw, CloseRemove
  <2> QED BY <1>2, <1>3, <2>1 DEF CloseGoto
<1> QED BY <1>3, <1>4, <1>5 DEF Closed

\* A request that is cancelled stays cancelled.
LEMMA CancelledLasts ==
  ASSUME TInv, [Next]_vars, NEW c \in Call, cancelled[c]
  PROVE  cancelled'[c]
<1>1. CASE CancelledIn
  BY <1>1 DEF CancelledIn, Serve, Finish, CloseCancel, CloseRemove, Unserve, TInv, PortalTypeOK
<1>2. CASE ~CancelledIn
  BY <1>2, NextChanges DEF ChangesOf
<1> QED BY <1>1, <1>2

\* The receiver of a request gets one answer at most.
LEMMA ResponseLasts ==
  ASSUME FInv, [Next]_vars, NEW c \in Call, response[c] # Pending
  PROVE  response'[c] = response[c]
<1>1. CASE RouterSend(c)
  BY <1>1 DEF RouterSend, FInv, FateInv
<1>2. ASSUME NEW d \in Call, DroppedIn(d)
      PROVE  response'[c] = response[c]
  BY <1>2 DEF DroppedIn, ServeFails, PromptFails, Cleanup, Unregister, DropSenders
<1> QED BY <1>1, <1>2, NextChanges DEF ChangesOf, FInv

\* A request goes forward.
LEMMA NextLasts ==
  ASSUME FInv, [Next]_vars, NEW c \in Call
  PROVE  Lasts(c)
<1> USE DEF FInv, TInv, IInv, CallTypeOK, PortalTypeOK
<1>1. reply[c] # None => reply'[c] = reply[c]
  <2>1. RepliedIn(c) => pc[c] \in {"idle", "serve", "prompt", "wait"}
    BY DEF RepliedIn, AnswerFromConfig, RefuseDuplicate, AwaitAnswer, ServeFails, PromptFails, Goto
  <2> QED BY <2>1, NextChanges DEF ChangesOf, FateInv
<1>2. BegunIn(c) => pc[c] = "idle"
  BY DEF BegunIn, BeginNotify, ReserveHandle, RefuseDuplicate, Goto
<1>3. pc[c] # "idle" => /\ handleOf'[c] = handleOf[c] /\ leader'[c] = leader[c]
                        /\ prompts'[c] = prompts[c]
  BY <1>2, NextChanges DEF ChangesOf
<1>4. pc'[c] # pc[c] =>
        /\ pc[c] # "done" /\ pc'[c] # "idle"
        /\ pc[c] = "unserve" => pc'[c] = "done"
  <2>1. MovedIn(c) =>
          /\ pc[c] # "done" /\ pc'[c] # "idle"
          /\ pc[c] = "unserve" => pc'[c] = "done"
    BY DEF MovedIn, AnswerFromConfig, BeginNotify, ReserveHandle, RefuseDuplicate, Notify, Serve,
           ServeFails, SendPrompt, PromptFails, AwaitAnswer, Cleanup, Finish, Goto
  <2> QED BY <2>1, NextChanges DEF ChangesOf
<1>5. /\ pc[c] # "idle" => pc'[c] # "idle"
      /\ pc[c] \in {"unserve", "done"} => pc'[c] \in {"unserve", "done"}
      /\ pc[c] = "done" => pc'[c] = "done"
  BY <1>4
<1> QED BY <1>1, <1>3, <1>5, ClosedLasts, CancelledLasts, ResponseLasts DEF Lasts

-----------------------------------------------------------------------------
\* A handle names one request for good.
FreshInv ==
  /\ \A c, d \in Call : handleOf[c] = handleOf[d] /\ handleOf[c] # None => c = d
  /\ \A c \in Call : pc[c] = "idle" => handleOf[c] = None /\ ~cancelled[c]

\* A Close that has got past its first step has cancelled its request.
CloseInv ==
  \A k \in Close : closing[k].pc \in {"withdraw", "remove", "done"} => cancelled[closing[k].call]

\* Why a request is cancelled, and why its sender is lost.
CauseInv ==
  \A c \in Call :
    /\ cancelled[c] => Closed(c) \/ pc[c] = "done"
    /\ pc[c] = "cleanup" /\ Registered(c) => cancelled[c] /\ reply[c] = "Cancelled"
    /\ response[c] = Dropped =>
         pc[c] \in {"unserve", "done"} \/ Closed(leader[c]) \/ reply[leader[c]] = "Error"

\* What a request returned agrees with what its receiver got.
ReplyInv ==
  \A c \in Call :
    /\ reply[c] \in Result /\ leader[c] # None => response[c] = reply[c]
    /\ reply[c] = "Cancelled" =>
         leader[c] # None /\ (response[c] = Dropped \/ Closed(c))
    /\ reply[c] = "DuplicateHandle" => leader[c] = None

\* Only its own Close, or its own end, makes a request's cancel_receiver ready.
LEMMA CancelledBy ==
  ASSUME FInv, OInv, FreshInv, [Next]_vars, NEW c \in Call, ~cancelled[c], cancelled'[c]
  PROVE  pc[c] # "idle" /\ (Closed(c)' \/ pc'[c] = "done")
<1> USE DEF FInv, TInv, IInv, CallTypeOK, PortalTypeOK
<1>1. \A h \in Handle : served[h] = c =>
        handleOf[c] = h /\ h # None /\ pc[c] \in {"prompt", "wait", "cleanup", "unserve"}
  BY NoneAssumption DEF OInv, ServedInv
<1>2. CancelledIn
  BY NextChanges DEF ChangesOf
<1>3. ASSUME NEW d \in Call, Serve(d)
      PROVE  FALSE
  <2>1. pc[d] = "serve" /\ handleOf[d] \in Handle
    BY <1>3 DEF Serve, Goto, CallsHaveParameters, Waiting
  <2>2. d = c /\ served[handleOf[d]] # None
    BY <1>3 DEF Serve
  <2> DEFINE e == served[handleOf[d]]
  <2>3. e \in Call /\ handleOf[e] = handleOf[d] /\ pc[e] # "serve"
    BY <2>1, <2>2 DEF OInv, ServedInv
  <2>4. handleOf[d] # None
    BY <2>1, NoneAssumption
  <2> QED BY <2>1, <2>3, <2>4 DEF FreshInv
<1>4. ASSUME NEW h \in Handle, Unserve(h)
      PROVE  served[h] = c
  BY <1>4 DEF Unserve
<1>5. ASSUME NEW d \in Call, Finish(d)
      PROVE  pc[c] # "idle" /\ (Closed(c)' \/ pc'[c] = "done")
  <2>1. pc[d] = "unserve" /\ pc' = [pc EXCEPT ![d] = "done"] /\ handleOf[d] \in Handle
    BY <1>5 DEF Finish, Goto, CallsHaveParameters
  <2>2. served[handleOf[d]] = c
    BY <1>4, <1>5, <2>1 DEF Finish
  <2>3. handleOf[c] = handleOf[d] /\ handleOf[c] # None
    BY <1>1, <2>1, <2>2
  <2>4. c = d
    BY <2>3 DEF FreshInv
  <2> QED BY <2>1, <2>4
<1>6. ASSUME NEW k \in Close, CloseCancel(k)
      PROVE  pc[c] # "idle" /\ (Closed(c)' \/ pc'[c] = "done")
  <2>1. closing[k].pc = "cancel" /\ closing[k].call = c
    BY <1>6 DEF CloseCancel, CloseGoto
  <2>2. Closed(c)'
    BY <2>1, ClosedLasts DEF Closed
  <2>3. handleOf[c] \in Handle
    BY <2>1 DEF ObjectsHaveCalls
  <2> QED BY <2>2, <2>3, NoneAssumption DEF FreshInv
<1>7. ASSUME NEW k \in Close, CloseRemove(k)
      PROVE  pc[c] # "idle" /\ (Closed(c)' \/ pc'[c] = "done")
  <2> DEFINE d == closing[k].call
  <2>1. closing[k].pc = "remove"
    BY <1>7 DEF CloseRemove, CloseGoto
  <2>2. d \in Call /\ handleOf[d] \in Handle
    BY <2>1 DEF ObjectsHaveCalls
  <2>3. served[handleOf[d]] = c
    BY <1>4, <1>7, <2>2 DEF CloseRemove
  <2>4. handleOf[c] = handleOf[d] /\ handleOf[c] # None
    BY <1>1, <2>2, <2>3
  <2>5. c = d
    BY <2>2, <2>4 DEF FreshInv
  <2>6. Closed(c)'
    BY <2>5, ClosedLasts DEF Closed
  <2> QED BY <1>1, <2>2, <2>3, <2>6
<1> QED BY <1>2, <1>3, <1>5, <1>6, <1>7 DEF CancelledIn

\* Every step keeps handles fresh, if callers do.
LEMMA NextFresh ==
  ASSUME HandleReuse = "never", FInv, OInv, FreshInv, [Next]_vars
  PROVE  FreshInv'
<1> USE DEF FInv, TInv
<1>1. ASSUME NEW c \in Call, handleOf'[c] # handleOf[c]
      PROVE  /\ pc[c] = "idle"
             /\ \A d \in Call : handleOf[d] # handleOf'[c]
             /\ \A d \in Call : d # c => handleOf'[d] = handleOf[d]
  <2>1. BegunIn(c)
    BY <1>1, NextChanges DEF ChangesOf
  <2>2. PICK h \in Handle, a \in App : BeginNotify(c, h, a)
    BY <2>1 DEF BegunIn
  <2>3. /\ handleOf' = [handleOf EXCEPT ![c] = h]
        /\ pc[c] = "idle" /\ Usable(h)
    BY <2>2 DEF BeginNotify, ReserveHandle, RefuseDuplicate, Goto
  <2>4. \A d \in Call : handleOf[d] # h
    BY <2>3 DEF Usable
  <2> QED BY <2>3, <2>4 DEF IInv, CallTypeOK
<1>2. ASSUME NEW c \in Call, NEW d \in Call, handleOf'[c] = handleOf'[d], handleOf'[c] # None
      PROVE  c = d
  BY <1>1, <1>2 DEF FreshInv
<1>3. ASSUME NEW c \in Call, pc'[c] = "idle"
      PROVE  handleOf'[c] = None /\ ~cancelled'[c]
  <2>1. pc[c] = "idle"
    BY <1>3, NextLasts DEF Lasts
  <2>2. ~cancelled'[c]
    BY <2>1, CancelledBy DEF FreshInv
  <2>3. BegunIn(c) => pc'[c] # "idle"
    BY DEF BegunIn, BeginNotify, ReserveHandle, RefuseDuplicate, Goto, IInv, CallTypeOK
  <2>4. handleOf'[c] = handleOf[c]
    BY <1>3, <2>3, NextChanges DEF ChangesOf
  <2> QED BY <2>1, <2>2, <2>4 DEF FreshInv
<1> QED BY <1>2, <1>3 DEF FreshInv

\* A Close cancels before it goes on.
LEMMA NextClose ==
  ASSUME FInv, CloseInv, [Next]_vars
  PROVE  CloseInv'
<1> USE DEF FInv, TInv
<1> DEFINE Past == {"withdraw", "remove", "done"}
<1>1. closing \in [Close -> [pc : {"idle", "cancel", "withdraw", "remove", "done"},
                             call : Call \cup {None}]]
  BY DEF PortalTypeOK
<1>2. \A c \in Call : cancelled[c] => cancelled'[c]
  BY NextLasts DEF Lasts
<1>3. \A j \in Close : closing[j].pc \in Past => closing[j].call \in Call
  BY DEF ObjectsHaveCalls
<1>4. ASSUME NEW j \in Close, closing'[j] = closing[j], closing'[j].pc \in Past
      PROVE  cancelled'[closing'[j].call]
  BY <1>2, <1>3, <1>4 DEF CloseInv
<1>5. ASSUME NEW k \in Close, NEW h \in Handle, BeginClose(k, h)
      PROVE  CloseInv'
  <2>1. \A j \in Close : closing'[j] = closing[j] \/ closing'[j].pc = "cancel"
    BY <1>1, <1>5 DEF BeginClose
  <2> QED BY <1>4, <2>1 DEF CloseInv
<1>6. ASSUME NEW k \in Close, CloseRequest(k)
      PROVE  CloseInv'
  <2>1. PICK from \in {"cancel", "withdraw", "remove"}, to \in {"withdraw", "remove", "done"} : CloseGoto(k, from, to)
    BY <1>6 DEF CloseRequest, CloseCancel, CloseWithdraw, CloseRemove
  <2>2. \A j \in Close : j # k => closing'[j] = closing[j]
    BY <1>1, <2>1 DEF CloseGoto
  <2>3. closing'[k].call = closing[k].call /\ closing[k].call \in Call
    BY <1>1, <2>1 DEF CloseGoto, ObjectsHaveCalls
  <2>4. cancelled'[closing[k].call]
    <3>1. CASE CloseCancel(k)
      BY <3>1, <2>3 DEF CloseCancel, PortalTypeOK
    <3>2. CASE ~CloseCancel(k)
      <4>1. closing[k].pc \in {"withdraw", "remove"}
        BY <1>6, <3>2 DEF CloseRequest, CloseWithdraw, CloseRemove, CloseGoto
      <4> QED BY <4>1, <2>3, <1>2 DEF CloseInv
    <3> QED BY <3>1, <3>2
  <2> QED BY <1>4, <2>2, <2>3, <2>4 DEF CloseInv
<1>7. ASSUME UNCHANGED closing
      PROVE  CloseInv'
  BY <1>4, <1>7 DEF CloseInv
<1>8. ASSUME NEW d \in Call, Notify(d) PROVE UNCHANGED closing
  BY <1>8 DEF Notify, Serve, ServeFails, SendPrompt, PromptFails, AwaitAnswer, Cleanup, Finish
<1>9. CASE Router
  BY <1>7, <1>9 DEF Router, RouterTake, RouterSend
<1>10. CASE UIStep \/ UNCHANGED vars
  BY <1>7, <1>10 DEF UIStep, vars, portalVars
<1> QED BY <1>5, <1>6, <1>7, <1>8, <1>9, <1>10
        DEF Next, BackgroundStep, Rest, AnswerFromConfig, BeginNotify

\* A request is registered by its reservation and by nothing else.
LEMMA RegisteredBy ==
  ASSUME FInv, TInv', [Next]_vars, NEW c \in Call, Registered(c)'
  PROVE  Registered(c) \/ pc'[c] = "serve"
<1> USE DEF FInv, TInv
<1>1. ASSUME NEW d \in Call, DroppedIn(d)
      PROVE  Registered(c)
  <2>1. pc[d] \in Waiting /\ Unregister(d)
    BY <1>1 DEF DroppedIn, ServeFails, PromptFails, Cleanup, Goto, Waiting
  <2> QED BY <2>1, UnregisterSheds DEF Sheds
<1>2. CASE RouterTake
  BY <1>2, RouterTakeSheds, ShedsNothing DEF Sheds
<1>3. ASSUME NEW d \in Call, NEW h \in Handle, NEW a \in App, BeginNotify(d, h, a)
      PROVE  Registered(c) \/ pc'[c] = "serve"
  <2>1. /\ handleOf' = [handleOf EXCEPT ![d] = h]
        /\ appOf' = [appOf EXCEPT ![d] = a]
    BY <1>3 DEF BeginNotify
  <2>2. CASE ReserveHandle(d, h, a)
    <3>1. pc[d] = "idle" /\ pc' = [pc EXCEPT ![d] = "serve"]
      BY <2>2 DEF ReserveHandle, Goto
    <3>2. Registered(c) \/ c = d
      BY <2>1, <2>2, <3>1, ReserveEffect
    <3> QED BY <3>1, <3>2 DEF IInv, CallTypeOK
  <2>3. CASE RefuseDuplicate(d, h)
    BY <2>3, ShedsNothing DEF RefuseDuplicate
  <2> QED BY <1>3, <2>2, <2>3 DEF BeginNotify
<1>4. ASSUME UNCHANGED registry
      PROVE  Registered(c)
  BY <1>4, ShedsNothing
<1>5. ASSUME NEW d \in Call, Notify(d)
      PROVE  Registered(c)
  BY <1>1, <1>4, <1>5
     DEF Notify, Serve, SendPrompt, AwaitAnswer, Finish, DroppedIn
<1>6. CASE \E k \in Close : CloseRequest(k) \/ \E h \in Handle : BeginClose(k, h)
  BY <1>4, <1>6 DEF CloseRequest, BeginClose, CloseCancel, CloseWithdraw, CloseRemove
<1>7. ASSUME NEW d \in Call, RouterSend(d)
      PROVE  Registered(c)
  BY <1>4, <1>7 DEF RouterSend
<1>8. CASE UIStep \/ UNCHANGED vars
  BY <1>4, <1>8 DEF UIStep, vars, portalVars
<1> QED BY <1>2, <1>3, <1>4, <1>5, <1>6, <1>7, <1>8
        DEF Next, BackgroundStep, Router, Rest, AnswerFromConfig

\* Whose sender is dropped, and by whom: by the request itself or its leader.
LEMMA DroppedBy ==
  ASSUME FInv, NEW d \in Call, DroppedIn(d), NEW c \in Call, response'[c] # response[c]
  PROVE  /\ response'[c] = Dropped /\ Registered(d) /\ Registered(c)
         /\ c = d \/ leader[c] = d
         /\ pc[d] \in Waiting /\ pc'[d] \in {"unserve", "done"}
         /\ pc[d] = "cleanup" \/ reply'[d] = "Error"
<1> USE DEF FInv, TInv
<1>1. pc[d] \in Waiting /\ Unregister(d) /\ pc'[d] \in {"unserve", "done"}
  BY DEF DroppedIn, ServeFails, PromptFails, Cleanup, Goto, Waiting, IInv, CallTypeOK
<1>2. pc[d] = "cleanup" \/ reply'[d] = "Error"
  BY DEF DroppedIn, ServeFails, PromptFails, Cleanup, Goto, Return, PortalTypeOK
<1>3. c \in ShedBy(d) /\ response'[c] = Dropped /\ Registered(c)
  BY <1>1, UnregisterSheds
<1> QED BY <1>1, <1>2, <1>3 DEF ShedBy, Followers

\* The router hands out results.
LEMMA SentIsResult ==
  ASSUME FInv, NEW c \in Call, RouterSend(c)
  PROVE  response'[c] \in Result /\ response[c] = Pending /\ pc[c] # "idle"
BY DEF FInv, TInv, RouterSend, ObjectsHaveCalls, PortalTypeOK, FateInv

\* Every cancellation keeps its cause.
LEMMA NextCause ==
  ASSUME FInv, TInv', OInv, FreshInv, CauseInv, [Next]_vars
  PROVE  CauseInv'
<1> USE DEF FInv, TInv
<1> SUFFICES ASSUME NEW c \in Call
             PROVE  /\ cancelled'[c] => Closed(c)' \/ pc'[c] = "done"
                    /\ pc'[c] = "cleanup" /\ Registered(c)' => cancelled'[c] /\ reply'[c] = "Cancelled"
                    /\ response'[c] = Dropped =>
                         \/ pc'[c] \in {"unserve", "done"}
                         \/ Closed(leader[c])'
                         \/ reply'[leader'[c]] = "Error"
  BY DEF CauseInv, Closed
<1>1. Lasts(c)
  BY NextLasts
<1>2. cancelled'[c] => Closed(c)' \/ pc'[c] = "done"
  BY <1>1, CancelledBy DEF Lasts, CauseInv
<1>3. ASSUME pc'[c] = "cleanup", Registered(c)'
      PROVE  cancelled'[c] /\ reply'[c] = "Cancelled"
  <2>1. Registered(c)
    BY <1>3, RegisteredBy
  <2>2. CASE pc[c] = "cleanup"
    <3>1. cancelled[c] /\ reply[c] = "Cancelled"
      BY <2>1, <2>2 DEF CauseInv
    <3> QED BY <3>1, <1>1, AbsenceAssumption DEF Lasts, Reply
  <2>3. CASE pc[c] # "cleanup"
    <3>1. MovedIn(c)
      BY <1>3, <2>3, NextChanges DEF ChangesOf
    <3>2. AwaitAnswer(c)
      BY <1>3, <3>1 DEF MovedIn, AnswerFromConfig, BeginNotify, ReserveHandle, RefuseDuplicate, Notify,
           Serve, ServeFails, SendPrompt, PromptFails, Cleanup, Finish, Goto, IInv, CallTypeOK
    <3>3. response[c] = Pending
      BY <2>1 DEF FateInv
    <3>4. Awaited(c) = "Cancelled"
      BY <3>3 DEF Awaited, Result, Pending
    <3>5. cancelled[c] /\ cancelled' = cancelled
      BY <3>2, <3>3 DEF AwaitAnswer
    <3>6. reply'[c] = Awaited(c)
      BY <3>2 DEF AwaitAnswer, Return, PortalTypeOK
    <3> QED BY <3>4, <3>5, <3>6
  <2> QED BY <2>2, <2>3
<1>4. ASSUME response'[c] = Dropped
      PROVE  \/ pc'[c] \in {"unserve", "done"}
             \/ Closed(leader[c])'
             \/ reply'[leader'[c]] = "Error"
  <2>1. CASE response[c] = Dropped
    <3>1. response[c] # Pending
      BY <2>1 DEF Dropped, Pending
    <3>2. pc[c] # "idle" /\ leader[c] # None
      BY <3>1 DEF FateInv, Fate
    <3>3. PICK e \in Call : leader[c] = e /\ leader'[c] = e
      BY <1>1, <3>2 DEF Lasts, PortalTypeOK
    <3>4. Lasts(e)
      BY NextLasts
    <3>5. "Error" # None
      BY AbsenceAssumption DEF Reply
    <3>6. Closed(e)' => Closed(leader[c])'
      BY <3>3 DEF Closed
    <3> QED BY <2>1, <3>3, <3>4, <3>5, <3>6, <1>1 DEF Lasts, CauseInv
  <2>2. CASE response[c] # Dropped
    <3>1. Dropped \notin Result
      BY DEF Dropped, Result
    <3>2. ~RouterSend(c)
      BY <1>4, <3>1, SentIsResult
    <3>3. PICK d \in Call : DroppedIn(d)
      BY <1>4, <2>2, <3>2, NextChanges DEF ChangesOf
    <3>4. /\ Registered(d) /\ Registered(c)
          /\ c = d \/ leader[c] = d
          /\ pc[d] \in Waiting /\ pc'[d] \in {"unserve", "done"}
          /\ pc[d] = "cleanup" \/ reply'[d] = "Error"
      BY <1>4, <2>2, <3>3, DroppedBy
    <3>5. CASE c # d
      <4>1. pc[c] \in Waiting
        BY <3>4, RegisteredEntry
      <4>2. leader'[c] = d
        BY <3>4, <3>5, <4>1, <1>1 DEF Lasts, Waiting
      <4>3. pc[d] = "cleanup" => Closed(d)'
        <5>1. pc[d] = "cleanup" => Closed(d)
          BY <3>4 DEF CauseInv
        <5> QED BY <5>1, NextLasts DEF Lasts
      <4>4. Closed(d)' => Closed(leader[c])'
        BY <4>2 DEF Closed
      <4> QED BY <3>4, <4>2, <4>3, <4>4
    <3> QED BY <3>4, <3>5
  <2> QED BY <2>1, <2>2
<1> QED BY <1>2, <1>3, <1>4

\* What a reply was when it was given.
LEMMA ReplyGiven ==
  ASSUME FInv, CauseInv, [Next]_vars, NEW c \in Call, reply[c] = None, reply'[c] # None
  PROVE  \/ /\ reply'[c] \in Result \cup {"DuplicateHandle"}
            /\ leader'[c] = None
         \/ reply'[c] = "Error"
         \/ /\ pc[c] = "wait" /\ leader'[c] = leader[c] /\ leader[c] \in Call
            /\ response'[c] = response[c]
            /\ \/ response[c] \in Result /\ reply'[c] = response[c]
               \/ reply'[c] = "Cancelled" /\ (response[c] = Dropped \/ Closed(c))
<1> USE DEF FInv, TInv, PortalTypeOK
<1>1. RepliedIn(c)
  BY NextChanges DEF ChangesOf
<1>2. Lasts(c)
  BY NextLasts
<1>3. ASSUME NEW r \in {"allow", "deny"}, AnswerFromConfig(c, r)
      PROVE  reply'[c] \in Result /\ leader'[c] = None
  BY <1>3 DEF AnswerFromConfig, Goto, Return, Result, FateInv
<1>4. ASSUME NEW h \in Handle, NEW a \in App, BeginNotify(c, h, a), RefuseDuplicate(c, h)
      PROVE  reply'[c] = "DuplicateHandle" /\ leader'[c] = None
  BY <1>4 DEF RefuseDuplicate, Goto, Return, FateInv
<1>5. CASE ServeFails(c) \/ PromptFails(c)
  BY <1>5 DEF ServeFails, PromptFails, Return
<1>6. CASE AwaitAnswer(c)
  <2>1. /\ pc[c] = "wait" /\ reply'[c] = Awaited(c)
        /\ UNCHANGED <<response, leader>>
        /\ response[c] # Pending \/ cancelled[c]
    BY <1>6 DEF AwaitAnswer, Goto, Return
  <2>2. leader[c] \in Call
    BY <2>1 DEF FateInv, Waiting
  <2>3. CASE response[c] \in Result
    BY <2>1, <2>2, <2>3 DEF Awaited
  <2>4. CASE response[c] \notin Result
    <3>1. response[c] = Dropped \/ cancelled[c]
      BY <2>1, <2>4
    <3>2. cancelled[c] => Closed(c)
      BY <2>1 DEF CauseInv
    <3> QED BY <2>1, <2>2, <2>4, <3>1, <3>2 DEF Awaited
  <2> QED BY <2>3, <2>4
<1> QED BY <1>1, <1>3, <1>4, <1>5, <1>6 DEF RepliedIn

\* A request that was never registered stays so once it has its reply.
LEMMA LeaderSettled ==
  ASSUME FInv, [Next]_vars, NEW c \in Call, reply[c] # None
  PROVE  leader'[c] = leader[c] /\ reply'[c] = reply[c]
BY NextLasts DEF Lasts, FInv, FateInv

\* What a request is told agrees with its receiver.
LEMMA NextReply ==
  ASSUME FInv, CauseInv, ReplyInv, [Next]_vars
  PROVE  ReplyInv'
<1> SUFFICES ASSUME NEW c \in Call
             PROVE  /\ reply'[c] \in Result /\ leader'[c] # None => response'[c] = reply'[c]
                    /\ reply'[c] = "Cancelled" =>
                         leader'[c] # None /\ (response'[c] = Dropped \/ Closed(c)')
                    /\ reply'[c] = "DuplicateHandle" => leader'[c] = None
  BY DEF ReplyInv, Closed
<1> USE DEF Result, Pending, Dropped
<1>1. Lasts(c)
  BY NextLasts
<1>2. None \notin {"allow", "deny", "once", "Cancelled", "DuplicateHandle", "Error"}
  BY AbsenceAssumption DEF Reply
<1>3. CASE reply[c] # None
  <2>1. leader'[c] = leader[c] /\ reply'[c] = reply[c]
    BY <1>3, LeaderSettled
  <2> QED BY <2>1, <1>1, <1>2 DEF ReplyInv, Lasts
<1>4. CASE reply[c] = None /\ reply'[c] # None
  <2>1. CASE reply'[c] \in Result \cup {"DuplicateHandle"} /\ leader'[c] = None
    BY <2>1, <1>2
  <2>2. CASE reply'[c] = "Error"
    BY <2>2
  <2>3. CASE /\ pc[c] = "wait" /\ leader'[c] = leader[c] /\ leader[c] \in Call
             /\ response'[c] = response[c]
             /\ \/ response[c] \in Result /\ reply'[c] = response[c]
                \/ reply'[c] = "Cancelled" /\ (response[c] = Dropped \/ Closed(c))
    <3>1. leader'[c] # None
      BY <2>3, NoneAssumption
    <3> QED BY <2>3, <3>1, <1>1 DEF Lasts
  <2> QED BY <1>4, <2>1, <2>2, <2>3, ReplyGiven
<1>5. CASE reply'[c] = None
  BY <1>5, <1>2
<1> QED BY <1>3, <1>4, <1>5

\* A cancellation that was reported has its cause, and keeps it.
LEMMA NextCancelHasCause ==
  ASSUME FInv, CauseInv, ReplyInv, CancelHasCause, [Next]_vars
  PROVE  CancelHasCause'
<1> SUFFICES ASSUME NEW c \in Call, reply'[c] = "Cancelled"
             PROVE  Closed(c)' \/ Closed(leader[c])' \/ reply'[leader'[c]] = "Error"
  BY DEF CancelHasCause, Closed
<1>1. Lasts(c)
  BY NextLasts
<1>2. None # "Cancelled" /\ None # "Error"
  BY AbsenceAssumption DEF Reply
<1>3. PICK e \in Call : /\ leader[c] = e /\ leader'[c] = e
                        /\ Closed(c)' \/ Closed(e) \/ reply[e] = "Error"
  <2>1. CASE reply[c] # None
    <3>1. reply[c] = "Cancelled" /\ leader'[c] = leader[c]
      BY <2>1, LeaderSettled
    <3>2. leader[c] \in Call
      BY <3>1 DEF ReplyInv, FInv, TInv, PortalTypeOK
    <3> QED BY <3>1, <3>2, <1>1 DEF CancelHasCause, Lasts
  <2>2. CASE reply[c] = None
    <3>1. reply'[c] # None /\ reply'[c] \notin Result \cup {"DuplicateHandle", "Error"}
      BY <1>2 DEF Result
    <3>2. /\ pc[c] = "wait" /\ leader'[c] = leader[c] /\ leader[c] \in Call
          /\ response[c] = Dropped \/ Closed(c)
      BY <2>2, <3>1, ReplyGiven
    <3>3. response[c] = Dropped => Closed(leader[c]) \/ reply[leader[c]] = "Error"
      BY <3>2 DEF CauseInv
    <3> QED BY <3>2, <3>3, <1>1 DEF Lasts
  <2> QED BY <2>1, <2>2
<1>4. Lasts(e)
  BY NextLasts
<1>5. Closed(e)' => Closed(leader[c])'
  BY <1>3 DEF Closed
<1> QED BY <1>2, <1>3, <1>4, <1>5 DEF Lasts

-----------------------------------------------------------------------------
\* A request that left its group before the group was answered.
LeftAlone(c) ==
  /\ pc[c] \in {"unserve", "done"}
  /\ (reply[c] = "Cancelled" /\ Closed(c)) \/ reply[c] = "Error"

\* The others of a group share its fate.
SameFate ==
  \A c, d \in Call : leader[c] = leader[d] /\ leader[c] # None =>
    Fate(c) = Fate(d) \/ LeftAlone(c) \/ LeftAlone(d)

\* Who left alone stays so.
LEMMA LeftAloneLasts ==
  ASSUME FInv, [Next]_vars, NEW c \in Call, LeftAlone(c)
  PROVE  LeftAlone(c)'
<1>1. "Cancelled" # None /\ "Error" # None
  BY AbsenceAssumption DEF Reply
<1>2. pc'[c] \in {"unserve", "done"} /\ reply'[c] = reply[c] /\ (Closed(c) => Closed(c)')
  BY <1>1, NextLasts DEF Lasts, LeftAlone
<1> QED BY <1>2 DEF LeftAlone, Closed

\* A set of registered requests is decided together: it is all that is left of a
\* group, or those in it leave alone.
LEMMA SameFateMoves ==
  ASSUME FInv, SameFate, [Next]_vars, UNCHANGED leader,
         NEW S \in SUBSET Call, \A c \in S : Registered(c),
         \A c \in Call \ S : Fate(c)' = Fate(c),
         \A c, d \in S : Fate(c)' = Fate(d)',
         \/ \A c \in S : LeftAlone(c)'
         \/ \A c \in S, d \in Call : Registered(d) /\ leader[d] = leader[c] => d \in S
  PROVE  SameFate'
<1> SUFFICES ASSUME NEW c \in Call, NEW d \in Call, leader[c] = leader[d], leader[c] # None
             PROVE  Fate(c)' = Fate(d)' \/ LeftAlone(c)' \/ LeftAlone(d)'
  BY DEF SameFate
<1>1. ASSUME NEW x \in S, NEW y \in Call \ S, leader[x] = leader[y], leader[x] # None
      PROVE  LeftAlone(x)' \/ LeftAlone(y)'
  <2>1. CASE LeftAlone(x)'
    BY <2>1
  <2>2. CASE ~LeftAlone(x)'
    <3>1. ~Registered(y)
      BY <1>1, <2>2
    <3>2. Fate(y) # Pending
      BY <1>1, <3>1 DEF FInv, FateInv
    <3>3. Registered(x)
      OBVIOUS
    <3>4. Fate(x) = Pending /\ pc[x] \in Waiting
      BY <3>3, RegisteredEntry DEF FInv, TInv, FateInv, Fate
    <3>5. ~LeftAlone(x)
      BY <3>4 DEF LeftAlone, Waiting
    <3>6. LeftAlone(y)
      BY <1>1, <3>2, <3>4, <3>5 DEF SameFate
    <3> QED BY <3>6, LeftAloneLasts
  <2> QED BY <2>1, <2>2
<1>2. CASE c \in S /\ d \in S
  BY <1>2
<1>3. CASE c \in S /\ d \notin S
  BY <1>1, <1>3
<1>4. CASE c \notin S /\ d \in S
  BY <1>1, <1>4
<1>5. CASE c \notin S /\ d \notin S
  BY <1>5, LeftAloneLasts DEF SameFate
<1> QED BY <1>2, <1>3, <1>4, <1>5

\* A request that leaves takes its followers along, or leaves alone.
LEMMA SameFateDropped ==
  ASSUME FInv, CauseInv, SameFate, [Next]_vars, NEW c \in Call, DroppedIn(c)
  PROVE  SameFate'
<1> USE DEF FInv, TInv
<1>1. /\ pc[c] \in Waiting /\ Unregister(c) /\ pc'[c] \in {"unserve", "done"}
      /\ UNCHANGED <<leader, routing, closing>>
  BY DEF DroppedIn, ServeFails, PromptFails, Cleanup, Goto, Waiting, IInv, CallTypeOK
<1>2. reply'[c] = "Error" \/ (pc[c] = "cleanup" /\ reply'[c] = reply[c])
  BY DEF DroppedIn, ServeFails, PromptFails, Cleanup, Goto, Return, PortalTypeOK
<1> DEFINE S == ShedBy(c)
<1>3. /\ response' = [d \in Call |-> IF d \in S THEN Dropped ELSE response[d]]
      /\ \A d \in S : Registered(d) /\ d \in Call
  BY <1>1, UnregisterSheds
<1>4. S \in SUBSET Call
  BY <1>3
<1>5. \A d \in Call : Fate(d)' = IF d \in S THEN Dropped ELSE Fate(d)
  <2> HIDE DEF S
  <2> QED BY <1>1, <1>3 DEF Fate, FateInv
<1>6. \/ \A d \in S : LeftAlone(d)'
      \/ \A d \in S, e \in Call : Registered(e) /\ leader[e] = leader[d] => e \in S
  <2>1. CASE Registered(c) /\ leader[c] # c
    <3>1. S = {c}
      BY <2>1 DEF ShedBy
    <3>2. reply'[c] = "Error" \/ (reply'[c] = "Cancelled" /\ Closed(c))
      <4>1. pc[c] = "cleanup" => reply[c] = "Cancelled" /\ Closed(c)
        BY <2>1 DEF CauseInv
      <4> QED BY <4>1, <1>2
    <3>3. Closed(c) => Closed(c)'
      BY <1>1 DEF Closed
    <3>4. LeftAlone(c)'
      BY <1>1, <3>2, <3>3 DEF LeftAlone, Closed
    <3> QED BY <3>1, <3>4
  <2>2. CASE ~(Registered(c) /\ leader[c] # c)
    BY <2>2 DEF ShedBy, Followers
  <2> QED BY <2>1, <2>2
<1> HIDE DEF S
<1> QED BY <1>1, <1>3, <1>4, <1>5, <1>6, SameFateMoves

\* A new request joins a group that is not decided, or leads one of its own.
LEMMA SameFateReserved ==
  ASSUME FInv, TInv', SameFate, [Next]_vars,
         NEW c \in Call, NEW h \in Handle, NEW a \in App,
         BeginNotify(c, h, a), ReserveHandle(c, h, a)
  PROVE  SameFate'
<1> USE DEF FInv, TInv
<1>1. /\ pc[c] = "idle"
      /\ handleOf' = [handleOf EXCEPT ![c] = h]
      /\ appOf' = [appOf EXCEPT ![c] = a]
      /\ UNCHANGED <<response, routing>>
  BY DEF BeginNotify, ReserveHandle, Goto
<1>2. /\ ~Registered(c)
      /\ leader' = [leader EXCEPT ![c] = IF Grouped(a) = {} THEN c ELSE LeaderOf(a)]
  BY <1>1, ReserveEffect
<1>3. \A d \in Call : Fate(d)' = Fate(d)
  BY <1>1 DEF Fate
<1>4. Fate(c) = Pending
  BY <1>1 DEF Fate, FateInv
<1>5. /\ \A d \in Call : d # c => leader'[d] = leader[d]
      /\ leader'[c] = IF Grouped(a) = {} THEN c ELSE LeaderOf(a)
  BY <1>2 DEF PortalTypeOK
<1>6. ASSUME NEW d \in Call, d # c, leader'[d] = leader'[c], leader'[c] # None
      PROVE  Fate(d)' = Fate(c)' \/ LeftAlone(d)'
  <2>1. leader[d] = leader'[c]
    BY <1>5, <1>6
  <2>2. Grouped(a) # {}
    BY <1>1, <1>5, <1>6, <2>1 DEF LeaderInv
  <2> DEFINE p == LeaderOf(a)
  <2>3. p \in Grouped(a)
    BY <2>2, GroupedIs
  <2>4. p \in Call /\ Registered(p) /\ leader[p] = p
    BY <2>3 DEF Grouped, LeaderInv
  <2>5. Fate(p) = Pending /\ pc[p] \in Waiting
    BY <2>4, RegisteredEntry DEF FateInv, Fate
  <2>6. leader[d] = leader[p] /\ leader[d] # None
    BY <1>5, <1>6, <2>1, <2>2, <2>4
  <2>7. Fate(d) = Pending \/ LeftAlone(d) \/ LeftAlone(p)
    BY <2>4, <2>5, <2>6 DEF SameFate
  <2>8. ~LeftAlone(p)
    BY <2>5 DEF LeftAlone, Waiting
  <2> QED BY <2>7, <2>8, <1>3, <1>4, LeftAloneLasts
<1>7. ASSUME NEW d \in Call, NEW e \in Call, d # c, e # c, leader'[d] = leader'[e], leader'[d] # None
      PROVE  Fate(d)' = Fate(e)' \/ LeftAlone(d)' \/ LeftAlone(e)'
  BY <1>3, <1>5, <1>7, LeftAloneLasts DEF SameFate
<1> SUFFICES ASSUME NEW d \in Call, NEW e \in Call, leader'[d] = leader'[e], leader'[d] # None
             PROVE  Fate(d)' = Fate(e)' \/ LeftAlone(d)' \/ LeftAlone(e)'
  BY DEF SameFate
<1>8. CASE d = c /\ e = c
  BY <1>8
<1>9. CASE d = c /\ e # c
  BY <1>6, <1>9
<1>10. CASE d # c /\ e = c
  BY <1>6, <1>10
<1> QED BY <1>7, <1>8, <1>9, <1>10

\* A step that decides nothing.
LEMMA SameFateKept ==
  ASSUME FInv, SameFate, [Next]_vars, UNCHANGED leader, \A c \in Call : Fate(c)' = Fate(c)
  PROVE  SameFate'
<1>1. ASSUME NEW c \in Call, NEW d \in Call, leader[c] = leader[d], leader[c] # None
      PROVE  Fate(c)' = Fate(d)' \/ LeftAlone(c)' \/ LeftAlone(d)'
  BY <1>1, LeftAloneLasts DEF SameFate
<1> QED BY <1>1 DEF SameFate

\* Every step decides for whole groups.
LEMMA NextSameFate ==
  ASSUME FInv, TInv', CauseInv, SameFate, [Next]_vars
  PROVE  SameFate'
<1> USE DEF FInv, TInv
<1>1. ASSUME UNCHANGED <<response, routing, leader>>
      PROVE  SameFate'
  BY <1>1, SameFateKept DEF Fate
<1>2. ASSUME NEW c \in Call, NEW r \in {"allow", "deny"}, AnswerFromConfig(c, r)
      PROVE  SameFate'
  BY <1>1, <1>2 DEF AnswerFromConfig
<1>3. ASSUME NEW c \in Call, NEW h \in Handle, NEW a \in App, BeginNotify(c, h, a)
      PROVE  SameFate'
  BY <1>1, <1>3, SameFateReserved DEF BeginNotify, RefuseDuplicate
<1>4. ASSUME NEW c \in Call, Notify(c)
      PROVE  SameFate'
  <2>1. CASE DroppedIn(c)
    BY <2>1, SameFateDropped
  <2>2. CASE ~DroppedIn(c)
    BY <1>1, <1>4, <2>2 DEF DroppedIn, Notify, Serve, SendPrompt, AwaitAnswer, Finish
  <2> QED BY <2>1, <2>2
<1>5. CASE \E k \in Close : CloseRequest(k) \/ \E h \in Handle : BeginClose(k, h)
  BY <1>1, <1>5 DEF CloseRequest, BeginClose, CloseCancel, CloseWithdraw, CloseRemove, callVars
<1>6. CASE RouterTake
  <2>1. UNCHANGED <<response, leader>>
    BY <1>6 DEF RouterTake, callVars
  <2>2. CASE UNCHANGED routing
    BY <1>1, <2>1, <2>2
  <2>3. ASSUME routing = NotRouting, NEW a \in App, routing'.senders = Grouped(a)
        PROVE  SameFate'
    <3> DEFINE S == Grouped(a)
    <3>1. S \in SUBSET Call /\ \A c \in S : Registered(c)
      BY DEF Grouped
    <3>2. \A c \in Call : Fate(c)' = IF c \in S THEN routing'.result ELSE Fate(c)
      BY <2>1, <2>3 DEF Fate, NotRouting
    <3>3. \A c \in S, d \in Call : Registered(d) /\ leader[d] = leader[c] => d \in S
      <4> SUFFICES ASSUME NEW c \in S, NEW d \in Call, Registered(d), leader[d] = leader[c]
                   PROVE  d \in S
        OBVIOUS
      <4>1. appOf[leader[c]] = appOf[c] /\ appOf[leader[d]] = appOf[d] /\ appOf[c] = a
        BY <3>1, LeaderFacts DEF Grouped
      <4> QED BY <4>1 DEF Grouped
    <3> HIDE DEF S
    <3> QED BY <2>1, <3>1, <3>2, <3>3, SameFateMoves
  <2> QED BY <1>6, <2>2, <2>3, RouterTakeSheds
<1>7. ASSUME NEW c \in Call, RouterSend(c)
      PROVE  SameFate'
  BY <1>7, FateSent, SameFateKept DEF RouterSend
<1>8. CASE UIStep \/ UNCHANGED vars
  BY <1>1, <1>8 DEF UIStep, vars, portalVars, callVars
<1> QED BY <1>2, <1>3, <1>4, <1>5, <1>6, <1>7, <1>8 DEF Next, BackgroundStep, Router, Rest

-----------------------------------------------------------------------------
\* What the theorems about answers rest on.
AInv ==
  /\ FInv /\ OInv
  /\ FreshInv /\ CloseInv
  /\ CauseInv /\ ReplyInv /\ CancelHasCause
  /\ SameFate

\* At the start nobody has been told anything.
LEMMA InitAInv == Init => AInv
<1> SUFFICES ASSUME Init PROVE AInv
  OBVIOUS
<1>1. FInv /\ OInv
  BY InitFInv, InitOInv
<1>2. "Cancelled" # None /\ "DuplicateHandle" # None /\ None \notin Result
  BY AbsenceAssumption DEF Reply
<1>3. FreshInv /\ CloseInv /\ CauseInv /\ ReplyInv /\ CancelHasCause
  BY <1>2 DEF Init, FreshInv, CloseInv, CauseInv, ReplyInv, CancelHasCause, IdleClose, Pending, Dropped
<1>4. SameFate
  BY DEF Init, SameFate
<1> QED BY <1>1, <1>3, <1>4 DEF AInv

\* Every step keeps AInv.
LEMMA NextAInv ==
  ASSUME HandleReuse = "never", AInv, [Next]_vars
  PROVE  AInv'
<1> USE DEF AInv
<1>1. FInv' /\ OInv'
  BY NextFInv, NextOInv
<1>2. TInv'
  BY <1>1 DEF FInv
<1>3. FreshInv' /\ CloseInv'
  BY NextFresh, NextClose
<1>4. CauseInv' /\ ReplyInv' /\ CancelHasCause'
  BY <1>2, NextCause, NextReply, NextCancelHasCause
<1>5. SameFate'
  BY <1>2, NextSameFate
<1> QED BY <1>1, <1>3, <1>4, <1>5

\* A request is told that it was cancelled only if its Request object was closed,
\* or its leader's was, or its leader could not ask: never because another
\* application's request, or another request of its own, ended.
THEOREM CancellationHasCause ==
  ASSUME HandleReuse = "never"
  PROVE  Spec => []CancelHasCause
<1>1. Init => AInv
  BY InitAInv
<1>2. AInv /\ [Next]_vars => AInv'
  BY NextAInv
<1>3. AInv => CancelHasCause
  BY DEF AInv
<1> QED BY <1>1, <1>2, <1>3, PTL DEF Spec

\* Requests of one group that are answered get the same answer, and the answer
\* passes by nobody but who was closed or could not be served.
THEOREM AnswersAreShared ==
  ASSUME HandleReuse = "never"
  PROVE  Spec => []CoalescedShareAnswer
<1>1. Init => AInv
  BY InitAInv
<1>2. AInv /\ [Next]_vars => AInv'
  BY NextAInv
<1>3. AInv => CoalescedShareAnswer
  <2> SUFFICES ASSUME AInv, NEW c \in Call, NEW d \in Call,
                      leader[c] # None, leader[c] = leader[d],
                      reply[c] \in Result, reply[d] # None
               PROVE  \/ reply[d] = reply[c]
                      \/ reply[d] = "Cancelled" /\ Closed(d)
                      \/ reply[d] = "Error"
    BY DEF CoalescedShareAnswer
  <2> USE DEF AInv
  <2>1. \A e \in Call : response[e] # Pending => Fate(e) = response[e]
    BY DEF FInv, FateInv, Fate
  <2>2. Pending \notin Result /\ Dropped \notin Result /\ Dropped # Pending
        /\ "Cancelled" \notin Result /\ "Error" \notin Result
    BY DEF Pending, Dropped, Result
  <2>3. response[c] = reply[c] /\ Fate(c) = reply[c]
    BY <2>1, <2>2 DEF ReplyInv
  <2>4. ~LeftAlone(c)
    BY <2>2 DEF LeftAlone
  <2>5. Fate(d) = Fate(c) \/ LeftAlone(d)
    BY <2>4 DEF SameFate
  <2>6. reply[d] \in Result \cup {"Cancelled", "DuplicateHandle", "Error"}
    BY DEF FInv, TInv, PortalTypeOK, Reply
  <2>7. CASE reply[d] \in Result
    <3>1. Fate(d) = reply[d]
      BY <2>1, <2>2, <2>7 DEF ReplyInv
    <3>2. ~LeftAlone(d)
      BY <2>2, <2>7 DEF LeftAlone
    <3> QED BY <2>3, <2>5, <3>1, <3>2
  <2>8. CASE reply[d] = "Cancelled"
    <3>1. response[d] = Dropped \/ Closed(d)
      BY <2>8 DEF ReplyInv
    <3>2. response[d] = Dropped => LeftAlone(d)
      BY <2>1, <2>2, <2>3, <2>5
    <3>3. LeftAlone(d) => Closed(d)
      BY <2>8 DEF LeftAlone
    <3> QED BY <2>8, <3>1, <3>2, <3>3
  <2>9. reply[d] # "DuplicateHandle"
    BY DEF ReplyInv
  <2> QED BY <2>6, <2>7, <2>8, <2>9
<1> QED BY <1>1, <1>2, <1>3, PTL DEF Spec

-----------------------------------------------------------------------------
(***************************************************************************)
(* The prompt of a waiting leader is not lost in the dialog.               *)
(***************************************************************************)

\* What is sent joins the end of a channel.
LEMMA AppendContains ==
  ASSUME NEW T, NEW s \in Seq(T), NEW e \in T
  PROVE  \A x : Contains(Append(s, e), x) <=> Contains(s, x) \/ x = e
<1> DEFINE r == Append(s, e)
<1>1. /\ Len(s) \in Nat /\ Len(r) = Len(s) + 1 /\ r[Len(s) + 1] = e
      /\ \A i \in 1 .. Len(s) : r[i] = s[i]
  OBVIOUS
<1>2. ASSUME NEW x, Contains(s, x) PROVE Contains(r, x)
  <2>1. PICK i \in 1 .. Len(s) : s[i] = x
    BY <1>2 DEF Contains
  <2>2. i \in 1 .. Len(r) /\ r[i] = x
    BY <1>1, <2>1
  <2> QED BY <2>2 DEF Contains
<1>3. Contains(r, e)
  BY <1>1 DEF Contains
<1>4. ASSUME NEW x, Contains(r, x) PROVE Contains(s, x) \/ x = e
  <2>1. PICK i \in 1 .. Len(r) : r[i] = x
    BY <1>4 DEF Contains
  <2>2. i \in 1 .. Len(s) \/ i = Len(s) + 1
    BY <1>1, <2>1
  <2> QED BY <1>1, <2>1, <2>2 DEF Contains
<1> QED BY <1>2, <1>3, <1>4

\* What is received leaves its front.
LEMMA TailContains ==
  ASSUME NEW T, NEW s \in Seq(T), s # <<>>
  PROVE  /\ Head(s) \in T /\ Tail(s) \in Seq(T)
         /\ \A x : Contains(s, x) <=> x = Head(s) \/ Contains(Tail(s), x)
<1> DEFINE r == Tail(s)
<1>1. /\ Len(s) \in Nat /\ Len(s) > 0 /\ Len(r) = Len(s) - 1 /\ Head(s) = s[1]
      /\ \A i \in 1 .. Len(r) : r[i] = s[i + 1]
  OBVIOUS
<1>2. ASSUME NEW x, Contains(r, x) PROVE Contains(s, x)
  <2>1. PICK i \in 1 .. Len(r) : r[i] = x
    BY <1>2 DEF Contains
  <2>2. i + 1 \in 1 .. Len(s) /\ s[i + 1] = x
    BY <1>1, <2>1
  <2> QED BY <2>2 DEF Contains
<1>3. Contains(s, Head(s))
  BY <1>1 DEF Contains
<1>4. ASSUME NEW x, Contains(s, x), x # Head(s) PROVE Contains(r, x)
  <2>1. PICK i \in 1 .. Len(s) : s[i] = x
    BY <1>4 DEF Contains
  <2>2. i # 1
    BY <1>1, <1>4, <2>1
  <2>3. i - 1 \in 1 .. Len(r) /\ r[i - 1] = x
    <3>1. i - 1 \in 1 .. Len(r)
      BY <1>1, <2>1, <2>2
    <3>2. r[i - 1] = s[(i - 1) + 1]
      BY <1>1, <3>1
    <3> QED BY <2>1, <3>1, <3>2
  <2> QED BY <2>3 DEF Contains
<1> QED BY <1>2, <1>3, <1>4

\* The elements of two sequences, one after the other.
LEMMA ConcatElements ==
  ASSUME NEW T, NEW a \in Seq(T), NEW b \in Seq(T)
  PROVE  /\ Len(a \o b) = Len(a) + Len(b)
         /\ \A n \in 1 .. Len(a) + Len(b) :
              (a \o b)[n] = IF n <= Len(a) THEN a[n] ELSE b[n - Len(a)]
OBVIOUS

\* What remains when an element is removed was there.
LEMMA RemoveAtContains ==
  ASSUME NEW T, NEW s \in Seq(T), NEW i \in DOMAIN s, NEW x, Contains(RemoveAt(s, i), x)
  PROVE  Contains(s, x)
<1> DEFINE a == SubSeq(s, 1, i - 1)
           b == SubSeq(s, i + 1, Len(s))
           r == a \o b
<1>1. DOMAIN s = 1 .. Len(s) /\ Len(s) \in Nat /\ i \in 1 .. Len(s)
  OBVIOUS
<1>2. /\ a \in Seq(T) /\ Len(a) = i - 1
      /\ \A n \in 1 .. Len(a) : a[n] = s[n]
  BY <1>1
<1>3. /\ b \in Seq(T) /\ Len(b) = Len(s) - i
      /\ \A n \in 1 .. Len(b) : b[n] = s[i + n]
  BY <1>1
<1>4. r = RemoveAt(s, i)
  BY DEF RemoveAt
<1> HIDE DEF a, b
<1>5. /\ Len(r) = Len(a) + Len(b)
      /\ \A n \in 1 .. Len(a) : r[n] = a[n]
      /\ \A n \in 1 .. Len(r) : n > Len(a) => r[n] = b[n - Len(a)]
  <2>1. /\ Len(r) = Len(a) + Len(b)
        /\ \A n \in 1 .. Len(a) + Len(b) : r[n] = IF n <= Len(a) THEN a[n] ELSE b[n - Len(a)]
    BY <1>2, <1>3, ConcatElements
  <2>2. Len(a) \in Nat /\ Len(b) \in Nat
    BY <1>2, <1>3
  <2> HIDE DEF r
  <2> QED BY <2>1, <2>2
<1>6. PICK n \in 1 .. Len(r) : r[n] = x
  BY <1>4 DEF Contains
<1> HIDE DEF r
<1>7. CASE n \in 1 .. Len(a)
  <2>1. n \in 1 .. Len(s) /\ s[n] = x
    BY <1>1, <1>2, <1>5, <1>6, <1>7
  <2> QED BY <2>1 DEF Contains
<1>8. CASE n \notin 1 .. Len(a)
  <2> DEFINE m == n - Len(a)
  <2>1. n > Len(a) /\ m \in 1 .. Len(b)
    BY <1>1, <1>2, <1>3, <1>5, <1>6, <1>8
  <2>2. r[n] = b[m] /\ b[m] = s[i + m]
    BY <1>3, <1>5, <1>6, <2>1
  <2>3. i + m \in 1 .. Len(s)
    BY <1>1, <1>3, <2>1
  <2> QED BY <1>6, <2>2, <2>3 DEF Contains
<1> QED BY <1>7, <1>8

\* An answer for the handle is among those of a sequence.
HasAnswer(s, h) == \E i \in DOMAIN s : s[i].handle = h

\* An answer that the dialog adds to the channel.
LEMMA AnswerIsAdded ==
  ASSUME NEW T, NEW s \in Seq(T), NEW e \in T, NEW h
  PROVE  HasAnswer(Append(s, e), h) <=> HasAnswer(s, h) \/ e.handle = h
<1> DEFINE r == Append(s, e)
<1>1. /\ Len(s) \in Nat /\ DOMAIN r = 1 .. Len(s) + 1 /\ r[Len(s) + 1] = e
      /\ DOMAIN s = 1 .. Len(s) /\ \A i \in 1 .. Len(s) : r[i] = s[i]
  OBVIOUS
<1> HIDE DEF r
<1>2. DOMAIN r = DOMAIN s \cup {Len(s) + 1}
  BY <1>1
<1>3. \A i \in DOMAIN s : r[i].handle = s[i].handle
  BY <1>1
<1>4. r[Len(s) + 1].handle = e.handle
  BY <1>1
<1>5. HasAnswer(r, h) <=> HasAnswer(s, h) \/ e.handle = h
  BY <1>2, <1>3, <1>4 DEF HasAnswer
<1> QED BY <1>5 DEF r

\* A background prompt on display has a window.
ShownInv == guiMode = "BackgroundPrompt" => WindowShow

\* A handle that the dialog was told, or will be told, not to ask about.
Withdrawn(h) == IsTombstoned(h) \/ InInbox(ClosePrompt(h))

\* The window closes, and the prompt that waited longest is shown.
LEMMA CloseAndShowNextKeeps ==
  ASSUME UIInv, NEW mode \in GuiMode, mode # "BackgroundPrompt", NEW active,
         CloseAndShowNext(mode, active)
  PROVE  /\ ShownInv'
         /\ \A h \in Handle : Contains(queue, h) => Contains(queue, h)' \/ OnDisplay(h)'
<1>1. queue \in Seq(Handle)
  BY DEF UIInv, UITypeOK
<1>2. CASE queue = <<>>
  <2>1. guiMode' = mode /\ queue' = queue
    BY <1>2 DEF CloseAndShowNext
  <2> QED BY <2>1 DEF ShownInv, Contains
<1>3. CASE queue # <<>>
  <2>1. OpenBackgroundPrompt(Head(queue)) /\ queue' = Tail(queue)
    BY <1>3 DEF CloseAndShowNext
  <2>2. windowId' \in WindowId
    BY <2>1 DEF OpenBackgroundPrompt, Unique, FreshIds
  <2>3. windowId' # NoWindow
    BY <2>2, CapacityAssumption DEF WindowId, NoWindow
  <2>4. \A h : Contains(queue, h) <=> h = Head(queue) \/ Contains(Tail(queue), h)
    BY <1>1, <1>3, TailContains
  <2> QED BY <2>1, <2>3, <2>4 DEF OpenBackgroundPrompt, OnDisplay, ShownInv, WindowShow, Contains
<1> QED BY <1>2, <1>3

\* A background prompt stays on display with a window.
LEMMA UIKeepsShown ==
  ASSUME UIInv, ShownInv, UINext
  PROVE  ShownInv'
<1>1. CASE PressAny
  BY <1>1 DEF PressAny, Press, windowVars, ShownInv, WindowShow
<1>2. CASE Selected
  <2>1. CASE UNCHANGED windowVars
    BY <2>1 DEF windowVars, ShownInv, WindowShow
  <2>2. CASE CloseAndShowNext("ScreenShot", None)
    BY <2>2, CloseAndShowNextKeeps DEF GuiMode, DialogKind, Chooser, Permission
  <2>3. CASE guiMode # "BackgroundPrompt" /\ CloseAndShowNext(guiMode, activeHandle)
    BY <2>3, CloseAndShowNextKeeps DEF UIInv, UITypeOK
  <2> QED BY <1>2, <2>1, <2>2, <2>3 DEF Selected, SelectedBackground, SelectedDialog
<1>3. ASSUME NEW k \in DialogKind, NEW d \in Asker, DialogOpen(k, d)
      PROVE  ShownInv'
  <2>1. k # "BackgroundPrompt"
    BY DEF DialogKind, Chooser, Permission
  <2> QED BY <1>3, <2>1 DEF DialogOpen, ShownInv, WindowShow
<1>4. ASSUME NEW h \in Handle, BackgroundPrompt(h)
      PROVE  ShownInv'
  <2>1. CASE UNCHANGED windowVars
    BY <2>1 DEF windowVars, ShownInv, WindowShow
  <2>2. CASE PromptShown(h)
    <3>1. windowId' \in WindowId
      BY <2>2 DEF PromptShown, OpenBackgroundPrompt, Unique, FreshIds
    <3>2. windowId' # NoWindow
      BY <3>1, CapacityAssumption DEF WindowId, NoWindow
    <3> QED BY <3>2 DEF ShownInv, WindowShow
  <2> QED BY <1>4, <2>1, <2>2
          DEF BackgroundPrompt, PromptWithdrawn, PromptOverflows, PromptQueued
<1>5. ASSUME NEW h \in Handle, CloseBackgroundPrompt(h)
      PROVE  ShownInv'
  <2>1. CASE CloseNotDisplayed(h)
    BY <2>1 DEF CloseNotDisplayed, windowVars, ShownInv, WindowShow
  <2>2. CASE CloseDisplayed(h)
    BY <2>2, CloseAndShowNextKeeps DEF CloseDisplayed, GuiMode, DialogKind, Chooser, Permission
  <2> QED BY <1>5, <2>1, <2>2 DEF CloseBackgroundPrompt
<1> QED BY <1>1, <1>2, <1>3, <1>4, <1>5 DEF UINext, Update

\* What the dialog takes from its inbox was there.
LEMMA ReceiveKeeps ==
  ASSUME UIInv, NEW m, Receive(m)
  PROVE  /\ InInbox(m)
         /\ \A x : InInbox(x) <=> x = m \/ InInbox(x)'
<1>1. inbox \in Seq(Message) /\ inbox # <<>> /\ m = Head(inbox) /\ inbox' = Tail(inbox)
  BY DEF Receive, UIInv, UITypeOK
<1>2. \A x : Contains(inbox, x) <=> x = Head(inbox) \/ Contains(Tail(inbox), x)
  BY <1>1, TailContains
<1> QED BY <1>1, <1>2 DEF InInbox, Contains

\* The dialog withdraws nothing of its own accord.
LEMMA UIWithdraws ==
  ASSUME UIInv, UINext, NEW h \in Handle, Withdrawn(h)'
  PROVE  Withdrawn(h)
<1> USE DEF Withdrawn
<1>1. ASSUME UNCHANGED tombstones, UNCHANGED inbox \/ \E m : Receive(m)
      PROVE  Withdrawn(h)
  BY <1>1, ReceiveKeeps DEF IsTombstoned, InInbox, Contains
<1>2. CASE PressAny \/ Selected
  BY <1>1, <1>2 DEF PressAny, Press, Selected, promptVars
<1>3. ASSUME NEW k \in DialogKind, NEW d \in Asker, DialogOpen(k, d)
      PROVE  Withdrawn(h)
  BY <1>1, <1>3 DEF DialogOpen, promptVars
<1>4. ASSUME NEW g \in Handle, BackgroundPrompt(g)
      PROVE  Withdrawn(h)
  <2>1. Receive(Prompt(g))
    BY <1>4 DEF BackgroundPrompt
  <2>2. CASE PromptWithdrawn(g)
    <3>1. PICK i \in DOMAIN tombstones : tombstones' = RemoveAt(tombstones, i)
      BY <2>2 DEF PromptWithdrawn
    <3>2. tombstones \in Seq(Handle)
      BY DEF UIInv, UITypeOK
    <3>3. Contains(RemoveAt(tombstones, i), h) => Contains(tombstones, h)
      BY <3>2, RemoveAtContains
    <3>4. IsTombstoned(h)' => IsTombstoned(h)
      BY <3>1, <3>3 DEF IsTombstoned, Contains
    <3> QED BY <2>1, <3>4, ReceiveKeeps
  <2>3. CASE UNCHANGED tombstones
    BY <1>1, <2>1, <2>3
  <2> QED BY <1>4, <2>2, <2>3
          DEF BackgroundPrompt, PromptOverflows, PromptQueued, PromptShown, promptVars
<1>5. ASSUME NEW g \in Handle, CloseBackgroundPrompt(g)
      PROVE  Withdrawn(h)
  <2>1. Receive(ClosePrompt(g))
    BY <1>5 DEF CloseBackgroundPrompt
  <2>2. CASE UNCHANGED tombstones
    BY <1>1, <2>1, <2>2
  <2>3. CASE tombstones' = Tombstoned(g)
    <3>1. tombstones \in Seq(Handle)
      BY DEF UIInv, UITypeOK
    <3>2. Contains(Tombstoned(g), h) => Contains(tombstones, h) \/ h = g
      <4>1. CASE IsTombstoned(g)
        BY <4>1 DEF Tombstoned
      <4>2. CASE ~IsTombstoned(g) /\ Len(tombstones) >= TombstoneCapacity
        <5>1. tombstones # <<>>
          BY <3>1, <4>2, CapacityAssumption
        <5>2. /\ Tail(tombstones) \in Seq(Handle)
              /\ Contains(Tail(tombstones), h) => Contains(tombstones, h)
          BY <3>1, <5>1, TailContains
        <5>3. Tombstoned(g) = Append(Tail(tombstones), g)
          BY <4>2 DEF Tombstoned
        <5>4. \A x : Contains(Append(Tail(tombstones), g), x) <=>
                       Contains(Tail(tombstones), x) \/ x = g
          BY <5>2, AppendContains
        <5> QED BY <5>2, <5>3, <5>4
      <4>3. CASE ~IsTombstoned(g) /\ ~(Len(tombstones) >= TombstoneCapacity)
        <5>1. Tombstoned(g) = Append(tombstones, g)
          BY <4>3 DEF Tombstoned
        <5> QED BY <3>1, <5>1, AppendContains
      <4> QED BY <4>1, <4>2, <4>3
    <3>3. IsTombstoned(h)' => IsTombstoned(h) \/ h = g
      BY <2>3, <3>2 DEF IsTombstoned, Contains
    <3> QED BY <2>1, <3>3, ReceiveKeeps
  <2> QED BY <1>5, <2>2, <2>3 DEF CloseBackgroundPrompt, CloseNotDisplayed, CloseDisplayed
<1> QED BY <1>2, <1>3, <1>4, <1>5 DEF UINext, Update

\* A prompt that is not withdrawn is shown, queued or answered; it is not lost.
LEMMA UIKeepsPrompt ==
  ASSUME UIInv, ShownInv, UINext, NEW h \in Handle, ~Withdrawn(h), PromptUnderWay(h)
  PROVE  PromptUnderWay(h)'
<1> DEFINE Answer == [handle : Handle, result : Result]
           Answered == HasAnswer(toBackground, h)
<1>1. /\ queue \in Seq(Handle) /\ inbox \in Seq(Message) /\ tombstones \in Seq(Handle)
      /\ toBackground \in Seq(Answer)
  BY DEF UIInv, UITypeOK
<1>2. PromptUnderWay(h) <=>
        OnDisplay(h) \/ Contains(queue, h) \/ InInbox(Prompt(h)) \/ Answered
  BY DEF PromptUnderWay, HasAnswer
<1>3. PromptUnderWay(h)' <=>
        OnDisplay(h)' \/ Contains(queue, h)' \/ InInbox(Prompt(h))' \/ Answered'
  BY DEF PromptUnderWay, HasAnswer
<1> HIDE DEF Answered, Answer
<1>4. ASSUME NEW e \in Answer, toBackground' = Append(toBackground, e)
      PROVE  (Answered => Answered') /\ (e.handle = h => Answered')
  <2>1. HasAnswer(Append(toBackground, e), h) <=> HasAnswer(toBackground, h) \/ e.handle = h
    BY <1>1, AnswerIsAdded
  <2> QED BY <1>4, <2>1 DEF Answered, HasAnswer
<1>5. ASSUME UNCHANGED toBackground
      PROVE  Answered' <=> Answered
  BY <1>5 DEF Answered, HasAnswer
<1>6. ASSUME NEW m, Receive(m), m # Prompt(h)
      PROVE  InInbox(Prompt(h)) => InInbox(Prompt(h))'
  BY <1>6, ReceiveKeeps
<1>7. ASSUME UNCHANGED inbox
      PROVE  InInbox(Prompt(h))' <=> InInbox(Prompt(h))
  BY <1>7 DEF InInbox, Contains
<1>8. ASSUME UNCHANGED queue
      PROVE  Contains(queue, h)' <=> Contains(queue, h)
  BY <1>8 DEF Contains
<1>9. ASSUME UNCHANGED windowVars
      PROVE  OnDisplay(h)' <=> OnDisplay(h)
  BY <1>9 DEF OnDisplay, windowVars
<1>10. CASE PressAny
  <2>1. UNCHANGED inbox /\ UNCHANGED queue /\ UNCHANGED toBackground /\ UNCHANGED windowVars
    BY <1>10 DEF PressAny, Press, promptVars
  <2> QED BY <2>1, <1>2, <1>3, <1>5, <1>7, <1>8, <1>9
<1>11. CASE Selected
  <2> DEFINE s == Head(clicks).select
  <2>1. InInbox(Prompt(h))' <=> InInbox(Prompt(h))
    BY <1>7, <1>11 DEF Selected
  <2>2. CASE UNCHANGED <<windowVars, queue, answers, toBackground>>
    BY <2>1, <2>2, <1>2, <1>3, <1>5, <1>8, <1>9
  <2>3. CASE Answers(Head(clicks)) /\ SelectedBackground(s)
    <3>1. /\ guiMode = "BackgroundPrompt" /\ s.kind \in Result /\ s.handle = activeHandle
          /\ toBackground' = Append(toBackground, [handle |-> s.handle, result |-> s.kind])
          /\ CloseAndShowNext("ScreenShot", None)
      BY <2>3 DEF SelectedBackground, Answers, Accepts
    <3>2. activeHandle \in Handle
      BY <3>1 DEF UIInv
    <3>3. [handle |-> s.handle, result |-> s.kind] \in Answer
      BY <3>1, <3>2 DEF Answer
    <3>4. (Answered => Answered') /\ (activeHandle = h => Answered')
      BY <3>1, <3>3, <1>4
    <3>5. Contains(queue, h) => Contains(queue, h)' \/ OnDisplay(h)'
      BY <3>1, CloseAndShowNextKeeps DEF GuiMode, DialogKind, Chooser, Permission
    <3>6. OnDisplay(h) => activeHandle = h
      BY DEF OnDisplay
    <3> QED BY <2>1, <3>4, <3>5, <3>6, <1>2, <1>3
  <2>4. CASE SelectedDialog(Head(clicks))
    <3>1. /\ guiMode # "BackgroundPrompt" /\ CloseAndShowNext(guiMode, activeHandle)
          /\ UNCHANGED toBackground
      BY <2>4 DEF SelectedDialog
    <3>2. Contains(queue, h) => Contains(queue, h)' \/ OnDisplay(h)'
      BY <3>1, CloseAndShowNextKeeps DEF UIInv, UITypeOK
    <3>3. ~OnDisplay(h)
      BY <3>1 DEF OnDisplay
    <3> QED BY <2>1, <3>1, <3>2, <3>3, <1>2, <1>3, <1>5
  <2> QED BY <1>11, <2>2, <2>3, <2>4 DEF Selected
<1>12. ASSUME NEW k \in DialogKind, NEW d \in Asker, DialogOpen(k, d)
       PROVE  PromptUnderWay(h)'
  <2>1. Receive(OpenDialog(k, d)) /\ UNCHANGED toBackground /\ UNCHANGED queue
    BY <1>12 DEF DialogOpen, promptVars
  <2>2. OpenDialog(k, d) # Prompt(h)
    BY DEF OpenDialog, Prompt, DialogKind, Chooser, Permission
  <2>3. InInbox(Prompt(h)) => InInbox(Prompt(h))'
    BY <2>1, <2>2, <1>6
  <2>4. OnDisplay(h) => OnDisplay(h)'
    BY <1>12 DEF DialogOpen, OnDisplay, ShownInv
  <2> QED BY <2>1, <2>3, <2>4, <1>2, <1>3, <1>5, <1>8
<1>13. ASSUME NEW g \in Handle, BackgroundPrompt(g)
       PROVE  PromptUnderWay(h)'
  <2>1. Receive(Prompt(g))
    BY <1>13 DEF BackgroundPrompt
  <2>2. Prompt(g) = Prompt(h) => g = h
    BY DEF Prompt
  <2>3. g # h => (InInbox(Prompt(h)) => InInbox(Prompt(h))')
    BY <2>1, <2>2, <1>6
  <2>4. CASE PromptWithdrawn(g)
    <3>1. UNCHANGED windowVars /\ UNCHANGED queue /\ UNCHANGED toBackground
      BY <2>4 DEF PromptWithdrawn
    <3>2. g # h
      <4>1. PICK i \in DOMAIN tombstones : tombstones[i] = g
        BY <2>4 DEF PromptWithdrawn
      <4>2. DOMAIN tombstones = 1 .. Len(tombstones)
        BY <1>1
      <4>3. IsTombstoned(g)
        BY <4>1, <4>2 DEF IsTombstoned, Contains
      <4> QED BY <4>3 DEF Withdrawn
    <3> QED BY <2>3, <3>1, <3>2, <1>2, <1>3, <1>5, <1>8, <1>9
  <2>5. CASE PromptOverflows(g)
    <3>1. /\ UNCHANGED windowVars /\ UNCHANGED queue
          /\ toBackground' = Append(toBackground, [handle |-> g, result |-> "once"])
      BY <2>5 DEF PromptOverflows, promptVars
    <3>2. [handle |-> g, result |-> "once"] \in Answer
      BY DEF Answer, Result
    <3>3. (Answered => Answered') /\ (g = h => Answered')
      BY <3>1, <3>2, <1>4
    <3> QED BY <2>3, <3>1, <3>3, <1>2, <1>3, <1>8, <1>9
  <2>6. CASE PromptQueued(g)
    <3>1. UNCHANGED windowVars /\ UNCHANGED toBackground /\ queue' = Append(queue, g)
      BY <2>6 DEF PromptQueued
    <3>2. \A x : Contains(Append(queue, g), x) <=> Contains(queue, x) \/ x = g
      BY <1>1, AppendContains
    <3>3. Contains(queue, h)' <=> Contains(queue, h) \/ g = h
      BY <3>1, <3>2 DEF Contains
    <3> QED BY <2>3, <3>1, <3>3, <1>2, <1>3, <1>5, <1>9
  <2>7. CASE PromptShown(g)
    <3>1. /\ ~WindowShow /\ guiMode' = "BackgroundPrompt" /\ activeHandle' = g
          /\ UNCHANGED toBackground /\ UNCHANGED queue
      BY <2>7 DEF PromptShown, OpenBackgroundPrompt, promptVars
    <3>2. ~OnDisplay(h) /\ (g = h => OnDisplay(h)')
      BY <3>1 DEF OnDisplay, ShownInv
    <3> QED BY <2>3, <3>1, <3>2, <1>2, <1>3, <1>5, <1>8
  <2> QED BY <1>13, <2>4, <2>5, <2>6, <2>7 DEF BackgroundPrompt
<1>14. ASSUME NEW g \in Handle, CloseBackgroundPrompt(g)
       PROVE  PromptUnderWay(h)'
  <2>1. Receive(ClosePrompt(g)) /\ UNCHANGED toBackground
    BY <1>14 DEF CloseBackgroundPrompt
  <2>2. InInbox(ClosePrompt(g))
    BY <2>1, ReceiveKeeps
  <2>3. g # h
    BY <2>2 DEF Withdrawn
  <2>4. ClosePrompt(g) # Prompt(h)
    BY DEF ClosePrompt, Prompt
  <2>5. InInbox(Prompt(h)) => InInbox(Prompt(h))'
    BY <2>1, <2>4, <1>6
  <2>6. CASE CloseNotDisplayed(g)
    <3>1. UNCHANGED windowVars /\ queue' = Without(queue, g)
      BY <2>6 DEF CloseNotDisplayed
    <3>2. Contains(Without(queue, g), h) <=> Contains(queue, h)
      BY <1>1, <2>3, WithoutKeeps
    <3>3. Contains(queue, h)' <=> Contains(queue, h)
      BY <3>1, <3>2 DEF Contains
    <3> QED BY <2>1, <2>5, <3>1, <3>3, <1>2, <1>3, <1>5, <1>9
  <2>7. CASE CloseDisplayed(g)
    <3>1. OnDisplay(g) /\ CloseAndShowNext("ScreenShot", None)
      BY <2>7 DEF CloseDisplayed
    <3>2. ~OnDisplay(h)
      BY <2>3, <3>1 DEF OnDisplay
    <3>3. Contains(queue, h) => Contains(queue, h)' \/ OnDisplay(h)'
      BY <3>1, CloseAndShowNextKeeps DEF GuiMode, DialogKind, Chooser, Permission
    <3> QED BY <2>1, <2>5, <3>2, <3>3, <1>2, <1>3, <1>5
  <2> QED BY <1>14, <2>6, <2>7 DEF CloseBackgroundPrompt
<1> QED BY <1>10, <1>11, <1>12, <1>13, <1>14 DEF UINext, Update

\* An answer leaves the channel from the front.
LEMMA AnswerIsTaken ==
  ASSUME NEW T, NEW s \in Seq(T), s # <<>>, NEW h, HasAnswer(s, h)
  PROVE  Head(s).handle = h \/ HasAnswer(Tail(s), h)
<1> DEFINE r == Tail(s)
<1>1. /\ Len(s) \in Nat /\ DOMAIN s = 1 .. Len(s) /\ DOMAIN r = 1 .. Len(s) - 1
      /\ Head(s) = s[1] /\ \A i \in 1 .. Len(s) - 1 : r[i] = s[i + 1]
  OBVIOUS
<1>2. PICK i \in DOMAIN s : s[i].handle = h
  BY DEF HasAnswer
<1> HIDE DEF r
<1>3. CASE i = 1
  BY <1>1, <1>2, <1>3
<1>4. CASE i # 1
  <2>1. i - 1 \in DOMAIN r /\ r[i - 1] = s[(i - 1) + 1] /\ (i - 1) + 1 = i
    BY <1>1, <1>4
  <2>2. r[i - 1].handle = h
    BY <1>2, <2>1
  <2>3. HasAnswer(r, h)
    BY <2>1, <2>2 DEF HasAnswer
  <2> QED BY <2>3 DEF r
<1> QED BY <1>3, <1>4

\* A handle whose answer was taken has no entry.
LEMMA TakeForgets ==
  ASSUME NEW reg \in Registry, MapsAgree(reg), NEW h \in Handle
  PROVE  TakeByHandle(reg, h).byHandle[h] = None
<1>1. CASE reg.byHandle[h] = None
  BY <1>1 DEF TakeByHandle, IsKnown
<1>2. CASE reg.byHandle[h] # None
  <2>1. /\ reg.byHandle[h].app \in App
        /\ h \in Members(reg.appHandles[reg.byHandle[h].app])
    BY <1>2 DEF Registry, Entry, MapsAgree
  <2>2. PICK a \in App : reg.byHandle[h].app = a /\ h \in Members(reg.appHandles[a])
    BY <2>1
  <2>3. TakeByHandle(reg, h) = RemoveApp(reg, a)
    BY <1>2, <2>2 DEF TakeByHandle, IsKnown
  <2>4. RemoveApp(reg, a).byHandle[h] = None
    BY <2>2 DEF RemoveApp, Forget
  <2> QED BY <2>3, <2>4
<1> QED BY <1>1, <1>2

-----------------------------------------------------------------------------
\* A handle is withdrawn only if its request is cancelled, and the prompt of a
\* leader that waits is on its way, on display or answered.
PromptInv ==
  /\ ShownInv
  /\ \A h \in Handle : Withdrawn(h) => \E c \in Call : handleOf[c] = h /\ cancelled[c]
  /\ \A c \in Call, h \in Handle :
       pc[c] = "wait" /\ prompts[c] /\ Registered(c) /\ ~cancelled[c] /\ handleOf[c] = h =>
         PromptUnderWay(h)

\* How a step of the portal touches the dialog's channels.
SentIn == (\E c \in Call : SendPrompt(c)) \/ \E k \in Close : CloseWithdraw(k)

ChannelsIn ==
  /\ UNCHANGED <<windowVars, promptVars>>
  /\ UNCHANGED inbox \/ SentIn
  /\ UNCHANGED toBackground \/ RouterTake

\* A step is the dialog's or touches no more than the channels.
LEMMA NextChannels ==
  ASSUME [Next]_vars
  PROVE  UIStep \/ ChannelsIn
<1> USE DEF ChannelsIn, SentIn, uiVars
<1>1. ASSUME NEW c \in Call, Notify(c)
      PROVE  ChannelsIn
  BY <1>1 DEF Notify, Serve, ServeFails, SendPrompt, PromptFails, AwaitAnswer, Cleanup, Finish
<1>2. ASSUME NEW k \in Close, CloseRequest(k)
      PROVE  ChannelsIn
  BY <1>2 DEF CloseRequest, CloseCancel, CloseWithdraw, CloseRemove
<1>3. CASE Router
  BY <1>3 DEF Router, RouterTake, RouterSend
<1>4. CASE UNCHANGED vars
  BY <1>4 DEF vars
<1>5. ASSUME NEW k \in Close, NEW h \in Handle, BeginClose(k, h)
      PROVE  ChannelsIn
  BY <1>5 DEF BeginClose
<1>6. ASSUME NEW c \in Call, NEW h \in Handle, NEW a \in App, BeginNotify(c, h, a)
      PROVE  ChannelsIn
  BY <1>6 DEF BeginNotify
<1>7. ASSUME NEW c \in Call, NEW r \in {"allow", "deny"}, AnswerFromConfig(c, r)
      PROVE  ChannelsIn
  BY <1>7 DEF AnswerFromConfig
<1> QED BY <1>1, <1>2, <1>3, <1>4, <1>5, <1>6, <1>7 DEF Next, BackgroundStep, Rest

\* What is sent to the dialog joins what its inbox holds.
LEMMA SentJoins ==
  ASSUME TInv, SentIn
  PROVE  /\ \A x : InInbox(x) => InInbox(x)'
         /\ \A h \in Handle : InInbox(ClosePrompt(h))' =>
              \/ InInbox(ClosePrompt(h))
              \/ \E k \in Close : /\ closing[k].pc = "withdraw"
                                  /\ handleOf[closing[k].call] = h
<1>1. inbox \in Seq(Message)
  BY DEF TInv, UIInv, UITypeOK
<1>2. ASSUME NEW m \in Message, inbox' = Append(inbox, m)
      PROVE  \A x : InInbox(x)' <=> InInbox(x) \/ x = m
  <2>1. \A x : Contains(Append(inbox, m), x) <=> Contains(inbox, x) \/ x = m
    BY <1>1, AppendContains
  <2> QED BY <1>2, <2>1 DEF InInbox, Contains
<1>3. ASSUME UNCHANGED inbox
      PROVE  \A x : InInbox(x)' <=> InInbox(x)
  BY <1>3 DEF InInbox, Contains
<1>4. ASSUME NEW c \in Call, SendPrompt(c), inbox' # inbox
      PROVE  /\ \A x : InInbox(x) => InInbox(x)'
             /\ \A h \in Handle : InInbox(ClosePrompt(h))' => InInbox(ClosePrompt(h))
  <2>1. inbox' = Append(inbox, Prompt(handleOf[c])) /\ pc[c] = "prompt"
    BY <1>4 DEF SendPrompt, Goto
  <2>2. handleOf[c] \in Handle
    BY <2>1 DEF TInv, IInv, CallsHaveParameters, Waiting
  <2>3. Prompt(handleOf[c]) \in Message
    BY <2>2, MessageTypes
  <2>4. \A h \in Handle : ClosePrompt(h) # Prompt(handleOf[c])
    BY DEF ClosePrompt, Prompt
  <2> QED BY <1>2, <2>1, <2>3, <2>4
<1>5. ASSUME NEW k \in Close, CloseWithdraw(k), inbox' # inbox
      PROVE  /\ \A x : InInbox(x) => InInbox(x)'
             /\ \A h \in Handle : InInbox(ClosePrompt(h))' =>
                  InInbox(ClosePrompt(h)) \/ handleOf[closing[k].call] = h
  <2> DEFINE g == handleOf[closing[k].call]
  <2>1. inbox' = Append(inbox, ClosePrompt(g)) /\ closing[k].pc = "withdraw"
    BY <1>5 DEF CloseWithdraw, CloseGoto
  <2>2. g \in Handle
    BY <2>1 DEF TInv, ObjectsHaveCalls
  <2>3. ClosePrompt(g) \in Message
    BY <2>2, MessageTypes
  <2>4. \A h \in Handle : ClosePrompt(h) = ClosePrompt(g) => g = h
    BY DEF ClosePrompt
  <2> QED BY <1>2, <2>1, <2>3, <2>4
<1>6. \A k \in Close : CloseWithdraw(k) => closing[k].pc = "withdraw"
  BY DEF CloseWithdraw, CloseGoto
<1> QED BY <1>3, <1>4, <1>5, <1>6 DEF SentIn

\* A handle is withdrawn by a Close of its request, after the cancellation.
LEMMA NextWithdrawn ==
  ASSUME AInv, PromptInv, [Next]_vars, NEW h \in Handle, Withdrawn(h)'
  PROVE  \E c \in Call : handleOf'[c] = h /\ cancelled'[c]
<1> USE DEF AInv, FInv, TInv
<1>1. ASSUME NEW c \in Call, handleOf[c] = h, cancelled[c]
      PROVE  handleOf'[c] = h /\ cancelled'[c]
  <2>1. handleOf[c] # None
    BY <1>1, NoneAssumption
  <2>2. pc[c] # "idle"
    BY <1>1, <2>1 DEF FreshInv
  <2> QED BY <1>1, <2>2, NextLasts DEF Lasts
<1>2. Withdrawn(h) \/ \E k \in Close : closing[k].pc = "withdraw" /\ handleOf[closing[k].call] = h
  <2>1. CASE UIStep
    BY <2>1, UIWithdraws DEF UIStep
  <2>2. CASE ChannelsIn
    <3>1. IsTombstoned(h)' <=> IsTombstoned(h)
      BY <2>2 DEF ChannelsIn, promptVars, IsTombstoned, Contains
    <3>2. CASE UNCHANGED inbox
      BY <3>1, <3>2 DEF Withdrawn, InInbox, Contains
    <3>3. CASE SentIn
      BY <3>1, <3>3, SentJoins DEF Withdrawn
    <3> QED BY <2>2, <3>2, <3>3 DEF ChannelsIn
  <2> QED BY <2>1, <2>2, NextChannels
<1>3. CASE Withdrawn(h)
  <2>1. PICK c \in Call : handleOf[c] = h /\ cancelled[c]
    BY <1>3 DEF PromptInv
  <2> QED BY <1>1, <2>1
<1>4. ASSUME NEW k \in Close, closing[k].pc = "withdraw", handleOf[closing[k].call] = h
      PROVE  \E c \in Call : handleOf'[c] = h /\ cancelled'[c]
  <2>1. closing[k].call \in Call /\ cancelled[closing[k].call]
    BY <1>4 DEF ObjectsHaveCalls, CloseInv
  <2> QED BY <1>1, <1>4, <2>1
<1> QED BY <1>2, <1>3, <1>4

\* The prompt of a leader that waits stays under way.
LEMMA NextPrompt ==
  ASSUME AInv, TInv', PromptInv, [Next]_vars, NEW c \in Call, NEW g \in Handle,
         pc'[c] = "wait", prompts'[c], Registered(c)', ~cancelled'[c], handleOf'[c] = g
  PROVE  PromptUnderWay(g)'
<1> USE DEF AInv, FInv
<1>1. Registered(c) /\ pc[c] \in Waiting /\ handleOf[c] \in Handle
  BY RegisteredBy, RegisteredEntry DEF TInv
<1>2. pc[c] # "idle"
  BY <1>1 DEF Waiting
<1>3. handleOf'[c] = handleOf[c] /\ handleOf[c] = g /\ prompts[c] /\ ~cancelled[c]
  BY <1>2, NextLasts DEF Lasts
<1>4. pc[c] = "wait" \/ SendPrompt(c)
  <2>1. MovedIn(c) => SendPrompt(c)
    BY DEF MovedIn, AnswerFromConfig, BeginNotify, ReserveHandle, RefuseDuplicate, Notify, Serve,
           ServeFails, PromptFails, AwaitAnswer, Cleanup, Finish, Goto, TInv, IInv, CallTypeOK
  <2> QED BY <2>1, NextChanges DEF ChangesOf
<1>5. CASE SendPrompt(c)
  <2>1. inbox' = Append(inbox, Prompt(g)) /\ inbox \in Seq(Message) /\ Prompt(g) \in Message
    BY <1>3, <1>5, MessageTypes DEF SendPrompt, TInv, UIInv, UITypeOK
  <2>2. Contains(Append(inbox, Prompt(g)), Prompt(g))
    BY <2>1, AppendContains
  <2>3. InInbox(Prompt(g))'
    BY <2>1, <2>2 DEF InInbox, Contains
  <2> QED BY <2>3 DEF PromptUnderWay
<1>6. CASE pc[c] = "wait"
  <2>1. PromptUnderWay(g)
    BY <1>1, <1>3, <1>6 DEF PromptInv
  <2>2. ~Withdrawn(g)
    <3>1. g # None
      BY NoneAssumption
    <3>2. \A d \in Call : handleOf[d] = g => d = c
      BY <1>3, <3>1 DEF FreshInv
    <3> QED BY <1>3, <3>2 DEF PromptInv
  <2>3. CASE UIStep
    BY <2>1, <2>2, <2>3, UIKeepsPrompt DEF UIStep, PromptInv, TInv
  <2>4. CASE ChannelsIn
    <3>1. (OnDisplay(g)' <=> OnDisplay(g)) /\ (Contains(queue, g)' <=> Contains(queue, g))
      BY <2>4 DEF ChannelsIn, windowVars, promptVars, OnDisplay, Contains
    <3>2. InInbox(Prompt(g)) => InInbox(Prompt(g))'
      <4>1. CASE UNCHANGED inbox
        BY <4>1 DEF InInbox, Contains
      <4>2. CASE SentIn
        BY <4>2, SentJoins
      <4> QED BY <2>4, <4>1, <4>2 DEF ChannelsIn
    <3>3. HasAnswer(toBackground, g) => HasAnswer(toBackground, g)'
      <4>1. CASE UNCHANGED toBackground
        BY <4>1 DEF HasAnswer
      <4>2. ASSUME RouterTake, HasAnswer(toBackground, g)
            PROVE  HasAnswer(toBackground, g)'
        <5>1. /\ toBackground \in Seq([handle : Handle, result : Result]) /\ toBackground # <<>>
              /\ toBackground' = Tail(toBackground)
              /\ registry' = TakeByHandle(registry, Head(toBackground).handle)
          BY <4>2 DEF RouterTake, TInv, UIInv, UITypeOK
        <5>2. Head(toBackground).handle = g \/ HasAnswer(Tail(toBackground), g)
          BY <4>2, <5>1, AnswerIsTaken
        <5>3. Head(toBackground).handle # g
          <6>1. PICK k \in Handle : registry'.byHandle[k] # None /\ registry'.byHandle[k].call = c
            BY DEF Registered
          <6>2. handleOf'[c] = k
            BY <6>1 DEF TInv, IInv, RegistryConsistent
          <6>3. registry'.byHandle[g] # None
            BY <1>3, <6>1, <6>2
          <6>4. TakeByHandle(registry, g).byHandle[g] = None
            BY TakeForgets DEF TInv, IInv, CallTypeOK, RegistryConsistent
          <6> QED BY <5>1, <6>3, <6>4
        <5> QED BY <5>1, <5>2, <5>3 DEF HasAnswer
      <4> QED BY <2>4, <4>1, <4>2 DEF ChannelsIn
    <3> QED BY <2>1, <3>1, <3>2, <3>3 DEF PromptUnderWay, HasAnswer
  <2> QED BY <2>3, <2>4, NextChannels
<1> QED BY <1>4, <1>5, <1>6

\* Every step keeps PromptInv.
LEMMA NextPromptInv ==
  ASSUME AInv, TInv', PromptInv, [Next]_vars
  PROVE  PromptInv'
<1>1. ShownInv'
  <2>1. CASE UIStep
    BY <2>1, UIKeepsShown DEF UIStep, PromptInv, AInv, FInv, TInv
  <2>2. CASE ChannelsIn
    BY <2>2 DEF ChannelsIn, windowVars, ShownInv, WindowShow, PromptInv
  <2> QED BY <2>1, <2>2, NextChannels
<1>2. ASSUME NEW h \in Handle, Withdrawn(h)'
      PROVE  \E c \in Call : handleOf'[c] = h /\ cancelled'[c]
  BY <1>2, NextWithdrawn
<1>3. ASSUME NEW c \in Call, NEW h \in Handle,
             pc'[c] = "wait", prompts'[c], Registered(c)', ~cancelled'[c], handleOf'[c] = h
      PROVE  PromptUnderWay(h)'
  BY <1>3, NextPrompt
<1> QED BY <1>1, <1>2, <1>3 DEF PromptInv

\* At the start nothing is withdrawn and nobody waits.
LEMMA InitPromptInv == Init => PromptInv
<1> SUFFICES ASSUME Init PROVE PromptInv
  OBVIOUS
<1>1. ShownInv
  BY DEF Init, UIInit, ShownInv
<1>2. \A h \in Handle : ~Withdrawn(h)
  <2>1. inbox = <<>> /\ tombstones = <<>>
    BY DEF Init, UIInit
  <2>2. \A s, x : s = <<>> => ~Contains(s, x)
    BY DEF Contains
  <2> QED BY <2>1, <2>2 DEF Withdrawn, IsTombstoned, InInbox
<1>3. \A c \in Call : pc[c] # "wait"
  BY DEF Init
<1> QED BY <1>1, <1>2, <1>3 DEF PromptInv

\* Nobody waits behind a leader who does not move and whose prompt is not on its
\* way.
LEMMA NobodyIsStranded ==
  ASSUME AInv, PromptInv, NEW c \in Call, pc[c] = "wait", response[c] = Pending,
         c \notin routing.senders
  PROVE  /\ c \in SendersOf(registry, {handleOf[c]})
         /\ LET primary == registry.appHandles[appOf[c]].primary
            IN \/ PromptUnderWay(primary)
               \/ \E d \in Call : handleOf[d] = primary /\ RequestEnding(d)
<1> USE DEF AInv, FInv, TInv
<1>1. Registered(c)
  BY DEF FateInv, Fate, Waiting
<1>2. /\ handleOf[c] \in Handle /\ appOf[c] \in App
      /\ registry.byHandle[handleOf[c]] = [app |-> appOf[c], call |-> c]
  BY <1>1, RegisteredEntry
<1>3. registry.byHandle[handleOf[c]] # None
  BY <1>2, NoneAssumption DEF Entry
<1>4. c \in SendersOf(registry, {handleOf[c]})
  BY <1>2, <1>3 DEF SendersOf
<1>5. PICK p \in Call : /\ Registered(p) /\ prompts[p]
                        /\ registry.appHandles[appOf[c]].primary = handleOf[p]
  BY <1>1, <1>2, LeaderFacts, GroupedIs
<1>6. pc[p] \in Waiting /\ handleOf[p] \in Handle
  BY <1>5, RegisteredEntry
<1>7. RequestEnding(p) \/ PromptUnderWay(handleOf[p])
  <2>1. CASE pc[p] # "wait"
    BY <1>6, <2>1 DEF Waiting, RequestEnding
  <2>2. CASE pc[p] = "wait" /\ cancelled[p]
    BY <2>2 DEF RequestEnding
  <2>3. CASE pc[p] = "wait" /\ ~cancelled[p]
    BY <1>5, <1>6, <2>3 DEF PromptInv
  <2> QED BY <2>1, <2>2, <2>3
<1> QED BY <1>4, <1>5, <1>7

\* No request waits for nothing: its sender is with the router, or in the registry
\* behind a leader whose prompt is under way in the dialog or who is about to move
\* on.  A prompt lost in the dialog or a sender lost in the registry would leave
\* the caller of NotifyBackground without a reply for ever.
THEOREM NoRequestIsStranded ==
  ASSUME HandleReuse = "never"
  PROVE  Spec => []NoRequestStranded
<1>1. Init => AInv /\ PromptInv
  BY InitAInv, InitPromptInv
<1>2. AInv /\ PromptInv /\ [Next]_vars => AInv' /\ PromptInv'
  <2> SUFFICES ASSUME AInv, PromptInv, [Next]_vars
               PROVE  AInv' /\ PromptInv'
    OBVIOUS
  <2>1. AInv'
    BY NextAInv
  <2>2. TInv'
    BY <2>1 DEF AInv, FInv
  <2> QED BY <2>1, <2>2, NextPromptInv
<1>3. AInv /\ PromptInv => NoRequestStranded
  BY NobodyIsStranded DEF NoRequestStranded
<1> QED BY <1>1, <1>2, <1>3, PTL DEF Spec

=============================================================================
