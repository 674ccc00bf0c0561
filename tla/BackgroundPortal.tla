-------------------------- MODULE BackgroundPortal --------------------------
(***************************************************************************)
(* org.freedesktop.impl.portal.Background.NotifyBackground, together with  *)
(* everything that one call meets on its way: the registry of waiting      *)
(* calls, the Request object served for it, its Close method, the dialog   *)
(* and the router of the dialog's answers.                                 *)
(*                                                                         *)
(* Every D-Bus call is a task of its own.  A task may be overtaken between *)
(* any two of its awaits, so it has one action per await-free stretch:     *)
(*                                                                         *)
(*   notify_background   reserve, serve, prompt, wait, cleanup, unserve    *)
(*   Request.Close       cancel, withdraw, remove                          *)
(*   router              take the senders of a group, then send to each    *)
(***************************************************************************)
EXTENDS BackgroundRegistry, DialogUI

CONSTANTS
  Close,           \* calls of Request.Close
  HandleReuse,     \* when the caller may use a handle again
  MayFail          \* whether serving the object and the dialog may fail

ASSUME PortalAssumption ==
  /\ HandleReuse \in {"never", "afterReply", "any"}
  /\ MayFail \in BOOLEAN

VARIABLES
  registry,     \* pending_responses
  pc,           \* where each notify_background call stands
  handleOf,     \* its handle parameter
  appOf,        \* its app_id parameter
  prompts,      \* its should_prompt
  response,     \* its response_receiver
  cancelled,    \* whether its cancel_receiver is ready
  reply,        \* what it returned
  leader,       \* history: the call whose prompt it waits for
  served,       \* object server: the call whose Request is at each path
  closing,      \* where each Close call stands, and the Request it acts on
  routing       \* route_background_dialog_responses: senders and result

callVars == <<pc, handleOf, appOf, prompts, response, cancelled, reply, leader>>
portalVars == <<registry, callVars, served, closing, routing>>
vars == <<uiVars, portalVars>>

Pending == "pending"     \* a oneshot receiver with nothing yet
Dropped == "dropped"     \* its sender is gone
Reply == Result \cup {"Cancelled", "DuplicateHandle", "Error"}

ASSUME AbsenceAssumption ==
  None \notin Reply \cup {Pending, Dropped} \cup [asker : Call, members : SUBSET Call]

Waiting == {"serve", "prompt", "wait", "cleanup"}  \* reserved, not cleaned up
PC == Waiting \cup {"idle", "unserve", "done"}
IdleClose == [pc |-> "idle", call |-> None]
NotRouting == [senders |-> {}, result |-> None]

Init ==
  /\ UIInit
  /\ registry = EmptyRegistry
  /\ pc = [c \in Call |-> "idle"]
  /\ handleOf = [c \in Call |-> None]
  /\ appOf = [c \in Call |-> None]
  /\ prompts = [c \in Call |-> FALSE]
  /\ response = [c \in Call |-> Pending]
  /\ cancelled = [c \in Call |-> FALSE]
  /\ reply = [c \in Call |-> None]
  /\ leader = [c \in Call |-> None]
  /\ served = [h \in Handle |-> None]
  /\ closing = [k \in Close |-> IdleClose]
  /\ routing = NotRouting

-----------------------------------------------------------------------------
(* notify_background *)

Goto(c, from, to) == pc[c] = from /\ pc' = [pc EXCEPT ![c] = to]

Return(c, r) == reply' = [reply EXCEPT ![c] = r]

\* Dropping a sender wakes the receiver, unless it already has its answer.
DropSenders(cs) ==
  response' = [c \in Call |-> IF c \in cs /\ response[c] = Pending
                              THEN Dropped ELSE response[c]]

\* What the caller of the portal may pass as handle.
Usable(h) ==
  \A c \in Call : handleOf[c] = h =>
    CASE HandleReuse = "never"      -> FALSE
      [] HandleReuse = "afterReply" -> pc[c] = "done"
      [] HandleReuse = "any"        -> TRUE

\* background_permission_default is "allow" or "deny"
AnswerFromConfig(c, r) ==
  /\ Goto(c, "idle", "done")
  /\ Return(c, r)
  /\ UNCHANGED <<uiVars, registry, handleOf, appOf, prompts, response,
                 cancelled, leader, served, closing, routing>>

RefuseDuplicate(c, h) ==
  /\ IsDuplicate(registry, h)
  /\ Goto(c, "idle", "done")
  /\ Return(c, "DuplicateHandle")
  /\ UNCHANGED <<registry, prompts, leader>>

\* The call that a new request of the application waits behind.
LeaderOf(a) ==
  LET first == registry.byHandle[registry.appHandles[a].primary]
  IN IF first = None THEN None ELSE first.call

ReserveHandle(c, h, a) ==
  /\ ~IsDuplicate(registry, h)
  /\ Goto(c, "idle", "serve")
  /\ registry' = Reserve(registry, h, a, c)
  /\ prompts' = [prompts EXCEPT ![c] = PromptNeeded(registry, a)]
  /\ leader' = [leader EXCEPT ![c] =
                  IF PromptNeeded(registry, a) THEN c ELSE LeaderOf(a)]
  /\ UNCHANGED reply

BeginNotify(c, h, a) ==
  /\ Usable(h)
  /\ handleOf' = [handleOf EXCEPT ![c] = h]
  /\ appOf' = [appOf EXCEPT ![c] = a]
  /\ ReserveHandle(c, h, a) \/ RefuseDuplicate(c, h)
  /\ UNCHANGED <<uiVars, response, cancelled, served, closing, routing>>

\* server.at: a Request already at the path stays, and the new one is
\* dropped with its cancel_sender, which wakes the cancel_receiver.
Serve(c) ==
  /\ Goto(c, "serve", "prompt")
  /\ \/ /\ served[handleOf[c]] = None
        /\ served' = [served EXCEPT ![handleOf[c]] = c]
        /\ UNCHANGED cancelled
     \/ /\ served[handleOf[c]] # None
        /\ cancelled' = [cancelled EXCEPT ![c] = TRUE]
        /\ UNCHANGED served
  /\ UNCHANGED <<uiVars, registry, handleOf, appOf, prompts, response, reply,
                 leader, closing, routing>>

\* registry.remove_request for the call's own handle and application
Unregister(c) ==
  /\ registry' = RemoveRequest(registry, handleOf[c], appOf[c])
  /\ DropSenders(DroppedByRequest(registry, handleOf[c], appOf[c]))

ServeFails(c) ==
  /\ MayFail
  /\ Goto(c, "serve", "done")
  /\ Unregister(c)
  /\ Return(c, "Error")
  /\ UNCHANGED <<uiVars, handleOf, appOf, prompts, cancelled, leader, served,
                 closing, routing>>

\* Only the first request of an application asks the dialog.
SendPrompt(c) ==
  /\ Goto(c, "prompt", "wait")
  /\ inbox' = IF prompts[c] THEN Append(inbox, Prompt(handleOf[c])) ELSE inbox
  /\ UNCHANGED <<clicks, windowVars, promptVars, answers, toBackground, registry,
                 handleOf, appOf, prompts, response, cancelled, reply, leader,
                 served, closing, routing>>

PromptFails(c) ==
  /\ MayFail
  /\ prompts[c]
  /\ Goto(c, "prompt", "unserve")
  /\ Unregister(c)
  /\ Return(c, "Error")
  /\ UNCHANGED <<uiVars, handleOf, appOf, prompts, cancelled, leader, served,
                 closing, routing>>

RawResponse(c) == response[c]   \* mutant: a lost sender is taken for an answer

\* What select! returns: it is biased, so an answer, or the loss of its
\* sender, comes before the cancellation.
Awaited(c) == IF response[c] \in Result THEN response[c] ELSE "Cancelled"

AwaitAnswer(c) ==
  /\ Goto(c, "wait", "cleanup")
  /\ \/ response[c] # Pending
     \/ cancelled[c]
  /\ Return(c, Awaited(c))
  /\ UNCHANGED <<uiVars, registry, handleOf, appOf, prompts, response,
                 cancelled, leader, served, closing, routing>>

Cleanup(c) ==
  /\ Goto(c, "cleanup", "unserve")
  /\ Unregister(c)
  /\ UNCHANGED <<uiVars, handleOf, appOf, prompts, cancelled, reply, leader,
                 served, closing, routing>>

\* mutant: the Request stays at its path
UnserveNothing(h) == UNCHANGED <<served, cancelled>>

\* server.remove at a path: whichever Request is there goes, and its
\* cancel_sender with it unless a Close that runs on it still holds both.
Unserve(h) ==
  /\ served' = [served EXCEPT ![h] = None]
  /\ cancelled' = [c \in Call |->
       \/ cancelled[c]
       \/ /\ served[h] = c
          /\ \A k \in Close : closing[k] # [pc |-> "cancel", call |-> c]]

Finish(c) ==
  /\ Goto(c, "unserve", "done")
  /\ Unserve(handleOf[c])
  /\ UNCHANGED <<uiVars, registry, handleOf, appOf, prompts, response, reply,
                 leader, closing, routing>>

Notify(c) ==
  \/ Serve(c) \/ ServeFails(c)
  \/ SendPrompt(c) \/ PromptFails(c)
  \/ AwaitAnswer(c)
  \/ Cleanup(c)
  \/ Finish(c)

-----------------------------------------------------------------------------
(* RequestInterface::close *)

CloseGoto(k, from, to) ==
  closing[k].pc = from /\ closing' = [closing EXCEPT ![k].pc = to]

\* mutant: a request that does not prompt has nothing to close
BeginClosePrompt(k, h) ==
  /\ closing[k] = IdleClose
  /\ served[h] # None
  /\ closing' = [closing EXCEPT ![k] =
       [pc |-> IF prompts[served[h]] THEN "cancel" ELSE "done", call |-> served[h]]]
  /\ UNCHANGED <<uiVars, registry, callVars, served, routing>>

\* The call finds the Request that is at the path when it arrives.
BeginClose(k, h) ==
  /\ closing[k] = IdleClose
  /\ served[h] # None
  /\ closing' = [closing EXCEPT ![k] = [pc |-> "cancel", call |-> served[h]]]
  /\ UNCHANGED <<uiVars, registry, callVars, served, routing>>

\* The cancel_sender is taken by the first Close and is gone for the next.
CloseCancel(k) ==
  /\ CloseGoto(k, "cancel", "withdraw")
  /\ cancelled' = [cancelled EXCEPT ![closing[k].call] = TRUE]
  /\ UNCHANGED <<uiVars, registry, pc, handleOf, appOf, prompts, response,
                 reply, leader, served, routing>>

\* close_message is there only for a request that prompts.
CloseWithdraw(k) ==
  /\ CloseGoto(k, "withdraw", "remove")
  /\ inbox' = IF prompts[closing[k].call]
              THEN Append(inbox, ClosePrompt(handleOf[closing[k].call]))
              ELSE inbox
  /\ UNCHANGED <<clicks, windowVars, promptVars, answers, toBackground, registry,
                 callVars, served, routing>>

CloseRemove(k) ==
  /\ CloseGoto(k, "remove", "done")
  /\ Unserve(handleOf[closing[k].call])
  /\ UNCHANGED <<uiVars, registry, pc, handleOf, appOf, prompts, response,
                 reply, leader, routing>>

CloseRequest(k) == CloseCancel(k) \/ CloseWithdraw(k) \/ CloseRemove(k)

-----------------------------------------------------------------------------
(* route_background_dialog_responses *)

RouterTake ==
  /\ routing = NotRouting
  /\ toBackground # <<>>
  /\ toBackground' = Tail(toBackground)
  /\ LET answer == Head(toBackground)
         senders == TakenByHandle(registry, answer.handle)
     IN /\ registry' = TakeByHandle(registry, answer.handle)
        /\ routing' = IF senders = {} THEN NotRouting
                      ELSE [senders |-> senders, result |-> answer.result]
  /\ UNCHANGED <<inbox, clicks, windowVars, promptVars, answers, callVars, served,
                 closing>>

\* One sender after the other; a call that no longer waits loses nothing.
RouterSend(c) ==
  /\ c \in routing.senders
  /\ response' = [response EXCEPT ![c] = routing.result]
  /\ routing' = IF routing.senders = {c} THEN NotRouting
                ELSE [routing EXCEPT !.senders = @ \ {c}]
  /\ UNCHANGED <<uiVars, registry, pc, handleOf, appOf, prompts, cancelled,
                 reply, leader, served, closing>>

Router == RouterTake \/ \E c \in Call : RouterSend(c)

-----------------------------------------------------------------------------
(* The dialog.  Its steps touch nothing of the portal. *)

UIStep == UINext /\ UNCHANGED portalVars

\* Nothing is left to do until another call arrives.
Quiet ==
  /\ \A c \in Call : pc[c] = "idle" \/ pc[c] = "done"
  /\ \A k \in Close : closing[k].pc \in {"idle", "done"}
  /\ inbox = <<>> /\ clicks = <<>> /\ toBackground = <<>>
  /\ routing = NotRouting
  /\ queue = <<>> /\ ~WindowShow

Rest == Quiet /\ UNCHANGED vars

BackgroundStep ==
  \/ \E c \in Call, r \in {"allow", "deny"} : AnswerFromConfig(c, r)
  \/ \E c \in Call, h \in Handle, a \in App : BeginNotify(c, h, a)
  \/ \E c \in Call : Notify(c)
  \/ \E k \in Close, h \in Handle : BeginClose(k, h)
  \/ \E k \in Close : CloseRequest(k)
  \/ Router

Next == BackgroundStep \/ UIStep \/ Rest

Spec == Init /\ [][Next]_vars

\* Tasks that can go on do go on; so do the router and the event loop.
Fairness ==
  /\ \A c \in Call : WF_vars(Notify(c))
  /\ \A k \in Close : WF_vars(CloseRequest(k))
  /\ WF_vars(Router)
  /\ WF_vars(Selected /\ UNCHANGED portalVars)
  /\ WF_vars(Update /\ UNCHANGED portalVars)

\* A user who presses a button whenever a dialog is on display.
FairUser == WF_vars(PressAny /\ UNCHANGED portalVars)

FairSpec == Spec /\ Fairness

-----------------------------------------------------------------------------
(* Properties *)

TypeOK ==
  /\ UITypeOK
  /\ registry \in Registry
  /\ pc \in [Call -> PC]
  /\ handleOf \in [Call -> Handle \cup {None}]
  /\ appOf \in [Call -> App \cup {None}]
  /\ prompts \in [Call -> BOOLEAN]
  /\ response \in [Call -> Result \cup {Pending, Dropped}]
  /\ cancelled \in [Call -> BOOLEAN]
  /\ reply \in [Call -> Reply \cup {None}]
  /\ leader \in [Call -> Call \cup {None}]
  /\ served \in [Handle -> Call \cup {None}]
  /\ closing \in [Close -> [pc : {"idle", "cancel", "withdraw", "remove", "done"},
                           call : Call \cup {None}]]
  /\ routing \in [senders : SUBSET Call, result : Result \cup {None}]

\* The registry's two maps agree with each other, and an entry is the entry
\* of a call that is still between its reservation and its cleanup.
RegistryConsistent ==
  /\ MapsAgree(registry)
  /\ \A h \in Handle : registry.byHandle[h] # None =>
       LET c == registry.byHandle[h].call
       IN /\ pc[c] \in Waiting
          /\ handleOf[c] = h
          /\ appOf[c] = registry.byHandle[h].app

InInbox(m) == Contains(inbox, m)

\* A prompt for a handle that somebody will still show, answer or cancel.
PromptUnderWay(h) ==
  \/ OnDisplay(h)
  \/ Contains(queue, h)
  \/ InInbox(Prompt(h))
  \/ \E i \in DOMAIN toBackground : toBackground[i].handle = h

RequestEnding(c) ==
  \/ pc[c] \in {"serve", "prompt", "cleanup"}
  \/ pc[c] = "wait" /\ (cancelled[c] \/ response[c] # Pending)

\* No request waits for nothing: while a call waits, either the router holds
\* its sender, or it is registered and the prompt of its group's primary is
\* under way, or the primary itself is about to move on.  A prompt lost in
\* the dialog, or a sender lost in the registry, would leave the caller of
\* NotifyBackground without a reply for ever.
NoRequestStranded ==
  \A c \in Call : pc[c] = "wait" /\ response[c] = Pending /\ ~cancelled[c] =>
    \/ c \in routing.senders
    \/ /\ c \in SendersOf(registry, {handleOf[c]})
       /\ LET primary == registry.appHandles[appOf[c]].primary
          IN \/ PromptUnderWay(primary)
             \/ \E d \in Call : handleOf[d] = primary /\ RequestEnding(d)

Closed(c) == \E k \in Close : closing[k].call = c

\* A request is cancelled only because its own Request was closed or because
\* its leader's was, or because its leader could not ask.
CancelHasCause ==
  \A c \in Call : reply[c] = "Cancelled" =>
    Closed(c) \/ Closed(leader[c]) \/ reply[leader[c]] = "Error"

\* Coalesced requests share one answer: two of one group that were both
\* answered got the same, and no answer passes a request by that nobody
\* closed and that could be served.
CoalescedShareAnswer ==
  \A c, d \in Call : leader[c] # None /\ leader[c] = leader[d]
    /\ reply[c] \in Result /\ reply[d] # None =>
      \/ reply[d] = reply[c]
      \/ reply[d] = "Cancelled" /\ Closed(d)
      \/ reply[d] = "Error"

\* Whatever the caller does with handles, nothing is left over once every
\* request is answered: no entry, no group and no Request object leaks.
NothingLeftOver ==
  Quiet => registry = EmptyRegistry /\ \A h \in Handle : served[h] = None

(***************************************************************************)
(* The portal implements BackgroundConsent: the open question of an        *)
(* application is its group in the registry, and a request is decided when *)
(* its sender is taken, though it may hear of it later.                    *)
(***************************************************************************)
Consent == INSTANCE BackgroundConsent WITH
  question <- [a \in App |->
    IF registry.appHandles[a] = None THEN None
    ELSE [asker   |-> registry.byHandle[registry.appHandles[a].primary].call,
          members |-> SendersOfApp(registry, a)]],
  decision <- [c \in Call |->
    IF c \in routing.senders THEN routing.result
    ELSE IF response[c] = Pending THEN None ELSE response[c]]

\* Coalescing, routing, cancelling and failing amount, step by step, to
\* asking each application one question at a time.
ImplementsConsent == Consent!Spec

\* Every request gets its reply, if the user answers what is on display.  (The
\* calls are finitely many, so it is enough that time and again none is open.)
EveryRequestReplied ==
  FairUser => []<>(\A c \in Call : pc[c] \in {"idle", "done"})

\* Close works without the user: the closed request gets its reply ...
ClosedRequestReplied ==
  []<>(\A c \in Call : Closed(c) => pc[c] = "done")

\* ... and its prompt goes away for good, whatever order the two messages
\* reached the dialog in.
ClosedPromptGoesAway ==
  \A h \in Handle : InInbox(ClosePrompt(h))
    ~> [](~OnDisplay(h) /\ ~Contains(queue, h))
=============================================================================
