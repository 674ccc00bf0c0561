--------------------------- MODULE DialogClients ---------------------------
(***************************************************************************)
(* The portals that ask the user through the dialog and wait: Screenshot   *)
(* (src/src/screenshot.rs), ScreenCast.Start (src/src/screencast.rs) and   *)
(* RemoteDesktop.CreateSession (src/src/remotedesktop.rs), with PickColor  *)
(* and the Notify methods that share their interfaces.                     *)
(*                                                                         *)
(* The dialog answers on one channel per portal and an answer does not say *)
(* whom it is for.  What keeps answers apart is the object server: a       *)
(* method with &mut self holds its interface's write lock until it         *)
(* returns, so one interface has one dialog at a time.                     *)
(*                                                                         *)
(* The background portal takes part as traffic: prompts and withdrawals    *)
(* that arrive at any moment and compete for the one window.               *)
(***************************************************************************)
EXTENDS DialogUI, Functions

CONSTANTS
  ClientApp        \* application ids of the callers

VARIABLES
  at,              \* where each call stands
  operation,       \* the method it calls
  client,          \* its app_id parameter
  outcome,         \* what it returned
  whitelist,       \* WhiteListMaintainer: screen_shot and remote
  traffic          \* how far the background prompt of each handle is

clientVars == <<at, operation, client, outcome, whitelist, traffic>>
vars == <<uiVars, clientVars>>

Operation == {"Screenshot", "PickColor", "CastStart", "RemoteCreate",
              "RemoteNotify"}

InterfaceOf(op) ==
  CASE op \in {"Screenshot", "PickColor"}      -> "Screenshot"
    [] op = "CastStart"                        -> "ScreenCast"
    [] op \in {"RemoteCreate", "RemoteNotify"} -> "RemoteDesktop"

\* Methods with &mut self.
Exclusive(op) == op # "RemoteNotify"

Outcome == {"Success", "Cancelled", "Other", "Error", "Panic"}

\* A call that has not returned has no outcome.
ASSUME OutcomeAssumption == None \notin Outcome

Place == {"idle", "called", "check", "permission", "act", "choose", "done"}
List == {"shot", "remote"}

Init ==
  /\ UIInit
  /\ at = [d \in Asker |-> "idle"]
  /\ operation = [d \in Asker |-> None]
  /\ client = [d \in Asker |-> None]
  /\ outcome = [d \in Asker |-> None]
  /\ whitelist = [l \in List |-> <<>>]
  /\ traffic = [h \in Handle |-> "none"]

-----------------------------------------------------------------------------
(* Calls and the interface locks *)

Move(d, from, to) == at[d] = from /\ at' = [at EXCEPT ![d] = to]

\* A call that has returned has no parameters any more.
Return(d, r) ==
  /\ outcome' = [outcome EXCEPT ![d] = r]
  /\ operation' = [operation EXCEPT ![d] = None]
  /\ client' = [client EXCEPT ![d] = None]

Inside(d) == at[d] \notin {"idle", "called", "done"}

\* Calls are named in the order in which they are made.
CallMethod(d, op, a) ==
  /\ Move(d, "idle", "called")
  /\ d = CHOOSE e \in Asker : at[e] = "idle"
  /\ operation' = [operation EXCEPT ![d] = op]
  /\ client' = [client EXCEPT ![d] = a]
  /\ UNCHANGED <<uiVars, outcome, whitelist, traffic>>

\* The RwLock that zbus keeps for every interface.
LockFree(d) ==
  \A e \in Asker :
    Inside(e) /\ InterfaceOf(operation[e]) = InterfaceOf(operation[d]) =>
      ~Exclusive(operation[e]) /\ ~Exclusive(operation[d])

Enter(d) ==
  /\ Move(d, "called", "check")
  /\ LockFree(d)
  /\ UNCHANGED <<uiVars, operation, client, outcome, whitelist, traffic>>

-----------------------------------------------------------------------------
(* The permission dialog of Screenshot and RemoteDesktop.CreateSession *)

PermissionOf(op) == IF op = "Screenshot" THEN "PermissionShot" ELSE "PermissionRemote"
ListOf(op) == IF op = "Screenshot" THEN "shot" ELSE "remote"
NeedsPermission(d) == operation[d] \in {"Screenshot", "RemoteCreate"}
NeverListed(d) == FALSE   \* mutant: the white list is not looked up
Whitelisted(d) == Contains(whitelist[ListOf(operation[d])], client[d])

AskDialog(d, k) ==
  /\ inbox' = Append(inbox, OpenDialog(k, d))
  /\ UNCHANGED <<clicks, windowVars, promptVars, answers, toBackground>>

\* The check is on in the configuration and the caller is not yet allowed.
AskPermission(d) ==
  /\ NeedsPermission(d)
  /\ ~Whitelisted(d)
  /\ Move(d, "check", "permission")
  /\ AskDialog(d, PermissionOf(operation[d]))
  /\ UNCHANGED <<operation, client, outcome, whitelist, traffic>>

\* The check is off, or permission_store_checked, or the caller is listed.
SkipPermission(d) ==
  /\ Move(d, "check", "act")
  /\ UNCHANGED <<uiVars, operation, client, outcome, whitelist, traffic>>

\* The next answer on a channel of the dialog.
TakeAnswer(ch) ==
  /\ answers[ch] # <<>>
  /\ answers' = [answers EXCEPT ![ch] = Tail(@)]
  /\ UNCHANGED <<inbox, clicks, windowVars, promptVars, toBackground>>

GetPermission(d) ==
  /\ at[d] = "permission"
  /\ LET ch == ChannelOf(PermissionOf(operation[d]))
         answer == Head(answers[ch]).kind
     IN /\ TakeAnswer(ch)
        /\ \/ /\ answer \in {"AlwaysAllow", "AllowOnce"}
              /\ Move(d, "permission", "act")
              /\ UNCHANGED <<operation, client, outcome>>
           \/ /\ answer \notin {"AlwaysAllow", "AllowOnce"}
              /\ Move(d, "permission", "done")
              /\ Return(d, "Cancelled")
        /\ whitelist' = IF answer = "AlwaysAllow"
             THEN [whitelist EXCEPT ![ListOf(operation[d])] = Append(@, client[d])]
             ELSE whitelist
  /\ UNCHANGED traffic

-----------------------------------------------------------------------------
(* The work itself, and the chooser of Screenshot and ScreenCast.Start *)

ChooserOf(op) == IF op = "Screenshot" THEN "ScreenShot" ELSE "ScreenCast"

\* interactive screenshots, and casts without the headless helper's socket
AskChoice(d) ==
  /\ operation[d] \in {"Screenshot", "CastStart"}
  /\ Move(d, "act", "choose")
  /\ AskDialog(d, ChooserOf(operation[d]))
  /\ UNCHANGED <<operation, client, outcome, whitelist, traffic>>

\* No choice is needed, or the compositor refuses: the call returns.
\* ScreenCast.Start returns Other for a session that is not there.
Complete(d) ==
  /\ Move(d, "act", "done")
  /\ \E r \in {"Success", "Error", "Other"} :
       /\ r = "Other" => operation[d] = "CastStart"
       /\ Return(d, r)
  /\ UNCHANGED <<uiVars, whitelist, traffic>>

\* Screenshot takes any answer that is not a selection for unreachable.
\* ScreenCast.Start has no use for All and Slurp, which are Picks here.
ChoiceOutcomes(op, answer) ==
  CASE answer = "Pick" -> {"Success", "Error"}
                            \cup (IF op = "CastStart" THEN {"Cancelled"} ELSE {})
    [] answer = "Cancel" -> {"Cancelled"}
    [] OTHER -> IF op = "CastStart" THEN {"Cancelled"} ELSE {"Panic"}

GetChoice(d) ==
  /\ Move(d, "choose", "done")
  /\ LET ch == ChannelOf(ChooserOf(operation[d]))
     IN /\ TakeAnswer(ch)
        /\ \E r \in ChoiceOutcomes(operation[d], Head(answers[ch]).kind) :
             Return(d, r)
  /\ UNCHANGED <<whitelist, traffic>>

Method(d) ==
  \/ Enter(d)
  \/ AskPermission(d) \/ SkipPermission(d) \/ GetPermission(d)
  \/ AskChoice(d) \/ Complete(d) \/ GetChoice(d)

-----------------------------------------------------------------------------
(* Background traffic: each handle is prompted for, and may be withdrawn,  *)
(* once; whoever reads the answers reads them all.                         *)

Traffic(h) ==
  \/ /\ traffic[h] = "none"
     /\ traffic' = [traffic EXCEPT ![h] = "asked"]
     /\ inbox' = Append(inbox, Prompt(h))
     /\ UNCHANGED toBackground
  \/ /\ traffic[h] = "asked"
     /\ traffic' = [traffic EXCEPT ![h] = "withdrawn"]
     /\ inbox' = Append(inbox, ClosePrompt(h))
     /\ UNCHANGED toBackground
  \/ /\ toBackground # <<>>
     /\ toBackground' = Tail(toBackground)
     /\ UNCHANGED <<inbox, traffic>>

BackgroundTraffic ==
  /\ \E h \in Handle : Traffic(h)
  /\ UNCHANGED <<clicks, windowVars, promptVars, answers,
                 at, operation, client, outcome, whitelist>>

-----------------------------------------------------------------------------
Quiet ==
  /\ \A d \in Asker : at[d] = "done"
  /\ inbox = <<>> /\ clicks = <<>> /\ toBackground = <<>>
  /\ queue = <<>> /\ ~WindowShow

Rest == Quiet /\ UNCHANGED vars

UIStep == UINext /\ UNCHANGED clientVars

Next ==
  \/ \E d \in Asker, op \in Operation, a \in ClientApp : CallMethod(d, op, a)
  \/ \E d \in Asker : Method(d)
  \/ BackgroundTraffic
  \/ UIStep
  \/ Rest

Spec == Init /\ [][Next]_vars

\* The runtime, the event loop and the user, who answers what is on display, go
\* on while there is something to do.  No more is asked: which call goes first,
\* or whether a press is handled before a message, is anybody's choice.
Fairness == WF_vars((\E d \in Asker : Method(d)) \/ UIStep)

FairSpec == Spec /\ Fairness

-----------------------------------------------------------------------------
(* Properties *)

TypeOK ==
  /\ UITypeOK
  /\ at \in [Asker -> Place]
  /\ operation \in [Asker -> Operation \cup {None}]
  /\ client \in [Asker -> ClientApp \cup {None}]
  /\ outcome \in [Asker -> Outcome \cup {None}]
  /\ whitelist \in [List -> Seq(ClientApp)]
  /\ traffic \in [Handle -> {"none", "asked", "withdrawn"}]

\* The dialog that a call is waiting for, if any.
AwaitedDialog(d) ==
  CASE at[d] = "permission" -> PermissionOf(operation[d])
    [] at[d] = "choose"     -> ChooserOf(operation[d])
    [] OTHER                -> None

\* No answer goes astray: the dialog on display, and every answer in a
\* channel, belongs to a call that waits for exactly that dialog, and no
\* channel ever holds two.  A press that is handled late, a refusal and a
\* second caller must not leave an answer behind for somebody else.  Nor does
\* Screenshot run into the unreachable!() for an answer of another kind.
AnswersReachTheirAsker ==
  /\ WindowShow /\ guiMode # "BackgroundPrompt" => AwaitedDialog(asker) = guiMode
  /\ \A ch \in Channel :
       /\ Len(answers[ch]) <= 1
       /\ \A i \in DOMAIN answers[ch] :
            ch = ChannelOf(AwaitedDialog(answers[ch][i].asker))
  /\ \A d \in Asker : outcome[d] # "Panic"

\* An application is added to a white list once: nobody is asked about an
\* application that is listed already.
WhitelistedOnce == \A l \in List : IsInjective(whitelist[l])

\* Every call returns, with the user answering what is on display, whatever
\* dialog is in its way.  There are finitely many calls, so it is enough that
\* time and again none is open.
EveryCallReturns == []<>(\A d \in Asker : at[d] \in {"idle", "done"})
=============================================================================
