------------------------- MODULE BackgroundConsent -------------------------
(***************************************************************************)
(* What NotifyBackground promises, without handles, tasks, windows or      *)
(* channels: an application is asked about by one question at a time.  A   *)
(* request joins the question that is open for its application or opens    *)
(* one.  The decision reaches every member of the question at once.  A     *)
(* member may give up; when it leaves, the question goes on without it,    *)
(* unless it is the one that asked: then nobody is asked any more and the  *)
(* other members are turned away.                                          *)
(***************************************************************************)
CONSTANTS App, Call, Result, None

VARIABLES
  question,   \* the open question of each application: who asked, for whom
  decision,   \* what was decided for each request, before it returns
  reply       \* what each request returned

consentVars == <<question, decision, reply>>

TurnedAway == "dropped"

MembersOf(a) == IF question[a] = None THEN {} ELSE question[a].members
Asking(c) == \E a \in App : c \in MembersOf(a)

Init ==
  /\ question = [a \in App |-> None]
  /\ decision = [c \in Call |-> None]
  /\ reply = [c \in Call |-> None]

DecideFor(cs, d) ==
  decision' = [c \in Call |-> IF c \in cs THEN d ELSE decision[c]]

\* The configuration or a duplicate handle settles it without a question.
Refuse(c, r) ==
  /\ reply[c] = None /\ decision[c] = None /\ ~Asking(c)
  /\ reply' = [reply EXCEPT ![c] = r]
  /\ UNCHANGED <<question, decision>>

Ask(c, a) ==
  /\ reply[c] = None /\ decision[c] = None /\ ~Asking(c)
  /\ question' = [question EXCEPT ![a] =
       [asker |-> IF @ = None THEN c ELSE @.asker, members |-> MembersOf(a) \cup {c}]]
  /\ UNCHANGED <<decision, reply>>

Decide(a, r) ==
  /\ question[a] # None
  /\ DecideFor(MembersOf(a), r)
  /\ question' = [question EXCEPT ![a] = None]
  /\ UNCHANGED reply

\* A decided request returns its decision, or Cancelled if it gave up.
Answer(c) ==
  /\ reply[c] = None
  /\ decision[c] \in Result
  /\ reply' = [reply EXCEPT ![c] = decision[c]]
  /\ UNCHANGED <<question, decision>>

GiveUp(c) ==
  /\ reply[c] = None
  /\ Asking(c) \/ decision[c] # None
  /\ reply' = [reply EXCEPT ![c] = "Cancelled"]
  /\ UNCHANGED <<question, decision>>

\* A request may still fail after its question is settled.
Fail(c) ==
  /\ reply[c] = None
  /\ decision[c] # None
  /\ reply' = [reply EXCEPT ![c] = "Error"]
  /\ UNCHANGED <<question, decision>>

\* A request that has returned, or that fails now, leaves its question.
Leave(c, a) ==
  /\ c \in MembersOf(a)
  /\ \/ reply[c] # None /\ UNCHANGED reply
     \/ reply[c] = None /\ reply' = [reply EXCEPT ![c] = "Error"]
  /\ \/ /\ question[a].asker = c
        /\ question' = [question EXCEPT ![a] = None]
        /\ DecideFor(MembersOf(a), TurnedAway)
     \/ /\ question[a].asker # c
        /\ question' = [question EXCEPT ![a].members = @ \ {c}]
        /\ DecideFor({c}, TurnedAway)

Next ==
  \/ \E c \in Call, r \in Result \cup {"DuplicateHandle"} : Refuse(c, r)
  \/ \E c \in Call, a \in App : Ask(c, a) \/ Leave(c, a)
  \/ \E a \in App, r \in Result : Decide(a, r)
  \/ \E c \in Call : Answer(c) \/ GiveUp(c) \/ Fail(c)

Spec == Init /\ [][Next]_consentVars
=============================================================================
