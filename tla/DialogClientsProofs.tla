------------------------ MODULE DialogClientsProofs ------------------------
(***************************************************************************)
(* The calls that ask the user, for any number of calls, applications and  *)
(* background prompts: every answer reaches the call that asked, and       *)
(* nobody is added to a white list twice.                                  *)
(*                                                                         *)
(* The dialog does not say whom an answer is for.  The invariant follows   *)
(* the dialog of each waiting call, which is in one place at a time: on    *)
(* its way to the dialog, on display, or answered (RouteInv, AloneInv).    *)
(* That a channel then holds one answer, and that the call which takes it  *)
(* is the one that asked, rests on the locks of the object server          *)
(* (LockInv): the calls whose dialogs share a channel share an interface.  *)
(***************************************************************************)
EXTENDS DialogClients, DialogProofs

\* A call waits for a dialog of kind k.
Waits(d, k) ==
  \/ at[d] = "permission" /\ k = PermissionOf(operation[d])
  \/ at[d] = "choose" /\ k = ChooserOf(operation[d])

\* A call has the parameters of its method, and only the methods that ask wait.
CallInv ==
  \A d \in Asker :
    /\ at[d] \notin {"idle", "done"} => operation[d] \in Operation /\ client[d] \in ClientApp
    /\ at[d] = "permission" => operation[d] \in {"Screenshot", "RemoteCreate"}
    /\ at[d] = "choose" => operation[d] \in {"Screenshot", "CastStart"}

\* A call with &mut self is alone on its interface.
LockInv ==
  \A d, e \in Asker :
    d # e /\ Inside(d) /\ Inside(e) /\ InterfaceOf(operation[d]) = InterfaceOf(operation[e])
      => ~Exclusive(operation[d]) /\ ~Exclusive(operation[e])

\* A press of the window on display was made for the call whose dialog it is.
ClickInv ==
  \A i \in 1 .. Len(clicks) :
    clicks[i].id = windowId =>
      /\ clicks[i].asker = asker
      /\ guiMode \in Chooser => clicks[i].select.kind \in {"Pick", "Cancel"}

IsDialog(m) == m.kind \in DialogKind
Displayed == WindowShow /\ guiMode # "BackgroundPrompt"

\* An answer in channel ch is one to a dialog that its asker waits for.
Fits(answer, ch) ==
  /\ answer.asker \in Asker
  /\ \E k \in DialogKind : /\ ch = ChannelOf(k) /\ Waits(answer.asker, k)
                           /\ k \in Chooser => answer.kind \in {"Pick", "Cancel"}

\* Every dialog that was asked for, is displayed or was answered is waited for.
RouteInv ==
  /\ \A i \in 1 .. Len(inbox) :
       IsDialog(inbox[i]) => inbox[i].asker \in Asker /\ Waits(inbox[i].asker, inbox[i].kind)
  /\ Displayed => asker \in Asker /\ Waits(asker, guiMode)
  /\ \A ch \in Channel : \A i \in 1 .. Len(answers[ch]) : Fits(answers[ch][i], ch)

\* A call's dialog is in one place.
AloneInv ==
  /\ \A i, j \in 1 .. Len(inbox) :
       IsDialog(inbox[i]) /\ IsDialog(inbox[j]) /\ inbox[i].asker = inbox[j].asker => i = j
  /\ \A i \in 1 .. Len(inbox) : IsDialog(inbox[i]) /\ Displayed => inbox[i].asker # asker
  /\ \A i \in 1 .. Len(inbox) : IsDialog(inbox[i]) =>
       \A ch \in Channel : \A j \in 1 .. Len(answers[ch]) :
         answers[ch][j].asker # inbox[i].asker
  /\ Displayed => \A ch \in Channel : \A j \in 1 .. Len(answers[ch]) :
                    answers[ch][j].asker # asker
  /\ \A ch \in Channel : Len(answers[ch]) <= 1

\* Who is asked about is not listed, and stays so until the answer is taken.
ListInv ==
  /\ \A l \in List : IsInjective(whitelist[l])
  /\ \A d \in Asker : at[d] = "permission" => ~Whitelisted(d)

Typed == UIInv /\ TypeOK

Inv == /\ Typed /\ CallInv /\ LockInv /\ ClickInv /\ RouteInv /\ AloneInv /\ ListInv
       /\ \A d \in Asker : outcome[d] # "Panic"

-----------------------------------------------------------------------------
(* Whose answer it is *)

\* A call waits for one dialog, whose interface it holds alone.
LEMMA WaitingIsInside ==
  ASSUME CallInv, NEW d \in Asker, NEW k, Waits(d, k)
  PROVE  /\ k \in DialogKind /\ ChannelOf(k) \in Channel
         /\ Inside(d) /\ Exclusive(operation[d]) /\ operation[d] \in Operation
         /\ \A ch : ch = ChannelOf(k) =>
              InterfaceOf(operation[d]) = CASE ch = "shot" -> "Screenshot"
                                            [] ch = "cast" -> "ScreenCast"
                                            [] ch = "remote" -> "RemoteDesktop"
<1>1. CASE at[d] = "permission" /\ k = PermissionOf(operation[d])
  <2>1. operation[d] \in {"Screenshot", "RemoteCreate"}
    BY <1>1 DEF CallInv
  <2>2. CASE operation[d] = "Screenshot"
    BY <1>1, <2>2 DEF PermissionOf, DialogKind, Permission, Chooser, ChannelOf, Channel, Inside,
                      Exclusive, Operation, InterfaceOf
  <2>3. CASE operation[d] = "RemoteCreate"
    BY <1>1, <2>3 DEF PermissionOf, DialogKind, Permission, Chooser, ChannelOf, Channel, Inside,
                      Exclusive, Operation, InterfaceOf
  <2> QED BY <2>1, <2>2, <2>3
<1>2. CASE at[d] = "choose" /\ k = ChooserOf(operation[d])
  <2>1. operation[d] \in {"Screenshot", "CastStart"}
    BY <1>2 DEF CallInv
  <2>2. CASE operation[d] = "Screenshot"
    BY <1>2, <2>2 DEF ChooserOf, DialogKind, Permission, Chooser, ChannelOf, Channel, Inside,
                      Exclusive, Operation, InterfaceOf
  <2>3. CASE operation[d] = "CastStart"
    BY <1>2, <2>3 DEF ChooserOf, DialogKind, Permission, Chooser, ChannelOf, Channel, Inside,
                      Exclusive, Operation, InterfaceOf
  <2> QED BY <2>1, <2>2, <2>3
<1> QED BY <1>1, <1>2 DEF Waits

\* Calls whose dialogs answer on one channel are one call.
LEMMA OneWaits ==
  ASSUME CallInv, LockInv, NEW d \in Asker, NEW e \in Asker, NEW k, NEW l,
         Waits(d, k), Waits(e, l), ChannelOf(k) = ChannelOf(l)
  PROVE  d = e /\ k = l
<1>1. /\ Inside(d) /\ Inside(e) /\ Exclusive(operation[d])
      /\ InterfaceOf(operation[d]) = InterfaceOf(operation[e])
  <2>1. PICK ch : ch = ChannelOf(k)
    OBVIOUS
  <2>2. InterfaceOf(operation[d]) = InterfaceOf(operation[e])
    BY <2>1, WaitingIsInside
  <2> QED BY <2>2, WaitingIsInside
<1>2. d = e
  BY <1>1 DEF LockInv
<1> QED BY <1>2 DEF Waits

\* An answer found in the channel of a call's dialog is an answer to it.
LEMMA AnswerIsMine ==
  ASSUME CallInv, LockInv, RouteInv, NEW d \in Asker, NEW k, Waits(d, k),
         NEW i \in 1 .. Len(answers[ChannelOf(k)])
  PROVE  /\ answers[ChannelOf(k)][i].asker = d
         /\ k \in Chooser => answers[ChannelOf(k)][i].kind \in {"Pick", "Cancel"}
<1>1. ChannelOf(k) \in Channel
  BY WaitingIsInside
<1>2. Fits(answers[ChannelOf(k)][i], ChannelOf(k))
  BY <1>1 DEF RouteInv
<1>3. PICK a : a = answers[ChannelOf(k)][i]
  OBVIOUS
<1>4. PICK l \in DialogKind : /\ ChannelOf(k) = ChannelOf(l) /\ Waits(a.asker, l)
                              /\ l \in Chooser => a.kind \in {"Pick", "Cancel"}
  BY <1>2, <1>3 DEF Fits
<1>5. a.asker \in Asker
  BY <1>2, <1>3 DEF Fits
<1>6. a.asker = d /\ l = k
  BY <1>4, <1>5, OneWaits
<1> QED BY <1>3, <1>4, <1>6

\* No answer waits in the channel of a dialog that was not answered.
LEMMA ChannelIsFree ==
  ASSUME Typed, CallInv, LockInv, RouteInv, NEW d \in Asker, NEW k, Waits(d, k),
         \A ch \in Channel : \A i \in 1 .. Len(answers[ch]) : answers[ch][i].asker # d
  PROVE  ChannelOf(k) \in Channel /\ Len(answers[ChannelOf(k)]) = 0
<1>1. ChannelOf(k) \in Channel
  BY WaitingIsInside
<1>2. answers[ChannelOf(k)] \in Seq(DialogAnswer)
  BY <1>1 DEF Typed, UIInv, UITypeOK
<1>3. Len(answers[ChannelOf(k)]) \in Nat
  BY <1>2
<1>4. 1 \notin 1 .. Len(answers[ChannelOf(k)])
  BY <1>1, AnswerIsMine
<1> QED BY <1>1, <1>3, <1>4

-----------------------------------------------------------------------------
(* Steps of the dialog *)

\* The dialogs of q are dialogs of p, at the places that f gives.
Carried(f, p, q) ==
  /\ \A i \in 1 .. Len(q) : IsDialog(q[i]) => f[i] \in 1 .. Len(p) /\ p[f[i]] = q[i]
  /\ \A i, j \in 1 .. Len(q) : f[i] = f[j] => i = j

\* Waits, Fits and RouteInv of the next state, with arguments of that state.
WillWait(d, k) ==
  \/ at'[d] = "permission" /\ k = PermissionOf(operation'[d])
  \/ at'[d] = "choose" /\ k = ChooserOf(operation'[d])

WillFit(answer, ch) ==
  /\ answer.asker \in Asker
  /\ \E k \in DialogKind : /\ ch = ChannelOf(k) /\ WillWait(answer.asker, k)
                           /\ k \in Chooser => answer.kind \in {"Pick", "Cancel"}

LEMMA RouteNext ==
  ASSUME \A i \in 1 .. Len(inbox') : IsDialog(inbox'[i]) =>
           inbox'[i].asker \in Asker /\ WillWait(inbox'[i].asker, inbox'[i].kind),
         Displayed' => asker' \in Asker /\ WillWait(asker', guiMode'),
         \A ch \in Channel : \A i \in 1 .. Len(answers'[ch]) : WillFit(answers'[ch][i], ch)
  PROVE  RouteInv'
BY DEF RouteInv, WillWait, WillFit, Waits, Fits

\* No dialog is added anywhere, and every call that has one goes on waiting.
LEMMA RouteKept ==
  ASSUME RouteInv, AloneInv, NEW f, Carried(f, inbox, inbox'),
         Displayed' => Displayed /\ UNCHANGED <<asker, guiMode>>,
         UNCHANGED answers,
         \A d \in Asker : \A k : Waits(d, k) => WillWait(d, k)
  PROVE  RouteInv' /\ AloneInv'
<1> HIDE DEF Displayed
<1>1. RouteInv'
  <2>1. ASSUME NEW i \in 1 .. Len(inbox'), IsDialog(inbox'[i])
        PROVE  inbox'[i].asker \in Asker /\ WillWait(inbox'[i].asker, inbox'[i].kind)
    <3>1. f[i] \in 1 .. Len(inbox) /\ inbox[f[i]] = inbox'[i]
      BY <2>1 DEF Carried
    <3>2. inbox'[i].asker \in Asker /\ Waits(inbox'[i].asker, inbox'[i].kind)
      BY <2>1, <3>1 DEF RouteInv
    <3> QED BY <3>2
  <2>2. Displayed' => asker' \in Asker /\ WillWait(asker', guiMode')
    BY DEF RouteInv
  <2>3. ASSUME NEW ch \in Channel, NEW i \in 1 .. Len(answers'[ch])
        PROVE  WillFit(answers'[ch][i], ch)
    <3>1. PICK a : a = answers[ch][i] /\ a = answers'[ch][i]
      OBVIOUS
    <3>2. Fits(a, ch)
      BY <3>1 DEF RouteInv
    <3>3. WillFit(a, ch)
      BY <3>2 DEF Fits, WillFit
    <3> QED BY <3>1, <3>3
  <2> QED BY <2>1, <2>2, <2>3, RouteNext
<1>2. AloneInv'
  <2>1. \A i \in 1 .. Len(inbox') : IsDialog(inbox'[i]) =>
          f[i] \in 1 .. Len(inbox) /\ inbox[f[i]] = inbox'[i]
    BY DEF Carried
  <2>2. \A i, j \in 1 .. Len(inbox') : f[i] = f[j] => i = j
    BY DEF Carried
  <2>3. ASSUME NEW i \in 1 .. Len(inbox'), NEW j \in 1 .. Len(inbox'),
               IsDialog(inbox'[i]), IsDialog(inbox'[j]), inbox'[i].asker = inbox'[j].asker
        PROVE  i = j
    <3>1. /\ f[i] \in 1 .. Len(inbox) /\ inbox[f[i]] = inbox'[i]
          /\ f[j] \in 1 .. Len(inbox) /\ inbox[f[j]] = inbox'[j]
      BY <2>1, <2>3
    <3>2. f[i] = f[j]
      BY <2>3, <3>1 DEF AloneInv
    <3> QED BY <2>2, <3>2
  <2>4. ASSUME NEW i \in 1 .. Len(inbox'), IsDialog(inbox'[i])
        PROVE  /\ Displayed' => inbox'[i].asker # asker'
               /\ \A ch \in Channel : \A j \in 1 .. Len(answers'[ch]) :
                    answers'[ch][j].asker # inbox'[i].asker
    <3>1. PICK k \in 1 .. Len(inbox) : inbox[k] = inbox'[i]
      BY <2>1, <2>4
    <3>2. Displayed' => inbox'[i].asker # asker'
      BY <2>4, <3>1 DEF AloneInv
    <3>3. \A ch \in Channel : \A j \in 1 .. Len(answers[ch]) :
            answers[ch][j].asker # inbox[k].asker
      BY <2>4, <3>1 DEF AloneInv
    <3> QED BY <3>1, <3>2, <3>3
  <2>5. Displayed' => \A ch \in Channel : \A j \in 1 .. Len(answers'[ch]) :
                        answers'[ch][j].asker # asker'
    BY DEF AloneInv
  <2>6. \A ch \in Channel : Len(answers'[ch]) <= 1
    BY DEF AloneInv
  <2> QED BY <2>3, <2>4, <2>5, <2>6 DEF AloneInv
<1> QED BY <1>1, <1>2

\* The step leaves the dialogs of the inbox where they are, or takes the first
\* message from it, or adds a message that is not a dialog.
LEMMA DialogsCarried ==
  ASSUME NEW p \in Seq(Message), NEW q, NEW m,
         q = p \/ (q = Append(p, m) /\ ~IsDialog(m)) \/ (p # <<>> /\ q = Tail(p))
  PROVE  \E f : Carried(f, p, q)
<1>1. Len(p) \in Nat
  OBVIOUS
<1>2. CASE q = p \/ (q = Append(p, m) /\ ~IsDialog(m))
  <2>1. PICK f : f = [i \in 1 .. Len(p) + 1 |-> i]
    OBVIOUS
  <2>2. \A i \in 1 .. Len(q) : i \in 1 .. Len(p) + 1 /\ f[i] = i
    BY <1>1, <1>2, <2>1
  <2>3. \A i \in 1 .. Len(q) : IsDialog(q[i]) => i \in 1 .. Len(p) /\ p[i] = q[i]
    BY <1>1, <1>2
  <2>4. Carried(f, p, q)
    <3> HIDE DEF IsDialog
    <3> QED BY <2>2, <2>3 DEF Carried
  <2> QED BY <2>4
<1>3. CASE p # <<>> /\ q = Tail(p)
  <2>1. PICK f : f = [i \in 1 .. Len(p) |-> i + 1]
    OBVIOUS
  <2>2. \A i \in 1 .. Len(q) : /\ i \in 1 .. Len(p) /\ f[i] = i + 1
                               /\ i + 1 \in 1 .. Len(p) /\ p[i + 1] = q[i]
    BY <1>1, <1>3, <2>1
  <2>3. Carried(f, p, q)
    BY <2>2 DEF Carried
  <2> QED BY <2>3
<1> QED BY <1>2, <1>3

\* A step of the dialog changes nothing for the calls.
LEMMA StillWaiting ==
  ASSUME UNCHANGED <<at, operation, client, outcome, whitelist>>
  PROVE  /\ \A d \in Asker : \A k : Waits(d, k) => WillWait(d, k)
         /\ CallInv => CallInv'
         /\ LockInv => LockInv'
         /\ ListInv => ListInv'
         /\ (\A d \in Asker : outcome[d] # "Panic") => (\A d \in Asker : outcome'[d] # "Panic")
<1>1. UNCHANGED <<at, operation, client, outcome, whitelist>>
  OBVIOUS
<1>2. \A d \in Asker : \A k : Waits(d, k) => WillWait(d, k)
  BY <1>1 DEF Waits, WillWait
<1>3. CallInv => CallInv'
  BY <1>1 DEF CallInv
<1>4. LockInv => LockInv'
  BY <1>1 DEF LockInv, Inside
<1>5. ListInv => ListInv'
  BY <1>1 DEF ListInv, Whitelisted
<1> QED BY <1>1, <1>2, <1>3, <1>4, <1>5

\* A window that closes shows no dialog afterwards: nothing, or a prompt.
LEMMA ClosedShowsNone ==
  ASSUME NEW mode, NEW active, CloseAndShowNext(mode, active)
  PROVE  ~Displayed'
BY DEF CloseAndShowNext, OpenBackgroundPrompt, Displayed, WindowShow

\* An answer put into an empty channel.
LEMMA AnswerIsPut ==
  ASSUME Typed, NEW c \in Channel, NEW a \in DialogAnswer, Len(answers[c]) = 0,
         answers' = [answers EXCEPT ![c] = Append(@, a)]
  PROVE  /\ \A ch \in Channel : \A i \in 1 .. Len(answers'[ch]) :
              \/ ch = c /\ answers'[ch][i] = a
              \/ ch # c /\ i \in 1 .. Len(answers[ch]) /\ answers'[ch][i] = answers[ch][i]
         /\ (\A ch \in Channel : Len(answers[ch]) <= 1) =>
              \A ch \in Channel : Len(answers'[ch]) <= 1
<1>1. answers \in [Channel -> Seq(DialogAnswer)]
  BY DEF Typed, UIInv, UITypeOK
<1>2. answers[c] \in Seq(DialogAnswer)
  BY <1>1
<1>3. Append(answers[c], a) = <<a>>
  <2>1. answers[c] = <<>>
    BY <1>2
  <2> QED BY <2>1
<1>4. answers'[c] = <<a>>
  BY <1>1, <1>3
<1>5. \A ch \in Channel : ch # c => answers'[ch] = answers[ch]
  BY <1>1
<1>6. Len(answers'[c]) = 1 /\ \A i \in 1 .. Len(answers'[c]) : answers'[c][i] = a
  BY <1>4
<1> QED BY <1>5, <1>6

\* A call's dialog is answered: where it was, it no longer is.
LEMMA RouteAnswered ==
  ASSUME Typed, RouteInv, AloneInv, NEW f, Carried(f, inbox, inbox'),
         \A d \in Asker : \A k : Waits(d, k) => WillWait(d, k),
         NEW d \in Asker, NEW k \in DialogKind, Waits(d, k), ChannelOf(k) \in Channel,
         Len(answers[ChannelOf(k)]) = 0,
         NEW a \in DialogAnswer, a.asker = d, k \in Chooser => a.kind \in {"Pick", "Cancel"},
         answers' = [answers EXCEPT ![ChannelOf(k)] = Append(@, a)],
         \A ch \in Channel : \A i \in 1 .. Len(answers[ch]) : answers[ch][i].asker # d,
         \A i \in 1 .. Len(inbox') : IsDialog(inbox'[i]) => inbox'[i].asker # d,
         Displayed' => Displayed /\ asker # d /\ UNCHANGED <<asker, guiMode>>
  PROVE  RouteInv' /\ AloneInv'
<1> HIDE DEF Displayed
<1>1. /\ \A i \in 1 .. Len(inbox') : IsDialog(inbox'[i]) =>
           f[i] \in 1 .. Len(inbox) /\ inbox[f[i]] = inbox'[i]
      /\ \A i, j \in 1 .. Len(inbox') : f[i] = f[j] => i = j
  BY DEF Carried
<1>2. \A ch \in Channel : \A i \in 1 .. Len(answers'[ch]) :
        \/ ch = ChannelOf(k) /\ answers'[ch][i] = a
        \/ i \in 1 .. Len(answers[ch]) /\ answers'[ch][i] = answers[ch][i]
  BY AnswerIsPut
<1>3. \A ch \in Channel : Len(answers'[ch]) <= 1
  BY AnswerIsPut DEF AloneInv
<1>4. RouteInv'
  <2>1. ASSUME NEW i \in 1 .. Len(inbox'), IsDialog(inbox'[i])
        PROVE  inbox'[i].asker \in Asker /\ WillWait(inbox'[i].asker, inbox'[i].kind)
    <3>1. PICK n \in 1 .. Len(inbox) : inbox[n] = inbox'[i]
      BY <1>1, <2>1
    <3> QED BY <2>1, <3>1 DEF RouteInv
  <2>2. Displayed' => asker' \in Asker /\ WillWait(asker', guiMode')
    BY DEF RouteInv
  <2>3. ASSUME NEW ch \in Channel, NEW i \in 1 .. Len(answers'[ch])
        PROVE  WillFit(answers'[ch][i], ch)
    <3>1. CASE ch = ChannelOf(k) /\ answers'[ch][i] = a
      BY <3>1 DEF WillFit
    <3>2. CASE i \in 1 .. Len(answers[ch]) /\ answers'[ch][i] = answers[ch][i]
      <4>1. PICK b : b = answers[ch][i]
        OBVIOUS
      <4>2. Fits(b, ch)
        BY <3>2, <4>1 DEF RouteInv
      <4>3. WillFit(b, ch)
        BY <4>2 DEF Fits, WillFit
      <4> QED BY <3>2, <4>1, <4>3
    <3> QED BY <1>2, <3>1, <3>2
  <2> QED BY <2>1, <2>2, <2>3, RouteNext
<1>5. AloneInv'
  <2>1. ASSUME NEW i \in 1 .. Len(inbox'), NEW j \in 1 .. Len(inbox'),
               IsDialog(inbox'[i]), IsDialog(inbox'[j]), inbox'[i].asker = inbox'[j].asker
        PROVE  i = j
    <3>1. /\ f[i] \in 1 .. Len(inbox) /\ inbox[f[i]] = inbox'[i]
          /\ f[j] \in 1 .. Len(inbox) /\ inbox[f[j]] = inbox'[j]
      BY <1>1, <2>1
    <3>2. f[i] = f[j]
      BY <2>1, <3>1 DEF AloneInv
    <3> QED BY <1>1, <3>2
  <2>2. ASSUME NEW i \in 1 .. Len(inbox'), IsDialog(inbox'[i])
        PROVE  /\ Displayed' => inbox'[i].asker # asker'
               /\ \A ch \in Channel : \A j \in 1 .. Len(answers'[ch]) :
                    answers'[ch][j].asker # inbox'[i].asker
    <3>1. PICK n \in 1 .. Len(inbox) : inbox[n] = inbox'[i]
      BY <1>1, <2>2
    <3>2. Displayed' => inbox'[i].asker # asker'
      BY <2>2, <3>1 DEF AloneInv
    <3>3. \A ch \in Channel : \A j \in 1 .. Len(answers[ch]) :
            answers[ch][j].asker # inbox[n].asker
      BY <2>2, <3>1 DEF AloneInv
    <3>4. inbox'[i].asker # a.asker
      BY <2>2
    <3> QED BY <1>2, <3>1, <3>2, <3>3, <3>4
  <2>3. Displayed' => \A ch \in Channel : \A j \in 1 .. Len(answers'[ch]) :
                        answers'[ch][j].asker # asker'
    <3>1. Displayed' => \A ch \in Channel : \A j \in 1 .. Len(answers[ch]) :
                          answers[ch][j].asker # asker'
      BY DEF AloneInv
    <3> QED BY <1>2, <3>1
  <2> QED BY <1>3, <2>1, <2>2, <2>3 DEF AloneInv
<1> QED BY <1>4, <1>5

\* A call's dialog is displayed: it was the only one the call had.
LEMMA RouteShown ==
  ASSUME RouteInv, AloneInv, NEW f, Carried(f, inbox, inbox'),
         \A d \in Asker : \A k : Waits(d, k) => WillWait(d, k),
         asker' \in Asker, Waits(asker', guiMode'), UNCHANGED answers,
         \A ch \in Channel : \A i \in 1 .. Len(answers[ch]) : answers[ch][i].asker # asker',
         \A i \in 1 .. Len(inbox') : IsDialog(inbox'[i]) => inbox'[i].asker # asker'
  PROVE  RouteInv' /\ AloneInv'
<1> HIDE DEF Displayed
<1>1. /\ \A i \in 1 .. Len(inbox') : IsDialog(inbox'[i]) =>
           f[i] \in 1 .. Len(inbox) /\ inbox[f[i]] = inbox'[i]
      /\ \A i, j \in 1 .. Len(inbox') : f[i] = f[j] => i = j
  BY DEF Carried
<1>2. RouteInv'
  <2>1. ASSUME NEW i \in 1 .. Len(inbox'), IsDialog(inbox'[i])
        PROVE  inbox'[i].asker \in Asker /\ WillWait(inbox'[i].asker, inbox'[i].kind)
    <3>1. PICK n \in 1 .. Len(inbox) : inbox[n] = inbox'[i]
      BY <1>1, <2>1
    <3> QED BY <2>1, <3>1 DEF RouteInv
  <2>2. asker' \in Asker /\ WillWait(asker', guiMode')
    OBVIOUS
  <2>3. ASSUME NEW ch \in Channel, NEW i \in 1 .. Len(answers'[ch])
        PROVE  WillFit(answers'[ch][i], ch)
    <3>1. PICK b : b = answers[ch][i] /\ b = answers'[ch][i]
      OBVIOUS
    <3>2. Fits(b, ch)
      BY <3>1 DEF RouteInv
    <3>3. WillFit(b, ch)
      BY <3>2 DEF Fits, WillFit
    <3> QED BY <3>1, <3>3
  <2> QED BY <2>1, <2>2, <2>3, RouteNext
<1>3. AloneInv'
  <2>1. ASSUME NEW i \in 1 .. Len(inbox'), NEW j \in 1 .. Len(inbox'),
               IsDialog(inbox'[i]), IsDialog(inbox'[j]), inbox'[i].asker = inbox'[j].asker
        PROVE  i = j
    <3>1. /\ f[i] \in 1 .. Len(inbox) /\ inbox[f[i]] = inbox'[i]
          /\ f[j] \in 1 .. Len(inbox) /\ inbox[f[j]] = inbox'[j]
      BY <1>1, <2>1
    <3>2. f[i] = f[j]
      BY <2>1, <3>1 DEF AloneInv
    <3> QED BY <1>1, <3>2
  <2>2. ASSUME NEW i \in 1 .. Len(inbox'), IsDialog(inbox'[i])
        PROVE  \A ch \in Channel : \A j \in 1 .. Len(answers'[ch]) :
                 answers'[ch][j].asker # inbox'[i].asker
    <3>1. PICK n \in 1 .. Len(inbox) : inbox[n] = inbox'[i]
      BY <1>1, <2>2
    <3>2. \A ch \in Channel : \A j \in 1 .. Len(answers[ch]) :
            answers[ch][j].asker # inbox[n].asker
      BY <2>2, <3>1 DEF AloneInv
    <3> QED BY <3>1, <3>2
  <2>3. \A ch \in Channel : Len(answers'[ch]) <= 1
    BY DEF AloneInv
  <2> QED BY <2>1, <2>2, <2>3 DEF AloneInv
<1> QED BY <1>2, <1>3

\* The dialog that the first message asks for is nowhere else.
LEMMA OpenedIsAlone ==
  ASSUME Typed, RouteInv, AloneInv,
         NEW k \in DialogKind, NEW d, Receive(OpenDialog(k, d))
  PROVE  /\ d \in Asker /\ Waits(d, k)
         /\ Displayed => asker # d
         /\ \A ch \in Channel : \A i \in 1 .. Len(answers[ch]) : answers[ch][i].asker # d
         /\ \A i \in 1 .. Len(inbox') : IsDialog(inbox'[i]) => inbox'[i].asker # d
<1>1. inbox \in Seq(Message) /\ inbox # <<>> /\ inbox' = Tail(inbox)
  BY DEF Typed, UIInv, UITypeOK, Receive
<1>2. Len(inbox) \in Nat /\ 1 \in 1 .. Len(inbox)
  BY <1>1
<1>3. IsDialog(inbox[1]) /\ inbox[1].asker = d /\ inbox[1].kind = k
  <2>1. inbox[1] = OpenDialog(k, d)
    BY <1>1 DEF Receive
  <2> QED BY <2>1 DEF OpenDialog, IsDialog
<1>4. d \in Asker /\ Waits(d, k)
  BY <1>2, <1>3 DEF RouteInv
<1>5. Displayed => asker # d
  BY <1>2, <1>3 DEF AloneInv
<1>6. \A ch \in Channel : \A i \in 1 .. Len(answers[ch]) : answers[ch][i].asker # d
  BY <1>2, <1>3 DEF AloneInv
<1>7. ASSUME NEW i \in 1 .. Len(inbox'), IsDialog(inbox'[i])
      PROVE  inbox'[i].asker # d
  <2>1. PICK n \in 1 .. Len(inbox) : n # 1 /\ inbox[n] = inbox'[i]
    <3>1. i + 1 \in 1 .. Len(inbox) /\ i + 1 # 1 /\ inbox[i + 1] = inbox'[i]
      BY <1>1, <1>2
    <3> QED BY <3>1
  <2>2. IsDialog(inbox[n]) /\ inbox[n].asker = inbox'[i].asker
    BY <1>7, <2>1
  <2> QED BY <1>2, <1>3, <2>1, <2>2 DEF AloneInv
<1> QED BY <1>4, <1>5, <1>6, <1>7

-----------------------------------------------------------------------------
(* Presses *)

\* The elements of a sequence are of its type.
LEMMA ElementType ==
  ASSUME NEW T, NEW q \in Seq(T), NEW i \in 1 .. Len(q)
  PROVE  q[i] \in T
OBVIOUS

\* A window that opens has an id that no press carries, and none has NoWindow.
LEMMA WindowIsNew ==
  ASSUME Typed, NEW i \in 1 .. Len(clicks)
  PROVE  /\ \A w \in Unique : clicks[i].id # w
         /\ \A mode : \A active : CloseAndShowNext(mode, active) => clicks[i].id # windowId'
<1>1. clicks \in Seq([id : WindowId, select : CopySelect, asker : Asker \cup {None}])
  BY DEF Typed, UIInv, UITypeOK
<1>2. i \in DOMAIN clicks
  BY <1>1
<1>3. \A w \in Unique : clicks[i].id # w
  BY <1>2 DEF Unique, FreshIds
<1>4. clicks[i].id # NoWindow
  <2>1. clicks[i] \in [id : WindowId, select : CopySelect, asker : Asker \cup {None}]
    BY <1>1, ElementType
  <2>2. clicks[i].id \in WindowId
    <3> HIDE DEF WindowId
    <3> QED BY <2>1
  <2>3. NoWindow \notin WindowId
    BY CapacityAssumption DEF NoWindow, WindowId
  <2> QED BY <2>2, <2>3
<1>5. ASSUME NEW mode, NEW active, CloseAndShowNext(mode, active)
      PROVE  clicks[i].id # windowId'
  <2>1. windowId' = NoWindow \/ windowId' \in Unique
    BY <1>5 DEF CloseAndShowNext, OpenBackgroundPrompt
  <2> QED BY <1>3, <1>4, <2>1
<1> QED BY <1>3, <1>5

\* Presses of the window that stays are what they were; a new one has none.
LEMMA ClicksKept ==
  ASSUME Typed, ClickInv, clicks' = clicks \/ (clicks # <<>> /\ clicks' = Tail(clicks)),
         \/ UNCHANGED <<windowId, guiMode, asker>>
         \/ \A i \in 1 .. Len(clicks) : clicks[i].id # windowId'
  PROVE  ClickInv'
<1>1. clicks \in Seq([id : WindowId, select : CopySelect, asker : Asker \cup {None}])
  BY DEF Typed, UIInv, UITypeOK
<1>2. PICK C : clicks \in Seq(C)
  BY <1>1
<1>3. SUFFICES ASSUME NEW i \in 1 .. Len(clicks'), clicks'[i].id = windowId'
               PROVE  /\ clicks'[i].asker = asker'
                      /\ guiMode' \in Chooser => clicks'[i].select.kind \in {"Pick", "Cancel"}
  BY DEF ClickInv
<1>4. PICK j \in 1 .. Len(clicks) : clicks'[i] = clicks[j]
  <2>1. CASE clicks' = clicks
    BY <2>1
  <2>2. CASE clicks # <<>> /\ clicks' = Tail(clicks)
    <3>1. i + 1 \in 1 .. Len(clicks) /\ clicks'[i] = clicks[i + 1]
      BY <1>2, <2>2
    <3> QED BY <3>1
  <2> QED BY <2>1, <2>2
<1>5. UNCHANGED <<windowId, guiMode, asker>>
  BY <1>3, <1>4
<1> QED BY <1>3, <1>4, <1>5 DEF ClickInv

\* What is pressed is drawn in the window on display.
LEMMA PressKeeps ==
  ASSUME Typed, ClickInv, PressAny
  PROVE  ClickInv'
<1>1. PICK s \in Buttons : Press(s)
  BY DEF PressAny
<1>2. clicks \in Seq([id : WindowId, select : CopySelect, asker : Asker \cup {None}])
  BY DEF Typed, UIInv, UITypeOK
<1>3. PICK C : clicks \in Seq(C)
  BY <1>2
<1>4. PICK c : c = [id |-> windowId, select |-> s, asker |-> asker]
  OBVIOUS
<1>5. clicks' = Append(clicks, c) /\ UNCHANGED <<windowId, guiMode, asker>>
  BY <1>1, <1>4 DEF Press, windowVars
<1>6. guiMode \in Chooser => s.kind \in {"Pick", "Cancel"}
  <2>1. ASSUME guiMode \in Chooser
        PROVE  Buttons = {[kind |-> t, handle |-> None] : t \in {"Pick", "Cancel"}}
    BY <2>1 DEF Buttons, Chooser, Permission
  <2> QED BY <1>1, <2>1
<1>7. c.asker = asker /\ c.select = s
  BY <1>4
<1>8. SUFFICES ASSUME NEW i \in 1 .. Len(clicks'), clicks'[i].id = windowId'
               PROVE  /\ clicks'[i].asker = asker'
                      /\ guiMode' \in Chooser => clicks'[i].select.kind \in {"Pick", "Cancel"}
  BY DEF ClickInv
<1>9. clicks'[i] = c \/ (i \in 1 .. Len(clicks) /\ clicks'[i] = clicks[i])
  BY <1>3, <1>5
<1>10. CASE clicks'[i] = c
  BY <1>5, <1>6, <1>7, <1>10
<1>11. CASE i \in 1 .. Len(clicks) /\ clicks'[i] = clicks[i]
  BY <1>5, <1>8, <1>11 DEF ClickInv
<1> QED BY <1>9, <1>10, <1>11

-----------------------------------------------------------------------------
(* The steps of the dialog, one by one: Kept is what each preserves. *)

Kept == RouteInv' /\ AloneInv' /\ ClickInv'

\* What a step of the dialog may rely on.
Ready == Typed /\ CallInv /\ LockInv /\ ClickInv /\ RouteInv /\ AloneInv

\* ImageCopyOpen, ScreenCastOpen and PermissionDialog: a fresh window, or Cancel at once.
LEMMA DialogOpenKeeps ==
  ASSUME Ready, UNCHANGED clientVars,
         NEW k \in DialogKind, NEW d \in Asker, DialogOpen(k, d)
  PROVE  Kept
<1> USE DEF Ready
<1>1. Receive(OpenDialog(k, d)) /\ UNCHANGED clicks
  BY DEF DialogOpen
<1>2. PICK f : Carried(f, inbox, inbox')
  BY <1>1, DialogsCarried DEF Receive, Typed, UIInv, UITypeOK
<1>3. \A e \in Asker : \A l : Waits(e, l) => WillWait(e, l)
  BY StillWaiting DEF clientVars
<1>4. /\ Waits(d, k)
      /\ Displayed => asker # d
      /\ \A ch \in Channel : \A i \in 1 .. Len(answers[ch]) : answers[ch][i].asker # d
      /\ \A i \in 1 .. Len(inbox') : IsDialog(inbox'[i]) => inbox'[i].asker # d
  BY <1>1, OpenedIsAlone
<1>5. CASE WindowShow
  <2>1. UNCHANGED <<windowId, guiMode, asker>>
    BY <1>5 DEF DialogOpen
  <2>2. ChannelOf(k) \in Channel /\ Len(answers[ChannelOf(k)]) = 0
    BY <1>4, ChannelIsFree
  <2>3. PICK a \in DialogAnswer : /\ a.kind = "Cancel" /\ a.asker = d
                                  /\ a = [kind |-> "Cancel", asker |-> d]
    BY DEF DialogAnswer, Selection
  <2>4. answers' = [answers EXCEPT ![ChannelOf(k)] = Append(@, a)]
    BY <1>5, <2>3 DEF DialogOpen
  <2>5. Displayed' => Displayed /\ asker # d /\ UNCHANGED <<asker, guiMode>>
    BY <1>4, <2>1 DEF Displayed, WindowShow
  <2>6. RouteInv' /\ AloneInv'
    BY <1>2, <1>3, <1>4, <2>2, <2>3, <2>4, <2>5, RouteAnswered
  <2>7. ClickInv'
    BY <1>1, <2>1, ClicksKept
  <2> QED BY <2>6, <2>7 DEF Kept
<1>6. CASE ~WindowShow
  <2>1. windowId' \in Unique /\ guiMode' = k /\ asker' = d /\ UNCHANGED answers
    BY <1>6 DEF DialogOpen
  <2>2. RouteInv' /\ AloneInv'
    BY <1>2, <1>3, <1>4, <2>1, RouteShown
  <2>3. \A i \in 1 .. Len(clicks) : clicks[i].id # windowId'
    BY <2>1, WindowIsNew
  <2>4. ClickInv'
    BY <1>1, <2>3, ClicksKept
  <2> QED BY <2>2, <2>4 DEF Kept
<1> QED BY <1>5, <1>6

\* The dialog's answers.
LEMMA AnswerType ==
  ASSUME NEW s \in Selection \cup Result, NEW d \in Asker
  PROVE  LET a == [kind |-> s, asker |-> d]
         IN a \in DialogAnswer /\ a.kind = s /\ a.asker = d
BY DEF DialogAnswer

\* Message::Selected: the press that counts was made for the call on display.
LEMMA SelectedKeeps ==
  ASSUME Ready, UNCHANGED clientVars, Selected
  PROVE  Kept
<1> USE DEF Ready
<1> DEFINE click == Head(clicks)
<1>1. clicks # <<>> /\ clicks' = Tail(clicks) /\ UNCHANGED inbox
  BY DEF Selected
<1>2. PICK f : Carried(f, inbox, inbox')
  BY <1>1, DialogsCarried DEF Typed, UIInv, UITypeOK
<1>3. \A e \in Asker : \A l : Waits(e, l) => WillWait(e, l)
  BY StillWaiting DEF clientVars
<1>4. /\ 1 \in 1 .. Len(clicks) /\ click = clicks[1]
      /\ click \in [id : WindowId, select : CopySelect, asker : Asker \cup {None}]
  <2>1. PICK C : C = [id : WindowId, select : CopySelect, asker : Asker \cup {None}]
    OBVIOUS
  <2>2. clicks \in Seq(C)
    BY <2>1 DEF Typed, UIInv, UITypeOK
  <2>3. 1 \in 1 .. Len(clicks) /\ click = clicks[1]
    BY <1>1, <2>2
  <2>4. clicks[1] \in C
    BY <2>2, <2>3, ElementType
  <2> QED BY <2>1, <2>3, <2>4
<1>5. CASE Answers(click) /\ SelectedBackground(click.select)
  <2>1. CloseAndShowNext("ScreenShot", None) /\ UNCHANGED answers
    BY <1>5 DEF SelectedBackground
  <2>2. ~Displayed'
    BY <2>1, ClosedShowsNone
  <2>3. RouteInv' /\ AloneInv'
    BY <1>2, <1>3, <2>1, <2>2, RouteKept
  <2>4. \A i \in 1 .. Len(clicks) : clicks[i].id # windowId'
    BY <2>1, WindowIsNew
  <2>5. ClickInv'
    BY <1>1, <2>4, ClicksKept
  <2> QED BY <2>3, <2>5 DEF Kept
<1>6. CASE Answers(click) /\ SelectedDialog(click)
  <2>1. click.id = windowId /\ guiMode # "BackgroundPrompt"
    BY <1>6 DEF Answers, SelectedDialog
  <2>2. windowId # NoWindow
    <3>1. click.id \in WindowId
      <4> HIDE DEF WindowId, click
      <4> QED BY <1>4
    <3>2. NoWindow \notin WindowId
      BY CapacityAssumption DEF NoWindow, WindowId
    <3> QED BY <2>1, <3>1, <3>2
  <2>3. Displayed
    BY <2>1, <2>2 DEF Displayed, WindowShow
  <2>4. asker \in Asker /\ Waits(asker, guiMode)
    BY <2>3 DEF RouteInv
  <2>5. /\ click.asker = asker
        /\ guiMode \in Chooser => click.select.kind \in {"Pick", "Cancel"}
    BY <1>4, <2>1 DEF ClickInv
  <2>6. \A ch \in Channel : \A i \in 1 .. Len(answers[ch]) : answers[ch][i].asker # asker
    BY <2>3 DEF AloneInv
  <2>7. \A i \in 1 .. Len(inbox') : IsDialog(inbox'[i]) => inbox'[i].asker # asker
    BY <1>1, <2>3 DEF AloneInv
  <2>8. /\ guiMode \in DialogKind /\ ChannelOf(guiMode) \in Channel
        /\ Len(answers[ChannelOf(guiMode)]) = 0
    BY <2>4, <2>6, ChannelIsFree, WaitingIsInside
  <2>9. PICK a \in DialogAnswer : /\ a = [kind |-> click.select.kind, asker |-> click.asker]
                                  /\ a.kind = click.select.kind /\ a.asker = asker
    <3>1. click.select.kind \in Selection \cup Result
      <4>1. click.select \in CopySelect
        <5> HIDE DEF CopySelect, WindowId, click
        <5> QED BY <1>4
      <4> HIDE DEF click
      <4> QED BY <4>1 DEF CopySelect
    <3> HIDE DEF click
    <3>2. PICK s \in Selection \cup Result : s = click.select.kind
      BY <3>1
    <3>3. [kind |-> s, asker |-> asker] \in DialogAnswer
      BY <2>4, AnswerType
    <3> QED BY <2>5, <3>2, <3>3
  <2>10. answers' = [answers EXCEPT ![ChannelOf(guiMode)] = Append(@, a)]
    BY <1>6, <2>9 DEF SelectedDialog
  <2>11. CloseAndShowNext(guiMode, activeHandle)
    BY <1>6 DEF SelectedDialog
  <2>12. ~Displayed'
    BY <2>11, ClosedShowsNone
  <2>13. RouteInv' /\ AloneInv'
    <3> HIDE DEF click, Displayed
    <3> QED BY <1>2, <1>3, <2>4, <2>5, <2>6, <2>7, <2>8, <2>9, <2>10, <2>12, RouteAnswered
  <2>14. \A i \in 1 .. Len(clicks) : clicks[i].id # windowId'
    BY <2>11, WindowIsNew
  <2>15. ClickInv'
    BY <1>1, <2>14, ClicksKept
  <2> QED BY <2>13, <2>15 DEF Kept
<1>7. CASE ~Answers(click)
  <2>1. UNCHANGED <<windowId, guiMode, asker, answers>>
    BY <1>7 DEF Selected, windowVars
  <2>2. Displayed' => Displayed
    BY <2>1 DEF Displayed, WindowShow
  <2>3. RouteInv' /\ AloneInv'
    BY <1>2, <1>3, <2>1, <2>2, RouteKept
  <2>4. ClickInv'
    BY <1>1, <2>1, ClicksKept
  <2> QED BY <2>3, <2>4 DEF Kept
<1> QED BY <1>5, <1>6, <1>7 DEF Selected

\* Message::BackgroundPrompt: a prompt opens only where no dialog is.
LEMMA BackgroundPromptKeeps ==
  ASSUME Ready, UNCHANGED clientVars, NEW h \in Handle, BackgroundPrompt(h)
  PROVE  Kept
<1> USE DEF Ready
<1>1. Receive(Prompt(h)) /\ UNCHANGED <<clicks, answers>>
  BY DEF BackgroundPrompt
<1>2. PICK f : Carried(f, inbox, inbox')
  BY <1>1, DialogsCarried DEF Receive, Typed, UIInv, UITypeOK
<1>3. \A e \in Asker : \A l : Waits(e, l) => WillWait(e, l)
  BY StillWaiting DEF clientVars
<1>4. CASE UNCHANGED windowVars
  <2>1. UNCHANGED <<windowId, guiMode, asker>> /\ (Displayed' => Displayed)
    BY <1>4 DEF windowVars, Displayed, WindowShow
  <2>2. RouteInv' /\ AloneInv'
    BY <1>1, <1>2, <1>3, <2>1, RouteKept
  <2>3. ClickInv'
    BY <1>1, <2>1, ClicksKept
  <2> QED BY <2>2, <2>3 DEF Kept
<1>5. CASE OpenBackgroundPrompt(h)
  <2>1. windowId' \in Unique /\ ~Displayed'
    BY <1>5 DEF OpenBackgroundPrompt, Displayed
  <2>2. RouteInv' /\ AloneInv'
    BY <1>1, <1>2, <1>3, <2>1, RouteKept
  <2>3. \A i \in 1 .. Len(clicks) : clicks[i].id # windowId'
    BY <2>1, WindowIsNew
  <2>4. ClickInv'
    BY <1>1, <2>3, ClicksKept
  <2> QED BY <2>2, <2>4 DEF Kept
<1>6. UNCHANGED windowVars \/ OpenBackgroundPrompt(h)
  BY DEF BackgroundPrompt, PromptWithdrawn, PromptOverflows, PromptQueued, PromptShown
<1> QED BY <1>4, <1>5, <1>6

\* Message::CloseBackgroundPrompt: it closes prompts, never a dialog.
LEMMA CloseBackgroundPromptKeeps ==
  ASSUME Ready, UNCHANGED clientVars, NEW h \in Handle, CloseBackgroundPrompt(h)
  PROVE  Kept
<1> USE DEF Ready
<1>1. Receive(ClosePrompt(h)) /\ UNCHANGED <<clicks, answers>>
  BY DEF CloseBackgroundPrompt
<1>2. PICK f : Carried(f, inbox, inbox')
  BY <1>1, DialogsCarried DEF Receive, Typed, UIInv, UITypeOK
<1>3. \A e \in Asker : \A l : Waits(e, l) => WillWait(e, l)
  BY StillWaiting DEF clientVars
<1>4. CASE CloseNotDisplayed(h)
  <2>1. UNCHANGED <<windowId, guiMode, asker>> /\ (Displayed' => Displayed)
    BY <1>4 DEF CloseNotDisplayed, windowVars, Displayed, WindowShow
  <2>2. RouteInv' /\ AloneInv'
    BY <1>1, <1>2, <1>3, <2>1, RouteKept
  <2>3. ClickInv'
    BY <1>1, <2>1, ClicksKept
  <2> QED BY <2>2, <2>3 DEF Kept
<1>5. CASE CloseDisplayed(h)
  <2>1. CloseAndShowNext("ScreenShot", None)
    BY <1>5 DEF CloseDisplayed
  <2>2. ~Displayed'
    BY <2>1, ClosedShowsNone
  <2>3. RouteInv' /\ AloneInv'
    BY <1>1, <1>2, <1>3, <2>2, RouteKept
  <2>4. \A i \in 1 .. Len(clicks) : clicks[i].id # windowId'
    BY <2>1, WindowIsNew
  <2>5. ClickInv'
    BY <1>1, <2>4, ClicksKept
  <2> QED BY <2>3, <2>5 DEF Kept
<1> QED BY <1>4, <1>5 DEF CloseBackgroundPrompt

\* A button is pressed.
LEMMA PressAnyKeeps ==
  ASSUME Ready, UNCHANGED clientVars, PressAny
  PROVE  Kept
<1> USE DEF Ready
<1>1. UNCHANGED <<inbox, answers, windowId, guiMode, asker>>
  BY DEF PressAny, Press, windowVars
<1>2. PICK f : Carried(f, inbox, inbox')
  BY <1>1, DialogsCarried DEF Typed, UIInv, UITypeOK
<1>3. \A e \in Asker : \A l : Waits(e, l) => WillWait(e, l)
  BY StillWaiting DEF clientVars
<1>4. Displayed' => Displayed
  BY <1>1 DEF Displayed, WindowShow
<1>5. RouteInv' /\ AloneInv'
  BY <1>1, <1>2, <1>3, <1>4, RouteKept
<1> QED BY <1>5, PressKeeps DEF Kept

\* Any step of the dialog.
LEMMA UIStepKeeps ==
  ASSUME Inv, UIStep
  PROVE  Inv'
<1>1. Ready /\ UINext /\ UNCHANGED clientVars
  BY DEF Inv, Ready, UIStep
<1>2. Kept
  <2>1. CASE PressAny \/ Selected
    BY <1>1, <2>1, PressAnyKeeps, SelectedKeeps
  <2>2. CASE Update
    BY <1>1, <2>2, DialogOpenKeeps, BackgroundPromptKeeps, CloseBackgroundPromptKeeps DEF Update
  <2> QED BY <1>1, <2>1, <2>2 DEF UINext
<1>3. Typed'
  <2>1. UIInv'
    BY <1>1, UINextTypes DEF Ready, Typed
  <2>2. TypeOK'
    BY <1>1, <2>1 DEF Ready, Typed, UIInv, TypeOK, clientVars
  <2> QED BY <2>1, <2>2 DEF Typed
<1> QED BY <1>1, <1>2, <1>3, StillWaiting DEF Inv, Kept, clientVars

-----------------------------------------------------------------------------
(* Steps of the calls: what happens to the dialogs *)

\* A step of call d is none of the others'.
OthersKeep(d) ==
  \A e \in Asker : e # d => /\ at'[e] = at[e] /\ operation'[e] = operation[e]
                            /\ client'[e] = client[e] /\ outcome'[e] = outcome[e]

\* The call that does not wait has no dialog anywhere.
LEMMA HasNoDialog ==
  ASSUME RouteInv, NEW d \in Asker, at[d] \notin {"permission", "choose"}
  PROVE  /\ \A k : ~Waits(d, k)
         /\ \A i \in 1 .. Len(inbox) : IsDialog(inbox[i]) => inbox[i].asker # d
         /\ Displayed => asker # d
         /\ \A ch \in Channel : \A i \in 1 .. Len(answers[ch]) : answers[ch][i].asker # d
<1>1. \A k : ~Waits(d, k)
  BY DEF Waits
<1> HIDE DEF Displayed
<1>2. \A i \in 1 .. Len(inbox) : IsDialog(inbox[i]) => inbox[i].asker # d
  BY <1>1 DEF RouteInv
<1>3. Displayed => asker # d
  BY <1>1 DEF RouteInv
<1>4. ASSUME NEW ch \in Channel, NEW i \in 1 .. Len(answers[ch])
      PROVE  answers[ch][i].asker # d
  <2>1. PICK b : b = answers[ch][i]
    OBVIOUS
  <2>2. Fits(b, ch)
    BY <2>1 DEF RouteInv
  <2> QED BY <1>1, <2>1, <2>2 DEF Fits
<1> QED BY <1>1, <1>2, <1>3, <1>4

\* A call goes on without the dialog.
LEMMA QuietMove ==
  ASSUME Ready, UNCHANGED uiVars, NEW d \in Asker, OthersKeep(d),
         at[d] \notin {"permission", "choose"}
  PROVE  Kept
<1> USE DEF Ready
<1>1. UNCHANGED <<inbox, clicks, windowId, guiMode, asker, answers>>
  BY DEF uiVars, windowVars
<1>2. PICK f : Carried(f, inbox, inbox')
  BY <1>1, DialogsCarried DEF Typed, UIInv, UITypeOK
<1>3. \A e \in Asker : \A k : Waits(e, k) => WillWait(e, k)
  BY DEF Waits, WillWait, OthersKeep
<1>4. Displayed' => Displayed
  BY <1>1 DEF Displayed, WindowShow
<1>5. RouteInv' /\ AloneInv'
  BY <1>1, <1>2, <1>3, <1>4, RouteKept
<1>6. ClickInv'
  BY <1>1, ClicksKept
<1> QED BY <1>5, <1>6 DEF Kept

\* A call asks: the message is its only dialog.
LEMMA AskMove ==
  ASSUME Ready, NEW d \in Asker, NEW k \in DialogKind, OthersKeep(d), AskDialog(d, k),
         at[d] \notin {"permission", "choose"}, WillWait(d, k)
  PROVE  Kept
<1> USE DEF Ready
<1>1. UNCHANGED <<clicks, windowId, guiMode, asker, answers>>
  BY DEF AskDialog, windowVars
<1>2. PICK m : /\ m = OpenDialog(k, d) /\ m.kind = k /\ m.asker = d
               /\ inbox' = Append(inbox, m)
  BY DEF AskDialog, OpenDialog
<1>3. inbox \in Seq(Message)
  BY DEF Typed, UIInv, UITypeOK
<1>4. \A i \in 1 .. Len(inbox') :
        \/ i = Len(inbox) + 1 /\ inbox'[i] = m
        \/ i \in 1 .. Len(inbox) /\ inbox'[i] = inbox[i]
  BY <1>2, <1>3
<1>5. \A e \in Asker : \A l : Waits(e, l) => e # d /\ WillWait(e, l)
  BY DEF Waits, WillWait, OthersKeep
<1>6. /\ \A i \in 1 .. Len(inbox) : IsDialog(inbox[i]) => inbox[i].asker # d
      /\ Displayed => asker # d
      /\ \A ch \in Channel : \A i \in 1 .. Len(answers[ch]) : answers[ch][i].asker # d
  BY HasNoDialog
<1>7. (Displayed' => Displayed) /\ UNCHANGED <<asker, guiMode>>
  BY <1>1 DEF Displayed, WindowShow
<1> HIDE DEF Displayed
<1>8. RouteInv'
  <2>1. ASSUME NEW i \in 1 .. Len(inbox'), IsDialog(inbox'[i])
        PROVE  inbox'[i].asker \in Asker /\ WillWait(inbox'[i].asker, inbox'[i].kind)
    <3>1. CASE inbox'[i] = m
      BY <1>2, <3>1
    <3>2. CASE i \in 1 .. Len(inbox) /\ inbox'[i] = inbox[i]
      BY <1>5, <2>1, <3>2 DEF RouteInv
    <3> QED BY <1>4, <3>1, <3>2
  <2>2. Displayed' => asker' \in Asker /\ WillWait(asker', guiMode')
    BY <1>5, <1>7 DEF RouteInv
  <2>3. ASSUME NEW ch \in Channel, NEW i \in 1 .. Len(answers'[ch])
        PROVE  WillFit(answers'[ch][i], ch)
    <3>1. PICK b : b = answers[ch][i] /\ b = answers'[ch][i]
      BY <1>1
    <3>2. Fits(b, ch)
      BY <1>1, <3>1 DEF RouteInv
    <3>3. WillFit(b, ch)
      BY <1>5, <3>2 DEF Fits, WillFit
    <3> QED BY <3>1, <3>3
  <2> QED BY <2>1, <2>2, <2>3, RouteNext
<1>9. AloneInv'
  <2>1. ASSUME NEW i \in 1 .. Len(inbox'), NEW j \in 1 .. Len(inbox'),
               IsDialog(inbox'[i]), IsDialog(inbox'[j]), inbox'[i].asker = inbox'[j].asker
        PROVE  i = j
    <3>1. CASE i \in 1 .. Len(inbox) /\ inbox'[i] = inbox[i]
      <4>1. inbox'[j] # m
        BY <1>2, <1>6, <2>1, <3>1
      <4>2. j \in 1 .. Len(inbox) /\ inbox'[j] = inbox[j]
        BY <1>4, <4>1
      <4> QED BY <2>1, <3>1, <4>2 DEF AloneInv
    <3>2. CASE i = Len(inbox) + 1 /\ inbox'[i] = m
      <4>1. ~(j \in 1 .. Len(inbox) /\ inbox'[j] = inbox[j])
        BY <1>2, <1>6, <2>1, <3>2
      <4> QED BY <1>4, <3>2, <4>1
    <3> QED BY <1>4, <3>1, <3>2
  <2>2. ASSUME NEW i \in 1 .. Len(inbox'), IsDialog(inbox'[i])
        PROVE  /\ Displayed' => inbox'[i].asker # asker'
               /\ \A ch \in Channel : \A j \in 1 .. Len(answers'[ch]) :
                    answers'[ch][j].asker # inbox'[i].asker
    <3>1. CASE inbox'[i] = m
      BY <1>1, <1>2, <1>6, <1>7, <3>1
    <3>2. CASE i \in 1 .. Len(inbox) /\ inbox'[i] = inbox[i]
      <4>1. Displayed' => inbox'[i].asker # asker'
        BY <1>7, <2>2, <3>2 DEF AloneInv
      <4>2. \A ch \in Channel : \A j \in 1 .. Len(answers[ch]) :
              answers[ch][j].asker # inbox[i].asker
        BY <2>2, <3>2 DEF AloneInv
      <4> QED BY <1>1, <3>2, <4>1, <4>2
    <3> QED BY <1>4, <3>1, <3>2
  <2>3. Displayed' => \A ch \in Channel : \A j \in 1 .. Len(answers'[ch]) :
                        answers'[ch][j].asker # asker'
    BY <1>1, <1>7 DEF AloneInv
  <2>4. \A ch \in Channel : Len(answers'[ch]) <= 1
    BY <1>1 DEF AloneInv
  <2> QED BY <2>1, <2>2, <2>3, <2>4 DEF AloneInv
<1>10. ClickInv'
  BY <1>1, ClicksKept
<1> QED BY <1>8, <1>9, <1>10 DEF Kept

\* A sequence of one element.
LEMMA LoneElement ==
  ASSUME NEW T, NEW q \in Seq(T), q # <<>>, Len(q) <= 1
  PROVE  Len(q) = 1 /\ Head(q) = q[1] /\ Len(Tail(q)) = 0
<1>1. Len(q) \in Nat /\ Len(q) # 0
  OBVIOUS
<1>2. Len(q) = 1
  <2>1. PICK n \in Nat : n = Len(q) /\ n # 0 /\ n <= 1
    BY <1>1
  <2>2. n = 1
    BY <2>1
  <2> QED BY <2>1, <2>2
<1>3. Len(Tail(q)) = Len(q) - 1
  OBVIOUS
<1>4. Head(q) = q[1]
  OBVIOUS
<1> QED BY <1>2, <1>3, <1>4

\* A call takes the answer that waits in the channel of its dialog: it is an
\* answer to this call, and the last thing there was of the dialog.
LEMMA TakeMove ==
  ASSUME Ready, NEW d \in Asker, NEW k, Waits(d, k), OthersKeep(d), TakeAnswer(ChannelOf(k))
  PROVE  /\ Kept
         /\ k \in Chooser => Head(answers[ChannelOf(k)]).kind \in {"Pick", "Cancel"}
<1> USE DEF Ready
<1>1. PICK c : c = ChannelOf(k)
  OBVIOUS
<1>2. c \in Channel /\ answers \in [Channel -> Seq(DialogAnswer)]
  BY <1>1, WaitingIsInside DEF Typed, UIInv, UITypeOK
<1>3. answers[c] \in Seq(DialogAnswer) /\ answers[c] # <<>> /\ Len(answers[c]) <= 1
  BY <1>1, <1>2 DEF TakeAnswer, AloneInv
<1>4. Len(answers[c]) = 1 /\ Head(answers[c]) = answers[c][1] /\ Len(Tail(answers[c])) = 0
  BY <1>3, LoneElement
<1>5. 1 \in 1 .. Len(answers[c])
  BY <1>4
<1>6. /\ answers[c][1].asker = d
      /\ k \in Chooser => answers[c][1].kind \in {"Pick", "Cancel"}
  BY <1>1, <1>5, AnswerIsMine
<1>7. UNCHANGED <<inbox, clicks, windowId, guiMode, asker>>
  BY DEF TakeAnswer, windowVars
<1>8. answers' = [answers EXCEPT ![c] = Tail(@)]
  BY <1>1 DEF TakeAnswer
<1>9. Len(answers'[c]) = 0 /\ \A ch \in Channel : ch # c => answers'[ch] = answers[ch]
  BY <1>2, <1>4, <1>8
<1>10. \A l : Waits(d, l) => l = k
  BY DEF Waits
<1>11. \A e \in Asker : \A l : Waits(e, l) /\ e # d => WillWait(e, l)
  BY DEF Waits, WillWait, OthersKeep
<1>12. \A i \in 1 .. Len(inbox) : IsDialog(inbox[i]) => inbox[i].asker # d
  BY <1>2, <1>5, <1>6 DEF AloneInv
<1>13. Displayed => asker # d
  BY <1>2, <1>5, <1>6 DEF AloneInv
<1>14. Displayed' => Displayed
  BY <1>7 DEF Displayed, WindowShow
<1> HIDE DEF Displayed
<1>15. RouteInv'
  <2>1. ASSUME NEW i \in 1 .. Len(inbox'), IsDialog(inbox'[i])
        PROVE  inbox'[i].asker \in Asker /\ WillWait(inbox'[i].asker, inbox'[i].kind)
    <3>1. inbox[i].asker \in Asker /\ Waits(inbox[i].asker, inbox[i].kind)
      BY <1>7, <2>1 DEF RouteInv
    <3> QED BY <1>7, <1>11, <1>12, <2>1, <3>1
  <2>2. Displayed' => asker' \in Asker /\ WillWait(asker', guiMode')
    BY <1>7, <1>11, <1>13, <1>14 DEF RouteInv
  <2>3. ASSUME NEW ch \in Channel, NEW i \in 1 .. Len(answers'[ch])
        PROVE  WillFit(answers'[ch][i], ch)
    <3>1. ch # c
      BY <1>9
    <3>2. PICK b : b = answers[ch][i] /\ b = answers'[ch][i] /\ i \in 1 .. Len(answers[ch])
      BY <1>9, <3>1
    <3>3. Fits(b, ch)
      BY <3>2 DEF RouteInv
    <3>4. b.asker # d
      BY <1>1, <1>10, <3>1, <3>3 DEF Fits
    <3>5. WillFit(b, ch)
      BY <1>11, <3>3, <3>4 DEF Fits, WillFit
    <3> QED BY <3>2, <3>5
  <2> QED BY <2>1, <2>2, <2>3, RouteNext
<1>16. AloneInv'
  <2>1. \A i, j \in 1 .. Len(inbox') :
          IsDialog(inbox'[i]) /\ IsDialog(inbox'[j]) /\ inbox'[i].asker = inbox'[j].asker => i = j
    BY <1>7 DEF AloneInv
  <2>2. \A i \in 1 .. Len(inbox') : IsDialog(inbox'[i]) /\ Displayed' => inbox'[i].asker # asker'
    BY <1>7, <1>14 DEF AloneInv
  <2>3. ASSUME NEW ch \in Channel, NEW j \in 1 .. Len(answers'[ch])
        PROVE  /\ \A i \in 1 .. Len(inbox') : IsDialog(inbox'[i]) =>
                    answers'[ch][j].asker # inbox'[i].asker
               /\ Displayed' => answers'[ch][j].asker # asker'
    <3>1. answers'[ch] = answers[ch]
      BY <1>9
    <3> QED BY <1>7, <1>14, <3>1 DEF AloneInv
  <2>4. \A ch \in Channel : Len(answers'[ch]) <= 1
    BY <1>9 DEF AloneInv
  <2> QED BY <2>1, <2>2, <2>3, <2>4 DEF AloneInv
<1>17. ClickInv'
  BY <1>7, ClicksKept
<1> QED BY <1>1, <1>4, <1>6, <1>15, <1>16, <1>17 DEF Kept

-----------------------------------------------------------------------------
(* Steps of the calls: parameters, locks and white lists *)

\* The other calls are where they were, so it is enough to look at d.
LEMMA CallKept ==
  ASSUME CallInv, NEW d \in Asker, OthersKeep(d),
         at'[d] \notin {"idle", "done"} => operation'[d] \in Operation /\ client'[d] \in ClientApp,
         at'[d] = "permission" => operation'[d] \in {"Screenshot", "RemoteCreate"},
         at'[d] = "choose" => operation'[d] \in {"Screenshot", "CastStart"}
  PROVE  CallInv'
BY DEF CallInv, OthersKeep

\* A call that stays inside, or is outside afterwards, disturbs nobody's lock.
LEMMA LockKept ==
  ASSUME LockInv, NEW d \in Asker, OthersKeep(d),
         at'[d] \in {"idle", "called", "done"} \/ (Inside(d) /\ operation'[d] = operation[d])
  PROVE  LockInv'
<1>1. \A e \in Asker : at'[e] \notin {"idle", "called", "done"} =>
        Inside(e) /\ operation'[e] = operation[e]
  BY DEF OthersKeep, Inside
<1> QED BY <1>1 DEF LockInv, Inside

\* Nothing is listed, and d does not start to wait for permission but for itself.
LEMMA ListKept ==
  ASSUME ListInv, NEW d \in Asker, OthersKeep(d), UNCHANGED whitelist,
         at'[d] = "permission" =>
           ~Whitelisted(d) /\ operation'[d] = operation[d] /\ client'[d] = client[d]
  PROVE  ListInv'
<1>1. \A e \in Asker : at'[e] = "permission" =>
        ~Whitelisted(e) /\ operation'[e] = operation[e] /\ client'[e] = client[e]
  BY DEF OthersKeep, ListInv
<1>2. \A e \in Asker : at'[e] = "permission" => ~Whitelisted(e)'
  BY <1>1 DEF Whitelisted
<1> QED BY <1>2 DEF ListInv

\* Typed, for the steps that leave the dialog alone.
LEMMA UIUnchanged ==
  ASSUME UIInv, UNCHANGED uiVars
  PROVE  UIInv'
BY DEF uiVars, windowVars, promptVars, UIInv, UITypeOK

\* A call arrives at the object server.
LEMMA CallMethodKeeps ==
  ASSUME Inv, NEW d \in Asker, NEW op \in Operation, NEW a \in ClientApp, CallMethod(d, op, a)
  PROVE  Inv'
<1>1. /\ at[d] = "idle" /\ at' = [at EXCEPT ![d] = "called"]
      /\ operation' = [operation EXCEPT ![d] = op] /\ client' = [client EXCEPT ![d] = a]
      /\ UNCHANGED <<uiVars, outcome, whitelist, traffic>>
  BY DEF CallMethod, Move
<1>2. Ready /\ Typed /\ ListInv /\ \A e \in Asker : outcome[e] # "Panic"
  BY DEF Inv, Ready
<1>3. /\ at \in [Asker -> Place] /\ operation \in [Asker -> Operation \cup {None}]
      /\ client \in [Asker -> ClientApp \cup {None}]
  BY <1>2 DEF Typed, TypeOK
<1>4. at'[d] = "called" /\ operation'[d] = op /\ client'[d] = a /\ OthersKeep(d)
  BY <1>1, <1>3 DEF OthersKeep
<1>5. Kept
  BY <1>1, <1>2, <1>4, QuietMove
<1>6. CallInv' /\ LockInv' /\ ListInv'
  BY <1>1, <1>2, <1>4, CallKept, LockKept, ListKept DEF Ready
<1>7. Typed'
  <2>1. UIInv'
    BY <1>1, <1>2, UIUnchanged DEF Typed
  <2>2. at' \in [Asker -> Place]
    BY <1>1, <1>3 DEF Place
  <2>3. operation' \in [Asker -> Operation \cup {None}]
    BY <1>1, <1>3
  <2>4. client' \in [Asker -> ClientApp \cup {None}]
    BY <1>1, <1>3
  <2> QED BY <1>1, <1>2, <2>1, <2>2, <2>3, <2>4 DEF Typed, TypeOK, UIInv
<1> QED BY <1>1, <1>2, <1>5, <1>6, <1>7 DEF Kept, Inv

\* The steps that only move a call from one place inside to another.
LEMMA EnterKeeps ==
  ASSUME Inv, NEW d \in Asker, Enter(d) \/ SkipPermission(d)
  PROVE  Inv'
<1>1. /\ UNCHANGED <<uiVars, operation, client, outcome, whitelist, traffic>>
      /\ \/ at[d] = "called" /\ at' = [at EXCEPT ![d] = "check"] /\ LockFree(d)
         \/ at[d] = "check" /\ at' = [at EXCEPT ![d] = "act"]
  BY DEF Enter, SkipPermission, Move
<1>2. Ready /\ Typed /\ ListInv /\ \A e \in Asker : outcome[e] # "Panic"
  BY DEF Inv, Ready
<1>3. at \in [Asker -> Place]
  BY <1>2 DEF Typed, TypeOK
<1>4. at'[d] \in {"check", "act"} /\ OthersKeep(d)
  BY <1>1, <1>3 DEF OthersKeep
<1>5. Kept
  BY <1>1, <1>2, <1>4, QuietMove
<1>6. CallInv'
  <2>1. operation[d] \in Operation /\ client[d] \in ClientApp
    BY <1>1, <1>2 DEF Ready, CallInv
  <2> QED BY <1>1, <1>2, <1>4, <2>1, CallKept DEF Ready
<1>7. LockInv'
  <2>1. CASE LockFree(d)
    <3>1. \A e \in Asker : e # d =>
            (at'[e] \notin {"idle", "called", "done"} => Inside(e)) /\ operation'[e] = operation[e]
      BY <1>4 DEF OthersKeep, Inside
    <3>2. \A e \in Asker : operation'[e] = operation[e]
      BY <1>1
    <3> QED BY <1>2, <2>1, <3>1, <3>2 DEF LockFree, LockInv, Inside, Ready
  <2>2. CASE at[d] = "check"
    BY <1>1, <1>2, <1>4, <2>2, LockKept DEF Ready, Inside
  <2> QED BY <1>1, <2>1, <2>2
<1>8. ListInv'
  BY <1>1, <1>2, <1>4, ListKept
<1>9. Typed'
  <2>1. UIInv'
    BY <1>1, <1>2, UIUnchanged DEF Typed
  <2>2. at' \in [Asker -> Place]
    BY <1>1, <1>3 DEF Place
  <2> QED BY <1>1, <1>2, <2>1, <2>2 DEF Typed, TypeOK, UIInv
<1> QED BY <1>1, <1>2, <1>5, <1>6, <1>7, <1>8, <1>9 DEF Kept, Inv

\* A call returns.
LEMMA ReturnTypes ==
  ASSUME Typed, NEW d \in Asker, NEW place, at' = [at EXCEPT ![d] = place], NEW r, Return(d, r)
  PROVE  /\ at'[d] = place /\ OthersKeep(d)
         /\ r \in Outcome /\ place \in Place /\ UIInv' /\ UNCHANGED traffic
              /\ whitelist' \in [List -> Seq(ClientApp)] => TypeOK'
         /\ r # "Panic" /\ (\A e \in Asker : outcome[e] # "Panic") =>
              \A e \in Asker : outcome'[e] # "Panic"
<1>1. /\ at \in [Asker -> Place] /\ operation \in [Asker -> Operation \cup {None}]
      /\ client \in [Asker -> ClientApp \cup {None}]
      /\ outcome \in [Asker -> Outcome \cup {None}]
  BY DEF Typed, TypeOK
<1>2. /\ outcome' = [outcome EXCEPT ![d] = r] /\ operation' = [operation EXCEPT ![d] = None]
      /\ client' = [client EXCEPT ![d] = None]
  BY DEF Return
<1>3. at'[d] = place /\ outcome'[d] = r
  BY <1>1, <1>2
<1>4. OthersKeep(d)
  BY <1>1, <1>2 DEF OthersKeep
<1>5. ASSUME r \in Outcome, place \in Place, UIInv', UNCHANGED traffic,
             whitelist' \in [List -> Seq(ClientApp)]
      PROVE  TypeOK'
  <2>1. at' \in [Asker -> Place]
    BY <1>1, <1>5
  <2>2. operation' \in [Asker -> Operation \cup {None}]
    BY <1>1, <1>2
  <2>3. client' \in [Asker -> ClientApp \cup {None}]
    BY <1>1, <1>2
  <2>4. outcome' \in [Asker -> Outcome \cup {None}]
    BY <1>1, <1>2, <1>5
  <2> QED BY <1>5, <2>1, <2>2, <2>3, <2>4 DEF Typed, TypeOK, UIInv
<1>6. ASSUME r # "Panic", \A e \in Asker : outcome[e] # "Panic"
      PROVE  \A e \in Asker : outcome'[e] # "Panic"
  BY <1>3, <1>4, <1>6 DEF OthersKeep
<1> QED BY <1>3, <1>4, <1>5, <1>6

\* A call asks for permission or for a choice.
LEMMA AskKeeps ==
  ASSUME Inv, NEW d \in Asker, AskPermission(d) \/ AskChoice(d)
  PROVE  Inv'
<1>1. Ready /\ Typed /\ ListInv /\ \A e \in Asker : outcome[e] # "Panic"
  BY DEF Inv, Ready
<1>2. at \in [Asker -> Place]
  BY <1>1 DEF Typed, TypeOK
<1>3. UNCHANGED <<operation, client, outcome, whitelist, traffic>>
  BY DEF AskPermission, AskChoice
<1>4. PICK k \in DialogKind, place \in {"permission", "choose"} :
        /\ AskDialog(d, k)
        /\ at[d] \in {"check", "act"} /\ at' = [at EXCEPT ![d] = place]
        /\ place = "permission" => /\ operation[d] \in {"Screenshot", "RemoteCreate"}
                                   /\ k = PermissionOf(operation[d]) /\ ~Whitelisted(d)
        /\ place = "choose" => /\ operation[d] \in {"Screenshot", "CastStart"}
                               /\ k = ChooserOf(operation[d])
  <2>1. CASE AskPermission(d)
    <3>1. PermissionOf(operation[d]) \in DialogKind
      BY DEF PermissionOf, DialogKind, Chooser, Permission
    <3> QED BY <2>1, <3>1 DEF AskPermission, Move, NeedsPermission
  <2>2. CASE AskChoice(d)
    <3>1. ChooserOf(operation[d]) \in DialogKind
      BY DEF ChooserOf, DialogKind, Chooser, Permission
    <3> QED BY <2>2, <3>1 DEF AskChoice, Move
  <2> QED BY <2>1, <2>2
<1>5. at'[d] = place /\ OthersKeep(d) /\ Inside(d)
  BY <1>2, <1>3, <1>4 DEF OthersKeep, Inside
<1>6. WillWait(d, k)
  BY <1>3, <1>4, <1>5 DEF WillWait
<1>7. Kept
  BY <1>1, <1>4, <1>5, <1>6, AskMove
<1>8. CallInv'
  <2>1. operation[d] \in Operation /\ client[d] \in ClientApp
    BY <1>1, <1>4 DEF Ready, CallInv
  <2> QED BY <1>1, <1>3, <1>4, <1>5, <2>1, CallKept DEF Ready
<1>9. LockInv'
  BY <1>1, <1>3, <1>5, LockKept DEF Ready
<1>10. ListInv'
  BY <1>1, <1>3, <1>4, <1>5, ListKept
<1>11. Typed'
  <2>1. inbox' \in Seq(Message)
    <3>1. PICK m \in Message : m = OpenDialog(k, d)
      BY MessageTypes
    <3>2. inbox \in Seq(Message) /\ inbox' = Append(inbox, m)
      BY <1>1, <1>4, <3>1 DEF AskDialog, Typed, UIInv, UITypeOK
    <3> HIDE DEF Message
    <3> QED BY <3>2
  <2>2. UIInv'
    BY <1>1, <1>4, <2>1 DEF AskDialog, windowVars, promptVars, Typed, UIInv, UITypeOK
  <2>3. at' \in [Asker -> Place]
    BY <1>2, <1>4 DEF Place
  <2> QED BY <1>1, <1>3, <2>2, <2>3 DEF Typed, TypeOK, UIInv
<1> QED BY <1>1, <1>3, <1>7, <1>8, <1>9, <1>10, <1>11 DEF Kept, Inv

\* A call returns without a choice.
LEMMA CompleteKeeps ==
  ASSUME Inv, NEW d \in Asker, Complete(d)
  PROVE  Inv'
<1>1. PICK r \in {"Success", "Error", "Other"} :
        /\ at[d] = "act" /\ at' = [at EXCEPT ![d] = "done"] /\ Return(d, r)
        /\ UNCHANGED <<uiVars, whitelist, traffic>>
  BY DEF Complete, Move
<1>2. Ready /\ Typed /\ ListInv /\ \A e \in Asker : outcome[e] # "Panic"
  BY DEF Inv, Ready
<1>3. at \in [Asker -> Place]
  BY <1>2 DEF Typed, TypeOK
<1>4. at'[d] = "done" /\ OthersKeep(d)
  BY <1>1, <1>2, <1>3, ReturnTypes
<1>5. Kept
  BY <1>1, <1>2, <1>4, QuietMove
<1>6. CallInv' /\ LockInv' /\ ListInv'
  BY <1>1, <1>2, <1>4, CallKept, LockKept, ListKept DEF Ready
<1>7. Typed' /\ \A e \in Asker : outcome'[e] # "Panic"
  <2>1. UIInv'
    BY <1>1, <1>2, UIUnchanged DEF Typed
  <2>2. r \in Outcome /\ r # "Panic"
    BY DEF Outcome
  <2>3. whitelist' \in [List -> Seq(ClientApp)] /\ traffic' = traffic
    BY <1>1, <1>2 DEF Typed, TypeOK
  <2>4. "done" \in Place
    BY DEF Place
  <2>5. TypeOK'
    BY <1>1, <1>2, <2>1, <2>2, <2>3, <2>4, ReturnTypes
  <2>6. \A e \in Asker : outcome'[e] # "Panic"
    BY <1>1, <1>2, <2>2, ReturnTypes
  <2> QED BY <2>1, <2>5, <2>6 DEF Typed
<1> QED BY <1>5, <1>6, <1>7 DEF Kept, Inv

\* The answer leaves its channel, and nothing else of the dialog changes.
LEMMA TakeTypes ==
  ASSUME UIInv, NEW c \in Channel, TakeAnswer(c)
  PROVE  UIInv'
<1>1. answers \in [Channel -> Seq(DialogAnswer)]
  BY DEF UIInv, UITypeOK
<1>2. answers' = [answers EXCEPT ![c] = Tail(@)] /\ answers[c] # <<>>
  BY DEF TakeAnswer
<1>3. answers[c] \in Seq(DialogAnswer)
  BY <1>1
<1>4. Tail(answers[c]) \in Seq(DialogAnswer)
  <2> HIDE DEF DialogAnswer
  <2> QED BY <1>2, <1>3
<1>5. answers' \in [Channel -> Seq(DialogAnswer)]
  BY <1>1, <1>2, <1>4
<1> QED BY <1>5 DEF TakeAnswer, windowVars, promptVars, UIInv, UITypeOK

\* An element that is not there yet makes no duplicate.
LEMMA NewElementInjective ==
  ASSUME NEW T, NEW q \in Seq(T), NEW x \in T, IsInjective(q), ~Contains(q, x)
  PROVE  IsInjective(Append(q, x))
<1>1. Len(q) \in Nat /\ DOMAIN q = 1 .. Len(q)
  OBVIOUS
<1>2. PICK p : p = Append(q, x)
  OBVIOUS
<1>3. /\ DOMAIN p = 1 .. Len(q) + 1
      /\ \A i \in 1 .. Len(q) : p[i] = q[i]
      /\ p[Len(q) + 1] = x
  BY <1>2
<1>4. \A i \in 1 .. Len(q) : q[i] # x
  BY DEF Contains
<1>5. \A i \in DOMAIN p : i \in 1 .. Len(q) \/ i = Len(q) + 1
  BY <1>1, <1>3
<1>6. \A i, j \in DOMAIN p : p[i] = p[j] => i = j
  BY <1>1, <1>3, <1>4, <1>5 DEF IsInjective
<1> QED BY <1>2, <1>6 DEF IsInjective

\* The answer about permission; AlwaysAllow lists the caller.
LEMMA GetPermissionKeeps ==
  ASSUME Inv, NEW d \in Asker, GetPermission(d)
  PROVE  Inv'
<1>1. Ready /\ Typed /\ ListInv /\ CallInv /\ LockInv /\ \A e \in Asker : outcome[e] # "Panic"
  BY DEF Inv, Ready
<1>2. PICK k : k = PermissionOf(operation[d])
  OBVIOUS
<1>3. at[d] = "permission" /\ TakeAnswer(ChannelOf(k)) /\ UNCHANGED traffic
  BY <1>2 DEF GetPermission
<1>4. Waits(d, k) /\ operation[d] \in {"Screenshot", "RemoteCreate"}
  BY <1>1, <1>2, <1>3 DEF Waits, CallInv
<1>5. ChannelOf(k) \in Channel /\ Inside(d) /\ operation[d] \in Operation /\ client[d] \in ClientApp
  BY <1>1, <1>3, <1>4, WaitingIsInside DEF CallInv
<1>6. /\ at \in [Asker -> Place] /\ whitelist \in [List -> Seq(ClientApp)]
  BY <1>1 DEF Typed, TypeOK
<1>7. UIInv'
  BY <1>1, <1>3, <1>5, TakeTypes DEF Typed
<1>8. whitelist' \in [List -> Seq(ClientApp)] /\ \A l \in List : IsInjective(whitelist'[l])
  <2>1. CASE whitelist' = whitelist
    BY <1>1, <1>6, <2>1 DEF ListInv
  <2>2. CASE whitelist' = [whitelist EXCEPT ![ListOf(operation[d])] = Append(@, client[d])]
    <3>1. ListOf(operation[d]) \in List
      BY DEF ListOf, List
    <3>2. whitelist[ListOf(operation[d])] \in Seq(ClientApp)
      BY <1>6, <3>1
    <3>3. PICK q : q = Append(whitelist[ListOf(operation[d])], client[d])
      OBVIOUS
    <3>4. IsInjective(q) /\ q \in Seq(ClientApp)
      <4>1. ~Contains(whitelist[ListOf(operation[d])], client[d])
        BY <1>1, <1>3 DEF ListInv, Whitelisted
      <4>2. IsInjective(whitelist[ListOf(operation[d])])
        BY <1>1, <3>1 DEF ListInv
      <4> QED BY <1>5, <3>2, <3>3, <4>1, <4>2, NewElementInjective
    <3>5. \A l \in List : whitelist'[l] = IF l = ListOf(operation[d]) THEN q ELSE whitelist[l]
      BY <1>6, <2>2, <3>3
    <3>6. whitelist' \in [List -> Seq(ClientApp)]
      BY <1>6, <2>2, <3>3, <3>4
    <3> QED BY <1>1, <3>4, <3>5, <3>6 DEF ListInv
  <2> QED BY <2>1, <2>2 DEF GetPermission
<1>9. OthersKeep(d) =>
        \A e \in Asker : e # d /\ at'[e] = "permission" => ~Whitelisted(e)'
  <2> SUFFICES ASSUME OthersKeep(d), NEW e \in Asker, e # d, at'[e] = "permission"
               PROVE  ~Whitelisted(e)'
    OBVIOUS
  <2>1. at[e] = "permission" /\ operation'[e] = operation[e] /\ client'[e] = client[e]
    BY DEF OthersKeep
  <2>2. ~Contains(whitelist[ListOf(operation[e])], client[e])
    BY <1>1, <2>1 DEF ListInv, Whitelisted
  <2>3. ListOf(operation[e]) # ListOf(operation[d])
    <3>1. SUFFICES ASSUME ListOf(operation[e]) = ListOf(operation[d])
                   PROVE  PermissionOf(operation[e]) = PermissionOf(operation[d])
      <4>1. Waits(e, PermissionOf(operation[e]))
        BY <2>1 DEF Waits
      <4> QED BY <1>1, <1>2, <1>4, <3>1, <4>1, OneWaits
    <3> QED BY <3>1 DEF ListOf, PermissionOf
  <2>4. ListOf(operation[e]) \in List
    BY DEF ListOf, List
  <2>5. whitelist'[ListOf(operation[e])] = whitelist[ListOf(operation[e])]
    BY <1>6, <2>3, <2>4 DEF GetPermission
  <2> QED BY <2>1, <2>2, <2>5 DEF Whitelisted
<1>10. CASE Move(d, "permission", "act") /\ UNCHANGED <<operation, client, outcome>>
  <2>1. at' = [at EXCEPT ![d] = "act"] /\ at'[d] = "act" /\ OthersKeep(d)
    BY <1>6, <1>10 DEF Move, OthersKeep
  <2>2. Kept
    BY <1>1, <1>3, <1>4, <2>1, TakeMove
  <2>3. CallInv' /\ LockInv'
    BY <1>1, <1>5, <1>10, <2>1, CallKept, LockKept
  <2>4. ListInv'
    BY <1>8, <1>9, <2>1 DEF ListInv
  <2>5. at' \in [Asker -> Place]
    BY <1>6, <2>1 DEF Place
  <2>6. Typed'
    BY <1>1, <1>3, <1>7, <1>8, <1>10, <2>5 DEF Typed, TypeOK, UIInv
  <2> QED BY <1>1, <1>10, <2>2, <2>3, <2>4, <2>6 DEF Kept, Inv
<1>11. CASE Move(d, "permission", "done") /\ Return(d, "Cancelled")
  <2>1. at' = [at EXCEPT ![d] = "done"] /\ at'[d] = "done" /\ OthersKeep(d)
    BY <1>1, <1>11, ReturnTypes DEF Move
  <2>2. Kept
    BY <1>1, <1>3, <1>4, <2>1, TakeMove
  <2>3. CallInv' /\ LockInv'
    BY <1>1, <2>1, CallKept, LockKept
  <2>4. ListInv'
    BY <1>8, <1>9, <2>1 DEF ListInv
  <2>5. "done" \in Place /\ "Cancelled" \in Outcome
    BY DEF Place, Outcome
  <2>6. TypeOK'
    BY <1>1, <1>3, <1>7, <1>8, <1>11, <2>1, <2>5, ReturnTypes
  <2>7. \A e \in Asker : outcome'[e] # "Panic"
    BY <1>1, <1>11 DEF Return, Typed, TypeOK
  <2> QED BY <1>7, <2>2, <2>3, <2>4, <2>6, <2>7 DEF Kept, Inv, Typed
<1> QED BY <1>10, <1>11 DEF GetPermission

\* The answer of a chooser: a pick or a cancel, so Screenshot does not panic.
LEMMA GetChoiceKeeps ==
  ASSUME Inv, NEW d \in Asker, GetChoice(d)
  PROVE  Inv'
<1>1. Ready /\ Typed /\ ListInv /\ CallInv /\ LockInv /\ \A e \in Asker : outcome[e] # "Panic"
  BY DEF Inv, Ready
<1>2. PICK k : k = ChooserOf(operation[d])
  OBVIOUS
<1>3. /\ at[d] = "choose" /\ at' = [at EXCEPT ![d] = "done"]
      /\ TakeAnswer(ChannelOf(k)) /\ UNCHANGED <<whitelist, traffic>>
  BY <1>2 DEF GetChoice, Move
<1>4. Waits(d, k) /\ k \in Chooser
  BY <1>2, <1>3 DEF Waits, ChooserOf, Chooser
<1>5. ChannelOf(k) \in Channel
  BY <1>1, <1>4, WaitingIsInside
<1>6. PICK r \in ChoiceOutcomes(operation[d], Head(answers[ChannelOf(k)]).kind) : Return(d, r)
  BY <1>2 DEF GetChoice
<1>7. at'[d] = "done" /\ OthersKeep(d)
  BY <1>1, <1>3, <1>6, ReturnTypes
<1>8. Kept /\ Head(answers[ChannelOf(k)]).kind \in {"Pick", "Cancel"}
  BY <1>1, <1>3, <1>4, <1>7, TakeMove
<1>9. r \in Outcome /\ r # "Panic"
  BY <1>6, <1>8 DEF ChoiceOutcomes, Outcome
<1>10. CallInv' /\ LockInv' /\ ListInv'
  BY <1>1, <1>3, <1>7, CallKept, LockKept, ListKept
<1>11. UIInv'
  BY <1>1, <1>3, <1>5, TakeTypes DEF Typed
<1>12. "done" \in Place /\ whitelist' \in [List -> Seq(ClientApp)]
  BY <1>1, <1>3 DEF Place, Typed, TypeOK
<1>13. TypeOK'
  BY <1>1, <1>3, <1>6, <1>9, <1>11, <1>12, ReturnTypes
<1>14. \A e \in Asker : outcome'[e] # "Panic"
  BY <1>1, <1>3, <1>6, <1>9, ReturnTypes
<1> QED BY <1>8, <1>10, <1>11, <1>13, <1>14 DEF Kept, Inv, Typed

\* Background prompts and withdrawals join the inbox; they are no dialogs.
LEMMA TrafficKeeps ==
  ASSUME Inv, BackgroundTraffic
  PROVE  Inv'
<1>1. Ready /\ Typed
  BY DEF Inv, Ready
<1>2. /\ UNCHANGED <<clicks, windowVars, promptVars, answers, at, operation, client,
                     outcome, whitelist>>
      /\ UNCHANGED <<windowId, guiMode, activeHandle, asker, queue, tombstones>>
  BY DEF BackgroundTraffic, windowVars, promptVars
<1>3. PICK h \in Handle : Traffic(h)
  BY DEF BackgroundTraffic
<1>4. PICK m \in Message : /\ inbox' = inbox \/ inbox' = Append(inbox, m)
                           /\ ~IsDialog(m)
  <2>1. /\ Prompt(h) \in Message /\ ~IsDialog(Prompt(h))
        /\ ClosePrompt(h) \in Message /\ ~IsDialog(ClosePrompt(h))
    BY MessageTypes DEF IsDialog, Prompt, ClosePrompt, DialogKind, Chooser, Permission
  <2>2. inbox' = inbox \/ inbox' = Append(inbox, Prompt(h)) \/ inbox' = Append(inbox, ClosePrompt(h))
    BY <1>3 DEF Traffic
  <2> QED BY <2>1, <2>2
<1>5. inbox \in Seq(Message)
  BY <1>1 DEF Typed, UIInv, UITypeOK
<1>6. PICK f : Carried(f, inbox, inbox')
  BY <1>4, <1>5, DialogsCarried
<1>7. Displayed' => Displayed
  BY <1>2 DEF Displayed, WindowShow
<1>8. RouteInv' /\ AloneInv'
  BY <1>1, <1>2, <1>6, <1>7, StillWaiting, RouteKept DEF Ready
<1>9. ClickInv'
  BY <1>1, <1>2, ClicksKept DEF Ready
<1>10. Typed'
  <2>1. inbox' \in Seq(Message)
    <3> HIDE DEF Message
    <3> QED BY <1>4, <1>5
  <2>2. toBackground' \in Seq([handle : Handle, result : Result])
    <3>1. PICK T : toBackground \in Seq(T) /\ T = [handle : Handle, result : Result]
      BY <1>1 DEF Typed, UIInv, UITypeOK
    <3>2. toBackground' \in Seq(T)
      BY <1>3, <3>1 DEF Traffic
    <3> QED BY <3>1, <3>2
  <2>3. UIInv'
    BY <1>1, <1>2, <2>1, <2>2 DEF Typed, UIInv, UITypeOK
  <2>4. traffic' \in [Handle -> {"none", "asked", "withdrawn"}]
    <3>1. traffic \in [Handle -> {"none", "asked", "withdrawn"}]
      BY <1>1 DEF Typed, TypeOK
    <3>2. \/ traffic' = [traffic EXCEPT ![h] = "asked"]
          \/ traffic' = [traffic EXCEPT ![h] = "withdrawn"]
          \/ traffic' = traffic
      BY <1>3 DEF Traffic
    <3> QED BY <3>1, <3>2
  <2> QED BY <1>1, <1>2, <2>3, <2>4 DEF Typed, TypeOK, UIInv
<1> QED BY <1>2, <1>8, <1>9, <1>10, StillWaiting DEF Inv

-----------------------------------------------------------------------------
(* The theorems *)

\* Nobody has called yet.
LEMMA InitInv == Init => Inv
<1> SUFFICES ASSUME Init PROVE Inv
  OBVIOUS
<1>1. /\ UIInit
      /\ at = [d \in Asker |-> "idle"] /\ operation = [d \in Asker |-> None]
      /\ client = [d \in Asker |-> None] /\ outcome = [d \in Asker |-> None]
      /\ whitelist = [l \in List |-> <<>>] /\ traffic = [h \in Handle |-> "none"]
  BY DEF Init
<1>2. Typed
  <2>1. UIInv
    BY <1>1, UIInitTypes
  <2>2. at \in [Asker -> Place] /\ traffic \in [Handle -> {"none", "asked", "withdrawn"}]
    BY <1>1 DEF Place
  <2>3. /\ operation \in [Asker -> Operation \cup {None}]
        /\ client \in [Asker -> ClientApp \cup {None}]
        /\ outcome \in [Asker -> Outcome \cup {None}]
    BY <1>1
  <2>4. whitelist \in [List -> Seq(ClientApp)]
    BY <1>1
  <2> QED BY <2>1, <2>2, <2>3, <2>4 DEF Typed, TypeOK, UIInv
<1>3. CallInv /\ LockInv
  BY <1>1 DEF CallInv, LockInv, Inside
<1>4. inbox = <<>> /\ clicks = <<>> /\ windowId = NoWindow /\ \A ch \in Channel : answers[ch] = <<>>
  BY <1>1 DEF UIInit
<1>5. ClickInv
  BY <1>4 DEF ClickInv
<1>6. ~Displayed
  BY <1>4 DEF Displayed, WindowShow
<1>7. RouteInv /\ AloneInv
  <2> HIDE DEF Displayed
  <2> QED BY <1>4, <1>6 DEF RouteInv, AloneInv
<1>8. ListInv
  <2>1. \A l \in List : IsInjective(whitelist[l])
    BY <1>1 DEF IsInjective
  <2> QED BY <1>1, <2>1 DEF ListInv
<1>9. \A d \in Asker : outcome[d] # "Panic"
  BY <1>1, OutcomeAssumption DEF Outcome
<1> QED BY <1>2, <1>3, <1>5, <1>7, <1>8, <1>9 DEF Inv

\* Inv is inductive.
LEMMA NextInv == Inv /\ [Next]_vars => Inv'
<1> SUFFICES ASSUME Inv, [Next]_vars PROVE Inv'
  OBVIOUS
<1>1. ASSUME NEW d \in Asker, Method(d) PROVE Inv'
  BY <1>1, EnterKeeps, AskKeeps, GetPermissionKeeps, CompleteKeeps, GetChoiceKeeps DEF Method
<1>2. CASE UNCHANGED vars
  <2>1. UNCHANGED <<uiVars, at, operation, client, outcome, whitelist, traffic>>
    BY <1>2 DEF vars, clientVars
  <2>2. UNCHANGED <<inbox, clicks, windowId, guiMode, asker, answers>>
    BY <2>1 DEF uiVars, windowVars
  <2>3. Ready /\ Typed
    BY DEF Inv, Ready
  <2>4. PICK f : Carried(f, inbox, inbox')
    BY <2>2, <2>3, DialogsCarried DEF Typed, UIInv, UITypeOK
  <2>5. Displayed' => Displayed
    BY <2>2 DEF Displayed, WindowShow
  <2>6. RouteInv' /\ AloneInv'
    BY <2>1, <2>2, <2>3, <2>4, <2>5, StillWaiting, RouteKept DEF Ready
  <2>7. ClickInv'
    BY <2>2, <2>3, ClicksKept DEF Ready
  <2>8. Typed'
    <3>1. UIInv'
      BY <2>1, <2>3, UIUnchanged DEF Typed
    <3> QED BY <2>1, <2>3, <3>1 DEF Typed, TypeOK, UIInv
  <2> QED BY <2>1, <2>6, <2>7, <2>8, StillWaiting DEF Inv
<1> QED BY <1>1, <1>2, CallMethodKeeps, TrafficKeeps, UIStepKeeps DEF Next, Rest

\* Inv holds in every state.
LEMMA SpecInv == Spec => []Inv
BY InitInv, NextInv, PTL DEF Spec

\* TypeOK: calls, dialog and white lists keep to their types.
THEOREM ClientsAreTyped == Spec => []TypeOK
<1>1. Inv => TypeOK
  BY DEF Inv, Typed
<1> QED BY <1>1, SpecInv, PTL

\* AnswersReachTheirAsker: the dialog on display and every answer in a channel
\* belong to a call that waits for that dialog (Message::Selected, the Open
\* messages and the recv of the three portals), and the unreachable!() of
\* Screenshot is not reached.
THEOREM AnswersReachAskers == Spec => []AnswersReachTheirAsker
<1>1. Inv => AnswersReachTheirAsker
  <2> SUFFICES ASSUME Inv PROVE AnswersReachTheirAsker
    OBVIOUS
  <2>1. \A d \in Asker : \A k : Waits(d, k) => AwaitedDialog(d) = k
    BY DEF Waits, AwaitedDialog
  <2>2. WindowShow /\ guiMode # "BackgroundPrompt" => AwaitedDialog(asker) = guiMode
    BY <2>1 DEF Inv, RouteInv, Displayed
  <2>3. ASSUME NEW ch \in Channel, NEW i \in DOMAIN answers[ch]
        PROVE  ch = ChannelOf(AwaitedDialog(answers[ch][i].asker))
    <3>1. answers[ch] \in Seq(DialogAnswer)
      BY DEF Inv, Typed, UIInv, UITypeOK
    <3>2. i \in 1 .. Len(answers[ch])
      <4> HIDE DEF DialogAnswer
      <4> QED BY <2>3, <3>1
    <3>3. PICK a : a = answers[ch][i]
      OBVIOUS
    <3>4. Fits(a, ch)
      BY <3>2, <3>3 DEF Inv, RouteInv
    <3> QED BY <2>1, <3>3, <3>4 DEF Fits
  <2>4. \A ch \in Channel : Len(answers[ch]) <= 1
    BY DEF Inv, AloneInv
  <2> QED BY <2>2, <2>3, <2>4 DEF AnswersReachTheirAsker, Inv
<1> QED BY <1>1, SpecInv, PTL

\* WhitelistedOnce: no application is added to a white list twice, since a call
\* that asks about one holds its interface until it has the answer
\* (WhiteListMaintainer, the permission checks of the two portals).
THEOREM NobodyListedTwice == Spec => []WhitelistedOnce
<1>1. Inv => WhitelistedOnce
  BY DEF Inv, ListInv, WhitelistedOnce
<1> QED BY <1>1, SpecInv, PTL

=============================================================================
