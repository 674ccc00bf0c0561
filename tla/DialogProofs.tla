---------------------------- MODULE DialogProofs ----------------------------
(***************************************************************************)
(* Lemmas about the dialog: what retain() keeps, and that every step of    *)
(* update() and every press leaves the dialog's state well typed.          *)
(***************************************************************************)
EXTENDS DialogUI, FiniteSetTheorems, TLAPS

\* The rank of an element says which element it is, and every rank below the
\* size of the set is taken.
LEMMA RankIsBijective ==
  ASSUME NEW S \in SUBSET Nat, IsFiniteSet(S)
  PROVE  /\ Cardinality(S) \in Nat
         /\ \A i, j \in S : Rank(S, i) = Rank(S, j) => i = j
         /\ \A i \in S : Rank(S, i) \in 0 .. Cardinality(S) - 1
         /\ \A n \in 1 .. Cardinality(S) : \E i \in S : Rank(S, i) = n - 1
<1> DEFINE below(i) == {j \in S : j < i}
           m == Cardinality(S)
           f == [i \in S |-> Rank(S, i)]
<1>1. m \in Nat /\ m - 1 \in Int /\ \A i \in S : i \in Nat
  BY FS_CardinalityType
<1>2. \A i \in S : IsFiniteSet(below(i)) /\ Cardinality(below(i)) \in Nat
  <2> TAKE i \in S
  <2>1. below(i) \in SUBSET S
    OBVIOUS
  <2>2. IsFiniteSet(below(i))
    BY <2>1, FS_Subset
  <2> QED BY <2>2, FS_CardinalityType
<1>3. \A i, k \in S : i < k => Rank(S, i) < Rank(S, k)
  <2> SUFFICES ASSUME NEW i \in S, NEW k \in S, i < k
               PROVE  Rank(S, i) < Rank(S, k)
    OBVIOUS
  <2>1. i \notin below(i) /\ below(i) \cup {i} \in SUBSET below(k)
    <3>1. i \in Nat /\ k \in Nat
      BY <1>1
    <3>2. \A j \in S : j < i => j < k
      BY <3>1, <1>1
    <3>3. i \notin below(i)
      BY <3>1
    <3>4. below(i) \subseteq below(k) /\ i \in below(k)
      BY <3>2
    <3> HIDE DEF below
    <3> QED BY <3>3, <3>4
  <2>2. IsFiniteSet(below(i) \cup {i})
        /\ Cardinality(below(i) \cup {i}) = Cardinality(below(i)) + 1
    BY <1>2, <2>1, FS_AddElement
  <2>3. Cardinality(below(i) \cup {i}) <= Cardinality(below(k))
    BY <1>2, <2>1, FS_Subset
  <2>4. Cardinality(below(i)) \in Nat /\ Cardinality(below(k)) \in Nat
    BY <1>2
  <2>5. Cardinality(below(i)) < Cardinality(below(k))
    BY <2>2, <2>3, <2>4
  <2> QED BY <2>5 DEF Rank
<1>4. \A i \in S : Rank(S, i) \in 0 .. m - 1
  <2> TAKE i \in S
  <2>1. below(i) \in SUBSET (S \ {i})
    OBVIOUS
  <2>2. IsFiniteSet(S \ {i}) /\ Cardinality(S \ {i}) = m - 1
    BY FS_RemoveElement
  <2>3. Cardinality(below(i)) <= m - 1
    BY <2>1, <2>2, FS_Subset
  <2> QED BY <1>1, <1>2, <2>3 DEF Rank
<1>5. \A i, j \in S : Rank(S, i) = Rank(S, j) => i = j
  <2> SUFFICES ASSUME NEW i \in S, NEW j \in S, Rank(S, i) = Rank(S, j)
               PROVE  i = j
    OBVIOUS
  <2>1. i < j \/ j < i \/ i = j
    OBVIOUS
  <2>2. Rank(S, i) \in Int
    BY <1>4
  <2> QED BY <2>1, <2>2, <1>3
<1>6. IsFiniteSet(0 .. m - 1) /\ Cardinality(0 .. m - 1) = m
  BY <1>1, FS_Interval
<1>7. f \in Injection(S, 0 .. m - 1)
  <2>1. f \in [S -> 0 .. m - 1]
    BY <1>4
  <2>2. \A i, j \in S : f[i] = f[j] => i = j
    BY <1>5
  <2> QED BY <2>1, <2>2 DEF Injection, IsInjective
<1>8. f \in Surjection(S, 0 .. m - 1)
  BY <1>6, <1>7, FS_Injection
<1>9. \A n \in 1 .. m : \E i \in S : Rank(S, i) = n - 1
  <2> TAKE n \in 1 .. m
  <2>1. n - 1 \in 0 .. m - 1
    BY <1>1
  <2> QED BY <2>1, <1>8 DEF Surjection
<1> QED BY <1>1, <1>4, <1>5, <1>9

\* retain() keeps a sequence of the same type, with every element but one.
LEMMA WithoutKeeps ==
  ASSUME NEW T, NEW q \in Seq(T), NEW h
  PROVE  /\ Without(q, h) \in Seq(T)
         /\ \A e : Contains(Without(q, h), e) <=> Contains(q, e) /\ e # h
<1> DEFINE kept == {i \in DOMAIN q : q[i] # h}
           at(n) == CHOOSE i \in kept : Rank(kept, i) = n - 1
           r == Without(q, h)
<1>1. DOMAIN q = 1 .. Len(q) /\ Len(q) \in Nat
  OBVIOUS
<1>2. kept \in SUBSET Nat /\ kept \in SUBSET (1 .. Len(q))
  BY <1>1
<1>3. IsFiniteSet(kept)
  <2>1. IsFiniteSet(1 .. Len(q))
    BY <1>1, FS_Interval
  <2> QED BY <1>2, <2>1, FS_Subset
<1>4. /\ Cardinality(kept) \in Nat
      /\ \A i, j \in kept : Rank(kept, i) = Rank(kept, j) => i = j
      /\ \A i \in kept : Rank(kept, i) \in 0 .. Cardinality(kept) - 1
      /\ \A n \in 1 .. Cardinality(kept) : \E i \in kept : Rank(kept, i) = n - 1
  BY <1>2, <1>3, RankIsBijective
<1>5. \A n \in 1 .. Cardinality(kept) : at(n) \in kept /\ Rank(kept, at(n)) = n - 1
  BY <1>4
<1>6. r = [n \in 1 .. Cardinality(kept) |-> q[at(n)]]
  BY DEF Without
<1> HIDE DEF kept, at, r
<1>7. \A n \in 1 .. Cardinality(kept) : q[at(n)] \in T /\ q[at(n)] # h
  BY <1>1, <1>2, <1>5 DEF kept
<1>8. r \in Seq(T) /\ Len(r) = Cardinality(kept)
  BY <1>4, <1>6, <1>7
<1>9. ASSUME NEW e, Contains(r, e) PROVE Contains(q, e) /\ e # h
  <2>1. PICK n \in 1 .. Cardinality(kept) : r[n] = e
    BY <1>8, <1>9 DEF Contains
  <2>2. q[at(n)] = e /\ at(n) \in 1 .. Len(q)
    BY <2>1, <1>6, <1>5, <1>2
  <2> QED BY <2>1, <2>2, <1>7 DEF Contains
<1>10. ASSUME NEW e, Contains(q, e), e # h PROVE Contains(r, e)
  <2>1. PICK i \in 1 .. Len(q) : q[i] = e
    BY <1>10 DEF Contains
  <2>2. i \in kept
    BY <2>1, <1>10, <1>1 DEF kept
  <2> DEFINE n == Rank(kept, i) + 1
  <2>3. n \in 1 .. Cardinality(kept) /\ Rank(kept, i) = n - 1
    <3>1. Rank(kept, i) \in 0 .. Cardinality(kept) - 1
      BY <2>2, <1>4
    <3> QED BY <3>1, <1>4
  <2>4. at(n) = i
    BY <2>2, <2>3, <1>4, <1>5
  <2>5. r[n] = q[at(n)]
    BY <2>3, <1>6
  <2>6. r[n] = e
    BY <2>1, <2>4, <2>5
  <2> QED BY <2>3, <2>6, <1>8 DEF Contains
<1> QED BY <1>8, <1>9, <1>10 DEF r

-----------------------------------------------------------------------------
\* The inductive form of UITypeOK: a background prompt on display has a handle.
UIInv ==
  /\ UITypeOK
  /\ guiMode = "BackgroundPrompt" => activeHandle \in Handle

\* What the D-Bus tasks send is a message.
LEMMA MessageTypes ==
  /\ \A h \in Handle : Prompt(h) \in Message /\ ClosePrompt(h) \in Message
  /\ \A k \in DialogKind, d \in Asker : OpenDialog(k, d) \in Message
BY DEF Prompt, ClosePrompt, OpenDialog, Message

\* The dialog starts well typed.
LEMMA UIInitTypes == UIInit => UIInv
BY DEF UIInit, UIInv, UITypeOK, NoWindow, GuiMode, DialogKind, Chooser, Permission

\* Closing a window and opening the next prompt.
LEMMA CloseAndShowNextTypes ==
  ASSUME UIInv, NEW mode \in DialogKind, NEW active \in Handle \cup {None},
         CloseAndShowNext(mode, active)
  PROVE  /\ windowId' \in WindowId \cup {NoWindow}
         /\ guiMode' \in GuiMode
         /\ activeHandle' \in Handle \cup {None}
         /\ queue' \in Seq(Handle)
         /\ asker' \in Asker \cup {None}
         /\ guiMode' = "BackgroundPrompt" => activeHandle' \in Handle
<1>1. mode # "BackgroundPrompt"
  BY DEF DialogKind, Chooser, Permission
<1>2. queue \in Seq(Handle)
  BY DEF UIInv, UITypeOK
<1>3. CASE queue = <<>>
  BY <1>1, <1>2, <1>3 DEF CloseAndShowNext, GuiMode
<1>4. CASE queue # <<>>
  <2>1. OpenBackgroundPrompt(Head(queue)) /\ queue' = Tail(queue)
    BY <1>4 DEF CloseAndShowNext
  <2>2. Head(queue) \in Handle /\ Tail(queue) \in Seq(Handle)
    BY <1>2, <1>4
  <2> QED BY <2>1, <2>2 DEF OpenBackgroundPrompt, Unique, FreshIds, GuiMode
<1> QED BY <1>3, <1>4

\* A press of a button that is drawn.
LEMMA PressTypes == ASSUME UIInv, PressAny PROVE UIInv'
<1>1. PICK s \in Buttons : Press(s)
  BY DEF PressAny
<1>2. s \in CopySelect
  <2>1. guiMode \in Chooser \cup Permission \cup {"BackgroundPrompt"}
    BY DEF UIInv, UITypeOK, GuiMode, DialogKind
  <2>2. CASE guiMode \in Chooser
    <3>1. Buttons = {[kind |-> t, handle |-> None] : t \in {"Pick", "Cancel"}}
      BY <2>2 DEF Buttons, Chooser, Permission
    <3> QED BY <3>1 DEF CopySelect, Selection
  <2>3. CASE guiMode \in Permission
    BY <2>3 DEF Buttons, CopySelect, Selection, Chooser, Permission
  <2>4. CASE guiMode = "BackgroundPrompt"
    <3>1. Buttons = {[kind |-> r, handle |-> activeHandle] : r \in Result}
      BY <2>4 DEF Buttons, Chooser, Permission
    <3>2. activeHandle \in Handle
      BY <2>4 DEF UIInv
    <3> QED BY <3>1, <3>2 DEF CopySelect
  <2> QED BY <2>1, <2>2, <2>3, <2>4
<1>3. windowId \in WindowId
  BY <1>1 DEF Press, WindowShow, UIInv, UITypeOK
<1>4. [id |-> windowId, select |-> s, asker |-> asker]
        \in [id : WindowId, select : CopySelect, asker : Asker \cup {None}]
  BY <1>2, <1>3 DEF UIInv, UITypeOK
<1>5. clicks' \in Seq([id : WindowId, select : CopySelect, asker : Asker \cup {None}])
  BY <1>1, <1>4 DEF Press, UIInv, UITypeOK
<1> QED BY <1>1, <1>5 DEF Press, windowVars, promptVars, UIInv, UITypeOK

\* Message::Selected.
LEMMA SelectedTypes == ASSUME UIInv, Selected PROVE UIInv'
<1> DEFINE Clicks == [id : WindowId, select : CopySelect, asker : Asker \cup {None}]
           click == Head(clicks)
<1>1. clicks \in Seq(Clicks) /\ clicks # <<>> /\ clicks' = Tail(clicks)
  BY DEF Selected, UIInv, UITypeOK
<1>2. click \in Clicks /\ clicks' \in Seq(Clicks)
  <2> HIDE DEF Clicks
  <2> QED BY <1>1
<1>3. click.select \in CopySelect /\ click.asker \in Asker \cup {None}
  BY <1>2
<1>4. UNCHANGED <<inbox, tombstones>>
  BY DEF Selected
<1>5. CASE Answers(click) /\ SelectedBackground(click.select)
  <2>1. CloseAndShowNext("ScreenShot", None)
    BY <1>5 DEF SelectedBackground
  <2>2. "ScreenShot" \in DialogKind
    BY DEF DialogKind, Chooser
  <2>3. click.select.kind \in Result /\ click.select.handle \in Handle
    BY <1>5 DEF SelectedBackground, Answers, Accepts, UIInv
  <2>4. toBackground' \in Seq([handle : Handle, result : Result])
    BY <1>5, <2>3 DEF SelectedBackground, UIInv, UITypeOK
  <2>5. UNCHANGED answers
    BY <1>5 DEF SelectedBackground
  <2> QED BY <1>2, <1>4, <2>1, <2>2, <2>4, <2>5, CloseAndShowNextTypes DEF UIInv, UITypeOK
<1>6. CASE Answers(click) /\ SelectedDialog(click)
  <2>1. /\ CloseAndShowNext(guiMode, activeHandle) /\ guiMode # "BackgroundPrompt"
        /\ UNCHANGED toBackground
    BY <1>6 DEF SelectedDialog
  <2>2. guiMode \in DialogKind /\ activeHandle \in Handle \cup {None}
    BY <2>1 DEF UIInv, UITypeOK, GuiMode
  <2>3. ChannelOf(guiMode) \in Channel
    BY <2>2 DEF DialogKind, Chooser, Permission, ChannelOf, Channel
  <2>4. [kind |-> click.select.kind, asker |-> click.asker] \in DialogAnswer
    BY <1>3 DEF CopySelect, DialogAnswer
  <2>5. answers' \in [Channel -> Seq(DialogAnswer)]
    <3>1. answers \in [Channel -> Seq(DialogAnswer)]
      BY DEF UIInv, UITypeOK
    <3>2. Append(answers[ChannelOf(guiMode)],
                 [kind |-> click.select.kind, asker |-> click.asker]) \in Seq(DialogAnswer)
      BY <2>3, <2>4, <3>1
    <3> QED BY <1>6, <3>1, <3>2 DEF SelectedDialog
  <2> QED BY <1>2, <1>4, <2>1, <2>2, <2>5, CloseAndShowNextTypes DEF UIInv, UITypeOK
<1>7. CASE UNCHANGED <<windowVars, queue, answers, toBackground>>
  BY <1>2, <1>4, <1>7 DEF windowVars, UIInv, UITypeOK
<1> QED BY <1>5, <1>6, <1>7 DEF Selected

\* Taking the next message from the inbox.
LEMMA ReceiveTypes ==
  ASSUME UIInv, NEW m, Receive(m)
  PROVE  inbox' \in Seq(Message)
BY DEF Receive, UIInv, UITypeOK

\* ImageCopyOpen, ScreenCastOpen and PermissionDialog.
LEMMA DialogOpenTypes ==
  ASSUME UIInv, NEW k \in DialogKind, NEW d \in Asker, DialogOpen(k, d)
  PROVE  UIInv'
<1>1. inbox' \in Seq(Message)
  BY ReceiveTypes DEF DialogOpen
<1>2. UNCHANGED <<clicks, activeHandle, queue, tombstones, toBackground>>
  BY DEF DialogOpen, promptVars
<1>3. k # "BackgroundPrompt" /\ k \in GuiMode
  BY DEF DialogKind, Chooser, Permission, GuiMode
<1>4. CASE WindowShow
  <2>1. UNCHANGED <<windowId, guiMode, asker>>
    BY <1>4 DEF DialogOpen
  <2>2. ChannelOf(k) \in Channel
    BY DEF DialogKind, Chooser, Permission, ChannelOf, Channel
  <2>3. [kind |-> "Cancel", asker |-> d] \in DialogAnswer
    BY DEF DialogAnswer, Selection
  <2>4. answers \in [Channel -> Seq(DialogAnswer)]
    BY DEF UIInv, UITypeOK
  <2>5. Append(answers[ChannelOf(k)], [kind |-> "Cancel", asker |-> d]) \in Seq(DialogAnswer)
    BY <2>2, <2>3, <2>4
  <2>6. answers' \in [Channel -> Seq(DialogAnswer)]
    BY <1>4, <2>4, <2>5 DEF DialogOpen
  <2> QED BY <1>1, <1>2, <2>1, <2>6 DEF UIInv, UITypeOK
<1>5. CASE ~WindowShow
  BY <1>1, <1>2, <1>3, <1>5 DEF DialogOpen, Unique, FreshIds, UIInv, UITypeOK
<1> QED BY <1>4, <1>5

\* Message::BackgroundPrompt.
LEMMA BackgroundPromptTypes ==
  ASSUME UIInv, NEW h \in Handle, BackgroundPrompt(h)
  PROVE  UIInv'
<1>1. inbox' \in Seq(Message) /\ UNCHANGED <<clicks, answers>>
  BY ReceiveTypes DEF BackgroundPrompt
<1>2. CASE PromptWithdrawn(h)
  <2>1. PICK i \in DOMAIN tombstones : tombstones' = RemoveAt(tombstones, i)
    BY <1>2 DEF PromptWithdrawn
  <2>2. tombstones \in Seq(Handle)
    BY DEF UIInv, UITypeOK
  <2>3. tombstones' \in Seq(Handle)
    BY <2>1, <2>2 DEF RemoveAt
  <2> QED BY <1>1, <1>2, <2>3 DEF PromptWithdrawn, windowVars, UIInv, UITypeOK
<1>3. CASE PromptOverflows(h)
  <2>1. toBackground' \in Seq([handle : Handle, result : Result])
    BY <1>3 DEF PromptOverflows, Result, UIInv, UITypeOK
  <2> QED BY <1>1, <1>3, <2>1 DEF PromptOverflows, windowVars, promptVars, UIInv, UITypeOK
<1>4. CASE PromptQueued(h)
  BY <1>1, <1>4 DEF PromptQueued, windowVars, UIInv, UITypeOK
<1>5. CASE PromptShown(h)
  BY <1>1, <1>5 DEF PromptShown, OpenBackgroundPrompt, Unique, FreshIds, GuiMode,
                    promptVars, UIInv, UITypeOK
<1> QED BY <1>2, <1>3, <1>4, <1>5 DEF BackgroundPrompt

\* Message::CloseBackgroundPrompt.
LEMMA CloseBackgroundPromptTypes ==
  ASSUME UIInv, NEW h \in Handle, CloseBackgroundPrompt(h)
  PROVE  UIInv'
<1>1. inbox' \in Seq(Message) /\ UNCHANGED <<clicks, answers, toBackground>>
  BY ReceiveTypes DEF CloseBackgroundPrompt
<1>2. CASE CloseNotDisplayed(h)
  <2>1. queue' \in Seq(Handle)
    BY <1>2, WithoutKeeps DEF CloseNotDisplayed, UIInv, UITypeOK
  <2>2. Tombstoned(h) \in Seq(Handle)
    BY CapacityAssumption DEF Tombstoned, UIInv, UITypeOK
  <2>3. tombstones' \in Seq(Handle)
    BY <1>2, <2>2 DEF CloseNotDisplayed, UIInv, UITypeOK
  <2> QED BY <1>1, <1>2, <2>1, <2>3 DEF CloseNotDisplayed, windowVars, UIInv, UITypeOK
<1>3. CASE CloseDisplayed(h)
  <2>1. CloseAndShowNext("ScreenShot", None) /\ UNCHANGED tombstones
    BY <1>3 DEF CloseDisplayed
  <2>2. "ScreenShot" \in DialogKind
    BY DEF DialogKind, Chooser
  <2> QED BY <1>1, <2>1, <2>2, CloseAndShowNextTypes DEF UIInv, UITypeOK
<1> QED BY <1>2, <1>3 DEF CloseBackgroundPrompt

\* Every step of the dialog.
LEMMA UINextTypes == ASSUME UIInv, UINext PROVE UIInv'
<1>1. CASE PressAny \/ Selected
  BY <1>1, PressTypes, SelectedTypes
<1>2. CASE Update
  BY <1>2, DialogOpenTypes, BackgroundPromptTypes, CloseBackgroundPromptTypes DEF Update
<1> QED BY <1>1, <1>2 DEF UINext
=============================================================================
