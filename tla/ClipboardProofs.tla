--------------------------- MODULE ClipboardProofs ---------------------------
(***************************************************************************)
(* Theorems about Clipboard, for any limits, calls, selections and pastes: *)
(* what the worker knows of the selection once the connection is quiet,    *)
(* which transfers keep a slot, whose answer a call takes, and what a      *)
(* closed session still does.                                              *)
(***************************************************************************)
EXTENDS Clipboard, TLAPS, SequenceTheorems, FiniteSetTheorems

(***************************************************************************)
(* Messages on their way: which they are, the last one of a type, and the  *)
(* order that the two directions of the connection keep.                   *)
(***************************************************************************)
Messages(q) == {q[i] : i \in DOMAIN q}
Has(q, ty) == \E e \in Messages(q) : e.type = ty

Last(q, ty, id) ==
  \E i \in DOMAIN q :
    /\ q[i].type = ty /\ q[i].id = id
    /\ \A j \in DOMAIN q : j > i => q[j].type # ty

\* An offer is introduced, then designated by the next event.
Designates(e) == e.type \in {"Selection", "PrimarySelection"} /\ e.id # 0
Paired(q) ==
  /\ \A i \in DOMAIN q : q[i].type = "DataOffer" =>
       /\ i + 1 \in DOMAIN q
       /\ Designates(q[i + 1]) /\ q[i + 1].id = q[i].id
  /\ \A i \in DOMAIN q : i + 1 \in DOMAIN q /\ Designates(q[i + 1]) => q[i].type = "DataOffer"

\* The offer that has been introduced and is about to be designated.
Designated(q) == {q[i].id : i \in {j \in DOMAIN q : j = 1 /\ Designates(q[1])}}

\* Sources are numbered in the order in which they are sent.
Ascending(q) ==
  \A i, j \in DOMAIN q :
    i < j /\ q[i].type = "set_selection" /\ q[j].type = "set_selection" /\ q[j].id # 0
      => q[i].id < q[j].id

LEMMA MessagesType == ASSUME NEW S, NEW q \in Seq(S) PROVE Messages(q) \subseteq S
BY DEF Messages

LEMMA NoMessages == Messages(<<>>) = {} /\ \A ty : ~Has(<<>>, ty)
BY DEF Messages, Has

LEMMA ConcatMessages ==
  ASSUME NEW S, NEW q \in Seq(S), NEW p \in Seq(S)
  PROVE  /\ Messages(q \o p) = Messages(q) \cup Messages(p)
         /\ \A ty : Has(q \o p, ty) <=> Has(q, ty) \/ Has(p, ty)
<1>1. /\ q \o p \in Seq(S) /\ Len(q \o p) = Len(q) + Len(p)
      /\ \A i \in 1 .. Len(q) + Len(p) : (q \o p)[i] = IF i <= Len(q) THEN q[i] ELSE p[i - Len(q)]
  BY ConcatProperties
<1>2. DOMAIN (q \o p) = 1 .. Len(q) + Len(p) /\ DOMAIN q = 1 .. Len(q) /\ DOMAIN p = 1 .. Len(p)
      /\ Len(q) \in Nat /\ Len(p) \in Nat
  BY <1>1
<1>3. Messages(q \o p) \subseteq Messages(q) \cup Messages(p)
  <2>1. SUFFICES ASSUME NEW i \in 1 .. Len(q) + Len(p)
                 PROVE  (q \o p)[i] \in Messages(q) \cup Messages(p)
    BY <1>2 DEF Messages
  <2>2. CASE i <= Len(q)
    BY <1>1, <1>2, <2>2 DEF Messages
  <2>3. CASE i > Len(q)
    <3>1. i - Len(q) \in DOMAIN p /\ (q \o p)[i] = p[i - Len(q)]
      BY <1>1, <1>2, <2>3
    <3> QED BY <3>1 DEF Messages
  <2> QED BY <1>2, <2>2, <2>3
<1>4. Messages(q) \subseteq Messages(q \o p)
  <2>1. \A i \in DOMAIN q : i \in DOMAIN (q \o p) /\ (q \o p)[i] = q[i]
    BY <1>1, <1>2
  <2> QED BY <2>1 DEF Messages
<1>5. Messages(p) \subseteq Messages(q \o p)
  <2>1. \A i \in DOMAIN p : i + Len(q) \in DOMAIN (q \o p) /\ (q \o p)[i + Len(q)] = p[i]
    BY <1>1, <1>2
  <2> QED BY <2>1 DEF Messages
<1>6. Messages(q \o p) = Messages(q) \cup Messages(p)
  BY <1>3, <1>4, <1>5
<1> QED BY <1>6 DEF Has

LEMMA AppendMessages ==
  ASSUME NEW S, NEW q \in Seq(S), NEW e \in S
  PROVE  /\ Messages(Append(q, e)) = Messages(q) \cup {e}
         /\ \A ty : Has(Append(q, e), ty) <=> Has(q, ty) \/ e.type = ty
<1>1. Append(q, e) = q \o <<e>> /\ <<e>> \in Seq(S)
  BY AppendIsConcat
<1>2. Messages(<<e>>) = {e}
  BY DEF Messages
<1>3. Messages(Append(q, e)) = Messages(q) \cup {e}
  BY <1>1, <1>2, ConcatMessages
<1> QED BY <1>3 DEF Has

LEMMA TailMessages ==
  ASSUME NEW S, NEW q \in Seq(S), q # <<>>
  PROVE  /\ Messages(q) = {Head(q)} \cup Messages(Tail(q))
         /\ \A ty : Has(q, ty) <=> Head(q).type = ty \/ Has(Tail(q), ty)
<1>1. /\ Tail(q) \in Seq(S) /\ Len(Tail(q)) = Len(q) - 1 /\ Head(q) = q[1]
      /\ \A i \in 1 .. Len(Tail(q)) : Tail(q)[i] = q[i + 1]
  BY HeadTailProperties
<1>2. DOMAIN q = 1 .. Len(q) /\ Len(q) \in Nat \ {0} /\ DOMAIN Tail(q) = 1 .. Len(q) - 1
  BY <1>1, EmptySeq
<1>3. \A i \in DOMAIN Tail(q) : i + 1 \in DOMAIN q /\ Tail(q)[i] = q[i + 1]
  BY <1>1, <1>2
<1>4. \A i \in DOMAIN q : i = 1 \/ (i - 1 \in DOMAIN Tail(q) /\ Tail(q)[i - 1] = q[i])
  BY <1>1, <1>2
<1>5. Messages(Tail(q)) \subseteq Messages(q)
  BY <1>3 DEF Messages
<1>6. Messages(q) \subseteq {Head(q)} \cup Messages(Tail(q))
  BY <1>1, <1>4 DEF Messages
<1>7. Head(q) \in Messages(q)
  BY <1>1, <1>2 DEF Messages
<1>8. Messages(q) = {Head(q)} \cup Messages(Tail(q))
  BY <1>5, <1>6, <1>7
<1> QED BY <1>8 DEF Has

\* What is sent last is last; what is taken first was last if nothing of its
\* type is left.
LEMMA LastConcat ==
  ASSUME NEW S, NEW q \in Seq(S), NEW p \in Seq(S), NEW ty, NEW id
  PROVE  /\ Last(p, ty, id) => Last(q \o p, ty, id)
         /\ Last(q, ty, id) /\ ~Has(p, ty) => Last(q \o p, ty, id)
<1>1. /\ q \o p \in Seq(S) /\ Len(q \o p) = Len(q) + Len(p)
      /\ \A i \in 1 .. Len(q) + Len(p) : (q \o p)[i] = IF i <= Len(q) THEN q[i] ELSE p[i - Len(q)]
  BY ConcatProperties
<1>2. DOMAIN (q \o p) = 1 .. Len(q) + Len(p) /\ DOMAIN q = 1 .. Len(q) /\ DOMAIN p = 1 .. Len(p)
      /\ Len(q) \in Nat /\ Len(p) \in Nat
  BY <1>1
<1>3. \A i \in DOMAIN q : i \in DOMAIN (q \o p) /\ (q \o p)[i] = q[i]
  BY <1>1, <1>2
<1>4. \A i \in DOMAIN (q \o p) : i > Len(q) => i - Len(q) \in DOMAIN p /\ (q \o p)[i] = p[i - Len(q)]
  BY <1>1, <1>2
<1>5. ASSUME Last(p, ty, id) PROVE Last(q \o p, ty, id)
  <2>1. PICK i \in DOMAIN p : /\ p[i].type = ty /\ p[i].id = id
                              /\ \A j \in DOMAIN p : j > i => p[j].type # ty
    BY <1>5 DEF Last
  <2>2. i + Len(q) \in DOMAIN (q \o p) /\ (q \o p)[i + Len(q)] = p[i]
    BY <1>1, <1>2
  <2>3. ASSUME NEW j \in DOMAIN (q \o p), j > i + Len(q) PROVE (q \o p)[j].type # ty
    <3>1. j - Len(q) \in DOMAIN p /\ j - Len(q) > i /\ (q \o p)[j] = p[j - Len(q)]
      BY <1>2, <1>4, <2>3
    <3> QED BY <2>1, <3>1
  <2> QED BY <2>1, <2>2, <2>3 DEF Last
<1>6. ASSUME Last(q, ty, id), ~Has(p, ty) PROVE Last(q \o p, ty, id)
  <2>1. PICK i \in DOMAIN q : /\ q[i].type = ty /\ q[i].id = id
                              /\ \A j \in DOMAIN q : j > i => q[j].type # ty
    BY <1>6 DEF Last
  <2>2. \A j \in DOMAIN p : p[j].type # ty
    BY <1>6 DEF Has, Messages
  <2>3. ASSUME NEW j \in DOMAIN (q \o p), j > i PROVE (q \o p)[j].type # ty
    <3>1. CASE j <= Len(q)
      <4>1. j \in DOMAIN q
        BY <1>2, <3>1
      <4> QED BY <1>3, <2>1, <2>3, <4>1
    <3>2. CASE j > Len(q)
      BY <1>4, <2>2, <3>2
    <3> QED BY <1>2, <3>1, <3>2
  <2> QED BY <1>3, <2>1, <2>3 DEF Last
<1> QED BY <1>5, <1>6

LEMMA LastTail ==
  ASSUME NEW S, NEW q \in Seq(S), q # <<>>, NEW ty, NEW id, Last(q, ty, id)
  PROVE  /\ Has(Tail(q), ty) => Last(Tail(q), ty, id)
         /\ ~Has(Tail(q), ty) => Head(q).type = ty /\ Head(q).id = id
<1>1. /\ Tail(q) \in Seq(S) /\ Len(Tail(q)) = Len(q) - 1 /\ Head(q) = q[1]
      /\ \A i \in 1 .. Len(Tail(q)) : Tail(q)[i] = q[i + 1]
  BY HeadTailProperties
<1>2. DOMAIN q = 1 .. Len(q) /\ Len(q) \in Nat \ {0} /\ DOMAIN Tail(q) = 1 .. Len(q) - 1
  BY <1>1, EmptySeq
<1>3. \A i \in DOMAIN Tail(q) : i + 1 \in DOMAIN q /\ Tail(q)[i] = q[i + 1]
  BY <1>1, <1>2
<1>4. PICK i \in DOMAIN q : /\ q[i].type = ty /\ q[i].id = id
                            /\ \A j \in DOMAIN q : j > i => q[j].type # ty
  BY DEF Last
<1>5. CASE i = 1
  <2>1. \A j \in DOMAIN Tail(q) : Tail(q)[j].type # ty
    <3>1. SUFFICES ASSUME NEW j \in DOMAIN Tail(q) PROVE Tail(q)[j].type # ty
      OBVIOUS
    <3>2. j + 1 \in DOMAIN q /\ j + 1 > i /\ Tail(q)[j] = q[j + 1]
      BY <1>2, <1>3, <1>5
    <3> QED BY <1>4, <3>2
  <2>2. ~Has(Tail(q), ty)
    BY <2>1 DEF Has, Messages
  <2> QED BY <1>1, <1>4, <1>5, <2>2
<1>6. CASE i # 1
  <2>1. i - 1 \in DOMAIN Tail(q) /\ Tail(q)[i - 1] = q[i]
    BY <1>1, <1>2, <1>6
  <2>2. ASSUME NEW j \in DOMAIN Tail(q), j > i - 1 PROVE Tail(q)[j].type # ty
    <3>1. j + 1 \in DOMAIN q /\ j + 1 > i /\ Tail(q)[j] = q[j + 1]
      BY <1>2, <1>3, <2>2
    <3> QED BY <1>4, <3>1
  <2>3. Last(Tail(q), ty, id)
    BY <1>4, <2>1, <2>2 DEF Last
  <2>4. Has(Tail(q), ty)
    BY <1>4, <2>1 DEF Has, Messages
  <2> QED BY <2>3, <2>4
<1> QED BY <1>5, <1>6

\* Whole pairs are added, so what is designated first stays so.
LEMMA PairedConcat ==
  ASSUME NEW S, NEW q \in Seq(S), NEW p \in Seq(S), Paired(q), Paired(p),
         Designated(p) = {}
  PROVE  Paired(q \o p) /\ Designated(q \o p) = Designated(q)
<1>1. /\ q \o p \in Seq(S) /\ Len(q \o p) = Len(q) + Len(p)
      /\ \A i \in 1 .. Len(q) + Len(p) : (q \o p)[i] = IF i <= Len(q) THEN q[i] ELSE p[i - Len(q)]
  BY ConcatProperties
<1>2. DOMAIN (q \o p) = 1 .. Len(q) + Len(p) /\ DOMAIN q = 1 .. Len(q) /\ DOMAIN p = 1 .. Len(p)
      /\ Len(q) \in Nat /\ Len(p) \in Nat
  BY <1>1
<1>3. \A i \in DOMAIN q : i \in DOMAIN (q \o p) /\ (q \o p)[i] = q[i]
  BY <1>1, <1>2
<1>4. \A i \in DOMAIN p : i + Len(q) \in DOMAIN (q \o p) /\ (q \o p)[i + Len(q)] = p[i]
  BY <1>1, <1>2
<1>5. \A i \in DOMAIN (q \o p) : i \in DOMAIN q \/ \E k \in DOMAIN p : i = k + Len(q)
  <2>1. SUFFICES ASSUME NEW i \in DOMAIN (q \o p), ~(i \in DOMAIN q)
                 PROVE  i - Len(q) \in DOMAIN p /\ i = (i - Len(q)) + Len(q)
    OBVIOUS
  <2> QED BY <1>2, <2>1
<1>6. 1 \in DOMAIN p => ~Designates(p[1])
  BY DEF Designated
<1>7. ASSUME NEW i \in DOMAIN (q \o p), (q \o p)[i].type = "DataOffer"
      PROVE  /\ i + 1 \in DOMAIN (q \o p)
             /\ Designates((q \o p)[i + 1]) /\ (q \o p)[i + 1].id = (q \o p)[i].id
  <2>1. CASE i \in DOMAIN q
    BY <1>3, <1>7, <2>1 DEF Paired
  <2>2. CASE \E k \in DOMAIN p : i = k + Len(q)
    <3>1. PICK k \in DOMAIN p : i = k + Len(q)
      BY <2>2
    <3>2. k + 1 \in DOMAIN p /\ Designates(p[k + 1]) /\ p[k + 1].id = p[k].id
      BY <1>4, <1>7, <3>1 DEF Paired
    <3>3. (k + 1) + Len(q) = i + 1
      BY <1>2, <3>1
    <3> QED BY <1>4, <3>1, <3>2, <3>3
  <2> QED BY <1>5, <2>1, <2>2
<1>8. ASSUME NEW i \in DOMAIN (q \o p), i + 1 \in DOMAIN (q \o p), Designates((q \o p)[i + 1])
      PROVE  (q \o p)[i].type = "DataOffer"
  <2>1. CASE i + 1 \in DOMAIN q
    <3>1. i \in DOMAIN q
      BY <1>2, <2>1
    <3> QED BY <1>3, <1>8, <2>1, <3>1 DEF Paired
  <2>2. CASE \E k \in DOMAIN p : i + 1 = k + Len(q)
    <3>1. PICK k \in DOMAIN p : i + 1 = k + Len(q)
      BY <2>2
    <3>2. Designates(p[k])
      BY <1>4, <1>8, <3>1
    <3>3. k - 1 \in DOMAIN p /\ (k - 1) + 1 = k /\ i = (k - 1) + Len(q)
      BY <1>2, <1>6, <3>1, <3>2
    <3> QED BY <1>4, <3>2, <3>3 DEF Paired
  <2> QED BY <1>5, <1>8, <2>1, <2>2
<1>9. Designated(q \o p) = Designated(q)
  <2>1. CASE q = <<>>
    <3>1. Len(q) = 0 /\ DOMAIN q = {}
      BY <2>1
    <3>2. 1 \in DOMAIN (q \o p) => 1 \in DOMAIN p /\ (q \o p)[1] = p[1]
      BY <1>1, <1>2, <3>1
    <3> QED BY <1>6, <3>1, <3>2 DEF Designated
  <2>2. CASE q # <<>>
    <3>1. 1 \in DOMAIN q
      BY <1>2, <2>2, EmptySeq
    <3> QED BY <1>3, <3>1 DEF Designated
  <2> QED BY <2>1, <2>2
<1> QED BY <1>7, <1>8, <1>9 DEF Paired

LEMMA PairedTail ==
  ASSUME NEW S, NEW q \in Seq(S), q # <<>>, Paired(q)
  PROVE  /\ Paired(Tail(q))
         /\ Designated(q) = IF Designates(Head(q)) THEN {Head(q).id} ELSE {}
         /\ Designated(Tail(q)) = IF Head(q).type = "DataOffer" THEN {Head(q).id} ELSE {}
<1>1. /\ Tail(q) \in Seq(S) /\ Len(Tail(q)) = Len(q) - 1 /\ Head(q) = q[1]
      /\ \A i \in 1 .. Len(Tail(q)) : Tail(q)[i] = q[i + 1]
  BY HeadTailProperties
<1>2. DOMAIN q = 1 .. Len(q) /\ Len(q) \in Nat \ {0} /\ DOMAIN Tail(q) = 1 .. Len(q) - 1
  BY <1>1, EmptySeq
<1>3. \A i \in DOMAIN Tail(q) : i + 1 \in DOMAIN q /\ Tail(q)[i] = q[i + 1]
  BY <1>1, <1>2
<1>4. \A i \in DOMAIN Tail(q) : i + 1 \in DOMAIN Tail(q) <=> (i + 1) + 1 \in DOMAIN q
  BY <1>2
<1>5. Paired(Tail(q))
  BY <1>3, <1>4 DEF Paired
<1>6. 1 \in DOMAIN q /\ (1 \in DOMAIN Tail(q) <=> 1 + 1 \in DOMAIN q)
  BY <1>2
<1>7. Designated(q) = IF Designates(Head(q)) THEN {Head(q).id} ELSE {}
  BY <1>1, <1>6 DEF Designated
<1>8. CASE Head(q).type = "DataOffer"
  <2>1. 1 \in DOMAIN Tail(q) /\ Designates(Tail(q)[1]) /\ Tail(q)[1].id = Head(q).id
    BY <1>1, <1>3, <1>6, <1>8 DEF Paired
  <2> QED BY <1>5, <1>7, <1>8, <2>1 DEF Designated
<1>9. CASE Head(q).type # "DataOffer"
  <2>1. 1 \in DOMAIN Tail(q) => ~Designates(Tail(q)[1])
    BY <1>1, <1>3, <1>6, <1>9 DEF Paired
  <2> QED BY <1>5, <1>7, <1>9, <2>1 DEF Designated
<1> QED BY <1>8, <1>9

LEMMA AscendingTail ==
  ASSUME NEW S, NEW q \in Seq(S), q # <<>>, Ascending(q)
  PROVE  /\ Ascending(Tail(q))
         /\ Head(q).type = "set_selection" =>
              \A c \in Messages(Tail(q)) :
                c.type = "set_selection" /\ c.id # 0 => Head(q).id < c.id
<1>1. /\ Tail(q) \in Seq(S) /\ Len(Tail(q)) = Len(q) - 1 /\ Head(q) = q[1]
      /\ \A i \in 1 .. Len(Tail(q)) : Tail(q)[i] = q[i + 1]
  BY HeadTailProperties
<1>2. DOMAIN q = 1 .. Len(q) /\ Len(q) \in Nat \ {0} /\ DOMAIN Tail(q) = 1 .. Len(q) - 1
  BY <1>1, EmptySeq
<1>3. \A i \in DOMAIN Tail(q) : i + 1 \in DOMAIN q /\ 1 < i + 1 /\ Tail(q)[i] = q[i + 1]
  BY <1>1, <1>2
<1>4. \A i, j \in DOMAIN Tail(q) : i < j => i + 1 < j + 1
  BY <1>2
<1>5. Ascending(Tail(q))
  BY <1>3, <1>4 DEF Ascending
<1>6. 1 \in DOMAIN q
  BY <1>2
<1> QED BY <1>1, <1>3, <1>5, <1>6 DEF Ascending, Messages

LEMMA AscendingAppend ==
  ASSUME NEW S, NEW q \in Seq(S), NEW e \in S, Ascending(q),
         e.type = "set_selection" /\ e.id # 0 =>
           \A c \in Messages(q) : c.type = "set_selection" => c.id < e.id
  PROVE  Ascending(Append(q, e))
<1>1. /\ Append(q, e) \in Seq(S) /\ Len(Append(q, e)) = Len(q) + 1
      /\ \A i \in 1 .. Len(q) : Append(q, e)[i] = q[i]
      /\ Append(q, e)[Len(q) + 1] = e
  BY AppendProperties
<1>2. DOMAIN q = 1 .. Len(q) /\ Len(q) \in Nat /\ DOMAIN Append(q, e) = 1 .. Len(q) + 1
  BY <1>1
<1>3. SUFFICES ASSUME NEW i \in DOMAIN Append(q, e), NEW j \in DOMAIN Append(q, e), i < j,
                      Append(q, e)[i].type = "set_selection",
                      Append(q, e)[j].type = "set_selection", Append(q, e)[j].id # 0
               PROVE  Append(q, e)[i].id < Append(q, e)[j].id
  BY DEF Ascending
<1>4. i \in DOMAIN q /\ Append(q, e)[i] = q[i]
  BY <1>1, <1>2, <1>3
<1>5. CASE j = Len(q) + 1
  BY <1>1, <1>3, <1>4, <1>5 DEF Messages
<1>6. CASE j # Len(q) + 1
  <2>1. j \in DOMAIN q /\ Append(q, e)[j] = q[j]
    BY <1>1, <1>2, <1>6
  <2> QED BY <1>3, <1>4, <2>1 DEF Ascending
<1> QED BY <1>5, <1>6

(***************************************************************************)
(* Types and limits.                                                       *)
(***************************************************************************)
LEMMA WiderSeq == ASSUME NEW S, NEW T, S \subseteq T, NEW q \in Seq(S) PROVE q \in Seq(T)
<1>1. Len(q) \in Nat /\ DOMAIN q = 1 .. Len(q) /\ \A i \in 1 .. Len(q) : q[i] \in T
  OBVIOUS
<1> QED BY <1>1, SeqDef

LEMMA LimitsType == MaxPending \in Nat \ {0} /\ QueueDepth \in Nat \ {0} /\ SignalDepth \in Nat \ {0}
BY ClipboardAssumption DEF ClipboardAssumption

LEMMA StateType == \A M \in SUBSET Mime, is \in BOOLEAN : State(M, is) \in OwnerState
BY DEF State, OwnerState

LEMMA InitType == Init => TypeOK
<1>1. SUFFICES ASSUME Init PROVE TypeOK
  OBVIOUS
<1>2. PICK M \in SUBSET Mime : /\ selection = IF M = {} THEN Nobody ELSE [Other(M) EXCEPT !.offer = 1]
                               /\ mimes = M /\ owner = State(M, FALSE)
  BY <1>1 DEF Init
<1>3. selection \in Selected /\ selection.offer \in Nat
  BY <1>2 DEF Nobody, Other, Selected
<1>4. \A S : <<>> \in Seq(S) /\ Len(<<>>) = 0
  BY Zenon, EmptySeq
<1>5. WorkerType
  <2>1. \A o \in DOMAIN offers : FALSE
    BY <1>1 DEF Init
  <2>2. handling \in Seq(Requested) /\ Len(handling) <= 1 /\ handling = <<>>
    BY <1>1, <1>4 DEF Init
  <2> QED BY <1>1, <1>2, <1>3, <2>1, <2>2 DEF Init, WorkerType
<1>6. SlotsType
  BY <1>1, <1>4, LimitsType DEF Init, SlotsType
<1>7. WireType
  BY <1>1, <1>3, <1>4 DEF Init, WireType
<1>8. PortalType
  BY <1>1, <1>4, LimitsType DEF Init, PortalType, NoCall, Called
<1>9. SignalType
  BY <1>1, <1>2, StateType DEF Init, SignalType
<1> QED BY <1>5, <1>6, <1>7, <1>8, <1>9 DEF TypeOK

\* What a selection tells the worker: the end of the source that held the last
\* one, and the offer of the new one.
LEMMA SelectTells ==
  ASSUME WireType, NEW new \in Selected, new # Nobody => new.by # "nobody", Select(new)
  PROVE  \/ new = Nobody /\ selection.by = "nobody" /\ UNCHANGED <<selection, lastOffer, toWorker>>
         \/ /\ lastOffer' = IF new = Nobody THEN lastOffer ELSE lastOffer + 1
            /\ selection' \in Selected
            /\ selection'.by = new.by /\ selection'.source = new.source
            /\ selection'.mimes = new.mimes
            /\ selection'.offer = IF new = Nobody THEN 0 ELSE lastOffer + 1
            /\ \E p \in Seq(Message(EventType)) :
                 /\ toWorker' = IF running THEN toWorker \o p ELSE toWorker
                 /\ Paired(p) /\ Designated(p) = {}
                 /\ Last(p, "Selection", selection'.offer)
                 /\ \A e \in Messages(p) :
                      /\ e.type = "DataOffer" =>
                           new # Nobody /\ e.id = lastOffer + 1 /\ e.mimes = new.mimes
                      /\ e.type = "Selection" => e.id = selection'.offer
                      /\ e.type = "Cancelled" =>
                           selection.by = "session" /\ e.id = selection.source
                 /\ selection.by = "session" =>
                      \E e \in Messages(p) : e.type = "Cancelled" /\ e.id = selection.source
<1>1. (new = Nobody) <=> (new.by = "nobody")
  BY DEF Nobody
<1>2. CASE new = Nobody /\ selection.by = "nobody"
  BY <1>2 DEF Select, compositor
<1>3. CASE ~(new = Nobody /\ selection.by = "nobody")
  <2> DEFINE offer == IF new = Nobody THEN 0 ELSE lastOffer + 1
             c == IF selection.by = "session"
                  THEN <<Event("Cancelled", selection.source, {})>> ELSE <<>>
             t == IF new = Nobody THEN <<Event("Selection", 0, {})>>
                  ELSE <<Event("DataOffer", lastOffer + 1, new.mimes),
                         Event("Selection", lastOffer + 1, {})>>
  <2>1. /\ selection' = [new EXCEPT !.offer = offer]
        /\ lastOffer' = IF new = Nobody THEN lastOffer ELSE lastOffer + 1
        /\ toWorker' = IF running THEN toWorker \o (c \o t) ELSE toWorker
    BY <1>1, <1>3 DEF Select, Introduce, Sent
  <2>2. offer \in Nat /\ lastOffer \in Nat
    BY DEF WireType
  <2>3. /\ selection' \in Selected
        /\ selection'.by = new.by /\ selection'.source = new.source
        /\ selection'.mimes = new.mimes /\ selection'.offer = offer
    <3> HIDE DEF offer
    <3> QED BY <2>1, <2>2 DEF Selected
  <2>4. /\ c \in Seq(Message(EventType)) /\ Paired(c) /\ Designated(c) = {}
        /\ \A e \in Messages(c) :
             e.type = "Cancelled" /\ selection.by = "session" /\ e.id = selection.source
        /\ selection.by = "session" =>
             \E e \in Messages(c) : e.type = "Cancelled" /\ e.id = selection.source
    <3>1. CASE selection.by = "session"
      <4> DEFINE e == Event("Cancelled", selection.source, {})
      <4>1. e \in Message(EventType) /\ e.type = "Cancelled" /\ e.id = selection.source
        BY DEF WireType, Selected, Event, Message, EventType
      <4> HIDE DEF e
      <4>2. c = <<e>>
        BY <3>1 DEF e
      <4> HIDE DEF c
      <4>3. /\ c \in Seq(Message(EventType)) /\ DOMAIN c = {1} /\ c[1] = e
        BY <4>1, <4>2
      <4>4. Messages(c) = {e}
        BY <4>3 DEF Messages
      <4>5. Paired(c) /\ Designated(c) = {}
        BY <4>1, <4>3 DEF Paired, Designated, Designates
      <4> QED BY <3>1, <4>1, <4>3, <4>4, <4>5
    <3>2. CASE selection.by # "session"
      <4>1. c = <<>>
        BY <3>2
      <4> HIDE DEF c
      <4>2. c \in Seq(Message(EventType)) /\ DOMAIN c = {}
        BY <4>1
      <4> QED BY <3>2, <4>2 DEF Messages, Paired, Designated
    <3> QED BY <3>1, <3>2
  <2>5. /\ t \in Seq(Message(EventType)) /\ Paired(t) /\ Designated(t) = {}
        /\ Last(t, "Selection", offer)
        /\ \A e \in Messages(t) :
             /\ e.type = "DataOffer" =>
                  new # Nobody /\ e.id = lastOffer + 1 /\ e.mimes = new.mimes
             /\ e.type = "Selection" => e.id = offer
             /\ e.type # "Cancelled"
    <3>1. CASE new = Nobody
      <4> DEFINE e == Event("Selection", 0, {})
      <4>1. e \in Message(EventType) /\ e.type = "Selection" /\ e.id = 0 /\ offer = 0
        BY <3>1 DEF Event, Message, EventType
      <4> HIDE DEF e
      <4>2. t = <<e>>
        BY <3>1 DEF e
      <4> HIDE DEF t, offer
      <4>3. t \in Seq(Message(EventType)) /\ DOMAIN t = {1} /\ t[1] = e
        BY <4>1, <4>2
      <4>4. Messages(t) = {e}
        BY <4>3 DEF Messages
      <4>5. Paired(t) /\ Designated(t) = {}
        BY <4>1, <4>3 DEF Paired, Designated, Designates
      <4>6. Last(t, "Selection", offer)
        BY <4>1, <4>3 DEF Last
      <4> QED BY <4>1, <4>3, <4>4, <4>5, <4>6
    <3>2. CASE new # Nobody
      <4> DEFINE d == Event("DataOffer", lastOffer + 1, new.mimes)
                 e == Event("Selection", lastOffer + 1, {})
      <4>1. /\ d \in Message(EventType) /\ d.type = "DataOffer" /\ d.id = lastOffer + 1
            /\ d.mimes = new.mimes
            /\ e \in Message(EventType) /\ e.type = "Selection" /\ e.id = lastOffer + 1
            /\ offer = lastOffer + 1
        BY <2>2, <3>2 DEF Event, Message, EventType, Selected
      <4> HIDE DEF d, e
      <4>2. t = <<d, e>>
        BY <3>2 DEF d, e
      <4> HIDE DEF t, offer
      <4>3. /\ t \in Seq(Message(EventType)) /\ DOMAIN t = {1, 2} /\ t[1] = d /\ t[2] = e
        BY <4>1, <4>2
      <4>4. Messages(t) = {d, e}
        BY <4>3 DEF Messages
      <4>5. Paired(t) /\ Designated(t) = {}
        BY <2>2, <4>1, <4>3 DEF Paired, Designated, Designates
      <4>6. Last(t, "Selection", offer)
        BY <4>1, <4>3 DEF Last
      <4> QED BY <3>2, <4>1, <4>3, <4>4, <4>5, <4>6
    <3> QED BY <3>1, <3>2
  <2> DEFINE p == c \o t
  <2> HIDE DEF c, t, offer
  <2>6. p \in Seq(Message(EventType))
    BY <2>4, <2>5, ConcatProperties
  <2>7. Paired(p) /\ Designated(p) = {}
    BY <2>4, <2>5, PairedConcat
  <2>8. Last(p, "Selection", offer)
    BY <2>4, <2>5, LastConcat
  <2>9. Messages(p) = Messages(c) \cup Messages(t)
    BY <2>4, <2>5, ConcatMessages
  <2>10. /\ \A e \in Messages(p) :
              /\ e.type = "DataOffer" =>
                   new # Nobody /\ e.id = lastOffer + 1 /\ e.mimes = new.mimes
              /\ e.type = "Selection" => e.id = offer
              /\ e.type = "Cancelled" => selection.by = "session" /\ e.id = selection.source
         /\ selection.by = "session" =>
              \E e \in Messages(p) : e.type = "Cancelled" /\ e.id = selection.source
    BY <2>4, <2>5, <2>9
  <2>11. toWorker' = IF running THEN toWorker \o p ELSE toWorker
    BY <2>1
  <2> HIDE DEF p
  <2>12. offer = IF new = Nobody THEN 0 ELSE lastOffer + 1
    BY DEF offer
  <2>13. \E p1 \in Seq(Message(EventType)) :
                 /\ toWorker' = IF running THEN toWorker \o p1 ELSE toWorker
                 /\ Paired(p1) /\ Designated(p1) = {}
                 /\ Last(p1, "Selection", selection'.offer)
                 /\ \A e \in Messages(p1) :
                      /\ e.type = "DataOffer" =>
                           new # Nobody /\ e.id = lastOffer + 1 /\ e.mimes = new.mimes
                      /\ e.type = "Selection" => e.id = selection'.offer
                      /\ e.type = "Cancelled" =>
                           selection.by = "session" /\ e.id = selection.source
                 /\ selection.by = "session" =>
                      \E e \in Messages(p1) : e.type = "Cancelled" /\ e.id = selection.source
    BY <2>3, <2>6, <2>7, <2>8, <2>10, <2>11
  <2> QED BY <2>1, <2>3, <2>12, <2>13
<1> QED BY <1>2, <1>3

LEMMA SentType ==
  ASSUME WireType, NEW p \in Seq(Message(EventType))
  PROVE  Sent(p) \in Seq(Message(EventType))
BY ConcatProperties DEF WireType, Sent

LEMMA SelectType ==
  ASSUME WireType, NEW new \in Selected, new # Nobody => new.by # "nobody", Select(new)
  PROVE  toWorker' \in Seq(Message(EventType)) /\ selection' \in Selected /\ lastOffer' \in Nat
<1>1. CASE UNCHANGED <<selection, lastOffer, toWorker>>
  BY <1>1 DEF WireType
<1>2. CASE ~UNCHANGED <<selection, lastOffer, toWorker>>
  <2>1. PICK p \in Seq(Message(EventType)) :
          toWorker' = IF running THEN toWorker \o p ELSE toWorker
    BY <1>2, SelectTells
  <2>2. lastOffer' = (IF new = Nobody THEN lastOffer ELSE lastOffer + 1) /\ selection' \in Selected
    BY <1>2, SelectTells
  <2> QED BY <2>1, <2>2, ConcatProperties DEF WireType
<1> QED BY <1>1, <1>2

\* The selections that a client makes, and the end of one.
LEMMA SelectedType ==
  /\ Nobody \in Selected
  /\ \A M \in SUBSET Mime : Other(M) \in Selected /\ Other(M).by = "other"
  /\ \A s \in Nat, M \in SUBSET Mime :
       Ours(s, M) \in Selected /\ Ours(s, M).by = "session" /\ Ours(s, M).source = s
BY DEF Nobody, Other, Ours, Selected

LEMMA CompositorType == ASSUME TypeOK, Compositor PROVE TypeOK'
<1>1. UNCHANGED <<data, loop, slots, watch, requests, portal, signals>>
  BY DEF Compositor
<1>2. WorkerType' /\ SlotsType' /\ PortalType' /\ SignalType'
  BY <1>1 DEF TypeOK, WorkerType, SlotsType, PortalType, SignalType,
              data, loop, slots, watch, portal, signals
<1>3. WireType
  BY DEF TypeOK
<1>4. CASE OtherSelects
  <2>1. PICK M \in SUBSET Mime : Select(Other(M)) /\ UNCHANGED toServer
    BY <1>4 DEF OtherSelects
  <2>2. toWorker' \in Seq(Message(EventType)) /\ selection' \in Selected /\ lastOffer' \in Nat
    BY <1>3, <2>1, SelectType, SelectedType
  <2> QED BY <1>2, <1>3, <2>1, <2>2 DEF TypeOK, WireType
<1>5. CASE OtherSelectsPrimary
  <2>1. PICK M \in SUBSET Mime :
          toWorker' = Sent(Introduce(lastOffer + 1, M, "PrimarySelection"))
    BY <1>5 DEF OtherSelectsPrimary
  <2>2. Introduce(lastOffer + 1, M, "PrimarySelection") \in Seq(Message(EventType))
    BY <1>3 DEF Introduce, Event, Message, EventType, WireType
  <2>3. toWorker' \in Seq(Message(EventType))
    BY <1>3, <2>1, <2>2, SentType
  <2> QED BY <1>2, <1>3, <1>5, <2>3 DEF TypeOK, WireType, OtherSelectsPrimary
<1>6. CASE OtherPastes
  <2>1. PICK m \in selection.mimes : toWorker' = Sent(<<Event("Send", selection.source, {m})>>)
    BY <1>6 DEF OtherPastes
  <2>2. <<Event("Send", selection.source, {m})>> \in Seq(Message(EventType))
    BY <1>3 DEF Event, Message, EventType, WireType, Selected
  <2>3. toWorker' \in Seq(Message(EventType))
    BY <1>3, <2>1, <2>2, SentType
  <2> QED BY <1>2, <1>3, <1>6, <2>3 DEF TypeOK, WireType, OtherPastes, compositor
<1>7. CASE ServeRequest
  <2> DEFINE r == Head(toServer)
  <2>1. /\ toServer # <<>> /\ r \in Message(CommandType)
        /\ toServer' = Tail(toServer) /\ toServer' \in Seq(Message(CommandType))
    BY <1>3, <1>7 DEF ServeRequest, WireType
  <2>2. r.type \in CommandType /\ r.id \in Nat /\ r.mimes \in SUBSET Mime
    BY <2>1 DEF Message
  <2>3. toWorker' \in Seq(Message(EventType)) /\ selection' \in Selected /\ lastOffer' \in Nat
    <3>1. CASE r.type = "set_selection"
      <4>1. Select(IF r.id = 0 THEN Nobody ELSE Ours(r.id, r.mimes))
        BY <1>7, <3>1 DEF ServeRequest
      <4> QED BY <1>3, <2>2, <4>1, SelectType, SelectedType
    <3>2. CASE r.type = "receive"
      <4>1. /\ UNCHANGED compositor
            /\ toWorker' = toWorker \/ toWorker' = Sent(<<Event("Send", selection.source, r.mimes)>>)
        BY <1>7, <3>2 DEF ServeRequest
      <4>2. <<Event("Send", selection.source, r.mimes)>> \in Seq(Message(EventType))
        BY <1>3, <2>2 DEF Event, Message, EventType, WireType, Selected
      <4> QED BY <1>3, <4>1, <4>2, SentType DEF WireType, compositor
    <3>3. CASE r.type = "disconnect"
      <4>1. Select(Nobody) \/ UNCHANGED <<compositor, toWorker>>
        BY <1>7, <3>3 DEF ServeRequest
      <4> QED BY <1>3, <4>1, SelectType, SelectedType DEF WireType, compositor
    <3> QED BY <2>2, <3>1, <3>2, <3>3 DEF CommandType
  <2> QED BY <1>2, <2>1, <2>3 DEF TypeOK, WireType
<1>8. CASE DeviceFinishes
  <2>1. toWorker' = Sent(<<Event("Finished", 0, {})>>)
    BY <1>8 DEF DeviceFinishes
  <2>2. <<Event("Finished", 0, {})>> \in Seq(Message(EventType))
    BY DEF Event, Message, EventType
  <2>3. toWorker' \in Seq(Message(EventType))
    BY <1>3, <2>1, <2>2, SentType
  <2> QED BY <1>2, <1>3, <1>8, <2>3 DEF TypeOK, WireType, DeviceFinishes, compositor
<1> QED BY <1>4, <1>5, <1>6, <1>7, <1>8 DEF Compositor

\* A limit on the number of messages is kept by a push that has been allowed.
LEMMA AppendLimit ==
  ASSUME NEW S, NEW q \in Seq(S), NEW e \in S, NEW n \in Nat, Len(q) < n
  PROVE  Append(q, e) \in Seq(S) /\ Len(Append(q, e)) <= n
BY AppendProperties

LEMMA TailLimit ==
  ASSUME NEW S, NEW q \in Seq(S), q # <<>>, NEW n \in Nat, Len(q) <= n
  PROVE  Head(q) \in S /\ Tail(q) \in Seq(S) /\ Len(Tail(q)) <= n
BY HeadTailProperties

\* What becomes of the pending offers.
LEMMA RememberedOffers ==
  ASSUME NEW f, NEW id, NEW M
  PROVE  /\ DOMAIN Remembered(f, id, M) = DOMAIN f \cup {id}
         /\ \A o \in DOMAIN f \cup {id} : Remembered(f, id, M)[o] = IF o = id THEN M ELSE f[o]
BY DEF Remembered

LEMMA ForgottenOffers ==
  ASSUME NEW f, NEW id
  PROVE  /\ DOMAIN Forgotten(f, id) = DOMAIN f \ {id}
         /\ \A o \in DOMAIN f \ {id} : Forgotten(f, id)[o] = f[o]
BY DEF Forgotten

LEMMA DispatchType == ASSUME TypeOK, Dispatch PROVE TypeOK'
<1> DEFINE e == Head(toWorker)
<1>1. /\ toWorker # <<>> /\ toWorker' = Tail(toWorker)
      /\ UNCHANGED <<toServer, requests, portal, signals, compositor>>
  BY DEF Dispatch
<1>2. e \in Message(EventType) /\ WireType' /\ PortalType'
  BY <1>1 DEF TypeOK, WireType, PortalType, portal, compositor
<1>3. e.type \in EventType /\ e.id \in Nat /\ e.mimes \in SUBSET Mime
  BY <1>2 DEF Message
<1> HIDE DEF e
<1>4. CASE e.type = "DataOffer"
  <2>1. DataOffer(e)
    BY <1>4 DEF Dispatch, e
  <2>2. \A o \in DOMAIN offers' : offers'[o] \in SUBSET Mime
    <3>1. offers' = Remembered(offers, e.id, e.mimes)
      BY <2>1 DEF DataOffer
    <3>2. \A o \in DOMAIN offers : offers[o] \in SUBSET Mime
      BY DEF TypeOK, WorkerType
    <3> QED BY <1>3, <3>1, <3>2 DEF Remembered
  <2> QED BY <1>1, <1>2, <2>1, <2>2 DEF TypeOK, WorkerType, SlotsType, SignalType, DataOffer,
          loop, slots, watch, signals
<1>5. CASE e.type = "Selection"
  <2>1. SelectionEvent(e)
    BY <1>5 DEF Dispatch, e
  <2> DEFINE M == IF e.id \in DOMAIN offers THEN offers[e.id] ELSE {}
  <2>2. M \in SUBSET Mime
    BY DEF TypeOK, WorkerType
  <2>3. \A o \in DOMAIN offers' : offers'[o] \in SUBSET Mime
    <3>1. offers' = Forgotten(Forgotten(offers, current), e.id)
      BY <2>1 DEF SelectionEvent
    <3>2. \A o \in DOMAIN offers : offers[o] \in SUBSET Mime
      BY DEF TypeOK, WorkerType
    <3> QED BY <3>1, <3>2 DEF Forgotten
  <2> QED BY <1>1, <1>2, <1>3, <2>1, <2>2, <2>3, StateType
          DEF TypeOK, WorkerType, SlotsType, SignalType, SelectionEvent, Notify,
          loop, slots, watch, signals
<1>6. CASE e.type = "PrimarySelection"
  <2>1. PrimarySelection(e)
    BY <1>6 DEF Dispatch, e
  <2>2. \A o \in DOMAIN offers' : offers'[o] \in SUBSET Mime
    <3>1. offers' = Forgotten(offers, e.id)
      BY <2>1 DEF PrimarySelection
    <3>2. \A o \in DOMAIN offers : offers[o] \in SUBSET Mime
      BY DEF TypeOK, WorkerType
    <3> QED BY <3>1, <3>2 DEF Forgotten
  <2> QED BY <1>1, <1>2, <2>1, <2>2 DEF TypeOK, WorkerType, SlotsType, SignalType, PrimarySelection,
          loop, slots, watch, signals
<1>7. CASE e.type = "Finished"
  <2>1. Finished(e)
    BY <1>7 DEF Dispatch, e
  <2> QED BY <1>1, <1>2, <2>1 DEF TypeOK, WorkerType, SlotsType, SignalType, Finished,
          loop, slots, watch, signals
<1>8. CASE e.type = "Send"
  <2>1. Send(e)
    BY <1>8 DEF Dispatch, e
  <2>2. SlotsType'
    <3>1. /\ serial \in Nat \ {0} /\ transfers \in Seq(1 .. serial - 1)
          /\ Len(transfers) <= SignalDepth /\ signalled' = signalled /\ pinned' = pinned
          /\ done' = done
      BY <1>1, <2>1 DEF TypeOK, SlotsType, signals, Send
    <3>2. CASE HasCapacity
      <4>1. /\ serial' = serial + 1 /\ writes' \subseteq writes \cup {serial}
            /\ transfers' = IF CanTransfer THEN Append(transfers, serial) ELSE transfers
        BY <2>1, <3>2 DEF Send, Kept
      <4>2. transfers \in Seq(1 .. serial) /\ 1 .. serial = 1 .. serial' - 1
            /\ 1 .. serial - 1 \subseteq 1 .. serial
        BY <3>1, <4>1, WiderSeq
      <4>3. transfers' \in Seq(1 .. serial' - 1) /\ Len(transfers') <= SignalDepth
        <5>1. serial \in 1 .. serial
          BY <3>1
        <5>2. CanTransfer => Len(transfers) < SignalDepth
          BY DEF CanTransfer
        <5> QED BY <3>1, <4>1, <4>2, <5>1, <5>2, AppendLimit, LimitsType
      <4> QED BY <3>1, <4>1, <4>2, <4>3 DEF TypeOK, SlotsType
    <3>3. CASE ~HasCapacity
      BY <2>1, <3>1, <3>3 DEF TypeOK, SlotsType, Send
    <3> QED BY <3>2, <3>3
  <2> QED BY <1>1, <1>2, <2>1, <2>2 DEF TypeOK, WorkerType, SignalType, Send,
          data, loop, watch, signals
<1>9. CASE e.type = "Cancelled"
  <2>1. Cancelled(e)
    BY <1>9 DEF Dispatch, e
  <2>2. UNCHANGED <<offers, current, mimes, sources, loop, slots>>
    BY <2>1 DEF Cancelled
  <2>3. /\ ownSource' \in Nat /\ isOwner' \in BOOLEAN
        /\ owner' \in OwnerState /\ unseen' \in BOOLEAN
    <3>1. CASE IsOwnSource(e.id)
      <4>1. ownSource' = 0 /\ isOwner' = FALSE /\ owner' = State(mimes, FALSE) /\ unseen' = TRUE
        BY <2>1, <3>1 DEF Cancelled, Notify
      <4> QED BY <4>1, StateType DEF TypeOK, WorkerType
    <3>2. CASE ~IsOwnSource(e.id)
      BY <2>1, <3>2 DEF Cancelled, watch, TypeOK, WorkerType, SignalType
    <3> QED BY <3>1, <3>2
  <2> QED BY <1>1, <1>2, <2>2, <2>3
          DEF TypeOK, WorkerType, SlotsType, SignalType, loop, slots, signals
<1> QED BY <1>3, <1>4, <1>5, <1>6, <1>7, <1>8, <1>9 DEF EventType

LEMMA RepliedType ==
  ASSUME call \in Called, NEW id, NEW ok \in BOOLEAN
  PROVE  /\ Replied(id, ok) \in Called
         /\ Replied(id, ok).op = call.op /\ (call.st = "idle" => Replied(id, ok).st = "idle")
<1>1. CASE Awaited(id)
  <2>1. Replied(id, ok) = [call EXCEPT !.st = "returned", !.ok = ok] /\ call.st = "waiting"
    BY <1>1 DEF Replied, Awaited
  <2> QED BY <2>1 DEF Called
<1>2. CASE ~Awaited(id)
  <2>1. Replied(id, ok) = call
    BY <1>2 DEF Replied
  <2> QED BY <2>1
<1> QED BY <1>1, <1>2

LEMMA CommandSent ==
  ASSUME WireType, NEW ty \in CommandType, NEW id \in Nat, NEW M \in SUBSET Mime
  PROVE  Append(toServer, Command(ty, id, M)) \in Seq(Message(CommandType))
BY DEF WireType, Command, Message

LEMMA TakeRequestType == ASSUME TypeOK, TakeRequest PROVE TypeOK'
<1> DEFINE r == Head(requests)
<1>1. /\ running /\ handling = <<>> /\ requests # <<>> /\ requests' = Tail(requests)
      /\ UNCHANGED <<running, shutdown, defunct, overrun, data, slots, wire, watch, entry,
                     signals, compositor>>
  BY DEF TakeRequest
<1>2. requests \in Seq(Requested) /\ Len(requests) <= QueueDepth /\ call \in Called
  BY DEF TypeOK, PortalType
<1>3. r \in Requested /\ requests' \in Seq(Requested) /\ Len(requests') <= QueueDepth
  <2>1. QueueDepth \in Nat
    BY LimitsType
  <2> QED BY <1>1, <1>2, <2>1, TailLimit
<1> HIDE DEF r
<1>4. /\ call' \in Called /\ call'.op = call.op /\ (call.st = "idle" => call'.st = "idle")
      /\ stopping' \in BOOLEAN
      /\ handling' \in Seq(Requested) /\ Len(handling') <= 1
  <2>1. CASE ToldToStop
    <3>1. stopping' = TRUE /\ call' = Replied(r.id, FALSE) /\ handling' = handling
      BY <2>1 DEF TakeRequest, r
    <3> QED BY <1>2, <3>1, RepliedType DEF TypeOK, WorkerType
  <2>2. CASE ~ToldToStop
    <3>1. handling' = <<r>> /\ stopping' = stopping /\ call' = call
      BY <2>2 DEF TakeRequest, r
    <3> QED BY <1>2, <1>3, <3>1 DEF TypeOK, WorkerType
  <2> QED BY <2>1, <2>2
<1> QED BY <1>1, <1>3, <1>4
        DEF TypeOK, WorkerType, SlotsType, WireType, PortalType, SignalType,
            data, slots, wire, watch, signals, compositor

LEMMA HandleRequestType == ASSUME TypeOK, HandleRequest PROVE TypeOK'
<1> DEFINE r == Head(handling)
<1>1. /\ handling # <<>> /\ handling' = <<>>
      /\ UNCHANGED <<running, shutdown, requests, toWorker, entry, signals, compositor>>
  BY DEF HandleRequest
<1>2. handling \in Seq(Requested) /\ call \in Called
  BY DEF TypeOK, WorkerType, PortalType
<1>3. r \in Requested
  BY <1>1, <1>2, HeadTailProperties
<1>4. r.id \in Nat /\ r.op \in Operation \cup {"Stop"} /\ r.mimes \in SUBSET Mime
  BY <1>3 DEF Requested
<1> HIDE DEF r
<1>5. /\ defunct' \in BOOLEAN /\ stopping' \in BOOLEAN
      /\ handling' \in Seq(Requested) /\ Len(handling') <= 1 /\ handling' = <<>>
      /\ overrun' \in Nat
  <2>1. defunct' = (defunct \/ r.op = "Stop") /\ stopping' = (stopping \/ r.op = "Stop")
    BY DEF HandleRequest, r
  <2>2. overrun' = IF shutdown THEN overrun + 1 ELSE overrun
    BY DEF HandleRequest
  <2>3. overrun' \in Nat
    BY <2>2 DEF TypeOK, WorkerType
  <2>4. handling' \in Seq(Requested) /\ Len(handling') <= 1
    BY <1>1, EmptySeq
  <2>5. defunct' \in BOOLEAN /\ stopping' \in BOOLEAN
    BY <2>1
  <2> QED BY <1>1, <2>3, <2>4, <2>5
<1>6. TypeOK'
  <2>3. CASE r.op = "SetSelection"
    <3>1. SetSelection(r)
      BY <2>3 DEF HandleRequest, CarryOut, r
    <3>2. /\ ownSource' \in Nat /\ isOwner' \in BOOLEAN /\ sources' \in Nat
          /\ owner' \in OwnerState /\ unseen' \in BOOLEAN
      <4>1. CASE r.mimes = {}
        <5>1. /\ ownSource' = 0 /\ isOwner' = FALSE /\ UNCHANGED sources
              /\ owner' = State({}, FALSE) /\ unseen' = TRUE
          BY <3>1, <4>1 DEF SetSelection, Notify
        <5> QED BY <5>1, StateType DEF TypeOK, WorkerType
      <4>2. CASE r.mimes # {}
        <5>1. /\ ownSource' = sources + 1 /\ isOwner' = TRUE /\ sources' = sources + 1
              /\ owner' = owner /\ unseen' = unseen
          BY <3>1, <4>2 DEF SetSelection, watch
        <5> QED BY <5>1 DEF TypeOK, WorkerType, SignalType
      <4> QED BY <4>1, <4>2
    <3>3. toServer' \in Seq(Message(CommandType))
      <4>1. toServer' = Append(toServer, Command("set_selection", ownSource', r.mimes))
        BY <3>1 DEF SetSelection
      <4>2. "set_selection" \in CommandType
        BY DEF CommandType
      <4> QED BY <1>4, <3>2, <4>1, <4>2, CommandSent DEF TypeOK
    <3>4. UNCHANGED <<offers, current, mimes, slots, call>>
      BY <3>1 DEF SetSelection
    <3> QED BY <1>1, <1>5, <3>2, <3>3, <3>4
          DEF TypeOK, WorkerType, SlotsType, WireType, PortalType, SignalType,
              slots, signals, compositor
  <2>4. CASE r.op = "Read"
    <3>1. Read(r)
      BY <2>4 DEF HandleRequest, CarryOut, r
    <3>2. call' \in Called /\ call'.op = call.op /\ (call.st = "idle" => call'.st = "idle")
      BY <1>2, <3>1, RepliedType DEF Read
    <3>3. toServer' \in Seq(Message(CommandType))
      <4>1. toServer' = toServer \/ toServer' = Append(toServer, Command("receive", current, r.mimes))
        BY <3>1 DEF Read
      <4>2. "receive" \in CommandType /\ current \in Nat
        BY DEF CommandType, TypeOK, WorkerType
      <4> QED BY <1>4, <4>1, <4>2, CommandSent DEF TypeOK, WireType
    <3>4. UNCHANGED <<data, slots, watch>>
      BY <3>1 DEF Read
    <3> QED BY <1>1, <1>5, <3>2, <3>3, <3>4
          DEF TypeOK, WorkerType, SlotsType, WireType, PortalType, SignalType,
              data, slots, watch, signals, compositor
  <2>5. CASE r.op = "Write"
    <3>1. Write(r)
      BY <2>5 DEF HandleRequest, CarryOut, r
    <3>2. call' \in Called /\ call'.op = call.op /\ (call.st = "idle" => call'.st = "idle")
      <4>1. PICK ok \in BOOLEAN : call' = Replied(r.id, ok /\ r.serial \in writes)
        BY <3>1 DEF Write
      <4>2. (ok /\ r.serial \in writes) \in BOOLEAN
        OBVIOUS
      <4> QED BY <1>2, <4>1, <4>2, RepliedType
    <3>3. UNCHANGED <<data, slots, watch, toServer>>
      BY <3>1 DEF Write
    <3> QED BY <1>1, <1>5, <3>2, <3>3
          DEF TypeOK, WorkerType, SlotsType, WireType, PortalType, SignalType,
              data, slots, watch, signals, compositor
  <2>6. CASE r.op = "WriteDone"
    <3>1. WriteDone(r)
      BY <2>6 DEF HandleRequest, CarryOut, r
    <3>2. call' \in Called /\ call'.op = call.op /\ (call.st = "idle" => call'.st = "idle")
      <4>1. call' = Replied(r.id, r.serial \in writes)
        BY <3>1 DEF WriteDone
      <4>2. (r.serial \in writes) \in BOOLEAN
        OBVIOUS
      <4> QED BY <1>2, <4>1, <4>2, RepliedType
    <3>3. UNCHANGED <<serial, transfers, data, watch, toServer>>
      BY <3>1 DEF WriteDone
    <3>4. writes' \subseteq writes /\ done' \subseteq done \cup writes
      BY <3>1 DEF WriteDone
    <3>5. SlotsType'
      BY <1>1, <3>3, <3>4 DEF TypeOK, SlotsType, signals
    <3> QED BY <1>1, <1>5, <3>2, <3>3, <3>5
          DEF TypeOK, WorkerType, WireType, PortalType, SignalType,
              data, watch, signals, compositor
  <2>7. CASE r.op = "Stop"
    <3>1. UNCHANGED <<data, slots, watch, toServer, call>>
      BY <2>7 DEF HandleRequest, CarryOut, r
    <3> QED BY <1>1, <1>5, <3>1
          DEF TypeOK, WorkerType, SlotsType, WireType, PortalType, SignalType,
              data, slots, watch, signals, compositor
  <2> QED BY <1>4, <2>3, <2>4, <2>5, <2>6, <2>7 DEF Operation
<1> QED BY <1>6

LEMMA WorkerStepType == ASSUME TypeOK, Worker PROVE TypeOK'
<1>1. CASE Dispatch
  BY <1>1, DispatchType
<1>2. CASE TakeRequest \/ HandleRequest
  BY <1>2, TakeRequestType, HandleRequestType
<1>3. CASE Tick
  BY <1>3 DEF Tick, TypeOK, WorkerType, SlotsType, WireType, PortalType, SignalType,
              data, slots, wire, watch, portal, signals, compositor
<1>4. CASE Exit
  <2>1. call' \in Called /\ call'.op = call.op /\ (call.st = "idle" => call'.st = "idle")
    BY <1>4 DEF Exit, TypeOK, PortalType, Called
  <2>2. WireType'
    <3>1. toServer' \in Seq(Message(CommandType))
      <4>1. "disconnect" \in CommandType /\ 0 \in Nat /\ {} \in SUBSET Mime
        BY DEF CommandType
      <4> QED BY <1>4, <4>1, CommandSent DEF Exit, TypeOK
    <3> QED BY <1>4, <3>1 DEF Exit, TypeOK, WireType, compositor
  <2>3. PortalType'
    BY <1>4, <2>1, LimitsType DEF Exit, TypeOK, PortalType
  <2> QED BY <1>4, <2>2, <2>3 DEF Exit, TypeOK, WorkerType, SlotsType, SignalType,
              data, watch, signals
<1> QED BY <1>1, <1>2, <1>3, <1>4 DEF Worker

LEMMA ForwarderType == ASSUME TypeOK, Forwarder PROVE TypeOK'
<1>1. UNCHANGED <<data, loop, wire, requests, portal, compositor>>
  BY DEF Forwarder, CheckExit, ForwardOwner, ForwardTransfer, EndForwarding, slots, watch
<1>2. WorkerType' /\ WireType' /\ PortalType'
  BY <1>1 DEF TypeOK, WorkerType, WireType, PortalType, data, loop, wire, portal, compositor
<1>3. CASE CheckExit \/ EndForwarding
  BY <1>2, <1>3 DEF CheckExit, EndForwarding, TypeOK, SlotsType, SignalType, slots, watch
<1>4. CASE ForwardOwner
  <2>1. owner' \in OwnerState /\ announced' \in OwnerState /\ late' \in Nat
    BY <1>4 DEF ForwardOwner, Emitted, TypeOK, SignalType
  <2> QED BY <1>2, <1>4, <2>1 DEF ForwardOwner, TypeOK, SlotsType, SignalType, slots
<1>5. CASE ForwardTransfer
  <2>1. /\ transfers # <<>> /\ transfers \in Seq(1 .. serial - 1) /\ Len(transfers) <= SignalDepth
        /\ SignalDepth \in Nat
    BY <1>5, LimitsType DEF ForwardTransfer, TypeOK, SlotsType
  <2>2. /\ Head(transfers) \in 1 .. serial - 1
        /\ Tail(transfers) \in Seq(1 .. serial - 1) /\ Len(Tail(transfers)) <= SignalDepth
    BY <2>1, TailLimit
  <2>3. /\ signalled' \subseteq signalled \cup {Head(transfers)}
        /\ pinned' \subseteq pinned \cup {Head(transfers)}
    BY <1>5 DEF ForwardTransfer
  <2>4. SlotsType'
    BY <1>5, <2>2, <2>3 DEF ForwardTransfer, TypeOK, SlotsType
  <2> QED BY <1>2, <1>5, <2>4 DEF ForwardTransfer, Emitted, TypeOK, SignalType, watch
<1> QED BY <1>3, <1>4, <1>5 DEF Forwarder

LEMMA PortalStepType ==
  ASSUME TypeOK, CallMethod \/ TrySend \/ ReplyTimeout \/ BeginRemove \/ RemoveClipboard
                 \/ SpawnForwarder
  PROVE  TypeOK'
<1>1. call \in Called /\ QueueDepth \in Nat /\ requests \in Seq(Requested)
  BY LimitsType DEF TypeOK, PortalType
<1>2. CASE CallMethod
  <2>1. PICK o \in Operation, n \in Nat, M \in SUBSET Mime : Arrive(o, n, M)
    <3>1. signalled \cup {serial} \subseteq Nat
      BY DEF TypeOK, SlotsType
    <3>2. CASE \E M \in SUBSET Mime : Arrive("SetSelection", 0, M)
      BY <3>2 DEF Operation
    <3>3. CASE \E m \in Mime : Arrive("Read", 0, {m})
      BY <3>3 DEF Operation
    <3>4. CASE \E o \in {"Write", "WriteDone"}, n \in signalled \cup {serial} : Arrive(o, n, {})
      BY <3>1, <3>4 DEF Operation
    <3> QED BY <1>2, <3>2, <3>3, <3>4 DEF CallMethod
  <2>2. call' \in Called /\ call'.op # "none"
    BY <1>1, <2>1 DEF Arrive, Called, Operation
  <2> QED BY <2>1, <2>2 DEF Arrive, TypeOK, WorkerType, SlotsType, WireType, PortalType, SignalType,
              data, loop, slots, wire, watch, signals, compositor
<1>3. CASE TrySend
  <2> DEFINE r == Request(call.id, call.op, call.serial, call.mimes)
  <2>1. r \in Requested /\ call.st = "sending" /\ call.op # "none"
    BY <1>1, <1>3 DEF TrySend, Request, Requested, Called, TypeOK, PortalType
  <2> HIDE DEF r
  <2>2. call' \in Called /\ call'.op = call.op
    BY <1>1, <1>3 DEF TrySend, Called
  <2>3. requests' \in Seq(Requested) /\ Len(requests') <= QueueDepth
    <3>1. CASE HasRoom
      <4>1. requests' = Append(requests, r) /\ Len(requests) < QueueDepth
        BY <1>3, <3>1 DEF TrySend, HasRoom, r
      <4> QED BY <1>1, <2>1, <4>1, AppendLimit
    <3>2. CASE ~HasRoom
      BY <1>1, <1>3, <3>2 DEF TrySend, TypeOK, PortalType
    <3> QED BY <3>1, <3>2
  <2> QED BY <1>3, <2>1, <2>2, <2>3 DEF TrySend, TypeOK, WorkerType, SlotsType, WireType, PortalType,
              SignalType, data, loop, slots, wire, watch, signals, compositor
<1>4. CASE ReplyTimeout
  <2>1. call' \in Called /\ call'.op = call.op /\ call.st # "idle"
    BY <1>1, <1>4 DEF ReplyTimeout, Expires, Called
  <2> QED BY <1>4, <2>1 DEF ReplyTimeout, TypeOK, WorkerType, SlotsType, WireType, PortalType,
              SignalType, data, loop, slots, wire, watch, signals, compositor
<1>5. CASE BeginRemove
  BY <1>5 DEF BeginRemove, TypeOK, WorkerType, SlotsType, WireType, PortalType,
              SignalType, data, loop, slots, wire, watch, signals, compositor
<1>6. CASE RemoveClipboard
  <2> DEFINE r == Request(0, "Stop", 0, {})
  <2>1. r \in Requested
    BY DEF Request, Requested
  <2>2. requests' \in Seq(Requested) /\ Len(requests') <= QueueDepth
    <3>1. requests' = IF HasRoom THEN Append(requests, r) ELSE requests
      BY <1>6 DEF RemoveClipboard, StopTried, StopQueued
    <3>2. HasRoom => Len(requests) < QueueDepth
      BY DEF HasRoom
    <3> HIDE DEF r
    <3> QED BY <1>1, <2>1, <3>1, <3>2, AppendLimit DEF TypeOK, PortalType
  <2> QED BY <1>6, <2>2 DEF RemoveClipboard, TypeOK, WorkerType, SlotsType, WireType, PortalType,
              SignalType, data, slots, wire, watch, compositor
<1>7. CASE SpawnForwarder
  BY <1>7 DEF SpawnForwarder, UnseenAtSpawn, TypeOK, WorkerType, SlotsType, WireType, PortalType,
              SignalType, data, loop, slots, wire, portal, compositor
<1> QED BY <1>2, <1>3, <1>4, <1>5, <1>6, <1>7

LEMMA NextType == ASSUME TypeOK, [Next]_vars PROVE TypeOK'
<1>1. CASE Next
  BY <1>1, PortalStepType, ForwarderType, WorkerStepType, CompositorType DEF Next
<1>2. CASE UNCHANGED vars
  BY <1>2 DEF vars, TypeOK, WorkerType, SlotsType, WireType, PortalType,
              SignalType, data, loop, slots, wire, watch, portal, signals, compositor
<1> QED BY <1>1, <1>2

\* No limit is ever exceeded: the requests of the portal, the announced
\* transfers and what is on the wire keep their types and their bounds,
\* whatever is asked, pasted or lost.
THEOREM TypeCorrect == Spec => []TypeOK
<1>1. Init => TypeOK
  BY InitType
<1>2. TypeOK /\ [Next]_vars => TypeOK'
  BY NextType
<1> QED BY <1>1, <1>2, PTL DEF Spec

(***************************************************************************)
(* Transfers.  A serial is given out once, so a paste can never be taken   *)
(* for one that is done.                                                   *)
(***************************************************************************)
LEMMA WritesFinite == ASSUME TypeOK PROVE IsFiniteSet(writes) /\ Cardinality(writes) \in Nat
<1>1. writes \in SUBSET (1 .. serial - 1) /\ 1 \in Int /\ serial - 1 \in Int
  BY DEF TypeOK, SlotsType
<1>2. IsFiniteSet(1 .. serial - 1)
  BY <1>1, FS_Interval
<1> QED BY <1>1, <1>2, FS_Subset, FS_CardinalityType

LEMMA SendAccounted ==
  ASSUME TypeOK, TransfersAccounted, running, NEW e, Send(e), UNCHANGED <<running, signalled, pinned>>
  PROVE  TransfersAccounted'
<1>1. /\ writes = (Messages(transfers) \cup signalled \cup pinned) \ done
      /\ Cardinality(writes) <= MaxPending
  BY DEF TransfersAccounted, Messages
<1>2. done' = done /\ running' = running /\ signalled' = signalled /\ pinned' = pinned
  BY DEF Send
<1>3. CASE HasCapacity /\ CanTransfer
  <2>1. writes' = writes \cup {serial} /\ transfers' = Append(transfers, serial)
    BY <1>3 DEF Send, Kept
  <2>2. serial \in Nat /\ transfers \in Seq(Nat) /\ ~(serial \in done)
    <3>1. 1 .. serial - 1 \subseteq Nat
      OBVIOUS
    <3> QED BY <3>1, WiderSeq DEF TypeOK, SlotsType
  <2>3. Messages(transfers') = Messages(transfers) \cup {serial}
    BY <2>1, <2>2, AppendMessages
  <2>4. Cardinality(writes') <= MaxPending
    <3>1. Cardinality(writes') <= Cardinality(writes) + 1
      BY <2>1, WritesFinite, FS_AddElement
    <3>2. IsFiniteSet(writes') /\ Cardinality(writes') \in Nat
      BY <2>1, WritesFinite, FS_AddElement, FS_CardinalityType
    <3> QED BY <1>3, <3>1, <3>2, WritesFinite, LimitsType DEF HasCapacity
  <2>5. writes' = (Messages(transfers') \cup signalled' \cup pinned') \ done'
    BY <1>1, <1>2, <2>1, <2>2, <2>3
  <2> QED BY <2>4, <2>5 DEF TransfersAccounted, Messages
<1>4. CASE ~(HasCapacity /\ CanTransfer)
  <2>1. writes' = writes /\ transfers' = transfers
    BY <1>4 DEF Send, Kept
  <2> QED BY <1>1, <1>2, <2>1 DEF TransfersAccounted, Messages
<1> QED BY <1>3, <1>4

LEMMA WriteDoneAccounted ==
  ASSUME TypeOK, TransfersAccounted, running, NEW r, WriteDone(r),
         UNCHANGED <<running, signalled, pinned>>
  PROVE  TransfersAccounted'
<1>1. /\ writes = (Messages(transfers) \cup signalled \cup pinned) \ done
      /\ Cardinality(writes) <= MaxPending
  BY DEF TransfersAccounted, Messages
<1>2. /\ writes' = writes \ {r.serial} /\ done' = done \cup ({r.serial} \cap writes)
      /\ transfers' = transfers /\ running' = running /\ signalled' = signalled /\ pinned' = pinned
  BY DEF WriteDone
<1>3. Cardinality(writes') <= MaxPending
  <2>1. Cardinality(writes') <= Cardinality(writes) /\ Cardinality(writes') \in Nat
    <3>1. writes' \in SUBSET writes
      BY <1>2
    <3>2. IsFiniteSet(writes') /\ Cardinality(writes') <= Cardinality(writes)
      BY <3>1, WritesFinite, FS_Subset
    <3> QED BY <3>2, FS_CardinalityType
  <2> QED BY <1>1, <2>1, WritesFinite, LimitsType
<1>4. writes' = (Messages(transfers') \cup signalled' \cup pinned') \ done'
  BY <1>1, <1>2
<1> QED BY <1>3, <1>4 DEF TransfersAccounted, Messages

LEMMA ForwardAccounted ==
  ASSUME TypeOK, TransfersAccounted, ForwardTransfer PROVE TransfersAccounted'
<1>1. /\ transfers # <<>> /\ transfers' = Tail(transfers)
      /\ signalled' \cup pinned' = signalled \cup pinned \cup {Head(transfers)}
      /\ writes' = writes /\ done' = done /\ running' = running
  BY DEF ForwardTransfer, loop
<1>2. transfers \in Seq(1 .. serial - 1)
  BY DEF TypeOK, SlotsType
<1>3. Messages(transfers) = {Head(transfers)} \cup Messages(transfers')
  BY <1>1, <1>2, TailMessages
<1>4. running => /\ writes = (Messages(transfers) \cup signalled \cup pinned) \ done
                 /\ Cardinality(writes) <= MaxPending
  BY DEF TransfersAccounted, Messages
<1>5. running' => /\ writes' = (Messages(transfers') \cup signalled' \cup pinned') \ done'
                  /\ Cardinality(writes') <= MaxPending
  BY <1>1, <1>3, <1>4
<1> QED BY <1>5 DEF TransfersAccounted, Messages

LEMMA AccountedFrame ==
  ASSUME TransfersAccounted, UNCHANGED <<running, writes, transfers, signalled, pinned, done>>
  PROVE  TransfersAccounted'
BY DEF TransfersAccounted

LEMMA NextAccounted == ASSUME TypeOK, TransfersAccounted, [Next]_vars PROVE TransfersAccounted'
<1>1. CASE CallMethod \/ TrySend \/ ReplyTimeout \/ BeginRemove
  BY <1>1, AccountedFrame DEF CallMethod, Arrive, TrySend, ReplyTimeout, BeginRemove,
     loop, slots, signals
<1>2. CASE RemoveClipboard \/ SpawnForwarder
  BY <1>2, AccountedFrame DEF RemoveClipboard, SpawnForwarder, loop, slots
<1>3. CASE CheckExit \/ ForwardOwner \/ EndForwarding
  BY <1>3, AccountedFrame DEF CheckExit, ForwardOwner, EndForwarding, loop, slots
<1>4. CASE ForwardTransfer
  BY <1>4, ForwardAccounted
<1>5. CASE Dispatch
  <2> DEFINE e == Head(toWorker)
  <2>1. running /\ e \in Message(EventType) /\ UNCHANGED <<signalled, pinned>>
    BY <1>5 DEF Dispatch, signals, TypeOK, WireType
  <2>2. e.type \in EventType
    BY <2>1 DEF Message
  <2> HIDE DEF e
  <2>3. CASE e.type = "Send"
    <3>1. Send(e) /\ running' = running
      BY <1>5, <2>3 DEF Dispatch, Send, loop, e
    <3> QED BY <2>1, <3>1, SendAccounted
  <2>4. CASE e.type # "Send"
    <3>1. UNCHANGED <<running, slots>>
      BY <1>5, <2>2, <2>4 DEF Dispatch, DataOffer, SelectionEvent, PrimarySelection, Finished,
         Cancelled, loop, EventType, e
    <3> QED BY <2>1, <3>1, AccountedFrame DEF slots
  <2> QED BY <2>3, <2>4
<1>6. CASE TakeRequest \/ HandleRequest
  <2>1. CASE TakeRequest
    BY <2>1, AccountedFrame DEF TakeRequest, slots, signals
  <2>2. CASE HandleRequest
    <3> DEFINE r == Head(handling)
    <3>1. running /\ r \in Requested /\ UNCHANGED <<running, signalled, pinned>>
      BY <2>2 DEF HandleRequest, signals, TypeOK, WorkerType
    <3>2. r.op \in Operation \cup {"Stop"}
      BY <3>1 DEF Requested
    <3> HIDE DEF r
    <3>3. CASE r.op = "WriteDone"
      <4>1. WriteDone(r)
        BY <2>2, <3>3 DEF HandleRequest, CarryOut, r
      <4> QED BY <3>1, <4>1, WriteDoneAccounted
    <3>4. CASE r.op # "WriteDone"
      <4>1. UNCHANGED slots
        BY <2>2, <3>2, <3>4 DEF HandleRequest, CarryOut, SetSelection, Read, Write, Operation, r
      <4> QED BY <3>1, <4>1, AccountedFrame DEF slots
    <3> QED BY <3>3, <3>4
  <2> QED BY <1>6, <2>1, <2>2
<1>7. CASE Tick
  BY <1>7, AccountedFrame DEF Tick, slots, signals
<1>8. CASE Exit
  BY <1>8 DEF Exit, TransfersAccounted
<1>9. CASE Compositor
  BY <1>9, AccountedFrame DEF Compositor, loop, slots, signals
<1>10. CASE UNCHANGED vars
  BY <1>10, AccountedFrame DEF vars, loop, slots, signals
<1> QED BY <1>1, <1>2, <1>3, <1>4, <1>5, <1>6, <1>7, <1>8, <1>9, <1>10 DEF Next, Forwarder, Worker

\* Every paste that was announced, or is about to be, keeps its descriptor until
\* its SelectionWriteDone, and nothing else keeps one: the slots never run out
\* for a reason that no call can mend, and never exceed their limit.
THEOREM EverySlotAccounted == Spec => []TransfersAccounted
<1>1. Init => TransfersAccounted
  <2>1. SUFFICES ASSUME Init PROVE TransfersAccounted
    OBVIOUS
  <2>2. /\ writes = {} /\ transfers = <<>> /\ signalled = {} /\ pinned = {} /\ done = {}
    BY <2>1 DEF Init
  <2>3. Messages(transfers) = {}
    BY <2>2, NoMessages
  <2>4. Cardinality(writes) <= MaxPending
    BY <2>2, FS_EmptySet, LimitsType
  <2> QED BY <2>2, <2>3, <2>4 DEF TransfersAccounted, Messages
<1>2. TypeOK /\ TransfersAccounted /\ [Next]_vars => TransfersAccounted'
  BY NextAccounted
<1> QED BY <1>1, <1>2, TypeCorrect, PTL DEF Spec

(***************************************************************************)
(* Answers.  A call is new to the queue when it is sent, and the request   *)
(* with its number is its own: the answer to an earlier call, which has    *)
(* timed out, finds nobody.                                                *)
(***************************************************************************)
Asked == Messages(requests) \cup Messages(handling)
AnswersInv ==
  /\ call.ok => call.st = "returned"
  /\ call.st # "idle" => call.id # 0
  /\ \A r \in Asked :
       /\ r.id <= call.id
       /\ call.st = "sending" => r.id < call.id
       /\ call.st = "waiting" /\ r.id = call.id => r.op = call.op /\ r.serial = call.serial
  /\ DoneMeansDone

LEMMA AnswersFrame ==
  ASSUME AnswersInv, UNCHANGED <<call, requests, handling, done>> PROVE AnswersInv'
BY DEF AnswersInv, Asked, DoneMeansDone

\* Fewer requests, or an answer that is no success of a SelectionWriteDone.
LEMMA AnswersReturn ==
  ASSUME AnswersInv, Asked' \subseteq Asked, done \subseteq done',
         \/ call' = call
         \/ /\ call.st \in {"sending", "waiting"} /\ call'.st = "returned"
            /\ call'.id = call.id /\ call'.op = call.op /\ call'.serial = call.serial
            /\ call'.op = "WriteDone" /\ call'.ok => call'.serial \in done'
  PROVE  AnswersInv'
<1>1. CASE call' = call
  BY <1>1 DEF AnswersInv, DoneMeansDone
<1>2. CASE call' # call
  BY <1>2 DEF AnswersInv, DoneMeansDone
<1> QED BY <1>1, <1>2

LEMMA AskedType == ASSUME TypeOK PROVE Asked \subseteq Requested
BY MessagesType DEF Asked, TypeOK, WorkerType, PortalType

\* What becomes of what is asked, when the queue or the request in hand does.
LEMMA AskedKept == ASSUME UNCHANGED <<requests, handling>> PROVE Asked' = Asked
BY DEF Asked

LEMMA CallMethodAnswers == ASSUME TypeOK, AnswersInv, CallMethod PROVE AnswersInv'
<1>1. PICK o, n, M : Arrive(o, n, M)
  BY DEF CallMethod
<1>2. /\ call'.id = call.id + 1 /\ call'.ok = FALSE /\ call'.st \in {"sending", "returned"}
      /\ UNCHANGED <<requests, handling>> /\ call.id \in Nat
  BY <1>1 DEF Arrive, loop, TypeOK, PortalType, Called
<1>3. \A r \in Asked : r.id <= call.id /\ r.id \in Nat
  BY AskedType DEF AnswersInv, Requested
<1>4. Asked' = Asked
  BY <1>2 DEF Asked
<1>5. \A r \in Asked' : r.id < call'.id /\ r.id <= call'.id
  BY <1>2, <1>3, <1>4
<1> QED BY <1>2, <1>5 DEF AnswersInv, DoneMeansDone

LEMMA TrySendAnswers == ASSUME TypeOK, AnswersInv, TrySend PROVE AnswersInv'
<1> DEFINE r == Request(call.id, call.op, call.serial, call.mimes)
<1>1. /\ call \in Called /\ call.st = "sending" /\ ~call.ok /\ call.id \in Nat
      /\ requests \in Seq(Requested) /\ done' = done /\ handling' = handling
  BY DEF TrySend, AnswersInv, TypeOK, PortalType, Called, slots, loop
<1>2. r \in Requested /\ r.id = call.id /\ r.op = call.op /\ r.serial = call.serial
  BY <1>1 DEF Request, Requested, Called, TypeOK, PortalType
<1> HIDE DEF r
<1>3. CASE HasRoom
  <2>1. requests' = Append(requests, r)
    BY <1>3 DEF TrySend, r
  <2>2. Asked' = Asked \cup {r}
    BY <1>1, <1>2, <2>1, AppendMessages DEF Asked
  <2>3. /\ call'.id = call.id /\ call'.op = call.op /\ call'.serial = call.serial
        /\ \/ call'.st = "waiting" /\ call'.ok = FALSE
           \/ call'.st = "returned" /\ call.op = "SetSelection"
    BY <1>1, <1>3 DEF TrySend, Called
  <2>4. \A x \in Asked : x.id < call.id /\ x.id <= call.id /\ x.id # call.id
    BY <1>1, AskedType DEF AnswersInv, Requested
  <2>5. call.id <= call.id
    BY <1>1
  <2> QED BY <1>1, <1>2, <2>2, <2>3, <2>4, <2>5 DEF AnswersInv, DoneMeansDone
<1>4. CASE ~HasRoom
  <2>1. requests' = requests /\ call' = [call EXCEPT !.st = "returned"]
    BY <1>4 DEF TrySend
  <2>2. /\ call'.st = "returned" /\ call'.ok = FALSE /\ call'.id = call.id
        /\ call'.op = call.op /\ call'.serial = call.serial
    BY <1>1, <2>1 DEF Called
  <2> QED BY <1>1, <2>1, <2>2, AskedKept, AnswersReturn
<1> QED BY <1>3, <1>4

LEMMA RepliedAnswers ==
  ASSUME TypeOK, AnswersInv, NEW r \in Asked, NEW ok \in BOOLEAN, done \subseteq done',
         call' = Replied(r.id, ok), Asked' \subseteq Asked,
         r.op = "WriteDone" /\ ok => r.serial \in done'
  PROVE  AnswersInv'
<1>1. call \in Called
  BY DEF TypeOK, PortalType
<1>2. CASE Awaited(r.id)
  <2>1. /\ call.st = "waiting" /\ call.id = r.id /\ r.op = call.op /\ r.serial = call.serial
        /\ call' = [call EXCEPT !.st = "returned", !.ok = ok]
    BY <1>2 DEF Awaited, Replied, AnswersInv
  <2>2. /\ call'.st = "returned" /\ call'.ok = ok /\ call'.id = call.id
        /\ call'.op = call.op /\ call'.serial = call.serial
    BY <1>1, <2>1 DEF Called
  <2> QED BY <2>1, <2>2, AnswersReturn
<1>3. CASE ~Awaited(r.id)
  <2>1. call' = call
    BY <1>3 DEF Replied
  <2> QED BY <2>1, AnswersReturn
<1> QED BY <1>2, <1>3

LEMMA TakeRequestAnswers == ASSUME TypeOK, AnswersInv, TakeRequest PROVE AnswersInv'
<1> DEFINE r == Head(requests)
<1>1. /\ handling = <<>> /\ requests # <<>> /\ requests' = Tail(requests)
      /\ requests \in Seq(Requested) /\ done' = done
  BY DEF TakeRequest, slots, TypeOK, PortalType
<1>2. Messages(requests) = {r} \cup Messages(requests') /\ r \in Requested
  BY <1>1, TailMessages, HeadTailProperties
<1> HIDE DEF r
<1>3. r \in Asked
  BY <1>2 DEF Asked
<1>4. CASE ToldToStop
  <2>1. call' = Replied(r.id, FALSE) /\ handling' = handling
    BY <1>4 DEF TakeRequest, r
  <2>2. Asked' \subseteq Asked
    BY <1>2, <2>1 DEF Asked
  <2> QED BY <1>1, <1>3, <2>1, <2>2, RepliedAnswers
<1>5. CASE ~ToldToStop
  <2>1. call' = call /\ handling' = <<r>>
    BY <1>5 DEF TakeRequest, r
  <2>2. Messages(<<r>>) = {r}
    BY DEF Messages
  <2>3. Asked' \subseteq Asked
    BY <1>2, <2>1, <2>2 DEF Asked
  <2> QED BY <1>1, <2>1, <2>3, AnswersReturn
<1> QED BY <1>4, <1>5

LEMMA HandleRequestAnswers == ASSUME TypeOK, AnswersInv, HandleRequest PROVE AnswersInv'
<1> DEFINE r == Head(handling)
<1>1. /\ handling # <<>> /\ handling' = <<>> /\ handling \in Seq(Requested)
      /\ requests' = requests
  BY DEF HandleRequest, TypeOK, WorkerType
<1>2. r \in Messages(handling) /\ r \in Requested
  BY <1>1, TailMessages, HeadTailProperties
<1>3. r.op \in Operation \cup {"Stop"}
  BY <1>2 DEF Requested
<1> HIDE DEF r
<1>4. r \in Asked /\ Asked' \subseteq Asked
  BY <1>1, <1>2, NoMessages DEF Asked
<1>5. CASE r.op = "SetSelection" \/ r.op = "Stop"
  <2>1. call' = call /\ done' = done
    BY <1>5 DEF HandleRequest, CarryOut, SetSelection, slots, r
  <2> QED BY <1>4, <2>1, AnswersReturn
<1>6. CASE r.op = "Read"
  <2>1. Read(r)
    BY <1>6 DEF HandleRequest, CarryOut, r
  <2>2. PICK ok \in BOOLEAN : call' = Replied(r.id, ok)
    BY <2>1 DEF Read
  <2>3. done' = done
    BY <2>1 DEF Read, slots
  <2> QED BY <1>4, <1>6, <2>2, <2>3, RepliedAnswers
<1>7. CASE r.op = "Write"
  <2>1. Write(r)
    BY <1>7 DEF HandleRequest, CarryOut, r
  <2>2. PICK ok \in BOOLEAN : call' = Replied(r.id, ok /\ r.serial \in writes)
    BY <2>1 DEF Write
  <2>3. done' = done /\ (ok /\ r.serial \in writes) \in BOOLEAN
    BY <2>1 DEF Write, slots
  <2> QED BY <1>4, <1>7, <2>2, <2>3, RepliedAnswers
<1>8. CASE r.op = "WriteDone"
  <2>1. WriteDone(r)
    BY <1>8 DEF HandleRequest, CarryOut, r
  <2>2. call' = Replied(r.id, r.serial \in writes) /\ done' = done \cup ({r.serial} \cap writes)
    BY <2>1 DEF WriteDone
  <2>3. (r.serial \in writes) \in BOOLEAN /\ done \subseteq done'
        /\ (r.serial \in writes => r.serial \in done')
    BY <2>2
  <2> QED BY <1>4, <2>2, <2>3, RepliedAnswers
<1> QED BY <1>3, <1>5, <1>6, <1>7, <1>8 DEF Operation

LEMMA NextAnswers == ASSUME TypeOK, AnswersInv, [Next]_vars PROVE AnswersInv'
<1>1. CASE CallMethod
  BY <1>1, CallMethodAnswers
<1>2. CASE TrySend
  BY <1>2, TrySendAnswers
<1>3. CASE ReplyTimeout
  <2>1. /\ call \in Called /\ call.st = "waiting" /\ requests' = requests /\ handling' = handling
        /\ done' = done /\ call' = [call EXCEPT !.st = "returned", !.ok = FALSE]
    BY <1>3 DEF ReplyTimeout, Expires, TypeOK, PortalType, slots, loop
  <2>2. /\ call'.st = "returned" /\ call'.ok = FALSE /\ call'.id = call.id
        /\ call'.op = call.op /\ call'.serial = call.serial
    BY <2>1 DEF Called
  <2> QED BY <2>1, <2>2, AskedKept, AnswersReturn
<1>4. CASE BeginRemove \/ SpawnForwarder
  BY <1>4, AnswersFrame DEF BeginRemove, SpawnForwarder, slots, portal, loop
<1>5. CASE RemoveClipboard
  <2> DEFINE r == Request(0, "Stop", 0, {})
  <2>1. r \in Requested /\ r.id = 0 /\ requests \in Seq(Requested) /\ call.id \in Nat
    BY DEF Request, Requested, TypeOK, PortalType, Called
  <2> HIDE DEF r
  <2>2. /\ call' = call /\ done' = done /\ handling' = handling
        /\ requests' = requests \/ requests' = Append(requests, r)
    BY <1>5 DEF RemoveClipboard, StopTried, StopQueued, slots, r
  <2>3. Asked' \subseteq Asked \cup {r}
    BY <2>1, <2>2, AppendMessages DEF Asked
  <2>4. 0 <= call.id /\ (call.st # "idle" => 0 < call.id)
    BY <2>1 DEF AnswersInv
  <2>5. /\ 0 <= call.id /\ (call.st = "sending" => 0 < call.id)
        /\ (call.st = "waiting" => call.id # 0)
    BY <2>1, <2>4
  <2> QED BY <2>1, <2>2, <2>3, <2>5 DEF AnswersInv, DoneMeansDone
<1>6. CASE Forwarder
  BY <1>6, AnswersFrame DEF Forwarder, CheckExit, ForwardOwner, ForwardTransfer, EndForwarding,
     slots, portal, loop
<1>7. CASE Dispatch
  <2> DEFINE e == Head(toWorker)
  <2>1. e \in Message(EventType)
    BY <1>7 DEF Dispatch, TypeOK, WireType
  <2>2. e.type \in EventType
    BY <2>1 DEF Message
  <2> HIDE DEF e
  <2>3. UNCHANGED <<call, requests, handling, done>>
    BY <1>7, <2>2 DEF Dispatch, DataOffer, SelectionEvent, PrimarySelection, Finished, Send,
       Cancelled, slots, portal, loop, EventType, e
  <2> QED BY <2>3, AnswersFrame
<1>8. CASE TakeRequest \/ HandleRequest
  BY <1>8, TakeRequestAnswers, HandleRequestAnswers
<1>9. CASE Tick \/ Compositor
  BY <1>9, AnswersFrame DEF Tick, Compositor, slots, portal, loop
<1>10. CASE Exit
  <2>1. /\ call \in Called /\ requests' = <<>> /\ handling' = handling /\ done' = done
    BY <1>10 DEF Exit, TypeOK, PortalType
  <2>2. Asked' \subseteq Asked
    BY <2>1, NoMessages DEF Asked
  <2>3. CASE call.st = "waiting"
    <3>1. call' = [call EXCEPT !.st = "returned", !.ok = FALSE]
      BY <1>10, <2>3 DEF Exit
    <3>2. /\ call'.st = "returned" /\ call'.ok = FALSE /\ call'.id = call.id
          /\ call'.op = call.op /\ call'.serial = call.serial
      BY <2>1, <3>1 DEF Called
    <3> QED BY <2>1, <2>2, <2>3, <3>2, AnswersReturn
  <2>4. CASE call.st # "waiting"
    BY <1>10, <2>1, <2>2, <2>4, AnswersReturn DEF Exit
  <2> QED BY <2>3, <2>4
<1>11. CASE UNCHANGED vars
  BY <1>11, AnswersFrame DEF vars, slots, portal, loop
<1> QED BY <1>1, <1>2, <1>3, <1>4, <1>5, <1>6, <1>7, <1>8, <1>9, <1>10, <1>11 DEF Next, Worker

\* A SelectionWriteDone that succeeds has been carried out: a reply reaches the
\* call that it answers, although calls time out and their requests stay in the
\* queue, in front of those of later calls.
THEOREM AnswersAreTrue == Spec => []DoneMeansDone
<1>1. Init => AnswersInv
  BY NoMessages DEF Init, AnswersInv, Asked, NoCall, DoneMeansDone
<1>2. TypeOK /\ AnswersInv /\ [Next]_vars => AnswersInv'
  BY NextAnswers
<1>3. AnswersInv => DoneMeansDone
  BY DEF AnswersInv
<1> QED BY <1>1, <1>2, <1>3, TypeCorrect, PTL DEF Spec

(***************************************************************************)
(* After the entry is dropped.                                             *)
(***************************************************************************)
\* A signal is emitted after the worker's exit from "select" only, and then the
\* forwarder looks whether the worker runs.
LateInv == late = 0 \/ (late = 1 /\ ~running /\ forwarder \in {"top", "ended"})

LEMMA NextLate == ASSUME LateInv, [Next]_vars PROVE LateInv'
<1>1. CASE CallMethod \/ TrySend \/ ReplyTimeout \/ BeginRemove \/ Tick
  BY <1>1 DEF CallMethod, Arrive, TrySend, ReplyTimeout, BeginRemove, Tick, LateInv, loop, signals
<1>2. CASE RemoveClipboard \/ SpawnForwarder
  BY <1>2 DEF RemoveClipboard, SpawnForwarder, LateInv, loop
<1>3. CASE CheckExit \/ EndForwarding
  BY <1>3 DEF CheckExit, WorkerExited, EndForwarding, LateInv, loop
<1>4. CASE ForwardOwner \/ ForwardTransfer
  BY <1>4 DEF ForwardOwner, ForwardTransfer, Emitted, LateInv, loop
<1>5. CASE Dispatch
  <2>1. late' = late /\ forwarder' = forwarder /\ running
    BY <1>5 DEF Dispatch, signals
  <2> QED BY <2>1 DEF LateInv
<1>6. CASE TakeRequest \/ HandleRequest \/ Exit \/ Compositor
  BY <1>6 DEF TakeRequest, HandleRequest, Exit, Compositor, LateInv, loop, signals
<1>7. CASE UNCHANGED vars
  BY <1>7 DEF vars, LateInv, loop, signals
<1> QED BY <1>1, <1>2, <1>3, <1>4, <1>5, <1>6, <1>7 DEF Next, Forwarder, Worker

LEMMA LateStep == ASSUME LateInv, [Next]_vars PROVE LateInv' /\ late' <= 1
BY NextLate DEF LateInv

\* The request that the worker had taken when the flag was raised is the last.
OverrunInv == overrun = 0 \/ (overrun = 1 /\ shutdown /\ handling = <<>>)

LEMMA NextOverrun == ASSUME TypeOK, OverrunInv, [Next]_vars PROVE OverrunInv'
<1>1. CASE CallMethod \/ TrySend \/ ReplyTimeout \/ BeginRemove \/ Tick \/ SpawnForwarder
  BY <1>1 DEF CallMethod, Arrive, TrySend, ReplyTimeout, BeginRemove, Tick, SpawnForwarder,
     OverrunInv, loop
<1>2. CASE RemoveClipboard
  BY <1>2 DEF RemoveClipboard, OverrunInv
<1>3. CASE Forwarder
  BY <1>3 DEF Forwarder, CheckExit, ForwardOwner, ForwardTransfer, EndForwarding, OverrunInv, loop
<1>4. CASE Dispatch
  <2> DEFINE e == Head(toWorker)
  <2>1. e \in Message(EventType)
    BY <1>4 DEF Dispatch, TypeOK, WireType
  <2>2. e.type \in EventType
    BY <2>1 DEF Message
  <2> HIDE DEF e
  <2>3. UNCHANGED <<shutdown, handling, overrun>>
    BY <1>4, <2>2 DEF Dispatch, DataOffer, SelectionEvent, PrimarySelection, Finished, Send,
       Cancelled, loop, EventType, e
  <2> QED BY <2>3 DEF OverrunInv
<1>5. CASE TakeRequest
  <2>1. /\ handling = <<>> /\ UNCHANGED <<shutdown, overrun>>
        /\ shutdown => handling' = handling
    BY <1>5 DEF TakeRequest, ToldToStop
  <2> QED BY <2>1 DEF OverrunInv
<1>6. CASE HandleRequest
  <2>1. /\ handling # <<>> /\ handling' = <<>> /\ shutdown' = shutdown
        /\ overrun' = IF shutdown THEN overrun + 1 ELSE overrun
    BY <1>6 DEF HandleRequest
  <2>2. overrun = 0
    BY <2>1 DEF OverrunInv
  <2>3. CASE shutdown
    BY <2>1, <2>2, <2>3 DEF OverrunInv
  <2>4. CASE ~shutdown
    BY <2>1, <2>2, <2>4 DEF OverrunInv
  <2> QED BY <2>3, <2>4
<1>7. CASE Exit \/ Compositor
  BY <1>7 DEF Exit, Compositor, OverrunInv, loop
<1>8. CASE UNCHANGED vars
  BY <1>8 DEF vars, OverrunInv, loop
<1> QED BY <1>1, <1>2, <1>3, <1>4, <1>5, <1>6, <1>7, <1>8 DEF Next, Worker

LEMMA OverrunStep == ASSUME TypeOK, OverrunInv, [Next]_vars PROVE overrun' <= 1
BY NextOverrun DEF OverrunInv

\* The commands on their way to the compositor.
Places(q) == {i \in DOMAIN q : q[i].type # "disconnect"}

LEMMA PlacesFinite ==
  ASSUME NEW S, NEW q \in Seq(S)
  PROVE  IsFiniteSet(Places(q)) /\ Cardinality(Places(q)) \in Nat
<1>1. Places(q) \in SUBSET (1 .. Len(q)) /\ 1 \in Int /\ Len(q) \in Int
  BY DEF Places
<1> QED BY <1>1, FS_Interval, FS_Subset, FS_CardinalityType

LEMMA PlacesTail ==
  ASSUME NEW S, NEW q \in Seq(S), q # <<>>
  PROVE  Cardinality(Places(Tail(q))) <= Cardinality(Places(q))
<1> DEFINE f == [i \in Places(Tail(q)) |-> i + 1]
<1>1. /\ Tail(q) \in Seq(S) /\ Len(Tail(q)) = Len(q) - 1
      /\ \A i \in 1 .. Len(Tail(q)) : Tail(q)[i] = q[i + 1]
  BY HeadTailProperties
<1>2. DOMAIN q = 1 .. Len(q) /\ Len(q) \in Nat \ {0} /\ DOMAIN Tail(q) = 1 .. Len(q) - 1
  BY <1>1, EmptySeq
<1>3. \A i \in Places(Tail(q)) : i \in Nat /\ i + 1 \in Places(q)
  BY <1>1, <1>2 DEF Places
<1>4. f \in Injection(Places(Tail(q)), Places(q))
  BY <1>3 DEF Injection, IsInjective
<1> HIDE DEF f
<1> QED BY <1>4, PlacesFinite, FS_Injection

LEMMA PlacesDisconnect ==
  ASSUME NEW S, NEW q \in Seq(S), NEW e \in S, e.type = "disconnect"
  PROVE  Places(Append(q, e)) = Places(q)
<1>1. /\ Append(q, e) \in Seq(S) /\ Len(Append(q, e)) = Len(q) + 1
      /\ \A i \in 1 .. Len(q) : Append(q, e)[i] = q[i]
      /\ Append(q, e)[Len(q) + 1] = e
  BY AppendProperties
<1>2. DOMAIN q = 1 .. Len(q) /\ Len(q) \in Nat /\ DOMAIN Append(q, e) = 1 .. Len(q) + 1
  BY <1>1
<1>3. \A i \in DOMAIN Append(q, e) : i \in DOMAIN q \/ i = Len(q) + 1
  BY <1>2
<1> QED BY <1>1, <1>2, <1>3 DEF Places

LEMMA ClosedStep ==
  ASSUME TypeOK, [Next]_vars, shutdown, overrun' = overrun
  PROVE  Commands' <= Commands /\ done' = done
<1>1. /\ Commands = Cardinality(Places(toServer)) /\ Commands' = Cardinality(Places(toServer'))
      /\ toServer \in Seq(Message(CommandType)) /\ Commands \in Nat
  BY PlacesFinite DEF Commands, Places, TypeOK, WireType
<1>2. Commands <= Commands
  BY <1>1
<1>3. CASE CallMethod \/ TrySend \/ ReplyTimeout \/ BeginRemove \/ Tick
  BY <1>1, <1>2, <1>3 DEF CallMethod, Arrive, TrySend, ReplyTimeout, BeginRemove, Tick, slots, wire
<1>4. CASE RemoveClipboard \/ SpawnForwarder
  BY <1>1, <1>2, <1>4 DEF RemoveClipboard, SpawnForwarder, slots, wire
<1>5. CASE Forwarder
  BY <1>1, <1>2, <1>5 DEF Forwarder, CheckExit, ForwardOwner, ForwardTransfer, EndForwarding,
     slots, wire
<1>6. CASE Dispatch
  <2> DEFINE e == Head(toWorker)
  <2>1. e \in Message(EventType)
    BY <1>6 DEF Dispatch, TypeOK, WireType
  <2>2. e.type \in EventType
    BY <2>1 DEF Message
  <2> HIDE DEF e
  <2>3. toServer' = toServer /\ done' = done
    BY <1>6, <2>2 DEF Dispatch, DataOffer, SelectionEvent, PrimarySelection, Finished, Send,
       Cancelled, slots, EventType, e
  <2> QED BY <1>1, <1>2, <2>3
<1>7. CASE TakeRequest \/ HandleRequest
  <2>1. CASE TakeRequest
    <3>1. toServer' = toServer /\ done' = done
      BY <2>1 DEF TakeRequest, slots, wire
    <3> QED BY <1>1, <1>2, <3>1
  <2>2. CASE HandleRequest
    <3>1. overrun' = overrun + 1 /\ overrun \in Nat
      BY <2>2 DEF HandleRequest, TypeOK, WorkerType
    <3> QED BY <3>1
  <2> QED BY <1>7, <2>1, <2>2
<1>8. CASE Exit
  <2> DEFINE c == Command("disconnect", 0, {})
  <2>1. c \in Message(CommandType) /\ c.type = "disconnect"
    BY DEF Command, Message, CommandType
  <2>2. toServer' = Append(toServer, c) /\ done' = done
    BY <1>8 DEF Exit
  <2> HIDE DEF c
  <2> QED BY <1>1, <1>2, <2>1, <2>2, PlacesDisconnect
<1>9. CASE Compositor
  <2>1. toServer' = toServer \/ (toServer # <<>> /\ toServer' = Tail(toServer))
    BY <1>9 DEF Compositor, OtherSelects, OtherSelectsPrimary, OtherPastes, ServeRequest,
       DeviceFinishes
  <2>2. done' = done
    BY <1>9 DEF Compositor, slots
  <2> QED BY <1>1, <1>2, <2>1, <2>2, PlacesTail
<1>10. CASE UNCHANGED vars
  BY <1>1, <1>2, <1>10 DEF vars, slots, wire
<1> QED BY <1>3, <1>4, <1>5, <1>6, <1>7, <1>8, <1>9, <1>10 DEF Next, Worker

\* A closed session winds down: but for the one request that the worker had
\* taken when the flag was raised, nothing that is queued or still sent takes
\* effect, however much that is, and the forwarder emits at most one signal
\* after the worker's exit.
THEOREM ClosedWindsDown == Spec => ClosedSessionWindsDown
<1>1. Init => LateInv /\ OverrunInv
  BY DEF Init, LateInv, OverrunInv
<1>2. TypeOK /\ LateInv /\ OverrunInv /\ [Next]_vars => LateInv' /\ OverrunInv'
  BY NextLate, NextOverrun
<1>3. TypeOK /\ LateInv /\ OverrunInv /\ [Next]_vars =>
        [/\ shutdown /\ overrun' = overrun => Commands' <= Commands /\ done' = done
         /\ overrun' <= 1 /\ late' <= 1]_vars
  BY LateStep, OverrunStep, ClosedStep
<1> QED BY <1>1, <1>2, <1>3, TypeCorrect, PTL DEF Spec, ClosedSessionWindsDown

(***************************************************************************)
(* The owner of the clipboard.  What the worker does not know yet is on    *)
(* its way: the last Selection event is the compositor's selection, the    *)
(* last set_selection request is the worker's source, and a source of ours *)
(* that lost the selection has its Cancelled event coming.                 *)
(***************************************************************************)
\* Offers are introduced under new numbers, with the types of the selection.
OffersInv ==
  /\ Paired(toWorker) /\ DOMAIN offers = Designated(toWorker)
  /\ \A e \in Messages(toWorker) : e.type = "DataOffer" =>
       e.id \in 1 .. lastOffer /\ (e.id = selection.offer => e.mimes = selection.mimes)
  /\ \A o \in DOMAIN offers :
       o \in 1 .. lastOffer /\ (o = selection.offer => offers[o] = selection.mimes)

SelectionInv ==
  /\ selection.offer \in 0 .. lastOffer
  /\ (selection.offer = 0) <=> (selection.by = "nobody")
  /\ selection.by = "nobody" => selection.mimes = {}
  /\ IF Has(toWorker, "Selection") THEN Last(toWorker, "Selection", selection.offer)
     ELSE ~defunct => current = selection.offer /\ mimes = selection.mimes

\* Sources are cancelled, hold the selection and are sent in the order in which
\* they were created.
Sets(c) == c.type = "set_selection" /\ c.id # 0
SourcesInv ==
  /\ Ascending(toServer)
  /\ \A c \in Messages(toServer) : c.type = "set_selection" => c.id <= sources
  /\ \A e \in Messages(toWorker) : e.type = "Cancelled" =>
       /\ e.id \in 1 .. sources
       /\ \A c \in Messages(toServer) : Sets(c) => e.id < c.id
  /\ selection.by = "session" =>
       /\ selection.source \in 1 .. sources
       /\ \A c \in Messages(toServer) : Sets(c) => selection.source < c.id
       /\ \A e \in Messages(toWorker) : e.type = "Cancelled" => e.id < selection.source

Owning == (isOwner <=> ownSource # 0) /\ ownSource <= sources
SourceTold ==
  IF Has(toServer, "set_selection") THEN Last(toServer, "set_selection", ownSource)
  ELSE IF selection.by = "session" THEN ownSource = selection.source
  ELSE ownSource # 0 => \E e \in Messages(toWorker) : e.type = "Cancelled" /\ e.id = ownSource
Announcing == owner = State(mimes, isOwner)
Cleared == owner = State({}, FALSE)
StateTold ==
  ~defunct =>
    \/ Announcing
    \/ Has(toWorker, "Selection")
    \/ Has(toServer, "set_selection") /\ (ownSource # 0 \/ Cleared)
OwnerInv == Owning /\ SourceTold /\ StateTold

SyncInv == running => OffersInv /\ SelectionInv /\ SourcesInv /\ OwnerInv

\* What the compositor sends in one step, and what it did to the selection.
Tells(p) ==
  /\ p \in Seq(Message(EventType)) /\ toWorker' = toWorker \o p
  /\ Paired(p) /\ Designated(p) = {}
  /\ lastOffer' \in {lastOffer, lastOffer + 1}
  /\ \A e \in Messages(p) : e.type = "DataOffer" =>
       /\ e.id = lastOffer + 1 /\ lastOffer' = lastOffer + 1
       /\ e.id = selection'.offer => e.mimes = selection'.mimes
  /\ \/ /\ selection' = selection
        /\ \A e \in Messages(p) : e.type \notin {"Selection", "Cancelled"}
     \/ /\ Last(p, "Selection", selection'.offer)
        /\ IF selection'.by = "nobody" THEN selection'.offer = 0 /\ selection'.mimes = {}
           ELSE selection'.offer = lastOffer + 1 /\ lastOffer' = lastOffer + 1
        /\ \A e \in Messages(p) : e.type = "Cancelled" =>
             selection.by = "session" /\ e.id = selection.source
        /\ selection.by = "session" =>
             \E e \in Messages(p) : e.type = "Cancelled" /\ e.id = selection.source

\* Which request it served, if any.
Serves ==
  \/ toServer' = toServer /\ (selection' = selection \/ selection'.by = "other")
  \/ /\ toServer # <<>> /\ toServer' = Tail(toServer)
     /\ \/ /\ Head(toServer).type # "set_selection"
           /\ selection' = selection \/ selection'.by = "nobody"
        \/ /\ Head(toServer).type = "set_selection" /\ Head(toServer).id = 0
           /\ selection'.by = "nobody"
        \/ /\ Sets(Head(toServer))
           /\ selection'.by = "session" /\ selection'.source = Head(toServer).id
           /\ Has(toWorker', "Selection")


LEMMA LastHas == ASSUME NEW q, NEW ty, NEW id, Last(q, ty, id) PROVE Has(q, ty)
BY DEF Last, Has, Messages

LEMMA NothingSays ==
  ASSUME WireType, UNCHANGED <<toWorker, selection, lastOffer>> PROVE Tells(<<>>)
<1>1. /\ <<>> \in Seq(Message(EventType)) /\ toWorker \o <<>> = toWorker
      /\ Messages(<<>>) = {}
  BY ConcatEmptySeq, NoMessages DEF WireType
<1>2. Paired(<<>>) /\ Designated(<<>>) = {}
  BY DEF Paired, Designated
<1> QED BY <1>1, <1>2 DEF Tells

\* A selection made.
LEMMA SelectSays ==
  ASSUME WireType, running, NEW new \in Selected, new # Nobody => new.by # "nobody", Select(new)
  PROVE  /\ \E p : Tells(p)
         /\ \/ new = Nobody /\ selection.by = "nobody" /\ selection' = selection
            \/ /\ selection'.by = new.by /\ selection'.source = new.source
               /\ Has(toWorker', "Selection")
<1>1. toWorker \in Seq(Message(EventType)) /\ lastOffer \in Nat
  BY DEF WireType
<1>2. CASE new = Nobody /\ selection.by = "nobody" /\ UNCHANGED <<selection, lastOffer, toWorker>>
  BY <1>2, NothingSays
<1>3. CASE ~(new = Nobody /\ selection.by = "nobody" /\ UNCHANGED <<selection, lastOffer, toWorker>>)
  <2>1. /\ lastOffer' = IF new = Nobody THEN lastOffer ELSE lastOffer + 1
        /\ selection'.by = new.by /\ selection'.source = new.source
        /\ selection'.mimes = new.mimes
        /\ selection'.offer = IF new = Nobody THEN 0 ELSE lastOffer + 1
    BY <1>3, SelectTells
  <2>2. PICK p \in Seq(Message(EventType)) :
                 /\ toWorker' = IF running THEN toWorker \o p ELSE toWorker
                 /\ Paired(p) /\ Designated(p) = {}
                 /\ Last(p, "Selection", selection'.offer)
                 /\ \A e \in Messages(p) :
                      /\ e.type = "DataOffer" =>
                           new # Nobody /\ e.id = lastOffer + 1 /\ e.mimes = new.mimes
                      /\ e.type = "Selection" => e.id = selection'.offer
                      /\ e.type = "Cancelled" =>
                           selection.by = "session" /\ e.id = selection.source
                 /\ selection.by = "session" =>
                      \E e \in Messages(p) : e.type = "Cancelled" /\ e.id = selection.source
    BY <1>3, SelectTells
  <2>3. (new = Nobody) <=> (new.by = "nobody")
    BY DEF Nobody
  <2>4. new = Nobody => new.mimes = {}
    BY DEF Nobody
  <2>5. Tells(p)
    BY <1>1, <2>1, <2>2, <2>3, <2>4 DEF Tells
  <2>6. Has(toWorker', "Selection")
    BY <1>1, <2>2, LastHas, ConcatMessages
  <2> QED BY <2>1, <2>5, <2>6
<1> QED BY <1>2, <1>3

\* An event that stands alone, and tells nothing of the selection.
LEMMA AloneSays ==
  ASSUME WireType, running, NEW e \in Message(EventType), e.type \in {"Send", "Finished"},
         toWorker' = Sent(<<e>>), UNCHANGED <<selection, lastOffer>>
  PROVE  Tells(<<e>>)
<1> DEFINE p == <<e>>
<1>1. p \in Seq(Message(EventType)) /\ DOMAIN p = {1} /\ p[1] = e /\ toWorker' = toWorker \o p
  BY DEF Sent
<1> HIDE DEF p
<1>2. Messages(p) = {e}
  BY <1>1 DEF Messages
<1>3. Paired(p) /\ Designated(p) = {}
  BY <1>1 DEF Paired, Designated, Designates
<1>4. Tells(p)
  BY <1>1, <1>2, <1>3 DEF Tells
<1> QED BY <1>4 DEF p

LEMMA PrimarySays ==
  ASSUME TypeOK, running, SelectionInv, OtherSelectsPrimary
  PROVE  (\E p : Tells(p)) /\ selection' = selection
<1>1. PICK M \in SUBSET Mime : /\ lastOffer' = lastOffer + 1
                               /\ toWorker' = Sent(Introduce(lastOffer + 1, M, "PrimarySelection"))
                               /\ UNCHANGED <<selection, toServer>>
  BY DEF OtherSelectsPrimary
<1> DEFINE d == Event("DataOffer", lastOffer + 1, M)
           e == Event("PrimarySelection", lastOffer + 1, {})
           p == <<d, e>>
<1>2. lastOffer \in Nat /\ selection.offer # lastOffer + 1
  BY DEF TypeOK, WireType, SelectionInv
<1>3. /\ d \in Message(EventType) /\ d.type = "DataOffer" /\ d.id = lastOffer + 1
      /\ e \in Message(EventType) /\ e.type = "PrimarySelection" /\ e.id = lastOffer + 1
  BY <1>2 DEF Event, Message, EventType
<1>4. toWorker' = toWorker \o p
  BY <1>1 DEF Sent, Introduce
<1> HIDE DEF d, e
<1>5. p \in Seq(Message(EventType)) /\ DOMAIN p = {1, 2} /\ p[1] = d /\ p[2] = e
  BY <1>3
<1> HIDE DEF p
<1>6. Messages(p) = {d, e}
  BY <1>5 DEF Messages
<1>7. Paired(p) /\ Designated(p) = {}
  BY <1>2, <1>3, <1>5 DEF Paired, Designated, Designates
<1>8. Tells(p)
  BY <1>1, <1>2, <1>3, <1>4, <1>5, <1>6, <1>7 DEF Tells
<1> QED BY <1>1, <1>8

LEMMA CompositorSays ==
  ASSUME TypeOK, running, SelectionInv, Compositor
  PROVE  (\E p : Tells(p)) /\ Serves
<1>1. WireType /\ UNCHANGED <<data, loop, watch>>
  BY DEF Compositor, TypeOK
<1>2. CASE OtherSelects
  <2>1. PICK M \in SUBSET Mime : Select(Other(M)) /\ UNCHANGED toServer
    BY <1>2 DEF OtherSelects
  <2>2. Other(M) \in Selected /\ Other(M).by = "other" /\ Other(M) # Nobody
    BY SelectedType DEF Nobody
  <2> QED BY <1>1, <2>1, <2>2, SelectSays DEF Serves
<1>3. CASE OtherSelectsPrimary
  BY <1>3, PrimarySays DEF Serves, OtherSelectsPrimary
<1>4. CASE OtherPastes
  <2>1. PICK m \in selection.mimes : toWorker' = Sent(<<Event("Send", selection.source, {m})>>)
    BY <1>4 DEF OtherPastes
  <2>2. /\ Event("Send", selection.source, {m}) \in Message(EventType)
        /\ Event("Send", selection.source, {m}).type = "Send"
    BY <1>1 DEF Event, Message, EventType, WireType, Selected
  <2>3. UNCHANGED <<selection, lastOffer, toServer>>
    BY <1>4 DEF OtherPastes, compositor
  <2> QED BY <1>1, <2>1, <2>2, <2>3, AloneSays DEF Serves
<1>5. CASE DeviceFinishes
  <2>1. toWorker' = Sent(<<Event("Finished", 0, {})>>)
    BY <1>5 DEF DeviceFinishes
  <2>2. /\ Event("Finished", 0, {}) \in Message(EventType)
        /\ Event("Finished", 0, {}).type = "Finished"
    BY DEF Event, Message, EventType
  <2>3. UNCHANGED <<selection, lastOffer, toServer>>
    BY <1>5 DEF DeviceFinishes, compositor
  <2> QED BY <1>1, <2>1, <2>2, <2>3, AloneSays DEF Serves
<1>6. CASE ServeRequest
  <2> DEFINE r == Head(toServer)
  <2>1. /\ toServer # <<>> /\ r \in Message(CommandType) /\ toServer' = Tail(toServer)
    BY <1>1, <1>6 DEF ServeRequest, WireType
  <2>2. r.type \in CommandType /\ r.id \in Nat /\ r.mimes \in SUBSET Mime
    BY <2>1 DEF Message
  <2>3. CASE r.type = "set_selection" /\ r.id = 0
    <3>1. Select(Nobody)
      BY <1>6, <2>3 DEF ServeRequest
    <3>2. Nobody \in Selected /\ Nobody.by = "nobody"
      BY SelectedType DEF Nobody
    <3>3. (\E p : Tells(p)) /\ selection'.by = "nobody"
      BY <1>1, <3>1, <3>2, SelectSays
    <3> QED BY <2>1, <2>3, <3>3 DEF Serves
  <2>4. CASE r.type = "set_selection" /\ r.id # 0
    <3>1. Select(Ours(r.id, r.mimes))
      BY <1>6, <2>4 DEF ServeRequest
    <3>2. /\ Ours(r.id, r.mimes) \in Selected /\ Ours(r.id, r.mimes).by = "session"
          /\ Ours(r.id, r.mimes).source = r.id /\ Ours(r.id, r.mimes) # Nobody
      BY <2>2, SelectedType DEF Nobody
    <3>3. /\ \E p : Tells(p)
          /\ selection'.by = "session" /\ selection'.source = r.id /\ Has(toWorker', "Selection")
      BY <1>1, <3>1, <3>2, SelectSays
    <3> QED BY <2>1, <2>4, <3>3 DEF Serves, Sets
  <2>5. CASE r.type = "receive"
    <3>1. CASE selection.by = "session" /\ selection.offer = r.id
      <4> DEFINE e == Event("Send", selection.source, r.mimes)
      <4>1. toWorker' = Sent(<<e>>) /\ UNCHANGED <<selection, lastOffer>>
        BY <1>6, <2>5, <3>1 DEF ServeRequest, compositor
      <4>2. e \in Message(EventType) /\ e.type = "Send"
        BY <1>1, <2>2 DEF Event, Message, EventType, WireType, Selected
      <4>3. Tells(<<e>>)
        BY <1>1, <4>1, <4>2, AloneSays
      <4> QED BY <2>1, <2>5, <4>1, <4>3 DEF Serves
    <3>2. CASE ~(selection.by = "session" /\ selection.offer = r.id)
      <4>1. UNCHANGED <<toWorker, selection, lastOffer>>
        BY <1>6, <2>5, <3>2 DEF ServeRequest, compositor
      <4>2. Tells(<<>>)
        BY <1>1, <4>1, NothingSays
      <4> QED BY <2>1, <2>5, <4>1, <4>2 DEF Serves
    <3> QED BY <3>1, <3>2
  <2>6. CASE r.type = "disconnect"
    <3>1. CASE selection.by = "session"
      <4>1. Select(Nobody)
        BY <1>6, <2>6, <3>1 DEF ServeRequest
      <4>2. Nobody \in Selected /\ Nobody.by = "nobody"
        BY SelectedType DEF Nobody
      <4>3. (\E p : Tells(p)) /\ selection'.by = "nobody"
        BY <1>1, <4>1, <4>2, SelectSays
      <4> QED BY <2>1, <2>6, <4>3 DEF Serves
    <3>2. CASE selection.by # "session"
      <4>1. UNCHANGED <<toWorker, selection, lastOffer>>
        BY <1>6, <2>6, <3>2 DEF ServeRequest, compositor
      <4>2. Tells(<<>>)
        BY <1>1, <4>1, NothingSays
      <4> QED BY <2>1, <2>6, <4>1, <4>2 DEF Serves
    <3> QED BY <3>1, <3>2
  <2> QED BY <2>2, <2>3, <2>4, <2>5, <2>6 DEF CommandType
<1> QED BY <1>2, <1>3, <1>4, <1>5, <1>6 DEF Compositor

LEMMA TellsOffers ==
  ASSUME TypeOK, OffersInv, SelectionInv, NEW p, Tells(p), UNCHANGED data
  PROVE  OffersInv'
<1>1. /\ toWorker \in Seq(Message(EventType)) /\ p \in Seq(Message(EventType))
      /\ toWorker' = toWorker \o p /\ Paired(p) /\ Designated(p) = {}
      /\ lastOffer \in Nat /\ lastOffer' \in {lastOffer, lastOffer + 1} /\ offers' = offers
  BY DEF Tells, TypeOK, WireType, data
<1>2. Paired(toWorker') /\ DOMAIN offers' = Designated(toWorker')
  BY <1>1, PairedConcat DEF OffersInv
<1>3. Messages(toWorker') = Messages(toWorker) \cup Messages(p)
  BY <1>1, ConcatMessages
<1>4. \A n \in 1 .. lastOffer :
        n \in 1 .. lastOffer' /\ (n = selection'.offer => selection' = selection)
  BY <1>1 DEF Tells
<1>5. \A e \in Messages(toWorker) : e.type = "DataOffer" =>
        e.id \in 1 .. lastOffer' /\ (e.id = selection'.offer => e.mimes = selection'.mimes)
  BY <1>4 DEF OffersInv
<1>6. \A e \in Messages(p) : e.type = "DataOffer" =>
        e.id \in 1 .. lastOffer' /\ (e.id = selection'.offer => e.mimes = selection'.mimes)
  BY <1>1 DEF Tells
<1>7. \A o \in DOMAIN offers' :
        o \in 1 .. lastOffer' /\ (o = selection'.offer => offers'[o] = selection'.mimes)
  BY <1>1, <1>4 DEF OffersInv
<1> QED BY <1>2, <1>3, <1>5, <1>6, <1>7 DEF OffersInv

LEMMA TellsSelection ==
  ASSUME TypeOK, SelectionInv, NEW p, Tells(p), UNCHANGED <<data, defunct>>
  PROVE  SelectionInv'
<1>1. /\ toWorker \in Seq(Message(EventType)) /\ p \in Seq(Message(EventType))
      /\ toWorker' = toWorker \o p
      /\ lastOffer \in Nat /\ lastOffer' \in {lastOffer, lastOffer + 1}
      /\ current' = current /\ mimes' = mimes
  BY DEF Tells, TypeOK, WireType, data
<1>2. CASE /\ selection' = selection
           /\ \A e \in Messages(p) : e.type \notin {"Selection", "Cancelled"}
  <2>1. ~Has(p, "Selection")
    BY <1>2 DEF Has
  <2>2. Has(toWorker', "Selection") <=> Has(toWorker, "Selection")
    BY <1>1, <2>1, ConcatMessages
  <2>3. Last(toWorker, "Selection", selection.offer) => Last(toWorker', "Selection", selection.offer)
    BY <1>1, <2>1, LastConcat
  <2>4. selection.offer \in 0 .. lastOffer'
    BY <1>1 DEF SelectionInv
  <2> QED BY <1>1, <1>2, <2>2, <2>3, <2>4 DEF SelectionInv
<1>3. CASE /\ Last(p, "Selection", selection'.offer)
           /\ IF selection'.by = "nobody" THEN selection'.offer = 0 /\ selection'.mimes = {}
              ELSE selection'.offer = lastOffer + 1 /\ lastOffer' = lastOffer + 1
  <2>1. Last(toWorker', "Selection", selection'.offer)
    BY <1>1, <1>3, LastConcat
  <2>2. Has(toWorker', "Selection")
    BY <2>1, LastHas
  <2>3. /\ selection'.offer \in 0 .. lastOffer'
        /\ (selection'.offer = 0) <=> (selection'.by = "nobody")
        /\ selection'.by = "nobody" => selection'.mimes = {}
    BY <1>1, <1>3
  <2> QED BY <2>1, <2>2, <2>3 DEF SelectionInv
<1> QED BY <1>2, <1>3 DEF Tells

LEMMA TellsSources ==
  ASSUME TypeOK, SelectionInv, SourcesInv, NEW p, Tells(p), Serves, UNCHANGED data
  PROVE  SourcesInv'
<1>1. /\ toWorker \in Seq(Message(EventType)) /\ p \in Seq(Message(EventType))
      /\ toWorker' = toWorker \o p /\ toServer \in Seq(Message(CommandType))
      /\ sources' = sources /\ sources \in Nat
  BY DEF Tells, TypeOK, WireType, WorkerType, data
<1>2. Messages(toWorker') = Messages(toWorker) \cup Messages(p)
  BY <1>1, ConcatMessages
<1>3. /\ Ascending(toServer') /\ Messages(toServer') \subseteq Messages(toServer)
      /\ toServer' # toServer /\ Sets(Head(toServer)) =>
           /\ Head(toServer) \in Messages(toServer)
           /\ \A c \in Messages(toServer') : Sets(c) => Head(toServer).id < c.id
  <2>1. CASE toServer' = toServer
    BY <2>1 DEF SourcesInv
  <2>2. CASE toServer # <<>> /\ toServer' = Tail(toServer)
    <3>1. Messages(toServer) = {Head(toServer)} \cup Messages(toServer')
      BY <1>1, <2>2, TailMessages
    <3>2. /\ Ascending(toServer')
          /\ Head(toServer).type = "set_selection" =>
               \A c \in Messages(toServer') :
                 c.type = "set_selection" /\ c.id # 0 => Head(toServer).id < c.id
      BY <1>1, <2>2, AscendingTail DEF SourcesInv
    <3> QED BY <3>1, <3>2 DEF Sets
  <2> QED BY <2>1, <2>2 DEF Serves
<1>4. \A e \in Messages(p) : e.type = "Cancelled" =>
        selection.by = "session" /\ e.id = selection.source
  BY DEF Tells
<1>5. \A e \in Messages(toWorker') : e.type = "Cancelled" =>
        /\ e.id \in 1 .. sources
        /\ \A c \in Messages(toServer) : Sets(c) => e.id < c.id
  BY <1>2, <1>4 DEF SourcesInv
<1>6. selection'.by = "session" =>
        /\ selection'.source \in 1 .. sources
        /\ \A c \in Messages(toServer') : Sets(c) => selection'.source < c.id
        /\ \A e \in Messages(toWorker') : e.type = "Cancelled" => e.id < selection'.source
  <2>1. SUFFICES ASSUME selection'.by = "session"
                 PROVE  /\ selection'.source \in 1 .. sources
                        /\ \A c \in Messages(toServer') : Sets(c) => selection'.source < c.id
                        /\ \A e \in Messages(toWorker') :
                             e.type = "Cancelled" => e.id < selection'.source
    OBVIOUS
  <2>2. CASE toServer' # toServer /\ Sets(Head(toServer)) /\ selection'.source = Head(toServer).id
    <3>1. Head(toServer) \in Messages(toServer)
      BY <1>3, <2>2
    <3>2. Head(toServer).id \in Nat
      BY <1>1, <3>1, MessagesType DEF Message
    <3>3. selection'.source \in 1 .. sources
      BY <1>1, <2>2, <3>1, <3>2 DEF SourcesInv, Sets
    <3> QED BY <1>3, <1>5, <2>2, <3>1, <3>3
  <2>3. CASE selection' = selection
    <3>1. \A e \in Messages(p) : e.type # "Cancelled"
      <4>1. lastOffer \in Nat /\ selection.offer \in 0 .. lastOffer
        BY DEF TypeOK, WireType, SelectionInv
      <4>2. selection'.offer # lastOffer + 1
        BY <2>3, <4>1
      <4> QED BY <2>1, <2>3, <4>2 DEF Tells
    <3> QED BY <1>2, <1>3, <2>1, <2>3, <3>1 DEF SourcesInv
  <2> QED BY <2>1, <2>2, <2>3 DEF Serves
<1> QED BY <1>1, <1>3, <1>5, <1>6 DEF SourcesInv

LEMMA TellsOwner ==
  ASSUME TypeOK, SelectionInv, OwnerInv, NEW p, Tells(p), Serves,
         UNCHANGED <<data, defunct, owner>>
  PROVE  OwnerInv'
<1>1. /\ toWorker \in Seq(Message(EventType)) /\ p \in Seq(Message(EventType))
      /\ toWorker' = toWorker \o p /\ toServer \in Seq(Message(CommandType))
  BY DEF Tells, TypeOK, WireType
<1>2. UNCHANGED <<mimes, isOwner, ownSource, sources, defunct, owner>>
  BY DEF data
<1>3. /\ Messages(toWorker') = Messages(toWorker) \cup Messages(p)
      /\ Has(toWorker, "Selection") => Has(toWorker', "Selection")
  BY <1>1, ConcatMessages
<1>4. /\ Has(toServer', "set_selection") => Has(toServer, "set_selection")
      /\ Has(toServer', "set_selection") /\ Last(toServer, "set_selection", ownSource)
           => Last(toServer', "set_selection", ownSource)
      /\ Has(toServer, "set_selection") /\ ~Has(toServer', "set_selection")
           /\ Last(toServer, "set_selection", ownSource)
           => /\ toServer' # toServer
              /\ Head(toServer).type = "set_selection" /\ Head(toServer).id = ownSource
  <2>1. CASE toServer' = toServer
    BY <2>1
  <2>2. CASE toServer # <<>> /\ toServer' = Tail(toServer)
    BY <1>1, <2>2, TailMessages, LastTail
  <2> QED BY <2>1, <2>2 DEF Serves
<1>5. Owning'
  BY <1>2, Zenon DEF OwnerInv, Owning
<1>6. (Announcing' <=> Announcing) /\ (Cleared' <=> Cleared)
  BY <1>2, Zenon DEF Announcing, Cleared
<1>7. CASE Has(toServer', "set_selection")
  <2>1. SourceTold'
    BY <1>2, <1>4, <1>7 DEF OwnerInv, SourceTold
  <2>2. StateTold'
    BY <1>2, <1>3, <1>4, <1>7, <1>6 DEF OwnerInv, StateTold
  <2> QED BY <1>5, <2>1, <2>2 DEF OwnerInv
<1>8. CASE ~Has(toServer, "set_selection") /\ ~Has(toServer', "set_selection")
  <2>1. selection' = selection \/ selection'.by \in {"other", "nobody"}
    <3>1. CASE toServer' = toServer
      BY <3>1 DEF Serves, Sets
    <3>2. CASE toServer # <<>> /\ toServer' = Tail(toServer)
      <4>1. Head(toServer).type # "set_selection"
        BY <1>1, <1>8, <3>2, TailMessages
      <4> QED BY <4>1 DEF Serves, Sets
    <3> QED BY <3>1, <3>2 DEF Serves
  <2>2. IF selection'.by = "session" THEN ownSource = selection'.source
        ELSE ownSource # 0 =>
               \E e \in Messages(toWorker') : e.type = "Cancelled" /\ e.id = ownSource
    <3>1. CASE selection' = selection
      BY <1>3, <1>8, <3>1 DEF OwnerInv, SourceTold
    <3>2. CASE selection' # selection
      <4>1. selection'.by # "session"
        BY <2>1, <3>2
      <4>2. CASE selection.by = "session"
        <5>1. ownSource = selection.source
          BY <1>8, <4>2 DEF OwnerInv, SourceTold
        <5>2. \E e \in Messages(p) : e.type = "Cancelled" /\ e.id = selection.source
          BY <3>2, <4>2 DEF Tells
        <5> QED BY <1>3, <4>1, <5>1, <5>2
      <4>3. CASE selection.by # "session"
        <5>1. ownSource # 0 =>
                \E e \in Messages(toWorker) : e.type = "Cancelled" /\ e.id = ownSource
          BY <1>8, <4>3 DEF OwnerInv, SourceTold
        <5> QED BY <1>3, <4>1, <5>1
      <4> QED BY <4>2, <4>3
    <3> QED BY <3>1, <3>2
  <2>3. SourceTold'
    BY <1>2, <1>8, <2>2 DEF SourceTold
  <2>4. StateTold'
    BY <1>2, <1>3, <1>8, <1>6 DEF OwnerInv, StateTold
  <2> QED BY <1>5, <2>3, <2>4 DEF OwnerInv
<1>9. CASE Has(toServer, "set_selection") /\ ~Has(toServer', "set_selection")
  <2>1. /\ toServer' # toServer
        /\ Head(toServer).type = "set_selection" /\ Head(toServer).id = ownSource
    BY <1>4, <1>9 DEF OwnerInv, SourceTold
  <2>2. CASE ownSource = 0
    <3>1. selection'.by = "nobody"
      BY <2>1, <2>2 DEF Serves, Sets
    <3>2. ~defunct => Announcing \/ Has(toWorker', "Selection")
      <4>1. SUFFICES ASSUME ~defunct, ~Announcing, ~Has(toWorker', "Selection")
                     PROVE  FALSE
        OBVIOUS
      <4>2. Cleared /\ ~Has(toWorker, "Selection")
        BY <1>3, <2>2, <4>1 DEF OwnerInv, StateTold
      <4>3. ~isOwner /\ isOwner \in BOOLEAN
        BY <2>2 DEF OwnerInv, Owning, TypeOK, WorkerType
      <4>4. selection' = selection
        <5>1. ~Last(p, "Selection", selection'.offer)
          BY <1>1, <4>1, LastHas, ConcatMessages
        <5> QED BY <5>1 DEF Tells
      <4>5. mimes = {}
        BY <3>1, <4>1, <4>2, <4>4 DEF SelectionInv
      <4>6. isOwner = FALSE
        BY <4>3
      <4> QED BY <4>1, <4>2, <4>5, <4>6 DEF Announcing, Cleared
    <3>3. SourceTold'
      BY <1>2, <1>9, <2>2, <3>1 DEF SourceTold
    <3>4. StateTold'
      BY <1>2, <1>6, <3>2 DEF StateTold
    <3> QED BY <1>5, <3>3, <3>4 DEF OwnerInv
  <2>3. CASE ownSource # 0
    <3>1. /\ selection'.by = "session" /\ selection'.source = ownSource
          /\ Has(toWorker', "Selection")
      BY <2>1, <2>3 DEF Serves, Sets
    <3>2. SourceTold' /\ StateTold'
      BY <1>2, <1>9, <3>1 DEF SourceTold, StateTold
    <3> QED BY <1>5, <3>2 DEF OwnerInv
  <2> QED BY <2>2, <2>3
<1> QED BY <1>4, <1>7, <1>8, <1>9

LEMMA CompositorSync == ASSUME TypeOK, SyncInv, running, Compositor PROVE SyncInv'
<1>1. OffersInv /\ SelectionInv /\ SourcesInv /\ OwnerInv
  BY DEF SyncInv
<1>2. UNCHANGED <<data, defunct, owner>>
  BY DEF Compositor, loop, watch
<1>3. PICK p : Tells(p)
  BY <1>1, CompositorSays
<1>4. Serves
  BY <1>1, CompositorSays
<1>5. OffersInv'
  BY <1>1, <1>2, <1>3, TellsOffers
<1>6. SelectionInv'
  BY <1>1, <1>2, <1>3, TellsSelection
<1>7. SourcesInv'
  BY <1>1, <1>2, <1>3, <1>4, TellsSources
<1>8. OwnerInv'
  BY <1>1, <1>2, <1>3, <1>4, TellsOwner
<1> QED BY <1>5, <1>6, <1>7, <1>8 DEF SyncInv

\* The worker takes an event.
LEMMA DispatchTakes ==
  ASSUME TypeOK, Dispatch, NEW e, e = Head(toWorker)
  PROVE  /\ running /\ running' = running
         /\ toWorker \in Seq(Message(EventType)) /\ toWorker # <<>> /\ toWorker' = Tail(toWorker)
         /\ e.type \in EventType /\ e.id \in Nat
         /\ e \in Messages(toWorker) /\ Messages(toWorker') \subseteq Messages(toWorker)
         /\ UNCHANGED <<toServer, selection, lastOffer, sources>>
         /\ e.type = "DataOffer" => DataOffer(e)
         /\ e.type = "Selection" => SelectionEvent(e)
         /\ e.type = "PrimarySelection" => PrimarySelection(e)
         /\ e.type = "Finished" => Finished(e)
         /\ e.type = "Send" => Send(e)
         /\ e.type = "Cancelled" => Cancelled(e)
<1>1. /\ running /\ toWorker # <<>> /\ toWorker' = Tail(toWorker)
      /\ toWorker \in Seq(Message(EventType)) /\ UNCHANGED <<toServer, selection, lastOffer>>
  BY DEF Dispatch, TypeOK, WireType, compositor
<1>2. e \in Message(EventType)
  BY <1>1
<1>3. e.type \in EventType /\ e.id \in Nat
  BY <1>2 DEF Message
<1>4. /\ e.type = "DataOffer" => DataOffer(e)
      /\ e.type = "Selection" => SelectionEvent(e)
      /\ e.type = "PrimarySelection" => PrimarySelection(e)
      /\ e.type = "Finished" => Finished(e)
      /\ e.type = "Send" => Send(e)
      /\ e.type = "Cancelled" => Cancelled(e)
  BY DEF Dispatch
<1>5. running' = running /\ sources' = sources
  BY <1>3, <1>4 DEF EventType, DataOffer, SelectionEvent, PrimarySelection, Finished, Send,
     Cancelled, loop, data
<1>6. e \in Messages(toWorker) /\ Messages(toWorker') \subseteq Messages(toWorker)
  BY <1>1, TailMessages
<1> QED BY <1>1, <1>3, <1>4, <1>5, <1>6

LEMMA DispatchOffers == ASSUME TypeOK, OffersInv, Dispatch PROVE OffersInv'
<1> DEFINE e == Head(toWorker)
<1>1. /\ toWorker \in Seq(Message(EventType)) /\ toWorker # <<>> /\ toWorker' = Tail(toWorker)
      /\ e.type \in EventType
      /\ e \in Messages(toWorker) /\ Messages(toWorker') \subseteq Messages(toWorker)
      /\ selection' = selection /\ lastOffer' = lastOffer
  BY DispatchTakes
<1>2. /\ Paired(toWorker')
      /\ DOMAIN offers = IF Designates(e) THEN {e.id} ELSE {}
      /\ Designated(toWorker') = IF e.type = "DataOffer" THEN {e.id} ELSE {}
  BY <1>1, PairedTail DEF OffersInv
<1> HIDE DEF e
<1>3. /\ DOMAIN offers' = Designated(toWorker')
      /\ \A o \in DOMAIN offers' :
           o \in 1 .. lastOffer /\ (o = selection.offer => offers'[o] = selection.mimes)
  <2>1. CASE e.type = "DataOffer"
    <3>1. offers' = Remembered(offers, e.id, e.mimes)
      BY <2>1, DispatchTakes DEF DataOffer, e
    <3>2. DOMAIN offers = {}
      BY <1>2, <2>1 DEF Designates
    <3>3. DOMAIN offers' = {e.id} /\ offers'[e.id] = e.mimes
      BY <3>1, <3>2 DEF Remembered
    <3> QED BY <1>1, <1>2, <2>1, <3>3 DEF OffersInv
  <2>2. CASE e.type \in {"Selection", "PrimarySelection"}
    <3>1. \/ offers' = Forgotten(Forgotten(offers, current), e.id)
          \/ offers' = Forgotten(offers, e.id)
      BY <2>2, DispatchTakes DEF SelectionEvent, PrimarySelection, e
    <3>2. DOMAIN offers \subseteq {e.id}
      BY <1>2
    <3>3. DOMAIN offers' = {}
      BY <3>1, <3>2 DEF Forgotten
    <3> QED BY <1>2, <2>2, <3>3
  <2>3. CASE e.type \in {"Finished", "Send", "Cancelled"}
    <3>1. offers' = offers
      BY <2>3, DispatchTakes DEF Finished, Send, Cancelled, data, e
    <3>2. DOMAIN offers = {}
      BY <1>2, <2>3 DEF Designates
    <3> QED BY <1>2, <2>3, <3>1, <3>2
  <2> QED BY <1>1, <2>1, <2>2, <2>3 DEF EventType
<1> QED BY <1>1, <1>2, <1>3 DEF OffersInv

LEMMA DispatchSelection ==
  ASSUME TypeOK, OffersInv, SelectionInv, Dispatch PROVE SelectionInv'
<1> DEFINE e == Head(toWorker)
<1>1. /\ toWorker \in Seq(Message(EventType)) /\ toWorker # <<>> /\ toWorker' = Tail(toWorker)
      /\ e.type \in EventType /\ e.id \in Nat
      /\ selection' = selection /\ lastOffer' = lastOffer
  BY DispatchTakes
<1>2. /\ Has(toWorker, "Selection") <=> e.type = "Selection" \/ Has(toWorker', "Selection")
      /\ Last(toWorker, "Selection", selection.offer) =>
           /\ Has(toWorker', "Selection") => Last(toWorker', "Selection", selection.offer)
           /\ ~Has(toWorker', "Selection") => e.id = selection.offer
  BY <1>1, TailMessages, LastTail
<1>3. DOMAIN offers = IF Designates(e) THEN {e.id} ELSE {}
  BY <1>1, PairedTail DEF OffersInv
<1> HIDE DEF e
<1>4. IF Has(toWorker', "Selection") THEN Last(toWorker', "Selection", selection.offer)
      ELSE ~defunct' => current' = selection.offer /\ mimes' = selection.mimes
  <2>1. CASE e.type = "Selection"
    <3> DEFINE M == IF e.id \in DOMAIN offers THEN offers[e.id] ELSE {}
    <3>1. current' = e.id /\ mimes' = M
      BY <2>1, DispatchTakes DEF SelectionEvent, e
    <3>2. e.id = selection.offer => M = selection.mimes
      <4>1. CASE e.id = 0
        BY <1>3, <4>1 DEF SelectionInv, Designates
      <4>2. CASE e.id # 0
        BY <1>3, <2>1, <4>2 DEF OffersInv, Designates
      <4> QED BY <4>1, <4>2
    <3> HIDE DEF M
    <3> QED BY <1>2, <2>1, <3>1, <3>2 DEF SelectionInv
  <2>2. CASE e.type = "Finished"
    <3>1. defunct'
      BY <2>2, DispatchTakes DEF Finished, e
    <3> QED BY <1>2, <2>2, <3>1 DEF SelectionInv
  <2>3. CASE e.type \in {"DataOffer", "PrimarySelection", "Send", "Cancelled"}
    <3>1. current' = current /\ mimes' = mimes /\ defunct' = defunct
      BY <2>3, DispatchTakes DEF DataOffer, PrimarySelection, Send, Cancelled, data, loop, e
    <3> QED BY <1>2, <2>3, <3>1 DEF SelectionInv
  <2> QED BY <1>1, <2>1, <2>2, <2>3 DEF EventType
<1> QED BY <1>1, <1>4 DEF SelectionInv

LEMMA DispatchSources == ASSUME TypeOK, SourcesInv, Dispatch PROVE SourcesInv'
<1>1. /\ Messages(toWorker') \subseteq Messages(toWorker)
      /\ UNCHANGED <<toServer, selection, sources>>
  BY DispatchTakes
<1> QED BY <1>1 DEF SourcesInv

LEMMA DispatchOwner ==
  ASSUME TypeOK, SourcesInv, OwnerInv, Dispatch PROVE OwnerInv'
<1> DEFINE e == Head(toWorker)
<1>1. /\ toWorker \in Seq(Message(EventType)) /\ toWorker # <<>> /\ toWorker' = Tail(toWorker)
      /\ e.type \in EventType /\ e \in Messages(toWorker)
      /\ toServer' = toServer /\ selection' = selection /\ sources' = sources
  BY DispatchTakes
<1>2. /\ Messages(toWorker) = {e} \cup Messages(toWorker')
      /\ Has(toWorker, "Selection") /\ e.type # "Selection" => Has(toWorker', "Selection")
  BY <1>1, TailMessages
<1>3. Owning /\ SourceTold /\ StateTold
  BY DEF OwnerInv
<1> HIDE DEF e
<1>4. CASE e.type = "Cancelled" /\ e.id = ownSource
  <2>1. ownSource' = 0 /\ isOwner' = FALSE /\ owner' = State(mimes, FALSE) /\ mimes' = mimes
    BY <1>4, DispatchTakes DEF Cancelled, IsOwnSource, Notify, e
  <2>2. ownSource # 0
    BY <1>1, <1>4 DEF SourcesInv
  <2>3. ~Has(toServer, "set_selection")
    <3>1. SUFFICES ASSUME Has(toServer, "set_selection") PROVE FALSE
      OBVIOUS
    <3>2. PICK i \in DOMAIN toServer : toServer[i].type = "set_selection" /\ toServer[i].id = ownSource
      BY <1>3, <3>1 DEF SourceTold, Last
    <3>3. toServer[i] \in Messages(toServer) /\ Sets(toServer[i])
      BY <2>2, <3>2 DEF Messages, Sets
    <3>4. ownSource < ownSource
      BY <1>1, <1>4, <3>2, <3>3 DEF SourcesInv
    <3> QED BY <3>4 DEF TypeOK, WorkerType
  <2>4. selection.by # "session"
    <3>1. SUFFICES ASSUME selection.by = "session" PROVE FALSE
      OBVIOUS
    <3>2. ownSource = selection.source
      BY <1>3, <2>3, <3>1 DEF SourceTold
    <3>3. ownSource < ownSource
      BY <1>1, <1>4, <3>1, <3>2 DEF SourcesInv
    <3> QED BY <3>3 DEF TypeOK, WorkerType
  <2>5. Owning'
    <3>1. 0 <= sources
      BY DEF TypeOK, WorkerType
    <3>2. ~isOwner'
      BY <2>1, Zenon
    <3>3. ownSource' <= sources'
      BY <1>1, <2>1, <3>1
    <3> QED BY <2>1, <3>2, <3>3, Zenon DEF Owning
  <2>6. SourceTold'
    BY <1>1, <2>1, <2>3, <2>4 DEF SourceTold
  <2>7. StateTold'
    <3>1. Announcing'
      BY <2>1, Zenon DEF Announcing
    <3> QED BY <3>1 DEF StateTold
  <2> QED BY <2>5, <2>6, <2>7 DEF OwnerInv
<1>5. CASE e.type # "Cancelled" \/ e.id # ownSource
  <2>1. UNCHANGED <<ownSource, isOwner>>
    <3>1. CASE e.type = "Cancelled"
      BY <1>5, <3>1, DispatchTakes DEF Cancelled, IsOwnSource, e
    <3>2. CASE e.type # "Cancelled"
      BY <1>1, <3>2, DispatchTakes DEF EventType, DataOffer, SelectionEvent, PrimarySelection,
         Finished, Send, data, e
    <3> QED BY <3>1, <3>2
  <2>2. Owning'
    BY <1>1, <1>3, <2>1, Zenon DEF Owning
  <2>3. SourceTold'
    <3>1. \A x \in Messages(toWorker) :
            x.type = "Cancelled" /\ x.id = ownSource => x \in Messages(toWorker')
      BY <1>2, <1>5
    <3> QED BY <1>1, <1>3, <2>1, <3>1 DEF SourceTold
  <2>4. StateTold'
    <3>1. CASE e.type = "Selection"
      <4> DEFINE M == IF e.id \in DOMAIN offers THEN offers[e.id] ELSE {}
      <4>1. mimes' = M /\ owner' = State(M, isOwner)
        BY <3>1, DispatchTakes DEF SelectionEvent, Notify, e
      <4> HIDE DEF M
      <4>2. Announcing'
        BY <2>1, <4>1, Zenon DEF Announcing
      <4> QED BY <4>2 DEF StateTold
    <3>2. CASE e.type = "Finished"
      <4>1. defunct'
        BY <3>2, DispatchTakes DEF Finished, e
      <4> QED BY <4>1 DEF StateTold
    <3>3. CASE e.type \in {"DataOffer", "PrimarySelection", "Send"}
      <4>1. UNCHANGED <<mimes, owner, defunct>>
        BY <3>3, DispatchTakes DEF DataOffer, PrimarySelection, Send, data, watch, loop, e
      <4>2. (Announcing' <=> Announcing) /\ (Cleared' <=> Cleared)
        BY <2>1, <4>1, Zenon DEF Announcing, Cleared
      <4> QED BY <1>1, <1>2, <1>3, <2>1, <3>3, <4>1, <4>2 DEF StateTold
    <3>4. CASE e.type = "Cancelled"
      <4>1. UNCHANGED <<mimes, owner, defunct>>
        BY <1>5, <3>4, DispatchTakes DEF Cancelled, IsOwnSource, watch, loop, e
      <4>2. (Announcing' <=> Announcing) /\ (Cleared' <=> Cleared)
        BY <2>1, <4>1, Zenon DEF Announcing, Cleared
      <4> QED BY <1>1, <1>2, <1>3, <2>1, <3>4, <4>1, <4>2 DEF StateTold
    <3> QED BY <1>1, <3>1, <3>2, <3>3, <3>4 DEF EventType
  <2> QED BY <2>2, <2>3, <2>4 DEF OwnerInv
<1> QED BY <1>4, <1>5

LEMMA DispatchSync == ASSUME TypeOK, SyncInv, Dispatch PROVE SyncInv'
<1>1. OffersInv /\ SelectionInv /\ SourcesInv /\ OwnerInv
  BY DispatchTakes DEF SyncInv
<1> QED BY <1>1, DispatchOffers, DispatchSelection, DispatchSources, DispatchOwner DEF SyncInv

\* The worker carries out a request.
LEMMA SyncFrame ==
  ASSUME SyncInv, UNCHANGED <<data, wire, owner, compositor>>, running' => running,
         defunct => defunct'
  PROVE  SyncInv'
<1>1. SUFFICES ASSUME running' PROVE (OffersInv /\ SelectionInv /\ SourcesInv /\ OwnerInv)'
  BY DEF SyncInv
<1>2. OffersInv /\ SelectionInv /\ SourcesInv /\ OwnerInv
  BY <1>1 DEF SyncInv
<1>3. UNCHANGED <<offers, current, mimes, ownSource, isOwner, sources, toServer, toWorker,
                  owner, selection, lastOffer>>
  BY DEF data, wire, compositor
<1>4. OffersInv' /\ SourcesInv'
  BY <1>2, <1>3 DEF OffersInv, SourcesInv
<1>5. SelectionInv'
  BY <1>2, <1>3 DEF SelectionInv
<1>6. Owning'
  BY <1>2, <1>3, Zenon DEF OwnerInv, Owning
<1>7. (Announcing' <=> Announcing) /\ (Cleared' <=> Cleared)
  BY <1>3, Zenon DEF Announcing, Cleared
<1>8. SourceTold'
  BY <1>2, <1>3 DEF OwnerInv, SourceTold
<1>9. StateTold'
  BY <1>2, <1>3, <1>7 DEF OwnerInv, StateTold
<1> QED BY <1>4, <1>5, <1>6, <1>8, <1>9 DEF OwnerInv

LEMMA SetSelectionSync ==
  ASSUME TypeOK, SyncInv, running, NEW r \in Requested, SetSelection(r),
         UNCHANGED <<running, toWorker, compositor>>, defunct => defunct'
  PROVE  SyncInv'
<1> DEFINE c == Command("set_selection", ownSource', r.mimes)
<1>1. OffersInv /\ SelectionInv /\ SourcesInv /\ Owning
  BY DEF SyncInv, OwnerInv
<1>2. UNCHANGED <<offers, current, mimes, toWorker, selection, lastOffer>>
  BY DEF SetSelection, compositor
<1>3. ownSource \in Nat /\ sources \in Nat /\ toServer \in Seq(Message(CommandType))
  BY DEF TypeOK, WorkerType, WireType
<1>4. \/ /\ ownSource' = 0 /\ isOwner' = FALSE /\ sources' = sources
         /\ owner' = State({}, FALSE)
      \/ /\ ownSource' = sources + 1 /\ isOwner' = TRUE /\ sources' = sources + 1
  BY DEF SetSelection, Notify
<1>5. /\ ownSource' \in Nat /\ sources' \in Nat /\ sources <= sources' /\ ownSource' <= sources'
      /\ ownSource' = 0 \/ sources < ownSource'
      /\ 1 .. sources \subseteq 1 .. sources'
  <2>1. \/ ownSource' = 0 /\ sources' = sources
        \/ ownSource' = sources + 1 /\ sources' = sources + 1
    BY <1>4, Zenon
  <2> QED BY <1>3, <2>1
<1>6. toServer' = Append(toServer, c)
  BY DEF SetSelection
<1>7. c \in Message(CommandType) /\ c.type = "set_selection" /\ c.id = ownSource'
  BY <1>5 DEF Command, Message, CommandType, Requested
<1> HIDE DEF c
<1>8. /\ Messages(toServer') = Messages(toServer) \cup {c}
      /\ Has(toServer', "set_selection")
  BY <1>3, <1>6, <1>7, AppendMessages
<1>9. OffersInv' /\ SelectionInv'
  BY <1>1, <1>2 DEF OffersInv, SelectionInv
<1>10. \A x \in Messages(toServer) : x.type = "set_selection" => x.id \in Nat /\ x.id <= sources
  BY <1>1, <1>3, MessagesType DEF SourcesInv, Message
<1>11. SourcesInv'
  <2>1. c.type = "set_selection" /\ c.id # 0 =>
          \A x \in Messages(toServer) : x.type = "set_selection" => x.id < c.id
    BY <1>3, <1>5, <1>7, <1>10
  <2>2. Ascending(toServer')
    BY <1>1, <1>3, <1>6, <1>7, <2>1, AscendingAppend DEF SourcesInv
  <2>3. \A x \in Messages(toServer') : x.type = "set_selection" => x.id <= sources'
    BY <1>3, <1>5, <1>7, <1>8, <1>10
  <2>4. \A n \in 1 .. sources : Sets(c) => n < c.id
    BY <1>3, <1>5, <1>7 DEF Sets
  <2> QED BY <1>1, <1>2, <1>5, <1>8, <2>2, <2>3, <2>4 DEF SourcesInv
<1>12. Owning'
  <2>1. CASE ownSource' = 0 /\ isOwner' = FALSE
    BY <1>5, <2>1, Zenon DEF Owning
  <2>2. CASE ownSource' = sources + 1 /\ isOwner' = TRUE
    <3>1. ownSource' # 0
      BY <1>3, <2>2
    <3> QED BY <1>5, <2>2, <3>1, Zenon DEF Owning
  <2> QED BY <1>4, <2>1, <2>2
<1>13. SourceTold'
  <2> DEFINE p == <<c>>
  <2>1. p \in Seq(Message(CommandType)) /\ DOMAIN p = {1} /\ p[1] = c
    BY <1>7
  <2>2. toServer' = toServer \o p
    BY <1>3, <1>6, <1>7, AppendIsConcat
  <2> HIDE DEF p
  <2>3. Last(p, "set_selection", ownSource')
    BY <1>7, <2>1 DEF Last
  <2>4. Last(toServer', "set_selection", ownSource')
    BY <1>3, <2>1, <2>2, <2>3, LastConcat
  <2> QED BY <1>8, <2>4 DEF SourceTold
<1>14. StateTold'
  <2>1. CASE owner' = State({}, FALSE)
    <3>1. Cleared'
      BY <2>1, Zenon DEF Cleared
    <3> QED BY <1>8, <3>1 DEF StateTold
  <2>2. CASE ownSource' = sources + 1
    <3>1. ownSource' # 0
      BY <1>3, <2>2
    <3> QED BY <1>8, <3>1 DEF StateTold
  <2> QED BY <1>4, <2>1, <2>2
<1> QED BY <1>9, <1>11, <1>12, <1>13, <1>14 DEF SyncInv, OwnerInv

\* A request to receive is no request to set the selection.
LEMMA ReadSync ==
  ASSUME TypeOK, SyncInv, running, NEW r \in Requested, Read(r),
         UNCHANGED <<running, toWorker, compositor>>, defunct => defunct'
  PROVE  SyncInv'
<1> DEFINE c == Command("receive", current, r.mimes)
<1>1. OffersInv /\ SelectionInv /\ SourcesInv /\ OwnerInv
  BY DEF SyncInv
<1>2. UNCHANGED <<offers, current, mimes, ownSource, isOwner, sources, owner, toWorker,
                  selection, lastOffer>>
  BY DEF Read, data, watch, compositor
<1>3. toServer \in Seq(Message(CommandType))
  BY DEF TypeOK, WireType
<1>4. c \in Message(CommandType) /\ c.type = "receive"
  BY DEF Command, Message, CommandType, Requested, TypeOK, WorkerType
<1>5. toServer' = toServer \/ toServer' = Append(toServer, c)
  BY DEF Read
<1> HIDE DEF c
<1>6. CASE toServer' = toServer
  <2>1. UNCHANGED <<data, wire, owner, compositor>>
    BY <1>2, <1>6 DEF data, wire, compositor
  <2> QED BY <2>1, SyncFrame
<1>7. CASE toServer' = Append(toServer, c)
  <2>1. /\ Messages(toServer') = Messages(toServer) \cup {c}
        /\ Has(toServer', "set_selection") <=> Has(toServer, "set_selection")
    BY <1>3, <1>4, <1>7, AppendMessages
  <2>2. OffersInv' /\ SelectionInv'
    BY <1>1, <1>2 DEF OffersInv, SelectionInv
  <2>3. SourcesInv'
    <3>1. Ascending(toServer')
      BY <1>1, <1>3, <1>4, <1>7, AscendingAppend DEF SourcesInv
    <3> QED BY <1>1, <1>2, <1>4, <2>1, <3>1 DEF SourcesInv, Sets
  <2>4. Owning'
    BY <1>1, <1>2, Zenon DEF OwnerInv, Owning
  <2>5. SourceTold'
    <3> DEFINE p == <<c>>
    <3>1. p \in Seq(Message(CommandType)) /\ DOMAIN p = {1} /\ p[1] = c
      BY <1>4
    <3>2. toServer' = toServer \o p
      BY <1>3, <1>4, <1>7, AppendIsConcat
    <3> HIDE DEF p
    <3>3. ~Has(p, "set_selection")
      BY <1>4, <3>1 DEF Has, Messages
    <3>4. Last(toServer, "set_selection", ownSource) => Last(toServer', "set_selection", ownSource)
      BY <1>3, <3>1, <3>2, <3>3, LastConcat
    <3> QED BY <1>1, <1>2, <2>1, <3>4 DEF OwnerInv, SourceTold
  <2>6. (Announcing' <=> Announcing) /\ (Cleared' <=> Cleared)
    BY <1>2, Zenon DEF Announcing, Cleared
  <2>7. StateTold'
    BY <1>1, <1>2, <2>1, <2>6 DEF OwnerInv, StateTold
  <2> QED BY <2>2, <2>3, <2>4, <2>5, <2>7 DEF SyncInv, OwnerInv
<1> QED BY <1>5, <1>6, <1>7

LEMMA HandleRequestSync == ASSUME TypeOK, SyncInv, HandleRequest PROVE SyncInv'
<1> DEFINE r == Head(handling)
<1>1. /\ handling # <<>> /\ UNCHANGED <<running, toWorker, compositor>>
      /\ defunct => defunct'
  BY DEF HandleRequest
<1>2. running /\ r \in Requested
  BY <1>1 DEF TypeOK, WorkerType
<1>3. r.op \in Operation \cup {"Stop"}
  BY <1>2 DEF Requested
<1> HIDE DEF r
<1>4. CASE r.op = "SetSelection"
  <2>1. SetSelection(r)
    BY <1>4 DEF HandleRequest, CarryOut, r
  <2> QED BY <1>1, <1>2, <2>1, SetSelectionSync
<1>5. CASE r.op = "Read"
  <2>1. Read(r)
    BY <1>5 DEF HandleRequest, CarryOut, r
  <2> QED BY <1>1, <1>2, <2>1, ReadSync
<1>6. CASE r.op \in {"Write", "WriteDone", "Stop"}
  <2>1. UNCHANGED <<data, watch, toServer>>
    BY <1>6 DEF HandleRequest, CarryOut, Write, WriteDone, r
  <2>2. UNCHANGED <<data, wire, owner, compositor>>
    BY <1>1, <2>1 DEF wire, watch
  <2> QED BY <1>1, <2>2, SyncFrame
<1> QED BY <1>3, <1>4, <1>5, <1>6 DEF Operation

LEMMA NextSync == ASSUME TypeOK, SyncInv, [Next]_vars PROVE SyncInv'
<1>1. CASE CallMethod \/ TrySend \/ ReplyTimeout \/ BeginRemove
  BY <1>1, SyncFrame DEF CallMethod, Arrive, TrySend, ReplyTimeout, BeginRemove, loop, watch
<1>2. CASE RemoveClipboard \/ SpawnForwarder
  BY <1>2, SyncFrame DEF RemoveClipboard, SpawnForwarder, loop, watch
<1>3. CASE Forwarder
  BY <1>3, SyncFrame DEF Forwarder, CheckExit, ForwardOwner, ForwardTransfer, EndForwarding,
     loop, watch
<1>4. CASE Dispatch
  BY <1>4, DispatchSync
<1>5. CASE HandleRequest
  BY <1>5, HandleRequestSync
<1>6. CASE TakeRequest \/ Tick
  <2>1. UNCHANGED <<data, wire, owner, compositor, running, defunct>>
    BY <1>6 DEF TakeRequest, Tick, watch
  <2> QED BY <2>1, SyncFrame
<1>7. CASE Exit
  BY <1>7 DEF Exit, SyncInv
<1>8. CASE Compositor
  <2>1. CASE running
    BY <1>8, <2>1, CompositorSync
  <2>2. CASE ~running
    BY <1>8, <2>2 DEF Compositor, loop, SyncInv
  <2> QED BY <2>1, <2>2
<1>9. CASE UNCHANGED vars
  BY <1>9, SyncFrame DEF vars, loop, watch
<1> QED BY <1>1, <1>2, <1>3, <1>4, <1>5, <1>6, <1>7, <1>8, <1>9 DEF Next, Worker

LEMMA NothingInTransit ==
  /\ \A ty : ~Has(<<>>, ty)
  /\ Messages(<<>>) = {} /\ Paired(<<>>) /\ Designated(<<>>) = {} /\ Ascending(<<>>)
<1>1. DOMAIN <<>> = {}
  OBVIOUS
<1> QED BY <1>1, NoMessages DEF Paired, Designated, Ascending

LEMMA InitSync == Init => SyncInv
<1>1. SUFFICES ASSUME Init PROVE OffersInv /\ SelectionInv /\ SourcesInv /\ OwnerInv
  BY DEF SyncInv
<1>2. /\ toWorker = <<>> /\ toServer = <<>> /\ ownSource = 0 /\ sources = 0
      /\ offers = <<>> /\ current = selection.offer /\ lastOffer = selection.offer
  BY <1>1 DEF Init
<1>3. isOwner = FALSE
  BY <1>1 DEF Init
<1>4. \E M \in SUBSET Mime :
         /\ selection = IF M = {} THEN Nobody ELSE [Other(M) EXCEPT !.offer = 1]
         /\ mimes = M
  BY <1>1 DEF Init
<1>5. /\ selection.by # "session" /\ selection.offer \in {0, 1}
      /\ selection.offer = 0 <=> selection.by = "nobody"
      /\ selection.by = "nobody" => selection.mimes = {}
      /\ mimes = selection.mimes
  BY <1>4 DEF Nobody, Other
<1>6. OffersInv
  <2>1. DOMAIN offers = {}
    BY <1>2
  <2> QED BY <1>2, <2>1, NothingInTransit DEF OffersInv
<1>7. SelectionInv
  BY <1>2, <1>5, NothingInTransit DEF SelectionInv
<1>8. SourcesInv
  BY <1>2, <1>5, NothingInTransit DEF SourcesInv
<1>9. Owning
  <2>1. ownSource <= sources
    BY <1>2
  <2> QED BY <1>2, <1>3, <2>1, Zenon DEF Owning
<1>10. SourceTold
  BY <1>2, <1>5, NothingInTransit DEF SourceTold
<1>11. Announcing
  BY <1>1, Zenon DEF Init, Announcing
<1> QED BY <1>6, <1>7, <1>8, <1>9, <1>10, <1>11 DEF OwnerInv, StateTold

LEMMA SyncAgrees == ASSUME TypeOK, SyncInv PROVE OwnerAgrees
<1>1. SUFFICES ASSUME Quiet
               PROVE  /\ isOwner <=> selection.by = "session"
                      /\ isOwner => ownSource = selection.source
                      /\ mimes = selection.mimes /\ current = selection.offer
                      /\ owner = State(mimes, isOwner)
                      /\ DOMAIN offers = {}
  BY DEF OwnerAgrees
<1>2. /\ running /\ ~defunct /\ toServer = <<>> /\ toWorker = <<>>
      /\ OffersInv /\ SelectionInv /\ SourcesInv /\ OwnerInv
  BY <1>1 DEF Quiet, SyncInv
<1>3. ~Has(toWorker, "Selection") /\ ~Has(toServer, "set_selection") /\ Messages(toWorker) = {}
  BY <1>2, NothingInTransit
<1>4. DOMAIN offers = {}
  BY <1>2, NothingInTransit DEF OffersInv
<1>5. current = selection.offer /\ mimes = selection.mimes
  BY <1>2, <1>3 DEF SelectionInv
<1>6. owner = State(mimes, isOwner)
  <2>1. Announcing
    BY <1>2, <1>3 DEF OwnerInv, StateTold
  <2> QED BY <2>1, Zenon DEF Announcing
<1>7. IF selection.by = "session" THEN ownSource = selection.source ELSE ownSource = 0
  BY <1>2, <1>3 DEF OwnerInv, SourceTold
<1>8. selection.by = "session" <=> ownSource # 0
  <2>1. selection.by = "session" => selection.source # 0
    BY <1>2 DEF SourcesInv, TypeOK, WorkerType
  <2> QED BY <1>7, <2>1
<1>9. isOwner <=> ownSource # 0
  BY <1>2, Zenon DEF OwnerInv, Owning
<1>10. isOwner <=> selection.by = "session"
  BY <1>8, <1>9, Zenon
<1>11. isOwner => ownSource = selection.source
  BY <1>7, <1>10, Zenon
<1> QED BY <1>4, <1>5, <1>6, <1>10, <1>11, Zenon

\* Whoever sets the selection and whatever crosses on the wire, when nothing is
\* in transit the worker knows the owner of the clipboard and what it holds,
\* has announced just that, and keeps no offer it will not use.
THEOREM OwnerIsKnown == Spec => []OwnerAgrees
<1>1. Init => SyncInv
  BY InitSync
<1>2. TypeOK /\ SyncInv /\ [Next]_vars => SyncInv'
  BY NextSync
<1>3. TypeOK /\ SyncInv => OwnerAgrees
  BY SyncAgrees
<1> QED BY <1>1, <1>2, <1>3, TypeCorrect, PTL DEF Spec

=============================================================================
