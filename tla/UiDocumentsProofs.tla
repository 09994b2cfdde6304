-------------------------- MODULE UiDocumentsProofs --------------------------
(***************************************************************************)
(* Proofs about UiDocuments, for any documents, panes, slots, fillings and *)
(* queues.  UiInv is inductive.  It falls into three parts, which the      *)
(* steps preserve for different reasons: what scripts and stack agree on   *)
(* over the queues, the contents, and the gestures.                        *)
(***************************************************************************)
EXTENDS UiDocuments, TLAPS

Drag == [at : Place \cup {Nowhere}, active : BOOLEAN]
Menu == [at : Place \cup {Nowhere}, actions : ActionLists]
Split == [at : Place \cup {Nowhere}, amount : Nat, max : Nat]

StackInv ==
  /\ ready \in BOOLEAN /\ lost \in BOOLEAN
  /\ believed \in SUBSET Docs
  /\ stack \in Seq(Docs) /\ IsInjective(stack)
  /\ up \in Seq(UpMessage)
  /\ down \in Seq(DownMessage)
  /\ BelievedIsTold

ContentInv ==
  /\ content = [d \in Docs |-> content[d]]
  /\ \A d \in Docs : IsContent(content[d])

GestureInv ==
  /\ drag \in Drag /\ menu \in Menu /\ split \in Split
  /\ suppress \in BOOLEAN /\ press \in {"up", "down", "drag"}
  /\ GesturesAreOnScreen /\ OneGesturePerDocument /\ SplitAmountBounded

\* The three parts are the invariant.
LEMMA InvParts == UiInv <=> StackInv /\ ContentInv /\ GestureInv
  BY DEF UiInv, TypeOK, StackInv, ContentInv, GestureInv, Drag, Menu, Split

\* ... in the next state as well.
LEMMA InvPartsNext == UiInv' <=> StackInv' /\ ContentInv' /\ GestureInv'
  BY DEF UiInv, TypeOK, StackInv, ContentInv, GestureInv, Drag, Menu, Split

-----------------------------------------------------------------------------
(* Sequences. *)

\* Taking the first message moves the others up by one.
LEMMA TailElements ==
  ASSUME NEW S, NEW q \in Seq(S), q # <<>>
  PROVE  /\ Tail(q) \in Seq(S)
         /\ \A i \in DOMAIN Tail(q) : i \in Nat /\ i + 1 \in DOMAIN q /\ Tail(q)[i] = q[i + 1]
         /\ \A i \in DOMAIN q : i \in Nat /\ (i # 1 => i - 1 \in DOMAIN Tail(q) /\ Tail(q)[i - 1] = q[i])
         /\ Head(q) = q[1] /\ Head(q) \in S /\ 1 \in DOMAIN q
  OBVIOUS

\* A message is put behind the others.
LEMMA AppendElements ==
  ASSUME NEW S, NEW q \in Seq(S), NEW m \in S
  PROVE  /\ Append(q, m) \in Seq(S)
         /\ \E n \in Nat : /\ DOMAIN Append(q, m) = DOMAIN q \cup {n} /\ Append(q, m)[n] = m
                         /\ \A i \in DOMAIN q : i \in Nat /\ i < n /\ Append(q, m)[i] = q[i]
<1>1. /\ DOMAIN Append(q, m) = DOMAIN q \cup {Len(q) + 1} /\ Append(q, m)[Len(q) + 1] = m
      /\ \A i \in DOMAIN q : i \in Nat /\ i < Len(q) + 1 /\ Append(q, m)[i] = q[i]
  OBVIOUS
<1> QED
  BY <1>1

\* What is without the element at an index.
LEMMA RemoveElements ==
  ASSUME NEW S, NEW q \in Seq(S), NEW k \in DOMAIN q
  PROVE  /\ RemoveAt(q, k) \in Seq(S)
         /\ Len(RemoveAt(q, k)) = Len(q) - 1
         /\ \A i \in 1..(Len(q) - 1) : RemoveAt(q, k)[i] = IF i < k THEN q[i] ELSE q[i + 1]
<1>1. k \in 1..Len(q) /\ Len(q) \in Nat
  OBVIOUS
<1>2. /\ SubSeq(q, 1, k - 1) \in Seq(S) /\ Len(SubSeq(q, 1, k - 1)) = k - 1
      /\ \A i \in 1..(k - 1) : SubSeq(q, 1, k - 1)[i] = q[i]
  BY <1>1
<1>3. /\ SubSeq(q, k + 1, Len(q)) \in Seq(S) /\ Len(SubSeq(q, k + 1, Len(q))) = Len(q) - k
      /\ \A i \in 1..(Len(q) - k) : SubSeq(q, k + 1, Len(q))[i] = q[k + i]
  BY <1>1
<1> DEFINE a == SubSeq(q, 1, k - 1)
           b == SubSeq(q, k + 1, Len(q))
<1>4. RemoveAt(q, k) = a \o b
  BY DEF RemoveAt
<1> HIDE DEF a, b
<1>5. a \in Seq(S) /\ b \in Seq(S) /\ Len(a) = k - 1 /\ Len(b) = Len(q) - k
  BY <1>2, <1>3 DEF a, b
<1>6. /\ a \o b \in Seq(S) /\ Len(a \o b) = Len(q) - 1
      /\ \A i \in 1..(Len(q) - 1) : (a \o b)[i] = IF i < k THEN a[i] ELSE b[i - (k - 1)]
  BY <1>1, <1>5
<1>7. \A i \in 1..(Len(q) - 1) : (a \o b)[i] = IF i < k THEN q[i] ELSE q[i + 1]
  <2> TAKE i \in 1..(Len(q) - 1)
  <2>1. CASE i < k
    <3>1. i \in 1..(k - 1)
      BY <1>1, <2>1
    <3> QED
      BY <1>2, <1>6, <2>1, <3>1 DEF a
  <2>2. CASE ~(i < k)
    <3>1. i - (k - 1) \in 1..(Len(q) - k) /\ k + (i - (k - 1)) = i + 1
      BY <1>1, <2>2
    <3>2. b[i - (k - 1)] = q[k + (i - (k - 1))]
      BY <1>3, <3>1 DEF b
    <3> QED
      BY <1>6, <2>2, <3>1, <3>2
  <2> QED
    BY <2>1, <2>2
<1> QED
  BY <1>4, <1>6, <1>7

\* The stack without a document: once there, it is gone, and nothing else is.
LEMMA WithoutDocument ==
  ASSUME stack \in Seq(Docs), IsInjective(stack), NEW d
  PROVE  /\ Without(d) \in Seq(Docs) /\ IsInjective(Without(d))
         /\ Range(Without(d)) = Range(stack) \ {d}
<1>1. CASE ~IsOpen(d)
  BY <1>1 DEF Without, IsOpen
<1>2. CASE IsOpen(d)
  <2> DEFINE k == Index(d)
             w == Without(d)
  <2>1. k \in DOMAIN stack /\ stack[k] = d
    BY <1>2 DEF IsOpen, Index, Range
  <2>2. w = RemoveAt(stack, k)
    BY <1>2 DEF Without
  <2> HIDE DEF k, w
  <2>3. /\ w \in Seq(Docs) /\ Len(w) = Len(stack) - 1
        /\ \A i \in 1..(Len(stack) - 1) : w[i] = IF i < k THEN stack[i] ELSE stack[i + 1]
    BY <2>1, <2>2, RemoveElements
  <2>4. /\ DOMAIN w = 1..(Len(stack) - 1) /\ DOMAIN stack = 1..Len(stack) /\ Len(stack) \in Nat
        /\ k \in 1..Len(stack)
    BY <2>1, <2>3
  <2>5. ASSUME NEW i \in DOMAIN w
        PROVE  w[i] \in Range(stack) \ {d}
    <3>1. i \in DOMAIN stack /\ i + 1 \in DOMAIN stack
      BY <2>4
    <3>2. w[i] # d
      BY <2>1, <2>3, <2>4, <3>1 DEF IsInjective
    <3> QED
      BY <2>3, <2>4, <3>1, <3>2 DEF Range
  <2>6. ASSUME NEW i \in DOMAIN stack, stack[i] # d
        PROVE  \E j \in DOMAIN w : w[j] = stack[i]
    <3>1. CASE i < k
      BY <2>3, <2>4, <3>1
    <3>2. CASE i > k
      <4>1. i - 1 \in 1..(Len(stack) - 1) /\ ~(i - 1 < k) /\ (i - 1) + 1 = i
        BY <2>4, <3>2
      <4> QED
        BY <2>3, <2>4, <4>1
    <3> QED
      BY <2>1, <2>4, <2>6, <3>1, <3>2
  <2>7. IsInjective(w)
    <3> SUFFICES ASSUME NEW i \in DOMAIN w, NEW j \in DOMAIN w, w[i] = w[j] PROVE i = j
      BY DEF IsInjective
    <3>1. {i, i + 1, j, j + 1} \subseteq DOMAIN stack
      BY <2>4
    <3> QED
      BY <2>3, <2>4, <3>1 DEF IsInjective
  <2>8. Range(w) = Range(stack) \ {d}
    BY <2>5, <2>6 DEF Range
  <2> QED
    BY <2>3, <2>7, <2>8 DEF w
<1> QED
  BY <1>1, <1>2

\* With the document on top again.
LEMMA DocumentOnTop ==
  ASSUME stack \in Seq(Docs), IsInjective(stack), NEW d \in Docs
  PROVE  LET s == Append(Without(d), d)
         IN s \in Seq(Docs) /\ IsInjective(s) /\ Range(s) = Range(stack) \cup {d}
<1> DEFINE w == Without(d)
<1>1. w \in Seq(Docs) /\ IsInjective(w) /\ Range(w) = Range(stack) \ {d}
  BY WithoutDocument
<1> HIDE DEF w
<1>2. /\ Append(w, d) \in Seq(Docs) /\ DOMAIN Append(w, d) = DOMAIN w \cup {Len(w) + 1}
      /\ Append(w, d)[Len(w) + 1] = d /\ \A i \in DOMAIN w : Append(w, d)[i] = w[i]
  BY <1>1
<1>3. Range(Append(w, d)) = Range(stack) \cup {d}
  <2>1. \A e \in Range(Append(w, d)) : e \in Range(w) \cup {d}
    BY <1>2 DEF Range
  <2>2. \A e \in Range(w) \cup {d} : \E i \in DOMAIN Append(w, d) : Append(w, d)[i] = e
    BY <1>2 DEF Range
  <2>3. \A e \in Range(w) \cup {d} : e \in Range(Append(w, d))
    BY <2>2 DEF Range
  <2> QED
    BY <1>1, <2>1, <2>3
<1>4. IsInjective(Append(w, d))
  <2>1. \A i \in DOMAIN w : w[i] # d
    BY <1>1 DEF Range
  <2> QED
    BY <1>1, <1>2, <2>1 DEF IsInjective
<1> QED
  BY <1>2, <1>3, <1>4 DEF w

-----------------------------------------------------------------------------
(* Stack, queues and what scripts believe. *)

\* A message is sent: what it opens is to be opened, what it does not close stays
\* as it is.
LEMMA SendStep ==
  ASSUME StackInv, NEW m \in DownMessage, Send(m), UNCHANGED <<ready, stack, up, lost>>,
         believed' \in SUBSET Docs,
         \A d \in believed' : Opens(m, d) \/ (d \in believed /\ ~Closes(m, d))
  PROVE  StackInv'
<1>1. /\ down \in Seq(DownMessage) /\ down' = Append(down, m)
  BY DEF StackInv, Send
<1>2. down' \in Seq(DownMessage)
  BY <1>1, AppendElements
<1>3. PICK n \in Nat : /\ DOMAIN down' = DOMAIN down \cup {n} /\ down'[n] = m
                      /\ \A i \in DOMAIN down : i \in Nat /\ i < n /\ down'[i] = down[i]
  BY <1>1, AppendElements
<1>4. ASSUME ~lost, NEW d \in believed' PROVE WillOpen(d)' \/ StaysOpen(d)'
  <2>1. CASE Opens(m, d)
    <3>1. \A j \in DOMAIN down' : ~(j > n)
      BY <1>3
    <3> QED
      BY <1>3, <2>1, <3>1 DEF WillOpen, Opens
  <2>2. CASE d \in believed /\ ~Closes(m, d) /\ WillOpen(d)
    <3>1. PICK i \in DOMAIN down :
            Opens(down[i], d) /\ \A j \in DOMAIN down : j > i => ~Closes(down[j], d)
      BY <2>2 DEF WillOpen
    <3>2. i \in DOMAIN down' /\ Opens(down'[i], d)
      BY <1>3, <3>1
    <3>3. \A j \in DOMAIN down' : j > i => ~Closes(down'[j], d)
      BY <1>3, <2>2, <3>1
    <3> QED
      BY <3>2, <3>3 DEF WillOpen, Opens, Closes
  <2>3. CASE d \in believed /\ ~Closes(m, d) /\ StaysOpen(d)
    <3>1. \A j \in DOMAIN down' : ~Closes(down'[j], d)
      BY <1>3, <2>3 DEF StaysOpen
    <3> QED
      BY <2>3, <3>1 DEF StaysOpen, IsOpen, Closes
  <2> QED
    BY <1>4, <2>1, <2>2, <2>3 DEF StackInv, BelievedIsTold
<1> QED
  BY <1>2, <1>4 DEF StackInv, BelievedIsTold

\* A message is taken: what it opens is open, what it does not close stays so.
LEMMA TakeStep ==
  ASSUME StackInv, down # <<>>, down' = Tail(down), UNCHANGED <<ready, believed, up, lost>>,
         stack' \in Seq(Docs), IsInjective(stack'),
         \A d \in Docs : Opens(Head(down), d) => d \in Range(stack'),
         \A d \in Docs : IsOpen(d) /\ ~Closes(Head(down), d) => d \in Range(stack')
  PROVE  StackInv'
<1>1. /\ down' \in Seq(DownMessage)
      /\ \A i \in DOMAIN down' : i \in Nat /\ i + 1 \in DOMAIN down /\ down'[i] = down[i + 1]
      /\ \A i \in DOMAIN down :
           i \in Nat /\ (i # 1 => i - 1 \in DOMAIN down' /\ down'[i - 1] = down[i])
      /\ Head(down) = down[1] /\ 1 \in DOMAIN down
  BY TailElements DEF StackInv
<1>2. ASSUME ~lost, NEW d \in believed PROVE WillOpen(d)' \/ StaysOpen(d)'
  <2>1. d \in Docs
    BY <1>2 DEF StackInv
  <2>2. CASE WillOpen(d)
    <3>1. PICK i \in DOMAIN down :
            Opens(down[i], d) /\ \A j \in DOMAIN down : j > i => ~Closes(down[j], d)
      BY <2>2 DEF WillOpen
    <3>2. \A j \in DOMAIN down' : j + 1 > i => ~Closes(down'[j], d)
      BY <1>1, <3>1
    <3>3. CASE i = 1
      <4>1. \A j \in DOMAIN down' : j + 1 > 1
        <5>1. \A j \in DOMAIN down' : j \in DOMAIN Tail(down) /\ j \in Nat
          BY <1>1
        <5>2. \A j \in DOMAIN Tail(down) : j >= 1
          BY DEF StackInv
        <5> QED
          BY <5>1, <5>2
      <4>2. IsOpen(d)'
        BY <1>1, <2>1, <3>1, <3>3 DEF IsOpen
      <4> QED
        BY <3>2, <3>3, <4>1, <4>2 DEF StaysOpen, Closes
    <3>4. CASE i # 1
      <4>1. i - 1 \in DOMAIN down' /\ Opens(down'[i - 1], d)
        BY <1>1, <3>1, <3>4
      <4>2. \A j \in DOMAIN down' : j > i - 1 => ~Closes(down'[j], d)
        BY <1>1, <3>1, <3>2
      <4> QED
        BY <4>1, <4>2 DEF WillOpen, Opens, Closes
    <3> QED
      BY <3>3, <3>4
  <2>3. CASE StaysOpen(d)
    <3>1. ~Closes(Head(down), d) /\ \A j \in DOMAIN down' : ~Closes(down'[j], d)
      BY <1>1, <2>3 DEF StaysOpen
    <3> QED
      BY <2>1, <2>3, <3>1 DEF StaysOpen, IsOpen, Closes
  <2> QED
    BY <1>2, <2>2, <2>3 DEF StackInv, BelievedIsTold
<1> QED
  BY <1>1, <1>2 DEF StackInv, BelievedIsTold

\* Reports of anything but a closing.
LEMMA ReportStep ==
  ASSUME StackInv, UNCHANGED <<ready, believed, stack, down, lost>>,
         UNCHANGED up \/ \E m \in UpMessage : up' = Append(up, m)
  PROVE  StackInv'
<1>1. up' \in Seq(UpMessage) /\ \A i \in DOMAIN up : i \in DOMAIN up' /\ up'[i] = up[i]
  <2>1. up \in Seq(UpMessage)
    BY DEF StackInv
  <2>2. ASSUME NEW m \in UpMessage, up' = Append(up, m)
        PROVE  up' \in Seq(UpMessage) /\ \A i \in DOMAIN up : i \in DOMAIN up' /\ up'[i] = up[i]
    BY <2>1, <2>2, AppendElements
  <2> QED
    BY <2>1, <2>2
<1>2. \A d \in Docs : WillOpen(d) \/ StaysOpen(d) => WillOpen(d)' \/ StaysOpen(d)'
  BY <1>1 DEF WillOpen, StaysOpen, IsOpen, Opens, Closes
<1> QED
  BY <1>1, <1>2 DEF StackInv, BelievedIsTold

\* What is in a message of each type.
LEMMA MessageFields ==
  ASSUME NEW m \in DownMessage
  PROVE  /\ m.type \in {"clear", "workspaceClear", "setPane", "setSlot", "setActions",
                       "open", "close", "closeAll"}
         /\ m.type = "open" => m.doc \in Docs /\ m.template \in Templates
         /\ m.type \in {"clear", "workspaceClear", "setPane", "setSlot", "setActions"} => m.doc \in Docs
         /\ m.type = "setPane" => m.pane \in Panes /\ m.draggable \in BOOLEAN
         /\ m.type = "setSlot" => m.at \in Place /\ m.used \in BOOLEAN /\ m.amount \in Nat
         /\ m.type = "setActions" => m.at \in Place /\ m.actions \in ActionLists
  BY DEF DownMessage, Filling

\* What is sent is a message.
LEMMA MessagesSent ==
  /\ \A d \in Docs : \A template \in TemplatesOf[d] :
       [type |-> "open", doc |-> d, template |-> template] \in DownMessage
  /\ \A d \in Docs \cup {NoDoc} : [type |-> "close", doc |-> d] \in DownMessage
  /\ [type |-> "closeAll", doc |-> NoDoc] \in DownMessage
  /\ \A m \in Fillings :
       m \in DownMessage
       /\ m.type \in {"clear", "workspaceClear", "setPane", "setSlot", "setActions"}
<1>1. \A d \in Docs : TemplatesOf[d] \subseteq Templates
  BY UiAssumption
<1>2. \A m \in Fillings : m \in Filling
  BY UiAssumption
<1>3. \A m \in Filling : m.type \in {"clear", "workspaceClear", "setPane", "setSlot", "setActions"}
  BY DEF Filling
<1> QED
  BY <1>1, <1>2, <1>3 DEF DownMessage

LEMMA ScriptStack == StackInv /\ Script => StackInv'
<1> SUFFICES ASSUME StackInv, Script PROVE StackInv'
  OBVIOUS
<1>1. ASSUME NEW d \in Docs, NEW template \in TemplatesOf[d], OpenUi(d, template) PROVE StackInv'
  <2> DEFINE m == [type |-> "open", doc |-> d, template |-> template]
  <2>1. m \in DownMessage /\ m.type = "open" /\ m.doc = d
    BY MessagesSent
  <2>2. Send(m) /\ believed' = believed \cup {d} /\ UNCHANGED <<ready, stack, up, lost>>
    BY <1>1 DEF OpenUi, clientVars
  <2> HIDE DEF m
  <2> QED
    BY <2>1, <2>2, SendStep DEF StackInv, Opens, Closes
<1>2. ASSUME NEW d \in Docs, CloseUi(d) PROVE StackInv'
  <2> DEFINE m == [type |-> "close", doc |-> d]
  <2>1. m \in DownMessage /\ m.type = "close" /\ m.doc = d
    BY MessagesSent
  <2>2. Send(m) /\ believed' = believed \ {d} /\ UNCHANGED <<ready, stack, up, lost>>
    BY <1>2 DEF CloseUi, clientVars
  <2> HIDE DEF m
  <2> QED
    BY <2>1, <2>2, SendStep DEF StackInv, Opens, Closes
<1>3. ASSUME NEW m \in Fillings, Fill(m) PROVE StackInv'
  <2>1. m \in DownMessage /\ \A d \in believed : ~Closes(m, d)
    BY MessagesSent DEF Closes
  <2>2. Send(m) /\ believed' = believed /\ UNCHANGED <<ready, stack, up, lost>>
    BY <1>3 DEF Fill, clientVars
  <2> QED
    BY <2>1, <2>2, SendStep DEF StackInv
<1>4. CASE CloseAllUi
  <2> DEFINE m == [type |-> "closeAll", doc |-> NoDoc]
  <2>1. m \in DownMessage
    BY MessagesSent
  <2>2. Send(m) /\ believed' = {} /\ UNCHANGED <<ready, stack, up, lost>>
    BY <1>4 DEF CloseAllUi, clientVars
  <2> HIDE DEF m
  <2> QED
    BY <2>1, <2>2, SendStep
<1> QED
  BY <1>1, <1>2, <1>3, <1>4 DEF Script

LEMMA ServerStack == StackInv /\ (UiEvent \/ Ignore \/ Reset \/ PlayerJoins) => StackInv'
<1> SUFFICES ASSUME StackInv, UiEvent \/ Ignore \/ Reset \/ PlayerJoins PROVE StackInv'
  OBVIOUS
<1>1. CASE UiEvent
  <2>1. /\ up # <<>> /\ up' = Tail(up)
        /\ believed' = IF Head(up).type = "close" THEN believed \ {Head(up).doc} ELSE believed
        /\ UNCHANGED <<ready, stack, down, lost>>
    BY <1>1 DEF UiEvent, Receive, clientVars
  <2>2. /\ up' \in Seq(UpMessage)
        /\ \A i \in DOMAIN up : i # 1 => i - 1 \in DOMAIN up' /\ up'[i - 1] = up[i]
        /\ Head(up) = up[1]
    BY <2>1, TailElements DEF StackInv
  <2>3. ASSUME NEW d \in believed', WillOpen(d) \/ StaysOpen(d)
        PROVE  WillOpen(d)' \/ StaysOpen(d)'
    <3>1. ~(Head(up).type = "close" /\ Head(up).doc = d)
      BY <2>1
    <3>2. \A i \in DOMAIN up : up[i].type = "close" /\ up[i].doc = d =>
            \E j \in DOMAIN up' : up'[j].type = "close" /\ up'[j].doc = d
      BY <2>2, <3>1
    <3> QED
      BY <2>1, <2>3, <3>2 DEF WillOpen, StaysOpen, IsOpen, Opens, Closes
  <2> QED
    BY <2>1, <2>2, <2>3 DEF StackInv, BelievedIsTold
<1>2. CASE Ignore
  <2>1. up # <<>> /\ up' = Tail(up) /\ lost' = TRUE /\ UNCHANGED <<ready, believed, stack, down>>
    BY <1>2 DEF Ignore, Receive, clientVars
  <2>2. up' \in Seq(UpMessage)
    BY <2>1, TailElements DEF StackInv
  <2> QED
    BY <2>1, <2>2 DEF StackInv, BelievedIsTold
<1>3. CASE Reset
  BY <1>3 DEF Reset, clientVars, StackInv, BelievedIsTold
<1>4. CASE PlayerJoins
  <2>1. <<>> \in Seq(Docs) /\ <<>> \in Seq(UpMessage) /\ <<>> \in Seq(DownMessage) /\ DOMAIN <<>> = {}
    OBVIOUS
  <2>2. IsInjective(<<>>)
    BY <2>1 DEF IsInjective
  <2> QED
    BY <1>4, <2>1, <2>2 DEF PlayerJoins, StackInv, BelievedIsTold
<1> QED
  BY <1>1, <1>2, <1>3, <1>4

LEMMA ClientStack == StackInv /\ ClientReceive => StackInv'
<1> SUFFICES ASSUME StackInv, ClientReceive PROVE StackInv'
  OBVIOUS
<1> DEFINE m == Head(down)
<1>1. stack \in Seq(Docs) /\ IsInjective(stack) /\ down \in Seq(DownMessage)
  BY DEF StackInv
<1>2. down # <<>> => m \in DownMessage
  BY <1>1, TailElements
<1>3. CASE HandleOpen
  <2>1. /\ down # <<>> /\ m.type = "open" /\ down' = Tail(down)
        /\ stack' = Append(Without(m.doc), m.doc) /\ UNCHANGED <<ready, believed, up, lost>>
    BY <1>3 DEF HandleOpen, Take
  <2>2. m.doc \in Docs
    BY <1>2, <2>1, MessageFields
  <2>3. stack' \in Seq(Docs) /\ IsInjective(stack') /\ Range(stack') = Range(stack) \cup {m.doc}
    BY <1>1, <2>1, <2>2, DocumentOnTop
  <2> QED
    BY <2>1, <2>3, TakeStep DEF IsOpen, Opens
<1>4. CASE HandleClose
  <2>1. /\ down # <<>> /\ m.type = "close" /\ down' = Tail(down)
        /\ stack' \in {stack, Without(m.doc)}
    BY <1>4 DEF HandleClose, CloseDocument, Take
  <2>2. /\ stack' \in Seq(Docs) /\ IsInjective(stack')
        /\ \A d \in Docs : IsOpen(d) /\ d # m.doc => d \in Range(stack')
    BY <1>1, <2>1, WithoutDocument DEF IsOpen
  <2>3. UNCHANGED <<ready, believed, up, lost>>
    BY <1>4 DEF HandleClose, CloseDocument
  <2> QED
    BY <2>1, <2>2, <2>3, TakeStep DEF Opens, Closes
<1>5. CASE HandleCloseAll
  <2>1. /\ down # <<>> /\ m.type = "closeAll" /\ down' = Tail(down)
        /\ stack' = <<>> /\ UNCHANGED <<ready, believed, up, lost>>
    BY <1>5 DEF HandleCloseAll, Take
  <2>2. <<>> \in Seq(Docs) /\ IsInjective(<<>>)
    BY DEF IsInjective
  <2> QED
    BY <2>1, <2>2, TakeStep DEF Opens, Closes
<1>6. CASE HandleFill
  <2>1. /\ down # <<>> /\ down' = Tail(down) /\ stack' = stack
        /\ m.type \in {"clear", "workspaceClear", "setPane", "setSlot", "setActions"}
        /\ UNCHANGED <<ready, believed, up, lost>>
    BY <1>6 DEF HandleFill, Take
  <2> QED
    BY <1>1, <2>1, TakeStep DEF IsOpen, Opens, Closes
<1> QED
  BY <1>3, <1>4, <1>5, <1>6 DEF ClientReceive

\* The top document is one of the stack.
LEMMA TopIsOpen ==
  ASSUME stack \in Seq(Docs), Windowed
  PROVE  Top \in Docs /\ IsOpen(Top)
<1>1. Top = stack[Len(stack)] /\ Len(stack) \in DOMAIN stack
  BY DEF Windowed, Top, Last
<1> QED
  BY <1>1 DEF IsOpen, Range

\* What the client reports of it is a message.
LEMMA ReportIsMessage ==
  ASSUME stack \in Seq(Docs), Windowed, NEW type \in {"close", "worldDrop", "event"}, Report(type, Top)
  PROVE  \E m \in UpMessage : up' = Append(up, m) /\ m.type = type /\ m.doc = Top
<1>1. [type |-> type, doc |-> Top] \in UpMessage
  BY TopIsOpen DEF UpMessage
<1> QED
  BY <1>1 DEF Report

\* What the player does with the mouse ends in at most one report.
LEMMA MouseReports ==
  ASSUME StackInv, \/ LeftDown \/ FinishDrag \/ Click \/ RightUpOpens
  PROVE  UNCHANGED up \/ \E m \in UpMessage : up' = Append(up, m)
<1>1. Report("event", Top) \/ Report("worldDrop", Top) \/ UNCHANGED up
  <2>1. CASE LeftDown
    BY <2>1 DEF LeftDown, SplitMouseDown, ContextMenuClick, PickAction
  <2>2. CASE FinishDrag
    BY <2>2 DEF FinishDrag
  <2>3. CASE Click
    BY <2>3 DEF Click
  <2>4. CASE RightUpOpens
    BY <2>4 DEF RightUpOpens
  <2> QED
    BY <2>1, <2>2, <2>3, <2>4
<1>2. UNCHANGED up \/ Windowed
  <2>1. CASE LeftDown
    BY <2>1 DEF LeftDown, SplitMouseDown, ContextMenuClick, SplitOnTop, MenuOnTop, TopHasSlots
  <2>2. CASE FinishDrag
    BY <2>2 DEF FinishDrag, ReleaseOnTop, TopHasSlots
  <2>3. CASE Click
    BY <2>3 DEF Click, ReleaseOnTop, TopHasSlots
  <2>4. CASE RightUpOpens
    BY <2>4 DEF RightUpOpens
  <2> QED
    BY <2>1, <2>2, <2>3, <2>4
<1> QED
  BY <1>1, <1>2, ReportIsMessage DEF StackInv

\* ESC closes a document and reports it.
LEMMA EscapeStack == StackInv /\ Escape => StackInv'
<1> SUFFICES ASSUME StackInv, Escape PROVE StackInv'
  OBVIOUS
<1>1. UNCHANGED <<ready, believed, down, lost>> /\ Windowed
  BY DEF Escape
<1>2. CASE UNCHANGED <<stack, up>>
  BY <1>1, <1>2, ReportStep
<1>3. CASE CloseDocument(Top, TRUE)
  <2>1. stack' = Without(Top) /\ Report("close", Top)
    BY <1>3 DEF CloseDocument
  <2>2. stack \in Seq(Docs) /\ IsInjective(stack) /\ up \in Seq(UpMessage)
    BY DEF StackInv
  <2>3. stack' \in Seq(Docs) /\ IsInjective(stack') /\ Range(stack') = Range(stack) \ {Top}
    BY <2>1, <2>2, WithoutDocument
  <2>4. PICK m \in UpMessage : up' = Append(up, m) /\ m.type = "close" /\ m.doc = Top
    BY <1>1, <2>1, <2>2, ReportIsMessage
  <2>5. PICK n \in Nat : /\ DOMAIN up' = DOMAIN up \cup {n} /\ up'[n] = m
                        /\ \A i \in DOMAIN up : i \in Nat /\ i < n /\ up'[i] = up[i]
    BY <2>2, <2>4, AppendElements
  <2>6. up' \in Seq(UpMessage)
    BY <2>2, <2>4, AppendElements
  <2>7. \A d \in Docs : WillOpen(d) => WillOpen(d)'
    BY <1>1 DEF WillOpen, Opens, Closes
  <2>8. \A d \in Docs : StaysOpen(d) => StaysOpen(d)'
    BY <1>1, <2>3, <2>4, <2>5 DEF StaysOpen, IsOpen, Closes
  <2> QED
    BY <1>1, <2>3, <2>6, <2>7, <2>8 DEF StackInv, BelievedIsTold
<1> QED
  BY <1>2, <1>3 DEF Escape

LEMMA PlayerStack == StackInv /\ (Player \/ Render) => StackInv'
<1> SUFFICES ASSUME StackInv, Player \/ Render PROVE StackInv'
  OBVIOUS
<1>1. CASE LeftDown \/ FinishDrag \/ Click \/ RightUpOpens
  <2>1. UNCHANGED <<ready, believed, stack, down, lost>>
    BY <1>1 DEF LeftDown, FinishDrag, Click, RightUpOpens
  <2> QED
    BY <1>1, <2>1, MouseReports, ReportStep
<1>2. CASE Render \/ MouseMoves \/ BeginDrag \/ ReleaseUnused \/ RightUpEnds
  <2>1. UNCHANGED <<ready, believed, stack, up, down, lost>>
    BY <1>2 DEF Render, MouseMoves, BeginDrag, ReleaseUnused, RightUpEnds
  <2> QED
    BY <2>1, ReportStep
<1> QED
  BY <1>1, <1>2, EscapeStack DEF Player

LEMMA StackStep == StackInv /\ Next => StackInv'
  BY ScriptStack, ServerStack, ClientStack, PlayerStack DEF Next

-----------------------------------------------------------------------------
(* Contents. *)

LEMMA OpenedIsContent == \A template \in Templates : IsContent(Opened(template))
<1>1. EmptySlot \in Slot
  BY DEF EmptySlot, Slot, ActionLists
<1>2. EmptySlots \in [Slots -> Slot]
  BY <1>1 DEF EmptySlots
<1>3. DOMAIN NoPanes = {} /\ NoPanes \in [{} -> Pane]
  BY DEF NoPanes
<1> QED
  BY <1>2, <1>3 DEF IsContent, Opened

LEMMA NoContentIsContent == IsContent(NoContent)
  BY OpenedIsContent DEF NoContent, Templates

\* Only one document's content is another.
LEMMA OneContent ==
  ASSUME ContentInv, NEW d \in Docs, NEW c, IsContent(c), content' = [content EXCEPT ![d] = c]
  PROVE  ContentInv'
<1>1. content' = [e \in Docs |-> IF e = d THEN c ELSE content[e]]
  BY DEF ContentInv
<1>2. content' = [e \in Docs |-> content'[e]]
  BY <1>1
<1>3. \A e \in Docs : content'[e] = c \/ content'[e] = content[e]
  BY <1>1
<1>4. \A e \in Docs : IsContent(content'[e])
  BY <1>3 DEF ContentInv
<1> QED
  BY <1>2, <1>4 DEF ContentInv

\* A slot that is set.
LEMMA SetIsSlot ==
  ASSUME NEW slot \in Slot, NEW m \in DownMessage, m.type \in {"setSlot", "setActions"}
  PROVE  Set(slot, m) \in Slot
<1>1. CASE m.type = "setActions"
  <2>1. m.actions \in ActionLists
    BY <1>1, MessageFields
  <2> QED
    BY <1>1, <2>1 DEF Set, Slot
<1>2. CASE m.type = "setSlot"
  <2>1. m.used \in BOOLEAN /\ m.amount \in Nat
    BY <1>2, MessageFields
  <2>2. slot.actions \in ActionLists /\ <<>> \in ActionLists
    BY DEF Slot, ActionLists
  <2> QED
    BY <1>2, <2>1, <2>2 DEF Set, Slot
<1> QED
  BY <1>1, <1>2

LEMMA SlotsSet ==
  ASSUME NEW slots \in [Slots -> Slot], NEW s \in Slots, NEW m \in DownMessage,
         m.type \in {"setSlot", "setActions"}
  PROVE  [slots EXCEPT ![s] = Set(@, m)] \in [Slots -> Slot]
  BY SetIsSlot

\* A content with other slots, or with other panes.
LEMMA WithSlots ==
  ASSUME NEW c, IsContent(c), NEW slots \in [Slots -> Slot]
  PROVE  IsContent([c EXCEPT !.slots = slots])
<1>1. [c EXCEPT !.slots = slots] = [template |-> c.template, slots |-> slots, panes |-> c.panes]
  BY DEF IsContent
<1> QED
  BY <1>1 DEF IsContent

LEMMA WithPanes ==
  ASSUME NEW c, IsContent(c), NEW panes, DOMAIN panes \subseteq Panes, panes \in [DOMAIN panes -> Pane]
  PROVE  /\ IsContent([c EXCEPT !.panes = panes])
         /\ [c EXCEPT !.panes = panes].panes = panes
<1>1. [c EXCEPT !.panes = panes] = [template |-> c.template, slots |-> c.slots, panes |-> panes]
  BY DEF IsContent
<1> QED
  BY <1>1 DEF IsContent

\* What a message makes of a content is one, and only workspaceClear takes panes
\* away.
LEMMA FilledIsContent ==
  ASSUME NEW c, IsContent(c), NEW m \in DownMessage,
         m.type \in {"clear", "workspaceClear", "setPane", "setSlot", "setActions"}
  PROVE  /\ IsContent(Filled(c, m))
         /\ m.type # "workspaceClear" => DOMAIN c.panes \subseteq DOMAIN Filled(c, m).panes
<1>1. CASE m.type = "clear"
  <2>1. EmptySlots \in [Slots -> Slot]
    BY DEF EmptySlots, EmptySlot, Slot, ActionLists
  <2>2. Filled(c, m) = [c EXCEPT !.slots = EmptySlots]
    BY <1>1 DEF Filled
  <2>3. [c EXCEPT !.slots = EmptySlots].panes = c.panes
    BY DEF IsContent
  <2> QED
    BY <2>1, <2>2, <2>3, WithSlots
<1>2. CASE m.type = "workspaceClear"
  <2>1. Filled(c, m) = [c EXCEPT !.panes = NoPanes]
    BY <1>2 DEF Filled
  <2>2. DOMAIN NoPanes = {} /\ NoPanes \in [DOMAIN NoPanes -> Pane]
    BY DEF NoPanes
  <2> QED
    BY <1>2, <2>1, <2>2, WithPanes
<1>3. CASE m.type = "setPane"
  <2> DEFINE new == [draggable |-> m.draggable, slots |-> EmptySlots]
             panes == [p \in DOMAIN c.panes \cup {m.pane} |-> IF p = m.pane THEN new ELSE c.panes[p]]
  <2>1. new \in Pane
    BY <1>3, MessageFields DEF Pane, EmptySlots, EmptySlot, Slot, ActionLists
  <2>2. Filled(c, m) = [c EXCEPT !.panes = panes]
    BY <1>3 DEF Filled
  <2> HIDE DEF new
  <2>3. DOMAIN panes = DOMAIN c.panes \cup {m.pane} /\ DOMAIN panes \subseteq Panes
    BY <1>3, MessageFields DEF IsContent
  <2>4. panes \in [DOMAIN panes -> Pane]
    BY <2>1, <2>3 DEF IsContent
  <2> HIDE DEF panes
  <2> QED
    BY <2>2, <2>3, <2>4, WithPanes
<1>4. CASE m.type \in {"setSlot", "setActions"}
  <2>1. m.at \in Place /\ m.at.slot \in Slots
    BY <1>4, MessageFields DEF Place
  <2>2. CASE m.at.pane = NoPane
    <3> DEFINE slots == [c.slots EXCEPT ![m.at.slot] = Set(@, m)]
    <3>1. slots \in [Slots -> Slot]
      BY <1>4, <2>1, SlotsSet DEF IsContent
    <3>2. Filled(c, m) = [c EXCEPT !.slots = slots]
      BY <1>4, <2>2 DEF Filled, WithSlot
    <3> HIDE DEF slots
    <3>3. [c EXCEPT !.slots = slots].panes = c.panes
      BY DEF IsContent
    <3> QED
      BY <3>1, <3>2, <3>3, WithSlots
  <2>3. CASE m.at.pane # NoPane /\ m.at.pane \in DOMAIN c.panes
    <3> DEFINE q == m.at.pane
               pane == [c.panes[q] EXCEPT !.slots[m.at.slot] = Set(@, m)]
               panes == [c.panes EXCEPT ![q] = pane]
    <3>1. Filled(c, m) = [c EXCEPT !.panes = panes]
      BY <1>4, <2>3 DEF Filled, WithSlot
    <3>2. c.panes[q] \in Pane
      BY <2>3 DEF IsContent
    <3>3. [c.panes[q].slots EXCEPT ![m.at.slot] = Set(@, m)] \in [Slots -> Slot]
      BY <1>4, <2>1, <3>2, SlotsSet DEF Pane
    <3>4. pane \in Pane
      BY <3>2, <3>3 DEF Pane
    <3> HIDE DEF pane
    <3>5. DOMAIN panes = DOMAIN c.panes /\ panes \in [DOMAIN panes -> Pane]
      BY <2>3, <3>4 DEF IsContent
    <3>6. DOMAIN panes \subseteq Panes
      BY <3>5 DEF IsContent
    <3> HIDE DEF panes
    <3> QED
      BY <3>1, <3>5, <3>6, WithPanes
  <2>4. CASE m.at.pane # NoPane /\ m.at.pane \notin DOMAIN c.panes
    <3>1. Filled(c, m) = c
      BY <1>4, <2>4 DEF Filled, WithSlot
    <3> QED
      BY <3>1
  <2> QED
    BY <2>2, <2>3, <2>4
<1> QED
  BY <1>1, <1>2, <1>3, <1>4

\* Whatever changes a content.
LEMMA ContentStep == StackInv /\ ContentInv /\ Next => ContentInv'
<1> SUFFICES ASSUME StackInv, ContentInv, Next PROVE ContentInv'
  OBVIOUS
<1> DEFINE m == Head(down)
<1>1. down # <<>> => m \in DownMessage
  BY TailElements DEF StackInv
<1>2. IsContent(NoContent)
  BY NoContentIsContent
<1>3. CASE content' = [d \in Docs |-> NoContent]
  BY <1>2, <1>3 DEF ContentInv
<1>4. CASE HandleOpen
  <2>1. /\ m.doc \in Docs /\ m.template \in Templates
        /\ content' = [content EXCEPT ![m.doc] = Opened(m.template)]
    BY <1>1, <1>4, MessageFields DEF HandleOpen, Take
  <2> QED
    BY <2>1, OpenedIsContent, OneContent
<1>5. CASE HandleClose
  <2>1. CASE IsOpen(m.doc)
    <3>1. m.doc \in Docs
      BY <2>1 DEF IsOpen, Range, StackInv
    <3>2. content' = [content EXCEPT ![m.doc] = NoContent]
      BY <1>5, <2>1 DEF HandleClose, CloseDocument
    <3> QED
      BY <1>2, <3>1, <3>2, OneContent
  <2>2. CASE ~IsOpen(m.doc)
    BY <1>5, <2>2 DEF HandleClose, ContentInv
  <2> QED
    BY <2>1, <2>2
<1>6. CASE HandleFill
  <2>1. /\ m \in DownMessage
        /\ m.type \in {"clear", "workspaceClear", "setPane", "setSlot", "setActions"}
    BY <1>1, <1>6 DEF HandleFill, Take
  <2>2. m.doc \in Docs
    BY <2>1, MessageFields
  <2>3. CASE content' = [content EXCEPT ![m.doc] = Filled(@, m)]
    <3>1. content' = [content EXCEPT ![m.doc] = Filled(content[m.doc], m)]
      BY <2>3
    <3>2. IsContent(Filled(content[m.doc], m))
      BY <2>1, <2>2, FilledIsContent DEF ContentInv
    <3> QED
      BY <2>2, <3>1, <3>2, OneContent
  <2> QED
    BY <1>6, <2>3 DEF HandleFill, ContentInv
<1>7. CASE Escape
  <2>1. CASE CloseDocument(Top, TRUE)
    <3>1. Top \in Docs
      BY <1>7, TopIsOpen DEF Escape, StackInv
    <3>2. content' = [content EXCEPT ![Top] = NoContent]
      BY <2>1 DEF CloseDocument
    <3> QED
      BY <1>2, <3>1, <3>2, OneContent
  <2> QED
    BY <1>7, <2>1 DEF Escape, ContentInv
<1>8. CASE UNCHANGED content
  BY <1>8 DEF ContentInv
<1>9. CASE Script \/ UiEvent \/ Ignore \/ Reset
  BY <1>8, <1>9 DEF Script, OpenUi, CloseUi, Fill, CloseAllUi, UiEvent, Ignore, Reset, clientVars
<1>10. CASE PlayerJoins \/ HandleCloseAll
  BY <1>3, <1>10 DEF PlayerJoins, HandleCloseAll
<1>11. CASE Render \/ MouseMoves \/ LeftDown \/ BeginDrag \/ ReleaseUnused
  BY <1>8, <1>11 DEF Render, MouseMoves, LeftDown, BeginDrag, ReleaseUnused
<1>12. CASE FinishDrag \/ Click \/ RightUpEnds \/ RightUpOpens
  BY <1>8, <1>12 DEF FinishDrag, Click, RightUpEnds, RightUpOpens
<1> QED
  BY <1>4, <1>5, <1>6, <1>7, <1>9, <1>10, <1>11, <1>12 DEF Next, ClientReceive, Player

-----------------------------------------------------------------------------
(* Gestures. *)

LEMMA NoGesture ==
  /\ Nowhere.doc \notin Docs /\ Nowhere.pane = NoPane
  /\ NoDrag \in Drag /\ NoDrag.at = Nowhere
  /\ NoMenu \in Menu /\ NoMenu.at = Nowhere
  /\ NoSplit \in Split /\ NoSplit.at = Nowhere
  BY UiAssumption DEF Nowhere, NoDrag, NoMenu, NoSplit, Drag, Menu, Split, ActionLists

\* A place has a document, a gesture a place or none.
LEMMA PlaceFields ==
  ASSUME NEW x \in Place \cup {Nowhere}
  PROVE  x # Nowhere => x \in Place /\ x.doc \in Docs /\ x.slot \in Slots
  BY DEF Place

LEMMA GestureFields ==
  ASSUME GestureInv
  PROVE  /\ drag.at \in Place \cup {Nowhere} /\ menu.at \in Place \cup {Nowhere}
         /\ split.at \in Place \cup {Nowhere}
         /\ drag.active \in BOOLEAN /\ menu.actions \in ActionLists
         /\ split.amount \in Nat /\ split.max \in Nat
  BY DEF GestureInv, Drag, Menu, Split

\* Gestures that go on or end, while what they are about stays on the screen.
LEMMA GestureKept ==
  ASSUME GestureInv, suppress' \in BOOLEAN, press' \in {"up", "down", "drag"},
         \/ drag' = NoDrag
         \/ /\ drag' \in {drag, [drag EXCEPT !.active = TRUE]}
            /\ drag.at # Nowhere => drag.at.doc \in Range(stack')
            /\ drag.at.pane # NoPane => drag.at.pane \in DOMAIN content'[drag.at.doc].panes,
         \/ menu' = NoMenu
         \/ menu' = menu /\ (menu.at # Nowhere => menu.at.doc \in Range(stack')),
         \/ split' = NoSplit
         \/ /\ \/ split' = split
               \/ split # NoSplit /\ \E n \in 1..split.max : split' = [split EXCEPT !.amount = n]
            /\ split.at # Nowhere => split.at.doc \in Range(stack')
  PROVE  GestureInv'
<1>1. drag' \in Drag /\ drag'.at \in {drag.at, Nowhere} /\ (drag' # NoDrag => drag'.at = drag.at)
  <2>1. [drag EXCEPT !.active = TRUE] \in Drag /\ [drag EXCEPT !.active = TRUE].at = drag.at
    BY DEF GestureInv, Drag
  <2> QED
    BY <2>1, NoGesture DEF GestureInv
<1>2. menu' \in Menu /\ menu'.at \in {menu.at, Nowhere} /\ (menu' # NoMenu => menu'.at = menu.at)
  BY NoGesture DEF GestureInv
<1>3. /\ split' \in Split /\ split'.at \in {split.at, Nowhere}
      /\ split' # NoSplit => split'.at = split.at /\ split'.amount \in 1..split'.max
  <2>1. ASSUME NEW n \in 1..split.max, split' = [split EXCEPT !.amount = n]
        PROVE  split' \in Split /\ split'.at = split.at /\ split'.amount \in 1..split'.max
    <3>1. n \in Nat /\ split \in Split
      BY GestureFields DEF GestureInv
    <3> QED
      BY <2>1, <3>1 DEF Split
  <2> QED
    BY <2>1, NoGesture DEF GestureInv, SplitAmountBounded
<1>4. GesturesAreOnScreen'
  <2>1. drag'.at # Nowhere => drag'.at.doc \in Range(stack')
    BY <1>1, NoGesture DEF IsOpen
  <2>2. menu'.at # Nowhere => menu'.at.doc \in Range(stack')
    BY <1>2, NoGesture DEF IsOpen
  <2>3. split'.at # Nowhere => split'.at.doc \in Range(stack')
    BY <1>3, NoGesture DEF IsOpen
  <2>4. drag'.at.pane # NoPane => drag'.at.pane \in DOMAIN content'[drag'.at.doc].panes
    BY <1>1, NoGesture
  <2> QED
    BY <2>1, <2>2, <2>3, <2>4 DEF GesturesAreOnScreen, IsOpen
<1>5. OneGesturePerDocument'
  BY <1>1, <1>2, <1>3, NoGesture DEF GestureInv, OneGesturePerDocument
<1>6. SplitAmountBounded'
  BY <1>3 DEF SplitAmountBounded
<1> QED
  BY <1>1, <1>2, <1>3, <1>4, <1>5, <1>6 DEF GestureInv

\* ... where neither stack nor contents change.
LEMMA GestureQuiet ==
  ASSUME GestureInv, UNCHANGED <<stack, content>>, suppress' \in BOOLEAN,
         press' \in {"up", "down", "drag"},
         drag' \in {NoDrag, drag, [drag EXCEPT !.active = TRUE]}, menu' \in {NoMenu, menu},
         \/ split' \in {NoSplit, split}
         \/ split # NoSplit /\ \E n \in 1..split.max : split' = [split EXCEPT !.amount = n]
  PROVE  GestureInv'
<1>1. /\ drag.at # Nowhere => drag.at.doc \in Range(stack')
      /\ menu.at # Nowhere => menu.at.doc \in Range(stack')
      /\ split.at # Nowhere => split.at.doc \in Range(stack')
      /\ drag.at.pane # NoPane => drag.at.pane \in DOMAIN content'[drag.at.doc].panes
  BY DEF GestureInv, GesturesAreOnScreen, IsOpen
<1> QED
  BY <1>1, GestureKept

\* A slot is one wherever it is, and the dialog of a stack splits it.
LEMMA SlotAtIsSlot ==
  ASSUME ContentInv, NEW x \in Place
  PROVE  SlotAt(x) \in Slot
<1>1. /\ x.doc \in Docs /\ x.slot \in Slots
      /\ IsContent(content[x.doc])
  BY DEF Place, ContentInv
<1>2. EmptySlot \in Slot
  BY DEF EmptySlot, Slot, ActionLists
<1>3. x.pane \in DOMAIN content[x.doc].panes => content[x.doc].panes[x.pane] \in Pane
  BY <1>1 DEF IsContent
<1> QED
  BY <1>1, <1>2, <1>3 DEF SlotAt, IsContent, Pane

LEMMA DialogSplits ==
  ASSUME ContentInv, NEW x \in Place, HasStack(x)
  PROVE  /\ Dialog(x) \in Split /\ Dialog(x).at = x
         /\ Dialog(x).amount \in 1..Dialog(x).max
<1>1. PICK n \in Nat : n = SlotAt(x).amount
  BY SlotAtIsSlot DEF Slot
<1>2. n > 1
  BY <1>1 DEF HasStack
<1>3. n \div 2 \in Nat /\ n \div 2 >= 1 /\ n \div 2 <= n - 1 /\ n - 1 \in Nat
  BY <1>2
<1>4. Dialog(x) = [at |-> x, amount |-> n \div 2, max |-> n - 1]
  BY <1>1 DEF Dialog
<1> QED
  BY <1>3, <1>4 DEF Split

\* What the mouse can be over is on the screen.
LEMMA PlacesAreThere ==
  ASSUME ContentInv, NEW d \in Docs, NEW x \in PlacesOf(d)
  PROVE  /\ x \in Place /\ x.doc = d /\ HasSlots(d)
         /\ x.pane # NoPane => x.pane \in DOMAIN content[d].panes
<1>1. DOMAIN content[d].panes \subseteq Panes
  BY DEF ContentInv, IsContent
<1>2. CASE content[d].template = "inventory"
  <2>1. x \in {At(d, NoPane, s) : s \in Slots}
    BY <1>2 DEF PlacesOf
  <2> QED
    BY <1>2, <2>1 DEF At, Place, HasSlots
<1>3. CASE content[d].template = "workspace"
  <2>1. x \in {At(d, p, s) : p \in DOMAIN content[d].panes, s \in Slots}
    BY <1>3 DEF PlacesOf
  <2> QED
    BY <1>1, <1>3, <2>1 DEF At, Place, HasSlots
<1>4. CASE content[d].template \notin {"inventory", "workspace"}
  BY <1>4 DEF PlacesOf
<1> QED
  BY <1>2, <1>3, <1>4

\* The dialog opens on a document that has no menu, and no drag any more.
LEMMA DialogOpens ==
  ASSUME ContentInv, GestureInv, UNCHANGED <<stack, content>>, suppress' \in BOOLEAN,
         press' \in {"up", "down", "drag"}, NEW x \in Place, HasStack(x), IsOpen(x.doc),
         split' = Dialog(x), drag' = NoDrag, menu' \in {NoMenu, menu}, menu'.at.doc # x.doc
  PROVE  GestureInv'
<1>1. split' \in Split /\ split'.at = x /\ split'.amount \in 1..split'.max
  BY DialogSplits
<1>2. drag' \in Drag /\ menu' \in Menu /\ menu'.at \in {menu.at, Nowhere} /\ drag'.at = Nowhere
  BY NoGesture DEF GestureInv
<1>3. GesturesAreOnScreen'
  <2>1. menu'.at # Nowhere => menu'.at.doc \in Range(stack')
    BY <1>2 DEF GestureInv, GesturesAreOnScreen, IsOpen
  <2>2. split'.at.doc \in Range(stack')
    BY <1>1 DEF IsOpen
  <2> QED
    BY <1>2, <2>1, <2>2, NoGesture DEF GesturesAreOnScreen, IsOpen
<1>4. OneGesturePerDocument'
  BY <1>1, <1>2, NoGesture DEF OneGesturePerDocument
<1> QED
  BY <1>1, <1>2, <1>3, <1>4 DEF GestureInv, SplitAmountBounded

\* WM_LBUTTONDOWN.
LEMMA LeftDownGesture == StackInv /\ ContentInv /\ GestureInv /\ LeftDown => GestureInv'
<1> SUFFICES ASSUME StackInv, ContentInv, GestureInv, LeftDown PROVE GestureInv'
  OBVIOUS
<1>1. UNCHANGED <<stack, content>> /\ press' = "down" /\ suppress \in BOOLEAN
  BY DEF LeftDown, GestureInv
<1>2. CASE SplitMouseDown
  <2>1. UNCHANGED <<drag, menu>>
    BY <1>2 DEF SplitMouseDown
  <2>2. CASE split' = NoSplit /\ suppress' = TRUE
    BY <1>1, <2>1, <2>2, GestureQuiet
  <2>3. CASE (\E n \in SplitButtons : split' = [split EXCEPT !.amount = n]) /\ UNCHANGED suppress
    <3>1. split # NoSplit
      BY <1>2, TopIsOpen, NoGesture DEF SplitMouseDown, SplitOnTop, TopHasSlots, StackInv
    <3>2. SplitButtons \subseteq 1..split.max
      <4>1. split.amount \in 1..split.max /\ split.max \in Nat
        BY <3>1, GestureFields DEF GestureInv, SplitAmountBounded, Split
      <4>2. \A n \in Int : ClampSplitAmount(n) \in 1..split.max
        BY <4>1 DEF ClampSplitAmount
      <4> QED
        BY <4>1, <4>2 DEF SplitButtons
    <3> QED
      BY <1>1, <2>1, <2>3, <3>1, <3>2, GestureQuiet
  <2> QED
    BY <1>2, <2>2, <2>3 DEF SplitMouseDown
<1>3. CASE ContextMenuClick
  <2>1. suppress' = TRUE /\ MenuOnTop
    BY <1>3 DEF ContextMenuClick
  <2>2. CASE menu' \in {menu, NoMenu} /\ UNCHANGED <<split, drag>>
    BY <1>1, <2>1, <2>2, GestureQuiet
  <2>3. CASE \E action \in Range(menu.actions) : PickAction(action)
    <3>1. menu.at \in Place /\ IsOpen(menu.at.doc) /\ menu.at.doc \in Docs /\ menu.at # Nowhere
      <4>1. menu.at.doc = Top /\ Top \in Docs
        BY <2>1, TopIsOpen DEF MenuOnTop, TopHasSlots, StackInv
      <4>2. menu.at \in Place /\ menu.at # Nowhere
        BY <4>1, GestureFields, NoGesture
      <4> QED
        BY <4>1, <4>2 DEF GestureInv, GesturesAreOnScreen
    <3>2. CASE HasStack(menu.at) /\ split' = Dialog(menu.at) /\ drag' = NoDrag /\ menu' = NoMenu
      <4>1. menu'.at.doc # menu.at.doc
        BY <3>1, <3>2, NoGesture
      <4> QED
        BY <1>1, <2>1, <3>1, <3>2, <4>1, DialogOpens
    <3>3. CASE menu' = NoMenu /\ UNCHANGED <<split, drag>>
      BY <1>1, <2>1, <3>3, GestureQuiet
    <3> QED
      BY <2>3, <3>2, <3>3 DEF PickAction
  <2> QED
    BY <1>3, <2>2, <2>3 DEF ContextMenuClick
<1>4. CASE UNCHANGED <<drag, menu, split, suppress>>
  BY <1>1, <1>4, GestureQuiet
<1> QED
  BY <1>2, <1>3, <1>4 DEF LeftDown

\* A drag begins on a document without popup.
LEMMA BeginDragGesture == StackInv /\ ContentInv /\ GestureInv /\ BeginDrag => GestureInv'
<1> SUFFICES ASSUME StackInv, ContentInv, GestureInv, BeginDrag PROVE GestureInv'
  OBVIOUS
<1>1. /\ UNCHANGED <<stack, content, menu, split, suppress>> /\ press' = "drag"
      /\ Windowed /\ NoPopupOnTop
  BY DEF BeginDrag, popupVars
<1>2. Top \in Docs /\ IsOpen(Top)
  BY <1>1, TopIsOpen DEF StackInv
<1>3. PICK x \in PlacesOf(Top) : drag' = [at |-> x, active |-> FALSE]
  BY DEF BeginDrag
<1>4. /\ x \in Place /\ x.doc = Top /\ HasSlots(Top)
      /\ x.pane # NoPane => x.pane \in DOMAIN content[Top].panes
  BY <1>2, PlacesAreThere
<1>5. menu.at.doc # Top /\ split.at.doc # Top
  BY <1>1, <1>4 DEF NoPopupOnTop, SplitOnTop, MenuOnTop, TopHasSlots
<1>6. drag' \in Drag /\ drag'.at = x
  BY <1>3, <1>4 DEF Drag
<1>7. GesturesAreOnScreen'
  <2>1. drag'.at.doc \in Range(stack') /\ (x.pane # NoPane => x.pane \in DOMAIN content'[x.doc].panes)
    BY <1>1, <1>2, <1>4, <1>6 DEF IsOpen
  <2>2. /\ menu'.at # Nowhere => menu'.at.doc \in Range(stack')
        /\ split'.at # Nowhere => split'.at.doc \in Range(stack')
    BY <1>1 DEF GestureInv, GesturesAreOnScreen, IsOpen
  <2> QED
    BY <1>6, <2>1, <2>2 DEF GesturesAreOnScreen, IsOpen
<1>8. OneGesturePerDocument' /\ SplitAmountBounded'
  BY <1>1, <1>4, <1>5, <1>6 DEF GestureInv, OneGesturePerDocument, SplitAmountBounded
<1> QED
  BY <1>1, <1>6, <1>7, <1>8 DEF GestureInv

\* WM_LBUTTONUP without a drag.
LEMMA ClickGesture == StackInv /\ ContentInv /\ GestureInv /\ Click => GestureInv'
<1> SUFFICES ASSUME StackInv, ContentInv, GestureInv, Click PROVE GestureInv'
  OBVIOUS
<1>1. /\ UNCHANGED <<stack, content, menu, suppress>> /\ press' = "up" /\ suppress \in BOOLEAN
      /\ Windowed /\ TopHasSlots
  BY DEF Click, Release, ReleaseOnTop, TopHasSlots, GestureInv
<1>2. Top \in Docs /\ IsOpen(Top)
  BY <1>1, TopIsOpen DEF StackInv
<1>3. CASE drag' \in {drag, NoDrag} /\ UNCHANGED split
  BY <1>1, <1>3, GestureQuiet
<1>4. CASE /\ ~MenuOnTop
           /\ \E x \in PlacesOf(Top) : HasStack(x) /\ split' = Dialog(x) /\ drag' = NoDrag
  <2>1. PICK x \in PlacesOf(Top) : HasStack(x) /\ split' = Dialog(x) /\ drag' = NoDrag
    BY <1>4
  <2>2. x \in Place /\ x.doc = Top
    BY <1>2, <2>1, PlacesAreThere
  <2>3. menu'.at.doc # x.doc
    BY <1>1, <1>4, <2>2 DEF MenuOnTop
  <2> QED
    BY <1>1, <1>2, <2>1, <2>2, <2>3, DialogOpens
<1>5. CASE /\ ~MenuOnTop
           /\ \E x \in {y \in PlacesOf(Top) : HasItem(y)} :
                IF Head(Offered(SlotAt(x))) # "split"
                THEN drag' = Unless(Top, drag, NoDrag) /\ UNCHANGED split
                ELSE /\ split' = IF HasStack(x) THEN Dialog(x) ELSE split
                     /\ drag' = IF HasStack(x) THEN NoDrag ELSE Unless(Top, drag, NoDrag)
  BY <1>3, <1>4, <1>5 DEF Unless
<1> QED
  BY <1>3, <1>5 DEF Click, Unless

\* WM_RBUTTONUP over an item: only where nothing else goes on.
LEMMA RightUpOpensGesture == StackInv /\ ContentInv /\ GestureInv /\ RightUpOpens => GestureInv'
<1> SUFFICES ASSUME StackInv, ContentInv, GestureInv, RightUpOpens PROVE GestureInv'
  OBVIOUS
<1>1. /\ UNCHANGED <<stack, content, drag, press, split, suppress>>
      /\ suppress \in BOOLEAN /\ press \in {"up", "down", "drag"}
      /\ Windowed /\ drag = NoDrag /\ split = NoSplit
  BY DEF RightUpOpens, dragVars, GestureInv
<1>2. Top \in Docs /\ IsOpen(Top)
  BY <1>1, TopIsOpen DEF StackInv
<1>3. CASE UNCHANGED menu
  BY <1>1, <1>3, GestureQuiet
<1>4. ASSUME NEW x \in PlacesOf(Top), menu' = [at |-> x, actions |-> Offered(SlotAt(x))]
      PROVE  GestureInv'
  <2>1. x \in Place /\ x.doc = Top
    BY <1>2, PlacesAreThere
  <2>2. Offered(SlotAt(x)) \in ActionLists
    BY <2>1, SlotAtIsSlot DEF Offered, Slot, ActionLists
  <2>3. menu' \in Menu /\ menu'.at = x
    BY <1>4, <2>1, <2>2 DEF Menu
  <2>4. GesturesAreOnScreen'
    BY <1>1, <1>2, <2>1, <2>3, NoGesture DEF GesturesAreOnScreen, IsOpen
  <2>5. OneGesturePerDocument' /\ SplitAmountBounded'
    BY <1>1, NoGesture DEF OneGesturePerDocument, SplitAmountBounded
  <2> QED
    BY <1>1, <2>3, <2>4, <2>5 DEF GestureInv
<1> QED
  BY <1>3, <1>4 DEF RightUpOpens

\* A document that is opened anew takes its drag along, one that is closed all
\* its gestures.
LEMMA OpenGesture == StackInv /\ ContentInv /\ GestureInv /\ HandleOpen => GestureInv'
<1> SUFFICES ASSUME StackInv, ContentInv, GestureInv, HandleOpen PROVE GestureInv'
  OBVIOUS
<1> DEFINE d == Head(down).doc
<1>1. d \in Docs
  BY TailElements, MessageFields DEF HandleOpen, Take, StackInv
<1>2. /\ stack' = Append(Without(d), d) /\ content' = [content EXCEPT ![d] = Opened(Head(down).template)]
      /\ drag' = Unless(d, drag, NoDrag) /\ UNCHANGED <<menu, split, suppress, press>>
      /\ suppress \in BOOLEAN /\ press \in {"up", "down", "drag"}
  BY DEF HandleOpen, popupVars, GestureInv
<1> HIDE DEF d
<1>3. Range(stack') = Range(stack) \cup {d}
  BY <1>1, <1>2, DocumentOnTop DEF StackInv
<1>4. /\ drag.at # Nowhere => drag.at.doc \in Range(stack')
      /\ menu.at # Nowhere => menu.at.doc \in Range(stack')
      /\ split.at # Nowhere => split.at.doc \in Range(stack')
  BY <1>3 DEF GestureInv, GesturesAreOnScreen, IsOpen
<1>5. drag.at.doc # d /\ drag.at.pane # NoPane => drag.at.pane \in DOMAIN content'[drag.at.doc].panes
  <2> SUFFICES ASSUME drag.at.doc # d, drag.at.pane # NoPane
               PROVE  drag.at.pane \in DOMAIN content'[drag.at.doc].panes
    OBVIOUS
  <2>1. drag.at.doc \in Docs
    BY GestureFields, PlaceFields, NoGesture
  <2>2. content'[drag.at.doc] = content[drag.at.doc]
    BY <1>2, <2>1 DEF ContentInv
  <2> QED
    BY <2>2 DEF GestureInv, GesturesAreOnScreen
<1> QED
  BY <1>2, <1>4, <1>5, GestureKept DEF Unless

LEMMA CloseGesture ==
  ASSUME StackInv, ContentInv, GestureInv, NEW d \in Docs, NEW notify \in BOOLEAN,
         CloseDocument(d, notify), UNCHANGED <<suppress, press>>
  PROVE  GestureInv'
<1>1. /\ stack' = Without(d) /\ content' = [content EXCEPT ![d] = NoContent]
      /\ drag' = Unless(d, drag, NoDrag) /\ menu' = Unless(d, menu, NoMenu)
      /\ split' = Unless(d, split, NoSplit)
      /\ suppress' \in BOOLEAN /\ press' \in {"up", "down", "drag"}
  BY DEF CloseDocument, GestureInv
<1>2. Range(stack') = Range(stack) \ {d}
  BY <1>1, WithoutDocument DEF StackInv
<1>3. /\ drag.at # Nowhere /\ drag.at.doc # d => drag.at.doc \in Range(stack')
      /\ menu.at # Nowhere /\ menu.at.doc # d => menu.at.doc \in Range(stack')
      /\ split.at # Nowhere /\ split.at.doc # d => split.at.doc \in Range(stack')
  BY <1>2 DEF GestureInv, GesturesAreOnScreen, IsOpen
<1>4. drag.at.doc # d /\ drag.at.pane # NoPane => drag.at.pane \in DOMAIN content'[drag.at.doc].panes
  <2> SUFFICES ASSUME drag.at.doc # d, drag.at.pane # NoPane
               PROVE  drag.at.pane \in DOMAIN content'[drag.at.doc].panes
    OBVIOUS
  <2>1. drag.at.doc \in Docs
    BY GestureFields, PlaceFields, NoGesture
  <2>2. content'[drag.at.doc] = content[drag.at.doc]
    BY <1>1, <2>1 DEF ContentInv
  <2> QED
    BY <2>2 DEF GestureInv, GesturesAreOnScreen
<1> QED
  BY <1>1, <1>3, <1>4, GestureKept DEF Unless

\* A message that fills a document takes a pane away only with the drag.
LEMMA FillGesture == StackInv /\ ContentInv /\ GestureInv /\ HandleFill => GestureInv'
<1> SUFFICES ASSUME StackInv, ContentInv, GestureInv, HandleFill PROVE GestureInv'
  OBVIOUS
<1> DEFINE m == Head(down)
<1>1. /\ m \in DownMessage
      /\ m.type \in {"clear", "workspaceClear", "setPane", "setSlot", "setActions"}
      /\ m.doc \in Docs
  BY TailElements, MessageFields DEF HandleFill, Take, StackInv
<1>2. /\ content' = IF IsOpen(m.doc) THEN [content EXCEPT ![m.doc] = Filled(content[m.doc], m)] ELSE content
      /\ drag' = IF IsOpen(m.doc) /\ m.type = "workspaceClear" THEN Unless(m.doc, drag, NoDrag) ELSE drag
      /\ UNCHANGED <<stack, menu, split, suppress, press>>
      /\ suppress \in BOOLEAN /\ press \in {"up", "down", "drag"}
  BY DEF HandleFill, popupVars, GestureInv
<1> HIDE DEF m
<1>3. /\ drag.at # Nowhere => drag.at.doc \in Range(stack')
      /\ menu.at # Nowhere => menu.at.doc \in Range(stack')
      /\ split.at # Nowhere => split.at.doc \in Range(stack')
  BY <1>2 DEF GestureInv, GesturesAreOnScreen, IsOpen
<1>4. drag' = drag /\ drag.at.pane # NoPane => drag.at.pane \in DOMAIN content'[drag.at.doc].panes
  <2> SUFFICES ASSUME drag' = drag, drag.at.pane # NoPane
               PROVE  drag.at.pane \in DOMAIN content'[drag.at.doc].panes
    OBVIOUS
  <2>1. drag.at.doc \in Docs /\ drag.at.pane \in DOMAIN content[drag.at.doc].panes /\ drag # NoDrag
    BY GestureFields, PlaceFields, NoGesture DEF GestureInv, GesturesAreOnScreen
  <2>2. CASE content'[drag.at.doc] = content[drag.at.doc]
    BY <2>1, <2>2
  <2>3. CASE IsOpen(m.doc) /\ drag.at.doc = m.doc
    <3>1. m.type # "workspaceClear"
      BY <1>2, <2>1, <2>3 DEF Unless
    <3>2. content'[m.doc] = Filled(content[m.doc], m)
      BY <1>1, <1>2, <2>3 DEF ContentInv
    <3>3. DOMAIN content[m.doc].panes \subseteq DOMAIN Filled(content[m.doc], m).panes
      BY <1>1, <3>1, FilledIsContent DEF ContentInv
    <3> QED
      BY <2>1, <2>3, <3>2, <3>3
  <2>4. ~(IsOpen(m.doc) /\ drag.at.doc = m.doc) => content'[drag.at.doc] = content[drag.at.doc]
    BY <1>1, <1>2, <2>1 DEF ContentInv
  <2> QED
    BY <2>2, <2>3, <2>4
<1>5. drag' \in {drag, NoDrag}
  BY <1>2 DEF Unless
<1> QED
  BY <1>2, <1>3, <1>4, <1>5, GestureKept

LEMMA ClientGesture == StackInv /\ ContentInv /\ GestureInv /\ ClientReceive => GestureInv'
<1> SUFFICES ASSUME StackInv, ContentInv, GestureInv, ClientReceive PROVE GestureInv'
  OBVIOUS
<1>1. suppress \in BOOLEAN /\ press \in {"up", "down", "drag"}
  BY DEF GestureInv
<1>2. CASE HandleClose
  <2>1. CASE IsOpen(Head(down).doc)
    <3>1. Head(down).doc \in Docs
      BY <2>1 DEF IsOpen, Range, StackInv
    <3> QED
      BY <1>2, <2>1, <3>1, CloseGesture DEF HandleClose
  <2>2. CASE ~IsOpen(Head(down).doc)
    <3>1. UNCHANGED <<stack, content, drag, menu, split, suppress, press>>
      BY <1>2, <2>2 DEF HandleClose
    <3> QED
      BY <1>1, <3>1, GestureQuiet
  <2> QED
    BY <2>1, <2>2
<1>3. CASE HandleCloseAll
  BY <1>1, <1>3, GestureKept DEF HandleCloseAll
<1> QED
  BY <1>2, <1>3, OpenGesture, FillGesture DEF ClientReceive

\* The other steps end gestures or leave them alone.
LEMMA GestureStep == StackInv /\ ContentInv /\ GestureInv /\ Next => GestureInv'
<1> SUFFICES ASSUME StackInv, ContentInv, GestureInv, Next PROVE GestureInv'
  OBVIOUS
<1>1. suppress \in BOOLEAN /\ press \in {"up", "down", "drag"}
  BY DEF GestureInv
<1>2. CASE UNCHANGED clientVars
  BY <1>1, <1>2, GestureQuiet DEF clientVars, dragVars, popupVars
<1>3. CASE Script \/ UiEvent \/ Ignore \/ Reset
  <2>1. UNCHANGED clientVars
    BY <1>3 DEF Script, OpenUi, CloseUi, Fill, CloseAllUi, UiEvent, Ignore, Reset
  <2> QED
    BY <1>2, <2>1
<1>4. CASE PlayerJoins
  <2>1. suppress' \in BOOLEAN /\ press' \in {"up", "down", "drag"}
    BY <1>4 DEF PlayerJoins
  <2> QED
    BY <1>4, <2>1, GestureKept DEF PlayerJoins
<1>5. CASE Render
  BY <1>1, <1>5, GestureQuiet DEF Render, dragVars
<1>6. CASE MouseMoves
  BY <1>1, <1>6, GestureQuiet DEF MouseMoves, popupVars
<1>7. CASE ReleaseUnused
  <2>1. suppress' \in BOOLEAN
    BY <1>7 DEF ReleaseUnused
  <2> QED
    BY <1>1, <1>7, <2>1, GestureQuiet DEF ReleaseUnused, Release
<1>8. CASE FinishDrag
  BY <1>1, <1>8, GestureQuiet DEF FinishDrag, ReleaseOnTop, Release, popupVars
<1>9. CASE RightUpEnds
  BY <1>1, <1>9, GestureQuiet DEF RightUpEnds
<1>10. CASE Escape
  <2>1. CASE CloseDocument(Top, TRUE)
    <3>1. Top \in Docs
      BY <1>10, TopIsOpen DEF Escape, StackInv
    <3> QED
      BY <1>10, <2>1, <3>1, CloseGesture DEF Escape
  <2>2. CASE UNCHANGED <<stack, content, drag>> /\ menu' \in {menu, NoMenu} /\ split' \in {split, NoSplit}
    BY <1>1, <1>10, <2>2, GestureQuiet DEF Escape
  <2> QED
    BY <1>10, <2>1, <2>2 DEF Escape
<1> QED
  BY <1>3, <1>4, <1>5, <1>6, <1>7, <1>8, <1>9, <1>10, ClientGesture, LeftDownGesture,
     BeginDragGesture, ClickGesture, RightUpOpensGesture DEF Next, Player

-----------------------------------------------------------------------------
(* Theorems. *)

LEMMA InvInit == Init => UiInv
<1> SUFFICES ASSUME Init PROVE UiInv
  OBVIOUS
<1>1. StackInv
  <2>1. <<>> \in Seq(Docs) /\ <<>> \in Seq(UpMessage) /\ <<>> \in Seq(DownMessage) /\ IsInjective(<<>>)
    BY DEF IsInjective
  <2> QED
    BY <2>1 DEF Init, StackInv, BelievedIsTold
<1>2. ContentInv
  BY NoContentIsContent DEF Init, ContentInv
<1>3. GestureInv
  BY NoGesture DEF Init, GestureInv, GesturesAreOnScreen, OneGesturePerDocument, SplitAmountBounded
<1> QED
  BY <1>1, <1>2, <1>3, InvParts

LEMMA InvStep == UiInv /\ [Next]_vars => UiInv'
<1> SUFFICES ASSUME UiInv, [Next]_vars PROVE UiInv'
  OBVIOUS
<1>1. StackInv /\ ContentInv /\ GestureInv
  BY InvParts
<1>2. CASE Next
  BY <1>1, <1>2, StackStep, ContentStep, GestureStep, InvPartsNext
<1>3. CASE UNCHANGED vars
  <2>1. StackInv'
    BY <1>1, <1>3, ReportStep DEF vars, clientVars
  <2>2. ContentInv'
    BY <1>1, <1>3 DEF vars, clientVars, ContentInv
  <2>3. GestureInv'
    BY <1>1, <1>3, GestureQuiet DEF vars, clientVars, dragVars, popupVars, GestureInv
  <2> QED
    BY <2>1, <2>2, <2>3, InvPartsNext
<1> QED
  BY <1>2, <1>3

\* The inductive invariant of the documents (CRmlUiManager): their state is
\* well-formed, gestures are about what is on the screen, and the queues tell of
\* what scripts believe open.
THEOREM UiInvariant == Spec => []UiInv
<1> QED
  BY InvInit, InvStep, PTL DEF Spec

\* A drag, a menu and a split dialog belong to a document on the screen, whatever
\* the server closes, clears and opens again (CloseDocument, HandleOpen,
\* HandleWorkspaceClear).
THEOREM GesturesStayOnScreen == Spec => []GesturesAreOnScreen
<1>1. UiInv => GesturesAreOnScreen
  BY DEF UiInv
<1> QED
  BY <1>1, UiInvariant, PTL

\* A document has one of them at a time, over all mouse and key paths
\* (HandleWndProc).
THEOREM OneGesture == Spec => []OneGesturePerDocument
<1>1. UiInv => OneGesturePerDocument
  BY DEF UiInv
<1> QED
  BY <1>1, UiInvariant, PTL

\* A split takes at least one and leaves at least one, for a stack of any size
\* (BeginSlotSplit and its dialog).
THEOREM SplitIsBounded == Spec => []SplitAmountBounded
<1>1. UiInv => SplitAmountBounded
  BY DEF UiInv
<1> QED
  BY <1>1, UiInvariant, PTL

\* Scripts learn of every document that the player closes, however closing and
\* reopening cross (CloseDocument, processUiEvent).
THEOREM ClosingIsTold == Spec => []ScriptsSeeClosing
<1>1. UiInv => ScriptsSeeClosing
  <2> SUFFICES ASSUME UiInv, up = <<>>, down = <<>>, ~lost PROVE believed \subseteq Range(stack)
    BY DEF ScriptsSeeClosing
  <2>1. DOMAIN up = {} /\ DOMAIN down = {}
    OBVIOUS
  <2>2. \A d \in believed : WillOpen(d) \/ StaysOpen(d)
    BY DEF UiInv, BelievedIsTold
  <2> QED
    BY <2>1, <2>2 DEF WillOpen, StaysOpen, IsOpen
<1> QED
  BY <1>1, UiInvariant, PTL

=============================================================================
