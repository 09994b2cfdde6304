-------------------------- MODULE TargetSessionProofs --------------------------
(***************************************************************************)
(* Proofs about TargetSession, for any targets, options, rows, limits and  *)
(* queues.  TargetInv is inductive; that a context is answered once and    *)
(* that the scripts know of the menu follow from it, and with it every     *)
(* step is one of ScriptMenu.  The types are kept with it, too, and from   *)
(* them that the two copies of a committed context agree: what is sent     *)
(* without the V2 payload is gathered by a fold, of which the proof needs  *)
(* that it keeps the rows one can pick among those of the context.         *)
(***************************************************************************)
EXTENDS TargetSession, FoldLemmas, TLAPS

(* Queues, of whatever messages. *)

\* Every sequence is one.
LEMMA SeqIsQueue ==
  ASSUME NEW S, NEW q \in Seq(S)
  PROVE  IsQueue(q)
<1>1. q \in [1..Len(q) -> S] /\ Len(q) \in Nat
  OBVIOUS
<1>2. \A i \in 1..Len(q) : q[i] \in Range(q)
  BY <1>1 DEF Range
<1>3. q \in [1..Len(q) -> Range(q)]
  BY <1>1, <1>2
<1>4. q \in Seq(Range(q))
  BY <1>1, <1>3
<1> QED
  BY <1>4 DEF IsQueue

\* Messages put behind others leave these where they are.
LEMMA ConcatElements ==
  ASSUME NEW q, NEW r, IsQueue(q), IsQueue(r)
  PROVE  /\ IsQueue(q \o r)
         /\ \A i \in DOMAIN q : i \in Nat /\ i <= Len(q) /\ i \in DOMAIN (q \o r) /\ (q \o r)[i] = q[i]
         /\ \A i \in DOMAIN r : i \in Nat /\ i >= 1 /\ Len(q) + i \in DOMAIN (q \o r)
                               /\ (q \o r)[Len(q) + i] = r[i]
         /\ \A i \in DOMAIN (q \o r) :
              i \in Nat /\ (i \in DOMAIN q \/ (i - Len(q) \in DOMAIN r /\ (q \o r)[i] = r[i - Len(q)]))
         /\ Len(q) \in Nat
<1> DEFINE S == Range(q) \cup Range(r)
<1>1. q \in Seq(S) /\ r \in Seq(S)
  BY DEF IsQueue
<1>2. q \o r \in Seq(S) /\ DOMAIN (q \o r) = 1..(Len(q) + Len(r))
      /\ \A i \in 1..(Len(q) + Len(r)) : (q \o r)[i] = IF i <= Len(q) THEN q[i] ELSE r[i - Len(q)]
  BY <1>1
<1>3. DOMAIN q = 1..Len(q) /\ DOMAIN r = 1..Len(r) /\ Len(q) \in Nat /\ Len(r) \in Nat
  BY <1>1
<1>4. IsQueue(q \o r)
  BY <1>2, SeqIsQueue
<1> QED
  BY <1>2, <1>3, <1>4

\* So does a single message.
LEMMA AppendElements ==
  ASSUME NEW q, NEW m, IsQueue(q)
  PROVE  /\ IsQueue(Append(q, m))
         /\ \A i \in DOMAIN Append(q, m) : (i \in DOMAIN q /\ Append(q, m)[i] = q[i]) \/ Append(q, m)[i] = m
<1> DEFINE S == Range(q) \cup {m}
<1>1. q \in Seq(S) /\ m \in S
  BY DEF IsQueue
<1>2. /\ Append(q, m) \in Seq(S) /\ DOMAIN Append(q, m) = 1..(Len(q) + 1)
      /\ \A i \in 1..(Len(q) + 1) : Append(q, m)[i] = IF i <= Len(q) THEN q[i] ELSE m
  BY <1>1
<1>3. DOMAIN q = 1..Len(q) /\ Len(q) \in Nat
  BY <1>1
<1>4. IsQueue(Append(q, m))
  BY <1>2, SeqIsQueue
<1> QED
  BY <1>2, <1>3, <1>4

\* Taking the first message moves the others up by one.
LEMMA TailElements ==
  ASSUME NEW q, IsQueue(q), q # <<>>
  PROVE  /\ IsQueue(Tail(q))
         /\ \A i \in DOMAIN q : i \in Nat /\ i >= 1
         /\ \A i \in DOMAIN Tail(q) : i \in Nat /\ i + 1 \in DOMAIN q /\ Tail(q)[i] = q[i + 1]
         /\ \A i \in DOMAIN q : i # 1 => i - 1 \in DOMAIN Tail(q) /\ Tail(q)[i - 1] = q[i]
         /\ 1 \in DOMAIN q /\ Head(q) = q[1]
<1> DEFINE S == Range(q)
<1>1. q \in Seq(S)
  BY DEF IsQueue
<1>2. /\ DOMAIN q = 1..Len(q) /\ Len(q) \in Nat /\ Len(q) # 0
      /\ DOMAIN Tail(q) = 1..(Len(q) - 1) /\ \A i \in 1..(Len(q) - 1) : Tail(q)[i] = q[i + 1]
      /\ Head(q) = q[1]
  BY <1>1
<1>3. Tail(q) \in Seq(Range(Tail(q)))
  <2>1. Tail(q) \in Seq(S) /\ Len(Tail(q)) = Len(q) - 1
    BY <1>1, <1>2
  <2> QED
    BY <2>1, SeqIsQueue DEF IsQueue
<1> QED
  BY <1>2, <1>3 DEF IsQueue

\* No message and one message.
LEMMA ShortSeqs == IsQueue(<<>>) /\ (\A m : IsQueue(<<m>>))
<1>1. <<>> \in Seq({}) /\ \A m : <<m>> \in Seq({m})
  OBVIOUS
<1> QED
  BY <1>1, SeqIsQueue

\* One message behind another or behind none.
LEMMA PairConcat ==
  ASSUME NEW m, NEW n
  PROVE  /\ IsQueue(<<m>> \o <<n>>) /\ DOMAIN (<<m>> \o <<n>>) = {1, 2} /\ (<<m>> \o <<n>>)[2] = n
         /\ IsQueue(<<>> \o <<n>>) /\ DOMAIN (<<>> \o <<n>>) = {1} /\ (<<>> \o <<n>>)[1] = n
<1>1. <<m>> \in Seq({m, n}) /\ <<n>> \in Seq({m, n}) /\ <<>> \in Seq({m, n})
  OBVIOUS
<1>2. /\ <<m>> \o <<n>> \in Seq({m, n}) /\ DOMAIN (<<m>> \o <<n>>) = {1, 2} /\ (<<m>> \o <<n>>)[2] = n
      /\ <<>> \o <<n>> \in Seq({m, n}) /\ DOMAIN (<<>> \o <<n>>) = {1} /\ (<<>> \o <<n>>)[1] = n
  BY <1>1
<1> QED
  BY <1>2, SeqIsQueue

-----------------------------------------------------------------------------
(* The invariant, one lemma per action or group of actions that change the   *)
(* same things.                                                              *)

\* What the two ends start from.
LEMMA InvFresh ==
  /\ NoContext \in Context /\ ~NoContext.active /\ Len(NoContext.options) <= MaxTargetRows
  /\ {"hasContext", "targetId", "fresh"} \subseteq DOMAIN NothingShown /\ ~NothingShown.hasContext
<1>1. NoContext.options = <<>> /\ <<>> \in Rows /\ Len(<<>>) = 0
  BY DEF NoContext, Rows
<1>2. NoContext \in Context /\ ~NoContext.active
  BY <1>1 DEF NoContext, Context
<1>3. Len(NoContext.options) <= MaxTargetRows
  BY <1>1, TargetAssumption
<1>4. {"hasContext", "targetId", "fresh"} \subseteq DOMAIN NothingShown /\ ~NothingShown.hasContext
  BY DEF NothingShown
<1> QED
  BY <1>2, <1>3, <1>4

\* The invariant holds at the start,
LEMMA InvInit == Init => TargetInv
<1> SUFFICES ASSUME Init PROVE TargetInv
  OBVIOUS
<1>1. up = <<>> /\ down = <<>> /\ context = NoContext /\ client = NothingShown
      /\ ~menuOpen /\ ~shown /\ selections = 0 /\ menuOpen = shown /\ menuOpen \in BOOLEAN
  BY DEF Init
<1>2. StateIsFormed
  BY <1>1, InvFresh, ShortSeqs DEF StateIsFormed
<1>3. OfferIsOpen /\ MenuHasTarget /\ ModeIsTold
  BY <1>1, InvFresh DEF OfferIsOpen, MenuHasTarget, ModeIsTold
<1> QED
  BY <1>2, <1>3 DEF TargetInv

\* and once more after another connection.
LEMMA PlayerJoinsStep ==
  ASSUME PlayerJoins
  PROVE  TargetInv'
<1>1. up' = <<>> /\ down' = <<>> /\ context' = NoContext /\ client' = NothingShown
      /\ ~menuOpen' /\ ~shown' /\ selections' = 0 /\ menuOpen' = shown' /\ menuOpen' \in BOOLEAN
  BY DEF PlayerJoins
<1>2. StateIsFormed'
  BY <1>1, InvFresh, ShortSeqs DEF StateIsFormed, IsQueue
<1>3. OfferIsOpen' /\ MenuHasTarget' /\ ModeIsTold'
  BY <1>1, InvFresh DEF OfferIsOpen, MenuHasTarget, ModeIsTold
<1> QED
  BY <1>2, <1>3 DEF TargetInv

\* A step of the component alone leaves the reports and the screen; what it
\* sends of a context is for a target.
LEMMA ComponentStep ==
  ASSUME TargetInv, UNCHANGED <<clientVars, up, shown, lost>>,
         context' \in Context, Len(context'.options) <= MaxTargetRows, OfferIsOpen',
         \/ UNCHANGED down
         \/ \E m : (m.type = "set" => m.targetId \in Targets) /\ down' = Append(down, m)
  PROVE  TargetInv'
<1>1. IsQueue(down)' /\ (\A i \in DOMAIN down : down[i].type = "set" => down[i].targetId \in Targets)'
  <2>1. IsQueue(down) /\ \A i \in DOMAIN down : down[i].type = "set" => down[i].targetId \in Targets
    BY DEF TargetInv, StateIsFormed
  <2>2. CASE UNCHANGED down
    BY <2>1, <2>2 DEF IsQueue
  <2>3. CASE \E m : (m.type = "set" => m.targetId \in Targets) /\ down' = Append(down, m)
    <3>1. PICK m : (m.type = "set" => m.targetId \in Targets) /\ down' = Append(down, m)
      BY <2>3
    <3>2. IsQueue(down')
      BY <2>1, <3>1, AppendElements
    <3>3. \A i \in DOMAIN down' : (i \in DOMAIN down /\ down'[i] = down[i]) \/ down'[i] = m
      BY <2>1, <3>1, AppendElements
    <3> QED
      BY <2>1, <3>1, <3>2, <3>3 DEF IsQueue
  <2> QED
    BY <2>2, <2>3
<1>2. StateIsFormed'
  BY <1>1 DEF TargetInv, StateIsFormed, IsQueue, clientVars
<1>3. MenuHasTarget' /\ ModeIsTold'
  BY DEF TargetInv, MenuHasTarget, ModeIsTold, clientVars
<1> QED
  BY <1>2, <1>3 DEF TargetInv

\* The clear message is of no target.
LEMMA ClearSent ==
  ASSUME Send(ClearMessage)
  PROVE  \E m : (m.type = "set" => m.targetId \in Targets) /\ down' = Append(down, m)
  BY DEF Send, ClearMessage

\* A new context is unanswered.
LEMMA BeginContextStep ==
  ASSUME TargetInv, NEW t \in Targets, NEW advanced \in BOOLEAN, NEW direct \in DirectFlags,
         BeginContext(t, advanced, direct)
  PROVE  TargetInv'
<1>1. context'.options = <<>> /\ <<>> \in Rows /\ Len(<<>>) = 0
  BY DEF BeginContext, Rows
<1>2. context' \in Context /\ Len(context'.options) <= MaxTargetRows
  BY <1>1, TargetAssumption DEF BeginContext, Context
<1> QED
  BY <1>2, ComponentStep DEF BeginContext, OfferIsOpen

\* What is offered, and whether it was answered, stays.
LEMMA ContextKept ==
  ASSUME TargetInv, context' \in Context, context'.active = context.active,
         context'.targetId = context.targetId, context'.options = context.options,
         UNCHANGED <<selections, clientVars, up, down, shown, lost>>
  PROVE  TargetInv'
<1>1. OfferIsOpen' /\ Len(context'.options) <= MaxTargetRows
  BY DEF TargetInv, StateIsFormed, OfferIsOpen
<1> QED
  BY <1>1, ComponentStep

\* A layout or a description only changes how the context is sent.
LEMMA MakeAdvancedStep ==
  ASSUME TargetInv, NEW t \in Targets, MakeAdvanced(t)
  PROVE  TargetInv'
  BY ContextKept DEF MakeAdvanced, TargetInv, StateIsFormed, Context

\* A context whose time is over is still the one that was begun.
LEMMA ContextExpiresStep ==
  ASSUME TargetInv, ContextExpires
  PROVE  TargetInv'
  BY ContextKept DEF ContextExpires, TargetInv, StateIsFormed, Context

\* There is room for the row.
LEMMA AddRowStep ==
  ASSUME TargetInv, NEW t \in Targets, NEW row \in RowInputs, AddRow(t, row)
  PROVE  TargetInv'
<1>1. row \in Row /\ context.options \in Seq(Row) /\ Len(context.options) < MaxTargetRows
  BY TargetAssumption DEF AddRow, TargetInv, StateIsFormed, Context, Rows
<1>2. Append(context.options, row) \in Seq(Row) /\ Len(Append(context.options, row)) <= MaxTargetRows
  BY <1>1, TargetAssumption
<1>3. /\ context' \in Context /\ context'.active = context.active
      /\ context'.targetId = context.targetId /\ context'.options = Append(context.options, row)
      /\ UNCHANGED <<selections, clientVars, up, down, shown, lost>>
  BY <1>2 DEF AddRow, TargetInv, StateIsFormed, Context, Rows
<1>4. OfferIsOpen' /\ Len(context'.options) <= MaxTargetRows
  BY <1>2, <1>3 DEF TargetInv, OfferIsOpen
<1> QED
  BY <1>3, <1>4, ComponentStep

\* What is sent is for the target of the context.
LEMMA CommitContextStep ==
  ASSUME TargetInv, NEW t \in Targets, CommitContext(t)
  PROVE  TargetInv'
<1>1. /\ context' \in Context /\ context'.active = context.active
      /\ context'.targetId = context.targetId /\ context'.options = context.options
      /\ UNCHANGED <<selections, clientVars, up, shown, lost>>
  BY DEF CommitContext, TargetInv, StateIsFormed, Context
<1>2. OfferIsOpen' /\ Len(context'.options) <= MaxTargetRows
  BY <1>1 DEF TargetInv, StateIsFormed, OfferIsOpen
<1>3. \/ UNCHANGED down
      \/ \E m : (m.type = "set" => m.targetId \in Targets) /\ down' = Append(down, m)
  BY DEF CommitContext, Send
<1> QED
  BY <1>1, <1>2, <1>3, ComponentStep

\* Without a context nothing is on offer; the client is told or not.
LEMMA ClearContextStep ==
  ASSUME TargetInv, ClearContext \/ Reset
  PROVE  TargetInv'
<1>1. context' = NoContext /\ UNCHANGED <<selections, clientVars, up, shown, lost>>
  BY DEF ClearContext, Reset
<1>2. context' \in Context /\ ~context'.active /\ Len(context'.options) <= MaxTargetRows
  BY <1>1, InvFresh
<1>3. OfferIsOpen'
  BY <1>1, <1>2 DEF TargetInv, OfferIsOpen
<1>4. \/ UNCHANGED down
      \/ \E m : (m.type = "set" => m.targetId \in Targets) /\ down' = Append(down, m)
  BY ClearSent DEF ClearContext, Reset
<1> QED
  BY <1>1, <1>2, <1>3, <1>4, ComponentStep

-----------------------------------------------------------------------------
(* Reports. *)

\* A report of the mode, put last, tells of the menu as the step leaves it; other
\* messages tell nothing and are put behind when it stays.
LEMMA ReportTells ==
  ASSUME TargetInv, NEW r, IsQueue(r), up' = up \o r, UNCHANGED <<shown, lost>>,
         \/ UNCHANGED menuOpen /\ \A i \in DOMAIN r : r[i].type # "mode"
         \/ \E k \in DOMAIN r : /\ r[k].type = "mode" /\ r[k].opened = menuOpen'
                                /\ \A j \in DOMAIN r : j > k => r[j].type # "mode"
  PROVE  IsQueue(up') /\ ModeIsTold'
<1>1. IsQueue(up)
  BY DEF TargetInv, StateIsFormed
<1>2. /\ IsQueue(up')
      /\ \A i \in DOMAIN up : i \in Nat /\ i <= Len(up) /\ i \in DOMAIN up' /\ up'[i] = up[i]
      /\ \A i \in DOMAIN r : i \in Nat /\ i >= 1 /\ Len(up) + i \in DOMAIN up' /\ up'[Len(up) + i] = r[i]
      /\ \A i \in DOMAIN up' : i \in Nat /\ (i \in DOMAIN up \/ (i - Len(up) \in DOMAIN r /\ up'[i] = r[i - Len(up)]))
      /\ Len(up) \in Nat
  BY <1>1, ConcatElements
<1>3. CASE UNCHANGED menuOpen /\ \A i \in DOMAIN r : r[i].type # "mode"
  <2> SUFFICES ASSUME ~lost
               PROVE  \/ shown = menuOpen /\ \A i \in DOMAIN up' : up'[i].type # "mode"
                      \/ \E i \in DOMAIN up' : /\ up'[i].type = "mode" /\ up'[i].opened = menuOpen
                                               /\ \A j \in DOMAIN up' : j > i => up'[j].type # "mode"
    BY <1>2, <1>3 DEF ModeIsTold
  <2>1. CASE shown = menuOpen /\ \A i \in DOMAIN up : up[i].type # "mode"
    BY <1>2, <1>3, <2>1
  <2>2. CASE \E i \in DOMAIN up : /\ up[i].type = "mode" /\ up[i].opened = menuOpen
                                  /\ \A j \in DOMAIN up : j > i => up[j].type # "mode"
    <3>1. PICK i \in DOMAIN up : /\ up[i].type = "mode" /\ up[i].opened = menuOpen
                                 /\ \A j \in DOMAIN up : j > i => up[j].type # "mode"
      BY <2>2
    <3>2. \A j \in DOMAIN up' : j > i => up'[j].type # "mode"
      BY <1>2, <1>3, <3>1
    <3> QED
      BY <1>2, <3>1, <3>2
  <2> QED
    BY <2>1, <2>2 DEF TargetInv, ModeIsTold
<1>4. CASE \E k \in DOMAIN r : /\ r[k].type = "mode" /\ r[k].opened = menuOpen'
                               /\ \A j \in DOMAIN r : j > k => r[j].type # "mode"
  <2>1. PICK k \in DOMAIN r : /\ r[k].type = "mode" /\ r[k].opened = menuOpen'
                              /\ \A j \in DOMAIN r : j > k => r[j].type # "mode"
    BY <1>4
  <2>2. Len(up) + k \in DOMAIN up' /\ up'[Len(up) + k] = r[k]
    BY <1>2
  <2>3. \A j \in DOMAIN up' : j > Len(up) + k => up'[j].type # "mode"
    <3> SUFFICES ASSUME NEW j \in DOMAIN up', j > Len(up) + k PROVE up'[j].type # "mode"
      OBVIOUS
    <3>1. j \notin DOMAIN up
      BY <1>2
    <3>2. j - Len(up) \in DOMAIN r /\ up'[j] = r[j - Len(up)] /\ j - Len(up) > k
      BY <1>2, <3>1
    <3> QED
      BY <2>1, <3>2
  <2> QED
    BY <1>2, <2>1, <2>2, <2>3 DEF ModeIsTold
<1> QED
  BY <1>2, <1>3, <1>4

\* What the component processes of a mode report is what the scripts see; what it
\* ignores is lost.
LEMMA ReceiveTells ==
  ASSUME TargetInv, Receive, UNCHANGED menuOpen,
         \/ lost' = TRUE
         \/ UNCHANGED lost /\ shown' = IF Head(up).type = "mode" THEN Head(up).opened ELSE shown
  PROVE  IsQueue(up') /\ ModeIsTold'
<1>1. IsQueue(up) /\ up # <<>> /\ up' = Tail(up)
  BY DEF TargetInv, StateIsFormed, Receive
<1>2. /\ IsQueue(up')
      /\ \A i \in DOMAIN up : i \in Nat /\ i >= 1
      /\ \A i \in DOMAIN up' : i \in Nat /\ i + 1 \in DOMAIN up /\ up'[i] = up[i + 1]
      /\ \A i \in DOMAIN up : i # 1 => i - 1 \in DOMAIN up' /\ up'[i - 1] = up[i]
      /\ 1 \in DOMAIN up /\ Head(up) = up[1]
  BY <1>1, TailElements
<1> SUFFICES ASSUME ~lost'
             PROVE  \/ shown' = menuOpen /\ \A i \in DOMAIN up' : up'[i].type # "mode"
                    \/ \E i \in DOMAIN up' : /\ up'[i].type = "mode" /\ up'[i].opened = menuOpen
                                             /\ \A j \in DOMAIN up' : j > i => up'[j].type # "mode"
  BY <1>2 DEF ModeIsTold
<1>3. ~lost /\ shown' = IF Head(up).type = "mode" THEN Head(up).opened ELSE shown
  OBVIOUS
<1>4. CASE shown = menuOpen /\ \A i \in DOMAIN up : up[i].type # "mode"
  BY <1>2, <1>3, <1>4
<1>5. CASE \E i \in DOMAIN up : /\ up[i].type = "mode" /\ up[i].opened = menuOpen
                                /\ \A j \in DOMAIN up : j > i => up[j].type # "mode"
  <2>1. PICK i \in DOMAIN up : /\ up[i].type = "mode" /\ up[i].opened = menuOpen
                               /\ \A j \in DOMAIN up : j > i => up[j].type # "mode"
    BY <1>5
  <2>2. \A j \in DOMAIN up' : j > i - 1 => up'[j].type # "mode"
    BY <1>2, <2>1
  <2>3. CASE i = 1
    BY <1>2, <1>3, <2>1, <2>2, <2>3
  <2>4. CASE i # 1
    BY <1>2, <2>1, <2>2, <2>4
  <2> QED
    BY <2>3, <2>4
<1> QED
  BY <1>3, <1>4, <1>5 DEF TargetInv, ModeIsTold

\* Whatever ends the context on the client reports the menu it closes.
LEMMA ClearUnlockedTells ==
  ASSUME TargetInv, NEW messages,
         messages = <<>> \/ \E m : m.type # "mode" /\ messages = <<m>>,
         ClearContextUnlocked(messages), UNCHANGED <<shown, lost>>
  PROVE  IsQueue(up') /\ ModeIsTold' /\ MenuHasTarget' /\ client' = NothingShown
<1>1. client' = NothingShown /\ menuOpen' = FALSE /\ up' = up \o (messages \o Closing)
  BY DEF ClearContextUnlocked, Report
<1>2. MenuHasTarget'
  BY <1>1, InvFresh DEF MenuHasTarget
<1>3. CASE menuOpen
  <2> DEFINE n == Mode(FALSE)
  <2>1. Closing = <<n>> /\ n.type = "mode" /\ n.opened = menuOpen'
    BY <1>1, <1>3, TargetAssumption DEF Closing, Mode, TargetInv, MenuHasTarget
  <2> HIDE DEF n
  <2>2. PICK r : r = messages \o Closing
    OBVIOUS
  <2>3. /\ IsQueue(r)
        /\ \E k \in DOMAIN r : /\ r[k].type = "mode" /\ r[k].opened = menuOpen'
                               /\ \A j \in DOMAIN r : j > k => r[j].type # "mode"
    <3>1. CASE messages = <<>>
      <4>1. r = <<>> \o <<n>>
        BY <2>1, <2>2, <3>1
      <4> QED
        BY <2>1, <4>1, PairConcat
    <3>2. CASE \E m : m.type # "mode" /\ messages = <<m>>
      <4>1. PICK m : r = <<m>> \o <<n>>
        BY <2>1, <2>2, <3>2
      <4>2. IsQueue(r) /\ DOMAIN r = {1, 2} /\ r[2] = n
        BY <4>1, PairConcat
      <4>3. 2 \in DOMAIN r /\ \A j \in DOMAIN r : ~(j > 2)
        BY <4>2
      <4> QED
        BY <2>1, <4>2, <4>3
    <3> QED
      BY <3>1, <3>2
  <2>4. IsQueue(up') /\ ModeIsTold'
    BY <1>1, <2>2, <2>3, ReportTells
  <2> QED
    BY <1>1, <1>2, <2>4
<1>4. CASE ~menuOpen
  <2>1. messages \o Closing = messages /\ IsQueue(messages)
        /\ \A i \in DOMAIN messages : messages[i].type # "mode"
    <3>1. Closing = <<>>
      BY <1>4 DEF Closing
    <3>2. CASE messages = <<>>
      BY <3>1, <3>2, ShortSeqs
    <3>3. CASE \E m : m.type # "mode" /\ messages = <<m>>
      BY <3>1, <3>3, ShortSeqs
    <3> QED
      BY <3>2, <3>3
  <2>2. UNCHANGED menuOpen
    BY <1>1, <1>4 DEF TargetInv, StateIsFormed
  <2> QED
    BY <1>1, <1>2, <2>1, <2>2, ReportTells
<1> QED
  BY <1>3, <1>4

-----------------------------------------------------------------------------
(* The component receives; the client acts. *)

\* A report is accepted, refused, passed on or ignored.
LEMMA ReceiveStep ==
  ASSUME TargetInv, ServerReceive
  PROVE  TargetInv'
<1>1. Receive /\ UNCHANGED <<client, menuOpen>>
  BY DEF ServerReceive, AcceptSelect, RejectSelect, TargetMode, Ignore, clientVars
<1>2. \/ lost' = TRUE
      \/ UNCHANGED lost /\ shown' = IF Head(up).type = "mode" THEN Head(up).opened ELSE shown
  BY DEF ServerReceive, AcceptSelect, RejectSelect, TargetMode, Ignore
<1>3. IsQueue(up') /\ ModeIsTold'
  BY <1>1, <1>2, ReceiveTells
<1>4. MenuHasTarget'
  BY <1>1 DEF TargetInv, MenuHasTarget
<1>5. CASE AcceptSelect
  <2>1. context.active
    BY <1>5 DEF AcceptSelect, Accepts, IsContext
  <2>2. context' = NoContext /\ selections' = 1
    BY <1>5, <2>1 DEF AcceptSelect, TargetInv, OfferIsOpen
  <2>3. OfferIsOpen'
    BY <2>2, InvFresh DEF OfferIsOpen
  <2>4. IsQueue(down) /\ down' = Append(down, ClearMessage) /\ ClearMessage.type = "clear"
    BY <1>5 DEF AcceptSelect, Send, ClearMessage, TargetInv, StateIsFormed
  <2>5. IsQueue(down') /\ \A i \in DOMAIN down' : down'[i].type = "set" => down'[i].targetId \in Targets
    BY <2>4, AppendElements DEF TargetInv, StateIsFormed
  <2>6. StateIsFormed'
    BY <1>1, <1>3, <2>2, <2>5, InvFresh DEF TargetInv, StateIsFormed, IsQueue
  <2> QED
    BY <1>3, <1>4, <2>3, <2>6 DEF TargetInv
<1>6. CASE RejectSelect \/ TargetMode \/ Ignore
  <2>1. UNCHANGED <<context, selections, down>>
    BY <1>6 DEF RejectSelect, TargetMode, Ignore, serverVars
  <2>2. StateIsFormed' /\ OfferIsOpen'
    BY <1>1, <1>3, <2>1 DEF TargetInv, StateIsFormed, OfferIsOpen, IsQueue
  <2> QED
    BY <1>3, <1>4, <2>2 DEF TargetInv
<1> QED
  BY <1>5, <1>6 DEF ServerReceive

\* A step of the client leaves the context; it may take a message.
LEMMA ClientStep ==
  ASSUME TargetInv, UNCHANGED <<context, selections>>,
         UNCHANGED down \/ (down # <<>> /\ down' = Tail(down)),
         IsQueue(up'), menuOpen' \in BOOLEAN, ModeIsTold', MenuHasTarget',
         {"hasContext", "targetId", "fresh"} \subseteq DOMAIN client'
  PROVE  TargetInv'
<1>1. IsQueue(down') /\ \A i \in DOMAIN down' : down'[i].type = "set" => down'[i].targetId \in Targets
  <2>1. IsQueue(down) /\ \A i \in DOMAIN down : down[i].type = "set" => down[i].targetId \in Targets
    BY DEF TargetInv, StateIsFormed
  <2>2. CASE UNCHANGED down
    BY <2>1, <2>2 DEF IsQueue
  <2>3. CASE down # <<>> /\ down' = Tail(down)
    BY <2>1, <2>3, TailElements
  <2> QED
    BY <2>2, <2>3
<1>2. StateIsFormed' /\ OfferIsOpen'
  BY <1>1 DEF TargetInv, StateIsFormed, OfferIsOpen, IsQueue
<1> QED
  BY <1>2 DEF TargetInv

\* An open menu stays on the screen, for the target of the message.
LEMMA HandleSetContextStep ==
  ASSUME TargetInv, HandleSetContext
  PROVE  TargetInv'
<1>1. /\ down # <<>> /\ Head(down).type = "set" /\ down' = Tail(down)
      /\ UNCHANGED <<context, selections, menuOpen, up, shown, lost>>
  BY DEF HandleSetContext, serverVars
<1>2. Head(down).targetId \in Targets
  BY <1>1, TailElements DEF TargetInv, StateIsFormed
<1>3. /\ client'.targetId = Head(down).targetId
      /\ {"hasContext", "targetId", "fresh"} \subseteq DOMAIN client'
  BY DEF HandleSetContext
<1>4. MenuHasTarget' /\ ModeIsTold' /\ IsQueue(up') /\ menuOpen' \in BOOLEAN
  BY <1>1, <1>2, <1>3 DEF TargetInv, StateIsFormed, MenuHasTarget, ModeIsTold, IsQueue
<1> QED
  BY <1>1, <1>3, <1>4, ClientStep

\* A message, build mode, time or a pick ends the context.
LEMMA ContextEndsStep ==
  ASSUME TargetInv, HandleClearContext \/ BuildOpens \/ DropContext \/ ClickRow \/ DirectSelect
  PROVE  TargetInv'
<1>1. /\ UNCHANGED <<context, selections, shown, lost>>
      /\ UNCHANGED down \/ (down # <<>> /\ down' = Tail(down))
  BY DEF HandleClearContext, BuildOpens, DropContext, ClickRow, DirectSelect, SendSelect, serverVars
<1>2. PICK messages : /\ messages = <<>> \/ \E m : m.type # "mode" /\ messages = <<m>>
                      /\ ClearContextUnlocked(messages)
  <2>1. CASE HandleClearContext \/ BuildOpens \/ DropContext
    BY <2>1 DEF HandleClearContext, BuildOpens, DropContext
  <2>2. CASE ClickRow \/ DirectSelect
    <3>1. PICK option : SendSelect(option)
      BY <2>2 DEF ClickRow, DirectSelect
    <3> DEFINE m == [type |-> "select", targetId |-> client.targetId, option |-> option, opened |-> FALSE]
    <3>2. m.type # "mode" /\ ClearContextUnlocked(<<m>>)
      BY <3>1 DEF SendSelect
    <3> QED
      BY <3>2
  <2> QED
    BY <2>1, <2>2
<1>3. IsQueue(up') /\ ModeIsTold' /\ MenuHasTarget' /\ client' = NothingShown
  BY <1>1, <1>2, ClearUnlockedTells
<1>4. menuOpen' \in BOOLEAN
  BY <1>2 DEF ClearContextUnlocked
<1> QED
  BY <1>1, <1>3, <1>4, InvFresh, ClientStep

\* Its time is over, and the menu with it at the next frame.
LEMMA ClientContextExpiresStep ==
  ASSUME TargetInv, ClientContextExpires
  PROVE  TargetInv'
<1>1. /\ UNCHANGED <<context, selections, menuOpen, up, down, shown, lost>>
      /\ client' = [client EXCEPT !.fresh = FALSE]
  BY DEF ClientContextExpires, serverVars
<1>2. /\ {"hasContext", "targetId", "fresh"} \subseteq DOMAIN client'
      /\ client'.hasContext = client.hasContext /\ client'.targetId = client.targetId
  BY <1>1 DEF TargetInv, StateIsFormed
<1>3. MenuHasTarget' /\ ModeIsTold' /\ IsQueue(up') /\ menuOpen' \in BOOLEAN
  BY <1>1, <1>2 DEF TargetInv, StateIsFormed, MenuHasTarget, ModeIsTold, IsQueue
<1> QED
  BY <1>1, <1>2, <1>3, ClientStep

\* The menu opens and closes, and each time reports it.
LEMMA MenuStep ==
  ASSUME TargetInv, OpenMenu \/ SuspendMenu \/ CloseMenu
  PROVE  TargetInv'
<1>1. UNCHANGED <<context, selections, down, shown, lost>> /\ client.hasContext
  BY DEF OpenMenu, SuspendMenu, CloseMenu, HasValidContext, serverVars
<1>2. client.targetId \in Targets /\ client.targetId # NoTarget
  BY <1>1, TargetAssumption DEF TargetInv, MenuHasTarget
<1>3. PICK n : n.type = "mode" /\ n.opened = menuOpen' /\ up' = up \o <<n>> /\ menuOpen' \in BOOLEAN
  <2>1. CASE OpenMenu
    <3>1. Mode(TRUE).type = "mode" /\ Mode(TRUE).opened = TRUE
      BY DEF Mode
    <3> QED
      BY <2>1, <3>1 DEF OpenMenu, Report
  <2>2. CASE SuspendMenu \/ CloseMenu
    <3>1. Mode(FALSE).type = "mode" /\ Mode(FALSE).opened = FALSE
      BY DEF Mode
    <3> QED
      BY <1>2, <2>2, <3>1 DEF SuspendMenu, CloseMenu, Report, Closing
  <2> QED
    BY <2>1, <2>2
<1>4. IsQueue(up') /\ ModeIsTold'
  <2>1. PICK r : r = <<n>>
    OBVIOUS
  <2>2. IsQueue(r) /\ 1 \in DOMAIN r /\ r[1] = n /\ \A j \in DOMAIN r : ~(j > 1)
    BY <2>1, ShortSeqs
  <2>3. \E k \in DOMAIN r : /\ r[k].type = "mode" /\ r[k].opened = menuOpen'
                            /\ \A j \in DOMAIN r : j > k => r[j].type # "mode"
    BY <1>3, <2>2
  <2> QED
    BY <1>1, <1>3, <2>1, <2>2, <2>3, ReportTells
<1>5. /\ {"hasContext", "targetId", "fresh"} \subseteq DOMAIN client'
      /\ client'.targetId = client.targetId
  BY DEF OpenMenu, SuspendMenu, CloseMenu, TargetInv, StateIsFormed
<1>6. MenuHasTarget'
  BY <1>2, <1>5 DEF MenuHasTarget
<1> QED
  BY <1>1, <1>3, <1>4, <1>5, <1>6, ClientStep

\* A step that changes nothing.
LEMMA StutterStep ==
  ASSUME TargetInv, UNCHANGED vars
  PROVE  TargetInv'
  BY DEF TargetInv, vars, serverVars, clientVars, StateIsFormed, OfferIsOpen, MenuHasTarget,
         ModeIsTold, IsQueue

\* Every step keeps the invariant.
LEMMA InvStep == TargetInv /\ [Next]_vars => TargetInv'
<1> SUFFICES ASSUME TargetInv, [Next]_vars PROVE TargetInv'
  OBVIOUS
<1>1. CASE Script
  BY <1>1, BeginContextStep, MakeAdvancedStep, CommitContextStep, AddRowStep, ClearContextStep DEF Script
<1>2. CASE ServerReceive
  BY <1>2, ReceiveStep
<1>3. CASE Reset \/ PlayerJoins
  BY <1>3, ClearContextStep, PlayerJoinsStep
<1>4. CASE ContextExpires
  BY <1>4, ContextExpiresStep
<1>5. CASE ClientReceive \/ BuildOpens \/ ClientContextExpires \/ DropContext
  BY <1>5, HandleSetContextStep, ContextEndsStep, ClientContextExpiresStep DEF ClientReceive
<1>6. CASE Player
  BY <1>6, MenuStep, ContextEndsStep DEF Player
<1>7. CASE UNCHANGED vars
  BY <1>7, StutterStep
<1> QED
  BY <1>1, <1>2, <1>3, <1>4, <1>5, <1>6, <1>7 DEF Next

-----------------------------------------------------------------------------
(* Rows of a message without the V2 payload. *)

\* A row more offers what it offers, if anything.
LEMMA PickableAppend ==
  ASSUME NEW rows \in Seq(Row), NEW row \in Row
  PROVE  Pickable(Append(rows, row))
           = Pickable(rows) \cup IF row.enabled /\ IsSelectable(row.type) THEN {row.id} ELSE {}
<1>1. Range(Append(rows, row)) = Range(rows) \cup {row}
  <2>1. /\ DOMAIN Append(rows, row) = 1..(Len(rows) + 1) /\ DOMAIN rows = 1..Len(rows) /\ Len(rows) \in Nat
        /\ \A i \in 1..Len(rows) : Append(rows, row)[i] = rows[i]
        /\ Append(rows, row)[Len(rows) + 1] = row
    OBVIOUS
  <2> QED
    BY <2>1 DEF Range
<1>2. Pickable(Append(rows, row))
        = Pickable(rows) \cup {r.id : r \in {q \in {row} : q.enabled /\ IsSelectable(q.type)}}
  BY <1>1 DEF Pickable
<1> QED
  BY <1>2

\* A row that is enabled and selectable is one to pick.
LEMMA PickableRow ==
  ASSUME NEW rows \in Seq(Row), NEW i \in DOMAIN rows, rows[i].enabled, IsSelectable(rows[i].type)
  PROVE  rows[i].id \in Pickable(rows)
  BY DEF Pickable, Range

\* What is sent of a row is a row with its id, and one to pick only if it is.
LEMMA LegacyRowKept ==
  ASSUME NEW r \in Row
  PROVE  /\ LegacyRow(r) \in Row /\ LegacyRow(r).id = r.id
         /\ LegacyRow(r).enabled => r.enabled /\ IsSelectable(r.type)
<1>1. PICK on \in BOOLEAN : on <=> r.enabled /\ IsSelectable(r.type)
  OBVIOUS
<1>2. LegacyRow(r) = [id |-> r.id, type |-> IF on THEN "action" ELSE "disabled",
                      enabled |-> r.enabled /\ IsSelectable(r.type)]
  BY <1>1 DEF LegacyRow
<1>3. (r.enabled /\ IsSelectable(r.type)) \in BOOLEAN
  BY DEF IsSelectable, Row
<1>4. r.id \in Options \cup {NoOption} /\ (IF on THEN "action" ELSE "disabled") \in RowTypes
  BY DEF Row, RowTypes
<1>5. LegacyRow(r) \in Row
  BY <1>2, <1>3, <1>4 DEF Row
<1>6. LegacyRow(r).id = r.id /\ LegacyRow(r).enabled = (r.enabled /\ IsSelectable(r.type))
  BY <1>2
<1> QED
  BY <1>5, <1>6

\* What the fold of LegacyOptions has gathered of the rows at some of the places.
IsGathering(f, rows) ==
  f = [t \in SUBSET DOMAIN rows |->
        IF t = {} THEN <<>>
        ELSE LET i == Max(t)
             IN  IF Len(f[t \ {i}]) < MaxTargetOptions /\ rows[i].type # "divider" /\ rows[i].id # NoOption
                 THEN Append(f[t \ {i}], LegacyRow(rows[i])) ELSE f[t \ {i}]]

\* That is what the fold of the library computes,
LEMMA GatheringIsFold ==
  ASSUME NEW rows
  PROVE  LegacyOptions(rows) = (CHOOSE f : IsGathering(f, rows))[DOMAIN rows]
  BY Zenon DEF LegacyOptions, FoldLeft, MapThenFoldSet, IsGathering

\* A set of places has a last one.
LEMMA MaxIsPick ==
  ASSUME NEW n \in Nat
  PROVE  \A t \in SUBSET (1..n) : t # {} => Max(t) \in t
<1> DEFINE D == 1..n
           Good == {t \in SUBSET D : t # {} => \E x \in t : \A y \in t : x >= y}
<1>1. ASSUME NEW t \in SUBSET D, \A u \in SUBSET t : u # t => u \in Good
      PROVE  t \in Good
  <2> SUFFICES ASSUME t # {} PROVE \E x \in t : \A y \in t : x >= y
    OBVIOUS
  <2>1. PICK x \in t : TRUE
    OBVIOUS
  <2>2. CASE t = {x}
    BY <2>2
  <2>3. CASE t # {x}
    <3>1. t \ {x} \in Good /\ t \ {x} # {}
      BY <1>1, <2>1, <2>3
    <3>2. PICK z \in t \ {x} : \A y \in t \ {x} : z >= y
      BY <3>1
    <3>3. CASE z >= x
      BY <3>2, <3>3
    <3>4. CASE ~(z >= x)
      <4>1. \A y \in t : x >= y
        BY <3>2, <3>4
      <4> QED
        BY <4>1
    <3> QED
      BY <3>3, <3>4
  <2> QED
    BY <2>2, <2>3
<1> HIDE DEF Good
<1>2. IsFiniteSet(D)
  BY FS_Interval
<1>3. SUBSET D \subseteq Good
  <2> HIDE DEF D
  <2> QED
    BY <1>1, <1>2, SubsetInduction, Zenon
<1>4. ASSUME NEW t \in SUBSET (1..n), t # {}
      PROVE  Max(t) \in t
  <2>1. \E x \in t : \A y \in t : x >= y
    BY <1>3, <1>4 DEF Good
  <2> QED
    BY <2>1 DEF Max
<1> QED
  BY <1>4

\* and a function that does so exists, since the places are finitely many.
LEMMA GatheringExists ==
  ASSUME NEW rows \in Seq(Row)
  PROVE  \E f \in [SUBSET DOMAIN rows -> Seq(Row)] : IsGathering(f, rows)
<1> DEFINE D == DOMAIN rows
           pick == [t \in SUBSET D |-> Max(t)]
           step == [p \in D \X Seq(Row) |->
                     IF Len(p[2]) < MaxTargetOptions /\ rows[p[1]].type # "divider" /\ rows[p[1]].id # NoOption
                     THEN Append(p[2], LegacyRow(rows[p[1]])) ELSE p[2]]
<1>1. D = 1..Len(rows) /\ Len(rows) \in Nat /\ \A i \in D : rows[i] \in Row
  OBVIOUS
<1>2. IsPick(pick, D) /\ IsFiniteSet(D)
  <2>1. \A t \in SUBSET D : t # {} => Max(t) \in t
    BY <1>1, MaxIsPick
  <2>2. IsFiniteSet(D)
    BY <1>1, FS_Interval
  <2> QED
    BY <2>1, <2>2 DEF IsPick
<1>3. step \in [D \X Seq(Row) -> Seq(Row)]
  <2>1. \A i \in D, sent \in Seq(Row) : Append(sent, LegacyRow(rows[i])) \in Seq(Row)
    BY <1>1, LegacyRowKept
  <2> QED
    BY <2>1
<1>4. <<>> \in Seq(Row)
  OBVIOUS
<1>5. PICK f \in [SUBSET D -> Seq(Row)] : IsFold(f, D, <<>>, step, pick)
  <2> HIDE DEF D, pick, step
  <2> QED
    BY <1>2, <1>3, <1>4, FoldExists
<1>6. ASSUME NEW t \in SUBSET D, t # {}
      PROVE  f[t] = LET i == Max(t)
                    IN  IF Len(f[t \ {i}]) < MaxTargetOptions /\ rows[i].type # "divider" /\ rows[i].id # NoOption
                        THEN Append(f[t \ {i}], LegacyRow(rows[i])) ELSE f[t \ {i}]
  <2>1. pick[t] \in D /\ f[t \ {pick[t]}] \in Seq(Row) /\ pick[t] = Max(t)
    BY <1>2, <1>6 DEF IsPick
  <2>2. f[t] = step[<<pick[t], f[t \ {pick[t]}]>>]
    <3> HIDE DEF D, pick, step
    <3> QED
      BY <1>5, <1>6 DEF IsFold
  <2> HIDE DEF pick
  <2> QED
    BY <2>1, <2>2
<1>7. f[{}] = <<>>
  <2> HIDE DEF D, pick, step
  <2> QED
    BY <1>5 DEF IsFold
<1>8. IsGathering(f, rows)
  BY <1>5, <1>6, <1>7 DEF IsGathering
<1> QED
  BY <1>8

\* They are rows, and among them no more to pick than in the context.
LEMMA LegacyOptionsKept ==
  ASSUME NEW rows \in Seq(Row)
  PROVE  LegacyOptions(rows) \in Seq(Row) /\ Pickable(LegacyOptions(rows)) \subseteq Pickable(rows)
<1> DEFINE D == DOMAIN rows
           f == CHOOSE g : IsGathering(g, rows)
           Good == {t \in SUBSET D : f[t] \in Seq(Row) /\ Pickable(f[t]) \subseteq Pickable(rows)}
<1>1. IsGathering(f, rows) /\ LegacyOptions(rows) = f[D]
  BY GatheringExists, GatheringIsFold
<1>2. D = 1..Len(rows) /\ Len(rows) \in Nat /\ \A i \in D : rows[i] \in Row
  OBVIOUS
<1> HIDE DEF f
<1>3. ASSUME NEW t \in SUBSET D, \A u \in SUBSET t : u # t => u \in Good
      PROVE  t \in Good
  <2>1. CASE t = {}
    <3>1. f[t] = <<>> /\ Pickable(<<>>) = {} /\ <<>> \in Seq(Row)
      BY <1>1, <2>1 DEF IsGathering, Pickable, Range
    <3> QED
      BY <3>1
  <2>2. CASE t # {}
    <3> DEFINE i == Max(t)
               rest == f[t \ {i}]
    <3>1. i \in t
      BY <1>2, <2>2, MaxIsPick
    <3>2. rest \in Seq(Row) /\ Pickable(rest) \subseteq Pickable(rows)
      BY <1>3, <3>1
    <3>3. f[t] \in {rest, Append(rest, LegacyRow(rows[i]))}
      BY <1>1, <2>2 DEF IsGathering
    <3> HIDE DEF i, rest
    <3>4. LegacyRow(rows[i]) \in Row
      BY <1>2, <3>1, LegacyRowKept
    <3>5. Pickable(Append(rest, LegacyRow(rows[i]))) \subseteq Pickable(rows)
      <4>1. LegacyRow(rows[i]).enabled => LegacyRow(rows[i]).id \in Pickable(rows)
        BY <1>2, <3>1, LegacyRowKept, PickableRow
      <4> QED
        BY <3>2, <3>4, <4>1, PickableAppend
    <3>6. f[t] \in Seq(Row) /\ Pickable(f[t]) \subseteq Pickable(rows)
      <4>1. CASE f[t] = rest
        BY <3>2, <4>1
      <4>2. CASE f[t] = Append(rest, LegacyRow(rows[i]))
        <5>1. Append(rest, LegacyRow(rows[i])) \in Seq(Row)
          BY <3>2, <3>4
        <5> QED
          BY <3>5, <4>2, <5>1
      <4> QED
        BY <3>3, <4>1, <4>2
    <3> QED
      BY <3>6
  <2> QED
    BY <2>1, <2>2
<1> HIDE DEF Good
<1>4. SUBSET D \subseteq Good
  <2>1. IsFiniteSet(D)
    BY <1>2, FS_Interval
  <2> HIDE DEF D
  <2> QED
    BY <1>3, <2>1, SubsetInduction, Zenon
<1> QED
  BY <1>1, <1>4 DEF Good

-----------------------------------------------------------------------------
(* Types. *)

ClientContext == [hasContext : BOOLEAN, targetId : Targets \cup {NoTarget},
                  direct : BOOLEAN, fresh : BOOLEAN, options : Rows]

\* The client's context before any message, and the message that ends one.
LEMMA NothingShownType == NothingShown \in ClientContext
<1>1. <<>> \in Rows
  BY DEF Rows
<1> QED
  BY <1>1 DEF NothingShown, ClientContext

\* It is one of the messages.
LEMMA ClearMessageType == ClearMessage \in DownMessage
<1>1. <<>> \in Rows
  BY DEF Rows
<1> QED
  BY <1>1 DEF ClearMessage, DownMessage

\* What a commit sends are rows, and none to pick that the context does not have.
LEMMA CommittedRows ==
  ASSUME TypeOK, NEW t \in Targets, CommitContext(t), ~UNCHANGED <<down, committed>>
  PROVE  \E m \in DownMessage : /\ down' = Append(down, m)
                                /\ m.type = "set" /\ m.targetId = t
                                /\ Pickable(m.options) \subseteq Pickable(context.options)
<1> DEFINE rows == IF context.advanced /\ v2 THEN context.options ELSE LegacyOptions(context.options)
<1>1. context.options \in Seq(Row) /\ context.direct \in BOOLEAN
  BY DEF TypeOK, Context, Rows
<1>2. rows \in Seq(Row) /\ Pickable(rows) \subseteq Pickable(context.options)
  BY <1>1, LegacyOptionsKept
<1>3. down' = Append(down, [type |-> "set", targetId |-> t, direct |-> context.direct, options |-> rows])
  BY DEF CommitContext, Send
<1> HIDE DEF rows
<1>4. [type |-> "set", targetId |-> t, direct |-> context.direct, options |-> rows] \in DownMessage
  BY <1>1, <1>2 DEF DownMessage, Rows
<1> QED
  BY <1>2, <1>3, <1>4

\* The messages to the client: a new connection has none, the client takes the
\* first, the component puts behind them that it has no context, or the context.
LEMMA DownChanges ==
  ASSUME Next
  PROVE  \/ UNCHANGED down
         \/ PlayerJoins
         \/ HandleSetContext \/ HandleClearContext
         \/ down' = Append(down, ClearMessage) /\ committed' = FALSE
         \/ \E t \in Targets : CommitContext(t) /\ ~UNCHANGED <<down, committed>>
<1>1. CASE Script
  <2>1. CASE \E t \in Targets : CommitContext(t)
    <3>1. PICK t \in Targets : CommitContext(t)
      BY <2>1
    <3> QED
      BY <3>1 DEF CommitContext
  <2> QED
    BY <1>1, <2>1 DEF Script, BeginContext, MakeAdvanced, AddRow, ClearContext, Send
<1>2. CASE ServerReceive \/ Reset \/ PlayerJoins \/ ContextExpires
  BY <1>2 DEF ServerReceive, AcceptSelect, RejectSelect, TargetMode, Ignore, Reset, ContextExpires, Send
<1>3. CASE ClientReceive \/ BuildOpens \/ ClientContextExpires \/ DropContext \/ Player
  BY <1>3 DEF ClientReceive, BuildOpens, ClientContextExpires, DropContext, Player, SuspendMenu,
      OpenMenu, CloseMenu, ClickRow, DirectSelect, SendSelect
<1> QED
  BY <1>1, <1>2, <1>3 DEF Next

\* What is on its way to the client stays a queue of messages.
LEMMA DownType ==
  ASSUME TypeOK, Next
  PROVE  down' \in Seq(DownMessage)
<1>1. down \in Seq(DownMessage)
  BY DEF TypeOK
<1>2. CASE UNCHANGED down
  BY <1>1, <1>2
<1>3. CASE PlayerJoins
  BY <1>3 DEF PlayerJoins
<1>4. CASE HandleSetContext \/ HandleClearContext
  BY <1>1, <1>4 DEF HandleSetContext, HandleClearContext
<1>5. CASE down' = Append(down, ClearMessage)
  BY <1>1, <1>5, ClearMessageType
<1>6. CASE \E t \in Targets : CommitContext(t) /\ ~UNCHANGED <<down, committed>>
  BY <1>1, <1>6, CommittedRows
<1> QED
  BY <1>2, <1>3, <1>4, <1>5, <1>6, DownChanges

\* What the client holds: nothing, a message, or what it had with its time over.
LEMMA ClientChanges ==
  ASSUME Next
  PROVE  \/ UNCHANGED client
         \/ client' = NothingShown
         \/ HandleSetContext
         \/ client' = [client EXCEPT !.fresh = FALSE]
<1>1. CASE Script \/ ServerReceive \/ Reset \/ ContextExpires
  BY <1>1 DEF Script, BeginContext, MakeAdvanced, AddRow, CommitContext, ClearContext, ServerReceive,
      AcceptSelect, RejectSelect, TargetMode, Ignore, Reset, ContextExpires, clientVars
<1>2. CASE PlayerJoins \/ ClientReceive \/ BuildOpens \/ ClientContextExpires \/ DropContext \/ Player
  BY <1>2 DEF PlayerJoins, ClientReceive, HandleClearContext, BuildOpens, ClientContextExpires, DropContext,
      Player, SuspendMenu, OpenMenu, CloseMenu, ClickRow, DirectSelect, SendSelect, ClearContextUnlocked
<1> QED
  BY <1>1, <1>2 DEF Next

\* What the client holds has the type of a context.
LEMMA ClientType ==
  ASSUME TypeOK, Next
  PROVE  client' \in ClientContext
<1>1. client \in ClientContext
  BY DEF TypeOK, ClientContext
<1>2. CASE HandleSetContext
  <2>1. Head(down) \in DownMessage
    BY <1>2 DEF HandleSetContext, TypeOK
  <2> QED
    BY <1>2, <2>1 DEF HandleSetContext, DownMessage, ClientContext
<1>3. CASE client' = [client EXCEPT !.fresh = FALSE]
  BY <1>1, <1>3 DEF ClientContext
<1> QED
  BY <1>1, <1>2, <1>3, NothingShownType, ClientChanges

\* The ids of rows.
LEMMA RowIds ==
  ASSUME NEW rows \in Seq(Row)
  PROVE  /\ \A i \in DOMAIN rows : rows[i].id \in Options \cup {NoOption}
         /\ Pickable(rows) \subseteq Options \cup {NoOption}
<1>1. \A i \in DOMAIN rows : rows[i] \in Row
  OBVIOUS
<1>2. \A r \in Row : r.id \in Options \cup {NoOption}
  BY DEF Row
<1> QED
  BY <1>1, <1>2 DEF Pickable, Range

\* No message, of any type.
LEMMA NoMessage == ASSUME NEW S PROVE <<>> \in Seq(S)
  OBVIOUS

\* Two queues in one.
LEMMA MoreMessages == ASSUME NEW S, NEW q \in Seq(S), NEW r \in Seq(S) PROVE q \o r \in Seq(S)
  OBVIOUS

\* A single message.
LEMMA OneMessage == ASSUME NEW S, NEW m \in S PROVE <<m>> \in Seq(S)
  OBVIOUS

\* A report is of what the client holds: it has a target while there is a menu or
\* a row to pick.
LEMMA ModeType ==
  ASSUME client.targetId \in Targets, NEW opened \in BOOLEAN
  PROVE  Mode(opened) \in UpMessage
  BY DEF Mode, UpMessage

\* So has the report of a menu that closes.
LEMMA ClosingType ==
  ASSUME TargetInv
  PROVE  Closing \in Seq(UpMessage)
<1>1. menuOpen => client.targetId \in Targets
  BY DEF TargetInv, MenuHasTarget
<1> QED
  BY <1>1, ModeType, OneMessage, NoMessage DEF Closing

\* The rows a player can pick have ids.
LEMMA PickType ==
  ASSUME TypeOK, TargetInv, client.hasContext, NEW option, SendSelect(option),
         option \in Options \cup {NoOption}
  PROVE  up' \in Seq(UpMessage)
<1> DEFINE m == [type |-> "select", targetId |-> client.targetId, option |-> option, opened |-> FALSE]
<1>1. client.targetId \in Targets
  BY DEF TargetInv, MenuHasTarget
<1>2. m \in UpMessage
  BY <1>1 DEF UpMessage
<1>3. up \in Seq(UpMessage) /\ up' = up \o (<<m>> \o Closing)
  BY DEF SendSelect, ClearContextUnlocked, Report, TypeOK
<1> HIDE DEF m
<1>4. <<m>> \o Closing \in Seq(UpMessage)
  BY <1>2, ClosingType
<1> QED
  BY <1>3, <1>4

\* What is on its way to the component stays a queue of reports.
LEMMA UpType ==
  ASSUME TypeOK, TargetInv, Next
  PROVE  up' \in Seq(UpMessage)
<1>1. up \in Seq(UpMessage) /\ client.options \in Seq(Row)
  BY DEF TypeOK, Rows
<1>2. CASE Script \/ Reset \/ ContextExpires \/ ClientContextExpires \/ HandleSetContext
  BY <1>1, <1>2 DEF Script, BeginContext, MakeAdvanced, AddRow, CommitContext, ClearContext,
      Reset, ContextExpires, ClientContextExpires, HandleSetContext
<1>3. CASE ServerReceive
  <2>1. up # <<>> /\ up' = Tail(up)
    BY <1>3 DEF ServerReceive, AcceptSelect, RejectSelect, TargetMode, Ignore, Receive
  <2> QED
    BY <1>1, <2>1
<1>4. CASE PlayerJoins
  BY <1>4 DEF PlayerJoins
<1>5. CASE HandleClearContext \/ BuildOpens \/ DropContext
  <2>1. up' = up \o (<<>> \o Closing)
    BY <1>5 DEF HandleClearContext, BuildOpens, DropContext, ClearContextUnlocked, Report
  <2>2. <<>> \o Closing \in Seq(UpMessage)
    BY ClosingType
  <2> QED
    BY <1>1, <2>1, <2>2
<1>6. CASE SuspendMenu \/ CloseMenu
  <2>1. up' = up \o Closing
    BY <1>6 DEF SuspendMenu, CloseMenu, Report
  <2> QED
    BY <1>1, <2>1, ClosingType
<1>7. CASE OpenMenu
  <2>1. client.targetId \in Targets /\ up' = up \o <<Mode(TRUE)>>
    BY <1>7 DEF OpenMenu, HasValidContext, Report, TargetInv, MenuHasTarget
  <2>2. <<Mode(TRUE)>> \in Seq(UpMessage)
    BY <2>1, ModeType, OneMessage
  <2> QED
    BY <1>1, <2>1, <2>2, MoreMessages, Zenon
<1>8. CASE ClickRow
  <2>1. PICK option \in Pickable(client.options) : SendSelect(option)
    BY <1>8 DEF ClickRow
  <2>2. option \in Options \cup {NoOption}
    BY <1>1, <2>1, RowIds
  <2> QED
    BY <1>8, <2>1, <2>2, PickType DEF ClickRow, HasValidContext
<1>9. CASE DirectSelect
  <2>1. PICK i \in DOMAIN client.options : SendSelect(client.options[i].id)
    BY <1>9 DEF DirectSelect
  <2>2. client.options[i].id \in Options \cup {NoOption}
    BY <1>1, <2>1, RowIds
  <2> QED
    BY <1>9, <2>1, <2>2, PickType DEF DirectSelect, HasValidContext
<1> QED
  BY <1>2, <1>3, <1>4, <1>5, <1>6, <1>7, <1>8, <1>9 DEF Next, ClientReceive, Player

\* The flags of the component and of the scripts.
LEMMA FlagsType ==
  ASSUME TypeOK, Next
  PROVE  {ready', v2', committed', shown', lost'} \subseteq BOOLEAN
<1>1. {ready, v2, committed, shown, lost} \subseteq BOOLEAN
  BY DEF TypeOK
<1>2. CASE Script \/ Reset \/ PlayerJoins \/ ContextExpires
  BY <1>1, <1>2 DEF Script, BeginContext, MakeAdvanced, AddRow, CommitContext, ClearContext, Reset,
      PlayerJoins, ContextExpires
<1>3. CASE AcceptSelect \/ RejectSelect \/ Ignore
  BY <1>1, <1>3 DEF AcceptSelect, RejectSelect, Ignore, serverVars
<1>4. CASE TargetMode
  <2>1. Head(up) \in UpMessage
    BY <1>4 DEF TargetMode, Receive, TypeOK
  <2>2. shown' \in BOOLEAN
    BY <1>4, <2>1 DEF TargetMode, UpMessage
  <2> QED
    BY <1>1, <1>4, <2>2 DEF TargetMode, serverVars
<1>5. CASE ClientReceive \/ BuildOpens \/ ClientContextExpires \/ DropContext \/ Player
  <2>1. UNCHANGED <<ready, v2, committed, shown, lost>>
    BY <1>5 DEF ClientReceive, HandleSetContext, HandleClearContext, BuildOpens, ClientContextExpires,
        DropContext, Player, SuspendMenu, OpenMenu, CloseMenu, ClickRow, DirectSelect, SendSelect, serverVars
  <2> QED
    BY <1>1, <2>1
<1> QED
  BY <1>2, <1>3, <1>4, <1>5 DEF Next, ServerReceive

\* The types hold at the start,
LEMMA TypeInit == Init => TypeOK
<1> SUFFICES ASSUME Init PROVE TypeOK
  OBVIOUS
<1>1. client \in ClientContext /\ context \in Context /\ Len(context.options) <= MaxTargetRows
  BY InvFresh, NothingShownType DEF Init
<1>2. up \in Seq(UpMessage) /\ down \in Seq(DownMessage)
  BY DEF Init
<1>3. /\ ready = TRUE /\ committed = FALSE /\ menuOpen = FALSE /\ shown = FALSE /\ lost = FALSE
      /\ v2 \in BOOLEAN /\ selections = 0
  BY Zenon DEF Init
<1>4. /\ ready \in BOOLEAN /\ v2 \in BOOLEAN /\ committed \in BOOLEAN /\ menuOpen \in BOOLEAN
      /\ shown \in BOOLEAN /\ lost \in BOOLEAN /\ selections \in 0..2
  <2>1. ready \in BOOLEAN /\ committed \in BOOLEAN /\ menuOpen \in BOOLEAN /\ shown \in BOOLEAN /\ lost \in BOOLEAN
    BY <1>3
  <2>2. selections \in 0..2
    BY <1>3
  <2> QED
    BY <1>3, <2>1, <2>2
<1> QED
  BY <1>1, <1>2, <1>4, Zenon DEF TypeOK, ClientContext

\* and every step keeps them.
LEMMA TypeStep == TargetInv /\ TargetInv' /\ TypeOK /\ [Next]_vars => TypeOK'
<1> SUFFICES ASSUME TargetInv, TargetInv', TypeOK, [Next]_vars PROVE TypeOK'
  OBVIOUS
<1>1. CASE Next
  <2>1. context' \in Context /\ Len(context'.options) <= MaxTargetRows /\ menuOpen' \in BOOLEAN
    BY DEF TargetInv, StateIsFormed
  <2>2. selections' \in 0..2
    BY DEF TargetInv, OfferIsOpen
  <2>3. client' \in ClientContext /\ up' \in Seq(UpMessage) /\ down' \in Seq(DownMessage)
    BY <1>1, ClientType, UpType, DownType
  <2>4. {ready', v2', committed', shown', lost'} \subseteq BOOLEAN
    BY <1>1, FlagsType
  <2> QED
    BY <2>1, <2>2, <2>3, <2>4 DEF TypeOK, ClientContext
<1>2. CASE UNCHANGED vars
  BY <1>2 DEF TypeOK, vars, serverVars, clientVars
<1> QED
  BY <1>1, <1>2

-----------------------------------------------------------------------------
(* The two copies of the context. *)

\* The last message on the way stays the last when one is put behind it or the
\* first is taken.
LEMMA LastMessage ==
  ASSUME NEW S, NEW q \in Seq(S)
  PROVE  /\ \A m \in S : Append(q, m) # <<>> /\ Last(Append(q, m)) = m
         /\ q # <<>> => /\ Tail(q) = <<>> => Last(q) = Head(q)
                        /\ Tail(q) # <<>> => Last(Tail(q)) = Last(q)
  BY DEF Last

\* Neither the context nor what is on its way changes, and the client keeps what
\* it shows or drops it.
LEMMA CopiesKept ==
  ASSUME CopiesAgree, committed' => committed, UNCHANGED down,
         context'.targetId = context.targetId, context'.options = context.options,
         client'.hasContext =>
           client.hasContext /\ client'.targetId = client.targetId /\ client'.options = client.options
  PROVE  CopiesAgree'
  BY DEF CopiesAgree, Matches, Pickable

\* The context as it is becomes the last message.
LEMMA CommitCopies ==
  ASSUME TypeOK, CopiesAgree, NEW t \in Targets, CommitContext(t)
  PROVE  CopiesAgree'
<1>1. /\ context'.targetId = context.targetId /\ context'.options = context.options
      /\ context.targetId = t /\ UNCHANGED client
  BY DEF CommitContext, IsContext, TypeOK, Context, clientVars
<1>2. CASE ~UNCHANGED <<down, committed>>
  <2>1. PICK m \in DownMessage : /\ down' = Append(down, m)
                                 /\ m.type = "set" /\ m.targetId = t
                                 /\ Pickable(m.options) \subseteq Pickable(context.options)
    BY <1>2, CommittedRows
  <2>2. down' # <<>> /\ Last(down') = m
    BY <2>1, LastMessage DEF TypeOK
  <2> QED
    BY <1>1, <2>1, <2>2 DEF CopiesAgree, Matches, Pickable
<1>3. CASE UNCHANGED <<down, committed>>
  BY <1>1, <1>3, CopiesKept
<1> QED
  BY <1>2, <1>3

\* The client takes the first message: if it is the last, it is that of the context.
LEMMA HandleCopies ==
  ASSUME TypeOK, CopiesAgree, HandleSetContext \/ HandleClearContext
  PROVE  CopiesAgree'
<1>1. /\ down \in Seq(DownMessage) /\ down # <<>> /\ down' = Tail(down)
      /\ UNCHANGED <<context, committed>>
  BY DEF HandleSetContext, HandleClearContext, TypeOK, serverVars
<1>2. SUFFICES ASSUME committed
               PROVE  IF down' = <<>>
                      THEN client'.hasContext => Matches(client'.targetId, client'.options)
                      ELSE Last(down').type = "set" /\ Matches(Last(down').targetId, Last(down').options)
  BY <1>1 DEF CopiesAgree, Matches, Pickable
<1>3. Last(down).type = "set" /\ Matches(Last(down).targetId, Last(down).options)
  BY <1>1, <1>2 DEF CopiesAgree
<1>4. CASE down' # <<>>
  BY <1>1, <1>3, <1>4, LastMessage
<1>5. CASE down' = <<>>
  <2>1. Head(down) = Last(down)
    BY <1>1, <1>5, LastMessage
  <2>2. HandleSetContext
    BY <1>3, <2>1 DEF HandleClearContext
  <2>3. client'.targetId = Head(down).targetId /\ client'.options = Head(down).options
    BY <2>2 DEF HandleSetContext
  <2> QED
    BY <1>3, <1>5, <2>1, <2>3
<1> QED
  BY <1>4, <1>5

\* What the client does by itself does not change what it shows, but to nothing.
LEMMA ShowsLess ==
  ASSUME TypeOK, BuildOpens \/ ClientContextExpires \/ DropContext \/ Player
  PROVE  /\ UNCHANGED <<context, committed, down>>
         /\ client'.hasContext =>
              client.hasContext /\ client'.targetId = client.targetId /\ client'.options = client.options
<1>1. client \in ClientContext
  BY DEF TypeOK, ClientContext
<1>2. CASE BuildOpens \/ DropContext \/ ClickRow \/ DirectSelect
  <2>1. client' = NothingShown /\ UNCHANGED <<context, committed, down>>
    BY <1>2 DEF BuildOpens, DropContext, ClickRow, DirectSelect, SendSelect, ClearContextUnlocked, serverVars
  <2> QED
    BY <2>1 DEF NothingShown
<1>3. CASE ClientContextExpires \/ CloseMenu \/ OpenMenu \/ SuspendMenu
  <2>1. client' \in {client, [client EXCEPT !.fresh = FALSE]} /\ UNCHANGED <<context, committed, down>>
    BY <1>3 DEF ClientContextExpires, CloseMenu, OpenMenu, SuspendMenu, serverVars
  <2> QED
    BY <1>1, <2>1 DEF ClientContext
<1> QED
  BY <1>2, <1>3 DEF Player

\* Every step keeps the copies equal.
LEMMA CopiesStep == TypeOK /\ CopiesAgree /\ [Next]_vars => CopiesAgree'
<1> SUFFICES ASSUME TypeOK, CopiesAgree, [Next]_vars PROVE CopiesAgree'
  OBVIOUS
<1>1. CASE Script
  <2>1. CASE \E t \in Targets : CommitContext(t)
    BY <2>1, CommitCopies
  <2>2. CASE ~\E t \in Targets : CommitContext(t)
    <3>1. committed' = FALSE
      BY <1>1, <2>2 DEF Script, BeginContext, MakeAdvanced, AddRow, ClearContext
    <3> QED
      BY <3>1 DEF CopiesAgree
  <2> QED
    BY <2>1, <2>2
<1>2. CASE AcceptSelect \/ Reset \/ PlayerJoins
  BY <1>2 DEF AcceptSelect, Reset, PlayerJoins, CopiesAgree
<1>3. CASE RejectSelect \/ TargetMode \/ Ignore \/ UNCHANGED vars
  <2>1. UNCHANGED <<context, committed, client, down>>
    BY <1>3 DEF RejectSelect, TargetMode, Ignore, serverVars, clientVars, vars
  <2> QED
    BY <2>1, CopiesKept
<1>4. CASE ContextExpires
  <2>1. /\ UNCHANGED <<committed, client, down>>
        /\ context'.targetId = context.targetId /\ context'.options = context.options
    BY <1>4 DEF ContextExpires, TypeOK, Context, clientVars
  <2> QED
    BY <2>1, CopiesKept
<1>5. CASE ClientReceive
  BY <1>5, HandleCopies DEF ClientReceive
<1>6. CASE BuildOpens \/ ClientContextExpires \/ DropContext \/ Player
  BY <1>6, ShowsLess, CopiesKept
<1> QED
  BY <1>1, <1>2, <1>3, <1>4, <1>5, <1>6 DEF Next, ServerReceive

-----------------------------------------------------------------------------
(* ScriptMenu. *)

\* What is on offer is a record, for TLA+ to tell it from no offer.
LEMMA OfferedIsMenu ==
  ASSUME TargetInv, context.active
  PROVE  /\ Offered = [target |-> context.targetId, options |-> Pickable(context.options),
                       live |-> context.fresh]
         /\ Offered \in [target : Targets, options : SUBSET (Options \cup {NoOption}), live : BOOLEAN]
         /\ Offered # NoTarget
<1>1. Range(context.options) \subseteq Row /\ context.fresh \in BOOLEAN
  BY DEF TargetInv, StateIsFormed, Context, Rows, Range
<1>2. Pickable(context.options) \in SUBSET (Options \cup {NoOption})
  BY <1>1 DEF Pickable, Row
<1> QED
  BY <1>1, <1>2, TargetAssumption DEF Offered, TargetInv, OfferIsOpen

\* A menu that has expired.
LEMMA ExpiredMenu ==
  ASSUME NEW T, NEW O, NEW menu \in [target : T, options : O, live : BOOLEAN], NEW l \in BOOLEAN
  PROVE  [menu EXCEPT !.live = l] = [target |-> menu.target, options |-> menu.options, live |-> l]
  OBVIOUS

\* Nothing is offered while no context is active.
LEMMA NothingOffered == ~context.active => Offered = NoTarget
  BY DEF Offered

\* A new context is a new menu.
LEMMA BeginRefines ==
  ASSUME TargetInv, TargetInv', NEW t \in Targets, NEW advanced \in BOOLEAN, NEW direct \in DirectFlags,
         BeginContext(t, advanced, direct)
  PROVE  Menu!Begin(t)
<1>1. context'.active /\ context'.targetId = t /\ context'.fresh = TRUE /\ context'.options = <<>>
      /\ selections' = 0
  BY DEF BeginContext
<1>2. Pickable(<<>>) = {}
  BY DEF Pickable, Range
<1>3. Offered' = [target |-> t, options |-> {}, live |-> TRUE]
  BY <1>1, <1>2 DEF Offered, Pickable
<1> QED
  BY <1>1, <1>3 DEF Menu!Begin

\* Rows are added to the menu, or its time starts again.
LEMMA ExtendRefines ==
  ASSUME TargetInv, TargetInv', NEW t \in Targets,
         MakeAdvanced(t) \/ CommitContext(t) \/ \E row \in RowInputs : AddRow(t, row)
  PROVE  Menu!Extend
<1>1. /\ context.active /\ context'.active /\ context'.targetId = context.targetId
      /\ context'.fresh \in {context.fresh, TRUE} /\ UNCHANGED selections
  BY DEF MakeAdvanced, CommitContext, AddRow, IsContext, TargetInv, StateIsFormed, Context
<1>2. PICK more \in SUBSET (Options \cup {NoOption}) :
        Pickable(context'.options) = Pickable(context.options) \cup more
  <2>1. CASE MakeAdvanced(t) \/ CommitContext(t)
    <3>1. context'.options = context.options
      BY <2>1 DEF MakeAdvanced, CommitContext, TargetInv, StateIsFormed, Context
    <3>2. Pickable(context'.options) = Pickable(context.options) \cup {}
      BY <3>1
    <3> QED
      BY <3>2
  <2>2. CASE \E row \in RowInputs : AddRow(t, row)
    <3>1. PICK row \in RowInputs : context'.options = Append(context.options, row)
      BY <2>2 DEF AddRow, TargetInv, StateIsFormed, Context
    <3>2. context.options \in Seq(Row) /\ row \in Row
      BY TargetAssumption DEF TargetInv, StateIsFormed, Context, Rows
    <3>3. row.id \in Options \cup {NoOption}
      BY <3>2 DEF Row
    <3>4. PICK more \in {{}, {row.id}} : Pickable(context'.options) = Pickable(context.options) \cup more
      BY <3>1, <3>2, PickableAppend
    <3> QED
      BY <3>3, <3>4
  <2> QED
    BY <2>1, <2>2
<1>3. /\ Offered = [target |-> context.targetId, options |-> Pickable(context.options), live |-> context.fresh]
      /\ Offered \in [target : Targets, options : SUBSET (Options \cup {NoOption}), live : BOOLEAN]
      /\ Offered # NoTarget
  BY <1>1, OfferedIsMenu
<1>4. Offered' = [target |-> context.targetId, options |-> Pickable(context.options) \cup more,
                  live |-> context'.fresh]
  BY <1>1, <1>2 DEF Offered, Pickable
<1>5. Offered' = [target |-> Offered.target, options |-> Offered.options \cup more, live |-> context'.fresh]
  <2>1. Offered.target = context.targetId /\ Offered.options = Pickable(context.options)
    BY <1>3
  <2> QED
    BY <1>4, <2>1
<1>6. context'.fresh \in {Offered.live, TRUE}
  BY <1>1, <1>3
<1> QED
  BY <1>1, <1>3, <1>5, <1>6 DEF Menu!Extend

\* Time changes nothing else of the menu.
LEMMA ExpireRefines ==
  ASSUME TargetInv, ContextExpires
  PROVE  Menu!Expire
<1>1. /\ context.active /\ context'.active /\ context'.targetId = context.targetId
      /\ context'.fresh = FALSE /\ context'.options = context.options /\ UNCHANGED selections
  BY DEF ContextExpires, TargetInv, StateIsFormed, Context
<1>2. /\ Offered = [target |-> context.targetId, options |-> Pickable(context.options), live |-> context.fresh]
      /\ Offered \in [target : Targets, options : SUBSET (Options \cup {NoOption}), live : BOOLEAN]
      /\ Offered # NoTarget
  BY <1>1, OfferedIsMenu
<1>3. Offered' = [target |-> context.targetId, options |-> Pickable(context.options), live |-> FALSE]
  BY <1>1 DEF Offered, Pickable
<1>4. Offered' = [Offered EXCEPT !.live = FALSE]
  <2>1. Offered.target = context.targetId /\ Offered.options = Pickable(context.options)
    BY <1>2
  <2>2. [Offered EXCEPT !.live = FALSE]
          = [target |-> Offered.target, options |-> Offered.options, live |-> FALSE]
    <3> DEFINE O == SUBSET (Options \cup {NoOption})
    <3>1. Offered \in [target : Targets, options : O, live : BOOLEAN] /\ FALSE \in BOOLEAN
      BY <1>2
    <3> HIDE DEF O
    <3> QED
      BY <3>1, ExpiredMenu
  <2> QED
    BY <1>3, <2>1, <2>2
<1> QED
  BY <1>1, <1>2, <1>4 DEF Menu!Expire

\* Scripts and resets take the menu back unanswered.
LEMMA WithdrawRefines ==
  ASSUME ClearContext \/ Reset
  PROVE  Menu!Withdraw
<1>1. ~context'.active /\ UNCHANGED selections
  BY InvFresh DEF ClearContext, Reset
<1> QED
  BY <1>1 DEF Menu!Withdraw, Offered

\* A new connection has no menu and no answer.
LEMMA RenewRefines ==
  ASSUME PlayerJoins
  PROVE  Menu!Renew
<1>1. ~context'.active /\ selections' = 0
  BY InvFresh DEF PlayerJoins
<1> QED
  BY <1>1 DEF Menu!Renew, Offered

\* A pick that is accepted is of a row on offer, in time, and the only one.
LEMMA AnswerRefines ==
  ASSUME TargetInv, AcceptSelect
  PROVE  Menu!Answer
<1>1. context.active /\ context.fresh /\ Pickable(context.options) # {}
  BY DEF AcceptSelect, Accepts, IsContext
<1>2. selections' = selections + 1 /\ ~context'.active
  BY <1>1, InvFresh DEF AcceptSelect, TargetInv, OfferIsOpen
<1>3. /\ Offered = [target |-> context.targetId, options |-> Pickable(context.options), live |-> context.fresh]
      /\ Offered # NoTarget
  BY <1>1, OfferedIsMenu
<1>4. Offered.live /\ Offered.options # {}
  BY <1>1, <1>3
<1> QED
  BY <1>2, <1>3, <1>4 DEF Menu!Answer, Offered

\* What the client does is not seen in the menu on offer.
LEMMA UnseenRefines ==
  ASSUME UNCHANGED <<context, selections>>
  PROVE  UNCHANGED <<Offered, selections>>
  BY DEF Offered, Pickable

\* Every step is one of ScriptMenu, or changes nothing of it.
LEMMA MenuStepRefines == TargetInv /\ TargetInv' /\ [Next]_vars => [Menu!Next]_<<Offered, selections>>
<1> SUFFICES ASSUME TargetInv, TargetInv', [Next]_vars PROVE Menu!Next \/ UNCHANGED <<Offered, selections>>
  OBVIOUS
<1>1. CASE Script
  BY <1>1, BeginRefines, ExtendRefines, WithdrawRefines DEF Script, Menu!Next
<1>2. CASE AcceptSelect
  BY <1>2, AnswerRefines DEF Menu!Next
<1>3. CASE Reset \/ PlayerJoins \/ ContextExpires
  BY <1>3, WithdrawRefines, RenewRefines, ExpireRefines DEF Menu!Next
<1>4. CASE \/ RejectSelect \/ TargetMode \/ Ignore
           \/ ClientReceive \/ BuildOpens \/ ClientContextExpires \/ DropContext \/ Player
           \/ UNCHANGED vars
  <2>1. UNCHANGED <<context, selections>>
    BY <1>4 DEF RejectSelect, TargetMode, Ignore, ClientReceive, HandleSetContext, HandleClearContext,
        BuildOpens, ClientContextExpires, DropContext, Player, SuspendMenu, OpenMenu, CloseMenu, ClickRow,
        DirectSelect, SendSelect, vars, serverVars
  <2> QED
    BY <2>1, UnseenRefines
<1> QED
  BY <1>1, <1>2, <1>3, <1>4 DEF Next, ServerReceive

-----------------------------------------------------------------------------
(* The theorems. *)

\* The state stays well-formed, an offer unanswered, and the last report on its
\* way or processed is of the menu as it is.
THEOREM TargetInvariant == Spec => []TargetInv
  BY InvInit, InvStep, PTL DEF Spec

\* A context is answered at most once, however its renewals cross the picks.
THEOREM AnsweredOnce == Spec => []SelectedAtMostOnce
<1>1. TargetInv => SelectedAtMostOnce
  BY DEF TargetInv, OfferIsOpen, SelectedAtMostOnce
<1> QED
  BY <1>1, TargetInvariant, PTL

\* The scripts know whether the menu is open once the reports are in.
THEOREM ModeIsKnown == Spec => []ScriptsKnowMode
<1>1. TargetInv => ScriptsKnowMode
  BY DEF TargetInv, ModeIsTold, ScriptsKnowMode
<1> QED
  BY <1>1, TargetInvariant, PTL

\* The component implements ScriptMenu, for any client and any schedule.
THEOREM ImplementsScriptMenu == Spec => MenuIsAnswered
<1>1. Init => Menu!Init
  <2>1. Init => ~context.active /\ selections = 0
    BY InvFresh DEF Init
  <2> QED
    BY <2>1, NothingOffered DEF Menu!Init
<1> QED
  BY <1>1, MenuStepRefines, TargetInvariant, PTL DEF Spec, MenuIsAnswered, Menu!Spec

\* Every variable keeps its type: what a client without the V2 payload is sent is
\* rows as well, and what it reports is of a target.
THEOREM TypeCorrect == Spec => []TypeOK
  BY TypeInit, TypeStep, TargetInvariant, PTL DEF Spec

\* The context as it was committed is on its way or shown, whatever crosses it.
THEOREM CopiesKeptEqual == Spec => []CopiesAgree
<1>1. Init => CopiesAgree
  BY DEF Init, CopiesAgree
<1> QED
  BY <1>1, CopiesStep, TypeCorrect, PTL DEF Spec

\* So what the client lets the player pick is what the component accepts.
THEOREM PickIsAcceptable == Spec => []PickableIsAcceptable
<1>1. CopiesAgree => PickableIsAcceptable
  BY DEF CopiesAgree, Matches, PickableIsAcceptable
<1> QED
  BY <1>1, CopiesKeptEqual, PTL
=============================================================================
