-------------------------- MODULE BuildSessionProofs --------------------------
(***************************************************************************)
(* Proofs about BuildSession, for any sessions, parts, list and queues.    *)
(* BuildInv is inductive; the properties of the safety run follow from it. *)
(***************************************************************************)
EXTENDS BuildSession, FiniteSetTheorems, TLAPS

(* Queues. *)

\* Taking the first message moves the others up by one.
LEMMA TailElements ==
  ASSUME NEW S, NEW q \in Seq(S), q # <<>>
  PROVE  /\ Tail(q) \in Seq(S)
         /\ Len(Tail(q)) = Len(q) - 1
         /\ \A i \in DOMAIN Tail(q) : i + 1 \in DOMAIN q /\ Tail(q)[i] = q[i + 1]
         /\ \A i \in DOMAIN q : i # 1 => i - 1 \in DOMAIN Tail(q) /\ Tail(q)[i - 1] = q[i]
         /\ Head(q) = q[1] /\ Head(q) \in S /\ 1 \in DOMAIN q
  OBVIOUS

\* Messages put behind others leave these where they are.
LEMMA ConcatElements ==
  ASSUME NEW S, NEW q \in Seq(S), NEW r \in Seq(S)
  PROVE  /\ q \o r \in Seq(S)
         /\ Len(q \o r) = Len(q) + Len(r)
         /\ \A i \in DOMAIN q : i \in DOMAIN (q \o r) /\ (q \o r)[i] = q[i]
         /\ \A i \in DOMAIN r : Len(q) + i \in DOMAIN (q \o r) /\ (q \o r)[Len(q) + i] = r[i]
         /\ \A i \in DOMAIN (q \o r) : i \in DOMAIN q \/ i - Len(q) \in DOMAIN r
  OBVIOUS

-----------------------------------------------------------------------------
(* Types. *)

\* What is sent to the client is well-formed.
LEMMA DownMessages ==
  /\ \A s \in Sessions : Opening(s) \in DownMessage
  /\ Closing \in DownMessage
  /\ \A p \in Parts, named \in BOOLEAN :
       Down("addPart", NoSession, p, named) \in DownMessage
  /\ Down("clearParts", NoSession, NoPart, TRUE) \in DownMessage
  BY DEF DownMessage, Opening, Closing, Down

\* Report sends one message per type, of the client's session.
LEMMA ReportType ==
  ASSUME TypeOK, client.sessionId \in Sessions,
         NEW types \in Seq({"select", "preview", "place", "cancel"}),
         NEW p \in Parts \cup {NoPart}, Report(types, p)
  PROVE  /\ up' \in Seq(UpMessage)
         /\ \A i \in DOMAIN up : i \in DOMAIN up' /\ up'[i] = up[i]
         /\ \A i \in DOMAIN types : /\ Len(up) + i \in DOMAIN up'
                                    /\ up'[Len(up) + i].type = types[i]
                                    /\ up'[Len(up) + i].sessionId = client.sessionId
<1> DEFINE r == [i \in DOMAIN types |-> [type |-> types[i], sessionId |-> client.sessionId, part |-> p]]
<1>1. r \in Seq(UpMessage) /\ DOMAIN r = DOMAIN types
  <2>1. \A i \in DOMAIN types : types[i] \in {"select", "preview", "place", "cancel"}
    OBVIOUS
  <2>2. \A i \in DOMAIN types : r[i] \in UpMessage
    BY <2>1 DEF UpMessage
  <2>3. DOMAIN types = 1..Len(types) /\ Len(types) \in Nat
    OBVIOUS
  <2> QED
    BY <2>2, <2>3
<1>2. up' = up \o r
  BY DEF Report
<1> QED
  BY <1>1, <1>2, ConcatElements DEF TypeOK

-----------------------------------------------------------------------------
(* The invariant, one lemma per action or group of actions that change the   *)
(* same things.                                                              *)

\* An empty list is short enough.
LEMMA NoParts == IsFiniteSet({}) /\ Cardinality({}) <= MaxBuildParts
  BY FS_EmptySet, BuildAssumption

\* Nothing is open and nothing is under way at the start.
LEMMA InvInit == Init => BuildInv
<1> SUFFICES ASSUME Init PROVE BuildInv
  OBVIOUS
<1>1. TypeOK
  <2>1. context \in Context /\ client \in Client
    BY DEF Init, Context, Client, NoContext, NoClient
  <2>2. Cardinality(context.parts) <= MaxBuildParts
    BY NoParts DEF Init, NoContext
  <2>3. up \in Seq(UpMessage) /\ down \in Seq(DownMessage)
    BY DEF Init
  <2>4. client.active = FALSE /\ ready \in BOOLEAN /\ diverged \in BOOLEAN /\ lost \in BOOLEAN
    BY DEF Init, NoClient
  <2> QED
    BY <2>1, <2>2, <2>3, <2>4 DEF TypeOK
<1> QED
  BY <1>1, NoParts DEF Init, BuildInv, NoContext, NoClient, ContextIsReady, BuildModeAgrees,
     SelectedIsListed, QueueTellsSession, QueueTellsParts, Announced

\* A message of session or parts is put behind what waits, for the component's
\* context to agree with.
LEMMA Queued ==
  ASSUME BuildInv, NEW m \in DownMessage, Send(<<m>>)
  PROVE  /\ down' \in Seq(DownMessage)
         /\ \E n \in Nat : /\ DOMAIN down' = DOMAIN down \cup {n} /\ down'[n] = m
                         /\ \A i \in DOMAIN down : i \in Nat /\ i < n /\ down'[i] = down[i]
<1>1. down \in Seq(DownMessage) /\ down' = down \o <<m>>
  BY DEF BuildInv, TypeOK, Send
<1>2. /\ DOMAIN down' = DOMAIN down \cup {Len(down) + 1} /\ down'[Len(down) + 1] = m
      /\ \A i \in DOMAIN down : i \in Nat /\ i < Len(down) + 1 /\ down'[i] = down[i]
  BY <1>1
<1> QED
  BY <1>1, <1>2

\* The open that is sent is the last message of its kind and names the session.
LEMMA OpenBuildStep ==
  ASSUME BuildInv, NEW s \in Sessions, OpenBuild(s)
  PROVE  BuildInv'
<1>1. Opening(s) \in DownMessage /\ Opening(s).type = "open" /\ Opening(s).sessionId = s
  BY DownMessages DEF Opening, Down
<1>typed. down' \in Seq(DownMessage)
  BY <1>1, Queued DEF OpenBuild
<1>2. PICK n \in Nat : /\ DOMAIN down' = DOMAIN down \cup {n} /\ down'[n] = Opening(s)
                  /\ \A i \in DOMAIN down : i \in Nat /\ i < n /\ down'[i] = down[i]
  BY <1>1, Queued DEF OpenBuild
<1>3. context' = [context EXCEPT !.active = TRUE, !.sessionId = s, !.cooling = FALSE]
      /\ context'.active /\ context'.sessionId = s /\ context'.parts = context.parts
  BY DEF OpenBuild, BuildInv, TypeOK, Context
<1>4. TypeOK'
  BY <1>typed, <1>2, <1>3 DEF OpenBuild, BuildInv, TypeOK, Context
<1>5. ContextIsReady'
  BY <1>3 DEF OpenBuild, BuildInv, ContextIsReady
<1>6. BuildModeAgrees' /\ SelectedIsListed'
  BY <1>1, <1>2 DEF OpenBuild, BuildInv, BuildModeAgrees, SelectedIsListed, Announced
<1>7. QueueTellsSession'
  <2>1. LastSession(n)' /\ n \in DOMAIN down'
    BY <1>1, <1>2 DEF LastSession, IsSession
  <2> QED
    BY <1>1, <1>2, <1>3, <2>1 DEF QueueTellsSession
<1>8. QueueTellsParts'
  <2>1. IsWipe(down'[n]) /\ n \in DOMAIN down' /\ \A i \in DOMAIN down' : i # n => n > i
    BY <1>1, <1>2 DEF IsWipe
  <2>2. ~diverged' => context'.parts = {}
    BY <1>3 DEF OpenBuild
  <2> QED
    BY <1>1, <1>2, <2>1, <2>2 DEF QueueTellsParts, Arrives, Stays
<1> QED
  BY <1>4, <1>5, <1>6, <1>7, <1>8 DEF BuildInv

\* The close that is sent is the last message of its kind.
LEMMA CloseBuildStep ==
  ASSUME BuildInv, CloseBuild
  PROVE  BuildInv'
<1>1. Closing \in DownMessage /\ Closing.type = "close"
  BY DownMessages DEF Closing, Down
<1>2. context' = NoContext /\ NoContext \in Context /\ ~NoContext.active /\ NoContext.parts = {}
  BY DEF CloseBuild, NoContext, Context
<1>3. CASE ready
  <2>typed. down' \in Seq(DownMessage)
    BY <1>1, <1>3, Queued DEF CloseBuild
  <2>1. PICK n \in Nat : /\ DOMAIN down' = DOMAIN down \cup {n} /\ down'[n] = Closing
                    /\ \A i \in DOMAIN down : i \in Nat /\ i < n /\ down'[i] = down[i]
    BY <1>1, <1>3, Queued DEF CloseBuild
  <2>2. TypeOK'
    BY <1>2, <2>typed, <2>1, NoParts DEF CloseBuild, BuildInv, TypeOK
  <2>3. BuildModeAgrees' /\ SelectedIsListed' /\ ContextIsReady'
    BY <1>1, <1>2, <2>1, NoParts
       DEF CloseBuild, BuildInv, BuildModeAgrees, SelectedIsListed, ContextIsReady, Announced
  <2>4. LastSession(n)' /\ n \in DOMAIN down'
    BY <1>1, <2>1 DEF LastSession, IsSession
  <2>5. QueueTellsSession' /\ QueueTellsParts'
    BY <1>1, <1>2, <2>1, <2>4 DEF QueueTellsSession, QueueTellsParts
  <2> QED
    BY <2>2, <2>3, <2>5 DEF BuildInv
<1>4. CASE ~ready
  <2>1. TypeOK'
    BY <1>2, <1>4, NoParts DEF CloseBuild, BuildInv, TypeOK
  <2> QED
    BY <1>2, <1>4, <2>1, NoParts
       DEF CloseBuild, BuildInv, BuildModeAgrees, SelectedIsListed, ContextIsReady,
           QueueTellsSession, QueueTellsParts
<1> QED
  BY <1>3, <1>4 DEF BuildInv, TypeOK

\* Behind a clear nothing arrives and nothing stays, and nothing is listed.
LEMMA ClearBuildPartsStep ==
  ASSUME BuildInv, ClearBuildParts
  PROVE  BuildInv'
<1> DEFINE m == Down("clearParts", NoSession, NoPart, TRUE)
<1>1. m \in DownMessage /\ m.type = "clearParts"
  BY DownMessages DEF Down
<1>typed. down' \in Seq(DownMessage)
  BY <1>1, Queued DEF ClearBuildParts
<1>2. PICK n \in Nat : /\ DOMAIN down' = DOMAIN down \cup {n} /\ down'[n] = m
                  /\ \A i \in DOMAIN down : i \in Nat /\ i < n /\ down'[i] = down[i]
  BY <1>1, Queued DEF ClearBuildParts
<1>3. /\ context' = [context EXCEPT !.parts = {}] /\ context' \in Context
      /\ context'.active = context.active /\ context'.sessionId = context.sessionId
      /\ context'.parts = {}
  BY DEF ClearBuildParts, BuildInv, TypeOK, Context
<1>4. TypeOK'
  BY <1>typed, <1>2, <1>3, NoParts DEF ClearBuildParts, BuildInv, TypeOK
<1>5. SelectedIsListed' /\ ContextIsReady'
  BY <1>3, NoParts DEF ClearBuildParts, BuildInv, SelectedIsListed, ContextIsReady
<1>6. BuildModeAgrees'
  BY <1>1, <1>2, <1>3 DEF ClearBuildParts, BuildInv, BuildModeAgrees, Announced, Cancelled
<1>7. QueueTellsSession'
  <2>1. \A i \in DOMAIN down : LastSession(i) => LastSession(i)'
    BY <1>1, <1>2 DEF LastSession, IsSession
  <2> QED
    BY <1>1, <1>2, <1>3, <2>1 DEF ClearBuildParts, BuildInv, QueueTellsSession, Announced
<1>8. QueueTellsParts'
  <2>1. IsWipe(down'[n]) /\ n \in DOMAIN down' /\ \A i \in DOMAIN down' : i # n => n > i
    BY <1>1, <1>2 DEF IsWipe
  <2> QED
    BY <1>1, <1>2, <1>3, <2>1 DEF QueueTellsParts, Arrives, Stays
<1> QED
  BY <1>4, <1>5, <1>6, <1>7, <1>8 DEF BuildInv

\* A part that is listed arrives; the list has room for it.
LEMMA AddBuildPartStep ==
  ASSUME BuildInv, NEW p \in Parts, NEW named \in BOOLEAN, AddBuildPart(p, named)
  PROVE  BuildInv'
<1> DEFINE m == Down("addPart", NoSession, p, named)
<1>1. m \in DownMessage /\ m.type = "addPart" /\ m.part = p /\ m.named = named
  BY DownMessages DEF Down
<1>typed. down' \in Seq(DownMessage)
  BY <1>1, Queued DEF AddBuildPart
<1>2. PICK n \in Nat : /\ DOMAIN down' = DOMAIN down \cup {n} /\ down'[n] = m
                  /\ \A i \in DOMAIN down : i \in Nat /\ i < n /\ down'[i] = down[i]
  BY <1>1, Queued DEF AddBuildPart
<1>3. /\ context' \in Context
      /\ context'.active = context.active /\ context'.sessionId = context.sessionId
      /\ context'.parts = context.parts \cup {p}
  BY DEF AddBuildPart, BuildInv, TypeOK, Context
<1>4. TypeOK' /\ ContextIsReady'
  <2>1. IsFiniteSet(context'.parts) /\ Cardinality(context'.parts) = Cardinality(context.parts) + 1
    BY <1>3, FS_AddElement DEF AddBuildPart, BuildInv, ContextIsReady
  <2>2. Cardinality(context.parts) \in Nat
    BY FS_CardinalityType DEF BuildInv, ContextIsReady
  <2> QED
    BY <1>typed, <1>2, <1>3, <2>1, <2>2, BuildAssumption DEF AddBuildPart, BuildInv, TypeOK, ContextIsReady
<1>5. SelectedIsListed'
  BY DEF AddBuildPart, BuildInv, SelectedIsListed
<1>6. BuildModeAgrees'
  BY <1>1, <1>2, <1>3 DEF AddBuildPart, BuildInv, BuildModeAgrees, Announced, Cancelled
<1>7. QueueTellsSession'
  <2>1. \A i \in DOMAIN down : LastSession(i) => LastSession(i)'
    BY <1>1, <1>2 DEF LastSession, IsSession
  <2> QED
    BY <1>1, <1>2, <1>3, <2>1 DEF AddBuildPart, BuildInv, QueueTellsSession, Announced
<1>8. QueueTellsParts'
  <2> SUFFICES ASSUME context'.active, ~diverged', client'.active \/ Announced("open")',
                      NEW q \in Parts
               PROVE  q \in context'.parts <=> Arrives(q)' \/ Stays(q)'
    BY DEF QueueTellsParts
  <2>1. named /\ ~diverged /\ (client.active \/ Announced("open"))
    BY <1>1, <1>2 DEF AddBuildPart, Announced
  <2>2. q \in context.parts <=> Arrives(q) \/ Stays(q)
    BY <1>3, <2>1 DEF BuildInv, QueueTellsParts
  <2>3. Stays(q)' <=> Stays(q)
    BY <1>1, <1>2 DEF AddBuildPart, Stays, IsWipe
  <2>4. Arrives(q)' <=> Arrives(q) \/ q = p
    <3>1. ASSUME Arrives(q)' PROVE Arrives(q) \/ q = p
      <4>1. PICK i \in DOMAIN down' :
              /\ down'[i].type = "addPart" /\ down'[i].part = q /\ down'[i].named
              /\ \A j \in DOMAIN down' : j > i => ~IsWipe(down'[j])
        BY <3>1 DEF Arrives, IsWipe
      <4>2. CASE i = n
        BY <1>1, <1>2, <4>1, <4>2
      <4>3. CASE i \in DOMAIN down
        BY <1>2, <4>1, <4>3 DEF Arrives
      <4> QED
        BY <1>2, <4>2, <4>3
    <3>2. ASSUME Arrives(q) PROVE Arrives(q)'
      <4>1. PICK i \in DOMAIN down :
              /\ down[i].type = "addPart" /\ down[i].part = q /\ down[i].named
              /\ \A j \in DOMAIN down : j > i => ~IsWipe(down[j])
        BY <3>2 DEF Arrives
      <4>2. \A j \in DOMAIN down' : j > i => ~IsWipe(down'[j])
        BY <1>1, <1>2, <4>1 DEF IsWipe
      <4> QED
        BY <1>2, <4>1, <4>2 DEF Arrives, IsWipe
    <3>3. ASSUME q = p PROVE Arrives(q)'
      <4>1. \A j \in DOMAIN down' : ~(j > n)
        BY <1>2
      <4>2. n \in DOMAIN down' /\ down'[n].type = "addPart" /\ down'[n].part = q /\ down'[n].named
        BY <1>1, <1>2, <2>1, <3>3
      <4> QED
        BY <4>1, <4>2 DEF Arrives
    <3> QED
      BY <3>1, <3>2, <3>3
  <2> QED
    BY <1>3, <2>2, <2>3, <2>4
<1> QED
  BY <1>4, <1>5, <1>6, <1>7, <1>8 DEF BuildInv

\* The messages of the client are taken one by one; a cancel of the session that
\* is open is not passed over.
LEMMA Received ==
  ASSUME BuildInv, Receive
  PROVE  /\ up' \in Seq(UpMessage) /\ Head(up) \in UpMessage
         /\ \A s : Cancelled(s) => Cancelled(s)' \/ (Head(up).type = "cancel" /\ Head(up).sessionId = s)
<1>1. up \in Seq(UpMessage) /\ up # <<>> /\ up' = Tail(up)
  BY DEF BuildInv, TypeOK, Receive
<1>2. up' \in Seq(UpMessage) /\ Head(up) \in UpMessage /\ Head(up) = up[1]
  BY <1>1, TailElements
<1>3. \A i \in DOMAIN up : i # 1 => i - 1 \in DOMAIN up' /\ up'[i - 1] = up[i]
  BY <1>1, TailElements
<1> QED
  BY <1>2, <1>3 DEF Cancelled

\* What changes neither context nor queue to the client.
LEMMA QuietStep ==
  ASSUME BuildInv, RequestPart \/ RefuseRequest \/ DropFlooded
  PROVE  BuildInv'
<1>1. Receive /\ UNCHANGED <<ready, context, client, down, diverged>>
  BY DEF RequestPart, RefuseRequest, DropFlooded
<1>2. lost' \in BOOLEAN /\ (lost => lost')
  BY DEF RequestPart, RefuseRequest, DropFlooded, BuildInv, TypeOK
<1>3. TypeOK'
  BY <1>1, <1>2, Received DEF BuildInv, TypeOK
<1>4. ~lost' /\ context.active /\ Cancelled(context.sessionId) => Cancelled(context.sessionId)'
  <2> SUFFICES ASSUME ~lost', context.active, Cancelled(context.sessionId), ~Cancelled(context.sessionId)'
               PROVE  FALSE
    OBVIOUS
  <2>1. Head(up).type = "cancel" /\ Head(up).sessionId = context.sessionId
    BY <1>1, Received
  <2>2. InSession(Head(up))
    BY <2>1 DEF BuildInv, ContextIsReady, InSession
  <2> QED
    BY <2>1, <2>2 DEF RequestPart, RefuseRequest, DropFlooded
<1>5. BuildModeAgrees'
  BY <1>1, <1>2, <1>4 DEF BuildInv, BuildModeAgrees, Announced, Cancelled
<1>6. ContextIsReady' /\ SelectedIsListed' /\ QueueTellsSession' /\ QueueTellsParts'
  BY <1>1 DEF BuildInv, ContextIsReady, SelectedIsListed, QueueTellsSession, QueueTellsParts,
              LastSession, IsSession, IsWipe, Arrives, Stays, Announced
<1> QED
  BY <1>3, <1>5, <1>6 DEF BuildInv

\* The cooldown of placements is nothing the invariant is about.
LEMMA CooldownStep ==
  ASSUME BuildInv, PlacePart \/ CooldownPasses
  PROVE  BuildInv'
<1>1. UNCHANGED <<ready, client, down, diverged, lost>>
  BY DEF PlacePart, CooldownPasses
<1>2. /\ context' \in Context
      /\ context'.active = context.active /\ context'.sessionId = context.sessionId
      /\ context'.parts = context.parts
  BY DEF PlacePart, CooldownPasses, BuildInv, TypeOK, Context
<1>3. up' \in Seq(UpMessage) /\ (Cancelled(context.sessionId) => Cancelled(context.sessionId)')
  <2>1. CASE PlacePart
    <3>1. Head(up).type = "place" /\ Receive
      BY <2>1 DEF PlacePart
    <3> QED
      BY <1>2, <3>1, Received DEF Cancelled
  <2>2. CASE CooldownPasses
    BY <1>2, <2>2 DEF CooldownPasses, Cancelled, BuildInv, TypeOK
  <2> QED
    BY <2>1, <2>2
<1>4. TypeOK'
  BY <1>1, <1>2, <1>3 DEF BuildInv, TypeOK
<1>5. BuildModeAgrees'
  BY <1>1, <1>2, <1>3 DEF BuildInv, BuildModeAgrees, Announced, Cancelled
<1>6. ContextIsReady' /\ SelectedIsListed' /\ QueueTellsSession' /\ QueueTellsParts'
  BY <1>1, <1>2 DEF BuildInv, ContextIsReady, SelectedIsListed, QueueTellsSession, QueueTellsParts,
              LastSession, IsSession, IsWipe, Arrives, Stays, Announced
<1> QED
  BY <1>4, <1>5, <1>6 DEF BuildInv

\* Whatever the scripts opened in the callback, the last message closes it.
LEMMA CancelStep ==
  ASSUME BuildInv, Cancel
  PROVE  BuildInv'
<1>1. Closing \in DownMessage /\ Closing.type = "close"
  BY DownMessages DEF Closing, Down
<1>2. context' = NoContext /\ NoContext \in Context /\ ~NoContext.active /\ NoContext.parts = {}
  BY DEF Cancel, NoContext, Context
<1>3. /\ down' \in Seq(DownMessage)
      /\ \E n \in DOMAIN down' : /\ down'[n] = Closing
                               /\ \A i \in DOMAIN down' : i # n => n > i
  <2>1. down \in Seq(DownMessage)
    BY DEF BuildInv, TypeOK
  <2>2. CASE down' = down \o <<Closing>>
    <3>1. down' \in Seq(DownMessage) /\ Len(down') = Len(down) + 1 /\ down'[Len(down) + 1] = Closing
      BY <1>1, <2>1, <2>2
    <3> QED
      BY <2>1, <3>1
  <2>3. ASSUME NEW s \in Sessions, down' = down \o <<Opening(s), Closing>>
        PROVE  /\ down' \in Seq(DownMessage) /\ Len(down') = Len(down) + 2
               /\ down'[Len(down) + 2] = Closing
    <3>1. Opening(s) \in DownMessage
      BY DownMessages
    <3> QED
      BY <1>1, <2>1, <2>3, <3>1
  <2>4. CASE \E s \in Sessions : down' = down \o <<Opening(s), Closing>>
    <3>1. down' \in Seq(DownMessage) /\ Len(down') = Len(down) + 2 /\ down'[Len(down) + 2] = Closing
      BY <2>3, <2>4
    <3> QED
      BY <2>1, <3>1
  <2> QED
    BY <2>2, <2>4 DEF Cancel, Send
<1>4. TypeOK'
  BY <1>2, <1>3, NoParts, Received DEF Cancel, BuildInv, TypeOK
<1>5. BuildModeAgrees' /\ SelectedIsListed' /\ ContextIsReady'
  BY <1>1, <1>2, <1>3, NoParts
     DEF Cancel, BuildInv, BuildModeAgrees, SelectedIsListed, ContextIsReady, Announced
<1>6. QueueTellsSession' /\ QueueTellsParts'
  <2>1. PICK n \in DOMAIN down' : down'[n] = Closing /\ \A i \in DOMAIN down' : i # n => n > i
    BY <1>3
  <2>2. LastSession(n)'
    BY <1>1, <1>3, <2>1 DEF LastSession, IsSession
  <2> QED
    BY <1>1, <1>2, <2>1, <2>2 DEF QueueTellsSession, QueueTellsParts
<1> QED
  BY <1>4, <1>5, <1>6 DEF BuildInv

\* The two ends without a session.
LEMMA NobodyIn ==
  /\ NoContext \in Context /\ ~NoContext.active /\ NoContext.parts = {}
  /\ Cardinality(NoContext.parts) <= MaxBuildParts
  /\ NoClient \in Client /\ ~NoClient.active /\ NoClient.parts = {} /\ NoClient.selected = NoPart
<1>1. NoContext.parts = {}
  BY DEF NoContext
<1>2. Cardinality(NoContext.parts) <= MaxBuildParts
  BY <1>1, NoParts
<1> QED
  BY <1>1, <1>2 DEF NoContext, NoClient, Context, Client

\* After the server's reset and after a new connection nothing is open.
LEMMA ResetStep ==
  ASSUME BuildInv, Reset \/ PlayerJoins
  PROVE  BuildInv'
<1>1. /\ context' = NoContext /\ ready' \in BOOLEAN /\ diverged' = FALSE /\ lost' \in BOOLEAN
      /\ ready' => down' = <<>> /\ client' = NoClient
      /\ client' = NoClient \/ client' = client
      /\ up' \in Seq(UpMessage) /\ down' \in Seq(DownMessage)
  <2>1. <<>> \in Seq(UpMessage) /\ <<>> \in Seq(DownMessage)
    OBVIOUS
  <2>2. CASE Reset
    BY <2>2 DEF Reset, BuildInv, TypeOK
  <2>3. CASE PlayerJoins
    BY <2>1, <2>3 DEF PlayerJoins
  <2> QED
    BY <2>2, <2>3
<1>2. context' \in Context /\ ~context'.active /\ context'.parts = {} /\ Cardinality(context'.parts) <= MaxBuildParts
  BY <1>1, NobodyIn
<1>3. client' \in Client /\ (client'.active => client'.sessionId \in Sessions)
  BY <1>1, NobodyIn DEF BuildInv, TypeOK
<1>4. TypeOK'
  BY <1>1, <1>2, <1>3 DEF TypeOK
<1>5. SelectedIsListed' /\ ContextIsReady'
  BY <1>1, <1>2, NobodyIn, NoParts DEF BuildInv, SelectedIsListed, ContextIsReady
<1>6. BuildModeAgrees' /\ QueueTellsParts'
  BY <1>1, <1>2, NobodyIn DEF BuildModeAgrees, QueueTellsParts
<1>7. QueueTellsSession'
  BY <1>1 DEF QueueTellsSession, Announced
<1> QED
  BY <1>4, <1>5, <1>6, <1>7 DEF BuildInv

-----------------------------------------------------------------------------
(* The client's steps. *)

\* The messages that are left when the first one is taken.
LEMMA Taken ==
  ASSUME BuildInv, NEW type, Take(type)
  PROVE  /\ down' \in Seq(DownMessage) /\ Head(down) \in DownMessage /\ Head(down).type = type
         /\ \A i \in DOMAIN down : i \in Nat /\ i >= 1
         /\ \A i \in DOMAIN down' : i \in Nat /\ i >= 1
         /\ 1 \in DOMAIN down /\ down[1] = Head(down)
         /\ \A i \in DOMAIN down' : i + 1 \in DOMAIN down /\ down'[i] = down[i + 1]
         /\ \A i \in DOMAIN down : i # 1 => i - 1 \in DOMAIN down' /\ down'[i - 1] = down[i]
<1>1. down \in Seq(DownMessage) /\ down # <<>> /\ down' = Tail(down) /\ Head(down).type = type
  BY DEF BuildInv, TypeOK, Take
<1>2. \A i \in DOMAIN down : i \in Nat /\ i >= 1
  BY <1>1
<1>3. \A i \in DOMAIN down' : i \in Nat /\ i >= 1
  BY <1>1
<1> QED
  BY <1>1, <1>2, <1>3, TailElements

\* The queue goes on telling of the session: either what was taken was not the
\* last of its kind, or no such message is left.
LEMMA SessionStillTold ==
  ASSUME BuildInv, NEW type, Take(type), UNCHANGED <<ready, context>>
  PROVE  /\ QueueTellsSession'
         /\ ready /\ ~Announced("open")' /\ ~Announced("close")' =>
              /\ type = "open" => context.active /\ context.sessionId = Head(down).sessionId
              /\ type = "close" => ~context.active
<1> SUFFICES ASSUME ready
             PROVE  /\ QueueTellsSession'
                    /\ ~Announced("open")' /\ ~Announced("close")' =>
                         /\ type = "open" => context.active /\ context.sessionId = Head(down).sessionId
                         /\ type = "close" => ~context.active
  BY DEF QueueTellsSession
<1>1. CASE ~Announced("open")' /\ ~Announced("close")'
  <2>1. \A i \in DOMAIN down : IsSession(down[i]) => i = 1
    BY <1>1, Taken DEF Announced, IsSession
  <2>2. type \in {"open", "close"} => Announced(type)
    BY Taken DEF Announced
  <2> QED
    BY <1>1, <2>1, <2>2, Taken DEF QueueTellsSession, LastSession, BuildInv
<1>2. CASE Announced("open")' \/ Announced("close")'
  <2>1. PICK k \in DOMAIN down' : IsSession(down'[k])
    BY <1>2 DEF Announced, IsSession
  <2>2. k + 1 \in DOMAIN down /\ IsSession(down[k + 1]) /\ k + 1 > 1
    BY <2>1, Taken
  <2>3. PICK i \in DOMAIN down :
          /\ LastSession(i)
          /\ IF down[i].type = "open"
             THEN context.active /\ context.sessionId = down[i].sessionId
             ELSE ~context.active
    BY <2>2 DEF QueueTellsSession, BuildInv, Announced, IsSession
  <2>4. i # 1
    BY <2>2, <2>3 DEF LastSession
  <2>5. i - 1 \in DOMAIN down' /\ down'[i - 1] = down[i]
    BY <2>4, Taken
  <2>6. \A j \in DOMAIN down' : j > i - 1 => ~IsSession(down'[j])
    BY <2>3, Taken DEF LastSession
  <2>7. LastSession(i - 1)'
    BY <2>3, <2>5, <2>6 DEF LastSession, IsSession
  <2> QED
    BY <1>2, <2>3, <2>5, <2>7 DEF QueueTellsSession
<1> QED
  BY <1>1, <1>2

\* What taking a message leaves of what will arrive and of what will be wiped.
LEMMA PartsTaken ==
  ASSUME BuildInv, NEW type, Take(type), NEW p \in Parts
  PROVE  /\ (\A i \in DOMAIN down : ~IsWipe(down[i])) <=>
              ~IsWipe(Head(down)) /\ (\A i \in DOMAIN down' : ~IsWipe(down'[i]))
         /\ Arrives(p) <=>
              \/ Arrives(p)'
              \/ /\ type = "addPart" /\ Head(down).part = p /\ Head(down).named
                 /\ \A i \in DOMAIN down' : ~IsWipe(down'[i])
<1>1. (\A i \in DOMAIN down : ~IsWipe(down[i])) <=>
         ~IsWipe(Head(down)) /\ (\A i \in DOMAIN down' : ~IsWipe(down'[i]))
  BY Taken
<1>2. ASSUME Arrives(p)' PROVE Arrives(p)
  <2>1. PICK i \in DOMAIN down' :
          /\ down'[i].type = "addPart" /\ down'[i].part = p /\ down'[i].named
          /\ \A j \in DOMAIN down' : j > i => ~IsWipe(down'[j])
    BY <1>2 DEF Arrives, IsWipe
  <2>2. \A j \in DOMAIN down : j > i + 1 => ~IsWipe(down[j])
    BY <2>1, Taken
  <2> QED
    BY <2>1, <2>2, Taken DEF Arrives
<1>3. ASSUME type = "addPart", Head(down).part = p, Head(down).named,
             \A i \in DOMAIN down' : ~IsWipe(down'[i])
      PROVE  Arrives(p)
  <2>1. \A j \in DOMAIN down : j > 1 => ~IsWipe(down[j])
    BY <1>3, Taken
  <2> QED
    BY <1>3, <2>1, Taken DEF Arrives
<1>4. ASSUME Arrives(p), ~Arrives(p)'
      PROVE  /\ type = "addPart" /\ Head(down).part = p /\ Head(down).named
             /\ \A i \in DOMAIN down' : ~IsWipe(down'[i])
  <2>1. PICK i \in DOMAIN down :
          /\ down[i].type = "addPart" /\ down[i].part = p /\ down[i].named
          /\ \A j \in DOMAIN down : j > i => ~IsWipe(down[j])
    BY <1>4 DEF Arrives
  <2>2. i = 1
    <3> SUFFICES ASSUME i # 1 PROVE FALSE
      OBVIOUS
    <3>1. i - 1 \in DOMAIN down' /\ down'[i - 1] = down[i]
      BY Taken
    <3>2. \A j \in DOMAIN down' : j > i - 1 => ~IsWipe(down'[j])
      BY <2>1, Taken
    <3> QED
      BY <1>4, <2>1, <3>1, <3>2 DEF Arrives, IsWipe
  <2> QED
    BY <2>1, <2>2, Taken
<1> QED
  BY <1>1, <1>2, <1>3, <1>4

\* The player enters the session that was opened last, or an older one when
\* another open or close is under way.
LEMMA HandleOpenStep ==
  ASSUME BuildInv, HandleOpen
  PROVE  BuildInv'
<1>1. Take("open") /\ UNCHANGED <<ready, context, up, diverged, lost>>
  BY DEF HandleOpen
<1>2. Head(down).sessionId \in Sessions /\ Announced("open") /\ IsWipe(Head(down))
  BY <1>1, Taken DEF DownMessage, Announced, IsWipe
<1>3. /\ client' \in Client /\ client'.active /\ client'.sessionId = Head(down).sessionId
      /\ client'.parts = {} /\ client'.selected = NoPart
  BY <1>2 DEF HandleOpen, Client
<1>4. TypeOK'
  BY <1>1, <1>2, <1>3, Taken DEF BuildInv, TypeOK
<1>5. ContextIsReady' /\ SelectedIsListed' /\ QueueTellsSession'
  BY <1>1, <1>3, SessionStillTold DEF BuildInv, ContextIsReady, SelectedIsListed
<1>6. BuildModeAgrees'
  BY <1>1, <1>3, SessionStillTold DEF BuildModeAgrees
<1>7. QueueTellsParts'
  BY <1>1, <1>2, <1>3, PartsTaken DEF BuildInv, QueueTellsParts, Stays
<1> QED
  BY <1>4, <1>5, <1>6, <1>7 DEF BuildInv

\* A close that finds the component in a session was followed by an open.
LEMMA HandleCloseStep ==
  ASSUME BuildInv, HandleClose
  PROVE  BuildInv'
<1>1. Take("close") /\ UNCHANGED <<ready, context, up, diverged, lost>> /\ client' = NoClient
  BY DEF HandleClose
<1>2. IsWipe(Head(down)) /\ Head(down).type = "close"
  BY <1>1, Taken DEF IsWipe
<1>3. Announced("open")' => Announced("open")
  BY <1>1, Taken DEF Announced
<1>4. TypeOK'
  BY <1>1, NobodyIn, Taken DEF BuildInv, TypeOK
<1>5. ContextIsReady' /\ SelectedIsListed' /\ QueueTellsSession'
  BY <1>1, NobodyIn, SessionStillTold DEF BuildInv, ContextIsReady, SelectedIsListed
<1>6. BuildModeAgrees'
  <2>1. context.active => Announced("open")' \/ Announced("close")'
    BY <1>1, SessionStillTold DEF BuildInv, ContextIsReady
  <2>2. context.active => Announced("open")'
    BY <1>1, <1>5, <2>1 DEF BuildInv, ContextIsReady, QueueTellsSession, LastSession, IsSession, Announced
  <2> QED
    BY <1>1, <2>2, NobodyIn DEF BuildModeAgrees
<1>7. QueueTellsParts'
  BY <1>1, <1>2, <1>3, NobodyIn, PartsTaken DEF BuildInv, QueueTellsParts, Stays
<1> QED
  BY <1>4, <1>5, <1>6, <1>7 DEF BuildInv

\* Clearing and adding parts concerns no session.
LEMMA AnnouncedStays ==
  ASSUME BuildInv, NEW type \in {"clearParts", "addPart"}, Take(type)
  PROVE  \A t \in {"open", "close"} : Announced(t)' <=> Announced(t)
  BY Taken DEF Announced

\* The client's list starts anew, as the component's did.
LEMMA HandleClearPartsStep ==
  ASSUME BuildInv, HandleClearParts
  PROVE  BuildInv'
<1>1. Take("clearParts") /\ UNCHANGED <<ready, context, up, diverged, lost>>
  BY DEF HandleClearParts
<1>2. /\ client' \in Client /\ client'.parts = {} /\ client'.selected = NoPart
      /\ client'.active = client.active /\ client'.sessionId = client.sessionId
  BY DEF HandleClearParts, BuildInv, TypeOK, Client
<1>3. TypeOK'
  BY <1>1, <1>2, Taken DEF BuildInv, TypeOK
<1>4. ContextIsReady' /\ SelectedIsListed' /\ QueueTellsSession'
  BY <1>1, <1>2, SessionStillTold DEF BuildInv, ContextIsReady, SelectedIsListed
<1>5. BuildModeAgrees'
  BY <1>1, <1>2, AnnouncedStays DEF BuildInv, BuildModeAgrees, Cancelled
<1>6. QueueTellsParts'
  <2>1. IsWipe(Head(down))
    BY <1>1, Taken DEF IsWipe
  <2> QED
    BY <1>1, <1>2, <2>1, AnnouncedStays, PartsTaken DEF BuildInv, QueueTellsParts, Stays
<1> QED
  BY <1>3, <1>4, <1>5, <1>6 DEF BuildInv

\* What was to arrive has arrived.
LEMMA HandleAddPartStep ==
  ASSUME BuildInv, HandleAddPart
  PROVE  BuildInv'
<1>1. Take("addPart") /\ UNCHANGED <<ready, context, up, diverged, lost>>
  BY DEF HandleAddPart
<1>2. Head(down).part \in Parts /\ Head(down).named \in BOOLEAN /\ ~IsWipe(Head(down))
  <2>1. Head(down) \in DownMessage /\ Head(down).type = "addPart"
    BY <1>1, Taken
  <2>2. Head(down) \in [type : {"addPart"}, sessionId : {NoSession}, part : Parts, named : BOOLEAN]
    BY <2>1 DEF DownMessage
  <2> QED
    BY <2>1, <2>2 DEF IsWipe
<1>3. /\ client' \in Client
      /\ client'.parts = client.parts \cup (IF Head(down).named THEN {Head(down).part} ELSE {})
      /\ client'.active = client.active /\ client'.sessionId = client.sessionId
      /\ client'.selected = client.selected
  BY <1>2 DEF HandleAddPart, BuildInv, TypeOK, Client
<1>4. TypeOK'
  BY <1>1, <1>3, Taken DEF BuildInv, TypeOK
<1>5. ContextIsReady' /\ SelectedIsListed' /\ QueueTellsSession'
  BY <1>1, <1>3, SessionStillTold DEF BuildInv, ContextIsReady, SelectedIsListed
<1>6. BuildModeAgrees'
  BY <1>1, <1>3, AnnouncedStays DEF BuildInv, BuildModeAgrees, Cancelled
<1>7. QueueTellsParts'
  <2>1. ASSUME NEW p \in Parts PROVE Arrives(p) \/ Stays(p) <=> Arrives(p)' \/ Stays(p)'
    <3>1. Stays(p)' <=> /\ p \in client.parts \/ (Head(down).named /\ Head(down).part = p)
                        /\ \A i \in DOMAIN down' : ~IsWipe(down'[i])
      BY <1>3 DEF Stays, IsWipe
    <3>2. Stays(p) <=> p \in client.parts /\ \A i \in DOMAIN down' : ~IsWipe(down'[i])
      BY <1>1, <1>2, PartsTaken DEF Stays
    <3> QED
      BY <1>1, <3>1, <3>2, PartsTaken
  <2> QED
    BY <1>1, <1>3, <2>1, AnnouncedStays DEF BuildInv, QueueTellsParts
<1> QED
  BY <1>4, <1>5, <1>6, <1>7 DEF BuildInv

\* A player in the session chooses, holds or puts back a listed part.
LEMMA PlayerStep ==
  ASSUME BuildInv,
         \/ \E p \in Parts : SelectPart(p)
         \/ \E type \in {"preview", "place"} : SendPart(type)
         \/ ReturnToMenu
  PROVE  BuildInv'
<1>1. UNCHANGED <<ready, context, down, diverged, lost>> /\ client.active
  BY DEF SelectPart, SendPart, ReturnToMenu, Placing
<1>2. /\ client' \in Client /\ client'.active /\ client'.sessionId = client.sessionId
      /\ client'.parts = client.parts /\ SelectedIsListed'
  BY <1>1 DEF SelectPart, SendPart, ReturnToMenu, BuildInv, TypeOK, Client, SelectedIsListed
<1>3. client.sessionId \in Sessions /\ client.selected \in Parts \cup {NoPart}
  BY <1>1 DEF BuildInv, TypeOK, Client
<1>4. \E types \in Seq({"select", "preview", "place", "cancel"}), p \in Parts \cup {NoPart} : Report(types, p)
  <2> DEFINE T == {"select", "preview", "place", "cancel"}
  <2>1. CASE \E p \in Parts : SelectPart(p)
    <3>1. <<"select">> \in Seq(T) /\ <<"select", "preview">> \in Seq(T)
      OBVIOUS
    <3>2. PICK p \in Parts : Report(<<"select">>, p) \/ Report(<<"select", "preview">>, p)
      BY <2>1 DEF SelectPart
    <3> QED
      BY <3>1, <3>2, Zenon
  <2>2. CASE \E type \in {"preview", "place"} : SendPart(type)
    <3>1. \A type \in T : <<type>> \in Seq(T)
      OBVIOUS
    <3>2. PICK type \in {"preview", "place"} : Report(<<type>>, client.selected)
      BY <2>2 DEF SendPart
    <3>3. type \in T
      BY <3>2
    <3> QED
      BY <1>3, <3>1, <3>2, <3>3, Zenon
  <2>3. CASE ReturnToMenu
    <3>1. <<"preview">> \in Seq(T)
      OBVIOUS
    <3>2. Report(<<"preview">>, NoPart)
      BY <2>3 DEF ReturnToMenu
    <3> QED
      BY <3>1, <3>2, Zenon
  <2> QED
    BY <2>1, <2>2, <2>3
<1>5. up' \in Seq(UpMessage)
  BY <1>3, <1>4, ReportType DEF BuildInv
<1>6. TypeOK'
  BY <1>1, <1>2, <1>5 DEF BuildInv, TypeOK
<1>7. BuildModeAgrees'
  BY <1>1, <1>2 DEF BuildInv, BuildModeAgrees, Announced
<1>8. ContextIsReady' /\ QueueTellsSession' /\ QueueTellsParts'
  BY <1>1, <1>2 DEF BuildInv, ContextIsReady, QueueTellsSession, QueueTellsParts,
              LastSession, IsSession, IsWipe, Arrives, Stays, Announced
<1> QED
  BY <1>2, <1>6, <1>7, <1>8 DEF BuildInv

\* A player who leaves a session that the component still has either reports
\* that session, or an open is under way.
LEMMA SendCancelStep ==
  ASSUME BuildInv, SendCancel
  PROVE  BuildInv'
<1>1. /\ UNCHANGED <<ready, context, down, diverged, lost>> /\ client.active /\ client' = NoClient
      /\ Report(<<"cancel">>, NoPart)
  BY DEF SendCancel
<1>2. client.sessionId \in Sessions
  BY <1>1 DEF BuildInv, TypeOK
<1>3. /\ up' \in Seq(UpMessage)
      /\ \E i \in DOMAIN up' : up'[i].type = "cancel" /\ up'[i].sessionId = client.sessionId
  <2>1. <<"cancel">> \in Seq({"select", "preview", "place", "cancel"}) /\ 1 \in DOMAIN <<"cancel">>
        /\ <<"cancel">>[1] = "cancel"
    OBVIOUS
  <2>2. /\ up' \in Seq(UpMessage) /\ Len(up) + 1 \in DOMAIN up'
        /\ up'[Len(up) + 1].type = "cancel" /\ up'[Len(up) + 1].sessionId = client.sessionId
    BY <1>1, <1>2, <2>1, ReportType DEF BuildInv
  <2> QED
    BY <2>2
<1>4. TypeOK'
  BY <1>1, <1>3, NobodyIn DEF BuildInv, TypeOK
<1>5. ContextIsReady' /\ SelectedIsListed' /\ QueueTellsSession'
  BY <1>1, NobodyIn DEF BuildInv, ContextIsReady, SelectedIsListed, QueueTellsSession,
                        LastSession, IsSession, Announced
<1>6. BuildModeAgrees'
  <2>1. context.active => context.sessionId = client.sessionId \/ Announced("open")
    BY <1>1 DEF BuildInv, BuildModeAgrees, ContextIsReady, QueueTellsSession, LastSession,
                IsSession, Announced
  <2>2. context.active /\ context.sessionId = client.sessionId => Cancelled(context.sessionId)'
    BY <1>1, <1>3 DEF Cancelled
  <2> QED
    BY <1>1, <2>1, <2>2, NobodyIn DEF BuildModeAgrees, Announced
<1>7. QueueTellsParts'
  <2>1. Announced("open") => \E i \in DOMAIN down : IsWipe(down[i])
    BY DEF Announced, IsWipe
  <2>2. Announced("open") => \A p \in Parts : ~Stays(p) /\ ~Stays(p)'
    BY <1>1, <2>1 DEF Stays, IsWipe
  <2>3. \A p \in Parts : Arrives(p)' <=> Arrives(p)
    BY <1>1 DEF Arrives, IsWipe
  <2>4. Announced("open")' <=> Announced("open")
    BY <1>1 DEF Announced
  <2> QED
    BY <1>1, <2>2, <2>3, <2>4, NobodyIn DEF BuildInv, QueueTellsParts
<1> QED
  BY <1>4, <1>5, <1>6, <1>7 DEF BuildInv

-----------------------------------------------------------------------------
(* The theorems. *)

\* A step that changes nothing.
LEMMA StutterStep ==
  ASSUME BuildInv, UNCHANGED vars
  PROVE  BuildInv'
  BY DEF BuildInv, vars, TypeOK, ContextIsReady, BuildModeAgrees, SelectedIsListed, QueueTellsSession,
         QueueTellsParts, LastSession, IsSession, IsWipe, Arrives, Stays, Announced, Cancelled

\* Every step keeps the invariant.
LEMMA InvStep == BuildInv /\ [Next]_vars => BuildInv'
<1> SUFFICES ASSUME BuildInv, [Next]_vars PROVE BuildInv'
  OBVIOUS
<1>1. CASE Script
  BY <1>1, OpenBuildStep, CloseBuildStep, ClearBuildPartsStep, AddBuildPartStep DEF Script
<1>2. CASE ServerReceive
  BY <1>2, QuietStep, CooldownStep, CancelStep DEF ServerReceive
<1>3. CASE CooldownPasses \/ Reset \/ PlayerJoins
  BY <1>3, CooldownStep, ResetStep
<1>4. CASE ClientReceive
  BY <1>4, HandleOpenStep, HandleCloseStep, HandleClearPartsStep, HandleAddPartStep DEF ClientReceive
<1>5. CASE Player
  BY <1>5, PlayerStep, SendCancelStep DEF Player
<1>6. CASE UNCHANGED vars
  BY <1>6, StutterStep
<1> QED
  BY <1>1, <1>2, <1>3, <1>4, <1>5, <1>6 DEF Next

\* At any time the queue to the client tells of the component's session and
\* parts, and the two ends agree but for it.
THEOREM BuildInvariant == Spec => []BuildInv
  BY InvInit, InvStep, PTL DEF Spec

\* Contexts, clients and messages stay well-formed and no list of parts grows
\* past its limit, for any limit.
THEOREM TypeCorrect == Spec => []TypeOK
<1>1. BuildInv => TypeOK
  BY DEF BuildInv
<1> QED
  BY <1>1, BuildInvariant, PTL

\* A player builds in the session the component has, or the message that says
\* otherwise is on its way; for any number of sessions and messages in flight.
THEOREM SessionsAgree == Spec => []BuildModeAgrees
<1>1. BuildInv => BuildModeAgrees
  BY DEF BuildInv
<1> QED
  BY <1>1, BuildInvariant, PTL

\* When everything has arrived the two lists of parts are the same.
THEOREM ListsAgree == Spec => []PartsAgree
<1>1. BuildInv => PartsAgree
  <2> SUFFICES ASSUME BuildInv, down = <<>>, client.active, context.active, ~diverged
               PROVE  client.parts = context.parts
    BY DEF PartsAgree
  <2>1. client.parts \subseteq Parts /\ context.parts \subseteq Parts
    BY DEF BuildInv, TypeOK, Client, Context
  <2>2. \A p \in Parts : ~Arrives(p) /\ (Stays(p) <=> p \in client.parts)
    BY DEF Arrives, Stays
  <2> QED
    BY <2>1, <2>2 DEF BuildInv, QueueTellsParts
<1> QED
  BY <1>1, BuildInvariant, PTL

\* What the player holds is on the menu, however the list was cleared, replaced
\* or closed meanwhile.
THEOREM HeldPartIsListed == Spec => []SelectedIsListed
<1>1. BuildInv => SelectedIsListed
  BY DEF BuildInv
<1> QED
  BY <1>1, BuildInvariant, PTL
=============================================================================
