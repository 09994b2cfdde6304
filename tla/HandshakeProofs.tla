-------------------------- MODULE HandshakeProofs --------------------------
(***************************************************************************)
(* Proofs about Handshake, for any number of clients and slots, any rate   *)
(* and any queue.  HandshakeInv is inductive: it holds initially and every *)
(* action preserves it, shown below action by action.                      *)
(***************************************************************************)
EXTENDS Handshake, TLAPS

(* Queues. *)

\* What is left of a queue is what was behind its head.
LEMMA TailElements ==
  ASSUME NEW S, NEW q \in Seq(S), q # <<>>
  PROVE  /\ Tail(q) \in Seq(S)
         /\ Len(Tail(q)) = Len(q) - 1
         /\ \A i \in 1..Len(Tail(q)) : i + 1 \in 1..Len(q) /\ Tail(q)[i] = q[i + 1]
         /\ Head(q) = q[1] /\ Head(q) \in S /\ 1 \in 1..Len(q)
  OBVIOUS

\* A message is added behind those that wait.
LEMMA AppendElements ==
  ASSUME NEW S, NEW q \in Seq(S), NEW m \in S
  PROVE  /\ Append(q, m) \in Seq(S)
         /\ Len(Append(q, m)) = Len(q) + 1
         /\ \A i \in 1..Len(q) : Append(q, m)[i] = q[i]
         /\ Append(q, m)[Len(q) + 1] = m
  OBVIOUS

LEMMA ConcatElements ==
  ASSUME NEW S, NEW q \in Seq(S), NEW r \in Seq(S)
  PROVE  /\ q \o r \in Seq(S)
         /\ Len(q \o r) = Len(q) + Len(r)
         /\ \A i \in 1..Len(q) : (q \o r)[i] = q[i]
         /\ \A i \in 1..Len(r) : (q \o r)[Len(q) + i] = r[i]
  OBVIOUS

-----------------------------------------------------------------------------
(* What sending does, on either side. *)

\* SendMessage changes nothing but the handle of an interface that has become
\* invalid, or appends to the queue of the slot the client is connected to.
LEMMA SendMessageEffect ==
  ASSUME TypeOK, NEW c \in Clients, NEW type \in {"hello", "rpc"}, SendMessage(c, type)
  PROVE  /\ handle' \in [Clients -> {"unresolved", "live", "lost"}]
         /\ \A d \in Clients : handle[d] # "unresolved" => handle'[d] # "unresolved"
         /\ handle[c] # "unresolved"
         /\ up' \in [Slots -> Seq(UpMessage)]
         /\ \A s \in Slots :
              \/ up'[s] = up[s]
              \/ /\ link[c] = s
                 /\ up'[s] = Append(up[s], [type |-> type, from |-> c, overlay |-> overlay[c]])
<1> DEFINE m == [type |-> type, from |-> c, overlay |-> overlay[c]]
<1>1. m \in UpMessage
  BY DEF TypeOK, UpMessage
<1>2. CASE up' = up
  BY <1>2 DEF TypeOK, SendMessage
<1>3. CASE link[c] # NoSlot /\ up' = [up EXCEPT ![link[c]] = Append(@, m)] /\ handle[c] = "live"
           /\ handle' = handle
  <2>1. link[c] \in Slots
    BY <1>3 DEF TypeOK
  <2>2. Append(up[link[c]], m) \in Seq(UpMessage)
    BY <1>1, <2>1, AppendElements DEF TypeOK
  <2> QED
    BY <1>3, <2>1, <2>2 DEF TypeOK
<1> QED
  BY <1>2, <1>3 DEF SendMessage

\* Reply appends to the queue of a live connection and to no other.
LEMMA ReplyEffect ==
  ASSUME TypeOK, NEW s \in Slots, NEW messages \in Seq(DownMessage), Reply(s, messages)
  PROVE  /\ down' \in [Slots -> Seq(DownMessage)]
         /\ \A t \in Slots : t # s => down'[t] = down[t]
         /\ Alive(s) => down'[s] = down[s] \o messages
<1>1. down[s] \o messages \in Seq(DownMessage)
  BY ConcatElements DEF TypeOK
<1> QED
  BY <1>1 DEF TypeOK, Reply

\* What the component puts on the wire is well-formed.
LEMMA RepliesAreMessages ==
  /\ <<"error">> \in Seq(DownMessage) /\ <<"rpc">> \in Seq(DownMessage)
  /\ <<"ack">> \in Seq(DownMessage)
  /\ <<"ack">> \o <<>> \in Seq(DownMessage)
  /\ <<"ack">> \o <<"rpc">> \in Seq(DownMessage)
BY DEF DownMessage

\* acceptRate never counts past one above the limit.
LEMMA Counted ==
  ASSUME TypeOK, NEW s \in Slots
  PROVE  NextCount(s) \in 0..(MaxPerSecond + 1)
BY BoundAssumption DEF TypeOK, NextCount

-----------------------------------------------------------------------------
(* Types. *)

\* Every action keeps every variable in its type.
LEMMA TypeStep ==
  ASSUME TypeOK, [Next]_vars
  PROVE  TypeOK'
<1>1. ASSUME NEW c \in Clients, NEW s \in Slots, PlayerConnect(c, s)
      PROVE  TypeOK'
  BY <1>1, BoundAssumption DEF TypeOK, PlayerConnect, ResetPlayer, clientVars
<1>2. ASSUME NEW c \in Clients, LinkLost(c)
      PROVE  TypeOK'
  BY <1>2 DEF TypeOK, LinkLost, clientVars, playerVars
<1>3. ASSUME NEW s \in Slots, PlayerDisconnect(s)
      PROVE  TypeOK'
  BY <1>3, BoundAssumption DEF TypeOK, PlayerDisconnect, ResetPlayer, clientVars
<1>4. ASSUME NEW c \in Clients, ClientRestart(c)
      PROVE  TypeOK'
  BY <1>4 DEF TypeOK, ClientRestart, playerVars
<1>5. ASSUME NEW c \in Clients, InterfaceChanges(c) \/ OverlayFails(c)
      PROVE  TypeOK'
  BY <1>5 DEF TypeOK, InterfaceChanges, OverlayFails, playerVars
<1>6. ASSUME NEW c \in Clients, TimerPasses(c) \/ ResolveInterface(c) \/ PollHello(c)
      PROVE  TypeOK'
  BY <1>6 DEF TypeOK, TimerPasses, ResolveInterface, PollHello, playerVars
<1>7. ASSUME NEW c \in Clients, SendHello(c)
      PROVE  TypeOK'
  BY <1>7, SendMessageEffect DEF TypeOK, SendHello, playerVars
<1>8. ASSUME NEW c \in Clients, ClientSendRPC(c)
      PROVE  TypeOK'
  BY <1>8, SendMessageEffect DEF TypeOK, ClientSendRPC, playerVars
<1>9. ASSUME NEW c \in Clients, ClientReceive(c)
      PROVE  TypeOK'
  <2>1. link[c] \in Slots /\ Tail(down[link[c]]) \in Seq(DownMessage)
    BY <1>9, TailElements DEF TypeOK, ClientReceive
  <2> QED
    BY <1>9, <2>1 DEF TypeOK, ClientReceive, playerVars
<1>10. ASSUME NEW s \in Slots, Receive(s)
       PROVE  /\ up' \in [Slots -> Seq(UpMessage)]
              /\ window' \in [Slots -> {"unset", "open", "elapsed"}]
              /\ count' \in [Slots -> 0..(MaxPerSecond + 1)]
              /\ Head(up[s]) \in UpMessage
  BY <1>10, Counted, TailElements DEF TypeOK, Receive, CountMessage
<1>11. ASSUME NEW s \in Slots, DropFlooded(s)
       PROVE  TypeOK'
  BY <1>10, <1>11 DEF TypeOK, DropFlooded, Receive, clientVars
<1>12. ASSUME NEW s \in Slots, RejectHeader(s)
       PROVE  TypeOK'
  <2>1. down' \in [Slots -> Seq(DownMessage)]
    BY <1>12, ReplyEffect, RepliesAreMessages DEF RejectHeader
  <2> QED
    BY <1>10, <1>12, <2>1 DEF TypeOK, RejectHeader, Receive, clientVars
<1>13. ASSUME NEW s \in Slots, HandleHello(s)
       PROVE  TypeOK'
  <2>1. down' \in [Slots -> Seq(DownMessage)]
    BY <1>13, ReplyEffect, RepliesAreMessages DEF HandleHello
  <2>2. Head(up[s]).overlay \in BOOLEAN
    BY <1>10, <1>13 DEF HandleHello, UpMessage
  <2> QED
    BY <1>10, <1>13, <2>1, <2>2 DEF TypeOK, HandleHello, Receive, clientVars
<1>14. ASSUME NEW s \in Slots, HandleClientRPC(s)
       PROVE  TypeOK'
  BY <1>10, <1>14 DEF TypeOK, HandleClientRPC, Receive, clientVars
<1>15. ASSUME NEW s \in Slots, SendLegacyRPC(s)
       PROVE  TypeOK'
  <2>1. down' \in [Slots -> Seq(DownMessage)]
    BY <1>15, ReplyEffect, RepliesAreMessages DEF SendLegacyRPC
  <2> QED
    BY <1>15, <2>1 DEF TypeOK, SendLegacyRPC, clientVars, playerVars
<1>16. CASE Reset
  BY <1>16, BoundAssumption DEF TypeOK, Reset, clientVars
<1>17. ASSUME NEW s \in Slots, WindowPasses(s)
       PROVE  TypeOK'
  BY <1>17 DEF TypeOK, WindowPasses, clientVars
<1>18. CASE UNCHANGED vars
  BY <1>18 DEF TypeOK, vars, clientVars, playerVars
<1> QED
  BY <1>1, <1>2, <1>3, <1>4, <1>5, <1>6, <1>7, <1>8, <1>9, <1>11, <1>12, <1>13,
     <1>14, <1>15, <1>16, <1>17, <1>18
     DEF Next, PollThread, ServerReceive, Environment

\* Every variable keeps its type: queues carry only messages of their direction,
\* and the counter of the rate window never passes one above the limit.
THEOREM TypeCorrect == Spec => []TypeOK
<1>1. Init => TypeOK
  BY BoundAssumption DEF Init, TypeOK
<1> QED
  BY <1>1, TypeStep, PTL DEF Spec

-----------------------------------------------------------------------------
(* The inductive invariant, by the actor that moves. *)

\* A connection comes up: its slot starts empty, and a slot that still has the
\* client's previous connection is not alive any more.
LEMMA PlayerConnectStep ==
  ASSUME HandshakeInv, TypeOK', NEW c \in Clients, NEW s \in Slots, PlayerConnect(c, s)
  PROVE  HandshakeInv'
<1> USE DEF HandshakeInv
<1>1. /\ peer' = [peer EXCEPT ![s] = c] /\ link' = [link EXCEPT ![c] = s]
      /\ up'[s] = <<>> /\ down'[s] = <<>> /\ ~ready'[s] /\ heard'[s] = "none"
      /\ UNCHANGED clientVars
      /\ \A t \in Slots \ {s} :
           /\ peer'[t] = peer[t] /\ up'[t] = up[t] /\ down'[t] = down[t]
           /\ ready'[t] = ready[t] /\ uiCaps'[t] = uiCaps[t] /\ heard'[t] = heard[t]
  BY DEF TypeOK, PlayerConnect, ResetPlayer
<1>2. \A t \in Slots \ {s} : Alive(t)' => Alive(t)
  BY <1>1, ClientAssumption DEF TypeOK, Alive
<1>3. AnnouncedIffReady'
  BY <1>1 DEF AnnouncedIffReady
<1>4. LinkIsPeer'
  BY <1>1, ClientAssumption DEF TypeOK, LinkIsPeer, PlayerConnect
<1>5. UpIsPeers'
  BY <1>1, <1>2 DEF UpIsPeers, clientVars
<1>6. ReadyIsPeers'
  BY <1>1, <1>2 DEF ReadyIsPeers, clientVars
<1>7. AckIsHandled'
  BY <1>1, <1>2 DEF AckIsHandled, clientVars
<1>8. ReadyIsOpening'
  BY <1>1, <1>2 DEF ReadyIsOpening, clientVars
<1>9. AckBeforeRPC'
  BY <1>1, <1>2 DEF AckBeforeRPC, clientVars
<1> QED
  BY <1>3, <1>4, <1>5, <1>6, <1>7, <1>8, <1>9

\* A step that adds no message and makes no slot alive or ready: what it leaves
\* alive is as it was, but for an overlay that fails.
LEMMA QuietStep ==
  ASSUME HandshakeInv, TypeOK',
         \A s \in Slots : Alive(s)' =>
           /\ Alive(s)
           /\ peer'[s] = peer[s] /\ down'[s] = down[s]
           /\ connected'[peer[s]] = connected[peer[s]]
           /\ handle[peer[s]] # "unresolved" => handle'[peer[s]] # "unresolved"
           /\ overlay'[peer[s]] => overlay[peer[s]],
         \A s \in Slots : ready'[s] =>
           ready[s] /\ peer'[s] = peer[s] /\ uiCaps'[s] = uiCaps[s],
         \A s \in Slots : up'[s] = <<>> \/ (up'[s] = up[s] /\ peer'[s] = peer[s])
  PROVE  UpIsPeers' /\ ReadyIsPeers' /\ AckIsHandled' /\ ReadyIsOpening' /\ AckBeforeRPC'
<1> USE DEF HandshakeInv
<1>1. UpIsPeers'
  BY DEF UpIsPeers
<1>2. ReadyIsPeers'
  BY DEF ReadyIsPeers
<1>3. AckIsHandled'
  BY DEF AckIsHandled
<1>4. ReadyIsOpening'
  BY DEF ReadyIsOpening
<1>5. AckBeforeRPC'
  BY DEF AckBeforeRPC
<1> QED
  BY <1>1, <1>2, <1>3, <1>4, <1>5

\* The rest of the world: connections end, processes restart, interfaces and
\* overlays fail, windows pass, the game mode changes.
LEMMA WorldStep ==
  ASSUME HandshakeInv, TypeOK',
         \/ \E c \in Clients : LinkLost(c) \/ ClientRestart(c) \/ InterfaceChanges(c) \/ OverlayFails(c)
         \/ \E s \in Slots : PlayerDisconnect(s) \/ WindowPasses(s)
         \/ Reset
  PROVE  HandshakeInv'
<1> USE DEF HandshakeInv
<1>1. ASSUME NEW c \in Clients, LinkLost(c)
      PROVE  HandshakeInv'
  <2>1. AnnouncedIffReady' /\ LinkIsPeer'
    BY <1>1 DEF TypeOK, AnnouncedIffReady, LinkIsPeer, LinkLost, playerVars
  <2>2. \A s \in Slots : Alive(s)' => Alive(s) /\ peer[s] # c
    BY <1>1, ClientAssumption DEF TypeOK, Alive, LinkLost
  <2>3. \A s \in Slots : peer[s] # c => down'[s] = down[s]
    BY <1>1 DEF TypeOK, LinkLost, LinkIsPeer
  <2> QED
    BY <1>1, <2>1, <2>2, <2>3, QuietStep DEF LinkLost, clientVars, playerVars
<1>2. ASSUME NEW c \in Clients, ClientRestart(c)
      PROVE  HandshakeInv'
  <2>1. AnnouncedIffReady' /\ LinkIsPeer'
    BY <1>2 DEF TypeOK, AnnouncedIffReady, LinkIsPeer, ClientRestart, playerVars
  <2>2. \A s \in Slots : Alive(s)' => Alive(s) /\ peer[s] # c /\ peer[s] \in Clients
    BY <1>2, ClientAssumption DEF TypeOK, Alive, ClientRestart
  <2>3. \A s \in Slots : peer[s] # c => down'[s] = down[s]
    BY <1>2, ClientAssumption DEF TypeOK, ClientRestart, LinkIsPeer
  <2>4. \A d \in Clients : d # c =>
          /\ connected'[d] = connected[d]
          /\ handle'[d] = handle[d]
          /\ overlay'[d] = overlay[d]
    BY <1>2 DEF TypeOK, ClientRestart
  <2> QED
    BY <1>2, <2>1, <2>2, <2>3, <2>4, QuietStep DEF ClientRestart, playerVars
<1>3. ASSUME NEW c \in Clients, InterfaceChanges(c)
      PROVE  HandshakeInv'
  BY <1>3, QuietStep DEF InterfaceChanges, AnnouncedIffReady, LinkIsPeer, Alive, playerVars
<1>4. ASSUME NEW c \in Clients, OverlayFails(c)
      PROVE  HandshakeInv'
  <2>1. \A d \in Clients : overlay'[d] => overlay[d]
    BY <1>4 DEF TypeOK, OverlayFails
  <2> QED
    BY <1>4, <2>1, QuietStep
       DEF TypeOK, OverlayFails, AnnouncedIffReady, LinkIsPeer, Alive, playerVars
<1>5. ASSUME NEW s \in Slots, PlayerDisconnect(s)
      PROVE  HandshakeInv'
  <2>1. AnnouncedIffReady' /\ LinkIsPeer'
    BY <1>5 DEF TypeOK, AnnouncedIffReady, LinkIsPeer, PlayerDisconnect, ResetPlayer
  <2>2. \A t \in Slots : Alive(t)' => Alive(t) /\ t # s
    BY <1>5, ClientAssumption DEF TypeOK, Alive, PlayerDisconnect
  <2>3. \A t \in Slots : t # s =>
          /\ up'[t] = up[t] /\ down'[t] = down[t] /\ peer'[t] = peer[t]
          /\ ready'[t] = ready[t] /\ uiCaps'[t] = uiCaps[t]
    BY <1>5 DEF TypeOK, PlayerDisconnect, ResetPlayer
  <2>4. up'[s] = <<>> /\ ~ready'[s]
    BY <1>5 DEF TypeOK, PlayerDisconnect, ResetPlayer
  <2> QED
    BY <1>5, <2>1, <2>2, <2>3, <2>4, QuietStep DEF PlayerDisconnect, clientVars
<1>6. ASSUME NEW s \in Slots, WindowPasses(s)
      PROVE  HandshakeInv'
  BY <1>6, QuietStep DEF WindowPasses, AnnouncedIffReady, LinkIsPeer, Alive, clientVars
<1>7. CASE Reset
  BY <1>7, QuietStep DEF Reset, AnnouncedIffReady, LinkIsPeer, Alive, clientVars
<1> QED
  BY <1>1, <1>2, <1>3, <1>4, <1>5, <1>6, <1>7

\* The poll thread up to the HELLO it decides on: a handle is only resolved.
LEMMA PollStep ==
  ASSUME HandshakeInv, TypeOK', NEW c \in Clients,
         TimerPasses(c) \/ ResolveInterface(c) \/ PollHello(c)
  PROVE  HandshakeInv'
<1> USE DEF HandshakeInv
<1>1. UNCHANGED <<overlay, connected, link, peer, up, down, playerVars>>
  BY DEF TimerPasses, ResolveInterface, PollHello
<1>2. \A d \in Clients : handle[d] # "unresolved" => handle'[d] # "unresolved"
  BY DEF TypeOK, TimerPasses, ResolveInterface, PollHello
<1> QED
  BY <1>1, <1>2, QuietStep DEF TypeOK, AnnouncedIffReady, LinkIsPeer, Alive, playerVars

\* The client sends: it has resolved its handle, and a HELLO tells of the
\* overlay it has now.
LEMMA ClientSendStep ==
  ASSUME HandshakeInv, TypeOK', NEW c \in Clients, SendHello(c) \/ ClientSendRPC(c)
  PROVE  HandshakeInv'
<1> USE DEF HandshakeInv
<1>1. PICK type \in {"hello", "rpc"} : SendMessage(c, type)
  BY DEF SendHello, ClientSendRPC
<1> DEFINE m == [type |-> type, from |-> c, overlay |-> overlay[c]]
<1>2. /\ \A d \in Clients : handle[d] # "unresolved" => handle'[d] # "unresolved"
      /\ handle[c] # "unresolved"
      /\ \A s \in Slots : up'[s] = up[s] \/ (link[c] = s /\ up'[s] = Append(up[s], m))
  BY <1>1, SendMessageEffect
<1>3. m \in UpMessage
  BY DEF TypeOK, UpMessage
<1>4. UNCHANGED <<overlay, connected, link, peer, down, ready, uiCaps, heard>>
  BY DEF SendHello, ClientSendRPC, playerVars
<1>5. \A s \in Slots : /\ Alive(s)' <=> Alive(s)
                       /\ Alive(s) => peer[s] \in Clients
  BY <1>4 DEF TypeOK, Alive
<1>6. UpIsPeers'
  <2> SUFFICES ASSUME NEW s \in Slots, NEW i \in 1..Len(up'[s])
               PROVE  /\ up'[s][i].from = peer[s]
                      /\ Alive(s) /\ up'[s][i].type = "hello" =>
                           /\ handle'[peer[s]] # "unresolved"
                           /\ overlay[peer[s]] => up'[s][i].overlay
    BY <1>4, <1>5 DEF UpIsPeers
  <2>1. CASE up'[s] = up[s]
    BY <1>2, <1>5, <2>1 DEF UpIsPeers
  <2>2. CASE link[c] = s /\ up'[s] = Append(up[s], m)
    <3>1. peer[s] = c
      BY <2>2, ClientAssumption DEF TypeOK, LinkIsPeer
    <3>2. i \in 1..Len(up[s]) \/ up'[s][i] = m
      BY <1>3, <2>2, AppendElements DEF TypeOK
    <3>3. i \in 1..Len(up[s]) => up'[s][i] = up[s][i]
      BY <1>3, <2>2, AppendElements DEF TypeOK
    <3> QED
      BY <1>2, <1>5, <3>1, <3>2, <3>3 DEF UpIsPeers
  <2> QED
    BY <1>2, <2>1, <2>2
<1>7. AnnouncedIffReady' /\ LinkIsPeer' /\ ReadyIsPeers' /\ ReadyIsOpening' /\ AckBeforeRPC'
  BY <1>4, <1>5 DEF AnnouncedIffReady, LinkIsPeer, ReadyIsPeers, ReadyIsOpening, AckBeforeRPC
<1>8. AckIsHandled'
  BY <1>2, <1>4, <1>5 DEF TypeOK, AckIsHandled, Alive
<1> QED
  BY <1>6, <1>7, <1>8

\* The client takes the head of its queue: an ack it loses connects it, and an
\* RPC behind that ack now finds it connected.
LEMMA ClientReceiveStep ==
  ASSUME HandshakeInv, TypeOK', NEW c \in Clients, ClientReceive(c)
  PROVE  HandshakeInv'
<1> USE DEF HandshakeInv
<1>1. PICK s \in Slots : s = link[c] /\ s # NoSlot
  BY ClientAssumption DEF TypeOK, ClientReceive
<1>2. peer[s] = c /\ Alive(s)
  BY <1>1, ClientAssumption DEF TypeOK, LinkIsPeer, Alive
<1>3. UNCHANGED <<handle, overlay, link, peer, up, ready, uiCaps, heard>>
  BY DEF ClientReceive, playerVars
<1>4. \A t \in Slots : /\ Alive(t)' <=> Alive(t)
                       /\ Alive(t) => peer[t] \in Clients
  BY <1>3 DEF TypeOK, Alive
<1>5. \A t \in Slots : t # s => down'[t] = down[t]
  BY <1>1, <1>2 DEF TypeOK, ClientReceive
<1>6. /\ Head(down[s]) = down[s][1] /\ Len(down'[s]) = Len(down[s]) - 1
      /\ \A i \in 1..Len(down'[s]) : i + 1 \in 1..Len(down[s]) /\ down'[s][i] = down[s][i + 1]
      /\ 1 \in 1..Len(down[s]) /\ Len(down[s]) \in Nat
  BY <1>1, <1>2, TailElements DEF TypeOK, ClientReceive
<1>7. /\ \A d \in Clients : connected[d] => connected'[d]
      /\ down[s][1] = "ack" => connected'[c]
  <2>1. down[s][1] = "ack" => handle[c] # "unresolved" /\ c \notin Foreign
    BY <1>2, <1>6 DEF AckIsHandled
  <2>2. connected'[c] = (connected[c] \/ (handle[c] # "unresolved" /\ c \notin Foreign
                                           /\ down[s][1] = "ack"))
    BY <1>1, <1>6 DEF TypeOK, ClientReceive
  <2>3. \A d \in Clients : d # c => connected'[d] = connected[d]
    BY DEF TypeOK, ClientReceive
  <2> QED
    BY <2>1, <2>2, <2>3
<1>8. AnnouncedIffReady' /\ LinkIsPeer' /\ UpIsPeers' /\ ReadyIsPeers'
  BY <1>3, <1>4 DEF AnnouncedIffReady, LinkIsPeer, UpIsPeers, ReadyIsPeers
<1>9. AckIsHandled'
  <2> SUFFICES ASSUME NEW t \in Slots, Alive(t),
                      NEW i \in 1..Len(down'[t]), down'[t][i] = "ack"
               PROVE  peer[t] \notin Foreign /\ handle[peer[t]] # "unresolved"
    BY <1>3, <1>4 DEF AckIsHandled
  <2>1. \E j \in 1..Len(down[t]) : down[t][j] = "ack"
    <3>1. CASE t = s
      BY <1>6, <3>1
    <3>2. CASE t # s
      BY <1>5, <3>2
    <3> QED
      BY <3>1, <3>2
  <2> QED
    BY <2>1 DEF AckIsHandled
<1>10. \A i \in 1..Len(down[s]) : i # 1 => i - 1 \in 1..Len(down'[s]) /\ down'[s][i - 1] = down[s][i]
  BY <1>6
<1>11. ReadyIsOpening'
  <2> SUFFICES ASSUME NEW t \in Slots, Alive(t), ready[t]
               PROVE  \/ connected'[peer[t]]
                      \/ \E i \in 1..Len(down'[t]) : down'[t][i] = "ack"
    BY <1>3, <1>4 DEF ReadyIsOpening
  <2>1. CASE t # s
    BY <1>4, <1>5, <1>7, <2>1 DEF ReadyIsOpening
  <2>2. CASE t = s
    BY <1>1, <1>2, <1>7, <1>10, <2>2 DEF ReadyIsOpening
  <2> QED
    BY <2>1, <2>2
<1>12. AckBeforeRPC'
  <2> SUFFICES ASSUME NEW t \in Slots, Alive(t),
                      NEW i \in 1..Len(down'[t]), down'[t][i] = "rpc", ~connected'[peer[t]]
               PROVE  \E j \in 1..(i - 1) : down'[t][j] = "ack"
    BY <1>3, <1>4 DEF AckBeforeRPC
  <2>1. CASE t # s
    BY <1>4, <1>5, <1>7, <2>1 DEF AckBeforeRPC
  <2>2. CASE t = s
    <3>1. i + 1 \in 1..Len(down[s]) /\ down[s][i + 1] = "rpc" /\ ~connected[c] /\ down[s][1] # "ack"
      BY <1>1, <1>2, <1>6, <1>7, <2>2
    <3>2. PICK j \in 1..i : down[s][j] = "ack"
      <4>1. \E j \in 1..((i + 1) - 1) : down[s][j] = "ack"
        BY <1>1, <1>2, <3>1 DEF AckBeforeRPC
      <4> QED
        BY <4>1
    <3>3. j # 1 /\ j \in 1..Len(down[s])
      BY <3>1, <3>2
    <3>4. down'[s][j - 1] = "ack" /\ j - 1 \in 1..(i - 1)
      BY <1>10, <3>2, <3>3
    <3> QED
      BY <2>2, <3>4
  <2> QED
    BY <2>1, <2>2
<1> QED
  BY <1>8, <1>9, <1>11, <1>12

\* onReceive takes the head of a queue: it is the peer's, as all that is behind.
LEMMA ReceiveEffect ==
  ASSUME HandshakeInv, NEW s \in Slots, Receive(s)
  PROVE  /\ UNCHANGED <<clientVars, link, peer>>
         /\ LinkIsPeer' /\ UpIsPeers'
         /\ \A t \in Slots : (Alive(t)' <=> Alive(t)) /\ (Alive(t) => peer[t] \in Clients)
         /\ Head(up[s]).from = peer[s] /\ peer[s] \in Clients
         /\ Head(up[s]).overlay \in BOOLEAN
         /\ Alive(s) /\ Head(up[s]).type = "hello" =>
              handle[peer[s]] # "unresolved" /\ (overlay[peer[s]] => Head(up[s]).overlay)
<1> USE DEF HandshakeInv
<1>1. UNCHANGED <<handle, iface, overlay, connected, poll, link, peer>>
  BY DEF Receive, clientVars
<1>2. /\ Head(up[s]) = up[s][1] /\ Head(up[s]) \in UpMessage /\ 1 \in 1..Len(up[s])
      /\ \A i \in 1..Len(up'[s]) : i + 1 \in 1..Len(up[s]) /\ up'[s][i] = up[s][i + 1]
  BY TailElements DEF TypeOK, Receive
<1>3. \A t \in Slots : t # s => up'[t] = up[t]
  BY DEF TypeOK, Receive
<1>4. \A t \in Slots : (Alive(t)' <=> Alive(t)) /\ (Alive(t) => peer[t] \in Clients)
  BY <1>1 DEF TypeOK, Alive
<1>5. LinkIsPeer'
  BY <1>1 DEF LinkIsPeer
<1>6. UpIsPeers'
  <2>1. ASSUME NEW t \in Slots, NEW i \in 1..Len(up'[t])
        PROVE  \E j \in 1..Len(up[t]) : up'[t][i] = up[t][j]
    <3>1. CASE t = s
      BY <1>2, <3>1
    <3>2. CASE t # s
      BY <1>3, <3>2
    <3> QED
      BY <3>1, <3>2
  <2>2. SUFFICES ASSUME NEW t \in Slots, NEW i \in 1..Len(up'[t])
                 PROVE  /\ up'[t][i].from = peer[t]
                        /\ Alive(t) /\ up'[t][i].type = "hello" =>
                             /\ handle[peer[t]] # "unresolved"
                             /\ overlay[peer[t]] => up'[t][i].overlay
    BY <1>1, <1>4 DEF UpIsPeers
  <2>3. PICK j \in 1..Len(up[t]) : up'[t][i] = up[t][j]
    BY <2>1
  <2> QED
    BY <2>3 DEF UpIsPeers
<1>7. Head(up[s]).from = peer[s] /\ peer[s] \in Clients /\ Head(up[s]).overlay \in BOOLEAN
  BY <1>2 DEF UpIsPeers, UpMessage
<1>8. Alive(s) /\ Head(up[s]).type = "hello" =>
        handle[peer[s]] # "unresolved" /\ (overlay[peer[s]] => Head(up[s]).overlay)
  BY <1>2 DEF UpIsPeers
<1> QED
  BY <1>1, <1>4, <1>5, <1>6, <1>7, <1>8 DEF clientVars

\* A reply without an ack: what was in the queue stays ahead of it, and an RPC
\* is only sent to a slot that is ready.
LEMMA ReplyStep ==
  ASSUME HandshakeInv, NEW s \in Slots, NEW reply \in {"error", "rpc"}, Reply(s, <<reply>>),
         reply = "rpc" => ready[s],
         UNCHANGED <<clientVars, link, peer, ready>>
  PROVE  AckIsHandled' /\ ReadyIsOpening' /\ AckBeforeRPC'
<1> USE DEF HandshakeInv
<1>1. UNCHANGED <<handle, connected, link, peer, ready>>
  BY DEF clientVars
<1>2. \A t \in Slots : Alive(t)' <=> Alive(t)
  BY <1>1 DEF Alive
<1>3. <<reply>> \in Seq(DownMessage) /\ Len(<<reply>>) = 1 /\ <<reply>>[1] = reply
  BY DEF DownMessage
<1>4. \A t \in Slots : t # s => down'[t] = down[t]
  BY <1>3, ReplyEffect
<1>5. Alive(s) =>
        /\ Len(down[s]) \in Nat /\ Len(down'[s]) = Len(down[s]) + 1
        /\ \A i \in 1..Len(down[s]) : i \in 1..Len(down'[s]) /\ down'[s][i] = down[s][i]
        /\ down'[s][Len(down[s]) + 1] = reply
  <2> SUFFICES ASSUME Alive(s)
               PROVE  /\ Len(down[s]) \in Nat /\ Len(down'[s]) = Len(down[s]) + 1
                      /\ \A i \in 1..Len(down[s]) : i \in 1..Len(down'[s]) /\ down'[s][i] = down[s][i]
                      /\ down'[s][Len(down[s]) + 1] = reply
    OBVIOUS
  <2>1. down[s] \in Seq(DownMessage) /\ down'[s] = down[s] \o <<reply>>
    BY <1>3, ReplyEffect DEF TypeOK
  <2> QED
    BY <1>3, <2>1, ConcatElements
<1>6. AckIsHandled'
  <2> SUFFICES ASSUME NEW t \in Slots, Alive(t),
                      NEW i \in 1..Len(down'[t]), down'[t][i] = "ack"
               PROVE  peer[t] \notin Foreign /\ handle[peer[t]] # "unresolved"
    BY <1>1, <1>2 DEF AckIsHandled
  <2>1. i \in 1..Len(down[t]) /\ down[t][i] = "ack"
    <3>1. CASE t = s
      BY <1>5, <3>1
    <3>2. CASE t # s
      BY <1>4, <3>2
    <3> QED
      BY <3>1, <3>2
  <2> QED
    BY <2>1 DEF AckIsHandled
<1>7. ReadyIsOpening'
  BY <1>1, <1>2, <1>4, <1>5 DEF ReadyIsOpening
<1>8. AckBeforeRPC'
  <2> SUFFICES ASSUME NEW t \in Slots, Alive(t), ~connected[peer[t]],
                      NEW i \in 1..Len(down'[t]), down'[t][i] = "rpc"
               PROVE  \E j \in 1..(i - 1) : down'[t][j] = "ack"
    BY <1>1, <1>2 DEF AckBeforeRPC
  <2>1. CASE t # s
    BY <1>4, <2>1 DEF AckBeforeRPC
  <2>2. CASE t = s /\ i \in 1..Len(down[s])
    <3>1. PICK j \in 1..(i - 1) : down[s][j] = "ack"
      BY <1>5, <2>2 DEF AckBeforeRPC
    <3>2. down'[s][j] = "ack"
      BY <1>5, <2>2, <3>1
    <3> QED
      BY <2>2, <3>2
  <2>3. CASE t = s /\ i = Len(down[s]) + 1
    <3>1. PICK j \in 1..Len(down[s]) : down[s][j] = "ack"
      BY <1>5, <2>3 DEF ReadyIsOpening
    <3>2. down'[s][j] = "ack" /\ j \in 1..(i - 1)
      BY <1>5, <2>3, <3>1
    <3> QED
      BY <2>3, <3>2
  <2> QED
    BY <1>5, <2>1, <2>2, <2>3
<1> QED
  BY <1>6, <1>7, <1>8

\* handleHello: the ack goes out with the record, ahead of what the scripts send
\* from their callback, to a client whose handler is registered.
LEMMA HandleHelloStep ==
  ASSUME HandshakeInv, TypeOK', NEW s \in Slots, HandleHello(s)
  PROVE  HandshakeInv'
<1> USE DEF HandshakeInv
<1>1. Receive(s) /\ Head(up[s]).from \notin Foreign /\ Head(up[s]).type = "hello"
  BY DEF HandleHello
<1>2. PICK sent \in {<<>>, <<"rpc">>} : Reply(s, <<"ack">> \o sent)
  <2>1. <<"ack">> = <<"ack">> \o <<>>
    OBVIOUS
  <2> QED
    BY <2>1 DEF HandleHello
<1>3. <<"ack">> \o sent \in Seq(DownMessage)
  BY <1>2, RepliesAreMessages
<1>4. Len(<<"ack">> \o sent) \in 1..2 /\ (<<"ack">> \o sent)[1] = "ack"
  <2>1. <<"ack">> \in Seq(DownMessage) /\ Len(<<"ack">>) = 1 /\ <<"ack">>[1] = "ack"
    BY DEF DownMessage
  <2>2. sent \in Seq(DownMessage) /\ Len(sent) \in 0..1
    <3>1. CASE sent = <<>>
      BY <3>1
    <3>2. CASE sent = <<"rpc">>
      BY <3>2 DEF DownMessage
    <3> QED
      BY <1>2, <3>1, <3>2
  <2> QED
    BY <2>1, <2>2, ConcatElements
<1>5. /\ UNCHANGED <<handle, overlay, connected, link, peer>> /\ LinkIsPeer' /\ UpIsPeers'
      /\ \A t \in Slots : (Alive(t)' <=> Alive(t)) /\ (Alive(t) => peer[t] \in Clients)
      /\ peer[s] \in Clients \ Foreign /\ Head(up[s]).overlay \in BOOLEAN
      /\ Alive(s) => handle[peer[s]] # "unresolved"
                     /\ (overlay[peer[s]] => Head(up[s]).overlay)
  BY <1>1, ReceiveEffect DEF clientVars
<1>6. /\ ready'[s] /\ uiCaps'[s] = Head(up[s]).overlay /\ heard'[s] # "none"
      /\ \A t \in Slots : t # s =>
           ready'[t] = ready[t] /\ uiCaps'[t] = uiCaps[t] /\ heard'[t] = heard[t]
  BY DEF TypeOK, HandleHello, AnnouncedIffReady
<1>7. \A t \in Slots : t # s => down'[t] = down[t]
  BY <1>2, <1>3, ReplyEffect
<1>8. Alive(s) =>
        /\ Len(down[s]) \in Nat /\ Len(down'[s]) \in (Len(down[s]) + 1)..(Len(down[s]) + 2)
        /\ \A i \in 1..Len(down[s]) : i \in 1..Len(down'[s]) /\ down'[s][i] = down[s][i]
        /\ down'[s][Len(down[s]) + 1] = "ack"
  <2> SUFFICES ASSUME Alive(s)
               PROVE  /\ Len(down[s]) \in Nat
                      /\ Len(down'[s]) \in (Len(down[s]) + 1)..(Len(down[s]) + 2)
                      /\ \A i \in 1..Len(down[s]) : i \in 1..Len(down'[s]) /\ down'[s][i] = down[s][i]
                      /\ down'[s][Len(down[s]) + 1] = "ack"
    OBVIOUS
  <2> DEFINE reply == <<"ack">> \o sent
  <2>1. down[s] \in Seq(DownMessage) /\ down'[s] = down[s] \o reply
    BY <1>2, <1>3, ReplyEffect DEF TypeOK
  <2>2. reply \in Seq(DownMessage) /\ Len(reply) \in 1..2 /\ reply[1] = "ack"
    BY <1>3, <1>4
  <2> HIDE DEF reply
  <2>3. /\ Len(down'[s]) = Len(down[s]) + Len(reply) /\ Len(down[s]) \in Nat
        /\ \A i \in 1..Len(down[s]) : down'[s][i] = down[s][i]
        /\ \A i \in 1..Len(reply) : down'[s][Len(down[s]) + i] = reply[i]
    BY <2>1, <2>2, ConcatElements
  <2>4. down'[s][Len(down[s]) + 1] = "ack"
    BY <2>2, <2>3
  <2>5. Len(down'[s]) \in (Len(down[s]) + 1)..(Len(down[s]) + 2)
    BY <2>2, <2>3
  <2>6. \A i \in 1..Len(down[s]) : i \in 1..Len(down'[s])
    BY <2>2, <2>3
  <2> QED
    BY <2>3, <2>4, <2>5, <2>6
<1>9. AnnouncedIffReady'
  BY <1>6 DEF AnnouncedIffReady
<1>10. ReadyIsPeers'
  BY <1>5, <1>6 DEF ReadyIsPeers
<1>11. AckIsHandled'
  BY <1>5, <1>7 DEF AckIsHandled
<1>12. ReadyIsOpening'
  <2> SUFFICES ASSUME NEW t \in Slots, Alive(t), ready'[t]
               PROVE  connected[peer[t]] \/ \E i \in 1..Len(down'[t]) : down'[t][i] = "ack"
    BY <1>5 DEF ReadyIsOpening
  <2>1. CASE t = s
    BY <1>8, <2>1
  <2>2. CASE t # s
    BY <1>6, <1>7, <2>2 DEF ReadyIsOpening
  <2> QED
    BY <2>1, <2>2
<1>13. AckBeforeRPC'
  <2> SUFFICES ASSUME NEW t \in Slots, Alive(t), ~connected[peer[t]],
                      NEW i \in 1..Len(down'[t]), down'[t][i] = "rpc"
               PROVE  \E j \in 1..(i - 1) : down'[t][j] = "ack"
    BY <1>5 DEF AckBeforeRPC
  <2>1. CASE t # s
    BY <1>7, <2>1 DEF AckBeforeRPC
  <2>2. CASE t = s /\ i \in 1..Len(down[s])
    <3>1. PICK j \in 1..(i - 1) : down[s][j] = "ack"
      BY <1>8, <2>2 DEF AckBeforeRPC
    <3>2. down'[s][j] = "ack"
      BY <1>8, <2>2, <3>1
    <3> QED
      BY <2>2, <3>2
  <2>3. CASE t = s /\ i \notin 1..Len(down[s])
    <3>1. i # Len(down[s]) + 1
      BY <1>8, <2>3
    <3>2. Len(down[s]) + 1 \in 1..(i - 1)
      BY <1>8, <2>3, <3>1
    <3> QED
      BY <1>8, <2>3, <3>2
  <2> QED
    BY <2>1, <2>2, <2>3
<1> QED
  BY <1>5, <1>9, <1>10, <1>11, <1>12, <1>13

\* Everything else the component does with a message, and what scripts send.
LEMMA ServerStep ==
  ASSUME HandshakeInv, TypeOK', NEW s \in Slots,
         DropFlooded(s) \/ RejectHeader(s) \/ HandleClientRPC(s) \/ SendLegacyRPC(s)
  PROVE  HandshakeInv'
<1> USE DEF HandshakeInv
<1>1. CASE DropFlooded(s)
  <2>1. UNCHANGED <<down, ready, uiCaps, heard>> /\ Receive(s)
    BY <1>1 DEF DropFlooded
  <2> QED
    BY <2>1, ReceiveEffect
       DEF AnnouncedIffReady, ReadyIsPeers, AckIsHandled, ReadyIsOpening, AckBeforeRPC, clientVars
<1>2. CASE RejectHeader(s)
  <2>1. UNCHANGED <<ready, uiCaps, heard>> /\ Receive(s) /\ Reply(s, <<"error">>)
    BY <1>2 DEF RejectHeader
  <2> QED
    BY <2>1, ReceiveEffect, ReplyStep DEF AnnouncedIffReady, ReadyIsPeers, clientVars
<1>3. CASE HandleClientRPC(s)
  <2>1. UNCHANGED <<down, ready, uiCaps>> /\ Receive(s)
    BY <1>3 DEF HandleClientRPC
  <2>2. AnnouncedIffReady'
    BY <1>3 DEF TypeOK, HandleClientRPC, AnnouncedIffReady
  <2> QED
    BY <2>1, <2>2, ReceiveEffect
       DEF ReadyIsPeers, AckIsHandled, ReadyIsOpening, AckBeforeRPC, clientVars
<1>4. CASE SendLegacyRPC(s)
  <2>1. UNCHANGED <<clientVars, link, peer, up, ready, uiCaps, heard>>
    BY <1>4 DEF SendLegacyRPC, playerVars
  <2>2. AckIsHandled' /\ ReadyIsOpening' /\ AckBeforeRPC'
    BY <1>4, <2>1, ReplyStep DEF SendLegacyRPC
  <2> QED
    BY <2>1, <2>2
       DEF AnnouncedIffReady, LinkIsPeer, UpIsPeers, ReadyIsPeers, Alive, clientVars
<1> QED
  BY <1>1, <1>2, <1>3, <1>4

-----------------------------------------------------------------------------
(* The theorems. *)

LEMMA InvInit == Init => HandshakeInv
<1> SUFFICES ASSUME Init
             PROVE  HandshakeInv
  OBVIOUS
<1>1. TypeOK
  BY BoundAssumption DEF Init, TypeOK
<1>2. AnnouncedIffReady /\ LinkIsPeer /\ ReadyIsPeers
  BY DEF Init, AnnouncedIffReady, LinkIsPeer, ReadyIsPeers
<1>3. UpIsPeers /\ AckIsHandled /\ ReadyIsOpening /\ AckBeforeRPC
  BY DEF Init, UpIsPeers, AckIsHandled, ReadyIsOpening, AckBeforeRPC
<1> QED
  BY <1>1, <1>2, <1>3 DEF HandshakeInv

LEMMA InvStep == HandshakeInv /\ [Next]_vars => HandshakeInv'
<1> SUFFICES ASSUME HandshakeInv, [Next]_vars
             PROVE  HandshakeInv'
  OBVIOUS
<1>1. TypeOK'
  BY TypeStep DEF HandshakeInv
<1>2. CASE \E c \in Clients : PollThread(c) \/ ClientSendRPC(c) \/ ClientReceive(c)
  BY <1>1, <1>2, PollStep, ClientSendStep, ClientReceiveStep DEF PollThread
<1>3. CASE \E s \in Slots : ServerReceive(s) \/ SendLegacyRPC(s)
  BY <1>1, <1>3, HandleHelloStep, ServerStep DEF ServerReceive
<1>4. CASE Environment \/ Reset
  BY <1>1, <1>4, PlayerConnectStep, WorldStep DEF Environment
<1>5. CASE UNCHANGED vars
  BY <1>1, <1>5
     DEF HandshakeInv, AnnouncedIffReady, LinkIsPeer, UpIsPeers, ReadyIsPeers, AckIsHandled,
         ReadyIsOpening, AckBeforeRPC, Alive, vars, clientVars, playerVars
<1> QED
  BY <1>2, <1>3, <1>4, <1>5 DEF Next

\* The invariant holds of every behaviour of the transport.
THEOREM HandshakeInvariant == Spec => []HandshakeInv
  BY InvInit, InvStep, PTL DEF Spec

\* A ready slot is its present holder's: same version, overlay not denied.
THEOREM ReadyIsPeersHolds == Spec => []ReadyIsPeers
<1>1. HandshakeInv => ReadyIsPeers
  BY DEF HandshakeInv
<1> QED
  BY <1>1, HandshakeInvariant, PTL

\* No client is sent an RPC ahead of the HelloAck that lets it answer.
THEOREM AckBeforeRPCHolds == Spec => []AckBeforeRPC
<1>1. HandshakeInv => AckBeforeRPC
  BY DEF HandshakeInv
<1> QED
  BY <1>1, HandshakeInvariant, PTL

\* Scripts are told of a session exactly when there is one.
THEOREM AnnouncedIffReadyHolds == Spec => []AnnouncedIffReady
<1>1. HandshakeInv => AnnouncedIffReady
  BY DEF HandshakeInv
<1> QED
  BY <1>1, HandshakeInvariant, PTL

-----------------------------------------------------------------------------
(* Handshake implements ScriptSession. *)

\* What a step does to the slots is one of the three operations of the abstract
\* specification, or nothing the scripts notice.
LEMMA SessionStep ==
  ASSUME HandshakeInv, [Next]_vars
  PROVE  [Session!Next]_heard
<1> USE DEF HandshakeInv
<1>1. ASSUME NEW s \in Slots, HandleHello(s)
      PROVE  [Session!Next]_heard
  <2>1. CASE ready[s]
    BY <1>1, <2>1 DEF HandleHello
  <2>2. CASE ~ready[s]
    <3>1. Session!Announce(s)
      BY <1>1, <2>2 DEF HandleHello, AnnouncedIffReady, Session!Announce
    <3> QED
      BY <3>1 DEF Session!Next
  <2> QED
    BY <2>1, <2>2
<1>2. ASSUME NEW s \in Slots, HandleClientRPC(s)
      PROVE  [Session!Next]_heard
  <2>1. CASE ready[s]
    <3>1. Session!Notify(s)
      BY <1>2, <2>1 DEF HandleClientRPC, AnnouncedIffReady, Session!Notify
    <3> QED
      BY <3>1 DEF Session!Next
  <2>2. CASE ~ready[s]
    BY <1>2, <2>2 DEF HandleClientRPC, TypeOK
  <2> QED
    BY <2>1, <2>2
<1>3. ASSUME NEW s \in Slots, ResetPlayer(s)
      PROVE  [Session!Next]_heard
  <2>1. Session!Forget({s})
    BY <1>3 DEF ResetPlayer, TypeOK, Session!Forget
  <2> QED
    BY <2>1 DEF Session!Next
<1>4. CASE Reset
  <2>1. Session!Forget(Slots)
    BY <1>4 DEF Reset, Session!Forget
  <2> QED
    BY <2>1 DEF Session!Next
<1>5. ASSUME NEW c \in Clients,
             PollThread(c) \/ ClientSendRPC(c) \/ ClientReceive(c)
             \/ LinkLost(c) \/ ClientRestart(c) \/ InterfaceChanges(c) \/ OverlayFails(c)
      PROVE  UNCHANGED heard
  BY <1>5
     DEF PollThread, TimerPasses, ResolveInterface, PollHello, SendHello, ClientSendRPC,
         ClientReceive, LinkLost, ClientRestart, InterfaceChanges, OverlayFails, playerVars
<1>6. ASSUME NEW s \in Slots,
             DropFlooded(s) \/ RejectHeader(s) \/ SendLegacyRPC(s) \/ WindowPasses(s)
      PROVE  UNCHANGED heard
  BY <1>6 DEF DropFlooded, RejectHeader, SendLegacyRPC, WindowPasses, playerVars
<1>7. CASE UNCHANGED vars
  BY <1>7 DEF vars, playerVars
<1> QED
  BY <1>1, <1>2, <1>3, <1>4, <1>5, <1>6, <1>7
     DEF Next, ServerReceive, Environment, PlayerConnect, PlayerDisconnect

\* Whatever HELLO retries, resets, reconnections and restarts do, scripts see
\* each slot announced once per session and nothing before that.
THEOREM ImplementsScriptSession == Spec => ScriptsSeeSession
<1>1. Init => Session!Init
  BY DEF Init, Session!Init
<1> QED
  BY <1>1, SessionStep, HandshakeInvariant, PTL DEF Spec, ScriptsSeeSession, Session!Spec
=============================================================================
