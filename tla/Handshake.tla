----------------------------- MODULE Handshake -----------------------------
(***************************************************************************)
(* The native transport of OpenMP-Plus: RPC 220 carried over the existing  *)
(* player connection.  A client process resolves the RakClient interface   *)
(* of the game, repeats HELLO until a HelloAck arrives and then exchanges  *)
(* ClientRPC / ServerRPC messages; the server component keeps one record   *)
(* per player slot and drops what comes before HELLO or above the rate.    *)
(*                                                                         *)
(* Abstractions.  A connection is one reliable FIFO per direction (RakNet  *)
(* RELIABLE_ORDERED, one ordering channel).  A timer is a flag that an     *)
(* action raises: poll for dwNextHelloAttempt and dwNextNativeInitAttempt,  *)
(* window for the one-second rate window.  Payloads are left out except    *)
(* for the overlay bits of the capabilities, which scripts gate on.        *)
(***************************************************************************)
EXTENDS Naturals, Sequences

CONSTANTS Clients,      \* client processes
          Foreign,      \* those built with another OMPPlusProtocol::Version
          Slots,        \* player ids
          NoClient, NoSlot,
          MaxPerSecond, \* OMPPlusProtocol::MaxMessagesPerSecond
          MaxQueue      \* bound: messages in flight per direction

ASSUME ClientAssumption ==
  /\ Foreign \subseteq Clients
  /\ NoClient \notin Clients
  /\ NoSlot \notin Slots
ASSUME BoundAssumption == MaxPerSecond \in Nat /\ MaxQueue \in Nat

VARIABLES handle,    \* g_pRakClient with Network::bInitialized
          iface,     \* the game's RakClientInterface passes validation
          overlay,   \* COverlayRenderer::IsEnabled()
          connected, \* Network::bConnected
          poll,      \* the poll thread waits for its timer, is due to act,
                     \* or has decided on a HELLO
          link,      \* the player id the game connection of a client has
          peer,      \* the client a player id was given to
          up, down,  \* messages in flight on the connection of a slot
          ready, uiCaps, window, count,  \* OMPPlusPlayerState
          heard      \* the last public called in the scripts for a slot

clientVars == <<handle, iface, overlay, connected, poll>>
playerVars == <<ready, uiCaps, window, count, heard>>
vars == <<clientVars, link, peer, up, down, playerVars>>

UpMessage == [type : {"hello", "rpc"}, from : Clients, overlay : BOOLEAN]
DownMessage == {"ack", "rpc", "error"}

TypeOK ==
  /\ handle \in [Clients -> {"unresolved", "live", "lost"}]
  /\ iface \in [Clients -> BOOLEAN]
  /\ overlay \in [Clients -> BOOLEAN]
  /\ connected \in [Clients -> BOOLEAN]
  /\ poll \in [Clients -> {"waiting", "due", "hello"}]
  /\ link \in [Clients -> Slots \cup {NoSlot}]
  /\ peer \in [Slots -> Clients \cup {NoClient}]
  /\ up \in [Slots -> Seq(UpMessage)]
  /\ down \in [Slots -> Seq(DownMessage)]
  /\ ready \in [Slots -> BOOLEAN]
  /\ uiCaps \in [Slots -> BOOLEAN]
  /\ window \in [Slots -> {"unset", "open", "elapsed"}]
  /\ count \in [Slots -> 0..(MaxPerSecond + 1)]
  /\ heard \in [Slots -> {"none", "ready", "event"}]

Init ==
  /\ handle = [c \in Clients |-> "unresolved"]
  /\ iface \in [Clients -> BOOLEAN]
  /\ overlay \in [Clients -> BOOLEAN]
  /\ connected = [c \in Clients |-> FALSE]
  /\ poll = [c \in Clients |-> "due"]
  /\ link = [c \in Clients |-> NoSlot]
  /\ peer = [s \in Slots |-> NoClient]
  /\ up = [s \in Slots |-> <<>>]
  /\ down = [s \in Slots |-> <<>>]
  /\ ready = [s \in Slots |-> FALSE]
  /\ uiCaps = [s \in Slots |-> FALSE]
  /\ window = [s \in Slots |-> "unset"]
  /\ count = [s \in Slots |-> 0]
  /\ heard = [s \in Slots |-> "none"]

-----------------------------------------------------------------------------
(* The connection, which the game and open.mp own. *)

\* The server still has the slot and so does the client end.
Alive(s) == peer[s] # NoClient /\ link[peer[s]] = s

\* Mutant of ResetPlayer: the session flag survives the player.
ResetPlayerKeepsReady(s) ==
  /\ UNCHANGED ready
  /\ uiCaps' = [uiCaps EXCEPT ![s] = FALSE]
  /\ window' = [window EXCEPT ![s] = "unset"]
  /\ count' = [count EXCEPT ![s] = 0]
  /\ heard' = [heard EXCEPT ![s] = "none"]

\* OMPPlusPlayerState() for one slot, as resetPlayer assigns it.
ResetPlayer(s) ==
  /\ ready' = [ready EXCEPT ![s] = FALSE]
  /\ uiCaps' = [uiCaps EXCEPT ![s] = FALSE]
  /\ window' = [window EXCEPT ![s] = "unset"]
  /\ count' = [count EXCEPT ![s] = 0]
  /\ heard' = [heard EXCEPT ![s] = "none"]

\* The game connects: open.mp hands out a player id and calls onPlayerConnect.
PlayerConnect(c, s) ==
  /\ link[c] = NoSlot
  /\ peer[s] = NoClient
  /\ link' = [link EXCEPT ![c] = s]
  /\ peer' = [peer EXCEPT ![s] = c]
  /\ up' = [up EXCEPT ![s] = <<>>]
  /\ down' = [down EXCEPT ![s] = <<>>]
  /\ ResetPlayer(s)
  /\ UNCHANGED clientVars

\* The client end goes away; the server finds out later and until then keeps
\* what it has received.
LinkLost(c) ==
  /\ link[c] # NoSlot
  /\ link' = [link EXCEPT ![c] = NoSlot]
  /\ down' = [down EXCEPT ![link[c]] = <<>>]
  /\ UNCHANGED <<clientVars, peer, up, playerVars>>

\* A timeout, a quit or a kick: onPlayerDisconnect.
PlayerDisconnect(s) ==
  /\ peer[s] # NoClient
  /\ peer' = [peer EXCEPT ![s] = NoClient]
  /\ link' = [c \in Clients |-> IF link[c] = s THEN NoSlot ELSE link[c]]
  /\ up' = [up EXCEPT ![s] = <<>>]
  /\ down' = [down EXCEPT ![s] = <<>>]
  /\ ResetPlayer(s)
  /\ UNCHANGED clientVars

\* The game process ends and is started again.
ClientRestart(c) ==
  /\ handle' = [handle EXCEPT ![c] = "unresolved"]
  /\ connected' = [connected EXCEPT ![c] = FALSE]
  /\ poll' = [poll EXCEPT ![c] = "due"]
  /\ \E on \in BOOLEAN : overlay' = [overlay EXCEPT ![c] = on]
  /\ link' = [link EXCEPT ![c] = NoSlot]
  /\ down' = [s \in Slots |-> IF link[c] = s THEN <<>> ELSE down[s]]
  /\ UNCHANGED <<iface, peer, up, playerVars>>

\* samp.dll creates or invalidates the interface CGameRakClient points at.
InterfaceChanges(c) ==
  /\ iface' = [iface EXCEPT ![c] = ~@]
  /\ UNCHANGED <<handle, overlay, connected, poll, link, peer, up, down, playerVars>>

\* Hooking or rendering fails and COverlayRenderer sets g_failed for good.
OverlayFails(c) ==
  /\ overlay[c]
  /\ overlay' = [overlay EXCEPT ![c] = FALSE]
  /\ UNCHANGED <<handle, iface, connected, poll, link, peer, up, down, playerVars>>

-----------------------------------------------------------------------------
(* The client: Network.cpp and CGameRakClient.cpp. *)

\* SendMessage: a NULL interface sends nothing, one that fails validation is
\* forgotten, and RPC() on an unconnected RakClient delivers nothing.
SendMessage(c, type) ==
  \/ /\ handle[c] = "lost"
     /\ UNCHANGED <<handle, up>>
  \/ /\ handle[c] = "live" /\ ~iface[c]
     /\ handle' = [handle EXCEPT ![c] = "lost"]
     /\ UNCHANGED up
  \/ /\ handle[c] = "live" /\ iface[c] /\ link[c] = NoSlot
     /\ UNCHANGED <<handle, up>>
  \/ /\ handle[c] = "live" /\ iface[c] /\ link[c] # NoSlot
     /\ Len(up[link[c]]) < MaxQueue
     /\ up' = [up EXCEPT ![link[c]] =
                 Append(@, [type |-> type, from |-> c, overlay |-> overlay[c]])]
     /\ UNCHANGED handle

TimerPasses(c) ==
  /\ poll[c] = "waiting"
  /\ poll' = [poll EXCEPT ![c] = "due"]
  /\ UNCHANGED <<handle, iface, overlay, connected, link, peer, up, down, playerVars>>

\* Process while !bInitialized: try to resolve and register; say HELLO on
\* success, try again in a second otherwise.
ResolveInterface(c) ==
  /\ poll[c] = "due" /\ handle[c] = "unresolved"
  /\ \/ /\ iface[c]
        /\ handle' = [handle EXCEPT ![c] = "live"]
        /\ poll' = [poll EXCEPT ![c] = "hello"]
     \/ /\ ~iface[c]
        /\ poll' = [poll EXCEPT ![c] = "waiting"]
        /\ UNCHANGED handle
  /\ UNCHANGED <<iface, overlay, connected, link, peer, up, down, playerVars>>

\* Mutant of PollHello: the retry reschedules itself and sends nothing.
PollHelloSkipped(c) ==
  /\ poll[c] = "due" /\ handle[c] # "unresolved"
  /\ ~connected[c]
  /\ poll' = [poll EXCEPT ![c] = "waiting"]
  /\ UNCHANGED <<handle, iface, overlay, connected, link, peer, up, down, playerVars>>

\* Process when initialized: the poll thread reads bConnected, which the RPC
\* handler may set before the HELLO it decides on here has been sent.
PollHello(c) ==
  /\ poll[c] = "due" /\ handle[c] # "unresolved"
  /\ ~connected[c]
  /\ poll' = [poll EXCEPT ![c] = "hello"]
  /\ UNCHANGED <<handle, iface, overlay, connected, link, peer, up, down, playerVars>>

SendHello(c) ==
  /\ poll[c] = "hello"
  /\ SendMessage(c, "hello")
  /\ poll' = [poll EXCEPT ![c] = "waiting"]
  /\ UNCHANGED <<iface, overlay, connected, link, peer, down, playerVars>>

\* Network::SendRPC, from any hook or manager of the client.
ClientSendRPC(c) ==
  /\ connected[c]
  /\ SendMessage(c, "rpc")
  /\ UNCHANGED <<iface, overlay, connected, poll, link, peer, down, playerVars>>

\* Mutant of ClientReceive: an ack is only taken with a usable interface.
ClientReceiveNeedsHandle(c) ==
  LET s == link[c] IN
  /\ s # NoSlot
  /\ down[s] # <<>>
  /\ connected' = [connected EXCEPT ![c] =
       @ \/ (handle[c] = "live" /\ c \notin Foreign /\ Head(down[s]) = "ack")]
  /\ down' = [down EXCEPT ![s] = Tail(@)]
  /\ UNCHANGED <<handle, iface, overlay, poll, link, peer, up, playerVars>>

\* HandleNativeRPC: the handler is registered once the interface was resolved;
\* another version's messages fail the header probe, errors are only logged
\* and a ServerRPC is processed whatever bConnected is.
ClientReceive(c) ==
  LET s == link[c] IN
  /\ s # NoSlot
  /\ down[s] # <<>>
  /\ connected' = [connected EXCEPT ![c] =
       @ \/ (handle[c] # "unresolved" /\ c \notin Foreign /\ Head(down[s]) = "ack")]
  /\ down' = [down EXCEPT ![s] = Tail(@)]
  /\ UNCHANGED <<handle, iface, overlay, poll, link, peer, up, playerVars>>

-----------------------------------------------------------------------------
(* The server component: OMPPlusComponent. *)

\* Mutant of NextCount: messagesInWindow is not reset with its window.
NextCountNeverReset(s) == count[s] + 1

\* acceptRate: the count this message makes.  Bound: it stops one above the limit,
\* which is all the comparison tells apart; messagesInWindow goes on counting.
NextCount(s) ==
  LET n == IF window[s] = "open" THEN count[s] + 1 ELSE 1
  IN  IF n > MaxPerSecond THEN MaxPerSecond + 1 ELSE n

Flooded(s) == NextCount(s) > MaxPerSecond

CountMessage(s) ==
  /\ window' = [window EXCEPT ![s] = "open"]
  /\ count' = [count EXCEPT ![s] = NextCount(s)]

WindowPasses(s) ==
  /\ window[s] = "open"
  /\ window' = [window EXCEPT ![s] = "elapsed"]
  /\ UNCHANGED <<clientVars, link, peer, up, down, ready, uiCaps, count, heard>>

\* What player.sendRPC puts on the wire; nothing once the client end is gone.
Reply(s, messages) ==
  IF Alive(s)
  THEN /\ Len(down[s]) + Len(messages) <= MaxQueue
       /\ down' = [down EXCEPT ![s] = @ \o messages]
  ELSE UNCHANGED down

\* onReceive up to the dispatch: the head of the queue is taken and counted.
Receive(s) ==
  /\ peer[s] # NoClient
  /\ up[s] # <<>>
  /\ up' = [up EXCEPT ![s] = Tail(@)]
  /\ CountMessage(s)
  /\ UNCHANGED <<clientVars, link, peer>>

DropFlooded(s) ==
  /\ Receive(s)
  /\ Flooded(s)
  /\ UNCHANGED <<down, ready, uiCaps, heard>>

RejectHeader(s) ==
  /\ Receive(s)
  /\ ~Flooded(s)
  /\ Head(up[s]).from \in Foreign
  /\ Reply(s, <<"error">>)
  /\ UNCHANGED <<ready, uiCaps, heard>>

\* Mutant of HandleHello: the scripts are called before the ack is sent.
HandleHelloCallbackFirst(s) ==
  LET m == Head(up[s]) IN
  /\ Receive(s)
  /\ ~Flooded(s)
  /\ m.from \notin Foreign /\ m.type = "hello"
  /\ ready' = [ready EXCEPT ![s] = TRUE]
  /\ uiCaps' = [uiCaps EXCEPT ![s] = m.overlay]
  /\ \E sent \in {<<>>, <<"rpc">>} : Reply(s, sent \o <<"ack">>)
  /\ heard' = [heard EXCEPT ![s] = IF ready[s] THEN @ ELSE "ready"]

\* Mutant of HandleHello: every HELLO is announced, a retry too.
HandleHelloAnnouncesAll(s) ==
  LET m == Head(up[s]) IN
  /\ Receive(s)
  /\ ~Flooded(s)
  /\ m.from \notin Foreign /\ m.type = "hello"
  /\ ready' = [ready EXCEPT ![s] = TRUE]
  /\ uiCaps' = [uiCaps EXCEPT ![s] = m.overlay]
  /\ Reply(s, <<"ack">>)
  /\ heard' = [heard EXCEPT ![s] = "ready"]

\* handleHello: the record is overwritten and acknowledged every time, the
\* scripts are told the first time, and may send from within that callback.
HandleHello(s) ==
  LET m == Head(up[s]) IN
  /\ Receive(s)
  /\ ~Flooded(s)
  /\ m.from \notin Foreign /\ m.type = "hello"
  /\ ready' = [ready EXCEPT ![s] = TRUE]
  /\ uiCaps' = [uiCaps EXCEPT ![s] = m.overlay]
  /\ \/ /\ ready[s]
        /\ Reply(s, <<"ack">>)
        /\ UNCHANGED heard
     \/ /\ ~ready[s]
        /\ \E sent \in {<<>>, <<"rpc">>} : Reply(s, <<"ack">> \o sent)
        /\ heard' = [heard EXCEPT ![s] = "ready"]

\* handleClientRPC: ignored unless ready, otherwise a public is called.
HandleClientRPC(s) ==
  LET m == Head(up[s]) IN
  /\ Receive(s)
  /\ ~Flooded(s)
  /\ m.from \notin Foreign /\ m.type = "rpc"
  /\ heard' = [heard EXCEPT ![s] = IF ready[s] THEN "event" ELSE @]
  /\ UNCHANGED <<down, ready, uiCaps>>

\* sendLegacyRPC, behind every native a script calls.
SendLegacyRPC(s) ==
  /\ peer[s] # NoClient /\ ready[s]
  /\ Reply(s, <<"rpc">>)
  /\ UNCHANGED <<clientVars, link, peer, up, playerVars>>

\* Mutant of Reset: states_ is forgotten, the scripts are new all the same.
ResetForgetsStates ==
  /\ window' = [s \in Slots |-> "unset"]
  /\ count' = [s \in Slots |-> 0]
  /\ heard' = [s \in Slots |-> "none"]
  /\ UNCHANGED <<clientVars, link, peer, up, down, ready, uiCaps>>

\* reset(), when the game mode changes: every record, with players connected.
Reset ==
  /\ ready' = [s \in Slots |-> FALSE]
  /\ uiCaps' = [s \in Slots |-> FALSE]
  /\ window' = [s \in Slots |-> "unset"]
  /\ count' = [s \in Slots |-> 0]
  /\ heard' = [s \in Slots |-> "none"]
  /\ UNCHANGED <<clientVars, link, peer, up, down>>

-----------------------------------------------------------------------------
PollThread(c) == TimerPasses(c) \/ ResolveInterface(c) \/ PollHello(c) \/ SendHello(c)

ServerReceive(s) ==
  DropFlooded(s) \/ RejectHeader(s) \/ HandleHello(s) \/ HandleClientRPC(s)

Environment ==
  \/ \E c \in Clients, s \in Slots : PlayerConnect(c, s)
  \/ \E c \in Clients : LinkLost(c) \/ ClientRestart(c) \/ InterfaceChanges(c) \/ OverlayFails(c)
  \/ \E s \in Slots : PlayerDisconnect(s) \/ WindowPasses(s)

Next ==
  \/ \E c \in Clients : PollThread(c) \/ ClientSendRPC(c) \/ ClientReceive(c)
  \/ \E s \in Slots : ServerReceive(s) \/ SendLegacyRPC(s)
  \/ Reset
  \/ Environment

\* The bootstrap thread loops until the DLL is detached, RakNet delivers what
\* a live connection carries and the open.mp server runs its network tick;
\* players, scripts, the game and the administrator promise nothing.
Fairness ==
  /\ \A c \in Clients : WF_vars(TimerPasses(c)) /\ WF_vars(ResolveInterface(c))
                        /\ WF_vars(PollHello(c)) /\ WF_vars(SendHello(c))
                        /\ WF_vars(ClientReceive(c))
  /\ \A s \in Slots : WF_vars(ServerReceive(s))

Spec == Init /\ [][Next]_vars /\ Fairness
-----------------------------------------------------------------------------
(* Properties. *)

\* A slot is ready only for a client of the same protocol version that holds
\* it now, and the recorded capabilities never deny a live client the overlay
\* it has: nothing of a previous holder or process survives in the record
\* although a record outlives the client end until the server times it out.
ReadyIsPeers ==
  \A s \in Slots : ready[s] =>
    /\ peer[s] \in Clients \ Foreign
    /\ Alive(s) /\ overlay[peer[s]] => uiCaps[s]

\* A client is never sent a ServerRPC it would process before the HelloAck that
\* opens its own side: Network::bConnected is already set, or the ack is ahead
\* of the RPC in the connection, whatever retries, resets and reconnections do.
AckBeforeRPC ==
  \A s \in Slots : Alive(s) =>
    \A i \in 1..Len(down[s]) : down[s][i] = "rpc" =>
      \/ connected[peer[s]]
      \/ \E j \in 1..(i - 1) : down[s][j] = "ack"

\* Natives reach a player exactly when the scripts have been told that they do:
\* no ready record without OnPlayerOMPPlusReady, and none announced but lost.
AnnouncedIffReady == \A s \in Slots : ready[s] <=> heard[s] # "none"

\* What makes the three above inductive.  The two ends of a connection name each
\* other; what waits in a slot is its peer's and tells of its overlay; a client
\* that said HELLO, and is to be acknowledged, has its RPC handler registered;
\* and a ready slot has its client connected or the ack on its way.
LinkIsPeer == \A c \in Clients : link[c] # NoSlot => peer[link[c]] = c

UpIsPeers ==
  \A s \in Slots : \A i \in 1..Len(up[s]) :
    /\ up[s][i].from = peer[s]
    /\ Alive(s) /\ up[s][i].type = "hello" =>
         /\ handle[peer[s]] # "unresolved"
         /\ overlay[peer[s]] => up[s][i].overlay

AckIsHandled ==
  \A s \in Slots : Alive(s) /\ (\E i \in 1..Len(down[s]) : down[s][i] = "ack") =>
    peer[s] \notin Foreign /\ handle[peer[s]] # "unresolved"

ReadyIsOpening ==
  \A s \in Slots : Alive(s) /\ ready[s] =>
    \/ connected[peer[s]]
    \/ \E i \in 1..Len(down[s]) : down[s][i] = "ack"

HandshakeInv ==
  /\ TypeOK /\ AnnouncedIffReady /\ LinkIsPeer /\ UpIsPeers
  /\ ReadyIsPeers /\ AckIsHandled /\ ReadyIsOpening /\ AckBeforeRPC

Session == INSTANCE ScriptSession WITH heard <- heard, Slots <- Slots

\* The scripts see each slot as ScriptSession promises: one announcement per
\* session whatever HELLO retries cross the ack, nothing before it.
ScriptsSeeSession == Session!Spec

\* A client that keeps its connection and its interface gets through: the
\* repeated HELLO is answered in the end.
HandshakeCompletes ==
  \A c \in Clients \ Foreign :
    (link[c] # NoSlot /\ ~connected[c])
      ~> (connected[c] \/ link[c] = NoSlot \/ ~iface[c] \/ handle[c] = "lost")

\* README.md: "Native RPC 220 handshake over the existing player connection":
\* every connection of a client gets its handshake, not only the first one.
ConnectionIsServed ==
  \A c \in Clients \ Foreign, s \in Slots :
    (link[c] = s)
      ~> (ready[s] \/ link[c] # s \/ ~iface[c] \/ handle[c] = "lost")
=============================================================================
