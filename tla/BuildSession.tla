---------------------------- MODULE BuildSession ----------------------------
(***************************************************************************)
(* The build mode of one player: a script opens a session on the server    *)
(* component and lists parts, the client shows a menu, lets the player     *)
(* choose a part and place it, and asks the component for every placement. *)
(*                                                                         *)
(* Abstractions.  The handshake is done (module Handshake), a connection   *)
(* is one FIFO per direction.  The placement cooldown is a flag that time  *)
(* lowers.  Rotation, aim, results, the remove highlight and the cursor    *)
(* are left out.                                                           *)
(***************************************************************************)
EXTENDS Naturals, Sequences, FiniteSets

CONSTANTS Sessions, Parts, NoSession, NoPart,  \* NoSession and NoPart are 0
          MaxBuildParts,
          MaxQueue  \* bound: messages in flight per direction

ASSUME BuildAssumption ==
  /\ NoSession \notin Sessions /\ NoPart \notin Parts
  /\ MaxBuildParts \in Nat /\ MaxQueue \in Nat

VARIABLES ready,    \* OMPPlusPlayerState::ready
          context,  \* buildContexts_[playerid]
          client,   \* CBuildManager: m_active, m_sessionId, m_parts, ...
          up, down,
          diverged, \* history: the script did what the client does not follow
          lost      \* history: a message of the client was not processed

vars == <<ready, context, client, up, down, diverged, lost>>

Context == [active : BOOLEAN, sessionId : Sessions \cup {NoSession},
            parts : SUBSET Parts, cooling : BOOLEAN]
Client == [active : BOOLEAN, sessionId : Sessions \cup {NoSession},
           parts : SUBSET Parts, selected : Parts \cup {NoPart}, menuOpen : BOOLEAN]
DownMessage ==
  [type : {"open"}, sessionId : Sessions, part : {NoPart}, named : {TRUE}]
  \cup [type : {"addPart"}, sessionId : {NoSession}, part : Parts, named : BOOLEAN]
  \cup [type : {"close", "clearParts"}, sessionId : {NoSession}, part : {NoPart}, named : {TRUE}]
UpMessage == [type : {"select", "preview", "place", "cancel"},
              sessionId : Sessions, part : Parts \cup {NoPart}]

NoContext == [active |-> FALSE, sessionId |-> NoSession, parts |-> {}, cooling |-> FALSE]
NoClient == [active |-> FALSE, sessionId |-> NoSession, parts |-> {},
             selected |-> NoPart, menuOpen |-> FALSE]

TypeOK ==
  /\ ready \in BOOLEAN
  /\ context \in Context /\ Cardinality(context.parts) <= MaxBuildParts
  /\ client \in Client /\ (client.active => client.sessionId \in Sessions)
  /\ up \in Seq(UpMessage) /\ down \in Seq(DownMessage)
  /\ diverged \in BOOLEAN /\ lost \in BOOLEAN

Init ==
  /\ ready = TRUE
  /\ context = NoContext
  /\ client = NoClient
  /\ up = <<>> /\ down = <<>>
  /\ diverged = FALSE /\ lost = FALSE

-----------------------------------------------------------------------------
(* The server component: what scripts call. *)

Down(type, s, p, named) == [type |-> type, sessionId |-> s, part |-> p, named |-> named]
Opening(s) == Down("open", s, NoPart, TRUE)
Closing == Down("close", NoSession, NoPart, TRUE)

Send(messages) ==
  /\ Len(down) + Len(messages) <= MaxQueue
  /\ down' = down \o messages

\* openBuild: the parts of a session that is open stay in the context, while
\* the client drops its own.
OpenBuild(s) ==
  /\ ready
  /\ context' = [context EXCEPT !.active = TRUE, !.sessionId = s, !.cooling = FALSE]
  /\ Send(<<Opening(s)>>)
  /\ diverged' = (context.parts # {})
  /\ UNCHANGED <<ready, client, up, lost>>

CloseBuild ==
  /\ context' = NoContext
  /\ IF ready THEN Send(<<Closing>>) ELSE UNCHANGED down
  /\ diverged' = FALSE
  /\ UNCHANGED <<ready, client, up, lost>>

ClearBuildParts ==
  /\ ready /\ context.active
  /\ context' = [context EXCEPT !.parts = {}]
  /\ Send(<<Down("clearParts", NoSession, NoPart, TRUE)>>)
  /\ diverged' = FALSE
  /\ UNCHANGED <<ready, client, up, lost>>

\* Mutant of AddBuildPart: the part is listed and not sent.
AddBuildPartUnsent(p, named) ==
  /\ ready /\ context.active
  /\ Cardinality(context.parts) < MaxBuildParts
  /\ p \notin context.parts
  /\ context' = [context EXCEPT !.parts = @ \cup {p}]
  /\ diverged' = (diverged \/ ~named)
  /\ UNCHANGED <<ready, client, up, down, lost>>

\* Mutant of AddBuildPart: the list takes one part too many.
AddBuildPartOneMore(p, named) ==
  /\ ready /\ context.active
  /\ Cardinality(context.parts) <= MaxBuildParts
  /\ p \notin context.parts
  /\ context' = [context EXCEPT !.parts = @ \cup {p}]
  /\ Send(<<Down("addPart", NoSession, p, named)>>)
  /\ diverged' = (diverged \/ ~named)
  /\ UNCHANGED <<ready, client, up, lost>>

\* addBuildPart: a full list or a known part is refused and nothing is sent; a
\* part without a name is listed here and dropped by the client.
AddBuildPart(p, named) ==
  /\ ready /\ context.active
  /\ Cardinality(context.parts) < MaxBuildParts
  /\ p \notin context.parts
  /\ context' = [context EXCEPT !.parts = @ \cup {p}]
  /\ Send(<<Down("addPart", NoSession, p, named)>>)
  /\ diverged' = (diverged \/ ~named)
  /\ UNCHANGED <<ready, client, up, lost>>

-----------------------------------------------------------------------------
(* The server component: what clients send. *)

Receive == up # <<>> /\ up' = Tail(up)
InSession(m) == ready /\ context.active /\ context.sessionId = m.sessionId

\* processBuildSelect and processBuildPreview pass a listed part, or none, on to
\* the scripts; processBuildPlace passes it on unless the cooldown runs.
RequestPart ==
  /\ Receive
  /\ Head(up).type \in {"select", "preview"} /\ InSession(Head(up))
  /\ Head(up).part \in context.parts \cup {NoPart}
  /\ UNCHANGED <<ready, context, client, down, diverged, lost>>

PlacePart ==
  /\ Receive
  /\ Head(up).type = "place" /\ InSession(Head(up))
  /\ Head(up).part \in context.parts /\ ~context.cooling
  /\ context' = [context EXCEPT !.cooling = TRUE]
  /\ UNCHANGED <<ready, client, down, diverged, lost>>

\* Mutant of Cancel: a session opened by the scripts stays, the client is told
\* to close all the same.
CancelKeepsReopened ==
  /\ Receive
  /\ Head(up).type = "cancel" /\ InSession(Head(up))
  /\ \/ Send(<<Closing>>) /\ context' = NoContext
     \/ \E s \in Sessions :
          /\ Send(<<Opening(s), Closing>>)
          /\ context' = [NoContext EXCEPT !.active = TRUE, !.sessionId = s]
  /\ diverged' = FALSE
  /\ UNCHANGED <<ready, client, lost>>

\* processBuildCancel: the scripts are called while the session is open, may
\* open another one, and whatever is open afterwards is closed.
Cancel ==
  /\ Receive
  /\ Head(up).type = "cancel" /\ InSession(Head(up))
  /\ \/ Send(<<Closing>>)
     \/ \E s \in Sessions : Send(<<Opening(s), Closing>>)
  /\ context' = NoContext
  /\ diverged' = FALSE
  /\ UNCHANGED <<ready, client, lost>>

\* A request that names another session or an unlisted part, or comes too early.
RefuseRequest ==
  LET m == Head(up) IN
  /\ Receive
  /\ \/ ~InSession(m)
     \/ m.type # "cancel" /\ m.part \notin context.parts \cup {NoPart}
     \/ m.type = "place" /\ context.cooling
  /\ UNCHANGED <<ready, context, client, down, diverged, lost>>

\* acceptRate refuses the message.
DropFlooded ==
  /\ Receive
  /\ lost' = TRUE
  /\ UNCHANGED <<ready, context, client, down, diverged>>

CooldownPasses ==
  /\ context.cooling
  /\ context' = [context EXCEPT !.cooling = FALSE]
  /\ UNCHANGED <<ready, client, up, down, diverged, lost>>

\* reset(), when the game mode changes: the client is not told.
Reset ==
  /\ ready' = FALSE
  /\ context' = NoContext
  /\ diverged' = FALSE
  /\ UNCHANGED <<client, up, down, lost>>

\* Another connection and its handshake, from a new client process.
PlayerJoins ==
  /\ ready' = TRUE
  /\ context' = NoContext
  /\ client' = NoClient
  /\ up' = <<>> /\ down' = <<>>
  /\ diverged' = FALSE /\ lost' = FALSE

-----------------------------------------------------------------------------
(* The client: CBuildManager, every step under its lock. *)

Take(type) == down # <<>> /\ Head(down).type = type /\ down' = Tail(down)

HandleOpen ==
  /\ Take("open")
  /\ client' = [active |-> TRUE, sessionId |-> Head(down).sessionId, parts |-> {},
                selected |-> NoPart, menuOpen |-> TRUE]
  /\ UNCHANGED <<ready, context, up, diverged, lost>>

\* Mutant of HandleClose: only a player in the menu is taken out.
HandleCloseInMenu ==
  /\ Take("close")
  /\ client' = IF client.menuOpen THEN NoClient ELSE client
  /\ UNCHANGED <<ready, context, up, diverged, lost>>

HandleClose ==
  /\ Take("close")
  /\ client' = NoClient
  /\ UNCHANGED <<ready, context, up, diverged, lost>>

\* Mutant of HandleClearParts: the part the player holds is kept.
HandleClearPartsKeepsSelected ==
  /\ Take("clearParts")
  /\ client' = [client EXCEPT !.parts = {}]
  /\ UNCHANGED <<ready, context, up, diverged, lost>>

\* The menu stays as it is, closed when the player was placing.
HandleClearParts ==
  /\ Take("clearParts")
  /\ client' = [client EXCEPT !.parts = {}, !.selected = NoPart]
  /\ UNCHANGED <<ready, context, up, diverged, lost>>

\* A part is listed whether or not a session is open.
HandleAddPart ==
  /\ Take("addPart")
  /\ client' = IF Head(down).named
               THEN [client EXCEPT !.parts = @ \cup {Head(down).part}] ELSE client
  /\ UNCHANGED <<ready, context, up, diverged, lost>>

Report(types, p) ==
  /\ Len(up) + Len(types) <= MaxQueue
  /\ up' = up \o [i \in DOMAIN types |->
                    [type |-> types[i], sessionId |-> client.sessionId, part |-> p]]

\* A button of the menu: select and, except for the remove tool, preview.
SelectPart(p) ==
  /\ client.active /\ client.menuOpen /\ p \in client.parts
  /\ client' = [client EXCEPT !.selected = p, !.menuOpen = FALSE]
  /\ \/ Report(<<"select">>, p)
     \/ Report(<<"select", "preview">>, p)
  /\ UNCHANGED <<ready, context, down, diverged, lost>>

Placing == client.active /\ ~client.menuOpen

\* SendPreviewState every interval, and SendPlace on a click.
SendPart(type) ==
  /\ Placing /\ client.selected # NoPart
  /\ Report(<<type>>, client.selected)
  /\ UNCHANGED <<ready, context, client, down, diverged, lost>>

\* The right button while placing.
ReturnToMenu ==
  /\ Placing
  /\ Report(<<"preview">>, NoPart)
  /\ client' = [client EXCEPT !.menuOpen = TRUE, !.selected = NoPart]
  /\ UNCHANGED <<ready, context, down, diverged, lost>>

\* ESC, or the right button in the menu.
SendCancel ==
  /\ client.active
  /\ Report(<<"cancel">>, NoPart)
  /\ client' = NoClient
  /\ UNCHANGED <<ready, context, down, diverged, lost>>

-----------------------------------------------------------------------------
Script ==
  \/ \E s \in Sessions : OpenBuild(s)
  \/ CloseBuild \/ ClearBuildParts
  \/ \E p \in Parts, named \in BOOLEAN : AddBuildPart(p, named)

ServerReceive == RequestPart \/ PlacePart \/ Cancel \/ RefuseRequest \/ DropFlooded

ClientReceive == HandleOpen \/ HandleClose \/ HandleClearParts \/ HandleAddPart

Player ==
  \/ \E p \in Parts : SelectPart(p)
  \/ \E type \in {"preview", "place"} : SendPart(type)
  \/ ReturnToMenu \/ SendCancel

Next ==
  \/ Script \/ ServerReceive \/ CooldownPasses \/ Reset \/ PlayerJoins
  \/ ClientReceive \/ Player

\* RakNet delivers and both ends read what has arrived.
Fairness == WF_vars(ServerReceive) /\ WF_vars(ClientReceive)

Spec == Init /\ [][Next]_vars /\ Fairness
-----------------------------------------------------------------------------
(* Properties. *)

Announced(type) == \E i \in DOMAIN down : down[i].type = type
Cancelled(s) == \E i \in DOMAIN up : up[i].type = "cancel" /\ up[i].sessionId = s

\* The two ends agree on the session but for what is under way: a player builds
\* in the session the component has, unless it is reset, or an open or close is
\* on its way; and a session without a player in it has its open or cancel on
\* its way, unless a request was dropped.  Sessions opened from within the
\* cancel callback, reopened and reused ids included.
BuildModeAgrees ==
  /\ client.active /\ ready =>
       \/ context.active /\ context.sessionId = client.sessionId
       \/ Announced("open") \/ Announced("close")
  /\ context.active /\ ~client.active /\ ~lost =>
       Announced("open") \/ Cancelled(context.sessionId)

\* When everything sent has arrived the menu lists exactly the parts that the
\* component accepts requests for, unless the script opened a session over one
\* that had parts or listed a part without a name.
PartsAgree ==
  (down = <<>> /\ client.active /\ context.active /\ ~diverged) => client.parts = context.parts

\* The player never holds a part that is not on the menu, so that no request
\* names a part of an earlier list.
SelectedIsListed == client.selected # NoPart => client.active /\ client.selected \in client.parts

\* What is behind BuildModeAgrees and PartsAgree.  The queue to the client tells
\* of the component's session and parts: its last open or close is the session
\* as it is, and what it will leave of the client's parts are the component's.
IsSession(m) == m.type \in {"open", "close"}
IsWipe(m) == m.type \in {"open", "close", "clearParts"}
LastSession(i) == IsSession(down[i]) /\ \A j \in DOMAIN down : j > i => ~IsSession(down[j])

ContextIsReady == (context.active => ready) /\ IsFiniteSet(context.parts)

QueueTellsSession ==
  ready /\ (Announced("open") \/ Announced("close")) =>
    \E i \in DOMAIN down :
      /\ LastSession(i)
      /\ IF down[i].type = "open"
         THEN context.active /\ context.sessionId = down[i].sessionId
         ELSE ~context.active

Arrives(p) ==
  \E i \in DOMAIN down :
    /\ down[i].type = "addPart" /\ down[i].part = p /\ down[i].named
    /\ \A j \in DOMAIN down : j > i => ~IsWipe(down[j])
Stays(p) == p \in client.parts /\ \A i \in DOMAIN down : ~IsWipe(down[i])

QueueTellsParts ==
  context.active /\ ~diverged /\ (client.active \/ Announced("open")) =>
    \A p \in Parts : p \in context.parts <=> Arrives(p) \/ Stays(p)

BuildInv ==
  /\ TypeOK /\ ContextIsReady /\ BuildModeAgrees /\ SelectedIsListed
  /\ QueueTellsSession /\ QueueTellsParts

\* A session that the component has ended does not keep the player in build
\* mode for ever.
BuildModeEnds ==
  (client.active /\ ready /\ ~context.active) ~> (~client.active \/ ~ready \/ context.active)
=============================================================================
