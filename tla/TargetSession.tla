--------------------------- MODULE TargetSession ---------------------------
(***************************************************************************)
(* The target menu of one player: a script begins a context on the server  *)
(* component, adds rows and commits it; the client shows it until its time *)
(* is over, and reports the row the player picks; the component checks the *)
(* pick against its own context and tells the scripts.                     *)
(*                                                                         *)
(* Abstractions.  The handshake is done (module Handshake), a connection   *)
(* is one FIFO per direction.  A time to live is a flag that time lowers;  *)
(* the 450 ms input guard only delays what a key does.  Titles, labels,    *)
(* icons, layout, hover and the cursor are left out.                       *)
(***************************************************************************)
EXTENDS Naturals, SequencesExt

CONSTANTS Targets, Options,
          NoTarget, NoOption,  \* the ids 0
          RowInputs,           \* the rows scripts add
          DirectFlags,         \* whether they use TargetFlagDirectSelect
          MaxTargetRows,       \* rows of a context
          MaxTargetOptions,    \* rows of a message without TargetFlagPayloadV2
          MaxQueue             \* bound: messages in flight per direction

RowTypes == {"action", "info", "dialog", "divider", "header", "disabled", "toggle", "danger"}
Row == [id : Options \cup {NoOption}, type : RowTypes, enabled : BOOLEAN]

ASSUME TargetAssumption ==
  /\ NoTarget \notin Targets /\ NoOption \notin Options
  /\ RowInputs \subseteq Row /\ DirectFlags \subseteq BOOLEAN
  /\ MaxTargetRows \in Nat /\ MaxTargetOptions \in Nat /\ MaxQueue \in Nat
  \* NoTarget stands for no offer as well (MenuIsAnswered).
  /\ NoTarget \notin [target : Targets, options : SUBSET (Options \cup {NoOption}), live : BOOLEAN]

VARIABLES ready, v2,     \* of OMPPlusPlayerState: the session, CapabilityTargetUIV2
          context,       \* targetContexts_[playerid]
          committed,     \* history: the client was sent the context as it is
          selections,    \* history: select callbacks since the last begin, up to 2
          client,        \* the context CTargetManager holds
          menuOpen,      \* m_menuOpen
          up, down,
          shown, lost    \* history: the last OnPlayerOMPPlusTargetMode; a message
                         \* of this connection was not processed

serverVars == <<ready, v2, context, committed, selections>>
clientVars == <<client, menuOpen>>
vars == <<serverVars, clientVars, up, down, shown, lost>>

Rows == Seq(Row)
DownMessage == [type : {"set", "clear"}, targetId : Targets \cup {NoTarget},
                direct : BOOLEAN, options : Rows]
UpMessage == [type : {"select", "mode"}, targetId : Targets,
              option : Options \cup {NoOption}, opened : BOOLEAN]

Context == [active : BOOLEAN, targetId : Targets \cup {NoTarget}, advanced : BOOLEAN,
            direct : BOOLEAN, fresh : BOOLEAN, options : Rows]

TypeOK ==
  /\ ready \in BOOLEAN /\ v2 \in BOOLEAN
  /\ context \in Context /\ Len(context.options) <= MaxTargetRows
  /\ committed \in BOOLEAN /\ selections \in 0..2
  /\ client \in [hasContext : BOOLEAN, targetId : Targets \cup {NoTarget},
                 direct : BOOLEAN, fresh : BOOLEAN, options : Rows]
  /\ menuOpen \in BOOLEAN
  /\ up \in Seq(UpMessage) /\ down \in Seq(DownMessage)
  /\ shown \in BOOLEAN /\ lost \in BOOLEAN

NoContext == [active |-> FALSE, targetId |-> NoTarget, advanced |-> FALSE,
              direct |-> FALSE, fresh |-> FALSE, options |-> <<>>]
NothingShown == [hasContext |-> FALSE, targetId |-> NoTarget,
                 direct |-> FALSE, fresh |-> FALSE, options |-> <<>>]

Init ==
  /\ ready = TRUE /\ v2 \in BOOLEAN
  /\ context = NoContext /\ committed = FALSE /\ selections = 0
  /\ client = NothingShown /\ menuOpen = FALSE
  /\ up = <<>> /\ down = <<>>
  /\ shown = FALSE /\ lost = FALSE

-----------------------------------------------------------------------------
(* Rows. *)

\* IsSelectableTargetRow, and CTargetManager::IsSelectableRow.
IsSelectable(type) == type \in {"action", "toggle", "danger"}

Pickable(rows) == {r.id : r \in {q \in Range(rows) : q.enabled /\ IsSelectable(q.type)}}

\* Mutant of LegacyRow: a row that only informs is sent as enabled.
LegacyRowAsEnabled(r) ==
  [id |-> r.id, type |-> IF r.enabled THEN "action" ELSE "disabled", enabled |-> r.enabled]

\* A client without V2 is not told of types: it takes a row for an action, or for a
\* disabled row if it is sent as one, as those are that cannot be selected.
LegacyRow(r) ==
  LET on == r.enabled /\ IsSelectable(r.type)
  IN  [id |-> r.id, type |-> IF on THEN "action" ELSE "disabled", enabled |-> on]

\* The rows that such a client gets.
LegacyOptions(rows) ==
  FoldLeft(LAMBDA sent, r :
             IF Len(sent) < MaxTargetOptions /\ r.type # "divider" /\ r.id # NoOption
             THEN Append(sent, LegacyRow(r)) ELSE sent,
           <<>>, rows)

-----------------------------------------------------------------------------
(* The server component: what scripts call. *)

IsContext(t) == context.active /\ context.targetId = t

Send(message) ==
  /\ Len(down) < MaxQueue
  /\ down' = Append(down, message)

ClearMessage == [type |-> "clear", targetId |-> NoTarget, direct |-> FALSE, options |-> <<>>]

\* beginTargetContext and beginTargetContextEx, which sets advanced.
BeginContext(t, advanced, direct) ==
  /\ ready
  /\ context' = [active |-> TRUE, targetId |-> t, advanced |-> advanced,
                 direct |-> direct, fresh |-> TRUE, options |-> <<>>]
  /\ committed' = FALSE
  /\ selections' = 0
  /\ UNCHANGED <<ready, v2, clientVars, up, down, shown, lost>>

\* setTargetLayout and setTargetDescription.
MakeAdvanced(t) ==
  /\ IsContext(t)
  /\ context' = [context EXCEPT !.advanced = TRUE]
  /\ committed' = FALSE
  /\ UNCHANGED <<ready, v2, selections, clientVars, up, down, shown, lost>>

\* Mutant of AddRow: the limit is off by one.
AddRowOneMore(t, row) ==
  /\ IsContext(t)
  /\ Len(context.options) <= MaxTargetRows
  /\ IsSelectable(row.type) => row.id # NoOption
  /\ context' = [context EXCEPT !.options = Append(@, row)]
  /\ committed' = FALSE
  /\ UNCHANGED <<ready, v2, selections, clientVars, up, down, shown, lost>>

\* addTargetRow, and addTargetOption for rows of its two types.
AddRow(t, row) ==
  /\ IsContext(t)
  /\ Len(context.options) < MaxTargetRows
  /\ IsSelectable(row.type) => row.id # NoOption
  /\ context' = [context EXCEPT !.options = Append(@, row)]
  /\ committed' = FALSE
  /\ UNCHANGED <<ready, v2, selections, clientVars, up, down, shown, lost>>

\* The time starts again even when nothing of the context can be sent.
CommitContext(t) ==
  LET rows == IF context.advanced /\ v2 THEN context.options ELSE LegacyOptions(context.options)
  IN
  /\ ready
  /\ IsContext(t)
  /\ context.options # <<>>
  /\ context' = [context EXCEPT !.fresh = TRUE]
  /\ IF rows = <<>>
     THEN UNCHANGED <<down, committed>>
     ELSE /\ Send([type |-> "set", targetId |-> t, direct |-> context.direct, options |-> rows])
          /\ committed' = TRUE
  /\ UNCHANGED <<ready, v2, selections, clientVars, up, shown, lost>>

ClearContext ==
  /\ context' = NoContext
  /\ committed' = FALSE
  /\ IF ready THEN Send(ClearMessage) ELSE UNCHANGED down
  /\ UNCHANGED <<ready, v2, selections, clientVars, up, shown, lost>>

-----------------------------------------------------------------------------
(* The server component: what clients send. *)

Receive == up # <<>> /\ up' = Tail(up)

Accepts(m) == IsContext(m.targetId) /\ context.fresh /\ m.option \in Pickable(context.options)

\* Mutant of AcceptSelect: the context outlives the selection.
AcceptSelectKeeps ==
  /\ Receive /\ ready
  /\ Head(up).type = "select" /\ Accepts(Head(up))
  /\ selections' = IF selections = 0 THEN 1 ELSE 2
  /\ Send(ClearMessage)
  /\ UNCHANGED <<ready, v2, context, committed, clientVars, shown, lost>>

\* processTargetSelect: the context is gone before the scripts are called.
AcceptSelect ==
  /\ Receive /\ ready
  /\ Head(up).type = "select" /\ Accepts(Head(up))
  /\ context' = NoContext
  /\ committed' = FALSE
  /\ selections' = IF selections = 0 THEN 1 ELSE 2
  /\ Send(ClearMessage)
  /\ UNCHANGED <<ready, v2, clientVars, shown, lost>>

RejectSelect ==
  /\ Receive /\ ready
  /\ Head(up).type = "select" /\ ~Accepts(Head(up))
  /\ UNCHANGED <<serverVars, clientVars, down, shown, lost>>

\* ON_TARGET_MODE: passed to the scripts as it is.
TargetMode ==
  /\ Receive /\ ready
  /\ Head(up).type = "mode"
  /\ shown' = Head(up).opened
  /\ UNCHANGED <<serverVars, clientVars, down, lost>>

\* A message above the rate, or of a player whose session was reset.
Ignore ==
  /\ Receive
  /\ lost' = TRUE
  /\ UNCHANGED <<serverVars, clientVars, down, shown>>

\* reset(), when the game mode changes.
Reset ==
  /\ ready' = FALSE
  /\ v2' = FALSE
  /\ context' = NoContext
  /\ committed' = FALSE
  /\ UNCHANGED <<selections, clientVars, up, down, shown, lost>>

\* Another connection and its handshake, from a new client process.
PlayerJoins ==
  /\ ready' = TRUE /\ v2' \in BOOLEAN
  /\ context' = NoContext /\ committed' = FALSE /\ selections' = 0
  /\ client' = NothingShown /\ menuOpen' = FALSE
  /\ up' = <<>> /\ down' = <<>>
  /\ shown' = FALSE /\ lost' = FALSE

ContextExpires ==
  /\ context.active /\ context.fresh
  /\ context' = [context EXCEPT !.fresh = FALSE]
  /\ UNCHANGED <<ready, v2, committed, selections, clientVars, up, down, shown, lost>>

-----------------------------------------------------------------------------
(* The client: CTargetManager, every step under its lock. *)

Report(messages) ==
  /\ Len(up) + Len(messages) <= MaxQueue
  /\ up' = up \o messages

Mode(opened) == [type |-> "mode", targetId |-> client.targetId,
                 option |-> NoOption, opened |-> opened]

\* What CloseMenu sends.
Closing == IF menuOpen /\ client.targetId # NoTarget THEN <<Mode(FALSE)>> ELSE <<>>

\* Mutant of ClearContextUnlocked: m_targetId is zeroed before CloseMenu uses it.
ClearContextUnlockedSilent(messages) ==
  /\ Report(messages)
  /\ client' = NothingShown
  /\ menuOpen' = FALSE

ClearContextUnlocked(messages) ==
  /\ Report(messages \o Closing)
  /\ client' = NothingShown
  /\ menuOpen' = FALSE

\* HandleSetContext: an open menu stays open, whatever target it was for.
HandleSetContext ==
  /\ down # <<>> /\ Head(down).type = "set"
  /\ down' = Tail(down)
  /\ client' = [hasContext |-> TRUE, targetId |-> Head(down).targetId,
                direct |-> Head(down).direct, fresh |-> TRUE, options |-> Head(down).options]
  /\ UNCHANGED <<serverVars, menuOpen, up, shown, lost>>

HandleClearContext ==
  /\ down # <<>> /\ Head(down).type = "clear"
  /\ down' = Tail(down)
  /\ ClearContextUnlocked(<<>>)
  /\ UNCHANGED <<serverVars, shown, lost>>

\* CBuildManager::HandleOpen takes the screen.
BuildOpens ==
  /\ ClearContextUnlocked(<<>>)
  /\ UNCHANGED <<serverVars, down, shown, lost>>

ClientContextExpires ==
  /\ client.hasContext /\ client.fresh
  /\ client' = [client EXCEPT !.fresh = FALSE]
  /\ UNCHANGED <<serverVars, menuOpen, up, down, shown, lost>>

\* Mutant of HasValidContext: the time to live is not looked at.
HasValidContextForever == client.hasContext /\ client.options # <<>>

HasValidContext == client.hasContext /\ client.options # <<>> /\ client.fresh

\* Process without a valid context.
DropContext ==
  /\ ~HasValidContext
  /\ client.hasContext \/ menuOpen
  /\ ClearContextUnlocked(<<>>)
  /\ UNCHANGED <<serverVars, down, shown, lost>>

\* Process when InputAllowed() says no, because the player types or has left the
\* game: the context is kept.
SuspendMenu ==
  /\ HasValidContext /\ menuOpen
  /\ Report(Closing)
  /\ menuOpen' = FALSE
  /\ UNCHANGED <<serverVars, client, down, shown, lost>>

OpenMenu ==
  /\ HasValidContext /\ ~client.direct /\ ~menuOpen
  /\ menuOpen' = TRUE
  /\ Report(<<Mode(TRUE)>>)
  /\ UNCHANGED <<serverVars, client, down, shown, lost>>

\* ALT again, ESC or the right button: m_expiresAt = 0 ends the context, too.
CloseMenu ==
  /\ HasValidContext /\ menuOpen
  /\ Report(Closing)
  /\ menuOpen' = FALSE
  /\ client' = [client EXCEPT !.fresh = FALSE]
  /\ UNCHANGED <<serverVars, down, shown, lost>>

SendSelect(option) ==
  /\ ClearContextUnlocked(<<[type |-> "select", targetId |-> client.targetId,
                             option |-> option, opened |-> FALSE]>>)
  /\ UNCHANGED <<serverVars, down, shown, lost>>

ClickRow ==
  /\ HasValidContext /\ menuOpen
  /\ \E option \in Pickable(client.options) \ {NoOption} : SendSelect(option)

IsChoice(r) == r.enabled /\ IsSelectable(r.type) /\ r.id # NoOption

\* ALT in a context that is selected directly: its first selectable row.
DirectSelect ==
  /\ HasValidContext /\ client.direct
  /\ \E i \in DOMAIN client.options :
       /\ IsChoice(client.options[i]) /\ \A j \in 1..(i - 1) : ~IsChoice(client.options[j])
       /\ SendSelect(client.options[i].id)

-----------------------------------------------------------------------------
Script ==
  \/ \E t \in Targets, advanced \in BOOLEAN, direct \in DirectFlags :
       BeginContext(t, advanced, direct)
  \/ \E t \in Targets : MakeAdvanced(t) \/ CommitContext(t)
  \/ \E t \in Targets, row \in RowInputs : AddRow(t, row)
  \/ ClearContext

ServerReceive == AcceptSelect \/ RejectSelect \/ TargetMode \/ Ignore

ClientReceive == HandleSetContext \/ HandleClearContext

Player == SuspendMenu \/ OpenMenu \/ CloseMenu \/ ClickRow \/ DirectSelect

Next ==
  \/ Script \/ ServerReceive \/ Reset \/ PlayerJoins \/ ContextExpires
  \/ ClientReceive \/ BuildOpens \/ ClientContextExpires
  \/ DropContext \/ Player

\* RakNet delivers, time passes and the game renders frames.
Fairness ==
  /\ WF_vars(ServerReceive) /\ WF_vars(ClientReceive)
  /\ WF_vars(ClientContextExpires) /\ WF_vars(DropContext)

Spec == Init /\ [][Next]_vars /\ Fairness
-----------------------------------------------------------------------------
(* Properties. *)

\* A context the script began is answered at most once: a renewal that crosses
\* a pick puts the menu back on the screen, and the second pick is refused.
SelectedAtMostOnce == selections <= 1

\* What the client lets the player pick is what the component accepts: once a
\* commit is delivered, the copies of the context and of the selectable row
\* types agree, with and without the V2 payload.
PickableIsAcceptable ==
  (committed /\ down = <<>> /\ client.hasContext) =>
    /\ client.targetId = context.targetId
    /\ Pickable(client.options) \subseteq Pickable(context.options)

\* Unless the component ignored a message, the scripts know whether the menu is
\* open once the reports are in, by whichever of its many ends it was closed.
ScriptsKnowMode ==
  (~lost /\ \A i \in DOMAIN up : up[i].type # "mode") => shown = menuOpen

\* What the scripts have on offer, the history of the answers kept beside it.
Offered ==
  IF context.active
  THEN [target |-> context.targetId, options |-> Pickable(context.options), live |-> context.fresh]
  ELSE NoTarget

Menu == INSTANCE ScriptMenu WITH
  menu <- Offered, answers <- selections, NoMenu <- NoTarget, Options <- Options \cup {NoOption}

\* The component implements ScriptMenu: whatever the client shows and sends, and
\* however renewals, picks and expirations cross, an answer is to what is on
\* offer at that moment, and ends it.
MenuIsAnswered == Menu!Spec

\* What is behind them.  The queues and the context are well-formed; an offer is
\* unanswered; what is on the screen has a target, so that its closing is
\* reported; and the last report under way, or the last one processed, is of the
\* menu as it is.
IsQueue(q) == q \in Seq(Range(q))

StateIsFormed ==
  /\ IsQueue(up) /\ IsQueue(down) /\ menuOpen \in BOOLEAN
  /\ \A i \in DOMAIN down : down[i].type = "set" => down[i].targetId \in Targets
  /\ {"hasContext", "targetId", "fresh"} \subseteq DOMAIN client
  /\ context \in Context /\ Len(context.options) <= MaxTargetRows

OfferIsOpen ==
  selections \in 0..1 /\ (context.active => selections = 0 /\ context.targetId \in Targets)

MenuHasTarget == client.hasContext \/ menuOpen => client.targetId \in Targets

ModeIsTold ==
  ~lost =>
    \/ shown = menuOpen /\ \A i \in DOMAIN up : up[i].type # "mode"
    \/ \E i \in DOMAIN up : /\ up[i].type = "mode" /\ up[i].opened = menuOpen
                            /\ \A j \in DOMAIN up : j > i => up[j].type # "mode"

TargetInv == StateIsFormed /\ OfferIsOpen /\ MenuHasTarget /\ ModeIsTold

Matches(t, rows) == t = context.targetId /\ Pickable(rows) \subseteq Pickable(context.options)

\* The context as it was sent is the last message on its way; the client that has
\* processed it shows it or nothing.
CopiesAgree ==
  committed =>
    IF down = <<>>
    THEN client.hasContext => Matches(client.targetId, client.options)
    ELSE Last(down).type = "set" /\ Matches(Last(down).targetId, Last(down).options)

Live == context.active /\ context.fresh

\* A menu does not outlive what it is for: when the component has ended the
\* context, or lost it in a reset and cannot say so, the client closes it.
MenuFollowsContext == (menuOpen /\ ~Live) ~> (~menuOpen \/ Live)
=============================================================================
