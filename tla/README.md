# TLA+ models of OpenMP-Plus

OpenMP-Plus extends a SA-MP client with HUD, key, target-menu, build and UI
functions that Pawn scripts on an open.mp server drive. A DLL in the game
(`Client/`) and a server component (`components/omp-plus/`) talk over RPC 220 of
the existing player connection. This directory models the protocol and the
state machines on both ends, checks them with TLC on small instances and proves
most of their safety properties for every instance with TLAPS.

## The system

| Part | State | Operations | Talks to |
|---|---|---|---|
| Native handshake and session table (`omp_plus_component.cpp`, `Network.cpp`, `CGameRakClient.cpp`, `dllmain.cpp`) | client: resolved `RakClientInterface`, `bConnected`, two timers; server: one `OMPPlusPlayerState` per player id with the rate window | resolve, HELLO and its retry, HelloAck, ClientRPC / ServerRPC, rate limit, connect, disconnect, `reset()` | everything below; scripts through `callPublic` |
| Key capture leases (`CKeyBinds.cpp`, `CLocalPlayer.cpp`) | binds, leases with priority and expiry, the weapon-switch block and the game byte behind it | bind, begin / end / clear capture, poll, input filter | RPC handlers on the game thread, `Process` on the poll thread |
| Target menu (`CTargetManager.cpp`, `processTargetSelect`, `*TargetContext`) | a context with rows and expiry on each end, whether the menu is open | begin, add row, commit, clear; set, clear, open, close, pick | scripts, player, build mode |
| Build mode (`CBuildManager.cpp`, `processBuild*`) | a session and its parts on each end, the selected part, the placement cooldown | open, close, add / clear parts; select, preview, place, cancel | scripts, player, target menu |
| Pawn natives (`omp_plus_pawn.cpp`) | none | argument checks in front of the component | component |
| RmlUi documents, inventory, workspace (`CRmlUiManager.cpp`) | document stack, drag, split, context menu | open, patch, close, drag, drop | scripts, player |
| Overlay, graphics, cursor (`COverlayRenderer.cpp`, `CGraphics.cpp`, `Proxy/`) | hooks installed or failed, one cursor flag | install, render, toggle cursor | target, build, RmlUi |
| HUD, local player, world (`CHUD.cpp`, `CGame.cpp`, `CRPCCallback.cpp`) | game memory | one write per RPC | RPC handlers |
| Legacy side channel (`Server/*.cpp`, `CRakClient.cpp`) | its own RakNet server and a list of sockets matched to players by address | accept, reject, match, clean up | SA-MP plugin API |

What makes each correct, and hard:

* **Handshake.** Scripts may use the natives exactly while a session exists, a
  slot never inherits the session of its last holder, a client is not sent
  anything before the ack that opens it. Retries cross acks, slots are reused,
  the rate limit drops HELLOs too, and a game mode change forgets sessions that
  go on.
* **Keys.** The best live lease owns the key, a lease lasts its time, a press is
  reported to one claim, the game gets its input back afterwards. Two threads,
  a clock that wraps, a key read before the lock is taken, and a check whose
  result is applied after it is released.
* **Target menu.** A context is answered at most once, the menu never offers
  what the component refuses, scripts know whether it is open, it does not
  outlive its context. Both ends expire it on their own clocks, and picks,
  renewals and clears cross on the wire.
* **Build mode.** Both ends agree on the session and on the parts, a held part
  is on the list, the player gets out. Scripts reopen sessions inside callbacks
  and close messages name no session.
* **Cursor and right button.** Target menu and build menu open over each other
  and share one cursor flag, on which each keeps its own claim; one press of the
  right button is seen by polling in the frame and again in window messages and
  DirectInput data that come later.
* **Documents.** Drag, context menu and split dialog are three records of one
  manager, which the server's opening, filling, clearing and closing of documents
  and a dozen mouse and key paths must keep in step.

## Modules

| Module | Models | Correspondence |
|---|---|---|
| `ScriptSession` | what scripts are promised about a slot (abstract) | `Announce` is `OnPlayerOMPPlusReady`, `Notify` any other public, `Forget` a connect, disconnect or `reset()` |
| `Handshake` | RPC 220, both ends and the connection | `handle` is `g_pRakClient` with `bInitialized`, `connected` is `bConnected`, `poll` is where the bootstrap thread is, `ready`, `uiCaps`, `window`, `count` are `OMPPlusPlayerState`; one action per handler, per step of the poll thread and per event of the world |
| `KeyLeases` | `CKeyBinds` and the block in `CLocalPlayer` | `captures` is `m_captures`, keyed by key and action as there; `older` of a lease are those with a lower `m_captureSequence`; `job` is how far each thread is in `UpdateGameActionBlocks`: the flag read, the record compared and set (`temporary`), the byte computed from the record, the byte written (`memory`); `raced` is history: the record was last set while the other thread had a byte to write; a critical section is one action |
| `ScriptLeases` | what scripts are promised about the keys they lease (abstract) | `leases` are those in force, with the time each has left; `owner` of a key is the lease its events are reported to; `handling` is a call that has not returned |
| `KeyEvents` | which changes of a key `CKeyBinds` reports | `seen` and `down` are `m_keyStates`, `binding` the call of `Bind` between its read of the key and its lock, `poll` where `Process` is; leases are those of `KeyLeases` without clock and priority: any may expire, any of a key may be the best |
| `TargetSession` | one player's target menu on both ends | `context` is `targetContexts_[playerid]`, `client` and `menuOpen` are `CTargetManager` |
| `BuildSession` | one player's build mode on both ends | `context` is `buildContexts_[playerid]`, `client` is `CBuildManager` |
| `ScriptMenu` | what scripts are promised about a target menu (abstract) | `menu` is what is on offer, `Answer` is `OnPlayerOMPPlusTargetSelect` |
| `MenuControls` | target menu and build menu of one client over the cursor flag and the right button | `target` and `build` are the flags of `CTargetManager` and `CBuildManager` (`owned` is `m_cursorOwned`), `enabled` is `CGraphics::m_bCursorEnabled`, `right` the button, `reports` what the window messages and DirectInput have yet to tell; `hand` is the part in hand, `sent` history: that of the last preview message of the session, which only `SendPreviewState` and `SendClearPreview` change |
| `UiDocuments` | the panels of one player, `CRmlUiManager`, with the scripts' `openUi`, `closeUi` and the functions that fill them | `stack` and `content` are `g_documents`, `drag`, `menu`, `split`, `suppress` are `g_drag`, `g_contextMenu`, `g_split`, `g_suppressNextLeftUp`; one action per RPC handler and per path of `HandleWndProc` |
| `...Proofs` | theorems about the module of that name | |
| `FoldLemmas` | induction over the subsets of a finite set, and that a fold over one has a value | |
| `MC...` | the values TLC uses | |

`Handshake` implements `ScriptSession` (variable `heard`), `TargetSession`
implements `ScriptMenu` (`menu` is the rows of the component's context that can
be picked), `KeyLeases` implements `ScriptLeases` (`leases` are the captures that
are not over, cleaned up or not, `owner` what `FindBestCapture` finds). `MenuControls` composes the input side of target menu and build
mode; what it leaves out of their sessions is nondeterministic there: a session
or a context may end at any time. `TargetSession`, `BuildSession` and
`UiDocuments` start from an established session and keep of the transport a FIFO
per direction, loss by rate limit (`Ignore`, `DropFlooded`), `Reset` and a new
connection (`PlayerJoins`).
Definitions named in a comment as mutants are plausible bugs that no
specification uses: each is there to show that a property notices it.

### Common abstractions

Payload bytes, strings and logging are left out. Time is a flag that an action
raises or lowers (`poll`, `window`, `fresh`, `cooling`), except in `KeyLeases`,
where the arithmetic of the clock is the subject. History variables are
declared as such and read by properties only.

## Runs

| Run | Question | Result |
|---|---|---|
| `handshake` | Two processes, one of another version, share a slot: is a record ever taken over, does an RPC precede the ack? `HandshakeInv` is the inductive invariant of the proof. | holds |
| `handshake_live` | Does `Handshake` implement `ScriptSession`, and does a persistent client get through? | holds |
| `handshake_reconnect` | Is every connection handshaken? | **violated** (finding) |
| `keyleases` | Does a lease last its time and the best one win across renewals and clock wraps; does `KeyLeases` implement `ScriptLeases`; does the byte of the game follow the client's record of the block, and is it cleared in the end while a bind exists? | holds |
| `keyleases_resume` | ... and with no bind? | **violated** (finding) |
| `keyleases_race` | Is the game's byte set while a blocking lease lives? | **violated** (finding) |
| `keyevents` | Is one press reported to one claim, while leases end, keys are bound again and the focus goes? | holds |
| `target` | At most one selection, pickable rows accepted, scripts' view true; does `TargetSession` implement `ScriptMenu`, and does a menu end with its context? | holds |
| `build` | Do both ends agree on session and parts, is a held part listed, does the player get out of a session the component ended? | holds |
| `controls` | Does the cursor follow the menus, does one press do one thing, is what scripts last had previewed the part in hand? | holds |
| `ui` | Does a gesture outlive its document, do two meet in one, is a split amount possible, do scripts learn of closing? | holds |
| `ui_drag` | Is what is dropped outside a panel what the player dragged there? | **violated** (finding) |

`HandshakeInv`, `LeaseInv`, `EventsInv`, `TargetInv` with `CopiesAgree`,
`BuildInv`, `ControlsInv` and `UiInv` are the inductive invariants of the proofs, checked as well.

### Bounds, and why they are enough

* `Handshake`: one slot and two clients, because slots do not interact and the
  interference is between successive holders; a rate of 1 (safety) and 2
  (liveness) instead of 60, so that the limit is hit; queues of 2 and 3, enough
  for a retry to cross the ack. `count` stops one above the limit, since only the
  comparison reads it; `messagesInWindow` counts on. The proofs have no bound on
  the queues or the rate.
* `KeyLeases`: a clock of four ticks stands for 2^32 (`ClockAssumption` keeps the
  ratio that matters: a time to live is at most half the range); times to live of
  0 (default) and above the cap; two actions, two priorities. Ticks stop while an
  expired lease has waited half the range uncleaned (24 days).
* `KeyEvents`: one key, as no claim of one key reads the state of another; two
  leases and a bind may claim it at once. `told` stops at two.
* `TargetSession`: one target (its id being reused is the interesting case),
  two rows, a legacy message of one row, so that the cut happens. `InputsBounded`
  keeps two rows, and direct selection of one, to clients without the V2 payload;
  the client treats a context alike however it came.
* `BuildSession`: two session ids, two parts for a list of one, so that the limit
  refuses; queues of two. The safety properties are proved without these bounds.
* `MenuControls`: two reports of the button under way, a press and its release;
  heights of 0 and 1 step (`LiftSteps`).
* `UiDocuments`: two documents, so that one covers the other; one of them is an
  inventory that a script also opens as a plain panel, the other a workspace of
  one pane; two slots, one to drag from and one to drop into; stacks of two and
  three; one message per direction, so that closing by the player and opening
  by the script cross. Longer queues take TLC too long; the invariants are proved
  without that bound.
* Queues are capped by `MaxQueue` (`MaxLag`) in the guard of the sender.

### Fairness

The bootstrap thread loops until the DLL is unloaded, so the poll steps and
`Process` are weakly fair; RakNet's reliable ordered channel delivers and the
server ticks, so receiving is; the clock runs; the game renders frames.
Scripts, the player, the administrator, the game's interface and
its connection promise nothing. Strong fairness is never assumed.

## Findings

1. **Reconnection is not handshaken** (`Client/Network.cpp:343`). `bConnected`
   is never cleared, so HELLO is not repeated on a later connection of the same
   process and the player stays without OpenMP-Plus.
2. **An expired lease can leave the weapon switch blocked**
   (`Client/CKeyBinds.cpp:144`). The early return of `Process` precedes the
   update of the block.
3. **The block and the byte it stands for can diverge**
   (`Client/CKeyBinds.cpp:385`, `Client/CLocalPlayer.cpp:78`). Two threads run
   `UpdateGameActionBlocks` without a common lock. The run shows the byte clear
   while the block is recorded and leased; by the same race it can stay set when
   the record is cleared. How far the two can part is what `ByteFollowsRecord`
   says: only by a write that was under way when the record was last set (`raced`),
   and until the record changes again without one.
4. **A drop outside may end a drag that nobody holds**
   (`Client/CRmlUiManager.cpp:678`). A release is looked at by the document on
   top by then; the drag of a document below it stays, and a later click outside
   reports its item as dropped there.

## Proofs

Every theorem is about the specification, for all values of the constants that
the named assumptions allow: any clients, slots, targets, parts, keys, limits,
queue bounds and widths of the clock. The safety properties are not inductive;
what each needs in addition:

* **`HandshakeProofs`** (`HandshakeInvariant`, `ReadyIsPeersHolds`,
  `AckBeforeRPCHolds`, `AnnouncedIffReadyHolds`, and `ImplementsScriptSession`
  with the identity on `heard` as refinement mapping). `AckBeforeRPC` needs that
  a ready slot has its client connected or the ack on its way
  (`ReadyIsOpening`), which needs that whoever takes that ack has its handler
  registered and is of the right version (`AckIsHandled`), which needs the same
  of whoever said HELLO, and that messages in a slot are its peer's (`UpIsPeers`,
  which also carries the overlay bit for `ReadyIsPeers`), which needs that the
  two ends of a connection name each other (`LinkIsPeer`). `QuietStep` covers
  the steps that add no message; each that adds or takes one has a lemma.
* **`KeyLeasesProofs`** (`LeaseInvariant`, `LeaseLasts`, `BestLeaseOwnsKey`,
  `ByteInvariant`, `ByteFollows`, `ImplementsScriptLeases`). A lease in force ends
  at `now + left` modulo the width of the clock, one that is over was over less
  than half the clock ago; a few lemmas on `%` then show that the signed
  comparison of `CaptureExpired` is right wherever the clock wraps. The sequence
  numbers order the leases totally (`LeasesAreOrdered`), so that of any leases of
  a key one is the best. `FindBestCapture` is a fold over the map in an order
  nobody chose; by induction over the leases it has walked (`ScanFindsBest`) it
  holds the best of them. The refinement follows step by step: what cleaning up
  removes was not in force, a tick ends what has one tick left, a grant takes the
  key from leases of no higher priority since it is the last; the other steps
  leave leases and owners alone. `ByteInvariant` and `ByteFollows` are about the
  two threads behind the check: whoever sets the record still has the byte to
  compute, from the record as it is by then, so that a byte on its way is the
  record's unless the other thread's was computed before the record was set; that
  is what `raced` remembers, and the one case in which the two part.
* **`KeyEventsProofs`** (`EventsInvariant`, `ToldOnce`). Every claimed key has a
  state, and a change that was reported is the state recorded, unless a `Bind`
  has overwritten it with what it read before the change. That race is the one
  exception in `ChangeToldOnce`, which the code does not exclude.
* **`TargetSessionProofs`** (`TargetInvariant`, `AnsweredOnce`, `ModeIsKnown`,
  `ImplementsScriptMenu`, `TypeCorrect`, `CopiesKeptEqual`, `PickIsAcceptable`). An offer is unanswered; what is on the screen has a
  target, so that its closing is reported; and the last mode report under way, or
  the last one processed, is of the menu as it is. `PickableIsAcceptable` is about
  the moment when the queue is empty; `CopiesAgree` says what it is made of: the
  context as committed is the last message on its way, or what the client shows.
  A commit establishes it with what it sends: for a client without the V2 payload
  that is a fold over the rows, and by induction over the places it has visited
  (`LegacyOptionsKept`) it gathers rows, and none to pick that the context lacks.
* **`BuildSessionProofs`** (`BuildInvariant`, `SessionsAgree`, `ListsAgree`,
  `HeldPartIsListed`). The queue to the client tells of the component's state:
  its last open or close is the session as it is, and the parts that the queue
  will leave on the client's list are the component's.
* **`MenuControlsProofs`** (`ControlsInvariant`, `CursorFollows`,
  `PressIsUsedOnce`, `PreviewIsKnown`). The cursor is on exactly for the one menu
  that owns it, and a menu that opened over nothing owns it; a manager that used
  a press has seen the button down, or is guarded until the report of it is in. A
  change to the part in hand is previewed with it; where a clear takes the part
  away without a message, the way back to the menu sends one whatever is in hand.
* **`UiDocumentsProofs`** (`UiInvariant`, `GesturesStayOnScreen`, `OneGesture`,
  `SplitIsBounded`, `ClosingIsTold`). Three parts that the steps preserve for
  different reasons: contents are well-formed, so that a stack that is split has
  two; gestures are about the stack and the panes, each step that takes one away
  ending what is about it; and for a document that scripts believe open, the
  queue to the client tells of its opening after all its closings, or of no
  closing and it is open, or the report of its closing is under way.

The two folds are inductions over data. The library's theorems for that take an
operator as a parameter, which no prover here can instantiate, and a fold of the
community modules is a recursive function, that is a CHOOSE of which nothing
follows until such a function is shown to exist. **`FoldLemmas`** goes around
both: `SubsetInduction` names the *set* of the subsets for which a claim holds,
and rests on well-foundedness in the form that does (`WFMin`); `FoldExists` builds
the function from the least relation closed under its steps.

Only model-checked: liveness (`HandshakeCompletes`, `BlockLifted`,
`MenuFollowsContext`, `BuildModeEnds`), since fairness and ENABLED are outside the
prover's reach. Every invariant and every other property of a passing run is
proved.

What the properties leave out on purpose, because the code does:

* `BlockLifted` is about the byte of the game. It exempts the byte of a lost race
  (`ByteLost`, finding 3) and a client without a bound key (finding 2).
* `PartsAgree` is about lists that scripts have not filled in ways the client does
  not follow: `diverged` is set when an open session is opened again with parts on
  its list, or a part has no name.
* `CursorFollowsMenus` promises the cursor to a menu only if no other was open with
  it (`overlap`): of two, the one that opened first takes the cursor away when it
  closes. That none is left on when both are closed holds always.
* `TypeOK` of `Handshake` bounds `count` by the model's own cap; what it shows is
  that a window starts its count again.

## Not modelled

* The legacy side channel (`Server/*.cpp`, `CRakClient.cpp`): a second RakNet
  connection that the native transport replaces. The plugin end is built only
  with `OMPPLUS_BUILD_LEGACY_PLUGIN`, which is off, and the client end starts
  only with `-sampp_legacy_sidechannel`.
* HUD, local player, world and weather writes: one write to game memory per RPC.
* Of build mode: the status line of a result, the remove highlight and the aim.
* Of input: scan codes of DirectInput, code hooks and COM forwarding.
* Drawing, hover, fonts, texts and the parsing of `HandleSetData`; string
  bounds and header decoding; server configuration files.
* Vendored code (ImGui, RakNet, boost, sampgdk, Detours, DirectX headers, the
  SA-MP SDK), nine tenths of the repository, and the example scripts.

## Plan

Done: the transport, key leases and events, target menu, build mode, menus over
cursor and button, documents, and the proofs listed above. Left:

1. Longer queues of `UiDocuments` in TLC, once a smaller abstraction of the slots
   makes that affordable.
2. The clock of `CTargetManager` (`m_expiresAt == 0` under a signed comparison)
   in the manner of `KeyLeases`.
3. The legacy plugin, if it becomes part of the default build.
