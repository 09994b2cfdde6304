----------------------------- MODULE KeyEvents -----------------------------
(***************************************************************************)
(* Which changes of a key the client reports (CKeyBinds.cpp, m_keyStates). *)
(*                                                                         *)
(* The game thread runs the RPC handlers, the poll thread CKeyBinds::      *)
(* Process.  A step under g_keyBindMutex is one action; Bind reads the key *)
(* before it takes the mutex, Process the focus.                           *)
(*                                                                         *)
(* Leases are abstracted from module KeyLeases: here one may expire at any *)
(* time, and any of a key may be the best.  The client is connected.       *)
(***************************************************************************)
EXTENDS Naturals

CONSTANTS Keys, Actions, NoKey

ASSUME KeyAssumption == NoKey \notin Keys

Events == {"down", "up"}
Masks == SUBSET Events \ {{}}   \* a call with an empty mask is refused
CaptureIds == Keys \X Actions

VARIABLES held,     \* the keys that are down (GetAsyncKeyState)
          focus,    \* the game is in the foreground and no chat input is open
          binds,    \* m_binds: the event mask of each bound key
          leases,   \* m_captures: the event mask of each capture
          seen,     \* m_keyStates: the keys with a state
          down,     \* m_keyStates: those of them that were seen down
          binding,  \* the call of Bind that has read the key
          poll,     \* how far the poll thread is in Process
          told,     \* history: how often the present state of a key was
                    \* reported: not, once or (2) more often
          outdated  \* history: the keys whose present state a Bind has
                    \* overwritten with what it read before the last change

vars == <<held, focus, binds, leases, seen, down, binding, poll, told, outdated>>

NoBinding == [key |-> NoKey, mask |-> {}, down |-> FALSE]
Binding == [key : Keys, mask : Masks, down : BOOLEAN]

TypeOK ==
  /\ held \in SUBSET Keys /\ seen \in SUBSET Keys /\ down \in SUBSET Keys
  /\ outdated \in SUBSET Keys
  /\ focus \in BOOLEAN
  /\ DOMAIN binds \subseteq Keys /\ binds \in [DOMAIN binds -> Masks]
  /\ DOMAIN leases \subseteq CaptureIds /\ leases \in [DOMAIN leases -> Masks]
  /\ binding \in Binding \cup {NoBinding}
  /\ poll \in {"idle", "scan", "sync"}
  /\ told \in [Keys -> 0..2]

Nothing == [x \in {} |-> {}]

Init ==
  /\ held \in SUBSET Keys
  /\ focus \in BOOLEAN
  /\ binds = Nothing /\ leases = Nothing
  /\ seen = {} /\ down = {}
  /\ binding = NoBinding
  /\ poll = "idle"
  /\ told = [k \in Keys |-> 0]
  /\ outdated = {}

With(f, x, y) == [z \in DOMAIN f \cup {x} |-> IF z = x THEN y ELSE f[z]]
Less(f, x) == [z \in DOMAIN f \ {x} |-> f[z]]

Leased == {id[1] : id \in DOMAIN leases}
Claimed == DOMAIN binds \cup Leased

-----------------------------------------------------------------------------
(* The world. *)

\* The player presses or releases a key.
KeyMoves(k) ==
  /\ held' = IF k \in held THEN held \ {k} ELSE held \cup {k}
  /\ told' = [told EXCEPT ![k] = 0]
  /\ outdated' = outdated \ {k}
  /\ UNCHANGED <<focus, binds, leases, seen, down, binding, poll>>

FocusChanges ==
  /\ focus' = ~focus
  /\ UNCHANGED <<held, binds, leases, seen, down, binding, poll, told, outdated>>

\* CleanExpiredCaptures, wherever it is called.
Expire(id) ==
  /\ leases' = Less(leases, id)
  /\ UNCHANGED <<held, focus, binds, seen, down, binding, poll, told, outdated>>

-----------------------------------------------------------------------------
(* The game thread. *)

Idle == binding = NoBinding

\* m_keyStates[k] = state.
Track(k, state) ==
  /\ seen' = seen \cup {k}
  /\ down' = IF state THEN down \cup {k} ELSE down \ {k}

BindReads(k, mask) ==
  /\ Idle
  /\ binding' = [key |-> k, mask |-> mask, down |-> k \in held]
  /\ UNCHANGED <<held, focus, binds, leases, seen, down, poll, told, outdated>>

BindWrites ==
  LET k == binding.key IN
  /\ ~Idle
  /\ binds' = With(binds, k, binding.mask)
  /\ Track(k, binding.down)
  /\ outdated' = IF binding.down <=> k \in held THEN outdated ELSE outdated \cup {k}
  /\ binding' = NoBinding
  /\ UNCHANGED <<held, focus, leases, poll, told>>

\* The state of the key stays as it is.
Unbind(k) ==
  /\ Idle
  /\ binds' = Less(binds, k)
  /\ UNCHANGED <<held, focus, leases, seen, down, binding, poll, told, outdated>>

Clear ==
  /\ Idle
  /\ binds' = Nothing /\ leases' = Nothing
  /\ seen' = {} /\ down' = {}
  /\ UNCHANGED <<held, focus, binding, poll, told, outdated>>

\* Mutant of BeginCapture: the key is taken to be up when a lease begins.
BeginCaptureForgets(k, a, mask) ==
  /\ Idle
  /\ leases' = With(leases, <<k, a>>, mask)
  /\ Track(k, FALSE)
  /\ UNCHANGED <<held, focus, binds, binding, poll, told, outdated>>

\* Mutant of BeginCapture: only Bind gives a key a state.
BeginCaptureUntracked(k, a, mask) ==
  /\ Idle
  /\ leases' = With(leases, <<k, a>>, mask)
  /\ UNCHANGED <<held, focus, binds, seen, down, binding, poll, told, outdated>>

\* A key that has a state keeps it.
BeginCapture(k, a, mask) ==
  /\ Idle
  /\ leases' = With(leases, <<k, a>>, mask)
  /\ IF k \in seen THEN UNCHANGED <<seen, down>> ELSE Track(k, k \in held)
  /\ UNCHANGED <<held, focus, binds, binding, poll, told, outdated>>

EndCapture(id) ==
  /\ Idle
  /\ leases' = Less(leases, id)
  /\ UNCHANGED <<held, focus, binds, seen, down, binding, poll, told, outdated>>

ClearCaptures ==
  /\ Idle
  /\ leases' = Nothing
  /\ UNCHANGED <<held, focus, binds, seen, down, binding, poll, told, outdated>>

-----------------------------------------------------------------------------
(* The poll thread. *)

\* Process up to its choice.
ProcessStarts ==
  /\ poll = "idle"
  /\ poll' = IF focus THEN "scan" ELSE "sync"
  /\ UNCHANGED <<held, focus, binds, leases, seen, down, binding, told, outdated>>

\* The states of the claimed keys become what they are.
Refresh ==
  /\ poll' = "idle"
  /\ seen' = seen \cup Claimed
  /\ down' = (down \ Claimed) \cup (held \cap Claimed)
  /\ UNCHANGED <<held, focus, binds, leases, binding, outdated>>

SyncKeyStates ==
  /\ poll = "sync"
  /\ Refresh
  /\ UNCHANGED told

\* The masks one of which decides on the report of a key: FindBestCapture, and
\* the bind for a key without lease.
MasksOf(k) ==
  IF k \in Leased THEN {leases[id] : id \in {i \in DOMAIN leases : i[1] = k}} ELSE {binds[k]}

Event(k) == IF k \in held THEN "down" ELSE "up"

\* A key without a state gets the one it has, and is not reported.
Changed(k) == k \in seen /\ ~(k \in held <=> k \in down)

\* The scan of Process and the reports it sends.
ProcessScans ==
  /\ poll = "scan"
  /\ Refresh
  /\ \E mask \in [Claimed -> Masks] :
       /\ \A k \in Claimed : mask[k] \in MasksOf(k)
       /\ told' = [k \in Keys |->
            IF k \in Claimed /\ Changed(k) /\ Event(k) \in mask[k] /\ told[k] < 2
            THEN told[k] + 1 ELSE told[k]]

-----------------------------------------------------------------------------
ServerRPC ==
  \/ \E k \in Keys, mask \in Masks : BindReads(k, mask)
  \/ BindWrites
  \/ \E k \in Keys : Unbind(k)
  \/ Clear
  \/ \E k \in Keys, a \in Actions, mask \in Masks : BeginCapture(k, a, mask)
  \/ \E id \in CaptureIds : EndCapture(id)
  \/ ClearCaptures

Next ==
  \/ \E k \in Keys : KeyMoves(k)
  \/ FocusChanges
  \/ \E id \in DOMAIN leases : Expire(id)
  \/ ServerRPC
  \/ ProcessStarts \/ SyncKeyStates \/ ProcessScans

Spec == Init /\ [][Next]_vars
-----------------------------------------------------------------------------
(* Properties. *)

\* One press or release is reported once: a key held while its lease ends, is
\* renewed, outranked or cleared, while its bind changes or the game loses the
\* focus, is not reported to the next claim.  The exception is a Bind that read
\* the key before it moved.
ChangeToldOnce == \A k \in Keys : told[k] = 2 => k \in outdated

\* Every claimed key has a state to compare with.
ClaimsAreTracked == Claimed \subseteq seen /\ down \subseteq seen

\* What was reported is what was seen, unless a Bind has overwritten it.
ToldIsSeen ==
  \A k \in Keys : told[k] = 1 /\ k \in seen => (k \in held <=> k \in down) \/ k \in outdated

\* The inductive invariant: what makes ChangeToldOnce hold.
EventsInv == TypeOK /\ ClaimsAreTracked /\ ToldIsSeen /\ ChangeToldOnce
=============================================================================
