----------------------------- MODULE KeyLeases -----------------------------
(***************************************************************************)
(* Key capture leases of the client (CKeyBinds.cpp) and the block of the   *)
(* game's weapon switch they cause (CLocalPlayer.cpp).                     *)
(*                                                                         *)
(* Two threads share the leases: the game thread runs the RPC handlers and *)
(* the DirectInput hooks, the poll thread runs CKeyBinds::Process.  A step *)
(* under g_keyBindMutex is one action; UpdateGameActionBlocks reads under  *)
(* the mutex and acts after it without one, so each of its accesses to     *)
(* what the threads share is an action the other may come between.         *)
(*                                                                         *)
(* The clock is GetTickCount, modulo Wrap.  Which key events are reported  *)
(* is module KeyEvents.                                                    *)
(***************************************************************************)
EXTENDS Integers, FiniteSetsExt

CONSTANTS Keys, Actions, Priorities,
          Flags,        \* the flag sets scripts use, out of {"consume", "block"}
          TTLs,         \* the ttl_ms values scripts use
          DefaultTTL,   \* DEFAULT_CAPTURE_TTL_MS
          MaxTTL,       \* MAX_CAPTURE_TTL_MS
          Wrap          \* 2^32 for the real clock

ASSUME ClockAssumption ==
  /\ Wrap \in Nat /\ Wrap % 2 = 0
  /\ MaxTTL \in Nat /\ 2 * MaxTTL <= Wrap
  /\ DefaultTTL \in 1..MaxTTL
  /\ TTLs \subseteq Nat
ASSUME LeaseAssumption ==
  Flags \subseteq SUBSET {"consume", "block"} /\ Priorities \subseteq Int

VARIABLES now,       \* GetTickCount()
          focus,     \* the game is in the foreground and no chat input is open
          binds,     \* the keys of m_binds
          captures,  \* m_captures
          temporary, \* m_actionTemporaryDisabled[SWITCH_WEAPON]
          memory,    \* the byte of the game at 0xB73575
          job,       \* how far each thread is in UpdateGameActionBlocks
          raced      \* history: the record was last set while the other thread had
                     \* a write of the byte before it

vars == <<now, focus, binds, captures, temporary, memory, job, raced>>

Threads == {"game", "poll"}

\* MakeCaptureId: a key and an action.
CaptureIds == Keys \X Actions

\* older stands for the sequence: the captures with a lower one.  left is a history
\* field: the time the lease was granted and has not used.
Lease == [flags : Flags, priority : Priorities, expiresAt : 0..(Wrap - 1),
          older : SUBSET CaptureIds, left : 0..MaxTTL]
Job == [pc : {"idle", "check", "apply", "compute", "write"}, bit : BOOLEAN]

TypeOK ==
  /\ now \in 0..(Wrap - 1)
  /\ focus \in BOOLEAN
  /\ binds \in SUBSET Keys
  /\ DOMAIN captures \subseteq CaptureIds
  /\ captures \in [DOMAIN captures -> Lease]
  /\ temporary \in BOOLEAN
  /\ memory \in BOOLEAN
  /\ job \in [Threads -> Job]
  /\ raced \in BOOLEAN

At(pc, bit) == [pc |-> pc, bit |-> bit]
Idle(t) == job[t].pc = "idle"
Goto(t, pc, bit) == job' = [job EXCEPT ![t] = At(pc, bit)]

NoCaptures == [id \in {} |-> {}]

Init ==
  /\ now \in 0..(Wrap - 1)
  /\ focus \in BOOLEAN
  /\ binds = {}
  /\ captures = NoCaptures
  /\ temporary = FALSE
  /\ memory = FALSE
  /\ job = [t \in Threads |-> At("idle", FALSE)]
  /\ raced = FALSE

-----------------------------------------------------------------------------
(* Operators of CKeyBinds. *)

\* Mutant of CaptureExpired: the two clock values are compared as they are.
CaptureExpiredUnsigned(c) == now >= c.expiresAt

\* The signed comparison (long)(now - expiresAt) >= 0.
CaptureExpired(c) == (now - c.expiresAt) % Wrap < Wrap \div 2

Remaining(ids) == [id \in ids |-> captures[id]]

\* Mutant of LiveCaptures: what is over with the next tick is dropped as well.
LiveCapturesOneEarly ==
  Remaining({id \in DOMAIN captures : (now + 1 - captures[id].expiresAt) % Wrap >= Wrap \div 2})

\* CleanExpiredCaptures.
LiveCaptures == Remaining({id \in DOMAIN captures : ~CaptureExpired(captures[id])})

\* Mutant of BoundTTL: the cap is forgotten.
BoundTTLUncapped(ttl) == IF ttl = 0 THEN DefaultTTL ELSE ttl

BoundTTL(ttl) == IF ttl = 0 THEN DefaultTTL ELSE IF ttl > MaxTTL THEN MaxTTL ELSE ttl

Candidate(k, id) == id[1] = k /\ ~CaptureExpired(captures[id])

\* Mutant of FindBestCapture: the latest lease wins whatever the priorities.
FindBestCaptureLatest(k) ==
  FoldSet(
    LAMBDA id, best :
      IF Candidate(k, id) /\ \A b \in best : b \in captures[id].older THEN {id} ELSE best,
    {}, DOMAIN captures)

\* FindBestCapture: the scan takes the first live lease of the key and lets each
\* later one take over.  The set of its id, empty when there is none.
FindBestCapture(k) ==
  FoldSet(
    LAMBDA id, best :
      IF /\ Candidate(k, id)
         /\ \A b \in best :
              \/ captures[id].priority > captures[b].priority
              \/ captures[id].priority = captures[b].priority /\ b \in captures[id].older
      THEN {id} ELSE best,
    {}, DOMAIN captures)

-----------------------------------------------------------------------------
(* The world. *)

\* Bound: a lease that has expired is cleaned before half the clock range has
\* passed (24 days), so that the signed comparison still says expired.
CleanedInTime ==
  \A id \in DOMAIN captures :
    CaptureExpired(captures[id]) => (now + 1 - captures[id].expiresAt) % Wrap < Wrap \div 2

Tick ==
  /\ CleanedInTime
  /\ now' = (now + 1) % Wrap
  /\ captures' = [id \in DOMAIN captures |->
       [captures[id] EXCEPT !.left = IF @ = 0 THEN 0 ELSE @ - 1]]
  /\ UNCHANGED <<focus, binds, temporary, memory, job, raced>>

\* Alt-tab, or the chat input opens or closes.
FocusChanges ==
  /\ focus' = ~focus
  /\ UNCHANGED <<now, binds, captures, temporary, memory, job, raced>>

-----------------------------------------------------------------------------
(* The game thread: RPC handlers and input hooks. *)

Bind(k) ==
  /\ Idle("game")
  /\ binds' = binds \cup {k}
  /\ UNCHANGED <<now, focus, captures, temporary, memory, job, raced>>

Unbind(k) ==
  /\ Idle("game")
  /\ binds' = binds \ {k}
  /\ UNCHANGED <<now, focus, captures, temporary, memory, job, raced>>

Granted(flags, priority, ttl, older) ==
  [flags |-> flags, priority |-> priority, expiresAt |-> (now + ttl) % Wrap,
   older |-> older, left |-> ttl]

\* The lease is new or replaces the one of its id, and is the latest.
BeginCapture(k, a, flags, priority, ttl) ==
  LET id == <<k, a>> IN
  /\ Idle("game")
  /\ captures' = [i \in DOMAIN captures \cup {id} |->
       IF i = id THEN Granted(flags, priority, BoundTTL(ttl), DOMAIN captures \ {id})
       ELSE [captures[i] EXCEPT !.older = @ \ {id}]]
  /\ Goto("game", "check", FALSE)
  /\ UNCHANGED <<now, focus, binds, temporary, memory, raced>>

EndCapture(k, a) ==
  /\ Idle("game")
  /\ captures' = Remaining(DOMAIN captures \ {<<k, a>>})
  /\ Goto("game", "check", FALSE)
  /\ UNCHANGED <<now, focus, binds, temporary, memory, raced>>

ClearCaptures ==
  /\ Idle("game")
  /\ captures' = NoCaptures
  /\ Goto("game", "check", FALSE)
  /\ UNCHANGED <<now, focus, binds, temporary, memory, raced>>

Clear ==
  /\ Idle("game")
  /\ binds' = {}
  /\ captures' = NoCaptures
  /\ Goto("game", "check", FALSE)
  /\ UNCHANGED <<now, focus, temporary, memory, raced>>

\* FilterKeyboardState and ShouldConsumeDirectInputOffset, through
\* GetConsumedKeys: expired leases are dropped here as well.
InputHook ==
  /\ Idle("game")
  /\ focus
  /\ captures' = LiveCaptures
  /\ UNCHANGED <<now, focus, binds, temporary, memory, job, raced>>

-----------------------------------------------------------------------------
(* The poll thread. *)

\* Mutant of Process: the blocks are left as they are after the keys.
ProcessNoUpdate ==
  /\ Idle("poll")
  /\ captures' = IF focus THEN LiveCaptures ELSE captures
  /\ UNCHANGED <<now, focus, binds, temporary, memory, job, raced>>

\* CKeyBinds::Process up to UpdateGameActionBlocks, with its early return.  The
\* branch of a client that is not connected yet finds no leases, as the one
\* without focus does then.
Process ==
  /\ Idle("poll")
  /\ captures' = IF focus THEN LiveCaptures ELSE captures
  /\ IF focus /\ binds = {} /\ captures' = NoCaptures
     THEN UNCHANGED job
     ELSE Goto("poll", "check", FALSE)
  /\ UNCHANGED <<now, focus, binds, temporary, memory, raced>>

-----------------------------------------------------------------------------
(* UpdateGameActionBlocks, on either thread. *)

\* HasActiveCaptureFlag(KEY_CAPTURE_BLOCK_SWITCH_WEAPON).
CheckFlag(t) ==
  /\ job[t].pc = "check"
  /\ captures' = IF focus THEN LiveCaptures ELSE captures
  /\ Goto(t, "apply", focus /\ \E id \in DOMAIN captures' : "block" \in captures'[id].flags)
  /\ UNCHANGED <<now, focus, binds, temporary, memory, raced>>

OtherWrites(t) == \E o \in Threads \ {t} : job[o].pc = "write"

\* Mutant of ApplyBlock: the byte is only written for a block.
ApplyBlockUnwritten(t) ==
  /\ job[t].pc = "apply"
  /\ temporary' = job[t].bit
  /\ raced' = IF temporary = temporary' THEN raced ELSE OtherWrites(t)
  /\ Goto(t, IF job[t].bit /\ ~temporary THEN "compute" ELSE "idle", FALSE)
  /\ UNCHANGED <<now, focus, binds, captures, memory>>

\* SetActionTemporarilyBlocked: there is nothing to do, or the record is set.
ApplyBlock(t) ==
  /\ job[t].pc = "apply"
  /\ IF temporary = job[t].bit
     THEN Goto(t, "idle", FALSE) /\ UNCHANGED <<temporary, raced>>
     ELSE Goto(t, "compute", FALSE) /\ temporary' = job[t].bit /\ raced' = OtherWrites(t)
  /\ UNCHANGED <<now, focus, binds, captures, memory>>

\* WriteEffectiveActionState computes the byte from the record as it is by then.
\* m_actionDesiredDisabled is FALSE: scripts that switch the action off for good
\* are left out.
ComputeState(t) ==
  /\ job[t].pc = "compute"
  /\ Goto(t, "write", temporary)
  /\ UNCHANGED <<now, focus, binds, captures, temporary, memory, raced>>

\* CMem::PutSingle.
WriteMemory(t) ==
  /\ job[t].pc = "write"
  /\ memory' = job[t].bit
  /\ Goto(t, "idle", FALSE)
  /\ UNCHANGED <<now, focus, binds, captures, temporary, raced>>

UpdateGameActionBlocks(t) ==
  CheckFlag(t) \/ ApplyBlock(t) \/ ComputeState(t) \/ WriteMemory(t)

-----------------------------------------------------------------------------
ServerRPC ==
  \/ \E k \in Keys : Bind(k) \/ Unbind(k)
  \/ \E k \in Keys, a \in Actions, f \in Flags, p \in Priorities, ttl \in TTLs :
       BeginCapture(k, a, f, p, ttl)
  \/ \E k \in Keys, a \in Actions : EndCapture(k, a)
  \/ ClearCaptures
  \/ Clear

Next ==
  \/ Tick \/ FocusChanges
  \/ ServerRPC \/ InputHook
  \/ Process
  \/ \E t \in Threads : UpdateGameActionBlocks(t)

\* The bootstrap loop calls Process every 10 ms and a handler that was entered
\* returns; the clock runs.  Scripts, the player and the hooks promise nothing.
Fairness ==
  /\ WF_vars(Tick) /\ WF_vars(Process)
  /\ \A t \in Threads : WF_vars(UpdateGameActionBlocks(t))

Spec == Init /\ [][Next]_vars /\ Fairness
-----------------------------------------------------------------------------
(* Properties. *)

\* A lease is in force for exactly the time it was granted, whichever value
\* the clock had and whenever it wraps; a renewal starts the time again.
LeaseLastsItsTTL ==
  \A id \in DOMAIN captures : CaptureExpired(captures[id]) <=> captures[id].left = 0

\* What is behind it and the next property.  A lease in force expires when the time
\* it has left is over, and one that is over did so less than half the clock ago;
\* and the sequence orders the leases, however they were renewed and dropped.
LeaseIsTimed(c) ==
  IF c.left > 0 THEN c.expiresAt = (now + c.left) % Wrap ELSE CaptureExpired(c)

LeasesAreOrdered ==
  /\ IsFiniteSet(DOMAIN captures)
  /\ \A i, j \in DOMAIN captures :
       IF i = j THEN i \notin captures[i].older
       ELSE i \in captures[j].older <=> j \notin captures[i].older
  /\ \A i, j, k \in DOMAIN captures :
       i \in captures[j].older /\ j \in captures[k].older => i \in captures[k].older

LeaseInv ==
  /\ TypeOK
  /\ \A id \in DOMAIN captures : LeaseIsTimed(captures[id])
  /\ LeasesAreOrdered

InForce(k) == {id \in DOMAIN captures : id[1] = k /\ captures[id].left > 0}

\* README.md: "Higher priority wins when multiple systems lease the same key";
\* among equals the latest renewal, and an expired lease never.
HighestPriorityWins ==
  \A k \in Keys :
    LET best == FindBestCapture(k) IN
    IF InForce(k) = {} THEN best = {}
    ELSE \E b \in InForce(k) :
           /\ best = {b}
           /\ \A id \in InForce(k) \ {b} :
                \/ captures[id].priority < captures[b].priority
                \/ captures[id].priority = captures[b].priority /\ id \in captures[b].older

\* What the scripts have leased, by the comparison of the code, with the history of
\* the time left beside it.
LeasesInForce ==
  [id \in {i \in DOMAIN captures : ~CaptureExpired(captures[i])} |->
    [flags |-> captures[id].flags, priority |-> captures[id].priority, left |-> captures[id].left]]

Leases == INSTANCE ScriptLeases WITH
  leases <- LeasesInForce, owner <- [k \in Keys |-> FindBestCapture(k)],
  handling <- ~Idle("game"), MaxTime <- MaxTTL

\* CKeyBinds implements ScriptLeases: whichever thread drops expired leases, and
\* whenever the clock wraps, scripts see time, grants and ends alone.
LeasesAreKept == Leases!Spec

BlockLeased ==
  \E id \in DOMAIN captures : "block" \in captures[id].flags /\ captures[id].left > 0

Writing == \E t \in Threads : job[t].pc \in {"compute", "write"}

\* The byte of the game is what the record says whenever neither thread is about to
\* write it, unless the record was last set over a write that was under way: the
\* next change of the record without one puts it right.
ByteFollowsRecord == Writing \/ raced \/ memory = temporary

\* What makes it inductive: a byte on its way was computed from the record as it is.
ByteInv ==
  /\ TypeOK
  /\ ByteFollowsRecord
  /\ \A t \in Threads : job[t].pc = "write" => raced \/ job[t].bit = temporary

\* The byte is wrong, and no later step knows of it.
ByteLost == raced /\ ~Writing /\ memory # temporary

\* README.md: "the lease expires and the GTA default key behavior resumes".  With a
\* bound key left the byte of the game is cleared once no lease asks for the block,
\* also when a thread had decided on it before; the one thing that can keep it set
\* is a write that lost its race.
BlockLifted ==
  (memory /\ ~BlockLeased) ~> (~memory \/ BlockLeased \/ binds = {} \/ ByteLost)

\* README.md: "If the context disappears, the lease expires and the GTA default
\* key behavior resumes", with or without other binds.
GameBehaviorResumes == (temporary /\ ~BlockLeased) ~> (~temporary \/ BlockLeased)

\* OPENMP_PORT.md: the flag "blocks the GTA switch-weapon action while the lease
\* is active": the byte the game reads, not only the client's record of it.
GameIsBlocked == (BlockLeased /\ focus) ~> (memory \/ ~BlockLeased \/ ~focus)
=============================================================================
