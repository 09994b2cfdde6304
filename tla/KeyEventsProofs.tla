-------------------------- MODULE KeyEventsProofs --------------------------
(***************************************************************************)
(* Theorems about KeyEvents, for any keys and actions.                     *)
(***************************************************************************)
EXTENDS KeyEvents, TLAPS

\* A claim added to or taken from a table of masks.
LEMMA WithMask ==
  ASSUME NEW f, NEW x, NEW y \in Masks, f \in [DOMAIN f -> Masks]
  PROVE  /\ DOMAIN With(f, x, y) = DOMAIN f \cup {x}
         /\ With(f, x, y) \in [DOMAIN With(f, x, y) -> Masks]
  BY DEF With

LEMMA LessMask ==
  ASSUME NEW f, NEW x, f \in [DOMAIN f -> Masks]
  PROVE  /\ DOMAIN Less(f, x) = DOMAIN f \ {x}
         /\ Less(f, x) \in [DOMAIN Less(f, x) -> Masks]
  BY DEF Less

LEMMA NothingMask == DOMAIN Nothing = {} /\ Nothing \in [DOMAIN Nothing -> Masks]
  BY DEF Nothing

\* The initial states.
LEMMA InitInv == Init => EventsInv
<1> SUFFICES ASSUME Init PROVE EventsInv
  OBVIOUS
<1>1. TypeOK
  BY NothingMask DEF Init, TypeOK, Binding
<1>2. Claimed = {}
  BY NothingMask DEF Init, Claimed, Leased
<1> QED
  BY <1>1, <1>2 DEF Init, EventsInv, ClaimsAreTracked, ToldIsSeen, ChangeToldOnce

\* Steps that leave the states and the reports alone and claim no more.
LEMMA QuietStep ==
  ASSUME EventsInv, TypeOK', Claimed' \subseteq Claimed,
         UNCHANGED <<held, seen, down, told, outdated>>
  PROVE  EventsInv'
  BY DEF EventsInv, ClaimsAreTracked, ToldIsSeen, ChangeToldOnce

\* The player presses or releases a key: its reports start again.
LEMMA KeyMovesInv ==
  ASSUME EventsInv, NEW k \in Keys, KeyMoves(k)
  PROVE  EventsInv'
<1> USE DEF EventsInv
<1>1. TypeOK'
  BY DEF KeyMoves, TypeOK
<1>2. ClaimsAreTracked'
  BY DEF KeyMoves, ClaimsAreTracked, Claimed, Leased
<1>3. ASSUME NEW j \in Keys
      PROVE  /\ told'[j] = 1 /\ j \in seen' => (j \in held' <=> j \in down') \/ j \in outdated'
             /\ told'[j] = 2 => j \in outdated'
  <2>1. CASE j = k
    <3>1. told'[j] = 0
      BY <2>1 DEF KeyMoves, TypeOK
    <3> QED
      BY <3>1
  <2>2. CASE j # k
    <3>1. /\ told'[j] = told[j] /\ seen' = seen /\ down' = down
          /\ j \in held' <=> j \in held
          /\ j \in outdated' <=> j \in outdated
      BY <2>2 DEF KeyMoves, TypeOK
    <3> QED
      BY <3>1 DEF ToldIsSeen, ChangeToldOnce
  <2> QED
    BY <2>1, <2>2
<1> QED
  BY <1>1, <1>2, <1>3 DEF ToldIsSeen, ChangeToldOnce

\* A lease ends: it expires or its script ends it.
LEMMA LeaseEndsInv ==
  ASSUME EventsInv, NEW id, leases' = Less(leases, id),
         UNCHANGED <<held, focus, binds, seen, down, binding, poll, told, outdated>>
  PROVE  EventsInv'
<1>1. TypeOK'
  BY LessMask DEF EventsInv, TypeOK
<1>2. Claimed' \subseteq Claimed
  BY LessMask DEF EventsInv, TypeOK, Claimed, Leased
<1> QED
  BY <1>1, <1>2, QuietStep

\* The state of a key is set: to what it is, or by a Bind to what it was.
LEMMA TrackInv ==
  ASSUME EventsInv, TypeOK', NEW k \in Keys, NEW state \in BOOLEAN,
         Track(k, state), Claimed' \subseteq Claimed \cup {k},
         UNCHANGED <<held, told>>, outdated \subseteq outdated',
         (state <=> k \in held) \/ k \in outdated'
  PROVE  EventsInv'
<1>1. ClaimsAreTracked'
  BY DEF EventsInv, ClaimsAreTracked, Track
<1>2. ASSUME NEW j \in Keys
      PROVE  /\ told'[j] = 1 /\ j \in seen' => (j \in held' <=> j \in down') \/ j \in outdated'
             /\ told'[j] = 2 => j \in outdated'
  <2>1. told'[j] = 2 => j \in outdated'
    BY DEF EventsInv, ChangeToldOnce
  <2>2. CASE j = k
    <3>1. j \in down' <=> state
      BY <2>2 DEF Track
    <3> QED
      BY <2>1, <2>2, <3>1
  <2>3. CASE j # k
    <3>1. (j \in down' <=> j \in down) /\ (j \in seen' <=> j \in seen)
      BY <2>3 DEF Track
    <3> QED
      BY <2>1, <3>1 DEF EventsInv, ToldIsSeen
  <2> QED
    BY <2>2, <2>3
<1> QED
  BY <1>1, <1>2 DEF EventsInv, ToldIsSeen, ChangeToldOnce

LEMMA BindWritesInv ==
  ASSUME EventsInv, BindWrites
  PROVE  EventsInv'
<1> DEFINE k == binding.key
<1>1. binding \in Binding
  BY DEF EventsInv, TypeOK, BindWrites, Idle
<1>2. k \in Keys /\ binding.mask \in Masks /\ binding.down \in BOOLEAN
  BY <1>1 DEF Binding
<1>3. binds' = With(binds, k, binding.mask) /\ Track(k, binding.down)
  BY DEF BindWrites
<1>4. /\ DOMAIN binds' = DOMAIN binds \cup {k}
      /\ binds' \in [DOMAIN binds' -> Masks]
  BY <1>2, <1>3, WithMask DEF EventsInv, TypeOK
<1>5. TypeOK'
  BY <1>2, <1>3, <1>4 DEF EventsInv, TypeOK, BindWrites, Track
<1>6. Claimed' \subseteq Claimed \cup {k}
  BY <1>4 DEF Claimed, Leased, BindWrites
<1>7. /\ outdated \subseteq outdated' /\ UNCHANGED <<held, told>>
      /\ (binding.down <=> k \in held) \/ k \in outdated'
  BY DEF BindWrites
<1> QED
  BY <1>2, <1>3, <1>5, <1>6, <1>7, TrackInv

LEMMA BeginCaptureInv ==
  ASSUME EventsInv, NEW k \in Keys, NEW a \in Actions, NEW mask \in Masks,
         BeginCapture(k, a, mask)
  PROVE  EventsInv'
<1>1. /\ DOMAIN leases' = DOMAIN leases \cup {<<k, a>>}
      /\ leases' \in [DOMAIN leases' -> Masks]
  BY WithMask DEF EventsInv, TypeOK, BeginCapture
<1>2. TypeOK'
  BY <1>1 DEF EventsInv, TypeOK, BeginCapture, Track, CaptureIds
<1>3. Claimed' \subseteq Claimed \cup {k}
  BY <1>1 DEF Claimed, Leased, BeginCapture
<1>4. CASE k \in seen
  <2>1. UNCHANGED <<held, seen, down, told, outdated>>
    BY <1>4 DEF BeginCapture
  <2> QED
    BY <1>2, <1>3, <1>4, <2>1 DEF EventsInv, ClaimsAreTracked, ToldIsSeen, ChangeToldOnce
<1>5. CASE k \notin seen
  <2>1. PICK state \in BOOLEAN : state <=> k \in held
    OBVIOUS
  <2>2. Track(k, state) /\ UNCHANGED <<held, told, outdated>>
    BY <1>5, <2>1 DEF BeginCapture, Track
  <2> QED
    BY <1>2, <1>3, <2>1, <2>2, TrackInv
<1> QED
  BY <1>4, <1>5

\* What SyncKeyStates and the scan of Process do to the states.
LEMMA RefreshTypes ==
  ASSUME EventsInv, Refresh, told' \in [Keys -> 0..2]
  PROVE  /\ TypeOK' /\ ClaimsAreTracked'
         /\ Claimed' = Claimed
         /\ \A k \in Claimed : k \in held' <=> k \in down'
         /\ \A k \in Keys \ Claimed : /\ k \in down' <=> k \in down
                                      /\ k \in seen' <=> k \in seen
<1>1. Claimed' = Claimed
  BY DEF Refresh, Claimed, Leased
<1>2. Claimed \subseteq Keys
  BY DEF EventsInv, ClaimsAreTracked, TypeOK
<1>3. TypeOK'
  BY <1>2 DEF EventsInv, TypeOK, Refresh
<1>4. ClaimsAreTracked'
  BY <1>1 DEF EventsInv, ClaimsAreTracked, Refresh
<1> QED
  BY <1>1, <1>3, <1>4 DEF Refresh

LEMMA SyncInv ==
  ASSUME EventsInv, SyncKeyStates
  PROVE  EventsInv'
<1>1. Refresh /\ told' = told
  BY DEF SyncKeyStates
<1>2. told' \in [Keys -> 0..2]
  BY <1>1 DEF EventsInv, TypeOK
<1>3. held' = held /\ outdated' = outdated
  BY <1>1 DEF Refresh
<1>4. ToldIsSeen'
  BY <1>1, <1>2, <1>3, RefreshTypes DEF EventsInv, ToldIsSeen
<1>5. ChangeToldOnce'
  BY <1>1, <1>3 DEF EventsInv, ChangeToldOnce
<1> QED
  BY <1>1, <1>2, <1>4, <1>5, RefreshTypes DEF EventsInv

LEMMA ScanInv ==
  ASSUME EventsInv, ProcessScans
  PROVE  EventsInv'
<1>1. Refresh
  BY DEF ProcessScans
<1>2. told \in [Keys -> 0..2]
  BY DEF EventsInv, TypeOK
<1>3. /\ told' \in [Keys -> 0..2]
      /\ \A k \in Keys : told'[k] # told[k] =>
           k \in Claimed /\ Changed(k) /\ told'[k] = told[k] + 1
  BY <1>2 DEF ProcessScans
<1>4. held' = held /\ outdated' = outdated
  BY <1>1 DEF Refresh
<1>5. ASSUME NEW k \in Keys
      PROVE  /\ told'[k] = 1 /\ k \in seen' => (k \in held' <=> k \in down') \/ k \in outdated'
             /\ told'[k] = 2 => k \in outdated'
  <2>1. CASE told'[k] = told[k]
    BY <1>1, <1>3, <1>4, <2>1, RefreshTypes DEF EventsInv, ToldIsSeen, ChangeToldOnce
  <2>2. CASE told'[k] # told[k]
    <3>1. k \in Claimed /\ Changed(k) /\ told'[k] = told[k] + 1
      BY <1>3, <2>2
    <3>2. k \in held' <=> k \in down'
      BY <1>1, <1>3, <3>1, RefreshTypes
    <3>3. told[k] = 1 => k \in outdated
      BY <3>1 DEF Changed, EventsInv, ToldIsSeen
    <3>4. told'[k] = 2 => told[k] = 1
      BY <1>2, <3>1
    <3> QED
      BY <1>4, <3>2, <3>3, <3>4
  <2> QED
    BY <2>1, <2>2
<1> QED
  BY <1>1, <1>3, <1>5, RefreshTypes DEF EventsInv, ToldIsSeen, ChangeToldOnce

LEMMA StepInv ==
  ASSUME EventsInv, [Next]_vars
  PROVE  EventsInv'
<1>1. CASE \E k \in Keys : KeyMoves(k)
  BY <1>1, KeyMovesInv
<1>2. CASE FocusChanges
  BY <1>2, QuietStep DEF FocusChanges, EventsInv, TypeOK, Claimed, Leased
<1>3. CASE \E id \in DOMAIN leases : Expire(id)
  BY <1>3, LeaseEndsInv DEF Expire
<1>4. ASSUME NEW k \in Keys, NEW mask \in Masks, BindReads(k, mask)
      PROVE  EventsInv'
  <2>1. TypeOK'
    BY <1>4 DEF BindReads, EventsInv, TypeOK, Binding
  <2> QED
    BY <1>4, <2>1, QuietStep DEF BindReads, Claimed, Leased
<1>5. CASE BindWrites
  BY <1>5, BindWritesInv
<1>6. ASSUME NEW k \in Keys, Unbind(k)
      PROVE  EventsInv'
  <2>1. DOMAIN binds' = DOMAIN binds \ {k} /\ binds' \in [DOMAIN binds' -> Masks]
    BY <1>6, LessMask DEF Unbind, EventsInv, TypeOK
  <2>2. TypeOK' /\ Claimed' \subseteq Claimed
    BY <1>6, <2>1 DEF Unbind, EventsInv, TypeOK, Claimed, Leased
  <2> QED
    BY <1>6, <2>2, QuietStep DEF Unbind
<1>7. CASE Clear
  <2>1. TypeOK'
    BY <1>7, NothingMask DEF Clear, EventsInv, TypeOK
  <2>2. Claimed' = {}
    BY <1>7, NothingMask DEF Clear, Claimed, Leased
  <2> QED
    BY <1>7, <2>1, <2>2 DEF Clear, EventsInv, ClaimsAreTracked, ToldIsSeen, ChangeToldOnce
<1>8. CASE \E k \in Keys, a \in Actions, mask \in Masks : BeginCapture(k, a, mask)
  BY <1>8, BeginCaptureInv
<1>9. CASE \E id \in CaptureIds : EndCapture(id)
  BY <1>9, LeaseEndsInv DEF EndCapture
<1>10. CASE ClearCaptures
  <2>1. TypeOK' /\ Claimed' \subseteq Claimed
    BY <1>10, NothingMask DEF ClearCaptures, EventsInv, TypeOK, Claimed, Leased
  <2> QED
    BY <1>10, <2>1, QuietStep DEF ClearCaptures
<1>11. CASE ProcessStarts
  BY <1>11, QuietStep DEF ProcessStarts, EventsInv, TypeOK, Claimed, Leased
<1>12. CASE SyncKeyStates
  BY <1>12, SyncInv
<1>13. CASE ProcessScans
  BY <1>13, ScanInv
<1>14. CASE UNCHANGED vars
  BY <1>14, QuietStep DEF vars, EventsInv, TypeOK, Claimed, Leased
<1> QED
  BY <1>1, <1>2, <1>3, <1>4, <1>5, <1>6, <1>7, <1>8, <1>9, <1>10, <1>11, <1>12, <1>13, <1>14
  DEF Next, ServerRPC

\* The inductive invariant holds whatever scripts claim, the player presses and
\* the two threads of CKeyBinds interleave.
THEOREM EventsInvariant == Spec => []EventsInv
<1> QED
  BY InitInv, StepInv, PTL DEF Spec

\* One press or release is reported once, except after a Bind that read the key
\* before it moved (CKeyBinds::Bind).
THEOREM ToldOnce == Spec => []ChangeToldOnce
<1>1. EventsInv => ChangeToldOnce
  BY DEF EventsInv
<1> QED
  BY <1>1, EventsInvariant, PTL
=============================================================================
