-------------------------- MODULE KeyLeasesProofs --------------------------
(***************************************************************************)
(* Theorems about KeyLeases, for any width of the clock, any times to live *)
(* and any leases.  Behind them is LeaseInv; ScriptLeases is what it means *)
(* for scripts.                                                            *)
(***************************************************************************)
EXTENDS KeyLeases, FoldLemmas, TLAPS

-----------------------------------------------------------------------------
(* The arithmetic of the clock. *)

\* A number one width of the clock off its range, taken back into it.
LEMMA Modulo ==
  ASSUME NEW w \in Nat \ {0}, NEW x \in Int, -w <= x, x < 2 * w
  PROVE  x % w = IF x < 0 THEN x + w ELSE IF x < w THEN x ELSE x - w
<1>1. \A y \in 0..(w - 1) : y % w = y /\ (y - w) % w = y /\ (y + w) % w = y
  OBVIOUS
<1>2. CASE x < 0
  <2>1. x + w \in 0..(w - 1) /\ (x + w) - w = x
    BY <1>2
  <2> QED
    BY <1>1, <1>2, <2>1
<1>3. CASE x \in 0..(w - 1)
  BY <1>1, <1>3
<1>4. CASE x >= w
  <2>1. x - w \in 0..(w - 1) /\ (x - w) + w = x
    BY <1>4
  <2> QED
    BY <1>1, <1>4, <2>1
<1> QED
  BY <1>2, <1>3, <1>4

\* A turn of the clock is two halves, and no time to live is longer than one.
LEMMA ClockValues ==
  /\ Wrap \in Nat \ {0}
  /\ Wrap \div 2 \in Nat /\ Wrap = 2 * (Wrap \div 2)
  /\ MaxTTL \in Nat /\ MaxTTL <= Wrap \div 2 /\ MaxTTL < Wrap
  BY ClockAssumption

Ticks == 0..(Wrap - 1)

\* The same for the width of the clock,
LEMMA ClockModulo ==
  ASSUME NEW x \in Int, -Wrap <= x, x < 2 * Wrap
  PROVE  x % Wrap = IF x < 0 THEN x + Wrap ELSE IF x < Wrap THEN x ELSE x - Wrap
<1>1. Wrap \in Nat \ {0}
  BY ClockValues
<1> QED
  BY ONLY <1>1, x \in Int, -Wrap <= x, x < 2 * Wrap, Modulo

\* for a value moved on by a time to live,
LEMMA ClockSum ==
  ASSUME NEW t \in Ticks, NEW n \in 0..MaxTTL
  PROVE  /\ (t + n) % Wrap = IF t + n < Wrap THEN t + n ELSE t + n - Wrap
         /\ (t + n) % Wrap \in Ticks
<1>1. t + n \in Int /\ 0 <= t + n /\ -Wrap <= t + n /\ t + n < 2 * Wrap
  BY ClockValues DEF Ticks
<1>2. PICK x \in Int : x = t + n
  BY <1>1
<1>3. x % Wrap = IF x < Wrap THEN x ELSE x - Wrap
  BY <1>1, <1>2, ClockModulo, ClockValues
<1> QED
  BY <1>1, <1>2, <1>3, ClockValues DEF Ticks

\* and for the difference of two values.
LEMMA ClockDifference ==
  ASSUME NEW t \in Ticks, NEW e \in Ticks
  PROVE  (t - e) % Wrap = IF t < e THEN t - e + Wrap ELSE t - e
<1>1. t - e \in Int /\ -Wrap <= t - e /\ t - e < Wrap /\ t - e < 2 * Wrap
  BY ClockValues DEF Ticks
<1>2. (t - e) % Wrap = IF t - e < 0 THEN t - e + Wrap ELSE t - e
  BY <1>1, ClockModulo
<1> QED
  BY <1>1, <1>2 DEF Ticks

\* A time ahead by no more than MaxTTL is not over.
LEMMA AheadIsNotOver ==
  ASSUME NEW t \in Ticks, NEW n \in 1..MaxTTL
  PROVE  ~((t - ((t + n) % Wrap)) % Wrap < Wrap \div 2)
<1> DEFINE e == (t + n) % Wrap
<1>1. e \in Ticks /\ e = IF t + n < Wrap THEN t + n ELSE t + n - Wrap
  BY ClockSum
<1>2. (t - e) % Wrap = IF t < e THEN t - e + Wrap ELSE t - e
  BY <1>1, ClockDifference
<1> HIDE DEF e
<1>3. ~((t - e) % Wrap < Wrap \div 2)
  BY <1>1, <1>2, ClockValues DEF Ticks
<1> QED
  BY <1>3 DEF e

\* A tick takes one from the time left.
LEMMA TickTakesOne ==
  ASSUME NEW t \in Ticks, NEW n \in 2..MaxTTL
  PROVE  (((t + 1) % Wrap) + (n - 1)) % Wrap = (t + n) % Wrap
<1>1. 1 \in 0..MaxTTL /\ n \in 0..MaxTTL /\ n - 1 \in 0..MaxTTL
  BY ClockValues
<1>2. (t + 1) % Wrap \in Ticks
  BY <1>1, ClockSum
<1>3. /\ (t + 1) % Wrap = IF t + 1 < Wrap THEN t + 1 ELSE t + 1 - Wrap
      /\ (t + n) % Wrap = IF t + n < Wrap THEN t + n ELSE t + n - Wrap
  BY <1>1, ClockSum
<1>4. (((t + 1) % Wrap) + (n - 1)) % Wrap
        = IF ((t + 1) % Wrap) + (n - 1) < Wrap THEN ((t + 1) % Wrap) + (n - 1)
          ELSE ((t + 1) % Wrap) + (n - 1) - Wrap
  BY <1>1, <1>2, ClockSum
<1> QED
  BY <1>1, <1>2, <1>3, <1>4, ClockValues DEF Ticks

\* The difference to a time is the same before and after the clock is cut.
LEMMA NextDifference ==
  ASSUME NEW t \in Ticks, NEW e \in Ticks
  PROVE  (((t + 1) % Wrap) - e) % Wrap = (t + 1 - e) % Wrap
<1>1. (t + 1) % Wrap = IF t + 1 < Wrap THEN t + 1 ELSE t + 1 - Wrap
  <2>1. 1 \in 0..MaxTTL
    BY ClockAssumption
  <2> QED
    BY <2>1, ClockSum
<1>2. (t + 1) % Wrap \in Ticks
  BY <1>1, ClockValues DEF Ticks
<1>3. t + 1 - e \in Int /\ -Wrap <= t + 1 - e /\ t + 1 - e < 2 * Wrap
  BY ClockValues DEF Ticks
<1>4. PICK x \in Int : x = t + 1 - e
  BY <1>3
<1>5. x % Wrap = IF x < 0 THEN x + Wrap ELSE IF x < Wrap THEN x ELSE x - Wrap
  BY <1>3, <1>4, ClockModulo
<1>6. (((t + 1) % Wrap) - e) % Wrap
        = IF (t + 1) % Wrap < e THEN ((t + 1) % Wrap) - e + Wrap ELSE ((t + 1) % Wrap) - e
  BY <1>2, ClockDifference
<1> QED
  BY <1>1, <1>2, <1>4, <1>5, <1>6, ClockValues DEF Ticks

\* A time to live is bounded, and at least one tick.
LEMMA BoundTTLRange ==
  ASSUME NEW ttl \in TTLs
  PROVE  BoundTTL(ttl) \in 1..MaxTTL
  BY ClockAssumption DEF BoundTTL

-----------------------------------------------------------------------------
(* The inductive invariant. *)

\* To drop leases leaves the others in order.
LEMMA OrderKept ==
  ASSUME LeasesAreOrdered, DOMAIN captures' \subseteq DOMAIN captures,
         \A id \in DOMAIN captures' : captures'[id].older = captures[id].older
  PROVE  LeasesAreOrdered'
<1>1. IsFiniteSet(DOMAIN captures')
  BY FS_Subset DEF LeasesAreOrdered
<1> QED
  BY <1>1 DEF LeasesAreOrdered

\* The invariant holds at the start.
LEMMA InitInv == Init => LeaseInv
<1> SUFFICES ASSUME Init PROVE LeaseInv
  OBVIOUS
<1>1. DOMAIN captures = {} /\ captures \in [DOMAIN captures -> Lease]
  BY DEF Init, NoCaptures
<1>2. job \in [Threads -> Job]
  BY DEF Init, At, Job
<1>3. LeasesAreOrdered
  BY <1>1, FS_EmptySet DEF LeasesAreOrdered
<1> QED
  BY <1>1, <1>2, <1>3 DEF Init, LeaseInv, TypeOK

\* Steps that add no lease and leave the clock alone.
LEMMA FewerLeases ==
  ASSUME LeaseInv, TypeOK', now' = now,
         DOMAIN captures' \subseteq DOMAIN captures,
         \A id \in DOMAIN captures' : captures'[id] = captures[id]
  PROVE  LeaseInv'
<1>1. LeasesAreOrdered'
  BY OrderKept DEF LeaseInv
<1> QED
  BY <1>1 DEF LeaseInv, LeaseIsTimed, CaptureExpired

\* Leases that are left are what they were.
LEMMA RemainingLeases ==
  ASSUME TypeOK, NEW ids \in SUBSET DOMAIN captures
  PROVE  /\ DOMAIN Remaining(ids) = ids /\ ids \subseteq CaptureIds
         /\ Remaining(ids) \in [DOMAIN Remaining(ids) -> Lease]
         /\ \A id \in ids : Remaining(ids)[id] = captures[id]
  BY DEF Remaining, TypeOK

\* Those that are not over are leases as they were.
LEMMA LiveLeases ==
  ASSUME TypeOK
  PROVE  /\ DOMAIN LiveCaptures \subseteq DOMAIN captures
         /\ LiveCaptures \in [DOMAIN LiveCaptures -> Lease]
         /\ \A id \in DOMAIN LiveCaptures : LiveCaptures[id] = captures[id]
<1> DEFINE ids == {id \in DOMAIN captures : ~CaptureExpired(captures[id])}
<1>1. ids \in SUBSET DOMAIN captures /\ LiveCaptures = Remaining(ids)
  BY DEF LiveCaptures
<1> HIDE DEF ids
<1> QED
  BY <1>1, RemainingLeases

\* One more expression of where a thread is keeps the table of threads typed.
LEMMA GotoType ==
  ASSUME TypeOK, NEW t \in Threads, NEW pc \in {"idle", "check", "apply", "compute", "write"},
         NEW bit \in BOOLEAN, Goto(t, pc, bit)
  PROVE  job' \in [Threads -> Job]
<1>1. At(pc, bit) \in Job
  BY DEF At, Job
<1> QED
  BY <1>1 DEF Goto, TypeOK

\* The tick of the clock.
LEMMA TickInv ==
  ASSUME LeaseInv, Tick
  PROVE  LeaseInv'
<1>1. TypeOK /\ now \in Ticks
  BY DEF LeaseInv, TypeOK, Ticks
<1>2. now' \in Ticks /\ now' = (now + 1) % Wrap
  <2>1. 1 \in 0..MaxTTL
    BY ClockAssumption
  <2> QED
    BY <1>1, <2>1, ClockSum DEF Tick
<1>3. ASSUME NEW id \in DOMAIN captures
      PROVE  /\ captures'[id] \in Lease /\ captures'[id].older = captures[id].older
             /\ LeaseIsTimed(captures[id])'
  <2> DEFINE c == captures[id]
             n == IF c.left = 0 THEN 0 ELSE c.left - 1
             d == [c EXCEPT !.left = n]
  <2>1. c \in Lease
    BY <1>1 DEF TypeOK
  <2>2. c.left \in 0..MaxTTL /\ c.expiresAt \in Ticks
    BY <2>1 DEF Lease, Ticks
  <2>3. n \in 0..MaxTTL
    BY <2>2, ClockValues
  <2>4. captures'[id] = d
    BY DEF Tick
  <2>5. d \in Lease /\ d.left = n /\ d.expiresAt = c.expiresAt /\ d.older = c.older
    BY <2>1, <2>3 DEF Lease
  <2>6. LeaseIsTimed(c)
    BY DEF LeaseInv
  <2>7. CASE c.left > 1
    <3>1. c.left \in 2..MaxTTL /\ n = c.left - 1
      BY <2>2, <2>7
    <3>2. c.expiresAt = (now + c.left) % Wrap
      BY <2>2, <2>6, <2>7 DEF LeaseIsTimed
    <3>3. d.expiresAt = (now' + n) % Wrap
      BY <1>1, <1>2, <2>5, <3>1, <3>2, TickTakesOne
    <3> QED
      BY <2>2, <2>4, <2>5, <2>7, <3>1, <3>3 DEF LeaseIsTimed
  <2>8. CASE c.left = 1
    <3>1. n = 0 /\ d.expiresAt = now'
      BY <1>2, <2>5, <2>6, <2>8 DEF LeaseIsTimed
    <3>2. (now' - d.expiresAt) % Wrap < Wrap \div 2
      BY <1>2, <3>1, ClockDifference, ClockValues DEF Ticks
    <3> QED
      BY <2>4, <2>5, <3>1, <3>2 DEF LeaseIsTimed, CaptureExpired
  <2>9. CASE c.left = 0
    <3>1. CaptureExpired(c)
      BY <2>6, <2>9 DEF LeaseIsTimed
    <3>2. (now + 1 - c.expiresAt) % Wrap < Wrap \div 2
      BY <3>1 DEF Tick, CleanedInTime
    <3>3. (now' - d.expiresAt) % Wrap < Wrap \div 2
      BY <1>1, <1>2, <2>2, <2>5, <3>2, NextDifference
    <3> QED
      BY <2>4, <2>5, <2>9, <3>3 DEF LeaseIsTimed, CaptureExpired
  <2> QED
    BY <2>2, <2>4, <2>5, <2>7, <2>8, <2>9
<1>4. DOMAIN captures' = DOMAIN captures
  BY DEF Tick
<1>5. captures' \in [DOMAIN captures' -> Lease]
  BY <1>3, <1>4 DEF Tick
<1>6. TypeOK'
  BY <1>1, <1>2, <1>4, <1>5 DEF Tick, TypeOK, Ticks
<1>7. \A id \in DOMAIN captures' : LeaseIsTimed(captures[id])'
  BY <1>3, <1>4
<1>8. LeasesAreOrdered'
  BY <1>3, <1>4, OrderKept DEF LeaseInv
<1> QED
  BY <1>6, <1>7, <1>8 DEF LeaseInv, LeaseIsTimed

\* A lease begins or begins again.
LEMMA BeginCaptureInv ==
  ASSUME LeaseInv, NEW k \in Keys, NEW a \in Actions, NEW flags \in Flags,
         NEW priority \in Priorities, NEW ttl \in TTLs,
         BeginCapture(k, a, flags, priority, ttl)
  PROVE  LeaseInv'
<1> DEFINE id == <<k, a>>
           n == BoundTTL(ttl)
           c == Granted(flags, priority, n, DOMAIN captures \ {id})
           e == (now + n) % Wrap
<1>1. TypeOK /\ now \in Ticks /\ id \in CaptureIds /\ DOMAIN captures \subseteq CaptureIds
  BY DEF LeaseInv, TypeOK, Ticks, CaptureIds
<1>2. n \in 1..MaxTTL
  BY BoundTTLRange
<1>3. e \in Ticks
  BY <1>1, <1>2, ClockSum
<1>4. c.left = n /\ c.expiresAt = e
  BY DEF Granted
<1> HIDE DEF n, e
<1>5. c \in Lease
  BY <1>1, <1>2, <1>3, ClockValues DEF Granted, Lease, Ticks, e
<1>6. now' = now /\ DOMAIN captures' = DOMAIN captures \cup {id}
  BY DEF BeginCapture
<1>7. captures'[id] = c
  BY DEF BeginCapture, n
<1>8. ASSUME NEW i \in DOMAIN captures, i # id
      PROVE  /\ captures'[i] \in Lease
             /\ captures'[i].left = captures[i].left
             /\ captures'[i].expiresAt = captures[i].expiresAt
             /\ captures'[i].older = captures[i].older \ {id}
  <2>1. captures[i] \in Lease
    BY <1>1 DEF TypeOK
  <2>2. captures'[i] = [captures[i] EXCEPT !.older = @ \ {id}]
    BY <1>8 DEF BeginCapture
  <2> QED
    BY <2>1, <2>2 DEF Lease
<1>9. captures' \in [DOMAIN captures' -> Lease]
  BY <1>5, <1>6, <1>7, <1>8 DEF BeginCapture
<1>10. job' \in [Threads -> Job]
  BY <1>1, GotoType DEF BeginCapture, Threads
<1>11. TypeOK'
  BY <1>1, <1>6, <1>9, <1>10 DEF BeginCapture, TypeOK
<1>12. \A i \in DOMAIN captures' : LeaseIsTimed(captures[i])'
  <2>1. LeaseIsTimed(captures[id])'
    BY <1>2, <1>4, <1>6, <1>7 DEF LeaseIsTimed, e
  <2>2. ASSUME NEW i \in DOMAIN captures, i # id
        PROVE  LeaseIsTimed(captures[i])'
    BY <1>6, <1>8, <2>2 DEF LeaseInv, LeaseIsTimed, CaptureExpired
  <2> QED
    BY <1>6, <2>1, <2>2
<1>13. LeasesAreOrdered'
  <2>1. IsFiniteSet(DOMAIN captures')
    <3>1. IsFiniteSet(DOMAIN captures)
      BY DEF LeaseInv, LeasesAreOrdered
    <3>2. IsFiniteSet(DOMAIN captures \cup {id})
      BY <3>1, FS_AddElement
    <3> QED
      BY <1>6, <3>2
  <2>2. captures'[id].older = DOMAIN captures \ {id}
    BY <1>7 DEF Granted
  <2>3. \A i \in DOMAIN captures : i # id => captures'[i].older = captures[i].older \ {id}
    BY <1>8
  <2> HIDE DEF id
  <2> QED
    BY <1>6, <2>1, <2>2, <2>3 DEF LeaseInv, LeasesAreOrdered
<1> QED
  BY <1>11, <1>12, <1>13 DEF LeaseInv, LeaseIsTimed

\* Leases end, and the thread may go on to UpdateGameActionBlocks.
LEMMA LeasesEndInv ==
  ASSUME LeaseInv, NEW ids \in SUBSET DOMAIN captures, captures' = Remaining(ids),
         UNCHANGED <<now, focus, temporary, memory, raced>>, binds' \in SUBSET Keys,
         job' \in [Threads -> Job]
  PROVE  LeaseInv'
<1>1. TypeOK
  BY DEF LeaseInv
<1>2. /\ DOMAIN captures' = ids /\ ids \subseteq CaptureIds
      /\ captures' \in [DOMAIN captures' -> Lease]
      /\ \A id \in ids : captures'[id] = captures[id]
  BY <1>1, RemainingLeases
<1>3. TypeOK'
  BY <1>1, <1>2 DEF TypeOK
<1> QED
  BY <1>2, <1>3, FewerLeases

\* No lease at all.
LEMMA ClearedInv ==
  ASSUME LeaseInv, captures' = NoCaptures, Goto("game", "check", FALSE),
         UNCHANGED <<now, focus, temporary, memory, raced>>, binds' \in SUBSET Keys
  PROVE  LeaseInv'
<1>1. TypeOK
  BY DEF LeaseInv
<1>2. DOMAIN captures' = {} /\ captures' \in [DOMAIN captures' -> Lease]
  BY DEF NoCaptures
<1>3. TypeOK'
  BY <1>1, <1>2, GotoType DEF TypeOK, Threads
<1>4. LeasesAreOrdered'
  BY <1>2, FS_EmptySet DEF LeasesAreOrdered
<1> QED
  BY <1>2, <1>3, <1>4 DEF LeaseInv

\* Either thread cleans the expired leases, if it does, and goes on.
LEMMA CleaningInv ==
  ASSUME LeaseInv, captures' = IF focus THEN LiveCaptures ELSE captures,
         UNCHANGED <<now, focus, binds, temporary, memory, raced>>, job' \in [Threads -> Job]
  PROVE  LeaseInv'
<1>1. TypeOK
  BY DEF LeaseInv
<1>2. /\ DOMAIN captures' \subseteq DOMAIN captures
      /\ captures' \in [DOMAIN captures' -> Lease]
      /\ \A id \in DOMAIN captures' : captures'[id] = captures[id]
  BY <1>1, LiveLeases DEF TypeOK
<1>3. TypeOK'
  BY <1>1, <1>2 DEF TypeOK
<1> QED
  BY <1>2, <1>3, FewerLeases

\* The four steps of setting the game's byte leave the leases in force alone.
LEMMA UpdateInv ==
  ASSUME LeaseInv, NEW t \in Threads, UpdateGameActionBlocks(t)
  PROVE  LeaseInv'
<1>1. TypeOK /\ job[t] \in Job
  BY DEF LeaseInv, TypeOK
<1>2. job[t].bit \in BOOLEAN
  BY <1>1 DEF Job
<1>3. CASE CheckFlag(t)
  <2>1. PICK bit \in BOOLEAN :
          bit <=> focus /\ \E id \in DOMAIN captures' : "block" \in captures'[id].flags
    OBVIOUS
  <2>2. Goto(t, "apply", bit)
    BY <1>3, <2>1 DEF CheckFlag
  <2>3. job' \in [Threads -> Job]
    BY <1>1, <2>2, GotoType
  <2> QED
    BY <1>3, <2>3, CleaningInv DEF CheckFlag
<1>4. CASE ApplyBlock(t)
  <2>1. job' \in [Threads -> Job] /\ temporary' \in BOOLEAN /\ raced' \in BOOLEAN
    <3>1. CASE temporary = job[t].bit
      BY <1>1, <1>4, <3>1, GotoType DEF ApplyBlock, TypeOK
    <3>2. CASE temporary # job[t].bit
      <4>1. job' \in [Threads -> Job]
        BY <1>1, <1>4, <3>2, GotoType DEF ApplyBlock
      <4> QED
        BY <1>2, <1>4, <3>2, <4>1 DEF ApplyBlock, OtherWrites
    <3> QED
      BY <3>1, <3>2
  <2>2. TypeOK'
    BY <1>1, <1>4, <2>1 DEF ApplyBlock, TypeOK
  <2> QED
    BY <1>4, <2>2, FewerLeases DEF ApplyBlock
<1>5. CASE WriteMemory(t)
  <2>1. job' \in [Threads -> Job]
    BY <1>1, <1>5, GotoType DEF WriteMemory
  <2>2. TypeOK'
    BY <1>1, <1>2, <1>5, <2>1 DEF WriteMemory, TypeOK
  <2> QED
    BY <1>5, <2>2, FewerLeases DEF WriteMemory
<1>6. CASE ComputeState(t)
  <2>1. job' \in [Threads -> Job]
    BY <1>1, <1>6, GotoType DEF ComputeState, TypeOK
  <2>2. TypeOK'
    BY <1>1, <1>6, <2>1 DEF ComputeState, TypeOK
  <2> QED
    BY <1>6, <2>2, FewerLeases DEF ComputeState
<1> QED
  BY <1>3, <1>4, <1>5, <1>6 DEF UpdateGameActionBlocks

\* Every step keeps the invariant.
LEMMA StepInv ==
  ASSUME LeaseInv, [Next]_vars
  PROVE  LeaseInv'
<1>1. TypeOK /\ "game" \in Threads /\ "poll" \in Threads
  BY DEF LeaseInv, Threads
<1>2. CASE Tick
  BY <1>2, TickInv
<1>3. CASE FocusChanges
  BY <1>1, <1>3, FewerLeases DEF FocusChanges, TypeOK
<1>4. ASSUME NEW k \in Keys, Bind(k) \/ Unbind(k)
      PROVE  LeaseInv'
  BY <1>1, <1>4, FewerLeases DEF Bind, Unbind, TypeOK
<1>5. CASE \E k \in Keys, a \in Actions, f \in Flags, p \in Priorities, ttl \in TTLs :
             BeginCapture(k, a, f, p, ttl)
  BY <1>5, BeginCaptureInv
<1>6. ASSUME NEW k \in Keys, NEW a \in Actions, EndCapture(k, a)
      PROVE  LeaseInv'
  <2>1. job' \in [Threads -> Job]
    BY <1>1, <1>6, GotoType DEF EndCapture
  <2> QED
    BY <1>1, <1>6, <2>1, LeasesEndInv DEF EndCapture, TypeOK
<1>7. CASE ClearCaptures
  BY <1>1, <1>7, ClearedInv DEF ClearCaptures, TypeOK
<1>8. CASE Clear
  BY <1>1, <1>8, ClearedInv DEF Clear, TypeOK
<1>9. CASE InputHook
  BY <1>1, <1>9, CleaningInv DEF InputHook, TypeOK
<1>10. CASE Process
  <2>1. job' \in [Threads -> Job]
    BY <1>1, <1>10, GotoType DEF Process, TypeOK
  <2> QED
    BY <1>10, <2>1, CleaningInv DEF Process
<1>11. CASE \E t \in Threads : UpdateGameActionBlocks(t)
  BY <1>11, UpdateInv
<1>12. CASE UNCHANGED vars
  BY <1>1, <1>12, FewerLeases DEF vars, TypeOK
<1> QED
  BY <1>2, <1>3, <1>4, <1>5, <1>6, <1>7, <1>8, <1>9, <1>10, <1>11, <1>12 DEF Next, ServerRPC

\* What the invariant says of the comparison.
LEMMA ExpiredIsOver == LeaseInv => LeaseLastsItsTTL
<1> SUFFICES ASSUME LeaseInv, NEW id \in DOMAIN captures
             PROVE  CaptureExpired(captures[id]) <=> captures[id].left = 0
  BY DEF LeaseLastsItsTTL
<1>1. captures[id] \in Lease /\ now \in Ticks
  BY DEF LeaseInv, TypeOK, Ticks
<1>2. captures[id].left \in 0..MaxTTL
  BY <1>1 DEF Lease
<1>3. CASE captures[id].left = 0
  BY <1>3 DEF LeaseInv, LeaseIsTimed
<1>4. CASE captures[id].left > 0
  <2>1. captures[id].left \in 1..MaxTTL
    BY <1>2, <1>4
  <2>2. captures[id].expiresAt = (now + captures[id].left) % Wrap
    BY <1>4 DEF LeaseInv, LeaseIsTimed
  <2> QED
    BY <1>1, <1>4, <2>1, <2>2, AheadIsNotOver DEF CaptureExpired
<1> QED
  BY <1>2, <1>3, <1>4

-----------------------------------------------------------------------------
(* The scan of FindBestCapture, a fold over the leases. *)

\* A lease takes over from the best so far.
Beats(id, b) ==
  \/ captures[id].priority > captures[b].priority
  \/ captures[id].priority = captures[b].priority /\ b \in captures[id].older

\* What the scan of FindBestCapture computes for each set of leases.
IsScan(f, k) ==
  f = [t \in SUBSET DOMAIN captures |->
        IF t = {} THEN {}
        ELSE LET id == CHOOSE x \in t : TRUE
             IN  IF Candidate(k, id) /\ \A b \in f[t \ {id}] : Beats(id, b)
                 THEN {id} ELSE f[t \ {id}]]

\* That is what the fold of the library computes,
LEMMA ScanIsFold ==
  ASSUME NEW k
  PROVE  FindBestCapture(k) = (CHOOSE f : IsScan(f, k))[DOMAIN captures]
  BY Zenon DEF FindBestCapture, FoldSet, MapThenFoldSet, IsScan, Beats

\* and a function that does so exists, since the leases are finitely many.
LEMMA ScanExists ==
  ASSUME IsFiniteSet(DOMAIN captures), NEW k
  PROVE  \E f : IsScan(f, k)
<1> DEFINE D == DOMAIN captures
           pick == [t \in SUBSET D |-> CHOOSE x \in t : TRUE]
           step == [p \in D \X SUBSET D |->
                     IF Candidate(k, p[1]) /\ \A b \in p[2] : Beats(p[1], b) THEN {p[1]} ELSE p[2]]
<1>1. IsPick(pick, D)
  BY DEF IsPick
<1>2. step \in [D \X SUBSET D -> SUBSET D]
  OBVIOUS
<1>3. PICK f \in [SUBSET D -> SUBSET D] : IsFold(f, D, {}, step, pick)
  <2> HIDE DEF pick, step
  <2> QED
    BY <1>1, <1>2, FoldExists
<1>4. ASSUME NEW t \in SUBSET D, t # {}
      PROVE  step[<<pick[t], f[t \ {pick[t]}]>>]
               = LET id == CHOOSE x \in t : TRUE
                 IN  IF Candidate(k, id) /\ \A b \in f[t \ {id}] : Beats(id, b)
                     THEN {id} ELSE f[t \ {id}]
  <2>1. pick[t] \in D /\ f[t \ {pick[t]}] \in SUBSET D
    BY <1>4
  <2>2. pick[t] = CHOOSE x \in t : TRUE
    OBVIOUS
  <2> HIDE DEF pick
  <2>3. step[<<pick[t], f[t \ {pick[t]}]>>] =
          IF Candidate(k, pick[t]) /\ \A b \in f[t \ {pick[t]}] : Beats(pick[t], b)
          THEN {pick[t]} ELSE f[t \ {pick[t]}]
    BY <2>1
  <2> QED
    BY <2>2, <2>3
<1>5. \A t \in SUBSET D :
        f[t] = IF t = {} THEN {}
               ELSE LET id == CHOOSE x \in t : TRUE
                    IN  IF Candidate(k, id) /\ \A b \in f[t \ {id}] : Beats(id, b)
                        THEN {id} ELSE f[t \ {id}]
  <2> HIDE DEF pick, step
  <2>1. \A t \in SUBSET D : f[t] = IF t = {} THEN {} ELSE step[<<pick[t], f[t \ {pick[t]}]>>]
    BY <1>3 DEF IsFold
  <2>2. \A t \in SUBSET D : t # {} => f[t] = step[<<pick[t], f[t \ {pick[t]}]>>]
    BY <2>1
  <2>3. f[{}] = {}
    BY <2>1
  <2> SUFFICES ASSUME NEW t \in SUBSET D, t # {}
               PROVE  f[t] = LET id == CHOOSE x \in t : TRUE
                             IN  IF Candidate(k, id) /\ \A b \in f[t \ {id}] : Beats(id, b)
                                 THEN {id} ELSE f[t \ {id}]
    BY <2>3
  <2> QED
    BY <1>4, <2>2
<1>6. IsScan(f, k)
  BY <1>3, <1>5 DEF IsScan
<1> QED
  BY <1>6

\* The live leases of the key.
Candidates(k, t) == {id \in t : Candidate(k, id)}

\* Over any set of leases the scan keeps the best of the live ones of the key: of two
\* of the highest priority the later, since the sequence orders them.
LEMMA ScanFindsBest ==
  ASSUME TypeOK, LeasesAreOrdered, NEW k, NEW f, IsScan(f, k)
  PROVE  \A t \in SUBSET DOMAIN captures :
           IF Candidates(k, t) = {} THEN f[t] = {}
           ELSE \E b \in Candidates(k, t) :
                  f[t] = {b} /\ \A id \in Candidates(k, t) \ {b} : Beats(b, id)
<1> DEFINE D == DOMAIN captures
           IsBest(t) == IF Candidates(k, t) = {} THEN f[t] = {}
                        ELSE \E b \in Candidates(k, t) :
                               f[t] = {b} /\ \A id \in Candidates(k, t) \ {b} : Beats(b, id)
           Good == {t \in SUBSET D : IsBest(t)}
<1>1. ASSUME NEW t \in SUBSET D, \A u \in SUBSET t : u # t => u \in Good
      PROVE  t \in Good
  <2>1. CASE t = {}
    BY <2>1 DEF IsScan, Candidates
  <2>2. CASE t # {}
    <3>1. PICK x \in t : f[t] = IF Candidate(k, x) /\ \A b \in f[t \ {x}] : Beats(x, b)
                               THEN {x} ELSE f[t \ {x}]
      <4>1. f[t] = LET id == CHOOSE x \in t : TRUE
                   IN  IF Candidate(k, id) /\ \A b \in f[t \ {id}] : Beats(id, b)
                       THEN {id} ELSE f[t \ {id}]
        BY <2>2 DEF IsScan
      <4> QED
        BY <2>2, <4>1
    <3> DEFINE u == t \ {x}
    <3>2. u \in SUBSET t /\ u # t /\ u \in SUBSET D
      OBVIOUS
    <3>3. IsBest(u)
      BY <1>1, <3>2
    <3>4. Candidates(k, t) = IF Candidate(k, x) THEN Candidates(k, u) \cup {x} ELSE Candidates(k, u)
      BY DEF Candidates
    <3>5. CASE ~Candidate(k, x)
      BY <3>1, <3>3, <3>4, <3>5
    <3>6. CASE Candidate(k, x) /\ Candidates(k, u) = {}
      BY <3>1, <3>3, <3>4, <3>6
    <3>7. CASE Candidate(k, x) /\ Candidates(k, u) # {}
      <4>1. PICK b \in Candidates(k, u) :
              f[u] = {b} /\ \A id \in Candidates(k, u) \ {b} : Beats(b, id)
        BY <3>3, <3>7
      <4>2. b \in D /\ x \in D /\ b # x /\ Candidates(k, u) \subseteq D
        BY DEF Candidates
      <4>3. \A id \in D : captures[id].priority \in Int
        BY LeaseAssumption DEF TypeOK, Lease
      <4>4. CASE Beats(x, b)
        <5>1. f[t] = {x}
          BY <3>1, <3>7, <4>1, <4>4
        <5>2. \A id \in Candidates(k, u) : Beats(x, id)
          <6> SUFFICES ASSUME NEW id \in Candidates(k, u) \ {b} PROVE Beats(x, id)
            BY <4>4
          <6>1. Beats(b, id) /\ id \in D
            BY <4>1, <4>2
          <6>2. b \in captures[x].older /\ id \in captures[b].older => id \in captures[x].older
            BY <4>2, <6>1 DEF LeasesAreOrdered
          <6> QED
            BY <4>2, <4>3, <4>4, <6>1, <6>2 DEF Beats
        <5> QED
          BY <3>4, <3>7, <5>1, <5>2
      <4>5. CASE ~Beats(x, b)
        <5>1. f[t] = {b}
          BY <3>1, <4>1, <4>5
        <5>2. Beats(b, x)
          <6>1. b \in captures[x].older \/ x \in captures[b].older
            BY <4>2 DEF LeasesAreOrdered
          <6> QED
            BY <4>2, <4>3, <4>5, <6>1 DEF Beats
        <5> QED
          BY <3>4, <3>7, <4>1, <4>2, <5>1, <5>2
      <4> QED
        BY <4>4, <4>5
    <3> QED
      BY <3>5, <3>6, <3>7
  <2> QED
    BY <2>1, <2>2
<1> HIDE DEF Good
<1>2. SUBSET D \subseteq Good
  BY <1>1, SubsetInduction DEF LeasesAreOrdered
<1> QED
  BY <1>2 DEF Good

\* So the scan finds the lease that owns the key.
LEMMA BestWins == LeaseInv => HighestPriorityWins
<1> SUFFICES ASSUME LeaseInv, NEW k \in Keys
             PROVE  LET best == FindBestCapture(k) IN
                    IF InForce(k) = {} THEN best = {}
                    ELSE \E b \in InForce(k) :
                           /\ best = {b}
                           /\ \A id \in InForce(k) \ {b} :
                                \/ captures[id].priority < captures[b].priority
                                \/ captures[id].priority = captures[b].priority /\ id \in captures[b].older
  BY DEF HighestPriorityWins
<1> DEFINE D == DOMAIN captures
           f == CHOOSE g : IsScan(g, k)
<1>1. IsScan(f, k) /\ FindBestCapture(k) = f[D]
  BY ScanExists, ScanIsFold DEF LeaseInv, LeasesAreOrdered
<1>2. InForce(k) = Candidates(k, D)
  <2>1. \A id \in D : CaptureExpired(captures[id]) <=> captures[id].left = 0
    BY ExpiredIsOver DEF LeaseLastsItsTTL
  <2>2. \A id \in D : captures[id].left \in Nat
    BY ClockValues DEF LeaseInv, TypeOK, Lease
  <2> QED
    BY <2>1, <2>2 DEF InForce, Candidates, Candidate
<1>3. \A id \in D : captures[id].priority \in Int
  BY LeaseAssumption DEF LeaseInv, TypeOK, Lease
<1> HIDE DEF f
<1>4. IF InForce(k) = {} THEN f[D] = {}
      ELSE \E b \in InForce(k) : f[D] = {b} /\ \A id \in InForce(k) \ {b} : Beats(b, id)
  BY <1>1, <1>2, ScanFindsBest DEF LeaseInv
<1>5. InForce(k) \subseteq D
  BY DEF InForce
<1> QED
  BY <1>1, <1>3, <1>4, <1>5 DEF Beats

-----------------------------------------------------------------------------
(* ScriptLeases. *)

\* Every lease in force is in the table that scripts see, and no other.
Table(id) == [flags |-> captures[id].flags, priority |-> captures[id].priority, left |-> captures[id].left]

TableIsInForce ==
  /\ \A k \in Keys : Leases!OfKey(k) = InForce(k)
  /\ DOMAIN LeasesInForce = {id \in DOMAIN captures : captures[id].left > 0}
  /\ LeasesInForce = [id \in DOMAIN LeasesInForce |-> Table(id)]

\* The leases in force are those of ScriptLeases.
LEMMA TableOfLeases == LeaseInv => TableIsInForce
<1> SUFFICES ASSUME LeaseInv PROVE TableIsInForce
  OBVIOUS
<1>1. \A id \in DOMAIN captures : CaptureExpired(captures[id]) <=> captures[id].left = 0
  BY ExpiredIsOver DEF LeaseLastsItsTTL
<1>2. \A id \in DOMAIN captures : captures[id].left \in Nat
  BY ClockValues DEF LeaseInv, TypeOK, Lease
<1>3. {i \in DOMAIN captures : ~CaptureExpired(captures[i])} = {id \in DOMAIN captures : captures[id].left > 0}
  BY <1>1, <1>2
<1>4. DOMAIN LeasesInForce = {id \in DOMAIN captures : captures[id].left > 0}
  BY <1>3 DEF LeasesInForce
<1>5. LeasesInForce = [id \in DOMAIN LeasesInForce |-> Table(id)]
  BY <1>3, <1>4 DEF LeasesInForce, Table
<1>6. \A k \in Keys : Leases!OfKey(k) = InForce(k)
  BY <1>4 DEF Leases!OfKey, InForce
<1> QED
  BY <1>4, <1>5, <1>6 DEF TableIsInForce

\* The owner of a key, and how to know it.
OwnersAreBest ==
  \A k \in Keys :
    /\ InForce(k) = {} => FindBestCapture(k) = {}
    /\ InForce(k) # {} =>
         \E b \in InForce(k) : FindBestCapture(k) = {b} /\ \A id \in InForce(k) \ {b} : Beats(b, id)
    /\ \A b \in InForce(k) :
         (\A id \in InForce(k) \ {b} : Beats(b, id)) => FindBestCapture(k) = {b}

\* The key of each is with the best of them.
LEMMA Owners == LeaseInv => OwnersAreBest
<1> SUFFICES ASSUME LeaseInv, NEW k \in Keys
             PROVE  /\ InForce(k) = {} => FindBestCapture(k) = {}
                    /\ InForce(k) # {} =>
                         \E b \in InForce(k) : /\ FindBestCapture(k) = {b}
                                               /\ \A id \in InForce(k) \ {b} : Beats(b, id)
                    /\ \A b \in InForce(k) :
                         (\A id \in InForce(k) \ {b} : Beats(b, id)) => FindBestCapture(k) = {b}
  BY DEF OwnersAreBest
<1>1. /\ \A id \in DOMAIN captures : captures[id].priority \in Int
      /\ InForce(k) \subseteq DOMAIN captures
  BY LeaseAssumption DEF LeaseInv, TypeOK, Lease, InForce
<1>2. InForce(k) = {} => FindBestCapture(k) = {}
  BY BestWins DEF HighestPriorityWins
<1>3. ASSUME InForce(k) # {}
      PROVE  \E b \in InForce(k) : FindBestCapture(k) = {b} /\ \A id \in InForce(k) \ {b} : Beats(b, id)
  <2>1. PICK b \in InForce(k) :
          /\ FindBestCapture(k) = {b}
          /\ \A id \in InForce(k) \ {b} :
               \/ captures[id].priority < captures[b].priority
               \/ captures[id].priority = captures[b].priority /\ id \in captures[b].older
    BY <1>3, BestWins DEF HighestPriorityWins
  <2> QED
    BY <1>1, <2>1 DEF Beats
<1>4. ASSUME NEW b \in InForce(k), \A id \in InForce(k) \ {b} : Beats(b, id)
      PROVE  FindBestCapture(k) = {b}
  <2>1. PICK c \in InForce(k) : FindBestCapture(k) = {c} /\ \A id \in InForce(k) \ {c} : Beats(c, id)
    BY <1>3
  <2>2. c # b => Beats(c, b) /\ Beats(b, c)
    BY <1>4, <2>1
  <2>3. c # b => ~(b \in captures[c].older /\ c \in captures[b].older)
    BY <1>1 DEF LeaseInv, LeasesAreOrdered
  <2> QED
    BY <1>1, <2>1, <2>2, <2>3 DEF Beats
<1> QED
  BY <1>2, <1>3, <1>4

\* The same of the next state.
LEMMA NextState == LeaseInv' => TableIsInForce' /\ OwnersAreBest'
<1>1. LeaseInv => TableIsInForce /\ OwnersAreBest
  BY TableOfLeases, Owners
<1> QED
  BY <1>1, PTL

\* The owners as ScriptLeases has them.
OwnerOf == [k \in Keys |-> FindBestCapture(k)]

\* It is with one of the leases or with none,
LEMMA OwnersAreTyped == LeaseInv => OwnerOf \in [Keys -> SUBSET (Keys \X Actions)]
<1> SUFFICES ASSUME LeaseInv, NEW k \in Keys PROVE FindBestCapture(k) \in SUBSET (Keys \X Actions)
  BY DEF OwnerOf
<1>1. InForce(k) \subseteq Keys \X Actions
  BY DEF LeaseInv, TypeOK, CaptureIds, InForce
<1>2. FindBestCapture(k) = {} \/ \E b \in InForce(k) : FindBestCapture(k) = {b}
  BY Owners DEF OwnersAreBest
<1> QED
  BY <1>1, <1>2

\* and so it is after a step,
LEMMA NextOwnersAreTyped == LeaseInv' => OwnerOf' \in [Keys -> SUBSET (Keys \X Actions)]
<1> DEFINE Typed == OwnerOf \in [Keys -> SUBSET (Keys \X Actions)]
<1>1. LeaseInv => Typed
  BY OwnersAreTyped
<1>2. LeaseInv' => Typed'
  BY <1>1, PTL
<1> QED
  BY <1>2

\* An owner is one of the best, as scripts count.
LEMMA OwnerIsBest ==
  ASSUME TypeOK, TableIsInForce, OwnersAreBest, NEW k \in Keys
  PROVE  IF Leases!OfKey(k) = {} THEN FindBestCapture(k) = {}
         ELSE \E b \in Leases!Best(k) : FindBestCapture(k) = {b}
<1>1. Leases!OfKey(k) = InForce(k)
  BY DEF TableIsInForce
<1>2. CASE InForce(k) = {}
  BY <1>1, <1>2 DEF OwnersAreBest
<1>3. CASE InForce(k) # {}
  <2>1. PICK b \in InForce(k) : FindBestCapture(k) = {b} /\ \A id \in InForce(k) \ {b} : Beats(b, id)
    BY <1>3 DEF OwnersAreBest
  <2>2. \A id \in InForce(k) : captures[id].priority \in Int /\ LeasesInForce[id].priority = captures[id].priority
    BY LeaseAssumption DEF TypeOK, Lease, InForce, TableIsInForce, Table
  <2>3. \A id \in InForce(k) : LeasesInForce[id].priority <= LeasesInForce[b].priority
    BY <2>1, <2>2 DEF Beats
  <2> QED
    BY <1>1, <1>3, <2>1, <2>3 DEF Leases!Best
<1> QED
  BY <1>2, <1>3

\* when it is with the best of those in force then.
LEMMA NextOwnerIsBest ==
  LeaseInv' => \A k \in Keys : IF Leases!OfKey(k)' = {} THEN FindBestCapture(k)' = {}
                                ELSE \E b \in Leases!Best(k)' : FindBestCapture(k)' = {b}
<1> DEFINE Owned == \A k \in Keys : IF Leases!OfKey(k) = {} THEN FindBestCapture(k) = {}
                                     ELSE \E b \in Leases!Best(k) : FindBestCapture(k) = {b}
<1>1. LeaseInv => Owned
  BY TableOfLeases, Owners, OwnerIsBest DEF LeaseInv
<1>2. LeaseInv' => Owned'
  BY <1>1, PTL
<1> QED
  BY <1>2

\* While leases end, the owner of a key stays if its lease does.
LEMMA OwnersSucceed ==
  ASSUME LeaseInv, LeaseInv',
         DOMAIN LeasesInForce' \subseteq DOMAIN LeasesInForce,
         \A id \in DOMAIN LeasesInForce' :
           captures'[id].priority = captures[id].priority /\ captures'[id].older = captures[id].older
  PROVE  Leases!Succession
<1>1. TableIsInForce /\ OwnersAreBest /\ TableIsInForce' /\ OwnersAreBest'
  BY TableOfLeases, Owners, NextState
<1>2. OwnerOf' \in [Keys -> SUBSET (Keys \X Actions)]
  BY NextOwnersAreTyped
<1>3. ASSUME NEW k \in Keys, FindBestCapture(k) # {}, FindBestCapture(k) \subseteq DOMAIN LeasesInForce'
      PROVE  FindBestCapture(k)' = FindBestCapture(k)
  <2>1. PICK b \in InForce(k) : FindBestCapture(k) = {b} /\ \A id \in InForce(k) \ {b} : Beats(b, id)
    BY <1>1, <1>3 DEF OwnersAreBest
  <2>2. InForce(k)' \subseteq InForce(k) /\ b \in InForce(k)' /\ InForce(k)' \subseteq DOMAIN LeasesInForce'
    BY <1>1, <1>3, <2>1 DEF TableIsInForce, InForce
  <2>3. \A id \in InForce(k)' \ {b} : Beats(b, id)'
    BY <2>1, <2>2 DEF Beats
  <2> QED
    BY <1>1, <2>1, <2>2, <2>3 DEF OwnersAreBest
<1>4. ASSUME NEW k \in Keys
      PROVE  Leases!Succeeds(k)
  <2>1. OwnerOf[k] = FindBestCapture(k) /\ OwnerOf'[k] = FindBestCapture(k)'
    BY DEF OwnerOf
  <2> QED
    BY <1>3, <2>1, NextOwnerIsBest DEF Leases!Succeeds, OwnerOf
<1> QED
  BY <1>2, <1>4 DEF Leases!Succession, Leases!Ids, OwnerOf

\* A step that leaves the leases in force, and the order among them, changes nothing
\* that scripts see.
LEMMA TableStays ==
  ASSUME LeaseInv, LeaseInv',
         {id \in DOMAIN captures' : captures'[id].left > 0} = {id \in DOMAIN captures : captures[id].left > 0},
         \A id \in DOMAIN captures' : id \in DOMAIN captures /\ captures'[id] = captures[id]
  PROVE  UNCHANGED <<LeasesInForce, OwnerOf>>
<1>1. TableIsInForce /\ OwnersAreBest /\ TableIsInForce' /\ OwnersAreBest'
  BY TableOfLeases, Owners, NextState
<1>2. DOMAIN LeasesInForce' = DOMAIN LeasesInForce
  BY <1>1 DEF TableIsInForce
<1>3. \A id \in DOMAIN LeasesInForce' : Table(id)' = Table(id)
  BY <1>1, <1>2 DEF TableIsInForce, Table
<1>4. LeasesInForce' = LeasesInForce
  BY <1>1, <1>2, <1>3 DEF TableIsInForce
<1>5. ASSUME NEW k \in Keys PROVE FindBestCapture(k)' = FindBestCapture(k)
  <2>1. InForce(k)' = InForce(k) /\ InForce(k) \subseteq DOMAIN captures'
    BY DEF InForce
  <2>2. CASE InForce(k) = {}
    BY <1>1, <2>1, <2>2 DEF OwnersAreBest
  <2>3. CASE InForce(k) # {}
    <3>1. PICK b \in InForce(k) : FindBestCapture(k) = {b} /\ \A id \in InForce(k) \ {b} : Beats(b, id)
      BY <1>1, <2>3 DEF OwnersAreBest
    <3>2. \A id \in InForce(k)' \ {b} : Beats(b, id)'
      BY <2>1, <3>1 DEF Beats
    <3> QED
      BY <1>1, <2>1, <3>1, <3>2 DEF OwnersAreBest
  <2> QED
    BY <2>2, <2>3
<1> QED
  BY <1>4, <1>5 DEF OwnerOf

\* Time.
LEMMA TickRefines ==
  ASSUME LeaseInv, LeaseInv', Tick
  PROVE  Leases!Elapse
<1>1. TableIsInForce /\ TableIsInForce'
  BY TableOfLeases, NextState
<1>2. /\ DOMAIN captures' = DOMAIN captures
      /\ \A id \in DOMAIN captures : captures'[id] =
           [captures[id] EXCEPT !.left = IF captures[id].left = 0 THEN 0 ELSE captures[id].left - 1]
  BY DEF Tick
<1>3. \A id \in DOMAIN captures : captures[id] \in Lease /\ captures[id].left \in Nat
  BY ClockValues DEF LeaseInv, TypeOK, Lease
<1>4. \A id \in DOMAIN captures :
        /\ captures'[id].left = IF captures[id].left = 0 THEN 0 ELSE captures[id].left - 1
        /\ captures'[id].flags = captures[id].flags /\ captures'[id].priority = captures[id].priority
        /\ captures'[id].older = captures[id].older
  BY <1>2, <1>3 DEF Lease
<1> DEFINE Stay == {i \in DOMAIN LeasesInForce : LeasesInForce[i].left > 1}
<1>5. \A id \in DOMAIN LeasesInForce : LeasesInForce[id] = Table(id)
  BY <1>1 DEF TableIsInForce
<1>6. DOMAIN LeasesInForce' = Stay
  BY <1>1, <1>2, <1>3, <1>4, <1>5 DEF TableIsInForce, Table
<1>7. \A id \in Stay : Table(id)' = [LeasesInForce[id] EXCEPT !.left = @ - 1]
  BY <1>1, <1>3, <1>4, <1>5 DEF TableIsInForce, Table
<1>8. LeasesInForce' = [id \in Stay |-> [LeasesInForce[id] EXCEPT !.left = @ - 1]]
  BY <1>1, <1>6, <1>7 DEF TableIsInForce
<1>9. Leases!Succession
  <2>1. \A id \in DOMAIN LeasesInForce' :
          captures'[id].priority = captures[id].priority /\ captures'[id].older = captures[id].older
    BY <1>1, <1>4, <1>6 DEF TableIsInForce
  <2> QED
    BY <1>6, <2>1, OwnersSucceed
<1> QED
  BY <1>8, <1>9 DEF Leases!Elapse, Tick, Idle

\* A call that begins to change the leases.
LEMMA CallStarts ==
  ASSUME TypeOK, Idle("game"), Goto("game", "check", FALSE)
  PROVE  Leases!Call
<1>1. job'["game"].pc = "check" /\ job["game"].pc = "idle"
  BY DEF TypeOK, Goto, At, Threads, Idle
<1> QED
  BY <1>1 DEF Leases!Call, Idle

\* Leases ended by scripts.
LEMMA EndRefines ==
  ASSUME LeaseInv, LeaseInv', NEW k \in Keys, NEW a \in Actions, EndCapture(k, a)
  PROVE  Leases!End(<<k, a>>)
<1> DEFINE id == <<k, a>>
<1>1. TableIsInForce /\ TableIsInForce'
  BY TableOfLeases, NextState
<1>2. /\ DOMAIN captures' = DOMAIN captures \ {id}
      /\ \A i \in DOMAIN captures' : captures'[i] = captures[i]
  BY DEF EndCapture, Remaining
<1>3. DOMAIN LeasesInForce' = DOMAIN LeasesInForce \ {id}
  BY <1>1, <1>2 DEF TableIsInForce
<1>4. \A i \in DOMAIN LeasesInForce' : LeasesInForce'[i] = LeasesInForce[i]
  BY <1>1, <1>2, <1>3 DEF TableIsInForce, Table
<1>5. LeasesInForce' = [i \in DOMAIN LeasesInForce \ {id} |-> LeasesInForce[i]]
  BY <1>1, <1>3, <1>4 DEF TableIsInForce
<1>6. \A i \in DOMAIN LeasesInForce' : i \in DOMAIN captures'
  BY <1>1 DEF TableIsInForce
<1>7. Leases!Succession
  BY <1>2, <1>3, <1>6, OwnersSucceed
<1>8. Leases!Call
  BY CallStarts DEF EndCapture, LeaseInv
<1> QED
  BY <1>5, <1>7, <1>8 DEF Leases!End

\* All leases end at once.
LEMMA EndAllRefines ==
  ASSUME LeaseInv, LeaseInv', ClearCaptures \/ Clear
  PROVE  Leases!EndAll
<1>1. TableIsInForce /\ TableIsInForce'
  BY TableOfLeases, NextState
<1>2. DOMAIN captures' = {}
  BY DEF ClearCaptures, Clear, NoCaptures
<1>3. DOMAIN LeasesInForce' = {}
  BY <1>1, <1>2 DEF TableIsInForce
<1>4. LeasesInForce' = [i \in {} |-> {}]
  BY <1>1, <1>3 DEF TableIsInForce
<1>5. Leases!Succession
  BY <1>3, OwnersSucceed
<1>6. Leases!Call
  BY CallStarts DEF ClearCaptures, Clear, LeaseInv
<1> QED
  BY <1>4, <1>5, <1>6 DEF Leases!EndAll

\* A lease is granted or renewed: the latest of its key.
LEMMA GrantRefines ==
  ASSUME LeaseInv, LeaseInv', NEW k \in Keys, NEW a \in Actions, NEW flags \in Flags,
         NEW priority \in Priorities, NEW ttl \in TTLs,
         BeginCapture(k, a, flags, priority, ttl)
  PROVE  Leases!Grant(<<k, a>>, flags, priority, BoundTTL(ttl))
<1> DEFINE id == <<k, a>>
           n == BoundTTL(ttl)
<1>1. TableIsInForce /\ TableIsInForce' /\ OwnersAreBest /\ OwnersAreBest'
  BY TableOfLeases, Owners, NextState
<1>2. n \in Nat /\ n > 0
  BY BoundTTLRange, ClockValues
<1> HIDE DEF n
<1>3. /\ DOMAIN captures' = DOMAIN captures \cup {id}
      /\ captures'[id].flags = flags /\ captures'[id].priority = priority
      /\ captures'[id].left = n /\ captures'[id].older = DOMAIN captures \ {id}
  BY DEF BeginCapture, Granted, n
<1>4. ASSUME NEW i \in DOMAIN captures, i # id
      PROVE  /\ captures'[i].flags = captures[i].flags /\ captures'[i].priority = captures[i].priority
             /\ captures'[i].left = captures[i].left /\ captures'[i].older = captures[i].older \ {id}
  <2>1. captures[i] \in Lease
    BY DEF LeaseInv, TypeOK
  <2>2. captures'[i] = [captures[i] EXCEPT !.older = @ \ {id}]
    BY <1>4 DEF BeginCapture
  <2> QED
    BY <2>1, <2>2 DEF Lease
<1>5. DOMAIN LeasesInForce' = DOMAIN LeasesInForce \cup {id}
  BY <1>1, <1>2, <1>3, <1>4 DEF TableIsInForce
<1>6. \A i \in DOMAIN LeasesInForce' :
        Table(i)' = IF i = id THEN [flags |-> flags, priority |-> priority, left |-> n] ELSE LeasesInForce[i]
  <2>1. Table(id)' = [flags |-> flags, priority |-> priority, left |-> n]
    BY <1>3 DEF Table
  <2>2. ASSUME NEW i \in DOMAIN LeasesInForce, i # id
        PROVE  Table(i)' = LeasesInForce[i]
    <3>1. i \in DOMAIN captures /\ LeasesInForce[i] = Table(i)
      BY <1>1 DEF TableIsInForce
    <3> QED
      BY <1>4, <2>2, <3>1 DEF Table
  <2> QED
    BY <1>5, <2>1, <2>2
<1>7. LeasesInForce' = [i \in DOMAIN LeasesInForce \cup {id} |->
        IF i = id THEN [flags |-> flags, priority |-> priority, left |-> n] ELSE LeasesInForce[i]]
  BY <1>1, <1>5, <1>6 DEF TableIsInForce
<1>8. \A kk \in Keys : /\ InForce(kk) \subseteq DOMAIN captures
                       /\ InForce(kk)' = IF kk = k THEN InForce(kk) \cup {id} ELSE InForce(kk)
                       /\ kk # k => id \notin InForce(kk)
  BY <1>2, <1>3, <1>4 DEF InForce
<1>9. \A i \in DOMAIN captures' : captures'[i].priority \in Int
  BY LeaseAssumption DEF LeaseInv, TypeOK, Lease
<1>10. ASSUME NEW kk \in Keys, NEW b \in InForce(kk), NEW i \in InForce(kk), b # id, i # id, Beats(b, i)
       PROVE  Beats(b, i)'
  BY <1>4, <1>8, <1>10 DEF Beats
<1>11. ASSUME NEW kk \in Keys, kk # k
       PROVE  FindBestCapture(kk)' = FindBestCapture(kk)
  <2>1. InForce(kk)' = InForce(kk) /\ id \notin InForce(kk)
    BY <1>8, <1>11
  <2>2. CASE InForce(kk) = {}
    BY <1>1, <2>1, <2>2 DEF OwnersAreBest
  <2>3. CASE InForce(kk) # {}
    <3>1. PICK b \in InForce(kk) : FindBestCapture(kk) = {b} /\ \A i \in InForce(kk) \ {b} : Beats(b, i)
      BY <1>1, <2>3 DEF OwnersAreBest
    <3>2. \A i \in InForce(kk)' \ {b} : Beats(b, i)'
      BY <1>10, <2>1, <3>1
    <3> QED
      BY <1>1, <2>1, <3>1, <3>2 DEF OwnersAreBest
  <2> QED
    BY <2>2, <2>3
<1>12. /\ Leases!OfKey(k)' = InForce(k)' /\ id \in InForce(k)'
       /\ \A i \in InForce(k)' : LeasesInForce'[i].priority = captures'[i].priority
  BY <1>1, <1>8 DEF TableIsInForce, Table, InForce
<1>13. ASSUME id \in Leases!Best(k)'
       PROVE  FindBestCapture(k)' = {id}
  <2>1. \A i \in InForce(k)' : captures'[i].priority <= captures'[id].priority
    BY <1>12, <1>13 DEF Leases!Best
  <2>2. \A i \in InForce(k)' \ {id} : i \in captures'[id].older
    BY <1>3, <1>8
  <2>3. \A i \in InForce(k)' \ {id} : Beats(id, i)'
    <3>1. InForce(k)' \subseteq DOMAIN captures'
      BY DEF InForce
    <3> QED
      BY <1>9, <1>12, <2>1, <2>2, <3>1 DEF Beats
  <2> QED
    BY <1>1, <1>12, <2>3 DEF OwnersAreBest
<1>14. ASSUME id \notin Leases!Best(k)', FindBestCapture(k) # {id}
       PROVE  FindBestCapture(k)' = FindBestCapture(k)
  <2>1. PICK better \in InForce(k)' : ~(captures'[better].priority <= captures'[id].priority)
    BY <1>12, <1>14 DEF Leases!Best
  <2>2. better # id /\ better \in InForce(k)
    BY <1>3, <1>8, <1>9, <2>1
  <2>3. PICK b \in InForce(k) : FindBestCapture(k) = {b} /\ \A i \in InForce(k) \ {b} : Beats(b, i)
    BY <1>1, <2>2 DEF OwnersAreBest
  <2>4. b # id /\ b \in DOMAIN captures' /\ id \in DOMAIN captures' /\ better \in DOMAIN captures'
    BY <1>3, <1>8, <1>14, <2>2, <2>3
  <2>5. Beats(b, id)'
    <3>1. captures'[b].priority >= captures'[better].priority
      BY <1>4, <1>8, <1>9, <2>2, <2>3, <2>4 DEF Beats
    <3> QED
      BY <1>9, <2>1, <2>4, <3>1 DEF Beats
  <2>6. \A i \in InForce(k)' \ {b} : Beats(b, i)'
    BY <1>8, <1>10, <2>3, <2>4, <2>5
  <2> QED
    BY <1>1, <1>8, <2>3, <2>6 DEF OwnersAreBest
<1>15. \A kk \in Keys :
         IF kk = id[1] /\ id \in Leases!Best(kk)' THEN OwnerOf'[kk] = {id}
         ELSE IF OwnerOf[kk] = {id} THEN \E b \in Leases!Best(kk)' : OwnerOf'[kk] = {b}
         ELSE OwnerOf'[kk] = OwnerOf[kk]
  <2> SUFFICES ASSUME NEW kk \in Keys
               PROVE  IF kk = id[1] /\ id \in Leases!Best(kk)' THEN OwnerOf'[kk] = {id}
                      ELSE IF OwnerOf[kk] = {id} THEN \E b \in Leases!Best(kk)' : OwnerOf'[kk] = {b}
                      ELSE OwnerOf'[kk] = OwnerOf[kk]
    OBVIOUS
  <2>1. OwnerOf[kk] = FindBestCapture(kk) /\ OwnerOf'[kk] = FindBestCapture(kk)' /\ id[1] = k
    BY DEF OwnerOf
  <2>2. FindBestCapture(kk) # {id} \/ kk = k
    BY <1>1, <1>8 DEF OwnersAreBest
  <2>3. CASE kk # k
    BY <1>11, <2>1, <2>2, <2>3
  <2>4. CASE kk = k
    <3>1. Leases!OfKey(k)' # {}
      BY <1>12
    <3>2. \E b \in Leases!Best(k)' : FindBestCapture(k)' = {b}
      BY <3>1, NextOwnerIsBest
    <3> QED
      BY <1>13, <1>14, <2>1, <2>4, <3>2
  <2> QED
    BY <2>3, <2>4
<1>16. Leases!Call
  BY CallStarts DEF BeginCapture, LeaseInv
<1>17. OwnerOf' \in [Keys -> SUBSET (Keys \X Actions)]
  BY NextOwnersAreTyped
<1> QED
  BY <1>7, <1>15, <1>16, <1>17 DEF Leases!Grant, Leases!Ids, OwnerOf, n

\* To drop expired leases, or to leave them, is seen by no script.
LEMMA CleaningUnseen ==
  ASSUME LeaseInv, LeaseInv', captures' \in {captures, LiveCaptures}
  PROVE  UNCHANGED <<LeasesInForce, OwnerOf>>
<1>1. \A id \in DOMAIN captures : CaptureExpired(captures[id]) <=> captures[id].left = 0
  BY ExpiredIsOver DEF LeaseLastsItsTTL
<1>2. \A id \in DOMAIN captures : captures[id].left \in Nat
  BY ClockValues DEF LeaseInv, TypeOK, Lease
<1>3. \A id \in DOMAIN captures' : id \in DOMAIN captures /\ captures'[id] = captures[id]
  BY DEF LiveCaptures, Remaining
<1>4. \A id \in DOMAIN captures : captures[id].left > 0 => id \in DOMAIN captures'
  BY <1>1, <1>2 DEF LiveCaptures, Remaining
<1>5. {id \in DOMAIN captures' : captures'[id].left > 0} = {id \in DOMAIN captures : captures[id].left > 0}
  BY <1>3, <1>4
<1> QED
  BY <1>3, <1>5, TableStays

\* The steps of the threads are a return, or nothing.
LEMMA ThreadRefines ==
  ASSUME LeaseInv, LeaseInv', NEW t \in Threads, UpdateGameActionBlocks(t)
  PROVE  Leases!Return \/ UNCHANGED <<LeasesInForce, OwnerOf, ~Idle("game")>>
<1>1. captures' \in {captures, LiveCaptures}
  BY DEF UpdateGameActionBlocks, CheckFlag, ApplyBlock, ComputeState, WriteMemory
<1>2. UNCHANGED <<LeasesInForce, OwnerOf>>
  BY <1>1, CleaningUnseen
<1>3. ~Idle(t) /\ \E pc \in {"idle", "check", "apply", "compute", "write"} : \E bit : Goto(t, pc, bit)
  BY DEF UpdateGameActionBlocks, CheckFlag, ApplyBlock, ComputeState, WriteMemory, Idle
<1>4. job \in [Threads -> Job]
  BY DEF LeaseInv, TypeOK
<1>5. t # "game" => UNCHANGED Idle("game")
  BY <1>3, <1>4 DEF Goto, Threads, Idle
<1>6. t = "game" => ~Idle("game")
  BY <1>3
<1> QED
  BY <1>2, <1>5, <1>6 DEF Leases!Return, OwnerOf

\* Every step is one of ScriptLeases, or changes nothing of it.
LEMMA StepRefines ==
  LeaseInv /\ LeaseInv' /\ [Next]_vars => [Leases!Next]_<<LeasesInForce, OwnerOf, ~Idle("game")>>
<1> SUFFICES ASSUME LeaseInv, LeaseInv', [Next]_vars
             PROVE  Leases!Next \/ UNCHANGED <<LeasesInForce, OwnerOf, ~Idle("game")>>
  OBVIOUS
<1>1. CASE Tick
  BY <1>1, TickRefines DEF Leases!Next
<1>2. CASE \E k \in Keys, a \in Actions, f \in Flags, p \in Priorities, ttl \in TTLs :
             BeginCapture(k, a, f, p, ttl)
  <2>1. PICK k \in Keys, a \in Actions, f \in Flags, p \in Priorities, ttl \in TTLs :
          BeginCapture(k, a, f, p, ttl)
    BY <1>2
  <2>2. Leases!Grant(<<k, a>>, f, p, BoundTTL(ttl))
    BY <2>1, GrantRefines
  <2>3. <<k, a>> \in Leases!Ids /\ BoundTTL(ttl) \in 1..MaxTTL
    BY BoundTTLRange DEF Leases!Ids
  <2> QED
    BY <2>2, <2>3 DEF Leases!Next
<1>3. CASE \E k \in Keys, a \in Actions : EndCapture(k, a)
  BY <1>3, EndRefines DEF Leases!Next, Leases!Ids
<1>4. CASE ClearCaptures \/ Clear
  BY <1>4, EndAllRefines DEF Leases!Next
<1>5. CASE \E t \in Threads : UpdateGameActionBlocks(t)
  BY <1>5, ThreadRefines DEF Leases!Next
<1>6. CASE FocusChanges \/ InputHook \/ Process \/ (\E k \in Keys : Bind(k) \/ Unbind(k)) \/ UNCHANGED vars
  <2>1. captures' \in {captures, LiveCaptures}
    BY <1>6 DEF FocusChanges, InputHook, Process, Bind, Unbind, vars
  <2>2. UNCHANGED Idle("game")
    BY <1>6 DEF FocusChanges, InputHook, Process, Bind, Unbind, vars, Idle, Goto, LeaseInv, TypeOK, Threads
  <2> QED
    BY <2>1, <2>2, CleaningUnseen DEF OwnerOf
<1> QED
  BY <1>1, <1>2, <1>3, <1>4, <1>5, <1>6 DEF Next, ServerRPC

\* At the start nothing is leased.
LEMMA InitRefines == Init => Leases!Init
<1> SUFFICES ASSUME Init PROVE Leases!Init
  OBVIOUS
<1>1. LeaseInv /\ DOMAIN captures = {}
  BY InitInv DEF Init, NoCaptures
<1>2. TableIsInForce /\ OwnersAreBest
  BY <1>1, TableOfLeases, Owners
<1>3. DOMAIN LeasesInForce = {} /\ LeasesInForce = [id \in {} |-> {}]
  BY <1>1, <1>2 DEF TableIsInForce
<1>4. \A k \in Keys : FindBestCapture(k) = {}
  BY <1>1, <1>2 DEF OwnersAreBest, InForce
<1>5. Idle("game")
  BY DEF Init, Idle, Threads, At
<1> QED
  BY <1>3, <1>4, <1>5 DEF Leases!Init

-----------------------------------------------------------------------------
(* The byte of the game and the client's record of it. *)

\* What the byte rests on: nobody is about to write and nobody raced, or a write on its
\* way carries the record.
Bytes ==
  /\ ByteFollowsRecord
  /\ \A t \in Threads : job[t].pc = "write" => raced \/ job[t].bit = temporary

\* A thread that goes on elsewhere disturbs neither.
LEMMA BytesKept ==
  ASSUME TypeOK, Bytes, NEW t \in Threads, job[t].pc \in {"idle", "check", "apply"},
         NEW pc \in {"idle", "check", "apply"}, NEW bit, Goto(t, pc, bit),
         UNCHANGED <<temporary, memory, raced>>
  PROVE  Bytes'
<1>1. job' = [job EXCEPT ![t] = At(pc, bit)] /\ job'[t].pc = pc
  BY DEF TypeOK, Goto, At
<1>2. \A o \in Threads \ {t} : job'[o] = job[o]
  BY <1>1 DEF TypeOK
<1>3. Writing' <=> Writing
  BY <1>1, <1>2 DEF Writing
<1> QED
  BY <1>1, <1>2, <1>3 DEF Bytes, ByteFollowsRecord

\* Setting the record leaves no write of the old one behind, or it raced.
LEMMA ApplyBlockBytes ==
  ASSUME TypeOK, Bytes, NEW t \in Threads, ApplyBlock(t)
  PROVE  Bytes'
<1>1. CASE temporary = job[t].bit
  BY <1>1, BytesKept DEF ApplyBlock
<1>2. CASE temporary # job[t].bit
  <2>1. job' = [job EXCEPT ![t] = At("compute", FALSE)] /\ raced' = OtherWrites(t)
    BY <1>2 DEF ApplyBlock, Goto
  <2>2. job'[t].pc = "compute" /\ \A o \in Threads \ {t} : job'[o] = job[o]
    BY <2>1 DEF TypeOK, At
  <2>3. Writing'
    BY <2>2 DEF Writing
  <2>4. ASSUME NEW o \in Threads, job'[o].pc = "write"
        PROVE  raced'
    BY <2>1, <2>2, <2>4 DEF OtherWrites
  <2> QED
    BY <2>3, <2>4 DEF Bytes, ByteFollowsRecord
<1> QED
  BY <1>1, <1>2

\* The byte is computed from the record as it is,
LEMMA ComputeStateBytes ==
  ASSUME TypeOK, Bytes, NEW t \in Threads, ComputeState(t)
  PROVE  Bytes'
<1>1. job' = [job EXCEPT ![t] = At("write", temporary)] /\ UNCHANGED <<temporary, memory, raced>>
  BY DEF ComputeState, Goto
<1>2. /\ job'[t].pc = "write" /\ job'[t].bit = temporary
      /\ \A o \in Threads \ {t} : job'[o] = job[o]
  BY <1>1 DEF TypeOK, At
<1>3. Writing'
  BY <1>2 DEF Writing
<1> QED
  BY <1>1, <1>2, <1>3 DEF Bytes, ByteFollowsRecord

\* and written as it was computed.
LEMMA WriteMemoryBytes ==
  ASSUME TypeOK, Bytes, NEW t \in Threads, WriteMemory(t)
  PROVE  Bytes'
<1>1. /\ job' = [job EXCEPT ![t] = At("idle", FALSE)] /\ memory' = job[t].bit
      /\ job[t].pc = "write" /\ UNCHANGED <<temporary, raced>>
  BY DEF WriteMemory, Goto
<1>2. job'[t].pc = "idle" /\ \A o \in Threads \ {t} : job'[o] = job[o]
  BY <1>1 DEF TypeOK, At
<1>3. raced \/ memory' = temporary
  BY <1>1 DEF Bytes
<1> QED
  BY <1>1, <1>2, <1>3 DEF Bytes, ByteFollowsRecord

\* So every step keeps it.
LEMMA StepBytes ==
  ASSUME TypeOK, Bytes, [Next]_vars
  PROVE  Bytes'
<1>1. "game" \in Threads /\ "poll" \in Threads
  BY DEF Threads
<1>2. ASSUME UNCHANGED <<temporary, memory, raced>>, UNCHANGED job
      PROVE  Bytes'
  BY <1>2 DEF Bytes, ByteFollowsRecord, Writing
<1>3. CASE Tick \/ FocusChanges \/ InputHook \/ (\E k \in Keys : Bind(k) \/ Unbind(k)) \/ UNCHANGED vars
  BY <1>2, <1>3 DEF Tick, FocusChanges, InputHook, Bind, Unbind, vars
<1>4. CASE \E k \in Keys, a \in Actions, f \in Flags, p \in Priorities, ttl \in TTLs :
             BeginCapture(k, a, f, p, ttl)
  BY <1>1, <1>4, BytesKept DEF BeginCapture, Idle
<1>5. CASE (\E k \in Keys, a \in Actions : EndCapture(k, a)) \/ ClearCaptures \/ Clear
  BY <1>1, <1>5, BytesKept DEF EndCapture, ClearCaptures, Clear, Idle
<1>6. CASE Process
  BY <1>1, <1>2, <1>6, BytesKept DEF Process, Idle
<1>7. ASSUME NEW t \in Threads, CheckFlag(t)
      PROVE  Bytes'
  BY <1>7, BytesKept DEF CheckFlag
<1>8. CASE \E t \in Threads : UpdateGameActionBlocks(t)
  BY <1>7, <1>8, ApplyBlockBytes, ComputeStateBytes, WriteMemoryBytes DEF UpdateGameActionBlocks
<1> QED
  BY <1>3, <1>4, <1>5, <1>6, <1>8 DEF Next, ServerRPC

\* At the start the byte and the record are clear.
LEMMA InitBytes == Init => Bytes
<1> SUFFICES ASSUME Init PROVE Bytes
  OBVIOUS
<1>1. memory = temporary /\ \A t \in Threads : job[t].pc = "idle"
  BY DEF Init, At
<1> QED
  BY <1>1 DEF Bytes, ByteFollowsRecord

-----------------------------------------------------------------------------
(* Theorems. *)

\* The inductive invariant holds for every width of the clock and whatever the
\* two threads do.
THEOREM LeaseInvariant == Spec => []LeaseInv
<1> QED
  BY InitInv, StepInv, PTL DEF Spec

\* Leases, threads and the clock keep their types: no lease is granted more
\* than MAX_CAPTURE_TTL_MS.
THEOREM TypeCorrect == Spec => []TypeOK
<1>1. LeaseInv => TypeOK
  BY DEF LeaseInv
<1> QED
  BY <1>1, LeaseInvariant, PTL

\* The signed comparison of CaptureExpired ends a lease exactly when its time
\* is over, wherever the clock wraps.
THEOREM LeaseLasts == Spec => []LeaseLastsItsTTL
  BY ExpiredIsOver, LeaseInvariant, PTL

\* FindBestCapture finds the live lease of the highest priority, the latest of
\* these, in whatever order the map holds them and however they were renewed.
THEOREM BestLeaseOwnsKey == Spec => []HighestPriorityWins
  BY BestWins, LeaseInvariant, PTL

\* However the two threads come between each other in UpdateGameActionBlocks, a byte on
\* its way is the record's, but for a write the record was set over,
THEOREM ByteInvariant == Spec => []ByteInv
<1>1. TypeOK /\ Bytes <=> ByteInv
  BY DEF Bytes, ByteInv
<1>2. Spec => []Bytes
  BY InitBytes, StepBytes, TypeCorrect, PTL DEF Spec
<1> QED
  BY <1>1, <1>2, TypeCorrect, PTL

\* and so is the byte of the game once nobody writes.
THEOREM ByteFollows == Spec => []ByteFollowsRecord
<1>1. ByteInv => ByteFollowsRecord
  BY DEF ByteInv
<1> QED
  BY <1>1, ByteInvariant, PTL

\* What scripts have leased is what they granted and have not ended, for its time: the
\* clock, its wrap, and who drops expired leases when, are not seen.
THEOREM ImplementsScriptLeases == Spec => LeasesAreKept
  BY InitRefines, StepRefines, LeaseInvariant, PTL DEF Spec, LeasesAreKept, Leases!Spec, Leases!vars, OwnerOf
=============================================================================
