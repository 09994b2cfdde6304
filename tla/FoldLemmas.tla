------------------------------ MODULE FoldLemmas ------------------------------
(***************************************************************************)
(* Induction over the subsets of a finite set, in a form that names the    *)
(* set of the good ones instead of a predicate; and that a fold over a     *)
(* finite set, as those of module Folds are defined, has a value for each  *)
(* of its subsets.                                                         *)
(***************************************************************************)
EXTENDS FiniteSetTheorems, TLAPS

\* What holds of a subset as soon as it holds of all it contains holds of all.
LEMMA SubsetInduction ==
  ASSUME NEW S, IsFiniteSet(S), NEW Good,
         \A t \in SUBSET S : (\A u \in SUBSET t : u # t => u \in Good) => t \in Good
  PROVE  SUBSET S \subseteq Good
<1> DEFINE Bad == (SUBSET S) \ Good
<1> SUFFICES ASSUME Bad # {} PROVE FALSE
  OBVIOUS
<1>1. IsWellFoundedOn(StrictSubsetOrdering(S), FiniteSubsetsOf(S))
  BY FS_StrictSubsetOrderingWellFounded
<1>2. FiniteSubsetsOf(S) = SUBSET S
  BY FS_FiniteSubsetsOfFinite
<1>3. Bad \subseteq FiniteSubsetsOf(S)
  BY <1>2
<1>4. PICK t \in Bad : \A u \in Bad : ~(<<u, t>> \in StrictSubsetOrdering(S))
  <2> HIDE DEF Bad
  <2> QED
    BY <1>1, <1>3, WFMin
<1>5. \A u \in SUBSET t : u # t => u \in Good
  BY <1>4 DEF StrictSubsetOrdering
<1> QED
  BY <1>4, <1>5

-----------------------------------------------------------------------------
(* Folds.  base is the value of the empty set; the value of another subset t *)
(* is that of step for the element pick[t] and the value of the rest.        *)

IsPick(pick, S) == \A t \in SUBSET S : t # {} => pick[t] \in t

IsFold(f, S, base, step, pick) ==
  f = [t \in SUBSET S |-> IF t = {} THEN base ELSE step[<<pick[t], f[t \ {pick[t]}]>>]]

\* The pairs of a subset and its value, as the least relation that has that of
\* the empty set and those the steps lead to.
Closed(Q, S, base, step, pick) ==
  /\ <<{}, base>> \in Q
  /\ \A t \in SUBSET S : \A a : t # {} /\ <<t \ {pick[t]}, a>> \in Q => <<t, step[<<pick[t], a>>]>> \in Q

Values(S, A, base, step, pick) ==
  {p \in (SUBSET S) \X A : \A Q \in SUBSET ((SUBSET S) \X A) : Closed(Q, S, base, step, pick) => p \in Q}

\* It has a value for every subset,
LEMMA FoldHasValue ==
  ASSUME NEW S, IsFiniteSet(S), NEW A, NEW base \in A, NEW step \in [S \X A -> A],
         NEW pick, IsPick(pick, S)
  PROVE  \A t \in SUBSET S : \E a \in A : <<t, a>> \in Values(S, A, base, step, pick)
<1> DEFINE V == Values(S, A, base, step, pick)
           Good == {t \in SUBSET S : \E a \in A : <<t, a>> \in V}
<1>1. ASSUME NEW t \in SUBSET S, \A u \in SUBSET t : u # t => u \in Good
      PROVE  t \in Good
  <2>1. CASE t = {}
    <3>1. <<{}, base>> \in V
      BY DEF Values, Closed
    <3> QED
      BY <2>1, <3>1
  <2>2. CASE t # {}
    <3>1. pick[t] \in t /\ t \ {pick[t]} \in SUBSET t /\ t \ {pick[t]} # t
      BY <2>2 DEF IsPick
    <3>2. PICK a \in A : <<t \ {pick[t]}, a>> \in V
      BY <1>1, <3>1
    <3>3. step[<<pick[t], a>>] \in A
      BY <3>1
    <3>4. <<t, step[<<pick[t], a>>]>> \in V
      BY <2>2, <3>2, <3>3 DEF Values, Closed
    <3> QED
      BY <3>3, <3>4
  <2> QED
    BY <2>1, <2>2
<1> HIDE DEF Good
<1>2. SUBSET S \subseteq Good
  BY <1>1, SubsetInduction
<1> QED
  BY <1>2 DEF Good

\* and one only: to leave another out still leaves what the steps lead to.
LEMMA FoldHasOneValue ==
  ASSUME NEW S, IsFiniteSet(S), NEW A, NEW base \in A, NEW step \in [S \X A -> A],
         NEW pick, IsPick(pick, S)
  PROVE  \A t \in SUBSET S, a, b \in A :
           <<t, a>> \in Values(S, A, base, step, pick) /\ <<t, b>> \in Values(S, A, base, step, pick)
             => a = b
<1> DEFINE V == Values(S, A, base, step, pick)
           Good == {t \in SUBSET S : \A a, b \in A : <<t, a>> \in V /\ <<t, b>> \in V => a = b}
<1>1. ASSUME NEW t \in SUBSET S, \A u \in SUBSET t : u # t => u \in Good
      PROVE  t \in Good
  <2>1. PICK v \in A : /\ t = {} => v = base
                       /\ t # {} => \A a \in A : <<t \ {pick[t]}, a>> \in V => v = step[<<pick[t], a>>]
    <3>1. CASE t = {}
      BY <3>1
    <3>2. CASE t # {}
      <4>1. pick[t] \in t /\ t \ {pick[t]} \in SUBSET t /\ t \ {pick[t]} # t
        BY <3>2 DEF IsPick
      <4>2. t \ {pick[t]} \in Good
        BY <1>1, <4>1
      <4>3. PICK a \in A : <<t \ {pick[t]}, a>> \in V
        BY FoldHasValue, <4>1
      <4>4. \A b \in A : <<t \ {pick[t]}, b>> \in V => b = a
        BY <4>2, <4>3
      <4>5. step[<<pick[t], a>>] \in A
        BY <4>1
      <4> QED
        BY <3>2, <4>4, <4>5
    <3> QED
      BY <3>1, <3>2
  <2>2. ASSUME NEW a \in A, <<t, a>> \in V, a # v
        PROVE  FALSE
    <3> DEFINE Q == V \ {<<t, a>>}
    <3>1. Q \in SUBSET ((SUBSET S) \X A)
      BY DEF Values
    <3>2. Closed(V, S, base, step, pick)
      <4>1. <<{}, base>> \in V
        BY DEF Values, Closed
      <4>2. ASSUME NEW u \in SUBSET S, NEW b, u # {}, <<u \ {pick[u]}, b>> \in V
            PROVE  <<u, step[<<pick[u], b>>]>> \in V
        <5>1. b \in A /\ pick[u] \in S
          BY <4>2 DEF Values, IsPick
        <5>2. step[<<pick[u], b>>] \in A
          BY <5>1
        <5> QED
          BY <4>2, <5>2 DEF Values, Closed
      <4> QED
        BY <4>1, <4>2 DEF Closed
    <3>3. <<{}, base>> \in Q
      BY <2>1, <2>2, <3>2 DEF Closed
    <3>4. ASSUME NEW u \in SUBSET S, NEW b, u # {}, <<u \ {pick[u]}, b>> \in Q
          PROVE  <<u, step[<<pick[u], b>>]>> \in Q
      <4>1. <<u, step[<<pick[u], b>>]>> \in V
        BY <3>2, <3>4 DEF Closed
      <4>2. b \in A
        BY <3>4 DEF Values
      <4>3. u = t => step[<<pick[u], b>>] = v
        BY <2>1, <3>4, <4>2
      <4> QED
        BY <2>2, <4>1, <4>3
    <3>5. Closed(Q, S, base, step, pick)
      BY <3>3, <3>4 DEF Closed
    <3>6. <<t, a>> \in Q
      BY <2>2, <3>1, <3>5 DEF Values
    <3> QED
      BY <3>6
  <2> QED
    BY <2>2
<1> HIDE DEF Good
<1>2. SUBSET S \subseteq Good
  BY <1>1, SubsetInduction
<1> QED
  BY <1>2 DEF Good

\* So there is such a fold.
LEMMA FoldExists ==
  ASSUME NEW S, IsFiniteSet(S), NEW A, NEW base \in A, NEW step \in [S \X A -> A],
         NEW pick, IsPick(pick, S)
  PROVE  \E f \in [SUBSET S -> A] : IsFold(f, S, base, step, pick)
<1> DEFINE V == Values(S, A, base, step, pick)
           f == [t \in SUBSET S |-> CHOOSE a \in A : <<t, a>> \in V]
<1>1. \A t \in SUBSET S : f[t] \in A /\ <<t, f[t]>> \in V
  BY FoldHasValue
<1>2. f \in [SUBSET S -> A]
  BY <1>1
<1>3. ASSUME NEW t \in SUBSET S
      PROVE  f[t] = IF t = {} THEN base ELSE step[<<pick[t], f[t \ {pick[t]}]>>]
  <2>1. CASE t = {}
    <3>1. <<{}, base>> \in V
      BY DEF Values, Closed
    <3> QED
      BY <1>1, <2>1, <3>1, FoldHasOneValue
  <2>2. CASE t # {}
    <3> DEFINE u == t \ {pick[t]}
               b == step[<<pick[t], f[u]>>]
    <3>1. u \in SUBSET S /\ pick[t] \in S
      BY <2>2 DEF IsPick
    <3>2. f[u] \in A /\ <<u, f[u]>> \in V
      BY <1>1, <3>1
    <3>3. b \in A
      BY <3>1, <3>2
    <3>4. <<t, b>> \in V
      BY <2>2, <3>2, <3>3 DEF Values, Closed
    <3> HIDE DEF f, b
    <3>5. f[t] = b
      BY <1>1, <3>3, <3>4, FoldHasOneValue
    <3> QED
      BY <2>2, <3>5 DEF b
  <2> QED
    BY <2>1, <2>2
<1> HIDE DEF f
<1>4. f = [t \in SUBSET S |-> IF t = {} THEN base ELSE step[<<pick[t], f[t \ {pick[t]}]>>]]
  BY <1>2, <1>3
<1> QED
  BY <1>2, <1>4 DEF IsFold
=============================================================================
