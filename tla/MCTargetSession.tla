-------------------------- MODULE MCTargetSession --------------------------
(***************************************************************************)
(* TargetSession for TLC: an action row and an information row that        *)
(* carries an option id as well.                                           *)
(***************************************************************************)
EXTENDS TargetSession
CONSTANTS t1, o1, o2

MCRowInputs ==
  {[id |-> o1, type |-> "action", enabled |-> TRUE], [id |-> o2, type |-> "info", enabled |-> TRUE]}

\* Bound on what scripts do: lists of two rows only where they are cut, without
\* CapabilityTargetUIV2, and direct selection of one row, without it as well.
InputsBounded ==
  /\ v2' => ~context'.direct /\ Len(context'.options) <= 1
  /\ context'.direct => Len(context'.options) <= 1

BoundedSpec == Init /\ [][Next /\ InputsBounded]_vars /\ Fairness
=============================================================================
