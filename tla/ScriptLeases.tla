---------------------------- MODULE ScriptLeases ----------------------------
(***************************************************************************)
(* What OpenMP-Plus promises a Pawn script about the keys it leases: a     *)
(* lease is in force for the time it was last granted, and only a script   *)
(* ends it before; a key is owned by a lease of the highest priority, and  *)
(* changes its owner when a script grants another such lease or the        *)
(* owner's lease is over.  There is no clock here and nothing to clean up. *)
(***************************************************************************)
EXTENDS Integers
CONSTANTS Keys, Actions, Flags, Priorities, MaxTime
VARIABLES leases,   \* those in force, by key and action: flags, priority, time left
          owner,    \* of each key the lease that owns it, or none
          handling  \* a call of a script that changes the leases has not returned

vars == <<leases, owner, handling>>

Ids == Keys \X Actions
OfKey(k) == {id \in DOMAIN leases : id[1] = k}
Best(k) == {b \in OfKey(k) : \A id \in OfKey(k) : leases[id].priority <= leases[b].priority}

Init ==
  /\ leases = [id \in {} |-> {}]
  /\ owner = [k \in Keys |-> {}]
  /\ handling = FALSE

\* An owner whose lease goes on stays; otherwise one of the best takes over.
Succeeds(k) ==
  IF owner[k] # {} /\ owner[k] \subseteq DOMAIN leases'
  THEN owner'[k] = owner[k]
  ELSE IF OfKey(k)' = {} THEN owner'[k] = {} ELSE \E b \in Best(k)' : owner'[k] = {b}

Succession == owner' \in [Keys -> SUBSET Ids] /\ \A k \in Keys : Succeeds(k)

Call == ~handling /\ handling' = TRUE

\* A new lease or a renewed one, with another priority perhaps: it owns the key if
\* none of the key has a higher one, the others being older.
Grant(id, flags, priority, time) ==
  /\ Call
  /\ leases' = [i \in DOMAIN leases \cup {id} |->
       IF i = id THEN [flags |-> flags, priority |-> priority, left |-> time] ELSE leases[i]]
  /\ owner' \in [Keys -> SUBSET Ids]
  /\ \A k \in Keys :
       IF k = id[1] /\ id \in Best(k)' THEN owner'[k] = {id}
       ELSE IF owner[k] = {id} THEN \E b \in Best(k)' : owner'[k] = {b}
       ELSE owner'[k] = owner[k]

End(id) ==
  /\ Call
  /\ leases' = [i \in DOMAIN leases \ {id} |-> leases[i]]
  /\ Succession

EndAll ==
  /\ Call
  /\ leases' = [id \in {} |-> {}]
  /\ Succession

Return == handling /\ handling' = FALSE /\ UNCHANGED <<leases, owner>>

Elapse ==
  /\ leases' = [id \in {i \in DOMAIN leases : leases[i].left > 1} |->
                 [leases[id] EXCEPT !.left = @ - 1]]
  /\ Succession
  /\ UNCHANGED handling

Next ==
  \/ \E id \in Ids, flags \in Flags, priority \in Priorities, time \in 1..MaxTime :
       Grant(id, flags, priority, time)
  \/ \E id \in Ids : End(id)
  \/ EndAll \/ Return \/ Elapse

Spec == Init /\ [][Next]_vars
=============================================================================
