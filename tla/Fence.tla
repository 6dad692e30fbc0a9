-------------------------------- MODULE Fence --------------------------------
(***************************************************************************)
(* What TraceFence promises, without leases, statuses, commands or tokens: *)
(* a tree of nodes, each holding the scopes of its ancestors and its own;  *)
(* scopes that are revoked for good; and effects, each by a node none of   *)
(* whose scopes is revoked at that moment.                                 *)
(***************************************************************************)
CONSTANTS Node, Root, RunScope, Key

VARIABLES
  holds,    \* the scopes a node holds, {} while it does not exist
  valid,    \* the scopes that exist and are not revoked
  effects   \* the effects so far, one per node and key

fence_vars == <<holds, valid, effects>>

exists(n) == holds[n] # {}
unfenced(n) == exists(n) /\ holds[n] \subseteq valid

FenceInit ==
  /\ holds = [n \in Node |-> IF n = Root THEN {RunScope, Root} ELSE {}]
  /\ valid = {RunScope, Root}
  /\ effects = {}

\* An unfenced parent delegates what it holds and a scope of the child's own.
Delegate(p, child) ==
  /\ unfenced(p)
  /\ ~exists(child)
  /\ holds' = [holds EXCEPT ![child] = holds[p] \cup {child}]
  /\ valid' = valid \cup {child}
  /\ UNCHANGED effects

Revoke(s) ==
  /\ s \in valid
  /\ valid' = valid \ {s}
  /\ UNCHANGED <<holds, effects>>

Commit(n, k) ==
  /\ unfenced(n)
  /\ <<n, k>> \notin effects
  /\ effects' = effects \cup {<<n, k>>}
  /\ UNCHANGED <<holds, valid>>

FenceNext ==
  \/ \E p, child \in Node : Delegate(p, child)
  \/ \E s \in Node \cup {RunScope} : Revoke(s)
  \/ \E n \in Node, k \in Key : Commit(n, k)

FenceSpec == FenceInit /\ [][FenceNext]_fence_vars
=============================================================================
