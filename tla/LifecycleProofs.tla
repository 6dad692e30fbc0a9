--------------------------- MODULE LifecycleProofs ---------------------------
(***************************************************************************)
(* How the rows of runs, nodes and checkpoint requests may move, whatever  *)
(* step is taken, and what follows: a run that ended is frozen, a fenced   *)
(* node gets no longer lease, an ended node stays ended and a node with a  *)
(* fenced status holds a fenced scope.  Then the replacement of a          *)
(* corrected subtree: the lifecycle column of its command agrees with the  *)
(* node it names, and however often replacements are created and retried,  *)
(* one recovery action is committed at most.                               *)
(***************************************************************************)
EXTENDS TraceFenceProofs, FiniteSetTheorems

-----------------------------------------------------------------------------
\* The status of a node moves along its lifecycle, to the status its scopes impose, or to
\* the one a checkpoint decided before.
StatusMoves(n) ==
  \/ status'[n] = status[n]
  \/ status[n] = "NONE" /\ status'[n] = "PENDING"
  \/ status[n] = "PENDING" /\ status'[n] \in {"ACTIVE", "LEASE_EXPIRED"}
  \/ status[n] \in LiveStatus /\ status'[n] \in {"COMPLETED", "LEASE_EXPIRED"}
  \/ n \in tokens /\ ~scopes_allowed(n) /\ status'[n] = effective_status(n)
  \/ \E r \in checkpoints : r.node = n /\ r.to # "UNDECIDED" /\ status'[n] = r.to

\* What a checkpoint request has read, or decided from what it read and the scopes.
Decided(r) ==
  \/ r.to = "UNDECIDED"
  \/ r.to \in {"WAITING", "LEASE_EXPIRED"} /\ r.status \in LiveStatus
  \/ r.to = effective_status(r.node) /\ mismatches(r.node) # {}

\* A run that ended is given neither a scope, a node, a commit nor another end.
RunMoves ==
  run # "RUNNING" =>
    /\ run' = run /\ scope' = scope /\ reg' = reg
    /\ \A a \in attempts' \ attempts : a.decision = "DENY"

RowsMove ==
  /\ \A n \in Node : StatusMoves(n)
  /\ \A r \in checkpoints' \ checkpoints : Decided(r)
  /\ \A n \in Node : lease'[n] # lease[n] => scopes_allowed(n)
  /\ RunMoves

\* Every step moves the rows in these ways only.
LEMMA RowsMoveStep == TypeOK /\ [Next]_vars => RowsMove
<1> SUFFICES ASSUME TypeOK, [Next]_vars PROVE RowsMove
  OBVIOUS
<1> DEFINE Status == \A n \in Node : StatusMoves(n)
           Decisions == \A r \in checkpoints' \ checkpoints : Decided(r)
           Leases == \A n \in Node : lease'[n] # lease[n] => scopes_allowed(n)
<1>a. \A n : node_allowed(n) => run = "RUNNING" /\ status[n] \in LiveStatus /\ scopes_allowed(n)
  BY DEF node_allowed, validate_node_runtime_state
<1>t. tokens \subseteq Node /\ fresh \subseteq Node
  BY DEF tokens, fresh
<1>b. /\ status' = status => Status
      /\ checkpoints' \subseteq checkpoints => Decisions
      /\ lease' = lease => Leases
      /\ UNCHANGED <<run, scope, reg, attempts>> => RunMoves
  BY DEF StatusMoves, RunMoves
<1>1. ASSUME NEW p \in tokens, NEW child \in fresh, NEW caps, NEW cause,
             _create_spawn_locked(p, child, caps, cause), node_allowed(p),
             UNCHANGED <<lease, attempts, checkpoints>>
      PROVE  RowsMove
  <2>1. RunMoves
    BY <1>1, <1>a DEF RunMoves
  <2>2. Status
    BY <1>1, <1>t DEF _create_spawn_locked, StatusMoves, fresh, registered, TypeOK
  <2> QED
    BY <1>1, <1>b, <2>1, <2>2 DEF RowsMove
<1>2. ASSUME NEW n \in Node, NEW t \in 1 .. now, activate(n, t)
      PROVE  RowsMove
  <2>1. Status
    BY <1>2 DEF activate, StatusMoves, TypeOK
  <2>2. Leases
    BY <1>2 DEF activate, TypeOK
  <2> QED
    BY <1>2, <1>b, <2>1, <2>2 DEF activate, RowsMove
<1>3. ASSUME NEW n \in Node, NEW t \in 1 .. now,
             heartbeat_expired(n, t) \/ heartbeat_fenced(n, t) \/ heartbeat_renewed(n, t)
      PROVE  RowsMove
  <2>1. Status
    BY <1>3
    DEF heartbeat_expired, heartbeat_fenced, heartbeat_renewed, heartbeat_live, StatusMoves, TypeOK
  <2>2. Leases
    BY <1>3 DEF heartbeat_expired, heartbeat_fenced, heartbeat_renewed, TypeOK
  <2>3. UNCHANGED <<run, scope, reg, attempts, checkpoints>>
    BY <1>3 DEF heartbeat_expired, heartbeat_fenced, heartbeat_renewed
  <2> QED
    BY <1>b, <2>1, <2>2, <2>3 DEF RowsMove
<1>4. ASSUME NEW n \in Node, complete_node(n)
      PROVE  RowsMove
  <2>1. Status
    BY <1>4, <1>a DEF complete_node, StatusMoves, TypeOK
  <2> QED
    BY <1>4, <1>b, <2>1 DEF complete_node, RowsMove
<1>5. CASE complete_root
  <2>1. Status
    BY <1>5, <1>a DEF complete_root, StatusMoves, lapsed, TypeOK
  <2>2. RunMoves
    BY <1>5, <1>a DEF complete_root, RunMoves
  <2> QED
    BY <1>5, <1>b, <2>1, <2>2 DEF complete_root, RowsMove
<1>6. ASSUME NEW n \in Node, checkpoint_read(n)
      PROVE  RowsMove
  <2>1. Decisions
    BY <1>6 DEF checkpoint_read, Decided
  <2>2. UNCHANGED <<run, status, scope, reg, attempts, lease>>
    BY <1>6 DEF checkpoint_read, tables
  <2> QED
    BY <1>b, <2>1, <2>2 DEF RowsMove
<1>7. ASSUME NEW r \in checkpoints, checkpoint_decide(r)
      PROVE  RowsMove
  <2> DEFINE decided(to, new) == [r EXCEPT !.to = to, !.acks = new]
             reason == validate_node_runtime_state(r.node, r.status, r.lease)
             found == ack_rows(r.node, commands_for_scope_mismatches(r.node), "COOPERATIVE")
  <2>1. \A to, new : decided(to, new).to = to /\ decided(to, new).status = r.status
                     /\ decided(to, new).node = r.node
    BY DEF TypeOK, CheckpointRow
  <2>2. reason \in {"ALLOWED", "LEASE_EXPIRED"} => r.status \in LiveStatus
    BY DEF validate_node_runtime_state
  <2>3. found # {} => mismatches(r.node) # {}
    BY DEF ack_rows, commands_for_scope_mismatches
  <2>4. \/ \E to, new :
             /\ checkpoints' = (checkpoints \ {r}) \cup {decided(to, new)}
             /\ \/ to \in {"WAITING", "LEASE_EXPIRED"} /\ reason \in {"ALLOWED", "LEASE_EXPIRED"}
                \/ to = effective_status(r.node) /\ found # {}
        \/ checkpoints' = checkpoints \ {r}
    BY <1>7 DEF checkpoint_decide
  <2> HIDE DEF decided, reason, found
  <2>5. Decisions
    BY <2>1, <2>2, <2>3, <2>4 DEF Decided
  <2>6. UNCHANGED <<run, status, scope, reg, attempts, lease>>
    BY <1>7 DEF checkpoint_decide, tables
  <2> QED
    BY <1>b, <2>5, <2>6 DEF RowsMove
<1>8. ASSUME NEW r \in checkpoints, checkpoint_write(r)
      PROVE  RowsMove
  <2>1. Status
    BY <1>8 DEF checkpoint_write, StatusMoves, TypeOK, CheckpointRow
  <2> QED
    BY <1>8, <1>b, <2>1 DEF checkpoint_write, RowsMove
<1>9. ASSUME NEW issuer, NEW key, NEW type, NEW target, NEW tool, NEW q,
             issue_command(issuer, key, type, target, tool, q)
      PROVE  RowsMove
  <2>1. RunMoves
    BY <1>9 DEF issue_command, accepts_commands, RunMoves
  <2> QED
    BY <1>9, <1>b, <2>1 DEF issue_command, RowsMove
<1>10. ASSUME NEW n \in tokens, NEW key, NEW tool, execute_allow(n, key, tool)
       PROVE  RowsMove
  <2>1. RunMoves
    BY <1>10, <1>a DEF execute_allow, RunMoves
  <2> QED
    BY <1>10, <1>b, <2>1 DEF execute_allow, RowsMove
<1>11. ASSUME NEW n \in tokens, NEW key, NEW tool,
              execute_deny_stale(n, key, tool) \/ execute_deny(n, key, tool)
       PROVE  RowsMove
  <2>1. Status
    <3>1. validate_node_runtime_state(n, status[n], lease[n]) = "SCOPE_INVALID"
            => ~scopes_allowed(n)
      BY DEF validate_node_runtime_state
    <3> QED
      BY <1>11, <3>1 DEF execute_deny_stale, execute_deny, StatusMoves, TypeOK
  <2>2. RunMoves
    <3>1. PICK m : attempt(n, key, tool, "DENY", m)
      BY <1>11 DEF execute_deny_stale, execute_deny
    <3>2. \A a \in attempts' \ attempts : a.decision = "DENY"
      BY <3>1 DEF attempt
    <3> QED
      BY <1>11, <3>2 DEF execute_deny_stale, execute_deny, RunMoves
  <2> QED
    BY <1>11, <1>b, <2>1, <2>2 DEF execute_deny_stale, execute_deny, RowsMove
<1>12. ASSUME NEW t \in 1 .. now, expire_stale_nodes(t)
       PROVE  RowsMove
  <2>1. Status
    BY <1>12 DEF expire_stale_nodes, stale_nodes, StatusMoves, TypeOK
  <2>2. RunMoves
    BY <1>12 DEF expire_stale_nodes, RunMoves
  <2> QED
    BY <1>12, <1>b, <2>1, <2>2 DEF expire_stale_nodes, RowsMove
<1>13. ASSUME UNCHANGED <<run, status, scope, reg, attempts, lease>>, checkpoints' \subseteq checkpoints
       PROVE  RowsMove
  BY <1>13, <1>b DEF RowsMove
<1>14. CASE tick \/ UNCHANGED vars \/ \E r \in checkpoints : checkpoint_abandon(r)
  BY <1>13, <1>14 DEF tick, vars, tables, checkpoint_abandon
<1>15. ASSUME NEW n, NEW q, NEW type, NEW target, create_proposal(n, q, type, target)
       PROVE  RowsMove
  BY <1>13, <1>15 DEF create_proposal
<1>16. ASSUME NEW q, NEW decision, NEW tool, review_proposal(q, decision, tool)
       PROVE  RowsMove
  BY <1>13, <1>16 DEF review_proposal
<1>17. ASSUME NEW p \in tokens, NEW child \in fresh, NEW caps, create_spawn(p, child, caps)
       PROVE  RowsMove
  BY <1>1, <1>17 DEF create_spawn
<1>18. ASSUME NEW p \in tokens, NEW child \in fresh, NEW c, create_replacement(p, child, c)
       PROVE  RowsMove
  BY <1>1, <1>18 DEF create_replacement
<1> HIDE DEF Status, Decisions, Leases
<1> QED
  BY <1>2, <1>3, <1>4, <1>5, <1>6, <1>7, <1>8, <1>9, <1>10, <1>11, <1>12, <1>14, <1>15,
     <1>16, <1>17, <1>18
  DEF Next, Lifecycle, Checkpoints, Control, Gateway, Scanner

-----------------------------------------------------------------------------
(* Frozen runs, fenced leases, ended nodes                                 *)

\* Once a run is over nothing is added to it: no command, effect, node or scope change.
THEOREM TerminalRunFrozenHolds == Spec => TerminalRunFrozen
<1>1. ASSUME FenceInv, [Next]_vars, run # "RUNNING"
      PROVE  /\ run' = run /\ scope' = scope /\ reg' = reg
             /\ Len(commands') = Len(commands)
             /\ \A a \in attempts' \ attempts : a.decision = "DENY"
  <2>1. TypeOK /\ FreshIsBlank
    BY <1>1 DEF FenceInv
  <2>2. RunMoves
    BY <1>1, <2>1, RowsMoveStep DEF RowsMove
  <2>3. ~ \E s \in Scope, row \in CommandRow : Issues(s, row)
    BY <1>1, <2>1, <2>2 DEF RunMoves, Issues, TypeOK
  <2>4. Len(commands') = Len(commands)
    BY <1>1, <2>1, <2>3, StepKinds DEF Registers, Commits, Quiet, CommandsKept
  <2> QED
    BY <1>1, <2>2, <2>4 DEF RunMoves
<1>2. FenceInv /\ [Next]_vars =>
        [run # "RUNNING" =>
           /\ run' = run /\ scope' = scope /\ reg' = reg
           /\ Len(commands') = Len(commands)
           /\ \A a \in attempts' \ attempts : a.decision = "DENY"]_vars
  BY <1>1
<1> QED
  BY FenceInvInit, FenceInvStep, <1>2, PTL DEF Spec, TerminalRunFrozen

\* A fenced node never gets a longer lease, whatever was waiting when it was fenced.
LEMMA FencedLeaseStep ==
  TypeOK /\ [Next]_vars =>
    \A n \in registered : ~scopes_allowed(n) => lease'[n] <= lease[n]
<1> SUFFICES ASSUME TypeOK, [Next]_vars, NEW n \in registered, ~scopes_allowed(n)
             PROVE  lease'[n] <= lease[n]
  OBVIOUS
<1>1. lease'[n] = lease[n] /\ lease[n] \in Nat
  BY RowsMoveStep DEF RowsMove, registered, TypeOK
<1> QED
  BY <1>1

\* So it is for every behaviour of the control plane.
THEOREM FencedLeaseNeverGrowsHolds == Spec => FencedLeaseNeverGrows
<1>1. FenceInv => TypeOK
  BY DEF FenceInv
<1> QED
  BY FenceInvInit, FenceInvStep, FencedLeaseStep, <1>1, PTL DEF Spec, FencedLeaseNeverGrows

\* A checkpoint that read an ended node decides an end status.
DecisionsEnd ==
  \A r \in checkpoints : r.status \in EndStatus /\ r.to # "UNDECIDED" => r.to \in EndStatus

\* What the scopes impose on a fenced node is the end the command meant.
LEMMA FencedEffectiveStatus ==
  ASSUME NEW n, ~scopes_allowed(n)
  PROVE  effective_status(n) \in {"CANCELLED", "SUPERSEDED"}
  BY DEF effective_status, scopes_allowed

\* Deciding keeps it so: an ended row is never allowed, nor found expired.
LEMMA DecisionsEndStep == TypeOK /\ DecisionsEnd /\ [Next]_vars => DecisionsEnd'
<1> SUFFICES ASSUME TypeOK, DecisionsEnd, [Next]_vars,
                    NEW r \in checkpoints' \ checkpoints,
                    r.status \in EndStatus, r.to # "UNDECIDED"
             PROVE  r.to \in EndStatus
  BY DEF DecisionsEnd
<1>1. Decided(r)
  BY RowsMoveStep DEF RowsMove
<1>2. r.status \notin LiveStatus
  BY DEF LiveStatus, EndStatus
<1>3. mismatches(r.node) # {} => ~scopes_allowed(r.node)
  BY DEF scopes_allowed
<1> QED
  BY <1>1, <1>2, <1>3, FencedEffectiveStatus DEF Decided, EndStatus

\* So an ended node whose checkpoints all read it ended stays ended.
LEMMA EndedStep ==
  TypeOK /\ DecisionsEnd /\ [Next]_vars =>
    \A n \in Node :
      /\ status[n] \in EndStatus
      /\ \A r \in checkpoints : r.node = n => r.status \in EndStatus
      => status'[n] \in EndStatus
<1> SUFFICES ASSUME TypeOK, DecisionsEnd, [Next]_vars, NEW n \in Node, status[n] \in EndStatus,
                    \A r \in checkpoints : r.node = n => r.status \in EndStatus
             PROVE  status'[n] \in EndStatus
  OBVIOUS
<1>1. StatusMoves(n)
  BY RowsMoveStep DEF RowsMove
<1>2. status[n] \notin LiveStatus \cup {"PENDING", "NONE"}
  BY DEF LiveStatus, EndStatus
<1> QED
  BY <1>1, <1>2, FencedEffectiveStatus DEF StatusMoves, DecisionsEnd, EndStatus

\* An ended node becomes live again only through a checkpoint that read it before it ended.
THEOREM EndedNodeStaysEndedHolds == Spec => EndedNodeStaysEnded
<1>1. Init => DecisionsEnd
  BY DEF Init, create_run, DecisionsEnd
<1>2. FenceInv => TypeOK
  BY DEF FenceInv
<1> QED
  BY FenceInvInit, FenceInvStep, DecisionsEndStep, EndedStep, <1>1, <1>2, PTL
  DEF Spec, EndedNodeStaysEnded

-----------------------------------------------------------------------------
(* Fenced statuses are justified                                           *)

\* Scopes are created at version 1, and only a command moves one, when it fences it: what
\* contradicts a snapshot entry is a fenced scope.
ScopesStartAtOne ==
  /\ \A s \in Scope : scope[s].status = "ACTIVE" => scope[s].version = 1
  /\ \A n \in Node : \A e \in reg[n].snapshot :
       e.version = 1 /\ scope[e.scope].status # "ABSENT"

\* Node n inherits a scope of that status.
Justified(n, st) == \E s \in snapshot_scopes(n) : scope[s].status = st

\* The recorded statuses and those a checkpoint is about to record.
JustifiedInv ==
  /\ ScopesStartAtOne
  /\ FencedStatusJustified
  /\ \A r \in checkpoints : r.to \in {"CANCELLED", "SUPERSEDED"} => Justified(r.node, r.to)

\* It holds of the tables create_run leaves.
LEMMA JustifiedInit == Init => JustifiedInv
<1> SUFFICES ASSUME Init PROVE JustifiedInv
  OBVIOUS
<1>1. \A s \in Scope : scope[s].status = "ACTIVE" => scope[s].version = 1
  BY DEF Init, create_run
<1>2. /\ \A n \in Node \ {Root} : reg[n].snapshot = {}
      /\ reg[Root].snapshot = {[scope |-> RunScope, version |-> 1], [scope |-> Root, version |-> 1]}
  BY RegistryAssumption DEF Init, create_run, Unregistered
<1>3. scope[RunScope].status = "ACTIVE" /\ scope[Root].status = "ACTIVE"
  BY RegistryAssumption DEF Init, create_run, Scope
<1>4. \A e \in reg[Root].snapshot : e.version = 1 /\ scope[e.scope].status # "ABSENT"
  BY <1>2, <1>3
<1> QED
  BY <1>1, <1>2, <1>4 DEF Init, create_run, JustifiedInv, ScopesStartAtOne, FencedStatusJustified

\* The status the scopes impose on a fenced node is that of a scope it inherits.
LEMMA EffectiveStatusJustified ==
  ASSUME ScopesStartAtOne, TypeOK, NEW n \in Node, mismatches(n) # {}
  PROVE  Justified(n, effective_status(n))
<1>1. \A e \in mismatches(n) : /\ e \in reg[n].snapshot /\ e.scope \in snapshot_scopes(n)
                               /\ scope[e.scope].status \in {"CANCELLED", "SUPERSEDED"}
  <2> SUFFICES ASSUME NEW e \in mismatches(n)
               PROVE  /\ e \in reg[n].snapshot /\ e.scope \in snapshot_scopes(n)
                      /\ scope[e.scope].status \in {"CANCELLED", "SUPERSEDED"}
    OBVIOUS
  <2>1. /\ e \in reg[n].snapshot /\ e.scope \in Scope
        /\ e.scope \in snapshot_scopes(n)
    BY DEF mismatches, snapshot_scopes, TypeOK, Registration
  <2>2. scope[e.scope].status \in ScopeStatus \cup {"ABSENT"}
    BY <2>1 DEF TypeOK
  <2> QED
    BY <2>1, <2>2 DEF ScopesStartAtOne, mismatches, ScopeStatus
<1>2. reg[n].snapshot # {}
  BY <1>1
<1>3. CASE \E e \in mismatches(n) : scope[e.scope].status \in {"CANCELLED", "ABSENT"}
  <2>1. effective_status(n) = "CANCELLED"
    BY <1>3 DEF effective_status
  <2> QED
    BY <1>1, <1>3, <2>1 DEF Justified
<1>4. CASE \A e \in mismatches(n) : scope[e.scope].status \notin {"CANCELLED", "ABSENT"}
  <2>1. effective_status(n) = "SUPERSEDED"
    BY <1>2, <1>4 DEF effective_status
  <2> QED
    BY <1>1, <1>4, <2>1 DEF Justified
<1> QED
  BY <1>3, <1>4

\* The snapshots of registered nodes and the fenced scopes do not change.
LEMMA JustifiedKept ==
  ASSUME TypeOK, FreshIsBlank, [Next]_vars, NEW n \in Node, NEW st \in {"CANCELLED", "SUPERSEDED"},
         Justified(n, st)
  PROVE  Justified(n, st)'
<1>1. PICK e \in reg[n].snapshot : e.scope \in Scope /\ scope[e.scope].status = st
  BY DEF Justified, snapshot_scopes, TypeOK, Registration
<1>2. status[n] # "NONE"
  BY <1>1 DEF FreshIsBlank
<1>3. reg'[n].snapshot = reg[n].snapshot /\ scope'[e.scope].status = st
  <2>1. ASSUME NEW p \in Node, NEW child \in Node, NEW caps \in SUBSET Capability,
               NEW cause \in Nat, Registers(p, child, caps, cause)
        PROVE  reg'[n].snapshot = reg[n].snapshot /\ scope'[e.scope].status = st
    <3>1. n # child /\ e.scope # child
      BY <1>1, <1>2, <2>1 DEF Registers, FreshIsBlank
    <3> QED
      BY <1>1, <2>1, <3>1 DEF Registers, _create_spawn_locked, TypeOK
  <2>2. ASSUME NEW s \in Scope, NEW row \in CommandRow, Issues(s, row)
        PROVE  reg'[n].snapshot = reg[n].snapshot /\ scope'[e.scope].status = st
    BY <1>1, <2>2 DEF Issues, TypeOK
  <2>3. CASE reg' = reg /\ scope' = scope
    BY <1>1, <2>3
  <2> QED
    BY <2>1, <2>2, <2>3, StepKinds DEF Commits, Quiet
<1> QED
  BY <1>1, <1>3 DEF Justified, snapshot_scopes

\* Every scope is born at version 1, with the entry of the node that owns it.
LEMMA ScopesStep == FenceInv /\ ScopesStartAtOne /\ [Next]_vars => ScopesStartAtOne'
<1> SUFFICES ASSUME FenceInv, ScopesStartAtOne, [Next]_vars PROVE ScopesStartAtOne'
  OBVIOUS
<1>0. TypeOK /\ FreshIsBlank
  BY DEF FenceInv
<1>s. /\ Node \subseteq Scope
      /\ \A n \in Node : \A e \in reg[n].snapshot : e.scope \in Scope
  BY <1>0 DEF Scope, TypeOK, Registration
<1>1. ASSUME NEW p \in Node, NEW child \in Node, NEW caps \in SUBSET Capability,
             NEW cause \in Nat, Registers(p, child, caps, cause)
      PROVE  ScopesStartAtOne'
  <2> DEFINE own == [scope |-> child, version |-> 1]
  <2>1. /\ scope' = [scope EXCEPT ![child] = [version |-> 1, status |-> "ACTIVE"]]
        /\ \A n \in Node \ {child} : reg'[n] = reg[n]
        /\ reg'[child].snapshot = reg[p].snapshot \cup {own}
    BY <1>0, <1>1 DEF Registers, _create_spawn_locked, TypeOK
  <2>2. own.scope = child /\ own.version = 1
    OBVIOUS
  <2> HIDE DEF own
  <2>3. \A s \in Scope : /\ s # child => scope'[s] = scope[s]
                         /\ s = child => scope'[s].version = 1 /\ scope'[s].status = "ACTIVE"
    BY <1>0, <2>1 DEF TypeOK
  <2>4. \A n \in Node : \A e \in reg'[n].snapshot :
          e = own \/ \E m \in Node : e \in reg[m].snapshot
    BY <2>1
  <2> QED
    BY <1>s, <2>2, <2>3, <2>4 DEF ScopesStartAtOne
<1>2. ASSUME NEW s \in Scope, NEW row \in CommandRow, Issues(s, row)
      PROVE  ScopesStartAtOne'
  <2>1. /\ reg' = reg /\ scope'[s].status \in {"CANCELLED", "SUPERSEDED"}
        /\ \A r \in Scope \ {s} : scope'[r] = scope[r]
    BY <1>0, <1>2 DEF Issues, TypeOK
  <2> QED
    BY <1>s, <2>1 DEF ScopesStartAtOne
<1>3. CASE reg' = reg /\ scope' = scope
  BY <1>3 DEF ScopesStartAtOne
<1> QED
  BY <1>0, <1>1, <1>2, <1>3, StepKinds DEF Commits, Quiet

\* Every step preserves the justification: a status follows the scopes at the time, or a
\* checkpoint that followed them, and a fenced scope stays as it was fenced.
LEMMA JustifiedStep ==
  FenceInv /\ TreeInv /\ JustifiedInv /\ [Next]_vars => JustifiedInv'
<1> SUFFICES ASSUME FenceInv, TreeInv, JustifiedInv, [Next]_vars PROVE JustifiedInv'
  OBVIOUS
<1> DEFINE Fenced == {"CANCELLED", "SUPERSEDED"}
<1>0. TypeOK /\ FreshIsBlank /\ ScopesStartAtOne /\ RowsMove /\ TypeOK'
  BY RowsMoveStep, FenceInvStep DEF FenceInv, JustifiedInv
<1>1. ScopesStartAtOne'
  BY ScopesStep DEF JustifiedInv
<1>2. \A n \in Node : \A st \in Fenced : Justified(n, st) => Justified(n, st)'
  BY <1>0, JustifiedKept
<1>3. \A n \in tokens : ~scopes_allowed(n) => n \in Node /\ mismatches(n) # {}
  <2> SUFFICES ASSUME NEW n \in tokens, ~scopes_allowed(n)
               PROVE  n \in Node /\ mismatches(n) # {}
    OBVIOUS
  <2>1. n \in Node /\ status[n] # "NONE"
    BY <1>0 DEF tokens, FreshIsBlank
  <2>2. reg[n].snapshot # {}
    BY <2>1 DEF TreeInv, SnapshotsNest, snapshot_scopes
  <2> QED
    BY <2>1, <2>2 DEF scopes_allowed
<1>4. ASSUME NEW r \in checkpoints', r.to \in Fenced
      PROVE  Justified(r.node, r.to)'
  <2>1. r.node \in Node
    BY <1>0 DEF TypeOK, CheckpointRow
  <2>2. CASE r \in checkpoints
    BY <1>2, <1>4, <2>1, <2>2 DEF JustifiedInv
  <2>3. CASE r \notin checkpoints
    <3>1. r.to = effective_status(r.node) /\ mismatches(r.node) # {}
      BY <1>0, <1>4, <2>3 DEF RowsMove, Decided
    <3> QED
      BY <1>0, <1>2, <1>4, <2>1, <3>1, EffectiveStatusJustified
  <2> QED
    BY <2>2, <2>3
<1>5. ASSUME NEW n \in Node, NEW st \in Fenced, status'[n] = st
      PROVE  Justified(n, st)'
  <2>1. StatusMoves(n)
    BY <1>0 DEF RowsMove
  <2>2. Justified(n, st)
    BY <1>0, <1>3, <1>5, <2>1, EffectiveStatusJustified
    DEF StatusMoves, JustifiedInv, FencedStatusJustified, Justified
  <2> QED
    BY <1>2, <2>2
<1>6. FencedStatusJustified'
  BY <1>5 DEF FencedStatusJustified, Justified
<1> QED
  BY <1>1, <1>4, <1>6 DEF JustifiedInv

\* A node recorded as cancelled or superseded really inherits a scope that was.
THEOREM FencedStatusJustifiedHolds == Spec => []FencedStatusJustified
<1>1. JustifiedInv => FencedStatusJustified
  BY DEF JustifiedInv
<1> QED
  BY FenceInvInit, FenceInvStep, TreeInvInit, TreeInvStep, JustifiedInit, JustifiedStep, <1>1, PTL
  DEF Spec

-----------------------------------------------------------------------------
(* What a step may do to replacements                                      *)

\* create_spawn
Spawns(child) ==
  /\ child \in fresh
  /\ \E p \in Node, caps \in SUBSET Capability : _create_spawn_locked(p, child, caps, 0)
  /\ UNCHANGED <<commands, token>>

\* issue_command: a new command has no replacement yet.
Orders(row) ==
  /\ row.replacement = NoNode
  /\ commands' = Append(commands, row)
  /\ UNCHANGED <<reg, token>>

\* Every step is a registration, an activation, a completion, a scan, a command, or leaves
\* credentials, causes and commands alone.
LEMMA ReplacementKinds ==
  ASSUME TypeOK, [Next]_vars
  PROVE  \/ \E child \in Node : Spawns(child)
         \/ \E p \in tokens, child \in fresh, c \in DOMAIN commands : create_replacement(p, child, c)
         \/ \E n \in Node, t \in 1 .. now : activate(n, t)
         \/ \E n \in Node : complete_node(n)
         \/ \E t \in 1 .. now : expire_stale_nodes(t)
         \/ \E row \in CommandRow : Orders(row)
         \/ UNCHANGED <<reg, commands, token>>
<1> DEFINE Kinds ==
         \/ \E child \in Node : Spawns(child)
         \/ \E p \in tokens, child \in fresh, c \in DOMAIN commands : create_replacement(p, child, c)
         \/ \E n \in Node, t \in 1 .. now : activate(n, t)
         \/ \E n \in Node : complete_node(n)
         \/ \E t \in 1 .. now : expire_stale_nodes(t)
         \/ \E row \in CommandRow : Orders(row)
         \/ UNCHANGED <<reg, commands, token>>
<1> SUFFICES Kinds
  OBVIOUS
<1>1. ASSUME NEW p \in tokens, NEW child \in fresh, NEW caps \in SUBSET Capability,
             create_spawn(p, child, caps)
      PROVE  Kinds
  <2>1. p \in Node /\ child \in Node
    BY DEF tokens, fresh
  <2>2. Spawns(child)
    BY <1>1, <2>1 DEF create_spawn, Spawns
  <2> QED
    BY <2>1, <2>2
<1>2. ASSUME NEW issuer \in Issuer, NEW key \in CommandKey, NEW type \in CommandType,
             NEW target \in Node, NEW tool \in Tool \cup {NoTool},
             NEW q \in Proposal \cup {NoProposal},
             issue_command(issuer, key, type, target, tool, q)
      PROVE  Kinds
  <2> DEFINE row == command_row(issuer, key, type, target, tool, q)
  <2>1. target_scope(type, target) \in Scope
    BY DEF target_scope, Scope
  <2>2. replacement_parent(target) \in Node \cup {NoNode}
    BY RegistryAssumption DEF replacement_parent, Registration, TypeOK
  <2>3. row \in CommandRow /\ row.replacement = NoNode
    BY <2>1, <2>2 DEF command_row, CommandRow, ReplacementStatus, TypeOK
  <2>4. commands' = Append(commands, row) /\ UNCHANGED <<reg, token>>
    BY <1>2 DEF issue_command
  <2> HIDE DEF row
  <2> QED
    BY <2>3, <2>4 DEF Orders
<1>3. ASSUME NEW n, NEW t,
             heartbeat_expired(n, t) \/ heartbeat_fenced(n, t) \/ heartbeat_renewed(n, t)
      PROVE  Kinds
  BY <1>3 DEF heartbeat_expired, heartbeat_fenced, heartbeat_renewed
<1>4. ASSUME NEW r, \/ checkpoint_decide(r) \/ checkpoint_write(r) \/ checkpoint_abandon(r)
                    \/ checkpoint_read(r)
      PROVE  Kinds
  BY <1>4 DEF checkpoint_decide, checkpoint_write, checkpoint_abandon, checkpoint_read, tables
<1>5. ASSUME NEW n, NEW key, NEW tool, \/ execute_allow(n, key, tool)
                                       \/ execute_deny_stale(n, key, tool)
                                       \/ execute_deny(n, key, tool)
      PROVE  Kinds
  BY <1>5 DEF execute_allow, execute_deny_stale, execute_deny
<1>6. CASE complete_root \/ tick \/ UNCHANGED vars
  BY <1>6 DEF complete_root, tick, vars, tables
<1>7. ASSUME NEW n, NEW q, NEW type, NEW target, \/ create_proposal(n, q, type, target)
                                                 \/ review_proposal(n, q, type)
      PROVE  Kinds
  BY <1>7 DEF create_proposal, review_proposal
<1>8. ASSUME \/ \E p \in tokens, child \in fresh, c \in DOMAIN commands : create_replacement(p, child, c)
             \/ \E n \in Node, t \in 1 .. now : activate(n, t)
             \/ \E n \in Node : complete_node(n)
             \/ \E t \in 1 .. now : expire_stale_nodes(t)
      PROVE  Kinds
  BY <1>8
<1> HIDE DEF Kinds
<1> QED
  BY <1>1, <1>2, <1>3, <1>4, <1>5, <1>6, <1>7, <1>8
  DEF Next, Lifecycle, Checkpoints, Control, Gateway, Scanner

\* The row update of a lifecycle column: the other rows, and the rest of the row, stay.
LEMMA LifecycleUpdate ==
  ASSUME TypeOK, NEW c \in 1 .. Len(commands), NEW rs \in ReplacementStatus,
         commands' = [commands EXCEPT ![c].rstatus = rs]
  PROVE  /\ Len(commands') = Len(commands)
         /\ \A d \in 1 .. Len(commands) : d # c => commands'[d] = commands[d]
         /\ commands'[c].replacement = commands[c].replacement
         /\ commands'[c].rstatus = rs
<1> DEFINE row == [commands[c] EXCEPT !.rstatus = rs]
<1>1. /\ commands \in Seq(CommandRow) /\ Len(commands) \in Nat /\ commands[c] \in CommandRow
      /\ DOMAIN commands = 1 .. Len(commands)
  BY LenProperties DEF TypeOK
<1>2. row.replacement = commands[c].replacement /\ row.rstatus = rs /\ row \in CommandRow
  BY <1>1 DEF CommandRow
<1>3. commands' = [commands EXCEPT ![c] = row]
  BY <1>1
<1> HIDE DEF row
<1> QED
  BY <1>1, <1>2, <1>3, ExceptSeq

-----------------------------------------------------------------------------
(* The lifecycle column                                                    *)

\* Command c agrees with the node it names as its replacement.
Agrees(c) ==
  LET m == commands[c].replacement IN
  m # NoNode =>
    /\ status[m] # "NONE" /\ reg[m].cause = c
    /\ (m \in tokens) <=> (commands[c].rstatus \in {"ACTIVE", "COMPLETED"})
    /\ commands[c].rstatus = "ACTIVATION_EXPIRED" => status[m] = "LEASE_EXPIRED"

\* A node that holds a credential is the replacement its command names.
HoldersNamed == \A n \in tokens : reg[n].cause # 0 => commands[reg[n].cause].replacement = n

Agreement ==
  /\ \A n \in Node : reg[n].cause \in 0 .. Len(commands)
  /\ HoldersNamed
  /\ \A c \in 1 .. Len(commands) : Agrees(c)

\* Only the holder of a credential has a checkpoint under way.
CheckpointsHeld == \A r \in checkpoints : r.node \in tokens

ReplacementInv == now # 0 /\ CheckpointsHeld /\ Agreement

\* It holds of the tables create_run leaves.
LEMMA ReplacementInit == Init => ReplacementInv
<1> SUFFICES ASSUME Init PROVE ReplacementInv
  OBVIOUS
<1>1. now # 0 /\ checkpoints = {} /\ Len(commands) = 0
  BY DEF Init, create_run
<1>2. \A n \in Node : reg[n].cause = 0
  BY DEF Init, create_run, Unregistered
<1> QED
  BY <1>1, <1>2 DEF ReplacementInv, CheckpointsHeld, Agreement, HoldersNamed, tokens

\* A registered node stays registered, and one whose activation expired does not come back:
\* it has no credential, hence no checkpoint.
LEMMA ExpiredStaysExpired ==
  ASSUME TypeOK, CheckpointsHeld, [Next]_vars, NEW n \in Node, status[n] # "NONE"
  PROVE  /\ status'[n] # "NONE"
         /\ n \notin tokens /\ status[n] = "LEASE_EXPIRED" => status'[n] = "LEASE_EXPIRED"
<1>1. StatusMoves(n)
  BY RowsMoveStep DEF RowsMove
<1>2. \A r \in checkpoints : r.node \in tokens /\ (r.to # "UNDECIDED" => r.to # "NONE")
  BY DEF CheckpointsHeld, TypeOK, CheckpointRow, NodeStatus, LiveStatus, EndStatus
<1> QED
  BY <1>1, <1>2, EffectiveStatusType DEF StatusMoves, LiveStatus

\* A replacement is created for a command without one, or whose last one was never activated.
LEMMA AgreementReplaces ==
  ASSUME TypeOK, FreshIsBlank, Agreement, CheckpointsHeld, [Next]_vars,
         NEW p \in tokens, NEW child \in fresh, NEW c \in DOMAIN commands,
         create_replacement(p, child, c)
  PROVE  Agreement'
<1> DEFINE row == [commands[c] EXCEPT !.replacement = child, !.rstatus = "PENDING"]
<1>0. /\ commands \in Seq(CommandRow) /\ Len(commands) \in Nat
      /\ DOMAIN commands = 1 .. Len(commands)
      /\ c \in 1 .. Len(commands) /\ commands[c] \in CommandRow
      /\ child \in Node /\ status[child] = "NONE" /\ child \notin tokens
      /\ \A d \in 1 .. Len(commands) : commands[d].replacement \in Node \cup {NoNode}
  <2>1. /\ commands \in Seq(CommandRow) /\ Len(commands) \in Nat
        /\ DOMAIN commands = 1 .. Len(commands)
        /\ commands \in [1 .. Len(commands) -> CommandRow]
    BY LenProperties DEF TypeOK
  <2>2. child \in Node /\ status[child] = "NONE" /\ child \notin tokens
    BY DEF fresh, registered, FreshIsBlank, tokens
  <2> QED
    BY <2>1, <2>2 DEF CommandRow
<1>1. row \in CommandRow /\ row.replacement = child /\ row.rstatus = "PENDING"
  BY <1>0 DEF CommandRow, ReplacementStatus
<1>2. commands' = [commands EXCEPT ![c] = row]
  BY <1>0 DEF create_replacement
<1> HIDE DEF row
<1>3. /\ Len(commands') = Len(commands)
      /\ \A d \in 1 .. Len(commands) : commands'[d] = IF d = c THEN row ELSE commands[d]
  BY <1>0, <1>1, <1>2, ExceptSeq
<1>4. /\ \A n \in Node \ {child} : reg'[n] = reg[n]
      /\ reg'[child].cause = c /\ token' = token /\ status'[child] = "PENDING"
      /\ replacement_open(c)
  BY <1>0 DEF create_replacement, _create_spawn_locked, TypeOK
<1>5. commands[c].replacement \notin tokens
  BY <1>0, <1>4, RegistryAssumption DEF replacement_open, Agreement, Agrees, tokens
<1>6. \A n \in Node : reg'[n].cause \in 0 .. Len(commands')
  BY <1>0, <1>3, <1>4 DEF Agreement
<1>7. HoldersNamed'
  <2> SUFFICES ASSUME NEW n \in tokens, reg'[n].cause # 0
               PROVE  commands'[reg'[n].cause].replacement = n
    BY <1>4 DEF HoldersNamed, tokens
  <2>1. n \in Node \ {child} /\ reg'[n] = reg[n] /\ reg[n].cause \in 1 .. Len(commands)
    BY <1>0, <1>4 DEF tokens, Agreement
  <2>2. commands[reg[n].cause].replacement = n
    BY <2>1 DEF Agreement, HoldersNamed
  <2> QED
    BY <1>3, <1>5, <2>1, <2>2
<1>8. ASSUME NEW d \in 1 .. Len(commands)
      PROVE  Agrees(d)'
  <2>1. CASE d = c
    BY <1>0, <1>1, <1>3, <1>4, <2>1 DEF Agrees, tokens
  <2>2. CASE d # c
    <3> DEFINE m == commands[d].replacement
    <3> SUFFICES ASSUME m # NoNode PROVE Agrees(d)'
      BY <1>3, <2>2 DEF Agrees
    <3>1. m \in Node /\ status[m] # "NONE" /\ m # child
      BY <1>0 DEF Agreement, Agrees
    <3> HIDE DEF m
    <3>2. /\ status'[m] # "NONE"
          /\ m \notin tokens /\ status[m] = "LEASE_EXPIRED" => status'[m] = "LEASE_EXPIRED"
      BY <3>1, ExpiredStaysExpired
    <3> QED
      BY <1>3, <1>4, <2>2, <3>1, <3>2 DEF Agreement, Agrees, tokens, m
  <2> QED
    BY <2>1, <2>2
<1> QED
  BY <1>3, <1>6, <1>7, <1>8 DEF Agreement

\* Activation gives a credential to the replacement its command still names as pending;
\* completion keeps it.
LEMMA AgreementMoves ==
  ASSUME TypeOK, FreshIsBlank, ReplacementInv, [Next]_vars, NEW n \in Node,
         reg' = reg,
         \/ replacement_is(n, "PENDING") /\ set_replacement(n, "ACTIVE")
            /\ n \notin tokens /\ tokens' = tokens \cup {n}
         \/ replacement_is(n, "ACTIVE") /\ set_replacement(n, "COMPLETED")
            /\ n \in tokens /\ tokens' = tokens
  PROVE  Agreement'
<1>0. /\ Len(commands) \in Nat
      /\ \A m \in Node : reg[m].cause \in 0 .. Len(commands)
      /\ \A d \in 1 .. Len(commands) : commands[d].replacement \in Node \cup {NoNode}
      /\ n # NoNode /\ tokens \subseteq Node
  <2>1. Len(commands) \in Nat /\ commands \in [1 .. Len(commands) -> CommandRow]
    BY LenProperties DEF TypeOK
  <2> QED
    BY <2>1, RegistryAssumption DEF CommandRow, ReplacementInv, Agreement, tokens
<1>1. n \in tokens' /\ tokens' \ {n} = tokens \ {n}
  OBVIOUS
<1>2. \A m \in Node : status[m] # "NONE" =>
        /\ status'[m] # "NONE"
        /\ m \notin tokens /\ status[m] = "LEASE_EXPIRED" => status'[m] = "LEASE_EXPIRED"
  BY ExpiredStaysExpired DEF ReplacementInv
<1>3. ASSUME NEW d \in 1 .. Len(commands), d # reg[n].cause, commands'[d] = commands[d]
      PROVE  Agrees(d)'
  <2> DEFINE m == commands[d].replacement
  <2> SUFFICES ASSUME m # NoNode PROVE Agrees(d)'
    BY <1>3 DEF Agrees
  <2>1. m \in Node /\ status[m] # "NONE" /\ reg[m].cause = d /\ m # n
    BY <1>0, <1>3 DEF ReplacementInv, Agreement, Agrees
  <2>2. (m \in tokens') <=> (m \in tokens)
    BY <1>1, <2>1
  <2> HIDE DEF m
  <2> QED
    BY <1>2, <1>3, <2>1, <2>2 DEF ReplacementInv, Agreement, Agrees, m
<1>4. CASE reg[n].cause = 0
  <2>1. commands' = commands
    BY <1>4 DEF set_replacement
  <2>2. HoldersNamed'
    BY <1>0, <1>1, <1>4, <2>1 DEF ReplacementInv, Agreement, HoldersNamed
  <2> QED
    BY <1>0, <1>3, <1>4, <2>1, <2>2 DEF ReplacementInv, Agreement
<1>5. CASE reg[n].cause # 0
  <2>1. PICK c \in 1 .. Len(commands) :
          /\ c = reg[n].cause /\ commands[c].replacement = n
          /\ \E rs \in {"ACTIVE", "COMPLETED"} : commands' = [commands EXCEPT ![c].rstatus = rs]
    BY <1>0, <1>5 DEF replacement_is, set_replacement
  <2>2. /\ Len(commands') = Len(commands)
        /\ \A d \in 1 .. Len(commands) : d # c => commands'[d] = commands[d]
        /\ commands'[c].replacement = n /\ commands'[c].rstatus \in {"ACTIVE", "COMPLETED"}
    BY <2>1, LifecycleUpdate DEF ReplacementStatus
  <2>3. Agrees(c)'
    <3>1. status[n] # "NONE"
      BY <1>0, <2>1 DEF ReplacementInv, Agreement, Agrees
    <3>2. reg'[n].cause = c /\ status'[n] # "NONE"
      BY <1>2, <2>1, <3>1
    <3> QED
      BY <1>1, <2>2, <3>2 DEF Agrees
  <2>4. HoldersNamed'
    <3> SUFFICES ASSUME NEW m \in tokens', reg[m].cause # 0
                 PROVE  commands'[reg[m].cause].replacement = m
      BY DEF HoldersNamed
    <3>1. CASE m = n
      BY <2>1, <2>2, <3>1
    <3>2. CASE m # n
      <4>1. m \in tokens /\ m \in Node /\ reg[m].cause \in 1 .. Len(commands)
        BY <1>0, <1>1, <3>2 DEF ReplacementInv, Agreement
      <4>2. commands[reg[m].cause].replacement = m
        BY <4>1 DEF ReplacementInv, Agreement, HoldersNamed
      <4> QED
        BY <2>1, <2>2, <3>2, <4>1, <4>2
    <3> QED
      BY <3>1, <3>2
  <2>5. \A d \in 1 .. Len(commands) : Agrees(d)'
    BY <1>3, <2>1, <2>2, <2>3
  <2> QED
    BY <1>0, <2>2, <2>4, <2>5 DEF Agreement
<1> QED
  BY <1>4, <1>5

\* Registrations, scans, commands and everything else keep the agreement.
LEMMA AgreementStep ==
  FenceInv /\ TreeInv /\ ReplacementInv /\ [Next]_vars => Agreement'
<1> SUFFICES ASSUME FenceInv, TreeInv, ReplacementInv, [Next]_vars PROVE Agreement'
  OBVIOUS
<1>0. /\ TypeOK /\ FreshIsBlank /\ Agreement /\ CheckpointsHeld /\ now # 0
      /\ commands \in Seq(CommandRow) /\ Len(commands) \in Nat
      /\ DOMAIN commands = 1 .. Len(commands)
      /\ \A d \in 1 .. Len(commands) : commands[d].replacement \in Node \cup {NoNode}
      /\ tokens \subseteq Node
  <2>1. /\ TypeOK /\ FreshIsBlank /\ Agreement /\ CheckpointsHeld /\ now # 0
    BY DEF FenceInv, ReplacementInv
  <2>2. /\ commands \in Seq(CommandRow) /\ Len(commands) \in Nat
        /\ DOMAIN commands = 1 .. Len(commands)
        /\ commands \in [1 .. Len(commands) -> CommandRow]
    BY <2>1, LenProperties DEF TypeOK
  <2> QED
    BY <2>1, <2>2 DEF CommandRow, tokens
<1>1. \A m \in Node : status[m] # "NONE" =>
        /\ status'[m] # "NONE"
        /\ m \notin tokens /\ status[m] = "LEASE_EXPIRED" => status'[m] = "LEASE_EXPIRED"
  BY <1>0, ExpiredStaysExpired
<1>2. ASSUME NEW d \in 1 .. Len(commands), commands'[d] = commands[d], token' = token,
             \A m \in Node : status[m] # "NONE" => reg'[m].cause = reg[m].cause
      PROVE  Agrees(d)'
  <2> DEFINE m == commands[d].replacement
  <2> SUFFICES ASSUME m # NoNode PROVE Agrees(d)'
    BY <1>2 DEF Agrees
  <2>1. m \in Node /\ status[m] # "NONE" /\ reg[m].cause = d
    BY <1>0 DEF Agreement, Agrees
  <2> HIDE DEF m
  <2> QED
    BY <1>0, <1>1, <1>2, <2>1 DEF Agreement, Agrees, tokens, m
<1>3. ASSUME NEW child \in Node, Spawns(child)
      PROVE  Agreement'
  <2>1. /\ status[child] = "NONE" /\ child \notin tokens
        /\ commands' = commands /\ token' = token /\ reg'[child].cause = 0
        /\ \A m \in Node \ {child} : reg'[m] = reg[m]
    BY <1>0, <1>3
    DEF Spawns, fresh, registered, FreshIsBlank, tokens, _create_spawn_locked, TypeOK
  <2>2. HoldersNamed'
    BY <1>0, <2>1 DEF Agreement, HoldersNamed, tokens
  <2> QED
    BY <1>0, <1>2, <2>1, <2>2 DEF Agreement
<1>4. ASSUME NEW p \in tokens, NEW child \in fresh, NEW c \in DOMAIN commands,
             create_replacement(p, child, c)
      PROVE  Agreement'
  BY <1>0, <1>4, AgreementReplaces
<1>5. ASSUME NEW n \in Node, NEW t \in 1 .. now, activate(n, t)
      PROVE  Agreement'
  <2>1. n \notin tokens /\ tokens' = tokens \cup {n}
    BY <1>0, <1>5 DEF activate, tokens, TypeOK
  <2> QED
    BY <1>0, <1>5, <2>1, AgreementMoves DEF activate
<1>6. ASSUME NEW n \in Node, complete_node(n)
      PROVE  Agreement'
  <2>1. n \in tokens /\ tokens' = tokens
    BY <1>6 DEF complete_node, tokens
  <2> QED
    BY <1>0, <1>6, <2>1, AgreementMoves DEF complete_node
<1>7. ASSUME NEW t \in 1 .. now, expire_stale_nodes(t)
      PROVE  Agreement'
  <2>1. /\ commands' = [c \in 1 .. Len(commands) |->
                          IF activation_expired(c, stale_nodes(t))
                          THEN [commands[c] EXCEPT !.rstatus = "ACTIVATION_EXPIRED"]
                          ELSE commands[c]]
        /\ reg' = reg /\ token' = token
        /\ \A m \in stale_nodes(t) : status'[m] = "LEASE_EXPIRED"
    BY <1>0, <1>7 DEF expire_stale_nodes, stale_nodes
  <2>2. \A c \in 1 .. Len(commands) :
          commands'[c] = IF activation_expired(c, stale_nodes(t))
                         THEN [commands[c] EXCEPT !.rstatus = "ACTIVATION_EXPIRED"]
                         ELSE commands[c]
    BY <2>1
  <2>3. \A c \in 1 .. Len(commands) :
          LET row == [commands[c] EXCEPT !.rstatus = "ACTIVATION_EXPIRED"] IN
          row.replacement = commands[c].replacement /\ row.rstatus = "ACTIVATION_EXPIRED"
    <3>1. \A c \in 1 .. Len(commands) : commands[c] \in CommandRow
      BY <1>0, LenProperties
    <3> QED
      BY <3>1 DEF CommandRow
  <2>4. Len(commands') = Len(commands)
    <3>1. commands' \in [1 .. Len(commands) -> {commands'[c] : c \in 1 .. Len(commands)}]
      BY <2>1
    <3> QED
      BY <1>0, <3>1, FunctionIsSeq, LenProperties
  <2>5. \A c \in 1 .. Len(commands) : commands'[c].replacement = commands[c].replacement
    BY <2>2, <2>3
  <2>6. ASSUME NEW c \in 1 .. Len(commands)
        PROVE  Agrees(c)'
    <3>1. CASE activation_expired(c, stale_nodes(t))
      <4> DEFINE m == commands[c].replacement
      <4>1. /\ m \in Node /\ status'[m] = "LEASE_EXPIRED"
            /\ reg[m].cause = c /\ commands[c].rstatus = "PENDING"
        BY <2>1, <3>1 DEF activation_expired, stale_nodes
      <4>2. m # NoNode
        BY <4>1, RegistryAssumption
      <4>3. m \notin tokens
        BY <1>0, <4>1, <4>2 DEF Agreement, Agrees
      <4> QED
        BY <2>1, <2>2, <2>3, <3>1, <4>1, <4>3 DEF Agrees, tokens
    <3>2. CASE ~activation_expired(c, stale_nodes(t))
      BY <1>2, <2>1, <2>2, <3>2
    <3> QED
      BY <3>1, <3>2
  <2>7. HoldersNamed'
    <3> SUFFICES ASSUME NEW n \in tokens, reg[n].cause # 0
                 PROVE  commands'[reg[n].cause].replacement = n
      BY <2>1 DEF HoldersNamed, tokens
    <3>1. reg[n].cause \in 1 .. Len(commands)
      BY <1>0 DEF Agreement
    <3> QED
      BY <1>0, <2>5, <3>1 DEF Agreement, HoldersNamed
  <2> QED
    BY <1>0, <2>1, <2>4, <2>6, <2>7 DEF Agreement
<1>8. ASSUME NEW row \in CommandRow, Orders(row)
      PROVE  Agreement'
  <2>1. /\ reg' = reg /\ token' = token
        /\ Len(commands') = Len(commands) + 1
        /\ \A d \in 1 .. Len(commands) : commands'[d] = commands[d]
        /\ commands'[Len(commands) + 1].replacement = NoNode
    BY <1>0, <1>8 DEF Orders
  <2>2. \A d \in 1 .. Len(commands) : Agrees(d)'
    BY <1>2, <2>1
  <2>3. HoldersNamed'
    <3> SUFFICES ASSUME NEW n \in tokens, reg[n].cause # 0
                 PROVE  commands'[reg[n].cause].replacement = n
      BY <2>1 DEF HoldersNamed, tokens
    <3>1. reg[n].cause \in 1 .. Len(commands)
      BY <1>0 DEF Agreement
    <3> QED
      BY <1>0, <2>1, <3>1 DEF Agreement, HoldersNamed
  <2>4. \A d \in 1 .. Len(commands') : Agrees(d)'
    <3>1. \A d \in 1 .. Len(commands) + 1 : d \in 1 .. Len(commands) \/ d = Len(commands) + 1
      BY <1>0
    <3>2. ASSUME NEW d \in 1 .. Len(commands) + 1, d = Len(commands) + 1
          PROVE  Agrees(d)'
      BY <2>1, <3>2 DEF Agrees
    <3> QED
      BY <2>1, <2>2, <3>1, <3>2
  <2> QED
    BY <1>0, <2>1, <2>3, <2>4 DEF Agreement
<1>9. CASE UNCHANGED <<reg, commands, token>>
  BY <1>0, <1>2, <1>9 DEF Agreement, HoldersNamed, tokens
<1> QED
  BY <1>0, <1>3, <1>4, <1>5, <1>6, <1>7, <1>8, <1>9, ReplacementKinds

\* Credentials are never taken back, so the node of a pending checkpoint keeps its own.
LEMMA CredentialsKept ==
  ASSUME TypeOK, now # 0, [Next]_vars
  PROVE  tokens \subseteq tokens' /\ now' # 0
<1>1. tokens \subseteq tokens'
  <2>1. token' = token \/ \E n \in Node : token' = [token EXCEPT ![n] = now]
    BY ReplacementKinds
    DEF Spawns, create_replacement, activate, complete_node, expire_stale_nodes, Orders
  <2> QED
    BY <2>1 DEF tokens, TypeOK
<1>2. now' = now \/ now' = now + 1
  <2>1. ASSUME NEW n, NEW t,
               heartbeat_expired(n, t) \/ heartbeat_fenced(n, t) \/ heartbeat_renewed(n, t)
        PROVE  now' = now
    BY <2>1 DEF heartbeat_expired, heartbeat_fenced, heartbeat_renewed
  <2>2. ASSUME NEW r, \/ checkpoint_decide(r) \/ checkpoint_write(r) \/ checkpoint_abandon(r)
                      \/ checkpoint_read(r)
        PROVE  now' = now
    BY <2>2 DEF checkpoint_decide, checkpoint_write, checkpoint_abandon, checkpoint_read
  <2>3. ASSUME NEW n, NEW key, NEW tool, \/ execute_allow(n, key, tool)
                                         \/ execute_deny_stale(n, key, tool)
                                         \/ execute_deny(n, key, tool)
        PROVE  now' = now
    BY <2>3 DEF execute_allow, execute_deny_stale, execute_deny
  <2>4. ASSUME NEW n, NEW q, NEW type, NEW target, \/ create_proposal(n, q, type, target)
                                                   \/ review_proposal(n, q, type)
        PROVE  now' = now
    BY <2>4 DEF create_proposal, review_proposal
  <2>5. ASSUME NEW p, NEW child, NEW c, \/ create_spawn(p, child, c)
                                        \/ create_replacement(p, child, c)
        PROVE  now' = now
    BY <2>5 DEF create_spawn, create_replacement
  <2>6. ASSUME NEW n, NEW t, \/ activate(n, t) \/ complete_node(n) \/ complete_root
                             \/ expire_stale_nodes(t)
        PROVE  now' = now
    BY <2>6 DEF activate, complete_node, complete_root, expire_stale_nodes
  <2>7. ASSUME NEW issuer, NEW key, NEW type, NEW target, NEW tool, NEW q,
               issue_command(issuer, key, type, target, tool, q)
        PROVE  now' = now
    BY <2>7 DEF issue_command
  <2>8. CASE tick \/ UNCHANGED vars
    BY <2>8 DEF tick, vars
  <2> QED
    BY <2>1, <2>2, <2>3, <2>4, <2>5, <2>6, <2>7, <2>8
    DEF Next, Lifecycle, Checkpoints, Control, Gateway, Scanner
<1> QED
  BY <1>1, <1>2 DEF TypeOK

\* Every step preserves the invariant of replacements.
LEMMA ReplacementStep ==
  FenceInv /\ TreeInv /\ ReplacementInv /\ [Next]_vars => ReplacementInv'
<1> SUFFICES ASSUME FenceInv, TreeInv, ReplacementInv, [Next]_vars PROVE ReplacementInv'
  OBVIOUS
<1>1. TypeOK /\ FreshIsBlank /\ now # 0
  BY DEF FenceInv, ReplacementInv
<1>2. tokens \subseteq tokens' /\ now' # 0
  BY <1>1, CredentialsKept
<1>3. \A r \in checkpoints' : r.node \in tokens
  BY <1>1, StepKinds DEF Registers, Issues, Commits, Quiet, ReplacementInv, CheckpointsHeld
<1> QED
  BY <1>2, <1>3, AgreementStep DEF ReplacementInv, CheckpointsHeld

\* The lifecycle column of every correction agrees with its replacement, whatever
\* activations, expiries, completions and second replacements interleave.
THEOREM ReplacementLifecycleHolds == Spec => []ReplacementLifecycle
<1>1. FenceInv /\ ReplacementInv => ReplacementLifecycle
  <2> SUFFICES ASSUME FenceInv, ReplacementInv PROVE ReplacementLifecycle
    OBVIOUS
  <2>1. DOMAIN commands = 1 .. Len(commands)
    BY LenProperties DEF FenceInv, TypeOK
  <2> QED
    BY <2>1 DEF ReplacementLifecycle, ReplacementInv, Agreement, HoldersNamed, Agrees
<1> QED
  BY FenceInvInit, FenceInvStep, TreeInvInit, TreeInvStep, ReplacementInit, ReplacementStep, <1>1,
     PTL
  DEF Spec

-----------------------------------------------------------------------------
(* One recovery per command                                                *)

allowed == {a \in attempts : a.decision = "ALLOW"}

\* Only holders of credentials commit, and a replacement commits once.
OnceInv ==
  /\ IsFiniteSet(allowed)
  /\ \A a \in allowed : a.node \in tokens
  /\ \A a, b \in allowed : a.node = b.node /\ reg[a.node].cause # 0 => a = b

\* Nothing was committed before the run.
LEMMA OnceInit == Init => OnceInv
<1> SUFFICES ASSUME Init PROVE OnceInv
  OBVIOUS
<1>1. allowed = {}
  BY DEF Init, create_run, allowed
<1> QED
  BY <1>1, FS_EmptySet DEF OnceInv

\* The manifest of a replacement lets it commit an action only while it has committed none.
LEMMA OnceStep ==
  FenceInv /\ ReplacementInv /\ OnceInv /\ [Next]_vars => OnceInv'
<1> SUFFICES ASSUME FenceInv, ReplacementInv, OnceInv, [Next]_vars PROVE OnceInv'
  OBVIOUS
<1>0. TypeOK /\ FreshIsBlank /\ now # 0
  BY DEF FenceInv, ReplacementInv
<1>1. tokens \subseteq tokens' /\ tokens \subseteq Node
  BY <1>0, CredentialsKept DEF tokens
<1>2. \A n \in tokens : reg'[n].cause = reg[n].cause
  <2>1. ASSUME NEW p \in Node, NEW child \in Node, NEW caps \in SUBSET Capability,
               NEW cause \in Nat, Registers(p, child, caps, cause), NEW n \in tokens
        PROVE  reg'[n] = reg[n]
    BY <1>0, <1>1, <2>1 DEF Registers, _create_spawn_locked, FreshIsBlank, tokens, TypeOK
  <2> QED
    BY <1>0, <2>1, StepKinds DEF Issues, Commits, Quiet
<1>3. CASE allowed' = allowed
  BY <1>1, <1>2, <1>3 DEF OnceInv
<1>4. ASSUME NEW n \in Node, NEW key \in ActionKey, NEW tool \in Tool, Commits(n, key, tool)
      PROVE  OnceInv'
  <2> DEFINE new == [node |-> n, key |-> key, tool |-> tool, decision |-> "ALLOW",
                     matched |-> {}, place |-> Len(commands)]
  <2>1. /\ attempts' = attempts \cup {new} /\ n \in tokens
        /\ reg[n].cause # 0 => Cardinality(committed_by(n)) < 1
    BY <1>4 DEF Commits, attempt, recovery_contract_allows, max_committed_invocations
  <2>2. new.node = n /\ new.decision = "ALLOW"
    OBVIOUS
  <2> HIDE DEF new
  <2>3. allowed' = allowed \cup {new}
    BY <2>1, <2>2 DEF allowed
  <2>4. IsFiniteSet(allowed')
    BY <2>3, FS_AddElement DEF OnceInv
  <2>5. reg[n].cause # 0 => \A a \in allowed : a.node # n
    <3>1. committed_by(n) \in SUBSET allowed
      BY DEF committed_by, allowed
    <3>2. IsFiniteSet(committed_by(n))
      BY <3>1, FS_Subset DEF OnceInv
    <3>3. Cardinality(committed_by(n)) < 1 => committed_by(n) = {}
      BY <3>2, FS_CardinalityType, FS_EmptySet
    <3> QED
      BY <2>1, <3>3 DEF committed_by, allowed
  <2> QED
    BY <1>1, <1>2, <2>1, <2>2, <2>3, <2>4, <2>5 DEF OnceInv
<1>5. CASE Quiet
  <2>1. allowed' = allowed
    BY <1>5 DEF Quiet, Attributes, allowed
  <2> QED
    BY <1>3, <2>1
<1> QED
  BY <1>0, <1>3, <1>4, <1>5, StepKinds DEF Registers, Issues, allowed

\* However often replacements are created, activated or retried for a command, at most one
\* action of theirs is ever committed.
THEOREM OneRecoveryPerCommandHolds == Spec => []OneRecoveryPerCommand
<1>1. ReplacementInv /\ OnceInv => OneRecoveryPerCommand
  BY DEF ReplacementInv, Agreement, HoldersNamed, OnceInv, allowed, OneRecoveryPerCommand
<1> QED
  BY FenceInvInit, FenceInvStep, TreeInvInit, TreeInvStep, ReplacementInit, ReplacementStep,
     OnceInit, OnceStep, <1>1, PTL
  DEF Spec
=============================================================================
