---------------------------- MODULE SpawnService ----------------------------
(***************************************************************************)
(* services/spawn_service.py: registration, activation, heartbeat,         *)
(* checkpoint, completion and replacement of nodes.                        *)
(*                                                                         *)
(* A handler that begins with BEGIN IMMEDIATE is one action.  Two handlers *)
(* are not atomic in the code and are split where it matters: activate and *)
(* heartbeat read the clock before they wait for the write lock, and       *)
(* checkpoint reads without a transaction and writes in a later one.       *)
(* Requests carry no operation_key: credential recovery is out of this     *)
(* module.  A request that is refused changes nothing and is not an action.*)
(***************************************************************************)
EXTENDS Registry

fresh == Node \ registered
children(p) == {n \in registered : reg[n].parent = p}

\* Bounds of the model on the requests that ask for an intent or a lease.
grants_open == now <= LastGrant
renewals_open == now <= LastRenewal

_enforce_graph_budget(p) ==
  /\ reg[p].generation + 1 <= MaxDepth
  /\ Cardinality(children(p)) < MaxChildren

\* The replacement policy fixes max_children of every manifest at 0.
ReplacementMaxChildren == 0
_enforce_parent_child_budget(p) ==
  reg[p].cause # 0 => Cardinality(children(p)) < ReplacementMaxChildren

\* Mutant: the requested capabilities are not compared with the parent's.
_validate_nothing(p, caps) == caps \subseteq Capability

_validate_capability_delegation(p, caps) == caps \subseteq reg[p].caps

\* Mutant: the child's snapshot starts from the root's, not from its parent's.
_create_spawn_flat(p, child, caps, cause) ==
  /\ status' = [status EXCEPT ![child] = "PENDING"]
  /\ scope' = [scope EXCEPT ![child] = [version |-> 1, status |-> "ACTIVE"]]
  /\ reg' = [reg EXCEPT ![child] =
               [parent |-> p, generation |-> reg[p].generation + 1, caps |-> caps,
                snapshot |-> reg[Root].snapshot \cup {[scope |-> child, version |-> 1]},
                cause |-> cause, expires |-> now + IntentTTL]]

\* The child, its owned scope and its intent; the snapshot is the parent's and its own.
_create_spawn_locked(p, child, caps, cause) ==
  /\ status' = [status EXCEPT ![child] = "PENDING"]
  /\ scope' = [scope EXCEPT ![child] = [version |-> 1, status |-> "ACTIVE"]]
  /\ reg' = [reg EXCEPT ![child] =
               [parent |-> p, generation |-> reg[p].generation + 1, caps |-> caps,
                snapshot |-> reg[p].snapshot \cup {[scope |-> child, version |-> 1]},
                cause |-> cause, expires |-> now + IntentTTL]]

create_spawn(p, child, caps) ==
  /\ grants_open
  /\ p \in tokens
  /\ node_allowed(p)
  /\ _enforce_graph_budget(p)
  /\ _enforce_parent_child_budget(p)
  /\ _validate_capability_delegation(p, caps)
  /\ child \in fresh
  /\ _create_spawn_locked(p, child, caps, 0)
  /\ UNCHANGED <<now, run, lease, token, commands, acks, attempts, proposals,
                 checkpoints>>

\* What the tool of a correction makes the replacement's exact capabilities.
capabilities_exact(c) == {commands[c].tool} \ {NoTool}

\* Mutant: any ended replacement may be retried.
replacement_open_ended(c) ==
  commands[c].replacement # NoNode => status[commands[c].replacement] \in EndStatus

\* A second replacement is created only after the first was never activated.
replacement_open(c) ==
  \/ commands[c].replacement = NoNode
  \/ /\ commands[c].rstatus = "ACTIVATION_EXPIRED"
     /\ status[commands[c].replacement] = "LEASE_EXPIRED"

create_replacement(p, child, c) ==
  /\ grants_open
  /\ p \in tokens
  /\ node_allowed(p)
  /\ commands[c].type = "CORRECT_SUBTREE"
  /\ commands[c].parent = p
  /\ replacement_open(c)
  /\ _enforce_graph_budget(p)
  /\ reg[commands[c].target].parent = p \/ p = Root
  /\ scope[commands[c].scope].status = "SUPERSEDED"
  /\ scope[commands[c].scope].version = commands[c].version
  /\ _validate_capability_delegation(p, capabilities_exact(c))
  /\ child \in fresh
  /\ _create_spawn_locked(p, child, capabilities_exact(c), c)
  /\ commands' = [commands EXCEPT ![c].replacement = child, ![c].rstatus = "PENDING"]
  /\ UNCHANGED <<now, run, lease, token, acks, attempts, proposals, checkpoints>>

-----------------------------------------------------------------------------
\* The command of a replacement must still name it, with the status expected of it.
replacement_is(n, rs) ==
  reg[n].cause # 0 => /\ commands[reg[n].cause].replacement = n
                      /\ commands[reg[n].cause].rstatus = rs

\* Mutant: the lifecycle column is not updated.
set_replacement_forgotten(n, rs) == UNCHANGED commands

set_replacement(n, rs) ==
  commands' = IF reg[n].cause = 0 THEN commands
              ELSE [commands EXCEPT ![reg[n].cause].rstatus = rs]

\* t is the clock read before the wait for the write lock.
activate(n, t) ==
  /\ grants_open
  /\ n \in registered \ tokens
  /\ clock_read(reg[n].expires - IntentTTL, t)
  /\ t < reg[n].expires
  /\ status[n] = "PENDING"
  /\ scopes_allowed(n)
  /\ replacement_is(n, "PENDING")
  /\ token' = [token EXCEPT ![n] = now]
  /\ status' = [status EXCEPT ![n] = "ACTIVE"]
  /\ lease' = [lease EXCEPT ![n] = t + LeaseTTL]
  /\ set_replacement(n, "ACTIVE")
  /\ UNCHANGED <<now, run, reg, scope, acks, attempts, proposals, checkpoints>>

\* The three committed outcomes of heartbeat; t is the clock read before the wait.
heartbeat_live(n, t) ==
  /\ n \in tokens
  /\ clock_read(token[n], t)
  /\ run = "RUNNING"
  /\ status[n] \in LiveStatus

heartbeat_expired(n, t) ==
  /\ heartbeat_live(n, t)
  /\ lease[n] <= t
  /\ status' = [status EXCEPT ![n] = "LEASE_EXPIRED"]
  /\ acks' = acks \cup lease_expiry_acks({n})
  /\ UNCHANGED <<now, run, reg, lease, token, scope, commands, attempts, proposals,
                 checkpoints>>

heartbeat_fenced(n, t) ==
  /\ heartbeat_live(n, t)
  /\ lease[n] > t
  /\ ~scopes_allowed(n)
  /\ status' = [status EXCEPT ![n] = effective_status(n)]
  /\ acks' = acks \cup ack_rows(n, commands_for_scope_mismatches(n), "COOPERATIVE")
  /\ UNCHANGED <<now, run, reg, lease, token, scope, commands, attempts, proposals,
                 checkpoints>>

\* Mutant: a heartbeat renews without looking at the scopes.
heartbeat_renewed_blind(n, t) ==
  /\ renewals_open
  /\ heartbeat_live(n, t)
  /\ lease[n] > t
  /\ lease' = [lease EXCEPT ![n] = t + LeaseTTL]
  /\ UNCHANGED <<now, run, status, reg, token, scope, commands, acks, attempts,
                 proposals, checkpoints>>

heartbeat_renewed(n, t) ==
  /\ renewals_open
  /\ heartbeat_live(n, t)
  /\ lease[n] > t
  /\ scopes_allowed(n)
  /\ lease' = [lease EXCEPT ![n] = t + LeaseTTL]
  /\ UNCHANGED <<now, run, status, reg, token, scope, commands, acks, attempts,
                 proposals, checkpoints>>

-----------------------------------------------------------------------------
\* checkpoint, step 1: authenticate_node loads the node row.
checkpoint_read(n) ==
  /\ Cardinality(checkpoints) < MaxCheckpoints
  /\ n \in tokens
  /\ checkpoints' = checkpoints \cup
       {[node |-> n, status |-> status[n], lease |-> lease[n], to |-> "UNDECIDED", acks |-> {}]}
  /\ UNCHANGED <<now, tables>>

\* checkpoint, step 2: the run, the scopes and the commands are read, and the outcome
\* follows from them and from the row of step 1.
checkpoint_decide(r) ==
  LET reason == validate_node_runtime_state(r.node, r.status, r.lease)
      found == ack_rows(r.node, commands_for_scope_mismatches(r.node), "COOPERATIVE")
      outcome(to, new) == checkpoints' = (checkpoints \ {r}) \cup
                            {[r EXCEPT !.to = to, !.acks = new]}
  IN
  /\ r.to = "UNDECIDED"
  /\ \/ reason = "ALLOWED" /\ outcome("WAITING", {})
     \/ reason = "LEASE_EXPIRED" /\ outcome("LEASE_EXPIRED", {})
     \/ /\ reason \notin {"ALLOWED", "LEASE_EXPIRED"} /\ found # {}
        /\ outcome(effective_status(r.node), found \ acks)
     \/ /\ reason \notin {"ALLOWED", "LEASE_EXPIRED"} /\ found = {}
        /\ checkpoints' = checkpoints \ {r}
  /\ UNCHANGED <<now, tables>>

\* checkpoint, step 3: the write transaction.  The ORM updates the status only when it
\* differs from the row of step 1, and an acknowledgement inserted meanwhile violates
\* uq_command_ack.
checkpoint_write(r) ==
  /\ r.to # "UNDECIDED"
  /\ r.acks \cap acks = {}
  /\ status' = IF r.to = r.status THEN status ELSE [status EXCEPT ![r.node] = r.to]
  /\ acks' = acks \cup r.acks \cup
       (IF r.to = "LEASE_EXPIRED" THEN lease_expiry_acks({r.node}) ELSE {})
  /\ checkpoints' = checkpoints \ {r}
  /\ UNCHANGED <<now, run, reg, lease, token, scope, commands, attempts, proposals>>

\* A checkpoint request that ends without a write: an error, or the process stops.
checkpoint_abandon(r) ==
  /\ checkpoints' = checkpoints \ {r}
  /\ UNCHANGED <<now, tables>>

-----------------------------------------------------------------------------
complete_node(n) ==
  /\ n \in tokens \ {Root}
  /\ node_allowed(n)
  /\ replacement_is(n, "ACTIVE")
  /\ status' = [status EXCEPT ![n] = "COMPLETED"]
  /\ set_replacement(n, "COMPLETED")
  /\ UNCHANGED <<now, run, reg, lease, token, scope, acks, attempts, proposals,
                 checkpoints>>

\* What complete() of the root treats as expired among the other nodes.
lapsed(n) ==
  \/ status[n] \in LiveStatus /\ lease[n] <= now
  \/ status[n] = "PENDING" /\ n \notin tokens /\ reg[n].expires <= now

holds_run_open(n) ==
  status[n] \in LiveStatus \cup {"PENDING"} /\ ~lapsed(n) /\ scopes_allowed(n)

complete_root ==
  LET others == registered \ {Root}
      late == {n \in others : lapsed(n)} IN
  /\ node_allowed(Root)
  /\ \A n \in others : ~holds_run_open(n)
  /\ run' = "COMPLETED"
  /\ status' = [n \in Node |-> IF n = Root THEN "COMPLETED"
                               ELSE IF n \in late THEN "LEASE_EXPIRED" ELSE status[n]]
  /\ acks' = acks \cup lease_expiry_acks(late)
  /\ UNCHANGED <<now, reg, lease, token, scope, commands, attempts, proposals,
                 checkpoints>>
=============================================================================
