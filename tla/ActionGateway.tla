--------------------------- MODULE ActionGateway ----------------------------
(***************************************************************************)
(* services/action_gateway.py: the only admission path of a protected tool *)
(* action.  The whole of execute runs under BEGIN IMMEDIATE: one action    *)
(* per outcome.  A replay (same node and key) returns the stored attempt.  *)
(***************************************************************************)
EXTENDS Registry

committed_by(n) == {a \in attempts : a.node = n /\ a.decision = "ALLOW"}

\* A manifest with a tool allows it once; a manifest without one allows nothing.
max_committed_invocations == 1

\* _recovery_contract_denial(...) is None
recovery_contract_allows(n, tool) ==
  LET c == reg[n].cause IN
  c # 0 => /\ commands[c].replacement = n
           /\ commands[c].tool = tool
           /\ Cardinality(committed_by(n)) < max_committed_invocations

attempt(n, key, tool, decision, matched) ==
  attempts' = attempts \cup
    {[node |-> n, key |-> key, tool |-> tool, decision |-> decision, matched |-> matched,
      place |-> Len(commands)]}   \* its place in the journal, among COMMAND_ISSUED events

\* Authenticated, not a replay, within the quota.
admissible(n, key) ==
  /\ n \in tokens
  /\ \A a \in attempts : a.node # n \/ a.key # key
  /\ Cardinality(attempts) < MaxActions

execute_allow(n, key, tool) ==
  /\ admissible(n, key)
  /\ node_allowed(n)
  /\ recovery_contract_allows(n, tool)
  /\ tool \in reg[n].caps
  /\ attempt(n, key, tool, "ALLOW", {})
  /\ UNCHANGED <<now, run, status, reg, lease, token, scope, commands, acks, proposals,
                 checkpoints>>

\* A stale node is moved to its effective status and every fencing command is matched
\* and acknowledged.
execute_deny_stale(n, key, tool) ==
  LET fencing == commands_for_scope_mismatches(n) IN
  /\ admissible(n, key)
  /\ validate_node_runtime_state(n, status[n], lease[n]) = "SCOPE_INVALID"
  /\ attempt(n, key, tool, "DENY", fencing)
  /\ status' = [status EXCEPT ![n] = effective_status(n)]
  /\ acks' = acks \cup ack_rows(n, fencing, "GATEWAY_BLOCK")
  /\ UNCHANGED <<now, run, reg, lease, token, scope, commands, proposals,
                 checkpoints>>

\* Any other reason leaves the node alone, an expired lease included.
execute_deny(n, key, tool) ==
  /\ admissible(n, key)
  /\ validate_node_runtime_state(n, status[n], lease[n]) # "SCOPE_INVALID"
  /\ node_allowed(n) => ~(recovery_contract_allows(n, tool) /\ tool \in reg[n].caps)
  /\ attempt(n, key, tool, "DENY", {})
  /\ UNCHANGED <<now, run, status, reg, lease, token, scope, commands, acks, proposals,
                 checkpoints>>
=============================================================================
