----------------------------- MODULE TraceFence -----------------------------
(***************************************************************************)
(* The control plane of one run: the services of spawn_service.py,         *)
(* control_service.py, action_gateway.py and lease_service.py acting on    *)
(* the same database, and the properties that make them correct.           *)
(***************************************************************************)
EXTENDS SpawnService, ControlService, ActionGateway, LeaseService

tick ==
  /\ now < Horizon
  /\ now' = now + 1
  /\ UNCHANGED <<tables, checkpoints>>

Init == create_run

Lifecycle ==
  \/ \E p \in tokens, child \in fresh :
       \/ \E caps \in SUBSET Capability : create_spawn(p, child, caps)
       \/ \E c \in DOMAIN commands : create_replacement(p, child, c)
  \/ \E n \in Node, t \in 1 .. now : \/ activate(n, t)
                                   \/ heartbeat_expired(n, t)
                                   \/ heartbeat_fenced(n, t)
                                   \/ heartbeat_renewed(n, t)
  \/ \E n \in Node : complete_node(n)
  \/ complete_root

Checkpoints ==
  \/ \E n \in Node : checkpoint_read(n)
  \/ \E r \in checkpoints : \/ checkpoint_decide(r) \/ checkpoint_write(r)
                            \/ checkpoint_abandon(r)

Control ==
  \/ \E issuer \in Issuer, key \in CommandKey, type \in CommandType, target \in Node,
        tool \in Tool \cup {NoTool}, q \in Proposal \cup {NoProposal} :
       issue_command(issuer, key, type, target, tool, q)
  \/ \E n \in Node, q \in Proposal, type \in CommandType, target \in Node :
       create_proposal(n, q, type, target)
  \/ \E q \in Proposal, decision \in {"ACCEPTED", "REJECTED"}, tool \in Tool \cup {NoTool} :
       review_proposal(q, decision, tool)

Gateway ==
  \E n \in tokens, key \in ActionKey, tool \in Tool :
    execute_allow(n, key, tool) \/ execute_deny_stale(n, key, tool) \/ execute_deny(n, key, tool)

Scanner == \E t \in 1 .. now : expire_stale_nodes(t)

Next == Lifecycle \/ Checkpoints \/ Control \/ Gateway \/ Scanner \/ tick

Spec == Init /\ [][Next]_vars

\* The clock advances and the supervised scanner loop keeps scanning with a current clock.
\* Nothing is assumed of the workers, the operator or requests in flight.
Fairness == WF_vars(tick) /\ WF_vars(expire_stale_nodes(now))

FairSpec == Spec /\ Fairness

-----------------------------------------------------------------------------
snapshot_scopes(n) == {e.scope : e \in reg[n].snapshot}

\* The abstract specification, over what the tables say of it.
fence_holds == [n \in Node |-> snapshot_scopes(n)]
fence_valid == {s \in Scope : scope[s].status = "ACTIVE"}
fence_effects == {<<a.node, a.key>> : a \in {b \in attempts : b.decision = "ALLOW"}}

F == INSTANCE Fence WITH Key <- ActionKey, holds <- fence_holds, valid <- fence_valid,
                         effects <- fence_effects

\* The control plane implements the fence: whatever registrations, activations,
\* checkpoints, expiries and retries interleave, an effect is committed only by a node
\* that holds no revoked scope, a revoked scope never comes back, and a child is
\* registered only below an unfenced parent.
ImplementsFence == F!FenceSpec

\* No side effect of a fenced node: every committed action precedes, in the journal,
\* every command on a scope its node inherits.  action_gateway.execute reads the live
\* scopes in the transaction that commits the tool's effect.
NoStaleCommit ==
  \A a \in attempts, c \in DOMAIN commands :
    a.decision = "ALLOW" /\ commands[c].scope \in snapshot_scopes(a.node) => a.place < c

\* One recovery per correction: however often replacements are created, activated or
\* retried for a command, at most one action of theirs is ever committed.
OneRecoveryPerCommand ==
  \A a, b \in attempts :
    /\ a.decision = "ALLOW" /\ b.decision = "ALLOW"
    /\ reg[a.node].cause = reg[b.node].cause /\ reg[a.node].cause # 0
    => a = b

\* A subtree command fences the target and its descendants, the ones registered later
\* and the replacement's line excepted or included by parent links alone, and no other
\* node: the snapshot every admission check reads is the chain of ancestors.
FencesExactlySubtree ==
  \A c \in DOMAIN commands, n \in registered :
    commands[c].type # "CANCEL_RUN" =>
      (commands[c].scope \in snapshot_scopes(n)
         <=> n = commands[c].target \/ is_descendant(commands[c].target, n))

\* Attribution is sound and, for blocked actions, complete: an acknowledgement names a
\* command that moved a scope its node inherited to the version the scope still has, and
\* a blocked stale action is matched with every command that fenced its node before it,
\* the earlier ones under a broader command included.
AttributionExact ==
  /\ \A k \in acks :
       /\ k.command \in DOMAIN commands
       /\ commands[k.command].scope \in snapshot_scopes(k.node)
       /\ scope[commands[k.command].scope].version = commands[k.command].version
  /\ \A a \in attempts : a.matched # {} =>
       a.matched = {c \in 1 .. a.place : commands[c].scope \in snapshot_scopes(a.node)}

\* A node recorded as cancelled or superseded really holds a scope that was: neither a
\* late checkpoint nor an expiry gives an unfenced node such a status.
FencedStatusJustified ==
  \A n \in Node : status[n] \in {"CANCELLED", "SUPERSEDED"} =>
    \E s \in snapshot_scopes(n) : scope[s].status = status[n]

\* The lifecycle column of a correction agrees with its replacement: only the node the
\* command names can hold a credential, and it does once the column left PENDING for
\* ACTIVE or COMPLETED.
ReplacementLifecycle ==
  /\ \A n \in tokens : reg[n].cause # 0 => commands[reg[n].cause].replacement = n
  /\ \A c \in DOMAIN commands : commands[c].replacement # NoNode =>
       /\ reg[commands[c].replacement].cause = c
       /\ (commands[c].replacement \in tokens) <=> (commands[c].rstatus \in {"ACTIVE", "COMPLETED"})
       /\ commands[c].rstatus = "ACTIVATION_EXPIRED" =>
            status[commands[c].replacement] = "LEASE_EXPIRED"

\* Authority only shrinks down the tree: the tool of a committed action is a capability
\* of the node and of each of its ancestors.
CommitWithinDelegation ==
  \A a \in attempts : a.decision = "ALLOW" =>
    \A m \in Node : m = a.node \/ is_descendant(m, a.node) => a.tool \in reg[m].caps

\* An accepted proposal produces at most one command, the one it froze.
ProposalUsedOnce ==
  \A c \in DOMAIN commands : commands[c].proposal # NoProposal =>
    LET q == proposals[commands[c].proposal] IN
    /\ q.status = "ACCEPTED" /\ q.command = c
    /\ <<q.target, q.type, q.tool>> = <<commands[c].target, commands[c].type, commands[c].tool>>

-----------------------------------------------------------------------------
\* A fenced node never gets a longer lease, whatever was waiting when it was fenced.
FencedLeaseNeverGrows ==
  [][\A n \in registered : ~scopes_allowed(n) => lease'[n] <= lease[n]]_vars

\* Once a run is over no command, side effect, registration or scope change is added to it.
TerminalRunFrozen ==
  [][run # "RUNNING" =>
       /\ run' = run /\ scope' = scope /\ reg' = reg
       /\ Len(commands') = Len(commands)
       /\ \A a \in attempts' \ attempts : a.decision = "DENY"]_vars

\* A node that reached an end status becomes live again only through a checkpoint that
\* read its row before that.
EndedNodeStaysEnded ==
  [][\A n \in Node :
       /\ status[n] \in EndStatus
       /\ \A r \in checkpoints : r.node = n => r.status \in EndStatus
       => status'[n] \in EndStatus]_vars

\* README.md: "expired leases cannot be revived".
ExpiredLeaseNotRevived ==
  [][\A n \in registered : lease[n] # 0 /\ lease[n] <= now => lease'[n] = lease[n]]_vars

-----------------------------------------------------------------------------
\* Every fenced node settles: from some point on its status is an end status, whether or
\* not its worker ever calls again.
FencedSettles ==
  \A n \in Node : [](status[n] # "NONE" /\ ~scopes_allowed(n) => <>[](status[n] \in EndStatus))

\* tests/concurrency/test_run_transitions.py: test_root_lease_expiry_terminalizes_running_run.
RootExpiryTerminatesRun ==
  status[Root] = "LEASE_EXPIRED" ~> run # "RUNNING"

\* An activation intent never stays open: the node activates or expires.
PendingResolved ==
  \A n \in Node : status[n] = "PENDING" ~> status[n] # "PENDING"
=============================================================================
