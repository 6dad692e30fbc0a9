-------------------------- MODULE TraceFenceProofs --------------------------
(***************************************************************************)
(* Theorems about TraceFence for every run, tool set, clock and quota:     *)
(* types, no stale commit and the refinement of Fence; then who is fenced, *)
(* what is attributed and what is delegated, the invariants that relate    *)
(* snapshots, commands, acknowledgements and proposals.                    *)
(***************************************************************************)
EXTENDS TraceFence, SequenceTheorems, TLAPS

-----------------------------------------------------------------------------
(* Type correctness *)

\* The initial tables of create_run have their types.
LEMMA TypeInit == Init => TypeOK
<1> SUFFICES ASSUME Init PROVE TypeOK
  OBVIOUS
<1> USE RegistryAssumption DEF Init, create_run
<1>1. now \in Nat /\ run \in RunStatus
  BY DEF RunStatus
<1>2. status \in [Node -> NodeStatus \cup {"NONE"}]
  BY DEF NodeStatus, LiveStatus
<1>3. reg \in [Node -> Registration]
  <2>1. Unregistered \in Registration
    BY DEF Unregistered, Registration
  <2>2. {[scope |-> RunScope, version |-> 1], [scope |-> Root, version |-> 1]}
           \in SUBSET [scope: Scope, version: Nat]
    BY DEF Scope
  <2>3. [Unregistered EXCEPT !.caps = RootCaps,
           !.snapshot = {[scope |-> RunScope, version |-> 1],
                         [scope |-> Root, version |-> 1]}] \in Registration
    BY <2>1, <2>2 DEF Registration
  <2> QED
    BY <2>1, <2>3
<1>4. lease \in [Node -> Nat] /\ token \in [Node -> Nat]
  OBVIOUS
<1>5. scope \in [Scope -> [version: Nat, status: ScopeStatus \cup {"ABSENT"}]]
  BY DEF Scope, ScopeStatus
<1>6. commands \in Seq(CommandRow)
  OBVIOUS
<1>7. NoProposalRow \in ProposalRow
  BY DEF NoProposalRow, ProposalRow, CommandType
<1> QED
  BY <1>1, <1>2, <1>3, <1>4, <1>5, <1>6, <1>7 DEF TypeOK

\* A function on an initial segment of the positive integers is a sequence.
LEMMA FunctionIsSeq ==
  ASSUME NEW S, NEW n \in Nat, NEW f \in [1 .. n -> S]
  PROVE  f \in Seq(S)
  BY SeqDef

\* Changing the lifecycle column of a command keeps the row well typed, and the table.
LEMMA RowUpdateType ==
  ASSUME NEW row \in CommandRow, NEW rs \in ReplacementStatus
  PROVE  [row EXCEPT !.rstatus = rs] \in CommandRow
  BY DEF CommandRow

\* So the table is still a sequence of command rows after the update of one lifecycle column.
LEMMA CommandUpdateType ==
  ASSUME NEW cs \in Seq(CommandRow), NEW c, NEW rs \in ReplacementStatus
  PROVE  [cs EXCEPT ![c].rstatus = rs] \in Seq(CommandRow)
<1>1. cs \in [1 .. Len(cs) -> CommandRow] /\ Len(cs) \in Nat
  BY LenProperties
<1>2. \A d \in 1 .. Len(cs) : [cs[d] EXCEPT !.rstatus = rs] \in CommandRow
  BY <1>1, RowUpdateType
<1>3. [cs EXCEPT ![c].rstatus = rs] \in [1 .. Len(cs) -> CommandRow]
  BY <1>1, <1>2
<1> QED
  BY <1>1, <1>3, FunctionIsSeq

\* The status a fenced node is given is a node status.
LEMMA EffectiveStatusType ==
  ASSUME NEW n PROVE effective_status(n) \in {"CANCELLED", "SUPERSEDED", "ACTIVE"}
  BY DEF effective_status

\* Recorded acknowledgements are rows of their table.
LEMMA AckRowsType ==
  ASSUME NEW n \in Node, NEW cs \in SUBSET Nat, NEW type \in AckType
  PROVE  ack_rows(n, cs, type) \in SUBSET [command: Nat, node: Node, type: AckType]
  BY DEF ack_rows

\* The commands a node's mismatches name are rows of control_commands.
LEMMA FencingCommandsType ==
  ASSUME TypeOK, NEW n
  PROVE  commands_for_scope_mismatches(n) \in SUBSET Nat
<1>1. DOMAIN commands = 1 .. Len(commands) /\ Len(commands) \in Nat
  BY LenProperties DEF TypeOK
<1> QED
  BY <1>1 DEF commands_for_scope_mismatches

\* What the scanner records for a set of expired nodes is well typed.
LEMMA ExpiryAcksType ==
  ASSUME TypeOK, NEW S \in SUBSET Node
  PROVE  lease_expiry_acks(S) \in SUBSET [command: Nat, node: Node, type: AckType]
<1> SUFFICES ASSUME NEW n \in S
             PROVE  ack_rows(n, commands_for_scope_mismatches(n), "LEASE_EXPIRED")
                      \in SUBSET [command: Nat, node: Node, type: AckType]
  BY DEF lease_expiry_acks
<1> QED
  BY FencingCommandsType, AckRowsType DEF AckType

\* A lease granted at an instant up to now ends at an instant.
LEMMA InstantType ==
  ASSUME now \in Nat, NEW t \in 1 .. now PROVE t + LeaseTTL \in Nat
<1>1. LeaseTTL \in Nat
  BY RegistryAssumption
<1>2. t \in Nat
  OBVIOUS
<1> QED
  BY <1>1, <1>2

\* A registration writes well-typed rows, for a node that is delegated what p has.
LEMMA SpawnType ==
  ASSUME TypeOK, NEW p \in Node, NEW child \in Node, NEW caps \in SUBSET Capability,
         NEW cause \in Nat, _create_spawn_locked(p, child, caps, cause)
  PROVE  /\ status' \in [Node -> NodeStatus \cup {"NONE"}]
         /\ scope' \in [Scope -> [version: Nat, status: ScopeStatus \cup {"ABSENT"}]]
         /\ reg' \in [Node -> Registration]
<1> USE DEF TypeOK
<1>1. status' \in [Node -> NodeStatus \cup {"NONE"}]
  BY DEF _create_spawn_locked, NodeStatus
<1>2. scope' \in [Scope -> [version: Nat, status: ScopeStatus \cup {"ABSENT"}]]
  BY DEF _create_spawn_locked, ScopeStatus
<1>3. reg' \in [Node -> Registration]
  <2> DEFINE row == [parent |-> p, generation |-> reg[p].generation + 1, caps |-> caps,
                     snapshot |-> reg[p].snapshot \cup {[scope |-> child, version |-> 1]},
                     cause |-> cause, expires |-> now + IntentTTL]
  <2>1. reg[p] \in Registration
    OBVIOUS
  <2>2. reg[p].snapshot \cup {[scope |-> child, version |-> 1]}
          \in SUBSET [scope: Scope, version: Nat]
    BY <2>1 DEF Registration, Scope
  <2>3. reg[p].generation + 1 \in Nat
    BY <2>1 DEF Registration
  <2>4. now + IntentTTL \in Nat
    BY RegistryAssumption
  <2>5. row \in Registration
    BY <2>2, <2>3, <2>4 DEF Registration
  <2> QED
    BY <2>5 DEF _create_spawn_locked
<1> QED
  BY <1>1, <1>2, <1>3

-----------------------------------------------------------------------------
\* A node that was never registered has no credential, no snapshot, no scope and no
\* checkpoint under way.
FreshIsBlank ==
  \A n \in Node : status[n] = "NONE" =>
    /\ token[n] = 0
    /\ reg[n].snapshot = {}
    /\ scope[n].status = "ABSENT"
    /\ \A r \in checkpoints : r.node # n

\* Every step keeps the tables well typed.
LEMMA TypeStep == TypeOK /\ FreshIsBlank /\ [Next]_vars => TypeOK'
<1> SUFFICES ASSUME TypeOK, FreshIsBlank, [Next]_vars PROVE TypeOK'
  OBVIOUS
<1> USE DEF TypeOK
<1>0. /\ commands \in [1 .. Len(commands) -> CommandRow]
      /\ Len(commands) \in Nat
      /\ DOMAIN commands = 1 .. Len(commands)
  BY LenProperties
<1>t. \A n \in tokens : n \in Node /\ status[n] \in NodeStatus
  BY DEF tokens, FreshIsBlank
<1>1. ASSUME NEW p \in tokens, NEW child \in fresh, NEW caps \in SUBSET Capability,
             create_spawn(p, child, caps)
      PROVE  TypeOK'
  <2>1. p \in Node /\ child \in Node
    BY <1>t DEF fresh
  <2>2. _create_spawn_locked(p, child, caps, 0)
    BY <1>1 DEF create_spawn
  <2>3. /\ status' \in [Node -> NodeStatus \cup {"NONE"}]
        /\ scope' \in [Scope -> [version: Nat, status: ScopeStatus \cup {"ABSENT"}]]
        /\ reg' \in [Node -> Registration]
    BY <2>1, <2>2, SpawnType
  <2> QED
    BY <1>1, <2>3 DEF create_spawn
<1>2. ASSUME NEW p \in tokens, NEW child \in fresh, NEW c \in DOMAIN commands,
             create_replacement(p, child, c)
      PROVE  TypeOK'
  <2>1. p \in Node /\ child \in Node /\ c \in Nat /\ commands[c] \in CommandRow
    BY <1>0, <1>t DEF fresh
  <2>2. capabilities_exact(c) \in SUBSET Capability
    BY <2>1 DEF capabilities_exact, CommandRow, Capability
  <2>3. _create_spawn_locked(p, child, capabilities_exact(c), c)
    BY <1>2 DEF create_replacement
  <2>4. /\ status' \in [Node -> NodeStatus \cup {"NONE"}]
        /\ scope' \in [Scope -> [version: Nat, status: ScopeStatus \cup {"ABSENT"}]]
        /\ reg' \in [Node -> Registration]
    BY <2>1, <2>2, <2>3, SpawnType
  <2>5. commands' \in Seq(CommandRow)
    <3>1. [commands[c] EXCEPT !.replacement = child, !.rstatus = "PENDING"] \in CommandRow
      BY <2>1 DEF CommandRow, ReplacementStatus
    <3>2. commands' = [commands EXCEPT ![c] =
                         [commands[c] EXCEPT !.replacement = child, !.rstatus = "PENDING"]]
      BY <1>0, <1>2 DEF create_replacement
    <3> QED
      BY <1>0, <3>1, <3>2, ExceptSeq
  <2> QED
    BY <1>2, <2>4, <2>5 DEF create_replacement
<1>3. ASSUME NEW n \in Node, NEW t \in 1 .. now, activate(n, t)
      PROVE  TypeOK'
  <2>1. commands' \in Seq(CommandRow)
    BY <1>3, CommandUpdateType DEF activate, set_replacement, ReplacementStatus
  <2>2. t + LeaseTTL \in Nat
    BY InstantType
  <2>3. status' \in [Node -> NodeStatus \cup {"NONE"}]
    BY <1>3 DEF activate, NodeStatus, LiveStatus
  <2> QED
    BY <1>3, <2>1, <2>2, <2>3 DEF activate
<1>4. ASSUME NEW n \in Node, NEW t \in 1 .. now, heartbeat_expired(n, t)
      PROVE  TypeOK'
  <2>1. lease_expiry_acks({n}) \in SUBSET [command: Nat, node: Node, type: AckType]
    BY ExpiryAcksType
  <2>2. status' \in [Node -> NodeStatus \cup {"NONE"}]
    BY <1>4 DEF heartbeat_expired, NodeStatus, EndStatus
  <2> QED
    BY <1>4, <2>1, <2>2 DEF heartbeat_expired
<1>5. ASSUME NEW n \in Node, NEW t \in 1 .. now, heartbeat_fenced(n, t)
      PROVE  TypeOK'
  <2>1. ack_rows(n, commands_for_scope_mismatches(n), "COOPERATIVE")
          \in SUBSET [command: Nat, node: Node, type: AckType]
    BY FencingCommandsType, AckRowsType DEF AckType
  <2>2. status' \in [Node -> NodeStatus \cup {"NONE"}]
    BY <1>5, EffectiveStatusType DEF heartbeat_fenced, NodeStatus, EndStatus, LiveStatus
  <2> QED
    BY <1>5, <2>1, <2>2 DEF heartbeat_fenced
<1>6. ASSUME NEW n \in Node, NEW t \in 1 .. now, heartbeat_renewed(n, t)
      PROVE  TypeOK'
  <2>1. t + LeaseTTL \in Nat
    BY InstantType
  <2> QED
    BY <1>6, <2>1 DEF heartbeat_renewed
<1>7. ASSUME NEW n \in Node, complete_node(n)
      PROVE  TypeOK'
  <2>1. commands' \in Seq(CommandRow)
    BY <1>7, CommandUpdateType DEF complete_node, set_replacement, ReplacementStatus
  <2>2. status' \in [Node -> NodeStatus \cup {"NONE"}]
    BY <1>7 DEF complete_node, NodeStatus, EndStatus
  <2> QED
    BY <1>7, <2>1, <2>2 DEF complete_node
<1>8. CASE complete_root
  <2> DEFINE late == {n \in registered \ {Root} : lapsed(n)}
  <2>1. lease_expiry_acks(late) \in SUBSET [command: Nat, node: Node, type: AckType]
    BY ExpiryAcksType DEF registered
  <2>2. acks' = acks \cup lease_expiry_acks(late)
    BY <1>8 DEF complete_root
  <2>3. status' \in [Node -> NodeStatus \cup {"NONE"}]
    BY <1>8 DEF complete_root, NodeStatus, EndStatus
  <2>4. run' \in RunStatus
    BY <1>8 DEF complete_root, RunStatus
  <2> HIDE DEF late
  <2> QED
    BY <1>8, <2>1, <2>2, <2>3, <2>4 DEF complete_root
<1>9. ASSUME NEW n \in Node, checkpoint_read(n)
      PROVE  TypeOK'
  <2>1. [node |-> n, status |-> status[n], lease |-> lease[n], to |-> "UNDECIDED", acks |-> {}]
          \in CheckpointRow
    BY <1>9, <1>t DEF checkpoint_read, CheckpointRow
  <2> QED
    BY <1>9, <2>1 DEF checkpoint_read, tables
<1>10. ASSUME NEW r \in checkpoints, checkpoint_decide(r)
       PROVE  TypeOK'
  <2> DEFINE found == ack_rows(r.node, commands_for_scope_mismatches(r.node), "COOPERATIVE")
             decided(to, new) == [r EXCEPT !.to = to, !.acks = new]
  <2>1. r \in CheckpointRow /\ r.node \in Node
    BY DEF CheckpointRow
  <2>2. found \in SUBSET [command: Nat, node: Node, type: AckType]
    BY <2>1, FencingCommandsType, AckRowsType DEF AckType
  <2> HIDE DEF found
  <2>3. \A to \in NodeStatus, new \in SUBSET [command: Nat, node: Node, type: AckType] :
          decided(to, new) \in CheckpointRow
    BY <2>1 DEF CheckpointRow
  <2>4. {"WAITING", "LEASE_EXPIRED", effective_status(r.node)} \subseteq NodeStatus
    BY EffectiveStatusType DEF NodeStatus, LiveStatus, EndStatus
  <2>5. /\ decided("WAITING", {}) \in CheckpointRow
        /\ decided("LEASE_EXPIRED", {}) \in CheckpointRow
        /\ decided(effective_status(r.node), found \ acks) \in CheckpointRow
    BY <2>2, <2>3, <2>4
  <2>6. \/ checkpoints' = (checkpoints \ {r}) \cup {decided("WAITING", {})}
        \/ checkpoints' = (checkpoints \ {r}) \cup {decided("LEASE_EXPIRED", {})}
        \/ checkpoints' = (checkpoints \ {r}) \cup {decided(effective_status(r.node), found \ acks)}
        \/ checkpoints' = checkpoints \ {r}
    BY <1>10 DEF checkpoint_decide, found
  <2> HIDE DEF decided
  <2>7. checkpoints' \in SUBSET CheckpointRow
    BY <2>5, <2>6
  <2> QED
    BY <1>10, <2>7 DEF checkpoint_decide, tables
<1>11. ASSUME NEW r \in checkpoints, checkpoint_write(r)
       PROVE  TypeOK'
  <2>1. /\ r.node \in Node /\ r.to \in NodeStatus
        /\ r.acks \in SUBSET [command: Nat, node: Node, type: AckType]
    BY <1>11 DEF CheckpointRow, checkpoint_write
  <2>2. lease_expiry_acks({r.node}) \in SUBSET [command: Nat, node: Node, type: AckType]
    BY <2>1, ExpiryAcksType
  <2>3. acks' \in SUBSET [command: Nat, node: Node, type: AckType]
    BY <1>11, <2>1, <2>2 DEF checkpoint_write
  <2>4. status' \in [Node -> NodeStatus \cup {"NONE"}]
    BY <1>11, <2>1 DEF checkpoint_write
  <2> QED
    BY <1>11, <2>3, <2>4 DEF checkpoint_write
<1>12. ASSUME NEW r \in checkpoints, checkpoint_abandon(r)
       PROVE  TypeOK'
  BY <1>12 DEF checkpoint_abandon, tables
<1>13. ASSUME NEW issuer \in Issuer, NEW key \in CommandKey, NEW type \in CommandType,
              NEW target \in Node, NEW tool \in Tool \cup {NoTool},
              NEW q \in Proposal \cup {NoProposal},
              issue_command(issuer, key, type, target, tool, q)
       PROVE  TypeOK'
  <2> DEFINE s == target_scope(type, target)
             row == command_row(issuer, key, type, target, tool, q)
  <2>1. s \in Scope /\ scope[s].version + 1 \in Nat
    BY DEF target_scope, Scope
  <2>2. replacement_parent(target) \in Node \cup {NoNode}
    BY RegistryAssumption DEF replacement_parent, Registration
  <2>3. row \in CommandRow
    BY <2>1, <2>2 DEF command_row, CommandRow, ReplacementStatus
  <2> HIDE DEF row
  <2>4. commands' = Append(commands, row)
    BY <1>13 DEF issue_command, row
  <2>5. commands' \in Seq(CommandRow)
    BY <2>3, <2>4
  <2>6. scope' \in [Scope -> [version: Nat, status: ScopeStatus \cup {"ABSENT"}]]
    BY <1>13, <2>1 DEF issue_command, invalidate_scope, ScopeStatus
  <2>7. run' \in RunStatus
    BY <1>13 DEF issue_command, RunStatus
  <2>8. proposals' \in [Proposal -> ProposalRow]
    <3>1. CASE q = NoProposal
      BY <1>13, <3>1 DEF issue_command
    <3>2. CASE q # NoProposal
      <4>0. proposals[q] \in ProposalRow /\ Len(commands) + 1 \in Nat
        BY <1>0, <3>2
      <4>1. [proposals[q] EXCEPT !.command = Len(commands) + 1] \in ProposalRow
        BY <4>0 DEF ProposalRow
      <4> QED
        BY <1>13, <3>2, <4>1 DEF issue_command
    <3> QED
      BY <3>1, <3>2
  <2> HIDE DEF s
  <2> QED
    BY <1>13, <2>5, <2>6, <2>7, <2>8 DEF issue_command
<1>14. ASSUME NEW n \in Node, NEW q \in Proposal, NEW type \in CommandType, NEW target \in Node,
              create_proposal(n, q, type, target)
       PROVE  TypeOK'
  <2>1. [NoProposalRow EXCEPT !.status = "PENDING", !.type = type, !.target = target]
          \in ProposalRow
    BY DEF NoProposalRow, ProposalRow
  <2> QED
    BY <1>14, <2>1 DEF create_proposal
<1>15. ASSUME NEW q \in Proposal, NEW decision \in {"ACCEPTED", "REJECTED"},
              NEW tool \in Tool \cup {NoTool}, review_proposal(q, decision, tool)
       PROVE  TypeOK'
  <2>1. [proposals[q] EXCEPT !.status = decision, !.tool = tool] \in ProposalRow
    BY DEF ProposalRow
  <2> QED
    BY <1>15, <2>1 DEF review_proposal
<1>16. ASSUME NEW n \in tokens, NEW key \in ActionKey, NEW tool \in Tool,
              execute_allow(n, key, tool) \/ execute_deny(n, key, tool)
       PROVE  TypeOK'
  <2>1. \A d \in {"ALLOW", "DENY"} :
          [node |-> n, key |-> key, tool |-> tool, decision |-> d, matched |-> {},
           place |-> Len(commands)] \in AttemptRow
    BY <1>0, <1>t DEF AttemptRow
  <2> QED
    BY <1>16, <2>1 DEF execute_allow, execute_deny, attempt
<1>17. ASSUME NEW n \in tokens, NEW key \in ActionKey, NEW tool \in Tool,
              execute_deny_stale(n, key, tool)
       PROVE  TypeOK'
  <2> DEFINE fencing == commands_for_scope_mismatches(n)
  <2>1. fencing \in SUBSET Nat
    BY FencingCommandsType
  <2>2. [node |-> n, key |-> key, tool |-> tool, decision |-> "DENY", matched |-> fencing,
         place |-> Len(commands)] \in AttemptRow
    BY <1>0, <1>t, <2>1 DEF AttemptRow
  <2>3. ack_rows(n, fencing, "GATEWAY_BLOCK") \in SUBSET [command: Nat, node: Node, type: AckType]
    BY <1>t, <2>1, AckRowsType DEF AckType
  <2>4. status' \in [Node -> NodeStatus \cup {"NONE"}]
    BY <1>17, EffectiveStatusType DEF execute_deny_stale, NodeStatus, EndStatus, LiveStatus
  <2> QED
    BY <1>17, <2>2, <2>3, <2>4 DEF execute_deny_stale, attempt
<1>18. ASSUME NEW t \in 1 .. now, expire_stale_nodes(t)
       PROVE  TypeOK'
  <2> DEFINE stale == stale_nodes(t)
  <2>1. lease_expiry_acks(stale) \in SUBSET [command: Nat, node: Node, type: AckType]
    BY ExpiryAcksType DEF stale_nodes
  <2>2. status' \in [Node -> NodeStatus \cup {"NONE"}]
    BY <1>18 DEF expire_stale_nodes, NodeStatus, EndStatus
  <2>3. run' \in RunStatus
    BY <1>18 DEF expire_stale_nodes, RunStatus
  <2>4. commands' \in Seq(CommandRow)
    <3>0. "ACTIVATION_EXPIRED" \in ReplacementStatus
      BY DEF ReplacementStatus
    <3>1. \A c \in 1 .. Len(commands) :
            [commands[c] EXCEPT !.rstatus = "ACTIVATION_EXPIRED"] \in CommandRow
      BY <1>0, <3>0, RowUpdateType
    <3>2. commands' \in [1 .. Len(commands) -> CommandRow]
      BY <1>0, <1>18, <3>1 DEF expire_stale_nodes
    <3> QED
      BY <1>0, <3>2, FunctionIsSeq
  <2> HIDE DEF stale
  <2>5. acks' = acks \cup lease_expiry_acks(stale)
    BY <1>18 DEF expire_stale_nodes, stale
  <2> QED
    BY <1>18, <2>1, <2>2, <2>3, <2>4, <2>5 DEF expire_stale_nodes
<1>19. CASE tick
  BY <1>19 DEF tick, tables
<1>20. CASE UNCHANGED vars
  BY <1>20 DEF vars, tables
<1> QED
  BY <1>1, <1>2, <1>3, <1>4, <1>5, <1>6, <1>7, <1>8, <1>9, <1>10, <1>11, <1>12, <1>13,
     <1>14, <1>15, <1>16, <1>17, <1>18, <1>19, <1>20
  DEF Next, Lifecycle, Checkpoints, Control, Gateway, Scanner

-----------------------------------------------------------------------------
(* What a step may do to the tables the fence is made of.                  *)

\* Two versions of a command row that differ at most in the replacement and its status.
SameOrder(r, s) ==
  /\ r.scope = s.scope /\ r.version = s.version
  /\ r.type = s.type /\ r.target = s.target /\ r.tool = s.tool /\ r.proposal = s.proposal

\* No command is added and what a command orders does not change.
CommandsKept ==
  /\ Len(commands') = Len(commands)
  /\ \A c \in 1 .. Len(commands) : SameOrder(commands'[c], commands[c])

\* create_spawn and create_replacement
Registers(p, child, caps, cause) ==
  /\ p \in tokens
  /\ status[child] = "NONE"
  /\ scopes_allowed(p)
  /\ caps \subseteq reg[p].caps
  /\ _create_spawn_locked(p, child, caps, cause)
  /\ CommandsKept
  /\ UNCHANGED <<token, acks, attempts, proposals, checkpoints>>

\* issue_command
Issues(s, row) ==
  /\ scope[s].status = "ACTIVE"
  /\ \E st \in {"CANCELLED", "SUPERSEDED"} :
       scope' = [scope EXCEPT ![s] = [version |-> scope[s].version + 1, status |-> st]]
  /\ row.scope = s
  /\ row.version = scope[s].version + 1
  /\ status[row.target] # "NONE"
  /\ s = target_scope(row.type, row.target)
  /\ proposal_authorizes(row.proposal, row.type, row.target, row.tool)
  /\ commands' = Append(commands, row)
  /\ \A q \in Proposal :
       proposals'[q] = IF q = row.proposal THEN [proposals[q] EXCEPT !.command = Len(commands) + 1]
                       ELSE proposals[q]
  /\ UNCHANGED <<status, reg, token, acks, attempts, checkpoints>>

\* execute with decision ALLOW
Commits(n, key, tool) ==
  /\ n \in tokens
  /\ scopes_allowed(n)
  /\ tool \in reg[n].caps
  /\ recovery_contract_allows(n, tool)
  /\ \A a \in attempts : a.node # n \/ a.key # key
  /\ attempt(n, key, tool, "ALLOW", {})
  /\ UNCHANGED <<status, reg, scope, token, commands, acks, proposals, checkpoints>>

\* What a step blames on commands is what the mismatches of the node show, or was so when
\* the checkpoint that blames it was decided.
Attributes ==
  /\ attempts \subseteq attempts'
  /\ \A a \in attempts' \ attempts :
       /\ a.decision = "DENY" /\ a.node \in tokens /\ a.place = Len(commands)
       /\ a.matched \in {{}, commands_for_scope_mismatches(a.node)}
  /\ \A k \in acks' \ acks : \/ k.command \in commands_for_scope_mismatches(k.node)
                             \/ \E r \in checkpoints : k \in r.acks
  /\ \A r \in checkpoints' \ checkpoints : \A k \in r.acks :
       k.command \in commands_for_scope_mismatches(k.node)

\* Everything else
Quiet ==
  /\ UNCHANGED <<reg, scope>>
  /\ CommandsKept
  /\ Attributes
  /\ \A q \in Proposal : proposals[q].status = "ACCEPTED" => proposals'[q] = proposals[q]
  /\ \A n \in Node : status[n] # "NONE" <=> status'[n] # "NONE"
  /\ \A n \in Node : status[n] = "NONE" => token'[n] = token[n]
  /\ \A r \in checkpoints' : r.node \in tokens \/ \E q \in checkpoints : q.node = r.node

\* A command row orders the same when its lifecycle column changes.
LEMMA RowUpdateKeeps ==
  ASSUME NEW row \in CommandRow, NEW rs
  PROVE  SameOrder([row EXCEPT !.rstatus = rs], row)
  BY DEF CommandRow, SameOrder

\* What is recorded for a node and a set of commands is about that node and those commands.
LEMMA AckRowsMembers ==
  ASSUME NEW n, NEW cs, NEW type, NEW k \in ack_rows(n, cs, type)
  PROVE  k.node = n /\ k.command \in cs /\ k.type = type
  BY DEF ack_rows

\* So every acknowledgement of an expiry names a command the node's mismatches show.
LEMMA ExpiryAcksMembers ==
  ASSUME NEW S, NEW k \in lease_expiry_acks(S)
  PROVE  k.command \in commands_for_scope_mismatches(k.node)
<1>1. PICK n \in S : k \in ack_rows(n, commands_for_scope_mismatches(n), "LEASE_EXPIRED")
  BY DEF lease_expiry_acks
<1> QED
  BY <1>1, AckRowsMembers

\* set_replacement changes the lifecycle column alone: no command orders anything else.
LEMMA SetReplacementKeeps ==
  ASSUME TypeOK, NEW n, NEW rs, set_replacement(n, rs)
  PROVE  CommandsKept
<1>1. /\ commands \in [1 .. Len(commands) -> CommandRow] /\ Len(commands) \in Nat
      /\ DOMAIN commands = 1 .. Len(commands)
  BY LenProperties DEF TypeOK
<1>2. CASE commands' = commands
  BY <1>2 DEF CommandsKept, SameOrder
<1>3. CASE commands' = [commands EXCEPT ![reg[n].cause].rstatus = rs]
  <2>1. DOMAIN commands' = 1 .. Len(commands)
    BY <1>1, <1>3
  <2>2. \A c \in 1 .. Len(commands) :
          commands'[c] = commands[c] \/ commands'[c] = [commands[c] EXCEPT !.rstatus = rs]
    BY <1>1, <1>3
  <2>3. Len(commands') = Len(commands)
    <3>1. commands' \in [1 .. Len(commands) -> {commands'[c] : c \in 1 .. Len(commands)}]
      BY <1>1, <1>3
    <3> QED
      BY <1>1, <2>1, <3>1, FunctionIsSeq, LenProperties
  <2>4. \A c \in 1 .. Len(commands) :
          SameOrder([commands[c] EXCEPT !.rstatus = rs], commands[c])
    BY <1>1, RowUpdateKeeps
  <2>5. \A c \in 1 .. Len(commands) : SameOrder(commands[c], commands[c])
    BY DEF SameOrder
  <2>6. \A c \in 1 .. Len(commands) : SameOrder(commands'[c], commands[c])
    BY <2>2, <2>4, <2>5
  <2> QED
    BY <2>3, <2>6 DEF CommandsKept
<1> QED
  BY <1>2, <1>3 DEF set_replacement

\* Every step registers a node, issues a command, commits an action, or leaves alone the
\* scopes, the snapshots, the commands and the committed actions.
LEMMA StepKinds ==
  ASSUME TypeOK, FreshIsBlank, [Next]_vars
  PROVE  \/ \E p, child \in Node, caps \in SUBSET Capability, cause \in Nat :
              Registers(p, child, caps, cause)
         \/ \E s \in Scope, row \in CommandRow : Issues(s, row)
         \/ \E n \in Node, key \in ActionKey, tool \in Tool : Commits(n, key, tool)
         \/ Quiet
<1> DEFINE Kinds ==
         \/ \E p, child \in Node, caps \in SUBSET Capability, cause \in Nat :
              Registers(p, child, caps, cause)
         \/ \E s \in Scope, row \in CommandRow : Issues(s, row)
         \/ \E n \in Node, key \in ActionKey, tool \in Tool : Commits(n, key, tool)
         \/ Quiet
<1> SUFFICES Kinds
  OBVIOUS
<1>0. /\ commands \in [1 .. Len(commands) -> CommandRow] /\ Len(commands) \in Nat
      /\ DOMAIN commands = 1 .. Len(commands)
  BY LenProperties DEF TypeOK
<1>t. \A n \in tokens : n \in Node /\ status[n] \in NodeStatus
  BY DEF tokens, FreshIsBlank, TypeOK
<1>n. "NONE" \notin NodeStatus
  BY DEF NodeStatus, LiveStatus, EndStatus
<1>a. \A n : node_allowed(n) => scopes_allowed(n)
  BY DEF node_allowed, validate_node_runtime_state
<1>k. commands' = commands => CommandsKept
  BY DEF CommandsKept, SameOrder
<1>b. UNCHANGED <<acks, attempts, checkpoints>> => Attributes
  BY DEF Attributes
<1>l. /\ LiveStatus \cup EndStatus \cup {"PENDING"} = NodeStatus
      /\ LiveStatus = {"ACTIVE", "WAITING"}
  BY DEF NodeStatus, LiveStatus
<1>1. ASSUME NEW p \in tokens, NEW child \in fresh, NEW caps \in SUBSET Capability,
             create_spawn(p, child, caps)
      PROVE  Kinds
  <2>1. p \in Node /\ child \in Node /\ status[child] = "NONE"
    BY <1>t DEF fresh, registered
  <2>2. Registers(p, child, caps, 0)
    BY <1>1, <1>a, <1>k, <2>1 DEF create_spawn, Registers, _validate_capability_delegation
  <2> QED
    BY <2>1, <2>2
<1>2. ASSUME NEW p \in tokens, NEW child \in fresh, NEW c \in DOMAIN commands,
             create_replacement(p, child, c)
      PROVE  Kinds
  <2>1. /\ p \in Node /\ child \in Node /\ c \in 1 .. Len(commands)
        /\ commands[c] \in CommandRow /\ status[child] = "NONE"
    BY <1>0, <1>t DEF fresh, registered
  <2>2. capabilities_exact(c) \in SUBSET Capability
    BY <2>1 DEF capabilities_exact, CommandRow, Capability
  <2>3. CommandsKept
    <3> DEFINE row == [commands[c] EXCEPT !.replacement = child, !.rstatus = "PENDING"]
    <3>1. row \in CommandRow /\ SameOrder(row, commands[c])
      BY <2>1 DEF CommandRow, ReplacementStatus, SameOrder
    <3>2. commands' = [commands EXCEPT ![c] = row]
      BY <1>0, <1>2, <2>1 DEF create_replacement
    <3>3. commands \in Seq(CommandRow)
      BY DEF TypeOK
    <3> HIDE DEF row
    <3>4. /\ Len(commands') = Len(commands)
          /\ \A d \in 1 .. Len(commands) : commands'[d] = IF d = c THEN row ELSE commands[d]
      BY <2>1, <3>1, <3>2, <3>3, ExceptSeq
    <3>5. \A d \in 1 .. Len(commands) : SameOrder(commands[d], commands[d])
      BY DEF SameOrder
    <3> QED
      BY <3>1, <3>4, <3>5 DEF CommandsKept
  <2>4. Registers(p, child, capabilities_exact(c), c)
    BY <1>2, <1>a, <2>1, <2>3
    DEF create_replacement, Registers, _validate_capability_delegation
  <2> QED
    BY <2>1, <2>2, <2>4
<1>3. ASSUME NEW n \in Node, NEW t \in 1 .. now, activate(n, t)
      PROVE  Kinds
  <2>1. CommandsKept
    BY <1>3, SetReplacementKeeps DEF activate
  <2> QED
    BY <1>3, <1>b, <1>l, <2>1 DEF activate, Quiet, registered, TypeOK
<1>4. ASSUME NEW n \in Node, NEW t \in 1 .. now,
             heartbeat_expired(n, t) \/ heartbeat_fenced(n, t) \/ heartbeat_renewed(n, t)
      PROVE  Kinds
  <2>1. \A k \in acks' \ acks : k.command \in commands_for_scope_mismatches(k.node)
    BY <1>4, ExpiryAcksMembers, AckRowsMembers
    DEF heartbeat_expired, heartbeat_fenced, heartbeat_renewed
  <2>2. Attributes
    BY <1>4, <2>1 DEF Attributes, heartbeat_expired, heartbeat_fenced, heartbeat_renewed
  <2> QED
    BY <1>4, <1>k, <1>l, <1>n, <2>2, EffectiveStatusType
    DEF heartbeat_expired, heartbeat_fenced, heartbeat_renewed, heartbeat_live, Quiet, TypeOK
<1>5. ASSUME NEW n \in Node, complete_node(n)
      PROVE  Kinds
  <2>1. CommandsKept
    BY <1>5, SetReplacementKeeps DEF complete_node
  <2> QED
    BY <1>5, <1>b, <1>n, <1>t, <2>1 DEF complete_node, Quiet, TypeOK
<1>6. CASE complete_root
  <2>1. PICK late : acks' = acks \cup lease_expiry_acks(late)
    BY <1>6 DEF complete_root
  <2>2. Attributes
    BY <1>6, <2>1, ExpiryAcksMembers DEF Attributes, complete_root
  <2> QED
    BY <1>6, <1>k, <1>l, <2>2
    DEF complete_root, Quiet, TypeOK, registered, node_allowed, validate_node_runtime_state
<1>7. ASSUME NEW r \in checkpoints, checkpoint_write(r)
      PROVE  Kinds
  <2>1. r.to \in NodeStatus /\ r.node \in Node /\ status[r.node] # "NONE"
    BY <1>7 DEF checkpoint_write, CheckpointRow, FreshIsBlank, TypeOK
  <2> QED
    <3>1. \A k \in acks' \ acks : \/ k.command \in commands_for_scope_mismatches(k.node)
                                 \/ k \in r.acks
      BY <1>7, ExpiryAcksMembers DEF checkpoint_write
    <3>2. Attributes
      BY <1>7, <3>1 DEF Attributes, checkpoint_write
    <3> QED
      BY <1>7, <1>k, <1>n, <2>1, <3>2 DEF checkpoint_write, Quiet, TypeOK
<1>8. ASSUME UNCHANGED tables,
             \A r \in checkpoints' \ checkpoints : \A k \in r.acks :
               k.command \in commands_for_scope_mismatches(k.node),
             \A r \in checkpoints' : r.node \in tokens \/ \E q \in checkpoints : q.node = r.node
      PROVE  Kinds
  <2>1. Attributes
    BY <1>8 DEF tables, Attributes
  <2> QED
    BY <1>8, <1>k, <2>1 DEF tables, Quiet
<1>9. ASSUME NEW issuer \in Issuer, NEW key \in CommandKey, NEW type \in CommandType,
             NEW target \in Node, NEW tool \in Tool \cup {NoTool},
             NEW q \in Proposal \cup {NoProposal},
             issue_command(issuer, key, type, target, tool, q)
      PROVE  Kinds
  <2> DEFINE s == target_scope(type, target)
             row == command_row(issuer, key, type, target, tool, q)
  <2>1. s \in Scope /\ scope[s].version + 1 \in Nat
    BY DEF target_scope, Scope, TypeOK
  <2>2. replacement_parent(target) \in Node \cup {NoNode}
    BY RegistryAssumption DEF replacement_parent, Registration, TypeOK
  <2>3. row \in CommandRow /\ row.scope = s /\ row.version = scope[s].version + 1
    BY <2>1, <2>2 DEF command_row, CommandRow, ReplacementStatus
  <2>4. /\ scope[s].status = "ACTIVE"
        /\ commands' = Append(commands, row)
        /\ UNCHANGED <<status, reg, token, acks, attempts, checkpoints>>
        /\ invalidate_scope(s, type)
    BY <1>9 DEF issue_command
  <2>6. /\ row.type = type /\ row.target = target /\ row.tool = tool /\ row.proposal = q
        /\ s = target_scope(type, target)
    BY DEF command_row
  <2>7. \A p \in Proposal :
          proposals'[p] = IF p = q THEN [proposals[p] EXCEPT !.command = Len(commands) + 1]
                          ELSE proposals[p]
    BY <1>9, RegistryAssumption DEF issue_command, TypeOK
  <2>8. status[target] # "NONE" /\ proposal_authorizes(q, type, target, tool)
    BY <1>9 DEF issue_command, registered
  <2> HIDE DEF s, row
  <2>5. Issues(s, row)
    BY <2>3, <2>4, <2>6, <2>7, <2>8 DEF Issues, invalidate_scope
  <2> QED
    BY <2>1, <2>3, <2>5
<1>10. ASSUME NEW n \in Node, NEW q \in Proposal, NEW type \in CommandType, NEW target \in Node,
              create_proposal(n, q, type, target)
       PROVE  Kinds
  BY <1>10, <1>b, <1>k DEF create_proposal, Quiet, TypeOK
<1>11. ASSUME NEW q \in Proposal, NEW decision \in {"ACCEPTED", "REJECTED"},
              NEW tool \in Tool \cup {NoTool}, review_proposal(q, decision, tool)
       PROVE  Kinds
  BY <1>11, <1>b, <1>k DEF review_proposal, Quiet, TypeOK
<1>12. ASSUME NEW n \in tokens, NEW key \in ActionKey, NEW tool \in Tool,
              execute_allow(n, key, tool)
       PROVE  Kinds
  <2>1. Commits(n, key, tool)
    BY <1>12, <1>a DEF execute_allow, admissible, Commits
  <2> QED
    BY <1>t, <2>1
<1>13. ASSUME NEW n \in tokens, NEW key \in ActionKey, NEW tool \in Tool,
              execute_deny_stale(n, key, tool) \/ execute_deny(n, key, tool)
       PROVE  Kinds
  <2>1. PICK m \in {{}, commands_for_scope_mismatches(n)} : attempt(n, key, tool, "DENY", m)
    BY <1>13 DEF execute_deny_stale, execute_deny
  <2>2. /\ attempts \subseteq attempts'
        /\ \A a \in attempts' \ attempts :
             a.decision = "DENY" /\ a.node = n /\ a.place = Len(commands) /\ a.matched = m
    BY <2>1 DEF attempt
  <2>5. \A k \in acks' \ acks : k.command \in commands_for_scope_mismatches(k.node)
    BY <1>13, AckRowsMembers DEF execute_deny_stale, execute_deny
  <2>6. Attributes
    BY <1>13, <2>1, <2>2, <2>5 DEF Attributes, execute_deny_stale, execute_deny
  <2>7. UNCHANGED <<proposals, checkpoints>>
    BY <1>13 DEF execute_deny_stale, execute_deny
  <2>3. UNCHANGED <<reg, scope, token, commands>>
    BY <1>13 DEF execute_deny_stale, execute_deny
  <2>4. \A m2 \in Node : status[m2] # "NONE" <=> status'[m2] # "NONE"
    <3>1. status[n] # "NONE"
      BY <1>n, <1>t
    <3>2. effective_status(n) # "NONE"
      BY EffectiveStatusType
    <3>3. status' = status \/ status' = [status EXCEPT ![n] = effective_status(n)]
      BY <1>13 DEF execute_deny_stale, execute_deny
    <3> QED
      BY <3>1, <3>2, <3>3 DEF TypeOK
  <2> QED
    BY <1>k, <1>n, <1>t, <2>3, <2>4, <2>6, <2>7 DEF Quiet
<1>14. ASSUME NEW t \in 1 .. now, expire_stale_nodes(t)
       PROVE  Kinds
  <2>1. CommandsKept
    <3>1. \A c \in 1 .. Len(commands) :
            \/ commands'[c] = commands[c]
            \/ commands'[c] = [commands[c] EXCEPT !.rstatus = "ACTIVATION_EXPIRED"]
      BY <1>0, <1>14 DEF expire_stale_nodes
    <3>2. commands' \in [1 .. Len(commands) -> {commands'[c] : c \in 1 .. Len(commands)}]
      BY <1>0, <1>14 DEF expire_stale_nodes
    <3>3. Len(commands') = Len(commands)
      BY <1>0, <3>2, FunctionIsSeq, LenProperties
    <3>4. \A c \in 1 .. Len(commands) :
            /\ SameOrder([commands[c] EXCEPT !.rstatus = "ACTIVATION_EXPIRED"], commands[c])
            /\ SameOrder(commands[c], commands[c])
      BY <1>0, RowUpdateKeeps DEF SameOrder
    <3> QED
      BY <3>1, <3>3, <3>4 DEF CommandsKept
  <2>2. acks' = acks \cup lease_expiry_acks(stale_nodes(t))
    BY <1>14 DEF expire_stale_nodes
  <2>3. Attributes
    BY <1>14, <2>2, ExpiryAcksMembers DEF expire_stale_nodes, Attributes
  <2> QED
    BY <1>14, <1>l, <2>1, <2>3 DEF expire_stale_nodes, stale_nodes, Quiet, TypeOK
<1>15. CASE tick \/ UNCHANGED vars \/ \E r \in checkpoints : checkpoint_abandon(r)
  BY <1>8, <1>15 DEF tick, vars, checkpoint_abandon
<1>16. ASSUME NEW n \in Node, checkpoint_read(n)
       PROVE  Kinds
  <2>1. \A r \in checkpoints' \ checkpoints : r.acks = {} /\ r.node \in tokens
    BY <1>16 DEF checkpoint_read
  <2> QED
    BY <1>8, <1>16, <2>1 DEF checkpoint_read
<1>17. ASSUME NEW r \in checkpoints, checkpoint_decide(r)
       PROVE  Kinds
  <2> DEFINE found == ack_rows(r.node, commands_for_scope_mismatches(r.node), "COOPERATIVE")
             decided(to, new) == [r EXCEPT !.to = to, !.acks = new]
  <2>1. r \in CheckpointRow
    BY DEF TypeOK
  <2>2. \A to, new : decided(to, new).acks = new /\ decided(to, new).node = r.node
    BY <2>1 DEF CheckpointRow
  <2>3. \A k \in found : k.command \in commands_for_scope_mismatches(k.node)
    BY AckRowsMembers
  <2>4. \/ checkpoints' = (checkpoints \ {r}) \cup {decided("WAITING", {})}
        \/ checkpoints' = (checkpoints \ {r}) \cup {decided("LEASE_EXPIRED", {})}
        \/ checkpoints' = (checkpoints \ {r}) \cup {decided(effective_status(r.node), found \ acks)}
        \/ checkpoints' = checkpoints \ {r}
    BY <1>17 DEF checkpoint_decide
  <2> HIDE DEF found, decided
  <2>5. \A q \in checkpoints' \ checkpoints : q.acks \subseteq found /\ q.node = r.node
    BY <2>2, <2>4
  <2> QED
    BY <1>8, <1>17, <2>3, <2>5 DEF checkpoint_decide
<1> HIDE DEF Kinds
<1> QED
  BY <1>1, <1>2, <1>3, <1>4, <1>5, <1>6, <1>7, <1>8, <1>9, <1>10, <1>11, <1>12, <1>13,
     <1>14, <1>15, <1>16, <1>17
  DEF Next, Lifecycle, Checkpoints, Control, Gateway, Scanner

-----------------------------------------------------------------------------
(* The inductive invariant of the fence.                                   *)

\* Attempts are of registered nodes and have their place among the commands so far.
ActorsRegistered ==
  \A a \in attempts : status[a.node] # "NONE" /\ a.place <= Len(commands)

\* The scope of a command is fenced for good, at the version the command gave it.
CommandsFence ==
  \A c \in 1 .. Len(commands) :
    /\ scope[commands[c].scope].status \in {"CANCELLED", "SUPERSEDED"}
    /\ scope[commands[c].scope].version = commands[c].version

\* The inductive invariant: a stale commit is excluded because fenced scopes stay fenced
\* (CommandsFence) and only registered nodes, whose snapshots never change, act.
FenceInv == TypeOK /\ FreshIsBlank /\ ActorsRegistered /\ CommandsFence /\ NoStaleCommit

\* It holds of the tables create_run leaves.
LEMMA FenceInvInit == Init => FenceInv
<1> SUFFICES ASSUME Init PROVE FenceInv
  OBVIOUS
<1>1. TypeOK
  BY TypeInit
<1>2. FreshIsBlank
  BY RegistryAssumption DEF Init, create_run, FreshIsBlank, Unregistered, Scope
<1>3. Len(commands) = 0 /\ attempts = {}
  BY DEF Init, create_run
<1> QED
  BY <1>1, <1>2, <1>3 DEF FenceInv, ActorsRegistered, CommandsFence, NoStaleCommit

\* Every step preserves it: a command fences a scope before the next action can commit,
\* and no step gives a scope back.
LEMMA FenceInvStep == FenceInv /\ [Next]_vars => FenceInv'
<1> SUFFICES ASSUME FenceInv, [Next]_vars PROVE FenceInv'
  OBVIOUS
<1> USE DEF FenceInv
<1>0. /\ commands \in Seq(CommandRow) /\ Len(commands) \in Nat
      /\ DOMAIN commands = 1 .. Len(commands)
      /\ \A c \in 1 .. Len(commands) : commands[c] \in CommandRow /\ commands[c].scope \in Scope
  <2>1. /\ commands \in Seq(CommandRow) /\ Len(commands) \in Nat
        /\ DOMAIN commands = 1 .. Len(commands)
        /\ \A c \in 1 .. Len(commands) : commands[c] \in CommandRow
    BY LenProperties DEF TypeOK
  <2>2. \A row \in CommandRow : row.scope \in Scope
    BY DEF CommandRow
  <2> QED
    BY <2>1, <2>2
<1>1. TypeOK'
  BY TypeStep
<1>2. /\ commands' \in Seq(CommandRow) /\ Len(commands') \in Nat
      /\ DOMAIN commands' = 1 .. Len(commands')
  BY <1>1, LenProperties DEF TypeOK
<1>s. Node \subseteq Scope
  BY DEF Scope
<1>y. /\ \A a \in attempts : a.node \in Node /\ a.place \in Nat
      /\ \A n \in Node : reg[n] \in Registration
  BY DEF TypeOK, AttemptRow
<1>3. ASSUME NEW p \in Node, NEW child \in Node, NEW caps \in SUBSET Capability,
             NEW cause \in Nat, Registers(p, child, caps, cause)
      PROVE  FreshIsBlank' /\ ActorsRegistered' /\ CommandsFence' /\ NoStaleCommit'
  <2>1. /\ status' = [status EXCEPT ![child] = "PENDING"]
        /\ scope' = [scope EXCEPT ![child] = [version |-> 1, status |-> "ACTIVE"]]
        /\ \A n \in Node \ {child} : reg'[n] = reg[n]
        /\ token' = token /\ attempts' = attempts /\ checkpoints' = checkpoints /\ CommandsKept
    BY <1>3 DEF Registers, _create_spawn_locked, TypeOK
  <2>2. FreshIsBlank'
    BY <1>3, <1>s, <2>1, RegistryAssumption DEF FreshIsBlank, TypeOK, Scope
  <2>3. ActorsRegistered'
    BY <2>1, <1>y DEF ActorsRegistered, CommandsKept, TypeOK
  <2>4. scope[child].status = "ABSENT" /\ status[child] = "NONE"
    BY <1>3 DEF Registers, FreshIsBlank
  <2>5. CommandsFence'
    <3> SUFFICES ASSUME NEW c \in 1 .. Len(commands')
                 PROVE  /\ scope'[commands'[c].scope].status \in {"CANCELLED", "SUPERSEDED"}
                        /\ scope'[commands'[c].scope].version = commands'[c].version
      BY DEF CommandsFence
    <3>1. /\ c \in 1 .. Len(commands) /\ commands'[c].scope = commands[c].scope
          /\ commands'[c].version = commands[c].version
      BY <2>1 DEF CommandsKept, SameOrder
    <3>2. commands[c].scope # child
      BY <3>1, <2>4 DEF CommandsFence
    <3> QED
      BY <1>0, <2>1, <3>1, <3>2 DEF CommandsFence, TypeOK
  <2>6. NoStaleCommit'
    <3> SUFFICES ASSUME NEW a \in attempts, NEW c \in 1 .. Len(commands),
                        a.decision = "ALLOW", commands[c].scope \in snapshot_scopes(a.node)'
                 PROVE  a.place < c
      BY <1>0, <1>2, <2>1 DEF NoStaleCommit, CommandsKept, SameOrder
    <3>1. a.node # child
      BY <2>4 DEF ActorsRegistered
    <3>2. snapshot_scopes(a.node)' = snapshot_scopes(a.node)
      BY <1>y, <2>1, <3>1 DEF snapshot_scopes
    <3> QED
      BY <1>0, <3>2 DEF NoStaleCommit
  <2> QED
    BY <2>2, <2>3, <2>5, <2>6
<1>4. ASSUME NEW s \in Scope, NEW row \in CommandRow, Issues(s, row)
      PROVE  FreshIsBlank' /\ ActorsRegistered' /\ CommandsFence' /\ NoStaleCommit'
  <2>1. /\ status' = status /\ reg' = reg /\ token' = token /\ attempts' = attempts
        /\ checkpoints' = checkpoints
        /\ commands' = Append(commands, row)
        /\ scope[s].status = "ACTIVE"
        /\ row.scope = s /\ row.version = scope[s].version + 1
    BY <1>4 DEF Issues
  <2>2. PICK st \in {"CANCELLED", "SUPERSEDED"} :
          scope' = [scope EXCEPT ![s] = [version |-> scope[s].version + 1, status |-> st]]
    BY <1>4 DEF Issues
  <2>3. /\ Len(commands') = Len(commands) + 1
        /\ \A c \in 1 .. Len(commands) : commands'[c] = commands[c]
        /\ commands'[Len(commands) + 1] = row
    BY <1>0, <2>1
  <2>4. FreshIsBlank'
    BY <1>s, <2>1, <2>2 DEF FreshIsBlank, TypeOK
  <2>5. ActorsRegistered'
    BY <1>0, <1>y, <2>1, <2>3 DEF ActorsRegistered
  <2>6. CommandsFence'
    <3> SUFFICES ASSUME NEW c \in 1 .. Len(commands')
                 PROVE  /\ scope'[commands'[c].scope].status \in {"CANCELLED", "SUPERSEDED"}
                        /\ scope'[commands'[c].scope].version = commands'[c].version
      BY DEF CommandsFence
    <3>1. CASE c = Len(commands) + 1
      BY <2>1, <2>2, <2>3, <3>1 DEF TypeOK
    <3>2. CASE c \in 1 .. Len(commands)
      <4>1. commands[c].scope # s
        BY <2>1, <3>2 DEF CommandsFence
      <4> QED
        BY <1>0, <2>2, <2>3, <3>2, <4>1 DEF CommandsFence, TypeOK
    <3> QED
      BY <1>0, <2>3, <3>1, <3>2
  <2>7. NoStaleCommit'
    <3> SUFFICES ASSUME NEW a \in attempts, NEW c \in 1 .. Len(commands) + 1,
                        a.decision = "ALLOW", commands'[c].scope \in snapshot_scopes(a.node)
                 PROVE  a.place < c
      BY <1>2, <2>1, <2>3 DEF NoStaleCommit, snapshot_scopes
    <3>1. CASE c = Len(commands) + 1
      BY <1>0, <1>y, <3>1 DEF ActorsRegistered
    <3>2. CASE c \in 1 .. Len(commands)
      BY <1>0, <2>3, <3>2 DEF NoStaleCommit
    <3> QED
      BY <1>0, <3>1, <3>2
  <2> QED
    BY <2>4, <2>5, <2>6, <2>7
<1>5. ASSUME NEW n \in Node, NEW key \in ActionKey, NEW tool \in Tool, Commits(n, key, tool)
      PROVE  FreshIsBlank' /\ ActorsRegistered' /\ CommandsFence' /\ NoStaleCommit'
  <2> DEFINE new == [node |-> n, key |-> key, tool |-> tool, decision |-> "ALLOW",
                     matched |-> {}, place |-> Len(commands)]
  <2>1. /\ UNCHANGED <<status, reg, scope, token, commands, checkpoints>>
        /\ attempts' = attempts \cup {new}
        /\ scopes_allowed(n)
        /\ token[n] # 0
    BY <1>5 DEF Commits, attempt, tokens
  <2>2. FreshIsBlank' /\ CommandsFence'
    BY <2>1 DEF FreshIsBlank, CommandsFence
  <2>3. ActorsRegistered'
    BY <1>0, <2>1 DEF ActorsRegistered, FreshIsBlank
  <2>4. NoStaleCommit'
    <3> SUFFICES ASSUME NEW a \in attempts', NEW c \in 1 .. Len(commands),
                        a.decision = "ALLOW", commands[c].scope \in snapshot_scopes(a.node)
                 PROVE  a.place < c
      BY <1>0, <2>1 DEF NoStaleCommit, snapshot_scopes
    <3>1. CASE a \in attempts
      BY <1>0, <3>1 DEF NoStaleCommit
    <3>2. CASE a.node = n
      <4>1. PICK e \in reg[n].snapshot : e.scope = commands[c].scope
        BY <3>2 DEF snapshot_scopes
      <4>2. scope[e.scope].status = "ACTIVE"
        BY <2>1, <4>1 DEF scopes_allowed, mismatches
      <4> QED
        BY <4>1, <4>2 DEF CommandsFence
    <3> QED
      BY <2>1, <3>1, <3>2
  <2> QED
    BY <2>2, <2>3, <2>4
<1>6. ASSUME Quiet
      PROVE  FreshIsBlank' /\ ActorsRegistered' /\ CommandsFence' /\ NoStaleCommit'
  <2>1. /\ reg' = reg /\ scope' = scope /\ CommandsKept
        /\ attempts \subseteq attempts'
        /\ \A a \in attempts' \ attempts :
             a.decision = "DENY" /\ a.node \in tokens /\ a.place = Len(commands)
        /\ \A n \in Node : status[n] # "NONE" <=> status'[n] # "NONE"
        /\ \A n \in Node : status[n] = "NONE" => token'[n] = token[n]
        /\ \A r \in checkpoints' : r.node \in tokens \/ \E q \in checkpoints : q.node = r.node
    BY <1>6 DEF Quiet, Attributes
  <2>2. FreshIsBlank'
    BY <2>1 DEF FreshIsBlank, tokens
  <2>3. ActorsRegistered'
    BY <1>0, <1>y, <2>1 DEF ActorsRegistered, CommandsKept, tokens, FreshIsBlank
  <2>4. CommandsFence'
    BY <2>1 DEF CommandsFence, CommandsKept, SameOrder
  <2>5. NoStaleCommit'
    <3> SUFFICES ASSUME NEW a \in attempts', NEW c \in 1 .. Len(commands),
                        a.decision = "ALLOW", commands[c].scope \in snapshot_scopes(a.node)
                 PROVE  a.place < c
      BY <1>2, <2>1 DEF NoStaleCommit, CommandsKept, SameOrder, snapshot_scopes
    <3>1. a \in attempts
      BY <2>1
    <3> QED
      BY <1>0, <3>1 DEF NoStaleCommit
  <2> QED
    BY <2>2, <2>3, <2>4, <2>5
<1> QED
  BY <1>1, <1>3, <1>4, <1>5, <1>6, StepKinds

\* The tables are well typed in every reachable state.
THEOREM TypeCorrect == Spec => []TypeOK
<1>1. FenceInv => TypeOK
  BY DEF FenceInv
<1> QED
  BY FenceInvInit, FenceInvStep, <1>1, PTL DEF Spec

\* No node commits a side effect after a command fenced a scope it inherits, for every
\* tree of nodes, every order of requests and every delay of heartbeats and checkpoints.
THEOREM NoStaleCommitHolds == Spec => []NoStaleCommit
<1>1. FenceInv => NoStaleCommit
  BY DEF FenceInv
<1> QED
  BY FenceInvInit, FenceInvStep, <1>1, PTL DEF Spec

-----------------------------------------------------------------------------
(* Refinement: the control plane implements the abstract fence.            *)

\* The scopes of a snapshot that grows by one entry.
LEMMA ScopesOfUnion ==
  ASSUME NEW S, NEW x
  PROVE  {e.scope : e \in S \cup {x}} = {e.scope : e \in S} \cup {x.scope}
  OBVIOUS

\* create_run maps to the initial state of the fence.
LEMMA FenceRefinedInit == Init => F!FenceInit
<1> SUFFICES ASSUME Init PROVE F!FenceInit
  OBVIOUS
<1> USE DEF Init, create_run
<1>1. fence_holds = [n \in Node |-> IF n = Root THEN {RunScope, Root} ELSE {}]
  <2>1. snapshot_scopes(Root) = {RunScope, Root}
    <3>1. reg[Root].snapshot = {[scope |-> RunScope, version |-> 1]}
                                 \cup {[scope |-> Root, version |-> 1]}
      BY RegistryAssumption DEF Unregistered
    <3>2. {e.scope : e \in {[scope |-> RunScope, version |-> 1]}} = {RunScope}
      OBVIOUS
    <3>3. {e.scope : e \in {[scope |-> RunScope, version |-> 1]}
                             \cup {[scope |-> Root, version |-> 1]}}
            = {e.scope : e \in {[scope |-> RunScope, version |-> 1]}}
                \cup {[scope |-> Root, version |-> 1].scope}
      BY ScopesOfUnion
    <3>4. [scope |-> Root, version |-> 1].scope = Root
      OBVIOUS
    <3> QED
      BY <3>1, <3>2, <3>3, <3>4, Zenon DEF snapshot_scopes
  <2>2. \A n \in Node \ {Root} : snapshot_scopes(n) = {}
    BY DEF snapshot_scopes, Unregistered
  <2> QED
    BY <2>1, <2>2 DEF fence_holds
<1>2. fence_valid = {RunScope, Root}
  BY RegistryAssumption DEF fence_valid, Scope
<1>3. fence_effects = {}
  BY DEF fence_effects
<1> QED
  BY <1>1, <1>2, <1>3 DEF F!FenceInit

\* Every step of the services is a step of the fence or leaves what it sees unchanged.
LEMMA FenceRefinedStep == FenceInv /\ [Next]_vars => [F!FenceNext]_(F!fence_vars)
<1> SUFFICES ASSUME FenceInv, [Next]_vars
             PROVE  F!FenceNext \/ UNCHANGED <<fence_holds, fence_valid, fence_effects>>
  BY DEF F!fence_vars
<1> USE DEF FenceInv
<1>u. \A n \in Node : scopes_allowed(n) => F!unfenced(n)
  <2> SUFFICES ASSUME NEW n \in Node, scopes_allowed(n)
               PROVE  snapshot_scopes(n) # {} /\ snapshot_scopes(n) \subseteq fence_valid
    BY DEF F!unfenced, F!exists, fence_holds
  <2>1. \A e \in reg[n].snapshot : e.scope \in Scope /\ scope[e.scope].status = "ACTIVE"
    BY DEF scopes_allowed, mismatches, TypeOK, Registration
  <2> QED
    BY <2>1 DEF snapshot_scopes, fence_valid, scopes_allowed
<1>1. ASSUME NEW p \in Node, NEW child \in Node, NEW caps \in SUBSET Capability,
             NEW cause \in Nat, Registers(p, child, caps, cause)
      PROVE  F!Delegate(p, child)
  <2>1. F!unfenced(p)
    BY <1>1, <1>u DEF Registers
  <2>2. ~F!exists(child)
    BY <1>1 DEF Registers, FreshIsBlank, F!exists, fence_holds, snapshot_scopes
  <2>3. /\ \A n \in Node \ {child} : reg'[n] = reg[n]
        /\ reg'[child].snapshot = reg[p].snapshot \cup {[scope |-> child, version |-> 1]}
    BY <1>1 DEF Registers, _create_spawn_locked, TypeOK
  <2>4. fence_holds' = [fence_holds EXCEPT ![child] = fence_holds[p] \cup {child}]
    <3>1. snapshot_scopes(child)' = snapshot_scopes(p) \cup {child}
      <4> DEFINE own == [scope |-> child, version |-> 1]
      <4>1. own.scope = child
        OBVIOUS
      <4>2. {e.scope : e \in reg[p].snapshot \cup {own}}
              = {e.scope : e \in reg[p].snapshot} \cup {own.scope}
        BY ScopesOfUnion
      <4>3. snapshot_scopes(child)' = {e.scope : e \in reg[p].snapshot \cup {own}}
        BY <2>3, Zenon DEF snapshot_scopes
      <4> QED
        BY <4>1, <4>2, <4>3, Zenon DEF snapshot_scopes
    <3>2. \A n \in Node \ {child} : snapshot_scopes(n)' = snapshot_scopes(n)
      BY <2>3 DEF snapshot_scopes
    <3> QED
      BY <3>1, <3>2 DEF fence_holds
  <2>5. fence_valid' = fence_valid \cup {child}
    BY <1>1 DEF Registers, _create_spawn_locked, fence_valid, Scope, TypeOK
  <2>6. fence_effects' = fence_effects
    BY <1>1 DEF Registers, fence_effects
  <2> QED
    BY <2>1, <2>2, <2>4, <2>5, <2>6 DEF F!Delegate
<1>2. ASSUME NEW s \in Scope, NEW row \in CommandRow, Issues(s, row)
      PROVE  F!Revoke(s)
  <2>1. s \in fence_valid
    BY <1>2 DEF Issues, fence_valid
  <2>2. fence_valid' = fence_valid \ {s}
    BY <1>2 DEF Issues, fence_valid, TypeOK
  <2>3. UNCHANGED <<fence_holds, fence_effects>>
    BY <1>2 DEF Issues, fence_holds, fence_effects, snapshot_scopes
  <2> QED
    BY <2>1, <2>2, <2>3 DEF F!Revoke
<1>3. ASSUME NEW n \in Node, NEW key \in ActionKey, NEW tool \in Tool, Commits(n, key, tool)
      PROVE  F!Commit(n, key)
  <2>1. F!unfenced(n)
    BY <1>3, <1>u DEF Commits
  <2>2. <<n, key>> \notin fence_effects
    BY <1>3 DEF Commits, fence_effects
  <2>3. fence_effects' = fence_effects \cup {<<n, key>>}
    <3> DEFINE new == [node |-> n, key |-> key, tool |-> tool, decision |-> "ALLOW",
                       matched |-> {}, place |-> Len(commands)]
    <3>1. attempts' = attempts \cup {new}
      BY <1>3 DEF Commits, attempt
    <3>2. new.decision = "ALLOW" /\ new.node = n /\ new.key = key
      OBVIOUS
    <3> HIDE DEF new
    <3>3. {b \in attempts' : b.decision = "ALLOW"}
            = {b \in attempts : b.decision = "ALLOW"} \cup {new}
      BY <3>1, <3>2
    <3> QED
      BY <3>2, <3>3 DEF fence_effects
  <2>4. UNCHANGED <<fence_holds, fence_valid>>
    BY <1>3 DEF Commits, fence_holds, fence_valid, snapshot_scopes
  <2> QED
    BY <2>1, <2>2, <2>3, <2>4 DEF F!Commit
<1>4. ASSUME Quiet
      PROVE  UNCHANGED <<fence_holds, fence_valid, fence_effects>>
  <2>1. {b \in attempts' : b.decision = "ALLOW"} = {b \in attempts : b.decision = "ALLOW"}
    BY <1>4 DEF Quiet, Attributes
  <2> QED
    BY <1>4, <2>1 DEF Quiet, fence_holds, fence_valid, fence_effects, snapshot_scopes
<1> QED
  BY <1>1, <1>2, <1>3, <1>4, StepKinds DEF F!FenceNext, Scope

\* TraceFence implements the abstract fence.
THEOREM FenceRefinement == Spec => ImplementsFence
  BY FenceInvInit, FenceInvStep, FenceRefinedInit, FenceRefinedStep, PTL
  DEF Spec, ImplementsFence, F!FenceSpec

-----------------------------------------------------------------------------
(* The tree of nodes                                                       *)

\* An identity not yet used has no parent and no command that caused it.
FreshIsUnregistered ==
  \A n \in Node : status[n] = "NONE" => reg[n].parent = NoNode /\ reg[n].cause = 0

\* Parents are registered nodes that delegated what their children have.
ParentsDelegate ==
  \A n \in Node : reg[n].parent # NoNode =>
    /\ status[reg[n].parent] # "NONE"
    /\ reg[n].parent \in snapshot_scopes(n)
    /\ reg[n].caps \subseteq reg[reg[n].parent].caps

\* A snapshot holds the node's own scope and, of other nodes, only scopes of ancestors,
\* with all that their snapshots hold.
SnapshotsNest ==
  \A n \in Node :
    /\ status[n] # "NONE" => n \in snapshot_scopes(n)
    /\ \A m \in snapshot_scopes(n) \cap Node :
         /\ status[m] # "NONE"
         /\ snapshot_scopes(m) \subseteq snapshot_scopes(n)
         /\ m = n \/ is_descendant(m, n)

\* The target of a command is a registered node, and its scope the target's unless the
\* command is about the run.
TargetsRegistered ==
  \A c \in 1 .. Len(commands) :
    /\ status[commands[c].target] # "NONE"
    /\ commands[c].scope = target_scope(commands[c].type, commands[c].target)

\* A committed action used a capability of its node.
ToolsDelegated ==
  \A a \in attempts : a.decision = "ALLOW" => a.tool \in reg[a.node].caps

TreeInv ==
  FreshIsUnregistered /\ ParentsDelegate /\ SnapshotsNest /\ TargetsRegistered /\ ToolsDelegated

\* Descent is by parent links alone: nodes registered since do not change it.
LEMMA DescentKept ==
  ASSUME NEW child \in Node, NEW m \in Node, NEW n \in Node \ {child},
         reg[child].parent = NoNode,
         \A k \in Node \ {child} : reg'[k] = reg[k],
         is_descendant(m, n)
  PROVE  is_descendant(m, n)'
<1>1. /\ m # n /\ reg'[n].parent # NoNode
      /\ reg'[n].parent = reg[n].parent
  BY DEF is_descendant
<1>2. ASSUME NEW S \in SUBSET Node, reg'[n].parent \in S,
             \A k \in S : reg'[k].parent # NoNode => reg'[k].parent \in S
      PROVE  m \in S
  <2>1. \A k \in S : reg[k].parent # NoNode => reg[k].parent \in S
    BY <1>2
  <2> QED
    BY <1>1, <1>2, <2>1 DEF is_descendant
<1> QED
  BY <1>1, <1>2 DEF is_descendant

\* Whatever is closed under parent links above n contains n's ancestors.
LEMMA AncestorInClosed ==
  ASSUME NEW m \in Node, NEW n \in Node, is_descendant(m, n),
         NEW S \in SUBSET Node, reg[n].parent \in S,
         \A k \in S : reg[k].parent # NoNode => reg[k].parent \in S
  PROVE  m \in S
  BY DEF is_descendant

\* create_run leaves the root alone, with its two scopes.
LEMMA TreeInvInit == Init => TreeInv
<1> SUFFICES ASSUME Init PROVE TreeInv
  OBVIOUS
<1>1. /\ \A n \in Node : reg[n].parent = NoNode /\ reg[n].cause = 0
      /\ Len(commands) = 0 /\ attempts = {}
  BY DEF Init, create_run, Unregistered
<1>2. \A n \in Node : status[n] # "NONE" <=> n = Root
  BY DEF Init, create_run
<1>3. reg[Root].snapshot = {[scope |-> RunScope, version |-> 1], [scope |-> Root, version |-> 1]}
  BY RegistryAssumption DEF Init, create_run, Unregistered
<1>4. \A n \in Node \ {Root} : reg[n].snapshot = {}
  BY DEF Init, create_run, Unregistered
<1>5. snapshot_scopes(Root) = {RunScope, Root}
  BY <1>3 DEF snapshot_scopes
<1>6. \A n \in Node \ {Root} : snapshot_scopes(n) = {}
  BY <1>4 DEF snapshot_scopes
<1>7. SnapshotsNest
  BY <1>2, <1>5, <1>6, RegistryAssumption DEF SnapshotsNest
<1> QED
  BY <1>1, <1>7
  DEF TreeInv, FreshIsUnregistered, ParentsDelegate, TargetsRegistered, ToolsDelegated

\* A registration hangs a new leaf below a registered node.
LEMMA TreeInvRegisters ==
  ASSUME FenceInv, TreeInv,
         NEW p \in Node, NEW child \in Node, NEW caps \in SUBSET Capability, NEW cause \in Nat,
         Registers(p, child, caps, cause)
  PROVE  TreeInv'
<1>0. /\ commands \in [1 .. Len(commands) -> CommandRow] /\ Len(commands) \in Nat
      /\ \A c \in 1 .. Len(commands) : commands[c].target \in Node
  <2>1. commands \in [1 .. Len(commands) -> CommandRow] /\ Len(commands) \in Nat
    BY LenProperties DEF FenceInv, TypeOK
  <2> QED
    BY <2>1 DEF CommandRow
<1>1. /\ status' = [status EXCEPT ![child] = "PENDING"]
      /\ \A n \in Node \ {child} : reg'[n] = reg[n]
      /\ reg'[child].parent = p /\ reg'[child].caps = caps
      /\ reg'[child].snapshot = reg[p].snapshot \cup {[scope |-> child, version |-> 1]}
      /\ attempts' = attempts /\ CommandsKept
      /\ status \in [Node -> NodeStatus \cup {"NONE"}]
  BY DEF Registers, _create_spawn_locked, FenceInv, TypeOK
<1>2. /\ status[child] = "NONE" /\ status[p] # "NONE" /\ p # child /\ p # NoNode
      /\ caps \subseteq reg[p].caps
  BY RegistryAssumption DEF Registers, FenceInv, FreshIsBlank, tokens
<1>3. snapshot_scopes(child)' = snapshot_scopes(p) \cup {child}
  <2> DEFINE own == [scope |-> child, version |-> 1]
  <2>1. own.scope = child
    OBVIOUS
  <2>2. {e.scope : e \in reg[p].snapshot \cup {own}}
          = {e.scope : e \in reg[p].snapshot} \cup {own.scope}
    BY ScopesOfUnion
  <2>3. snapshot_scopes(child)' = {e.scope : e \in reg[p].snapshot \cup {own}}
    BY <1>1, Zenon DEF snapshot_scopes
  <2> QED
    BY <2>1, <2>2, <2>3, Zenon DEF snapshot_scopes
<1>4. \A n \in Node \ {child} : snapshot_scopes(n)' = snapshot_scopes(n)
  BY <1>1 DEF snapshot_scopes
<1>5. \A n \in Node : n # child /\ status[n] # "NONE" => status'[n] # "NONE"
  BY <1>1
<1>6. status'[child] # "NONE" /\ \A n \in Node : status'[n] = "NONE" => n # child /\ status[n] = "NONE"
  BY <1>1
<1>7. FreshIsUnregistered'
  BY <1>1, <1>6 DEF FreshIsUnregistered, TreeInv
<1>8. ParentsDelegate'
  <2> SUFFICES ASSUME NEW n \in Node, reg'[n].parent # NoNode
               PROVE  /\ status'[reg'[n].parent] # "NONE"
                      /\ reg'[n].parent \in snapshot_scopes(n)'
                      /\ reg'[n].caps \subseteq reg'[reg'[n].parent].caps
    BY DEF ParentsDelegate
  <2>1. CASE n = child
    <3>1. p \in snapshot_scopes(p)
      BY <1>2 DEF TreeInv, SnapshotsNest
    <3> QED
      BY <1>1, <1>2, <1>3, <1>5, <2>1, <3>1
  <2>2. CASE n # child
    <3>1. reg[n].parent \in Node
      BY <1>1, <2>2 DEF FenceInv, TypeOK, Registration
    <3>2. /\ status[reg[n].parent] # "NONE" /\ reg[n].parent \in snapshot_scopes(n)
          /\ reg[n].caps \subseteq reg[reg[n].parent].caps
      BY <1>1, <2>2 DEF TreeInv, ParentsDelegate
    <3> QED
      BY <1>1, <1>2, <1>4, <1>5, <2>2, <3>1, <3>2
  <2> QED
    BY <2>1, <2>2
<1>9. SnapshotsNest'
  <2>0. reg[child].parent = NoNode
    BY <1>2 DEF TreeInv, FreshIsUnregistered
  <2>1. \A n \in Node : \A m \in snapshot_scopes(n) \cap Node :
          /\ status[m] # "NONE" /\ snapshot_scopes(m) \subseteq snapshot_scopes(n)
          /\ m = n \/ is_descendant(m, n)
    BY DEF TreeInv, SnapshotsNest
  <2>2. ASSUME NEW n \in Node \ {child}, NEW m \in snapshot_scopes(n) \cap Node
        PROVE  /\ status'[m] # "NONE" /\ snapshot_scopes(m)' \subseteq snapshot_scopes(n)'
               /\ m = n \/ is_descendant(m, n)'
    <3>1. m # child
      BY <1>2, <2>1
    <3>2. m = n \/ is_descendant(m, n)'
      BY <1>1, <2>0, <2>1, DescentKept
    <3> QED
      BY <1>4, <1>5, <2>1, <3>1, <3>2
  <2>3. ASSUME NEW m \in (snapshot_scopes(p) \cup {child}) \cap Node
        PROVE  /\ status'[m] # "NONE" /\ snapshot_scopes(m)' \subseteq snapshot_scopes(child)'
               /\ m = child \/ is_descendant(m, child)'
    <3>1. CASE m = child
      BY <1>6, <3>1
    <3>2. CASE m # child
      <4>1. /\ m \in snapshot_scopes(p) \cap Node
            /\ status'[m] # "NONE" /\ snapshot_scopes(m) \subseteq snapshot_scopes(p)
        BY <1>5, <2>1, <3>2
      <4>2. m = p \/ is_descendant(m, p)'
        BY <1>1, <1>2, <2>0, <2>1, <4>1, DescentKept
      <4>3. is_descendant(m, child)'
        <5>1. ASSUME NEW S \in SUBSET Node, p \in S,
                     \A k \in S : reg'[k].parent # NoNode => reg'[k].parent \in S
              PROVE  m \in S
          <6>1. is_descendant(m, p)' => reg'[p].parent \in S
            BY <5>1 DEF is_descendant
          <6> QED
            BY <4>2, <5>1, <6>1 DEF is_descendant
        <5> QED
          BY <1>1, <1>2, <3>2, <5>1 DEF is_descendant
      <4> QED
        BY <1>3, <1>4, <3>2, <4>1, <4>3
    <3> QED
      BY <3>1, <3>2
  <2>4. \A n \in Node : status'[n] # "NONE" => n \in snapshot_scopes(n)'
    BY <1>1, <1>3, <1>4 DEF TreeInv, SnapshotsNest
  <2> QED
    BY <1>3, <1>4, <2>2, <2>3, <2>4 DEF SnapshotsNest
<1>10. TargetsRegistered'
  BY <1>0, <1>1, <1>5, <1>6 DEF TreeInv, TargetsRegistered, CommandsKept, SameOrder, target_scope
<1>11. ToolsDelegated'
  <2>1. \A a \in attempts : a.node \in Node /\ a.node # child
    BY <1>2 DEF FenceInv, TypeOK, AttemptRow, ActorsRegistered
  <2> QED
    BY <1>1, <2>1 DEF TreeInv, ToolsDelegated
<1> QED
  BY <1>7, <1>8, <1>9, <1>10, <1>11 DEF TreeInv

\* A command, an action and everything else leave the tree alone.
LEMMA TreeInvOther ==
  ASSUME FenceInv, TreeInv, FenceInv',
         \/ \E s \in Scope, row \in CommandRow : Issues(s, row)
         \/ \E n \in Node, key \in ActionKey, tool \in Tool : Commits(n, key, tool)
         \/ Quiet
  PROVE  TreeInv'
<1>0. /\ commands \in Seq(CommandRow) /\ Len(commands) \in Nat
      /\ \A c \in 1 .. Len(commands) : commands[c].target \in Node
      /\ \A a \in attempts : a.node \in Node
      /\ \A n \in Node : reg[n].parent \in Node \cup {NoNode}
  <2>1. commands \in Seq(CommandRow) /\ commands \in [1 .. Len(commands) -> CommandRow]
        /\ Len(commands) \in Nat
    BY LenProperties DEF FenceInv, TypeOK
  <2> QED
    BY <2>1 DEF CommandRow, FenceInv, TypeOK, AttemptRow, Registration
<1>1. reg' = reg
  BY DEF Issues, Commits, Quiet
<1>2. \A n \in Node : status'[n] # "NONE" <=> status[n] # "NONE"
  <2>1. CASE status' = status
    BY <2>1
  <2>2. CASE Quiet
    BY <2>2 DEF Quiet
  <2> QED
    BY <2>1, <2>2 DEF Issues, Commits
<1>3. /\ \A n : snapshot_scopes(n)' = snapshot_scopes(n)
      /\ \A m, n : is_descendant(m, n)' = is_descendant(m, n)
  BY <1>1 DEF snapshot_scopes, is_descendant
<1>4. FreshIsUnregistered' /\ ParentsDelegate'
  BY <1>0, <1>1, <1>2, <1>3 DEF TreeInv, FreshIsUnregistered, ParentsDelegate
<1>5. SnapshotsNest'
  BY <1>2, <1>3 DEF TreeInv, SnapshotsNest
<1>6. TargetsRegistered'
  <2>1. ASSUME NEW s \in Scope, NEW row \in CommandRow, Issues(s, row)
        PROVE  TargetsRegistered'
    <3>1. /\ Len(commands') = Len(commands) + 1
          /\ \A c \in 1 .. Len(commands) : commands'[c] = commands[c]
          /\ commands'[Len(commands) + 1] = row
          /\ row.target \in Node
      BY <1>0, <2>1 DEF Issues, CommandRow
    <3>2. /\ status[row.target] # "NONE" /\ row.scope = target_scope(row.type, row.target)
          /\ status' = status
      BY <2>1 DEF Issues
    <3>3. ASSUME NEW c \in 1 .. Len(commands) + 1
          PROVE  /\ status'[commands'[c].target] # "NONE"
                 /\ commands'[c].scope = target_scope(commands'[c].type, commands'[c].target)
      <4>1. CASE c = Len(commands) + 1
        BY <3>1, <3>2, <4>1
      <4>2. CASE c \in 1 .. Len(commands)
        BY <3>1, <3>2, <4>2 DEF TreeInv, TargetsRegistered
      <4> QED
        BY <1>0, <4>1, <4>2
    <3> QED
      BY <3>1, <3>3 DEF TargetsRegistered, target_scope
  <2>2. CASE CommandsKept
    BY <1>0, <1>2, <2>2 DEF TreeInv, TargetsRegistered, CommandsKept, SameOrder, target_scope
  <2>3. CASE commands' = commands
    BY <1>0, <1>2, <2>3 DEF TreeInv, TargetsRegistered, target_scope
  <2> QED
    BY <2>1, <2>2, <2>3 DEF Commits, Quiet
<1>7. ToolsDelegated'
  <2>1. ASSUME NEW n \in Node, NEW key \in ActionKey, NEW tool \in Tool, Commits(n, key, tool)
        PROVE  ToolsDelegated'
    <3> DEFINE new == [node |-> n, key |-> key, tool |-> tool, decision |-> "ALLOW",
                       matched |-> {}, place |-> Len(commands)]
    <3>1. attempts' = attempts \cup {new} /\ tool \in reg[n].caps
      BY <2>1 DEF Commits, attempt
    <3>2. new.node = n /\ new.tool = tool
      OBVIOUS
    <3> HIDE DEF new
    <3> QED
      BY <1>1, <3>1, <3>2 DEF TreeInv, ToolsDelegated
  <2>2. CASE Quiet
    BY <1>1, <2>2 DEF Quiet, Attributes, TreeInv, ToolsDelegated
  <2>3. CASE attempts' = attempts
    BY <1>1, <2>3 DEF TreeInv, ToolsDelegated
  <2> QED
    BY <2>1, <2>2, <2>3 DEF Issues
<1> QED
  BY <1>4, <1>5, <1>6, <1>7 DEF TreeInv

\* Every step preserves the tree.
LEMMA TreeInvStep == FenceInv /\ TreeInv /\ [Next]_vars => TreeInv'
<1> SUFFICES ASSUME FenceInv, TreeInv, [Next]_vars PROVE TreeInv'
  OBVIOUS
<1>1. FenceInv'
  BY FenceInvStep
<1>2. TypeOK /\ FreshIsBlank
  BY DEF FenceInv
<1> QED
  BY <1>1, <1>2, StepKinds, TreeInvRegisters, TreeInvOther

\* A subtree command fences exactly its target and the target's descendants.
LEMMA SubtreeFromTree == FenceInv /\ TreeInv => FencesExactlySubtree
<1> SUFFICES ASSUME FenceInv, TreeInv, NEW c \in DOMAIN commands, NEW n \in registered,
                    commands[c].type # "CANCEL_RUN"
             PROVE  commands[c].scope \in snapshot_scopes(n)
                      <=> n = commands[c].target \/ is_descendant(commands[c].target, n)
  BY DEF FencesExactlySubtree
<1> DEFINE t == commands[c].target
<1>1. n \in Node /\ status[n] # "NONE"
  BY DEF registered
<1>2. t \in Node /\ commands[c].scope = t
  <2>1. c \in 1 .. Len(commands) /\ commands[c] \in CommandRow
    BY LenProperties DEF FenceInv, TypeOK
  <2> QED
    BY <2>1 DEF CommandRow, TreeInv, TargetsRegistered, target_scope
<1> HIDE DEF t
<1>3. t \in snapshot_scopes(n) => n = t \/ is_descendant(t, n)
  BY <1>1, <1>2 DEF TreeInv, SnapshotsNest
<1>4. n = t => t \in snapshot_scopes(n)
  BY <1>1 DEF TreeInv, SnapshotsNest
<1>5. ASSUME is_descendant(t, n) PROVE t \in snapshot_scopes(n)
  <2> DEFINE above == snapshot_scopes(n) \cap Node
  <2>1. \A k \in Node : reg[k].parent # NoNode =>
          reg[k].parent \in snapshot_scopes(k) \cap Node
    BY DEF TreeInv, ParentsDelegate, FenceInv, TypeOK, Registration
  <2>2. reg[n].parent \in above
    BY <1>1, <1>5, <2>1 DEF is_descendant
  <2>3. \A k \in above : reg[k].parent # NoNode => reg[k].parent \in above
    BY <1>1, <2>1 DEF TreeInv, SnapshotsNest
  <2>4. above \in SUBSET Node
    OBVIOUS
  <2> HIDE DEF above
  <2>5. t \in above
    BY <1>1, <1>2, <1>5, <2>2, <2>3, <2>4, AncestorInClosed
  <2> QED
    BY <2>5 DEF above
<1> QED
  BY <1>2, <1>3, <1>4, <1>5 DEF t

\* The tool of a committed action is a capability of the node and of all its ancestors.
LEMMA DelegationFromTree == FenceInv /\ TreeInv => CommitWithinDelegation
<1> SUFFICES ASSUME FenceInv, TreeInv, NEW a \in attempts, a.decision = "ALLOW",
                    NEW m \in Node, m = a.node \/ is_descendant(m, a.node)
             PROVE  a.tool \in reg[m].caps
  BY DEF CommitWithinDelegation
<1>1. a.tool \in reg[a.node].caps /\ a.node \in Node
  BY DEF TreeInv, ToolsDelegated, FenceInv, TypeOK, AttemptRow
<1>2. CASE is_descendant(m, a.node)
  <2> DEFINE wider == {k \in Node : reg[a.node].caps \subseteq reg[k].caps}
  <2>1. \A k \in Node : reg[k].parent # NoNode =>
          reg[k].parent \in Node /\ reg[k].caps \subseteq reg[reg[k].parent].caps
    BY DEF TreeInv, ParentsDelegate, FenceInv, TypeOK, Registration
  <2>2. reg[a.node].parent \in wider
    BY <1>1, <1>2, <2>1 DEF is_descendant
  <2>3. \A k \in wider : reg[k].parent # NoNode => reg[k].parent \in wider
    BY <2>1
  <2>4. wider \in SUBSET Node
    OBVIOUS
  <2> HIDE DEF wider
  <2>5. m \in wider
    BY <1>1, <1>2, <2>2, <2>3, <2>4, AncestorInClosed
  <2> QED
    BY <1>1, <2>5 DEF wider
<1> QED
  BY <1>1, <1>2

\* However requests interleave, a subtree command fences its target and the target's
\* descendants, later ones included, and no other node.
THEOREM FencesExactlySubtreeHolds == Spec => []FencesExactlySubtree
  BY FenceInvInit, FenceInvStep, TreeInvInit, TreeInvStep, SubtreeFromTree, PTL DEF Spec

\* Authority only shrinks down the tree, for every chain of delegations and replacements.
THEOREM CommitWithinDelegationHolds == Spec => []CommitWithinDelegation
  BY FenceInvInit, FenceInvStep, TreeInvInit, TreeInvStep, DelegationFromTree, PTL DEF Spec

-----------------------------------------------------------------------------
(* Attribution                                                             *)

\* k names a command whose scope its node inherits.
Attributed(k) ==
  /\ k.command \in 1 .. Len(commands)
  /\ commands[k.command].scope \in snapshot_scopes(k.node)

\* The commands so far, up to place, whose scope node n inherits.
FencingBefore(n, place) == {c \in 1 .. place : commands[c].scope \in snapshot_scopes(n)}

\* Recorded acknowledgements, those a checkpoint is about to record, and matched commands.
AttributionInv ==
  /\ \A k \in acks : Attributed(k)
  /\ \A r \in checkpoints : \A k \in r.acks : Attributed(k)
  /\ \A a \in attempts : a.matched # {} => a.matched = FencingBefore(a.node, a.place)

\* Since a command fences its scope for good at one version, what the mismatches of a node
\* show is every command on a scope the node inherits.
LEMMA MismatchesShowAll ==
  ASSUME FenceInv, NEW n
  PROVE  commands_for_scope_mismatches(n) = FencingBefore(n, Len(commands))
<1>1. DOMAIN commands = 1 .. Len(commands)
  BY LenProperties DEF FenceInv, TypeOK
<1>2. ASSUME NEW c \in 1 .. Len(commands)
      PROVE  c \in commands_for_scope_mismatches(n) <=> commands[c].scope \in snapshot_scopes(n)
  <2>1. scope[commands[c].scope].status # "ACTIVE"
        /\ scope[commands[c].scope].version = commands[c].version
    BY DEF FenceInv, CommandsFence
  <2> QED
    BY <1>1, <2>1 DEF commands_for_scope_mismatches, mismatches, snapshot_scopes
<1> QED
  BY <1>1, <1>2 DEF FencingBefore, commands_for_scope_mismatches

\* Nothing is attributed in the tables create_run leaves.
LEMMA AttributionInit == Init => AttributionInv
  BY DEF Init, create_run, AttributionInv

\* A step that keeps the commands, or appends one, and the snapshots of registered nodes
\* keeps what is attributed.
LEMMA AttributionKept ==
  ASSUME FenceInv, FenceInv', NEW n \in Node,
         snapshot_scopes(n)' = snapshot_scopes(n),
         Len(commands') >= Len(commands),
         \A c \in 1 .. Len(commands) : commands'[c].scope = commands[c].scope
  PROVE  /\ \A k : k.node = n /\ Attributed(k) => Attributed(k)'
         /\ \A place \in 0 .. Len(commands) : FencingBefore(n, place)' = FencingBefore(n, place)
<1>1. Len(commands) \in Nat /\ Len(commands') \in Nat
  BY LenProperties DEF FenceInv, TypeOK
<1>2. \A k : k.node = n /\ Attributed(k) => Attributed(k)'
  BY <1>1 DEF Attributed
<1>3. \A place \in 0 .. Len(commands) : FencingBefore(n, place)' = FencingBefore(n, place)
  BY <1>1 DEF FencingBefore
<1> QED
  BY <1>2, <1>3

\* Every step preserves attribution: a command's scope stays in the snapshot of a node,
\* and new acknowledgements and matches are made from mismatches.
LEMMA AttributionStep == FenceInv /\ AttributionInv /\ [Next]_vars => AttributionInv'
<1> SUFFICES ASSUME FenceInv, AttributionInv, [Next]_vars PROVE AttributionInv'
  OBVIOUS
<1>1. FenceInv'
  BY FenceInvStep
<1>2. /\ commands \in Seq(CommandRow) /\ Len(commands) \in Nat
      /\ \A k \in acks : k.node \in Node
      /\ \A r \in checkpoints : \A k \in r.acks : k.node \in Node
      /\ \A a \in attempts : a.node \in Node /\ a.place \in 0 .. Len(commands)
  <2>1. commands \in Seq(CommandRow) /\ Len(commands) \in Nat
    BY LenProperties DEF FenceInv, TypeOK
  <2>2. \A a \in attempts : a.node \in Node /\ a.place \in Nat /\ a.place <= Len(commands)
    BY DEF FenceInv, TypeOK, AttemptRow, ActorsRegistered
  <2> QED
    BY <2>1, <2>2 DEF FenceInv, TypeOK, CheckpointRow
<1>3. ASSUME NEW p \in Node, NEW child \in Node, NEW caps \in SUBSET Capability,
             NEW cause \in Nat, Registers(p, child, caps, cause)
      PROVE  AttributionInv'
  <2>1. /\ acks' = acks /\ checkpoints' = checkpoints /\ attempts' = attempts
        /\ Len(commands') = Len(commands)
        /\ \A c \in 1 .. Len(commands) : commands'[c].scope = commands[c].scope
        /\ \A n \in Node \ {child} : reg'[n] = reg[n]
    BY <1>3 DEF Registers, _create_spawn_locked, CommandsKept, SameOrder, FenceInv, TypeOK
  <2>2. snapshot_scopes(child) = {} /\ status[child] = "NONE"
    BY <1>3 DEF Registers, FenceInv, FreshIsBlank, snapshot_scopes
  <2>3. \A n \in Node \ {child} : snapshot_scopes(n)' = snapshot_scopes(n)
    BY <2>1 DEF snapshot_scopes
  <2>4. \A k : Attributed(k) => k.node # child
    BY <2>2 DEF Attributed
  <2>5. \A a \in attempts : a.node # child
    BY <2>2 DEF FenceInv, ActorsRegistered
  <2>6. \A n \in Node \ {child} :
          /\ \A k : k.node = n /\ Attributed(k) => Attributed(k)'
          /\ \A place \in 0 .. Len(commands) : FencingBefore(n, place)' = FencingBefore(n, place)
    BY <1>1, <1>2, <2>1, <2>3, AttributionKept
  <2> QED
    BY <1>2, <2>1, <2>4, <2>5, <2>6 DEF AttributionInv
<1>4. ASSUME NEW s \in Scope, NEW row \in CommandRow, Issues(s, row)
      PROVE  AttributionInv'
  <2>1. /\ acks' = acks /\ checkpoints' = checkpoints /\ attempts' = attempts /\ reg' = reg
        /\ commands' = Append(commands, row)
    BY <1>4 DEF Issues
  <2>2. /\ Len(commands') >= Len(commands)
        /\ \A c \in 1 .. Len(commands) : commands'[c].scope = commands[c].scope
    BY <1>2, <2>1
  <2>3. \A n : snapshot_scopes(n)' = snapshot_scopes(n)
    BY <2>1 DEF snapshot_scopes
  <2>4. \A n \in Node :
          /\ \A k : k.node = n /\ Attributed(k) => Attributed(k)'
          /\ \A place \in 0 .. Len(commands) : FencingBefore(n, place)' = FencingBefore(n, place)
    BY <1>1, <2>2, <2>3, AttributionKept
  <2> QED
    BY <1>2, <2>1, <2>4 DEF AttributionInv
<1>5. ASSUME NEW n \in Node, NEW key \in ActionKey, NEW tool \in Tool, Commits(n, key, tool)
      PROVE  AttributionInv'
  <2> DEFINE new == [node |-> n, key |-> key, tool |-> tool, decision |-> "ALLOW",
                     matched |-> {}, place |-> Len(commands)]
  <2>1. /\ acks' = acks /\ checkpoints' = checkpoints /\ reg' = reg /\ commands' = commands
        /\ attempts' = attempts \cup {new}
    BY <1>5 DEF Commits, attempt
  <2>2. new.matched = {}
    OBVIOUS
  <2> HIDE DEF new
  <2> QED
    BY <2>1, <2>2 DEF AttributionInv, Attributed, FencingBefore, snapshot_scopes
<1>6. CASE Quiet
  <2>1. /\ reg' = reg /\ Len(commands') = Len(commands)
        /\ \A c \in 1 .. Len(commands) : commands'[c].scope = commands[c].scope
        /\ Attributes
    BY <1>6 DEF Quiet, CommandsKept, SameOrder
  <2>2. \A n : snapshot_scopes(n)' = snapshot_scopes(n)
    BY <2>1 DEF snapshot_scopes
  <2>3. \A n \in Node :
          /\ \A k : k.node = n /\ Attributed(k) => Attributed(k)'
          /\ \A place \in 0 .. Len(commands) : FencingBefore(n, place)' = FencingBefore(n, place)
    BY <1>1, <1>2, <2>1, <2>2, AttributionKept
  <2>4. \A k : k.command \in commands_for_scope_mismatches(k.node) => Attributed(k)
    BY MismatchesShowAll DEF FencingBefore, Attributed
  <2>5. \A k \in acks' : k.node \in Node
    BY <1>1 DEF FenceInv, TypeOK
  <2>6. \A r \in checkpoints' : \A k \in r.acks : k.node \in Node
    BY <1>1 DEF FenceInv, TypeOK, CheckpointRow
  <2>7. \A k \in acks' : Attributed(k)'
    BY <2>1, <2>3, <2>4, <2>5 DEF Attributes, AttributionInv
  <2>8. \A r \in checkpoints' : \A k \in r.acks : Attributed(k)'
    BY <2>1, <2>3, <2>4, <2>6 DEF Attributes, AttributionInv
  <2>9. \A a \in attempts' : a.matched # {} => a.matched = FencingBefore(a.node, a.place)'
    <3> SUFFICES ASSUME NEW a \in attempts', a.matched # {}
                 PROVE  a.matched = FencingBefore(a.node, a.place)'
      OBVIOUS
    <3>1. CASE a \in attempts
      BY <1>2, <2>3, <3>1 DEF AttributionInv
    <3>2. CASE a \notin attempts
      <4>1. /\ a.matched = commands_for_scope_mismatches(a.node) /\ a.place = Len(commands)
            /\ a.node \in Node
        BY <2>1, <3>2 DEF Attributes, tokens
      <4> QED
        BY <1>2, <2>3, <4>1, MismatchesShowAll
    <3> QED
      BY <3>1, <3>2
  <2> QED
    BY <2>7, <2>8, <2>9 DEF AttributionInv
<1>7. TypeOK /\ FreshIsBlank
  BY DEF FenceInv
<1> QED
  BY <1>3, <1>4, <1>5, <1>6, <1>7, StepKinds

\* Attribution is sound, and complete for the actions the gateway blocked, whatever
\* heartbeats, late checkpoints and expiries recorded in between.
THEOREM AttributionExactHolds == Spec => []AttributionExact
<1>1. FenceInv /\ AttributionInv => AttributionExact
  <2> SUFFICES ASSUME FenceInv, AttributionInv PROVE AttributionExact
    OBVIOUS
  <2>1. DOMAIN commands = 1 .. Len(commands)
    BY LenProperties DEF FenceInv, TypeOK
  <2> QED
    BY <2>1
    DEF AttributionExact, AttributionInv, Attributed, FencingBefore, FenceInv, CommandsFence
<1> QED
  BY FenceInvInit, FenceInvStep, AttributionInit, AttributionStep, <1>1, PTL DEF Spec

-----------------------------------------------------------------------------
(* Proposals                                                               *)

\* An accepted proposal is used by one command at most: the one it froze and points to.
LEMMA ProposalsStep == FenceInv /\ ProposalUsedOnce /\ [Next]_vars => ProposalUsedOnce'
<1> SUFFICES ASSUME FenceInv, ProposalUsedOnce, [Next]_vars PROVE ProposalUsedOnce'
  OBVIOUS
<1>1. FenceInv'
  BY FenceInvStep
<1>2. /\ commands \in Seq(CommandRow) /\ Len(commands) \in Nat
      /\ DOMAIN commands = 1 .. Len(commands) /\ DOMAIN commands' = 1 .. Len(commands')
      /\ \A c \in 1 .. Len(commands) : commands[c].proposal \in Proposal \cup {NoProposal}
  <2>1. /\ commands \in Seq(CommandRow) /\ Len(commands) \in Nat
        /\ commands \in [1 .. Len(commands) -> CommandRow]
        /\ DOMAIN commands' = 1 .. Len(commands')
    BY <1>1, LenProperties DEF FenceInv, TypeOK
  <2> QED
    BY <2>1 DEF CommandRow
<1>3. ASSUME CommandsKept,
             \A q \in Proposal : proposals[q].status = "ACCEPTED" => proposals'[q] = proposals[q]
      PROVE  ProposalUsedOnce'
  BY <1>2, <1>3 DEF ProposalUsedOnce, CommandsKept, SameOrder
<1>4. ASSUME NEW s \in Scope, NEW row \in CommandRow, Issues(s, row)
      PROVE  ProposalUsedOnce'
  <2> DEFINE q == row.proposal
  <2>1. /\ Len(commands') = Len(commands) + 1
        /\ \A c \in 1 .. Len(commands) : commands'[c] = commands[c]
        /\ commands'[Len(commands) + 1] = row
    BY <1>2, <1>4 DEF Issues
  <2>2. /\ proposal_authorizes(q, row.type, row.target, row.tool)
        /\ \A p \in Proposal :
             proposals'[p] = IF p = q THEN [proposals[p] EXCEPT !.command = Len(commands) + 1]
                             ELSE proposals[p]
    BY <1>4 DEF Issues
  <2>3. q \in Proposal \cup {NoProposal}
    BY DEF CommandRow
  <2> HIDE DEF q
  <2>4. ASSUME NEW c \in 1 .. Len(commands), commands[c].proposal # NoProposal
        PROVE  commands[c].proposal # q
    BY <1>2, <2>2, <2>4 DEF proposal_authorizes, ProposalUsedOnce
  <2>5. ASSUME q # NoProposal
        PROVE  /\ proposals'[q].status = "ACCEPTED" /\ proposals'[q].command = Len(commands) + 1
               /\ proposals'[q].target = row.target /\ proposals'[q].type = row.type
               /\ proposals'[q].tool = row.tool
    <3>1. proposals[q] \in ProposalRow
      BY <2>3, <2>5 DEF FenceInv, TypeOK
    <3>2. proposals'[q] = [proposals[q] EXCEPT !.command = Len(commands) + 1]
      BY <2>2, <2>3, <2>5
    <3> QED
      BY <2>2, <2>5, <3>1, <3>2 DEF proposal_authorizes, ProposalRow
  <2>6. ASSUME NEW c \in 1 .. Len(commands) + 1, commands'[c].proposal # NoProposal
        PROVE  LET p == proposals'[commands'[c].proposal] IN
               /\ p.status = "ACCEPTED" /\ p.command = c
               /\ p.target = commands'[c].target /\ p.type = commands'[c].type
               /\ p.tool = commands'[c].tool
    <3>1. CASE c = Len(commands) + 1
      BY <2>1, <2>5, <2>6, <3>1 DEF q
    <3>2. CASE c \in 1 .. Len(commands)
      <4>1. /\ commands'[c] = commands[c] /\ commands[c].proposal \in Proposal
            /\ commands[c].proposal # q
        BY <1>2, <2>1, <2>4, <2>6, <3>2
      <4>2. proposals'[commands[c].proposal] = proposals[commands[c].proposal]
        BY <2>2, <4>1
      <4> QED
        BY <1>2, <2>6, <3>2, <4>1, <4>2 DEF ProposalUsedOnce
    <3> QED
      BY <1>2, <3>1, <3>2
  <2> QED
    BY <1>2, <2>1, <2>6 DEF ProposalUsedOnce
<1>5. ASSUME NEW p \in Node, NEW child \in Node, NEW caps \in SUBSET Capability,
             NEW cause \in Nat, Registers(p, child, caps, cause)
      PROVE  ProposalUsedOnce'
  BY <1>3, <1>5 DEF Registers
<1>6. ASSUME NEW n \in Node, NEW key \in ActionKey, NEW tool \in Tool, Commits(n, key, tool)
      PROVE  ProposalUsedOnce'
  BY <1>6 DEF Commits, ProposalUsedOnce
<1>7. CASE Quiet
  BY <1>3, <1>7 DEF Quiet
<1>8. TypeOK /\ FreshIsBlank
  BY DEF FenceInv
<1> QED
  BY <1>4, <1>5, <1>6, <1>7, <1>8, StepKinds

\* An accepted proposal produces at most one command, the one it froze, whoever retries it
\* under whatever key.
THEOREM ProposalUsedOnceHolds == Spec => []ProposalUsedOnce
<1>1. Init => ProposalUsedOnce
  BY DEF Init, create_run, ProposalUsedOnce
<1> QED
  BY FenceInvInit, FenceInvStep, <1>1, ProposalsStep, PTL DEF Spec
=============================================================================
