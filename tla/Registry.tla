------------------------------ MODULE Registry ------------------------------
(***************************************************************************)
(* The authoritative tables of one run (db/models.py), the run they start  *)
(* from (run_service.py) and the checks every service makes on them        *)
(* (services/common.py).                                                   *)
(*                                                                         *)
(* Names in lower case are the names of the source.  A node's owned scope  *)
(* has the identity of the node; RunScope is the scope of the run.         *)
(***************************************************************************)
EXTENDS Integers, Sequences, FiniteSets

CONSTANTS
  Node,          \* identities a node may be given: max_nodes_per_run of them
  Root,          \* the root coordinator, a member of Node
  NoNode,        \* SQL NULL where a node is expected
  RunScope,      \* the scope the whole run inherits
  Tool,          \* the tools, each standing for its capability "tool:<name>"
  NoTool,        \* SQL NULL where a tool is expected
  ControlCap,    \* capability "control:descendants"
  ProposeCap,    \* capability "tool:propose_correction"
  Operator,      \* the human principal
  Proposal,      \* identities of proposals: max_proposals_per_run of them
  NoProposal,    \* SQL NULL where a proposal is expected
  CommandKey,    \* idempotency keys of commands
  ActionKey,     \* idempotency keys of actions
  RootCaps,      \* capabilities the run was created with
  LeaseTTL,      \* lease_ttl_seconds
  IntentTTL,     \* spawn_intent_ttl_seconds
  MaxDepth,      \* max_graph_depth
  MaxChildren,   \* max_children_per_node
  MaxCommands,   \* max_commands_per_run
  MaxActions,    \* max_actions_per_run
  MaxCheckpoints,\* checkpoint requests the bounded service runtime serves at once
  MaxWait,       \* how long a request waits for the write lock: PRAGMA busy_timeout
  LastGrant,     \* bound of the model: the last instant of registrations and activations
  LastRenewal,   \* bound of the model: the last instant of lease renewals
  Horizon        \* bound of the model: the last instant of the clock

Capability == Tool \cup {ControlCap, ProposeCap}
Scope == Node \cup {RunScope}
Issuer == Node \cup {Operator}

ASSUME RegistryAssumption ==
  /\ Root \in Node /\ NoNode \notin Node
  /\ RunScope \notin Node /\ Operator \notin Node
  /\ NoTool \notin Tool /\ NoProposal \notin Proposal
  /\ RootCaps \subseteq Capability
  /\ LeaseTTL \in Nat \ {0} /\ IntentTTL \in Nat \ {0}
  /\ {MaxDepth, MaxChildren, MaxCommands, MaxActions} \subseteq Nat
  /\ {MaxCheckpoints, MaxWait, LastGrant, LastRenewal, Horizon} \subseteq Nat

VARIABLES
  now,        \* utcnow()
  run,        \* runs.status
  status,     \* nodes.status
  reg,        \* the columns of nodes and spawn_intents that registration writes
  lease,      \* nodes.lease_expires_at, 0 for NULL
  token,      \* the instant nodes.token_hash was set and the intent consumed, 0 if not
  scope,      \* control_scopes
  commands,   \* control_commands in the order they were committed
  acks,       \* command_acknowledgements
  attempts,   \* action_attempts with their action_command_matches
  proposals,  \* correction_proposals
  checkpoints \* checkpoint requests between their reads and their write

tables == <<run, status, reg, lease, token, scope, commands, acks, attempts, proposals>>
vars == <<now, tables, checkpoints>>

-----------------------------------------------------------------------------
RunStatus == {"RUNNING", "COMPLETED", "CANCELLED", "FAILED"}
LiveStatus == {"ACTIVE", "WAITING"}
EndStatus == {"COMPLETED", "CANCELLED", "SUPERSEDED", "LEASE_EXPIRED"}
NodeStatus == LiveStatus \cup EndStatus \cup {"PENDING"}
ScopeStatus == {"ACTIVE", "CANCELLED", "SUPERSEDED"}
CommandType == {"CANCEL_RUN", "CANCEL_SUBTREE", "CORRECT_SUBTREE"}
ReplacementStatus == {"PENDING", "ACTIVATION_EXPIRED", "ACTIVE", "COMPLETED"}
AckType == {"COOPERATIVE", "GATEWAY_BLOCK", "LEASE_EXPIRED"}

\* A registered node: the snapshot is a set, since no check depends on its order.
Registration ==
  [parent: Node \cup {NoNode}, generation: Nat, caps: SUBSET Capability,
   snapshot: SUBSET [scope: Scope, version: Nat],
   cause: Nat,         \* caused_by_command_id, 0 for NULL
   expires: Nat]       \* spawn_intents.expires_at

CommandRow ==
  [issuer: Issuer, key: CommandKey, type: CommandType, target: Node,
   scope: Scope, version: Nat, tool: Tool \cup {NoTool},
   proposal: Proposal \cup {NoProposal},
   parent: Node \cup {NoNode}, replacement: Node \cup {NoNode},
   rstatus: ReplacementStatus \cup {"NULL"}]

Unregistered ==
  [parent |-> NoNode, generation |-> 0, caps |-> {}, snapshot |-> {},
   cause |-> 0, expires |-> 0]

NoProposalRow ==
  [status |-> "NONE", type |-> "CANCEL_SUBTREE", target |-> NoNode,
   tool |-> NoTool, command |-> 0]

ProposalRow ==
  [status: {"NONE", "PENDING", "ACCEPTED", "REJECTED"},
   type: CommandType, target: Node \cup {NoNode},
   tool: Tool \cup {NoTool}, command: Nat]

AttemptRow ==
  [node: Node, key: ActionKey, tool: Tool, decision: {"ALLOW", "DENY"},
   matched: SUBSET Nat, place: Nat]

CheckpointRow ==
  [node: Node, status: NodeStatus, lease: Nat, to: NodeStatus \cup {"UNDECIDED"},
   acks: SUBSET [command: Nat, node: Node, type: AckType]]

TypeOK ==
  /\ now \in Nat
  /\ run \in RunStatus
  /\ status \in [Node -> NodeStatus \cup {"NONE"}]
  /\ reg \in [Node -> Registration]
  /\ lease \in [Node -> Nat]
  /\ token \in [Node -> Nat]
  /\ scope \in [Scope -> [version: Nat, status: ScopeStatus \cup {"ABSENT"}]]
  /\ commands \in Seq(CommandRow)
  /\ acks \in SUBSET [command: Nat, node: Node, type: AckType]
  /\ attempts \in SUBSET AttemptRow
  /\ proposals \in [Proposal -> ProposalRow]
  /\ checkpoints \in SUBSET CheckpointRow

-----------------------------------------------------------------------------
(* run_service.create_run: a RUNNING run, its scope and an ACTIVE root.    *)
create_run ==
  /\ now = 1
  /\ run = "RUNNING"
  /\ status = [n \in Node |-> IF n = Root THEN "ACTIVE" ELSE "NONE"]
  /\ reg = [n \in Node |->
              IF n = Root
              THEN [Unregistered EXCEPT
                      !.caps = RootCaps,
                      !.snapshot = {[scope |-> RunScope, version |-> 1],
                                    [scope |-> Root, version |-> 1]}]
              ELSE Unregistered]
  /\ lease = [n \in Node |-> IF n = Root THEN 1 + LeaseTTL ELSE 0]
  /\ token = [n \in Node |-> IF n = Root THEN 1 ELSE 0]
  /\ scope = [s \in Scope |->
                IF s \in {RunScope, Root}
                THEN [version |-> 1, status |-> "ACTIVE"]
                ELSE [version |-> 0, status |-> "ABSENT"]]
  /\ commands = <<>>
  /\ acks = {}
  /\ attempts = {}
  /\ proposals = [q \in Proposal |-> NoProposalRow]
  /\ checkpoints = {}

-----------------------------------------------------------------------------
registered == {n \in Node : status[n] # "NONE"}

\* The nodes with a credential: authenticate_node accepts no other.
tokens == {n \in Node : token[n] # 0}

\* Where a handler calls utcnow() before BEGIN IMMEDIATE, the clock it uses is that of
\* any instant since the caller could call and within the wait for the write lock.
clock_read(since, t) == since <= t /\ t <= now /\ now <= t + MaxWait

\* The snapshot entries of n that the live scopes contradict.
mismatches(n) ==
  {e \in reg[n].snapshot : \/ scope[e.scope].status # "ACTIVE"
                           \/ scope[e.scope].version # e.version}

\* Mutant: only the node's own scope is compared, not the inherited ones.
scopes_allowed_own(n) == reg[n].snapshot # {} /\ \A e \in mismatches(n) : e.scope # n

\* evaluate_scopes(...).allowed
scopes_allowed(n) == reg[n].snapshot # {} /\ mismatches(n) = {}

\* Mutant: the reason code is stored where the status belongs.
effective_status_reason(n) ==
  IF mismatches(n) # {} THEN "SCOPE_CANCELLED" ELSE "ACTIVE"

\* Mutant: a superseded scope is not told from a cancelled one.
effective_status_cancelled(n) == IF mismatches(n) # {} THEN "CANCELLED" ELSE "ACTIVE"

\* evaluate_scopes(...).effective_status: a cancelled or missing scope dominates.
effective_status(n) ==
  IF \/ reg[n].snapshot = {}
     \/ \E e \in mismatches(n) : scope[e.scope].status \in {"CANCELLED", "ABSENT"}
  THEN "CANCELLED"
  ELSE IF mismatches(n) # {} THEN "SUPERSEDED" ELSE "ACTIVE"

\* Mutant: only the most recent command is attributed.
commands_latest(n) ==
  {c \in DOMAIN commands :
     /\ \E e \in mismatches(n) : e.scope = commands[c].scope
     /\ \A d \in DOMAIN commands :
          (\E e \in mismatches(n) : e.scope = commands[d].scope) => d <= c}

\* The commands whose exact target scope and version the mismatches show.
commands_for_scope_mismatches(n) ==
  {c \in DOMAIN commands :
     \E e \in mismatches(n) : /\ e.scope = commands[c].scope
                              /\ scope[e.scope].version = commands[c].version}

\* Mutants: the inherited scopes are not checked; the node's status is not checked.
validate_without_scopes(n, st, until) ==
  IF run # "RUNNING" THEN "RUN_NOT_ACTIVE"
  ELSE IF st \notin LiveStatus THEN "NODE_NOT_ACTIVE"
  ELSE IF until <= now THEN "LEASE_EXPIRED"
  ELSE "ALLOWED"

validate_without_status(n, st, until) ==
  IF run # "RUNNING" THEN "RUN_NOT_ACTIVE"
  ELSE IF until <= now THEN "LEASE_EXPIRED"
  ELSE IF ~scopes_allowed(n) THEN "SCOPE_INVALID"
  ELSE "ALLOWED"

\* The first check that fails, for a node row read with status st and lease until.
validate_node_runtime_state(n, st, until) ==
  IF run # "RUNNING" THEN "RUN_NOT_ACTIVE"
  ELSE IF st \notin LiveStatus THEN "NODE_NOT_ACTIVE"
  ELSE IF until <= now THEN "LEASE_EXPIRED"
  ELSE IF ~scopes_allowed(n) THEN "SCOPE_INVALID"
  ELSE "ALLOWED"

node_allowed(n) == validate_node_runtime_state(n, status[n], lease[n]) = "ALLOWED"

\* t is a strict descendant of a: a is in every set closed under parent links that
\* contains t's parent.
is_descendant(a, t) ==
  /\ a # t
  /\ \A S \in SUBSET Node :
       /\ reg[t].parent \in S
       /\ \A m \in S : reg[m].parent # NoNode => reg[m].parent \in S
       => a \in S
  /\ reg[t].parent # NoNode

\* _record_ack, _record_lease_expiry_ack and _record_gateway_ack: one row per command,
\* node and type, so that recording is a union.
ack_rows(n, cs, type) == {[command |-> c, node |-> n, type |-> type] : c \in cs}

lease_expiry_acks(S) ==
  UNION {ack_rows(n, commands_for_scope_mismatches(n), "LEASE_EXPIRED") : n \in S}
=============================================================================
