------------------------- MODULE CredentialRecovery -------------------------
(***************************************************************************)
(* Requests with an operation_key (services/credential_recovery.py and the *)
(* paths of spawn_service.py that use it): the answer of a registration or *)
(* an activation may be lost, and a retry opens the envelope the answer    *)
(* was sealed in, or rotates the credential once the envelope expired.     *)
(*                                                                         *)
(* A token is its version; a table column holds the version whose hash it  *)
(* stores.  The parent starts one worker for a child, with the activation  *)
(* token of the last answer it received.                                   *)
(***************************************************************************)
EXTENDS TraceFence

CONSTANT RecoveryTTL   \* credential_recovery_ttl_seconds

ASSUME RecoveryAssumption == RecoveryTTL \in Nat \ {0}

VARIABLES
  intent_token,         \* spawn_intents.activation_token_hash, 0 without an intent
  node_token,           \* nodes.token_hash, 0 for NULL
  spawn_envelope,       \* the SPAWN or REPLACEMENT envelope whose subject is the node
  activation_envelope,  \* its ACTIVATION envelope
  launched,             \* the activation token the node's worker was started with
  held                  \* the node token its worker holds

credentials == <<intent_token, node_token, spawn_envelope, activation_envelope,
                 launched, held>>
recoveryVars == <<vars, credentials>>

NoEnvelope == [token |-> 0, expires |-> 0]

RecoveryInit ==
  LET root_only == [n \in Node |-> IF n = Root THEN 1 ELSE 0] IN
  /\ Init
  /\ node_token = root_only /\ held = root_only
  /\ intent_token = [n \in Node |-> 0] /\ launched = [n \in Node |-> 0]
  /\ spawn_envelope = [n \in Node |-> NoEnvelope]
  /\ activation_envelope = [n \in Node |-> NoEnvelope]

\* Mutant: the credential is rotated and the envelope keeps the old one.
seal_envelope_kept(envelopes, n, version) ==
  [envelopes EXCEPT ![n] = [token |-> IF @.token = 0 THEN version ELSE @.token,
                            expires |-> now + RecoveryTTL]]

seal_envelope(envelopes, n, version) ==
  [envelopes EXCEPT ![n] = [token |-> version, expires |-> now + RecoveryTTL]]

\* An answer reaches its client, or it is lost.
answered(client, n, version) == {client, [client EXCEPT ![n] = version]}

\* authenticate_node: the caller presents the token whose hash is stored.
authenticated(n) == n \in tokens /\ held[n] = node_token[n]

-----------------------------------------------------------------------------
\* create_spawn and create_replacement with a new operation_key.
spawn_keyed(p, child) ==
  /\ authenticated(p)
  /\ \/ \E caps \in SUBSET Capability : create_spawn(p, child, caps)
     \/ \E c \in DOMAIN commands : create_replacement(p, child, c)
  /\ intent_token' = [intent_token EXCEPT ![child] = 1]
  /\ spawn_envelope' = seal_envelope(spawn_envelope, child, 1)
  /\ launched' \in answered(launched, child, 1)
  /\ UNCHANGED <<node_token, activation_envelope, held>>

\* Only a pending node with an open, unconsumed intent is recovered.
recoverable(n) == status[n] = "PENDING" /\ n \notin tokens /\ reg[n].expires > now

\* A retry by the parent.  Neither the parent's own state nor the scopes are looked at,
\* except that a replacement must still be the one its command names.
recover_spawn(n) ==
  /\ spawn_envelope[n] # NoEnvelope
  /\ authenticated(reg[n].parent)
  /\ reg[n].cause # 0 => commands[reg[n].cause].replacement = n
  /\ recoverable(n)

recover_spawn_replayed(n) ==
  /\ recover_spawn(n)
  /\ spawn_envelope[n].expires > now
  /\ launched' \in answered(launched, n, spawn_envelope[n].token)
  /\ UNCHANGED <<vars, intent_token, node_token, spawn_envelope, activation_envelope, held>>

\* An expired envelope: a new activation token, and the intent is open for longer.
recover_spawn_rotated(n) ==
  LET version == intent_token[n] + 1 IN
  /\ grants_open
  /\ recover_spawn(n)
  /\ spawn_envelope[n].expires <= now
  /\ intent_token' = [intent_token EXCEPT ![n] = version]
  /\ reg' = [reg EXCEPT ![n].expires = now + IntentTTL]
  /\ spawn_envelope' = seal_envelope(spawn_envelope, n, version)
  /\ launched' \in answered(launched, n, version)
  /\ UNCHANGED <<now, run, status, lease, token, scope, commands, acks, attempts,
                 proposals, checkpoints, node_token, activation_envelope, held>>

-----------------------------------------------------------------------------
activate_keyed(n, t) ==
  /\ launched[n] = intent_token[n]
  /\ activate(n, t)
  /\ node_token' = [node_token EXCEPT ![n] = 1]
  /\ activation_envelope' = seal_envelope(activation_envelope, n, 1)
  /\ held' \in answered(held, n, 1)
  /\ UNCHANGED <<intent_token, spawn_envelope, launched>>

\* A retry by the worker, with the clock read before the wait for the write lock.
recover_activation(n, t) ==
  /\ activation_envelope[n] # NoEnvelope
  /\ launched[n] = intent_token[n]
  /\ clock_read(1, t)

recover_activation_replayed(n, t) ==
  /\ recover_activation(n, t)
  /\ activation_envelope[n].expires > t
  /\ held' \in answered(held, n, activation_envelope[n].token)
  /\ UNCHANGED <<vars, intent_token, node_token, spawn_envelope, activation_envelope,
                 launched>>

\* Mutant: rotation looks at the status alone.
rotatable_status(n, t) == status[n] \in LiveStatus \cup EndStatus

\* Only a live node with a lease is given a new credential.
rotatable(n, t) == status[n] \in LiveStatus /\ lease[n] > t

recover_activation_rotated(n, t) ==
  LET version == node_token[n] + 1 IN
  /\ grants_open
  /\ recover_activation(n, t)
  /\ activation_envelope[n].expires <= t
  /\ rotatable(n, t)
  /\ node_token' = [node_token EXCEPT ![n] = version]
  /\ activation_envelope' = seal_envelope(activation_envelope, n, version)
  /\ held' \in answered(held, n, version)
  /\ UNCHANGED <<vars, intent_token, spawn_envelope, launched>>

-----------------------------------------------------------------------------
Recovery ==
  \/ \E p \in tokens, child \in fresh : spawn_keyed(p, child)
  \/ \E n \in Node : recover_spawn_replayed(n) \/ recover_spawn_rotated(n)
  \/ \E n \in Node, t \in 1 .. now :
       \/ activate_keyed(n, t)
       \/ recover_activation_replayed(n, t)
       \/ recover_activation_rotated(n, t)

\* The calls that need the node token.
Authenticated ==
  /\ \E n \in tokens :
       /\ authenticated(n)
       /\ \/ \E t \in 1 .. now : heartbeat_expired(n, t) \/ heartbeat_fenced(n, t)
                                 \/ heartbeat_renewed(n, t)
          \/ checkpoint_read(n)
          \/ complete_node(n)
          \/ n = Root /\ complete_root
  /\ UNCHANGED credentials

\* The operator's commands, the requests in flight, the scanner and the clock.
Environment ==
  /\ \/ \E key \in CommandKey, type \in CommandType, target \in Node,
          tool \in Tool \cup {NoTool} :
          issue_command(Operator, key, type, target, tool, NoProposal)
     \/ \E r \in checkpoints : \/ checkpoint_decide(r) \/ checkpoint_write(r)
                             \/ checkpoint_abandon(r)
     \/ Scanner
     \/ tick
  /\ UNCHANGED credentials

RecoveryNext == Recovery \/ Authenticated \/ Environment

RecoverySpec == RecoveryInit /\ [][RecoveryNext]_recoveryVars

-----------------------------------------------------------------------------
\* No answer is lost for good: in whatever order the retries of the parent and of the
\* worker, the rotations and the late clocks fall, an envelope opens to the credential
\* whose hash the tables hold, and the worker of an activated node can present the
\* activation token its own retry needs.
CredentialsRecoverable ==
  \A n \in Node :
    /\ spawn_envelope[n].token = intent_token[n]
    /\ n # Root => activation_envelope[n].token = node_token[n]
    /\ n \in tokens \ {Root} => launched[n] = intent_token[n]

\* A retry never gives authority back: a node credential is issued to a live node whose
\* lease has not run out by more than the wait for the lock, and the first one only while
\* no inherited scope was revoked, however often its intent was rotated and extended.
CredentialsFailClosed ==
  [][\A n \in Node : node_token'[n] # node_token[n] =>
       /\ status'[n] \in LiveStatus
       /\ lease'[n] > now - MaxWait
       /\ node_token[n] = 0 => scopes_allowed(n)]_recoveryVars
=============================================================================
