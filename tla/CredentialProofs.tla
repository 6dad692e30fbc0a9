-------------------------- MODULE CredentialProofs ---------------------------
(***************************************************************************)
(* Theorems about CredentialRecovery: retries, rotations and lost answers  *)
(* lose no credential and give no authority back, and what the control     *)
(* plane promises holds with them.                                         *)
(***************************************************************************)
EXTENDS CredentialRecovery, LifecycleProofs

-----------------------------------------------------------------------------
(* The control plane under recovery                                        *)

\* A rotation of an activation token extends the intent of n and nothing else of the tables.
Extends(n) ==
  /\ reg' = [reg EXCEPT ![n].expires = now + IntentTTL]
  /\ UNCHANGED <<now, run, status, lease, token, scope, commands, acks, attempts, proposals,
                 checkpoints>>

\* Every step with operation keys is a step of the control plane or extends an intent.
LEMMA RecoverySteps == [RecoveryNext]_recoveryVars => [Next]_vars \/ \E n \in Node : Extends(n)
<1> SUFFICES ASSUME [RecoveryNext]_recoveryVars PROVE [Next]_vars \/ \E n \in Node : Extends(n)
  OBVIOUS
<1>1. ASSUME NEW p \in tokens, NEW child \in fresh, spawn_keyed(p, child)
      PROVE  Next
  BY <1>1 DEF spawn_keyed, Next, Lifecycle
<1>2. ASSUME NEW n \in Node, recover_spawn_rotated(n)
      PROVE  Extends(n)
  BY <1>2 DEF recover_spawn_rotated, Extends
<1>3. ASSUME NEW n, recover_spawn_replayed(n)
      PROVE  UNCHANGED vars
  BY <1>3 DEF recover_spawn_replayed
<1>4. ASSUME NEW n \in Node, NEW t \in 1 .. now, activate_keyed(n, t)
      PROVE  Next
  BY <1>4 DEF activate_keyed, Next, Lifecycle
<1>5. ASSUME NEW n, NEW t, recover_activation_replayed(n, t) \/ recover_activation_rotated(n, t)
      PROVE  UNCHANGED vars
  BY <1>5 DEF recover_activation_replayed, recover_activation_rotated
<1>6. Authenticated => Next
  <2> SUFFICES ASSUME Authenticated PROVE Next
    OBVIOUS
  <2>1. tokens \subseteq Node
    BY DEF tokens
  <2> QED
    BY <2>1 DEF Authenticated, Next, Lifecycle, Checkpoints
<1>7. Environment => Next
  BY DEF Environment, Next, Control, Checkpoints, Scanner, Issuer
<1> QED
  BY <1>1, <1>2, <1>3, <1>4, <1>5, <1>6, <1>7 DEF RecoveryNext, Recovery, recoveryVars

\* All that was proved inductive of the control plane.
ControlInv ==
  FenceInv /\ TreeInv /\ AttributionInv /\ DecisionsEnd /\ JustifiedInv /\ ReplacementInv
  /\ OnceInv

\* It holds of the tables create_run leaves.
LEMMA ControlInvInit == Init => ControlInv
<1>1. Init => DecisionsEnd
  BY DEF Init, create_run, DecisionsEnd
<1> QED
  BY FenceInvInit, TreeInvInit, AttributionInit, JustifiedInit, ReplacementInit, OnceInit, <1>1
  DEF ControlInv

\* Every step of the control plane preserves it.
LEMMA ControlInvStep == ControlInv /\ [Next]_vars => ControlInv'
<1>1. FenceInv => TypeOK
  BY DEF FenceInv
<1> QED
  BY FenceInvStep, TreeInvStep, AttributionStep, DecisionsEndStep, JustifiedStep, ReplacementStep,
     OnceStep, <1>1
  DEF ControlInv

\* No part of it depends on how long an intent is open.
LEMMA ControlInvExtends ==
  ASSUME ControlInv, NEW n \in Node, Extends(n)
  PROVE  ControlInv'
<1>0. TypeOK
  BY DEF ControlInv, FenceInv
<1>1. /\ UNCHANGED <<now, run, status, lease, token, scope, commands, acks, attempts, proposals,
                     checkpoints>>
      /\ reg' \in [Node -> Registration]
      /\ \A m \in Node : /\ reg'[m].parent = reg[m].parent /\ reg'[m].caps = reg[m].caps
                         /\ reg'[m].snapshot = reg[m].snapshot /\ reg'[m].cause = reg[m].cause
  <2> DEFINE row == [reg[n] EXCEPT !.expires = now + IntentTTL]
  <2>1. now + IntentTTL \in Nat
    BY <1>0, RegistryAssumption DEF TypeOK
  <2>2. reg[n] \in Registration
    BY <1>0 DEF TypeOK
  <2>3. /\ row \in Registration
        /\ row.parent = reg[n].parent /\ row.caps = reg[n].caps
        /\ row.snapshot = reg[n].snapshot /\ row.cause = reg[n].cause
    BY <2>1, <2>2 DEF Registration
  <2>4. reg' = [reg EXCEPT ![n] = row]
    BY DEF Extends
  <2> HIDE DEF row
  <2>5. UNCHANGED <<now, run, status, lease, token, scope, commands, acks, attempts, proposals,
                    checkpoints>>
    BY DEF Extends
  <2> QED
    BY <1>0, <2>3, <2>4, <2>5 DEF TypeOK
<1>2. /\ \A m \in Node : snapshot_scopes(m)' = snapshot_scopes(m)
      /\ tokens' = tokens /\ allowed' = allowed
  BY <1>1 DEF snapshot_scopes, tokens, allowed
<1>3. /\ DOMAIN commands = 1 .. Len(commands)
      /\ \A a \in attempts : a.node \in Node
      /\ \A k \in acks : k.node \in Node
      /\ \A r \in checkpoints : r.node \in Node /\ \A k \in r.acks : k.node \in Node
      /\ \A m \in Node : reg[m].parent \in Node \cup {NoNode}
      /\ \A c \in 1 .. Len(commands) : commands[c].replacement \in Node \cup {NoNode}
                                       /\ commands[c].target \in Node
  <2>1. DOMAIN commands = 1 .. Len(commands) /\ commands \in [1 .. Len(commands) -> CommandRow]
    BY <1>0, LenProperties DEF TypeOK
  <2> QED
    BY <1>0, <2>1 DEF TypeOK, AttemptRow, CheckpointRow, Registration, CommandRow
<1>4. FenceInv'
  <2>1. TypeOK' /\ FreshIsBlank' /\ ActorsRegistered' /\ CommandsFence'
    BY <1>0, <1>1 DEF ControlInv, FenceInv, TypeOK, FreshIsBlank, ActorsRegistered, CommandsFence
  <2>2. NoStaleCommit'
    BY <1>1, <1>2, <1>3 DEF ControlInv, FenceInv, NoStaleCommit
  <2> QED
    BY <2>1, <2>2 DEF FenceInv
<1>5. TreeInv'
  <2>1. \A m, k \in Node : is_descendant(m, k)' <=> is_descendant(m, k)
    <3> SUFFICES ASSUME NEW m \in Node, NEW k \in Node
                 PROVE  is_descendant(m, k)' <=> is_descendant(m, k)
      OBVIOUS
    <3>1. \A S \in SUBSET Node :
            (\A j \in S : reg'[j].parent # NoNode => reg'[j].parent \in S)
              <=> (\A j \in S : reg[j].parent # NoNode => reg[j].parent \in S)
      BY <1>1
    <3> QED
      BY <1>1, <3>1 DEF is_descendant
  <2>2. FreshIsUnregistered' /\ ParentsDelegate'
    BY <1>1, <1>2, <1>3 DEF ControlInv, TreeInv, FreshIsUnregistered, ParentsDelegate
  <2>3. SnapshotsNest'
    BY <1>1, <1>2, <2>1 DEF ControlInv, TreeInv, SnapshotsNest
  <2>4. TargetsRegistered' /\ ToolsDelegated'
    BY <1>1, <1>3 DEF ControlInv, TreeInv, TargetsRegistered, ToolsDelegated, target_scope
  <2> QED
    BY <2>2, <2>3, <2>4 DEF TreeInv
<1>6. AttributionInv' /\ DecisionsEnd'
  BY <1>1, <1>2, <1>3 DEF ControlInv, AttributionInv, Attributed, FencingBefore, DecisionsEnd
<1>7. JustifiedInv'
  BY <1>1, <1>2, <1>3
  DEF ControlInv, JustifiedInv, ScopesStartAtOne, FencedStatusJustified, Justified
<1>8. ReplacementInv'
  <2>1. \A c \in 1 .. Len(commands) : Agrees(c)'
    BY <1>1, <1>2, <1>3 DEF ControlInv, ReplacementInv, Agreement, Agrees
  <2>2. HoldersNamed'
    BY <1>1, <1>2 DEF ControlInv, ReplacementInv, Agreement, HoldersNamed, tokens
  <2> QED
    BY <1>1, <1>2, <2>1, <2>2 DEF ControlInv, ReplacementInv, Agreement, CheckpointsHeld
<1>9. OnceInv'
  BY <1>1, <1>2, <1>3 DEF ControlInv, OnceInv, allowed
<1> QED
  BY <1>4, <1>5, <1>6, <1>7, <1>8, <1>9 DEF ControlInv

\* So it holds whatever retries, rotations and lost answers do.
LEMMA ControlInvRecovery == RecoverySpec => []ControlInv
<1>1. RecoveryInit => ControlInv
  BY ControlInvInit DEF RecoveryInit
<1>2. ControlInv /\ [RecoveryNext]_recoveryVars => ControlInv'
  BY ControlInvStep, ControlInvExtends, RecoverySteps
<1> QED
  BY <1>1, <1>2, PTL DEF RecoverySpec

\* With retries and rotations, still no stale commit, an exact attribution and an exact
\* subtree, one recovery per command, and statuses justified by the scopes.
THEOREM RecoveryKeepsInvariants ==
  RecoverySpec => [](/\ TypeOK /\ NoStaleCommit /\ FencesExactlySubtree /\ AttributionExact
                     /\ CommitWithinDelegation /\ FencedStatusJustified /\ ReplacementLifecycle
                     /\ OneRecoveryPerCommand)
<1>1. ASSUME ControlInv
      PROVE  /\ TypeOK /\ NoStaleCommit /\ FencesExactlySubtree /\ AttributionExact
             /\ CommitWithinDelegation /\ FencedStatusJustified /\ ReplacementLifecycle
             /\ OneRecoveryPerCommand
  <2>0. DOMAIN commands = 1 .. Len(commands)
    BY <1>1, LenProperties DEF ControlInv, FenceInv, TypeOK
  <2>1. TypeOK /\ NoStaleCommit /\ FencedStatusJustified
    BY <1>1 DEF ControlInv, FenceInv, JustifiedInv
  <2>2. FencesExactlySubtree /\ CommitWithinDelegation
    BY <1>1, SubtreeFromTree, DelegationFromTree DEF ControlInv
  <2>3. AttributionExact
    BY <1>1, <2>0
    DEF ControlInv, AttributionExact, AttributionInv, Attributed, FencingBefore, FenceInv,
        CommandsFence
  <2>4. ReplacementLifecycle
    BY <1>1, <2>0
    DEF ControlInv, ReplacementLifecycle, ReplacementInv, Agreement, HoldersNamed, Agrees
  <2>5. OneRecoveryPerCommand
    BY <1>1
    DEF ControlInv, ReplacementInv, Agreement, HoldersNamed, OnceInv, allowed,
        OneRecoveryPerCommand
  <2> QED
    BY <2>1, <2>2, <2>3, <2>4, <2>5
<1> QED
  BY ControlInvRecovery, <1>1, PTL

\* A retry gives a fenced node no longer lease, nor life to an ended one.
THEOREM RecoveryKeepsFences == RecoverySpec => FencedLeaseNeverGrows /\ EndedNodeStaysEnded
<1> DEFINE Lease == \A n \in registered : ~scopes_allowed(n) => lease'[n] <= lease[n]
           Ended == \A n \in Node :
                      /\ status[n] \in EndStatus
                      /\ \A r \in checkpoints : r.node = n => r.status \in EndStatus
                      => status'[n] \in EndStatus
<1>1. ASSUME ControlInv, [RecoveryNext]_recoveryVars
      PROVE  Lease /\ Ended
  <2>1. TypeOK /\ DecisionsEnd
    BY <1>1 DEF ControlInv, FenceInv
  <2>2. ASSUME NEW n \in Node, Extends(n)
        PROVE  Lease /\ Ended
    BY <2>1, <2>2 DEF Extends, registered, TypeOK
  <2> QED
    BY <1>1, <2>1, <2>2, FencedLeaseStep, EndedStep, RecoverySteps
<1>2. ControlInv /\ [RecoveryNext]_recoveryVars => [Lease]_vars /\ [Ended]_vars
  BY <1>1
<1> HIDE DEF Lease, Ended
<1>3. RecoverySpec => [][Lease]_vars /\ [][Ended]_vars
  BY ControlInvRecovery, <1>2, PTL DEF RecoverySpec
<1> QED
  BY <1>3 DEF Lease, Ended, FencedLeaseNeverGrows, EndedNodeStaysEnded

\* Retries and rotations are invisible to the fence: the control plane with recovery still
\* implements what the abstract fence promises.
THEOREM RecoveryImplementsFence == RecoverySpec => ImplementsFence
<1>1. RecoveryInit => F!FenceInit
  BY FenceRefinedInit DEF RecoveryInit
<1>2. ASSUME ControlInv, NEW n \in Node, Extends(n)
      PROVE  UNCHANGED F!fence_vars
  <2>1. /\ UNCHANGED <<scope, attempts>> /\ reg \in [Node -> Registration]
        /\ reg' = [reg EXCEPT ![n].expires = now + IntentTTL]
    BY <1>2 DEF Extends, ControlInv, FenceInv, TypeOK
  <2>2. \A m \in Node : reg'[m].snapshot = reg[m].snapshot
    BY <2>1 DEF Registration
  <2>3. \A m \in Node : snapshot_scopes(m)' = snapshot_scopes(m)
    BY <2>2 DEF snapshot_scopes
  <2> QED
    BY <2>1, <2>3 DEF F!fence_vars, fence_holds, fence_valid, fence_effects
<1>3. ControlInv /\ [RecoveryNext]_recoveryVars => [F!FenceNext]_(F!fence_vars)
  BY <1>2, RecoverySteps, FenceRefinedStep DEF ControlInv
<1> QED
  BY ControlInvRecovery, <1>1, <1>3, PTL DEF RecoverySpec, ImplementsFence, F!FenceSpec

-----------------------------------------------------------------------------
(* Credentials                                                             *)

\* Columns, envelopes and clients hold versions.
CredentialTypes ==
  /\ intent_token \in [Node -> Nat] /\ node_token \in [Node -> Nat]
  /\ launched \in [Node -> Nat] /\ held \in [Node -> Nat]
  /\ spawn_envelope \in [Node -> [token: Nat, expires: Nat]]
  /\ activation_envelope \in [Node -> [token: Nat, expires: Nat]]

\* The envelopes of a node open to the credentials its columns store, an activation was
\* sealed with a credential, and the worker was launched with the token its retry needs.
Recoverable(n) ==
  /\ activation_envelope[n] # NoEnvelope => node_token[n] # 0
  /\ spawn_envelope[n].token = intent_token[n]
  /\ n # Root => activation_envelope[n].token = node_token[n]
  /\ n \in tokens \ {Root} => launched[n] = intent_token[n]

CredentialInv == CredentialTypes /\ \A n \in Node : Recoverable(n)

\* Sealing writes the one envelope.
LEMMA SealType ==
  ASSUME NEW e \in [Node -> [token: Nat, expires: Nat]], NEW n \in Node, NEW version \in Nat,
         NEW until \in Nat, NEW new,
         new = [e EXCEPT ![n] = [token |-> version, expires |-> until]]
  PROVE  /\ new \in [Node -> [token: Nat, expires: Nat]]
         /\ new[n].token = version
         /\ \A m \in Node \ {n} : new[m] = e[m]
  OBVIOUS

\* An answer reaches its client or not; other clients hear nothing.
LEMMA AnsweredType ==
  ASSUME NEW client \in [Node -> Nat], NEW n \in Node, NEW version \in Nat,
         NEW new \in answered(client, n, version)
  PROVE  /\ new \in [Node -> Nat]
         /\ new[n] \in {client[n], version}
         /\ \A m \in Node \ {n} : new[m] = client[m]
  BY DEF answered

\* Before any request only the root holds a credential, and it needs no envelope.
LEMMA CredentialInit == RecoveryInit => CredentialInv
<1> SUFFICES ASSUME RecoveryInit PROVE CredentialInv
  OBVIOUS
<1>1. /\ node_token = [n \in Node |-> IF n = Root THEN 1 ELSE 0] /\ held = node_token
      /\ intent_token = [n \in Node |-> 0] /\ launched = [n \in Node |-> 0]
      /\ spawn_envelope = [n \in Node |-> NoEnvelope]
      /\ activation_envelope = [n \in Node |-> NoEnvelope]
  BY DEF RecoveryInit
<1>2. NoEnvelope \in [token: Nat, expires: Nat] /\ NoEnvelope.token = 0
  BY DEF NoEnvelope
<1> HIDE DEF NoEnvelope
<1> QED
  BY <1>1, <1>2 DEF CredentialInv, CredentialTypes, Recoverable

\* A step that concerns the credentials of n alone.
LEMMA RecoverableFrame ==
  ASSUME CredentialInv, CredentialTypes', NEW n \in Node, Recoverable(n)',
         \A m \in Node \ {n} :
           /\ intent_token'[m] = intent_token[m] /\ node_token'[m] = node_token[m]
           /\ spawn_envelope'[m] = spawn_envelope[m] /\ launched'[m] = launched[m]
           /\ activation_envelope'[m] = activation_envelope[m]
           /\ (m \in tokens') <=> (m \in tokens)
  PROVE  CredentialInv'
  BY DEF CredentialInv, Recoverable

\* Calls without an operation key leave the credentials of every node alone.
LEMMA CredentialsUntouched ==
  ASSUME Authenticated \/ Environment \/ UNCHANGED recoveryVars
  PROVE  UNCHANGED <<credentials, token>>
<1>1. ASSUME NEW n, NEW t,
             heartbeat_expired(n, t) \/ heartbeat_fenced(n, t) \/ heartbeat_renewed(n, t)
      PROVE  token' = token
  BY <1>1 DEF heartbeat_expired, heartbeat_fenced, heartbeat_renewed
<1>2. ASSUME NEW n, \/ checkpoint_read(n) \/ complete_node(n) \/ complete_root
      PROVE  token' = token
  BY <1>2 DEF checkpoint_read, complete_node, complete_root, tables
<1>3. ASSUME NEW r, \/ checkpoint_decide(r) \/ checkpoint_write(r) \/ checkpoint_abandon(r)
      PROVE  token' = token
  BY <1>3 DEF checkpoint_decide, checkpoint_write, checkpoint_abandon, tables
<1>4. ASSUME NEW key, NEW type, NEW target, NEW tool,
             issue_command(Operator, key, type, target, tool, NoProposal)
      PROVE  token' = token
  BY <1>4 DEF issue_command
<1>5. Scanner \/ tick => token' = token
  BY DEF Scanner, expire_stale_nodes, tick, tables
<1>6. Authenticated => UNCHANGED <<credentials, token>>
  BY <1>1, <1>2 DEF Authenticated
<1>7. Environment => UNCHANGED <<credentials, token>>
  BY <1>3, <1>4, <1>5 DEF Environment
<1> QED
  BY <1>6, <1>7 DEF recoveryVars, vars, tables

\* Every step keeps envelope, column and launched worker in agreement.
LEMMA CredentialStep ==
  ControlInv /\ CredentialInv /\ [RecoveryNext]_recoveryVars => CredentialInv'
<1> SUFFICES ASSUME ControlInv, CredentialInv, [RecoveryNext]_recoveryVars PROVE CredentialInv'
  OBVIOUS
<1>0. TypeOK /\ FreshIsBlank /\ now # 0
  BY DEF ControlInv, FenceInv, ReplacementInv
<1>c. CredentialTypes
  BY DEF CredentialInv
<1>n. now + RecoveryTTL \in Nat
  BY <1>0, RecoveryAssumption DEF TypeOK
<1>r. \A n \in Node : Recoverable(n)
  BY DEF CredentialInv
<1>t. tokens \subseteq Node
  BY DEF tokens
<1> HIDE DEF NoEnvelope
<1>1. ASSUME NEW p \in tokens, NEW child \in fresh, spawn_keyed(p, child)
      PROVE  CredentialInv'
  <2>1. child \in Node /\ child \notin tokens
    BY <1>0 DEF fresh, registered, FreshIsBlank, tokens
  <2>2. tokens' = tokens
    BY <1>1 DEF spawn_keyed, create_spawn, create_replacement, tokens
  <2>3. /\ intent_token' = [intent_token EXCEPT ![child] = 1]
        /\ spawn_envelope' = seal_envelope(spawn_envelope, child, 1)
        /\ launched' \in answered(launched, child, 1)
        /\ node_token' = node_token /\ activation_envelope' = activation_envelope
        /\ held' = held
    BY <1>1 DEF spawn_keyed
  <2>4. /\ spawn_envelope' \in [Node -> [token: Nat, expires: Nat]]
        /\ spawn_envelope'[child].token = 1
        /\ \A m \in Node \ {child} : spawn_envelope'[m] = spawn_envelope[m]
    <3>1. spawn_envelope \in [Node -> [token: Nat, expires: Nat]] /\ 1 \in Nat
      BY <1>c DEF CredentialTypes
    <3>2. spawn_envelope' = [spawn_envelope EXCEPT ![child] =
                               [token |-> 1, expires |-> now + RecoveryTTL]]
      BY <2>3 DEF seal_envelope
    <3> QED
      BY <1>n, <2>1, <3>1, <3>2, SealType
  <2>5. /\ launched' \in [Node -> Nat]
        /\ \A m \in Node \ {child} : launched'[m] = launched[m]
    <3>1. launched \in [Node -> Nat] /\ 1 \in Nat
      BY <1>c DEF CredentialTypes
    <3>2. launched' \in answered(launched, child, 1)
      BY <2>3
    <3> QED
      BY <2>1, <3>1, <3>2, AnsweredType
  <2>6. CredentialTypes'
    BY <1>c, <2>1, <2>3, <2>4, <2>5 DEF CredentialTypes
  <2>7. Recoverable(child)'
    BY <1>c, <1>r, <2>1, <2>2, <2>3, <2>4 DEF Recoverable, CredentialTypes
  <2>8. \A m \in Node \ {child} : intent_token'[m] = intent_token[m]
    BY <1>c, <2>3 DEF CredentialTypes
  <2> QED
    BY <2>1, <2>2, <2>3, <2>4, <2>5, <2>6, <2>7, <2>8, RecoverableFrame
<1>2. ASSUME NEW n \in Node, recover_spawn_replayed(n)
      PROVE  CredentialInv'
  <2>1. /\ launched' \in answered(launched, n, intent_token[n])
        /\ token' = token /\ intent_token' = intent_token /\ node_token' = node_token
        /\ spawn_envelope' = spawn_envelope /\ activation_envelope' = activation_envelope
        /\ held' = held
    BY <1>2, <1>r DEF recover_spawn_replayed, vars, tables, Recoverable
  <2>2. /\ launched' \in [Node -> Nat] /\ launched'[n] \in {launched[n], intent_token[n]}
        /\ \A m \in Node \ {n} : launched'[m] = launched[m]
    <3>1. launched \in [Node -> Nat] /\ intent_token[n] \in Nat
      BY <1>c DEF CredentialTypes
    <3>2. launched' \in answered(launched, n, intent_token[n])
      BY <2>1
    <3> QED
      BY <3>1, <3>2, AnsweredType
  <2>3. CredentialTypes' /\ tokens' = tokens
    BY <1>c, <2>1, <2>2 DEF CredentialTypes, tokens
  <2>4. Recoverable(n)'
    BY <1>r, <2>1, <2>2, <2>3 DEF Recoverable
  <2> QED
    BY <2>1, <2>2, <2>3, <2>4, RecoverableFrame
<1>3. ASSUME NEW n \in Node, recover_spawn_rotated(n)
      PROVE  CredentialInv'
  <2>1. PICK version \in Nat :
          /\ intent_token' = [intent_token EXCEPT ![n] = version]
          /\ spawn_envelope' = seal_envelope(spawn_envelope, n, version)
          /\ launched' \in answered(launched, n, version)
    <3>1. intent_token[n] + 1 \in Nat
      BY <1>c DEF CredentialTypes
    <3> QED
      BY <1>3, <3>1 DEF recover_spawn_rotated
  <2>2. /\ token' = token /\ node_token' = node_token
        /\ activation_envelope' = activation_envelope /\ held' = held /\ n \notin tokens
    BY <1>3 DEF recover_spawn_rotated, recover_spawn, recoverable
  <2>3. /\ spawn_envelope' \in [Node -> [token: Nat, expires: Nat]]
        /\ spawn_envelope'[n].token = version
        /\ \A m \in Node \ {n} : spawn_envelope'[m] = spawn_envelope[m]
    <3>1. spawn_envelope \in [Node -> [token: Nat, expires: Nat]]
      BY <1>c DEF CredentialTypes
    <3>2. spawn_envelope' = [spawn_envelope EXCEPT ![n] =
                               [token |-> version, expires |-> now + RecoveryTTL]]
      BY <2>1 DEF seal_envelope
    <3> QED
      BY <1>n, <3>1, <3>2, SealType
  <2>4. /\ launched' \in [Node -> Nat]
        /\ \A m \in Node \ {n} : launched'[m] = launched[m]
    <3>1. launched \in [Node -> Nat]
      BY <1>c DEF CredentialTypes
    <3>2. launched' \in answered(launched, n, version)
      BY <2>1
    <3> QED
      BY <3>1, <3>2, AnsweredType
  <2>5. CredentialTypes' /\ tokens' = tokens
    BY <1>c, <2>1, <2>2, <2>3, <2>4 DEF CredentialTypes, tokens
  <2>6. Recoverable(n)'
    BY <1>c, <1>r, <2>1, <2>2, <2>3, <2>5 DEF Recoverable, CredentialTypes
  <2>7. \A m \in Node \ {n} : intent_token'[m] = intent_token[m]
    BY <1>c, <2>1 DEF CredentialTypes
  <2> QED
    BY <2>2, <2>3, <2>4, <2>5, <2>6, <2>7, RecoverableFrame
<1>4. ASSUME NEW n \in Node, NEW version \in Nat \ {0},
             /\ node_token' = [node_token EXCEPT ![n] = version]
             /\ activation_envelope' = [activation_envelope EXCEPT ![n] =
                                          [token |-> version, expires |-> now + RecoveryTTL]]
             /\ held' \in answered(held, n, version),
             /\ intent_token' = intent_token /\ spawn_envelope' = spawn_envelope
             /\ launched' = launched /\ launched[n] = intent_token[n]
             /\ tokens' \ {n} = tokens \ {n}
      PROVE  CredentialInv'
  <2>1. /\ activation_envelope' \in [Node -> [token: Nat, expires: Nat]]
        /\ activation_envelope'[n].token = version
        /\ \A m \in Node \ {n} : activation_envelope'[m] = activation_envelope[m]
    <3>1. activation_envelope \in [Node -> [token: Nat, expires: Nat]]
      BY <1>c DEF CredentialTypes
    <3>2. activation_envelope' = [activation_envelope EXCEPT ![n] =
                                    [token |-> version, expires |-> now + RecoveryTTL]]
      BY <1>4
    <3> QED
      BY <1>n, <3>1, <3>2, SealType
  <2>2. held' \in [Node -> Nat]
    <3>1. held \in [Node -> Nat]
      BY <1>c DEF CredentialTypes
    <3>2. held' \in answered(held, n, version)
      BY <1>4
    <3> QED
      BY <3>1, <3>2, AnsweredType
  <2>3. CredentialTypes'
    BY <1>c, <1>4, <2>1, <2>2 DEF CredentialTypes
  <2>4. Recoverable(n)'
    BY <1>c, <1>r, <1>4, <2>1 DEF Recoverable, CredentialTypes
  <2>5. \A m \in Node \ {n} : node_token'[m] = node_token[m]
                             /\ ((m \in tokens') <=> (m \in tokens))
    BY <1>c, <1>4 DEF CredentialTypes
  <2> QED
    BY <1>4, <2>1, <2>3, <2>4, <2>5, RecoverableFrame
<1>5. ASSUME NEW n \in Node, NEW t \in 1 .. now, activate_keyed(n, t)
      PROVE  CredentialInv'
  <2>1. tokens' \ {n} = tokens \ {n}
    BY <1>0, <1>5 DEF activate_keyed, activate, tokens, TypeOK
  <2>2. /\ node_token' = [node_token EXCEPT ![n] = 1]
        /\ activation_envelope' = [activation_envelope EXCEPT ![n] =
                                     [token |-> 1, expires |-> now + RecoveryTTL]]
        /\ held' \in answered(held, n, 1)
        /\ intent_token' = intent_token /\ spawn_envelope' = spawn_envelope
        /\ launched' = launched /\ launched[n] = intent_token[n]
    BY <1>5 DEF activate_keyed, seal_envelope
  <2>3. 1 \in Nat \ {0}
    OBVIOUS
  <2> QED
    BY <1>4, <2>1, <2>2, <2>3, Zenon
<1>6. ASSUME NEW n \in Node, NEW t \in 1 .. now, recover_activation_rotated(n, t)
      PROVE  CredentialInv'
  <2>1. node_token[n] + 1 \in Nat \ {0}
    BY <1>c DEF CredentialTypes
  <2>2. tokens' \ {n} = tokens \ {n}
    BY <1>6 DEF recover_activation_rotated, vars, tables, tokens
  <2> QED
    BY <1>4, <1>6, <2>1, <2>2
    DEF recover_activation_rotated, recover_activation, seal_envelope
<1>7. ASSUME NEW n \in Node, NEW t \in 1 .. now, recover_activation_replayed(n, t)
      PROVE  CredentialInv'
  <2>1. /\ held' \in answered(held, n, activation_envelope[n].token)
        /\ UNCHANGED <<token, intent_token, node_token, spawn_envelope, activation_envelope,
                       launched>>
    BY <1>7 DEF recover_activation_replayed, vars, tables
  <2>2. held' \in [Node -> Nat]
    <3>1. held \in [Node -> Nat] /\ activation_envelope[n].token \in Nat
      BY <1>c DEF CredentialTypes
    <3>2. held' \in answered(held, n, activation_envelope[n].token)
      BY <2>1
    <3> QED
      BY <3>1, <3>2, AnsweredType
  <2> QED
    BY <1>c, <1>r, <2>1, <2>2 DEF CredentialInv, CredentialTypes, Recoverable, tokens
<1>8. CASE Authenticated \/ Environment \/ UNCHANGED recoveryVars
  BY <1>8, CredentialsUntouched
  DEF CredentialInv, CredentialTypes, Recoverable, credentials, tokens
<1> QED
  BY <1>1, <1>2, <1>3, <1>5, <1>6, <1>7, <1>8 DEF RecoveryNext, Recovery

\* In whatever order retries, rotations and late clocks fall, no answer is lost for good.
THEOREM CredentialsRecoverableHolds == RecoverySpec => []CredentialsRecoverable
<1>1. CredentialInv => CredentialsRecoverable
  BY DEF CredentialInv, Recoverable, CredentialsRecoverable
<1> QED
  BY ControlInvRecovery, CredentialInit, CredentialStep, <1>1, PTL DEF RecoverySpec

\* A credential is issued to a live node with a lease, and the first one of a node only
\* while no scope it inherits was revoked.
THEOREM CredentialsFailClosedHolds == RecoverySpec => CredentialsFailClosed
<1> DEFINE Closed == \A n \in Node : node_token'[n] # node_token[n] =>
                       /\ status'[n] \in LiveStatus
                       /\ lease'[n] > now - MaxWait
                       /\ node_token[n] = 0 => scopes_allowed(n)
<1>1. ASSUME ControlInv, CredentialInv, [RecoveryNext]_recoveryVars
      PROVE  Closed
  <2>0. /\ TypeOK /\ now \in Nat /\ node_token \in [Node -> Nat]
        /\ MaxWait \in Nat /\ LeaseTTL \in Nat /\ LeaseTTL > 0
    <3>1. TypeOK /\ CredentialTypes
      BY <1>1 DEF ControlInv, FenceInv, CredentialInv
    <3>2. MaxWait \in Nat /\ LeaseTTL \in Nat \ {0}
      BY RegistryAssumption
    <3> QED
      BY <3>1, <3>2 DEF CredentialTypes, TypeOK
  <2>1. ASSUME NEW n \in Node, NEW t \in 1 .. now, activate_keyed(n, t)
        PROVE  Closed
    <3>1. /\ node_token' = [node_token EXCEPT ![n] = 1]
          /\ status'[n] = "ACTIVE" /\ lease'[n] = t + LeaseTTL /\ scopes_allowed(n)
          /\ now <= t + MaxWait
      BY <2>0, <2>1 DEF activate_keyed, activate, clock_read, TypeOK
    <3>2. t + LeaseTTL > now - MaxWait
      BY <2>0, <3>1
    <3> QED
      BY <2>0, <3>1, <3>2 DEF LiveStatus
  <2>2. ASSUME NEW n \in Node, NEW t \in 1 .. now, recover_activation_rotated(n, t)
        PROVE  Closed
    <3>1. /\ node_token' = [node_token EXCEPT ![n] = node_token[n] + 1]
          /\ status'[n] = status[n] /\ lease'[n] = lease[n]
          /\ status[n] \in LiveStatus /\ lease[n] > t /\ now <= t + MaxWait
          /\ activation_envelope[n] # NoEnvelope
      BY <2>2
      DEF recover_activation_rotated, recover_activation, rotatable, clock_read, vars, tables
    <3>2. lease[n] > now - MaxWait
      <4>1. lease[n] \in Nat
        BY <2>0 DEF TypeOK
      <4> QED
        BY <2>0, <3>1, <4>1
    <3>3. node_token[n] # 0
      BY <1>1, <3>1 DEF CredentialInv, Recoverable
    <3> QED
      BY <2>0, <3>1, <3>2, <3>3
  <2>3. CASE node_token' = node_token
    BY <2>3
  <2>4. ASSUME NEW n, NEW t, \/ recover_spawn_replayed(n) \/ recover_spawn_rotated(n)
                             \/ recover_activation_replayed(n, t) \/ spawn_keyed(n, t)
        PROVE  node_token' = node_token
    BY <2>4
    DEF recover_spawn_replayed, recover_spawn_rotated, recover_activation_replayed, spawn_keyed
  <2>5. Authenticated \/ Environment \/ UNCHANGED recoveryVars => node_token' = node_token
    BY CredentialsUntouched DEF credentials
  <2> HIDE DEF Closed
  <2> QED
    BY <1>1, <2>1, <2>2, <2>3, <2>4, <2>5 DEF RecoveryNext, Recovery
<1>2. ControlInv /\ CredentialInv /\ [RecoveryNext]_recoveryVars => [Closed]_recoveryVars
  BY <1>1
<1> HIDE DEF Closed
<1>3. RecoverySpec => [][Closed]_recoveryVars
  BY ControlInvRecovery, CredentialInit, CredentialStep, <1>2, PTL DEF RecoverySpec
<1> QED
  BY <1>3 DEF Closed, CredentialsFailClosed
=============================================================================
