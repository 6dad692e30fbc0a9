# A TLA+ model of TraceFence

TraceFence is a control plane for trees of agent processes. A run has a root coordinator;
nodes spawn children; an operator or an authorized node cancels or corrects a subtree; and a
gateway admits every protected tool action. The promise is that once a subtree is cancelled
or superseded nothing in it has a side effect any more, that the rest of the tree goes on,
and that a correction is carried out once. This directory models the services that keep that
promise, model-checks them on small instances with TLC and proves the main results for every
instance with TLAPS. Paths in this file are relative to `src/`; services are in
`src/tracefence/services/`.

## 1. Inventory

| Component | State | Operations | Hard part | What makes it correct |
|---|---|---|---|---|
| Registry (`db/models.py`, `common.py`) | runs, nodes, scopes, intents, commands, acknowledgements, attempts, proposals | checks shared by all services | every service reads and writes the same rows | the snapshot of a node is the chain of its ancestors' scopes |
| Spawn service | nodes, intents, `replacement_status` | spawn, activate, heartbeat, checkpoint, complete, replace | clocks read before the lock, checkpoint without a write lock, retry of replacements | no renewal for a fenced node, one credential per correction |
| Lease scanner | node status, run status | `expire_stale_nodes` | races with the node's own calls, strict comparison | every fenced or overdue node settles; expiry of the root ends the run |
| Control service, authority, proposals | commands, scope versions, proposals | issue, propose, review | overlapping subtrees, idempotency, proposals used once | fences exactly the subtree, attribution |
| Action gateway, tool registry | attempts, matches, service state | `execute` | race with commands, recovery contract | no stale commit, at most one recovery |
| Proof service, revision triggers, watermark | revision, cache, futures | `build` | reads without a transaction, single flight, cache validity | one revision per proof, current answers, no waiter left behind |
| Credential recovery | encrypted envelopes, token hashes | find, open, seal | lost responses, rotation, retries that overtake each other | an envelope opens to the credential the tables know; nothing revives an ended node |
| Invariant auditor, outbox | violations, outbox rows with claims | scan, claim, deliver | slow export, crash, claim expiry, calls of the same process | at-least-once delivery, acknowledged only after a flush |
| Service runtime, rate limiters | semaphore, thread pool, bucket table | run, stop, check | deadlines, capacity, eviction | the window is exact, permits are accounted for, an admitted operation is carried out |
| Worker | its tasks and its requests in flight | activate, heartbeat, checkpoint, act, complete | lost and late answers, lease loss during work | a true exit code, nothing begun after lease loss |
| Demo controller | session phase and lock, keepalive thread, worker process | start, transitions, checks, reset, close | handlers of several calls, any of which may fail, threads that outlive them | phases and verdicts are true, threads are stopped, handlers end |
| SigNoz reconciliation | none durable | `verify_command` | pagination, malformed evidence | never verified on missing evidence |
| Frontend, health, evidence, telemetry schema | none authoritative | display and report | - | - |

Interaction: all services are called from HTTP routes on a bounded thread pool and meet in
one SQLite database. Handlers that start with `BEGIN IMMEDIATE` are serialized by the
database; `checkpoint`, `seed_scenario` and the proof reads are not, because the driver opens
no transaction for a SELECT. The scanner and the auditor are loops of the API process.
`PROJECT.json` lists the hazards at their lines and the properties that cover them.

## 2. Modules

| Module | Models |
|---|---|
| `Registry` | tables of one run as variables, the initial state left by `create_run`, the checks of `common.py` |
| `SpawnService` | `spawn_service.py` |
| `ControlService` | `control_service.py`, `authority_service.py`, `proposal_service.py` |
| `ActionGateway` | `action_gateway.py` |
| `LeaseService` | `lease_service.py` |
| `TraceFence` | the services together, the clock, fairness, and the properties |
| `Fence` | the abstract specification: held scopes, valid scopes, effects |
| `CredentialRecovery` | `credential_recovery.py` and the paths of `spawn_service.py` with an operation key, over `TraceFence` |
| `Worker` | `runtime/worker.py` and the network between it and `TraceFence` |
| `DemoController` | `demo_controller.py`, `routes/demo.py` and `runtime/demo_worker.py`, over `TraceFence` |
| `ProofService` | the concurrency of `proof_service.py` |
| `Outbox` | `invariant_service.py` |
| `RequestPath` | `middleware.py` (rate limits), `rate_limits.py`, `dependencies.py` |
| `MCTraceFence`, `MCServices` | constants, symmetry, bounds and compositions for TLC |
| `TraceFenceProofs` | theorems: types, no stale commit, refinement of `Fence`, the tree of snapshots, attribution, proposals |
| `LifecycleProofs` | theorems: runs, leases and statuses of nodes, corrections and their replacements |
| `CredentialProofs` | theorems: `CredentialRecovery`, and all of the above under it |
| `WorkerProofs` | theorems: `Worker` over the control plane |
| `ProofServiceProofs` | theorems: `ProofService` |
| `ServicesProofs` | theorems: `Outbox`, and the pool and the limiter of `RequestPath` |
| `DemoProofs` | theorems: `DemoController` over the control plane, its phases and its keepalive thread |
| `CheckProofs` | theorems: the checks of `DemoController` |

The four service modules extend `Registry` and `TraceFence` extends them all, so that actions
of different services interleave on the same tables.

Correspondence. A committed handler is an action with the name of the handler; where a
handler has several committed outcomes there is an action for each (`heartbeat_expired`,
`heartbeat_fenced`, `heartbeat_renewed`). Requests that are refused roll back and are not
actions. A node's owned scope has the identity of the node. A snapshot is a set of scopes
with versions: no check depends on its order. An attempt records its `place`, the number of
commands committed before it, which is what the order of the event journal says.
A correction's manifest is reduced to its tool: the replacement policy derives capabilities,
contract and the child budget of 0 from it.

Time is an integer. `activate`, `heartbeat` and the scanner read `utcnow()` before
`BEGIN IMMEDIATE`; their actions take the instant `t` they read, any instant since the caller
could have called that is at most `MaxWait` (the busy timeout) old. `checkpoint` is three
steps: the node row is read; run, scopes and commands are read and the outcome is decided;
the outcome is written, as the ORM does it, only where it differs from the row read first.

`Fence` is small: a child may be registered below an unfenced parent and holds the parent's
scopes and its own; a scope may be revoked and never comes back; an effect needs a node none
of whose scopes is revoked. `TraceFence` implements it with a snapshot as the held scopes,
ACTIVE scopes as the valid ones and ALLOW attempts as the effects.

`ProofService` models one command's proof requested concurrently. A proof is what its reads
saw: the revision of each group of reads, how many leases had run out, and whether the
recovery's stability window had passed. `built` is what `build` holds beside the response, the
context of its last attempt and the watermark; a cache entry is filed under the key made of
it (`entry`) and carries that key and its expiry, which a request compares with the key of its
own context. Each read, the flush, the stability check and the publication under the lock are
steps. The verdict is left out, except that an unstable build is marked.

`CredentialRecovery` gives every token a version. A table column holds the version whose hash
it stores, an envelope the version sealed in it, and the clients hold the version of the last
answer that reached them; every answer may be lost. `create_spawn`, `create_replacement` and
`activate` become `spawn_keyed` and `activate_keyed`, which conjoin the action of
`SpawnService` with the envelope; a retry replays the envelope or, after it expired, rotates
the credential. Calls that authenticate need the version the table holds.

`Worker` has a main task, a heartbeat task, the set of requests in flight and the outcome
each task was given. A request is served by the actions of `TraceFence`, or refused, or lost,
or given up by the client while it goes on; an answer may be lost after the commit. `finish`
is the `finally` block. A mode is a command-line mode.

`DemoController` writes a handler as the sequence of its service calls, for example
`supersede` as lock, stop and join the keepalive thread, command, checkpoint, phase. `thread`
holds the rest of the handler that each task executes, and one action carries out its next
call, whatever happened since the one before. Calls made with `asyncio.gather` are one stage,
in any order. Every call may raise, which ends the handler and frees the lock. The keepalive
thread, the worker process (a release pipe, one checkpoint, one action, each answer of which
may come too late) and shutdown run beside the handlers. A behaviour is one demonstration on
one run, which is any entry of the controller's tables. Other entries reach it in one way:
`close()` empties both tables and ends the entries one by one, so that what an earlier one
raises ends the loop before it comes to this one (`closing_others`). A worker that survives
both waits of `terminate` makes `reset` and `close()` raise too (`killing`). `aborted`
remembers that one of them raised with the entry in hand.

`Outbox` takes `deliver_pending` apart at every transaction and around the flush, by calls of
several processes. The acknowledging transaction may fail after a flush that succeeded, and
ends in the same `except` branch as a failed flush; a read of a row, or the transaction of
that branch, may fail and end the call. A claim names its process. Time is reduced to the two instants that matter
to a row: its claim has lapsed, its retry is due.

`RequestPath` is the bucket table as the sequence that an `OrderedDict` is, and the pool with
its queue and semaphore. A request is counted in its client's bucket and, when it has an
operator key, in that operator's; a bucket's key has a limit of its own, the one for requests
or the one for proofs. `arrive` is one action, since nothing is awaited between the limiter
and the submission. `journal` is a history variable for the properties.

## 3. Runs

| Run | Checks | Instance | Result |
|---|---|---|---|
| `fencing` | types, proposals used once and as frozen, no stale commit, subtree exactness, attribution, delegation, frozen terminal runs, refinement of `Fence` | root and two nodes, two commands, one action; or one proposal, one node, two commands | holds |
| `leases` | fenced statuses are justified, no renewal when fenced, ended nodes stay ended, credentials recoverable and failing closed | root and a child, operation keys, lost answers, late clocks, a checkpoint, a command | holds |
| `recovery` | one recovery per correction, exact lifecycle column | correction, expiry of the intent, retry | holds |
| `settling` | fenced nodes settle, intents are resolved | root and a child with checkpoints, fair clock and scanner | holds |
| `worker` | types, true exit codes, no work after lease loss, a fenced worker stops | one worker of either mode, one command, one abandoned request at a time | holds |
| `demo` | true phases, keepalive stopped unless whoever forgot it raised, checks fail for nothing but an expired lease, handlers end | all seven demonstrations, two concurrent handlers | holds |
| `services` | outbox: types, delivered only after a flush, duplicates only after a disturbance, delivery is final, every violation is delivered; request path: types, exact windows, evictions, permits, admitted operations run | one event, two processes, two calls; three requests, two clients and an operator key, two buckets, a pool of one and a queue of one | holds |
| `proofs` | one revision per proof, single flight, keys that speak for the reads of their entries, every request answered | two requests, two attempts, two writes, one lease, one stability window | holds |
| `late_renewal` | "expired leases cannot be revived" | root and a child, `MaxWait` 1 | violated |
| `root_expiry` | expiry of the root ends the run | root and a child, fair | violated |
| `stale_follower` | "never stale `VERIFIED` output" | as `proofs` | violated |
| `mixed_command` | "A revision-consistent reconstruction" | as `proofs` | violated |

The four violated statements are quotations from the documents or tests; `PROJECT.json`
says under `findings` what the code does instead, and lists four more disagreements that the
passing runs reach.

- *Late renewal.* A heartbeat called before the end of the lease and served after it renews
  the lease if nothing recorded the expiry in between. Fencing is not affected
  (`FencedLeaseNeverGrows` holds).
- *Root expiry.* When the root's own late heartbeat or checkpoint records its expiry, the
  scanner no longer selects the root and the run stays RUNNING.
- *Stale follower.* A follower's own context is newer than the proof it is handed.
- *Mixed command.* The command row is read before the revision that labels the proof.
- *Second replacement* (`recovery`). A command whose replacement was never activated may get
  another one. What matters, that only one replacement can hold a credential and only one
  recovery is committed, is what the run checks.
- *Lease-expiry check* (`demo`). If the scanner records the expiry before the check is
  finished, the gateway denies for `NODE_NOT_ACTIVE`, and the check reports a failure that
  cannot be repeated.
- *Late start* (`demo`). A `start` that outlives its deadline may register its session after
  the controller was closed.
- *Forgotten manager* (`demo`). `close()` empties its tables before it ends the entries one by one;
  when the join of one is missed, because a renewal waits longer for the write lock (5 s)
  than the join does (3 s), or a worker does not die, the keepalive threads of the later
  entries renew leases for ever and keep the process from exiting. `reset` leaves out the
  manager when the worker does not die.

Some properties state an exact exception rather than hide it. `EndedNodeStaysEnded`: an ended
node can be made live again by a checkpoint that read its row before it ended (a lost update);
`FencedSettles` shows the damage is temporary for fenced nodes, and `NoStaleCommit` that it
never leads to a commit. `NoWorkAfterLoss`: one completion may follow a checkpoint whose
answer was there first. `OneExportUnlessDisturbed`: an event is exported twice only if a flush
failed, its claim lapsed, a process died, or its acknowledgement could not be written.
`HitIsCurrent`: a hit is of the rows and the run-out leases that the request found, but the end
of a stability window is in no key, so that it may call a recovery unsettled that has settled
since; it never does the reverse unless a newer write is there. `PermitsAccountedFor`: the permits that are
missing are those of running or queued operations and of operations cancelled by a stop.
`EvictionNeedsManyKeys`: a bucket is lost only after as many other keys as there are buckets
were used. `ForgottenManagerStops` speaks of an entry that was forgotten while no handler
runs, and excepts a `reset` or `close()` that raised between taking the entry out and closing
its manager: that is the *forgotten manager* above, and the only way. A session registered
after shutdown is the *late start*.

Bounds. The quotas of the configuration (nodes, commands, actions, depth) are real limits of
the system, set small. `Horizon`, `LastGrant` and `LastRenewal` bound the clock and the time
in which leases and intents are granted; `MaxRevision` and `MaxLapsed` bound writes and
leases in the proof model; `MaxAbandoned` the requests a worker has given up and that still
go on; `MaxRequests` and `MaxStops` the requests and restarts of the request path; the
history of exports counts to two. They are chosen so that each interesting event can happen
and something can happen after it: two overlapping commands and an action between them, a
lease that ends while a heartbeat waits, an intent that expires and a retry that is activated,
an envelope that expires before the retry of a lost answer, a write in every gap of two proof
attempts, a heartbeat that fails twice while another request is abandoned, a claim that lapses
while the flush it covers is running, a window that closes and a table that is full, a
transition that fails and is retried while a reset is on its way.

Two constraints cut combinations that influence no property of their run: `MCRecoveryBound`
drops blocked actions and partial delegation from `recovery`, and `MCProposalBound` lets
`fencing` combine a proposal, or a child that may make one, with one child and no action
only. In `demo` a lease lasts one instant and requests do not wait for the lock (`MaxWait` 0):
late clocks are the subject of `leases`. Deadlock is not checked: a run may end, a process may
exit and quotas may be used up. Symmetry is used only in runs without liveness.

Fairness. `settling` and `root_expiry` assume that the clock advances and that a scan with a
current clock eventually happens: the scanner loop of `api/main.py` catches every exception
and sleeps a fixed time. Nothing is assumed of workers, operators or pending requests. In
`proofs` each request is served fairly: it has a thread of its own and the flush and the
reconciliation have timeouts. In `worker` the event loop runs what is ready, the heartbeat
interval passes, and each awaited request ends, because `httpx` has a timeout for every phase;
nothing is assumed of the scanner, of the operator or of whoever releases the worker. In
`demo` a thread that can go on goes on, and every call returns or raises; the worker, the
clock and the keepalive thread may stop for ever, so that only the deadlines of
`demo_controller.py` let a handler end. In `services` the auditor loop of a running process
calls again and again and claims lapse; the flush, the next event and the acknowledgement are
strongly fair only while the claim of their call holds, that is, neither the exporter nor the
writes of the outbox fail for ever, and they are not always slower than a claim lasts; and the threads of the pool run.

## 4. Proofs

Every theorem holds for every set of nodes, tools, keys, requests, processes and events, and
for every quota, limit and deadline that satisfies the assumption of its module
(`RegistryAssumption`, `RecoveryAssumption`, `WorkerAssumption`, `DemoAssumption`,
`ProofAssumption`, `OutboxAssumption`, `RequestAssumption`, `LimitAssumption`): constants
that stand for nothing are not elements of the sets they stand outside of, limits are numbers, those of which zero makes no sense
are positive, and the nodes, tools and keys that `demo_controller.py` names are different
(fresh UUIDs and different literals). Nothing else is assumed. `PROJECT.json` lists the theorems.

**The fence** (`TraceFenceProofs`: `TypeCorrect`, `NoStaleCommitHolds`, `FenceRefinement`).
The inductive invariant is `FenceInv`: types; `FreshIsBlank`, an identity not yet used has no
snapshot and an absent scope; `ActorsRegistered`, only registered nodes made attempts;
`CommandsFence`, the scope of every command is fenced at the version the command gave it; and
`NoStaleCommit`. `NoStaleCommit` alone is not inductive: an action is refused because the
*scope* is fenced, so one needs to know that no step gives a command's scope back, and a new
command must not find an attempt with a later place. `StepKinds` divides all steps into those
that register a node, issue a command, commit an action, or leave snapshots, scopes, commands
and committed actions alone; the invariant and the refinement each need one argument per kind
instead of one per action. Checkpoints and heartbeats, with all their stale reads, are of the
last kind: that is why they cannot harm the fence.

**Subtrees, attribution, proposals** (`TraceFenceProofs`: `FencesExactlySubtreeHolds`,
`CommitWithinDelegationHolds`, `AttributionExactHolds`, `ProposalUsedOnceHolds`). `FencesExactlySubtree` compares
snapshots with descent, which is a statement about chains of parents of any length. `TreeInv`
makes it inductive without following a chain: `SnapshotsNest` says that the scopes in a
snapshot are the node's own and those of ancestors, with all that theirs contain,
`ParentsDelegate` that a child holds its parent's scope and no capability its parent lacks,
and descent itself is defined by closed sets of nodes, which a registration does not disturb
(`DescentKept`); that a descendant holds the scope of the target follows because the scopes
of its snapshot are such a set (`SubtreeFromTree`). `CommitWithinDelegation`
follows from the same invariant. `AttributionInv` speaks also of acknowledgements that a
checkpoint has decided and not yet written; they stay true because a command fences its scope
for good at one version (`MismatchesShowAll`). `ProposalUsedOnce` is inductive given `FenceInv`.

**Runs, leases, statuses** (`LifecycleProofs`). `RowsMoveStep` says once what any step may do
to status, lease and token of a node, and the action properties follow from it.
`EndedNodeStaysEnded` needs `DecisionsEnd`: a checkpoint that read an ended node decides an
end status, so that the exception the property names is the only one.
`FencedStatusJustified` needs, in `JustifiedInv`, that scopes start at version 1 and that the
status a pending checkpoint is about to write is already justified; what justifies it cannot
go away, since a fenced scope never changes back.

**Corrections** (`LifecycleProofs`). `ReplacementLifecycle` is not inductive: a retry names
another node, and the one named before must never get a credential. `Agrees` ties the node a
command names to the command, its credential to `replacement_status`, and
ACTIVATION_EXPIRED to a node recorded as expired; `HoldersNamed` says that a replacement with
a credential is the one its command names. The delicate step is a retry after expiry:
`ExpiredStaysExpired` shows that the abandoned replacement can no longer be activated. A node
that never had a credential has no checkpoint under way (`CheckpointsHeld`), and only a
checkpoint could give it another status. `OneRecoveryPerCommand` is then a matter of at most one holder per command and at most one
commit per replacement (`OnceInv`).

**Credentials** (`CredentialProofs`). `RecoverySteps`: a step with operation keys is a step of
the control plane or `Extends` an intent. No invariant above depends on the end of an intent
being fixed (`ControlInvExtends`), so all of them hold under `RecoverySpec`
(`RecoveryKeepsInvariants`, `RecoveryKeepsFences`), and so does the refinement of `Fence`
(`RecoveryImplementsFence`). `CredentialInv` keeps columns, envelopes and launched workers in
agreement; `CredentialsRecoverable` and `CredentialsFailClosed` follow, the latter with
`MaxWait` as the exact distance by which a late clock may overshoot a lease.

**Worker** (`WorkerProofs`). `WorkerDrivesControlPlane`: whatever the network does, `Worker`
takes only steps of `TraceFence`, hence `WorkerSpec => Spec`. `ExitFaithful` needs that no
checkpoint is left in the network, or in the service, that could overwrite COMPLETED with
what it read before (`CheckpointInv`), and what every answer says has happened
(`OutcomeInv`); both need to know which request the main task waits for (`RequestsInv`).

**Proof service** (`ProofServiceProofs`). `StableProofIsOneRevision` rests on `ReadsInOrder`:
the revisions seen lie between the one the proof is labelled with and the present, so that
the stability check, if it passes, makes them one. `OwnerBuilds` makes `SingleFlight`
inductive; `NoOrphanedFollower` proves that a waiting request always has a future with an
outcome or a builder. `HitIsCurrent` compares what a request found with the reads of a build
that ran long before; the link is `KeysTellTheReads`: every entry `SpeaksFor` its key, that is,
its response is stable, read its rows at the revision and classified its nodes with the leases
that the key names. The entry is stored after the stability check and outside of it, so the
invariant carries, from the last read of an attempt to the store, what `built` says of its
reads. `OwnAnswerIsCurrentHolds` proves the complement of the counterexample
in `stale_follower`: only a follower can be given a revision it had seen surpassed.

**Outbox and pool** (`ServicesProofs`). `Settled` says that a delivered row was flushed and
has no claim or timer left; `StepsJustified` and `HeldRecorded` say what a call at each program point
knows of its rows; and `UndisturbedHeldOnce`, for events not yet disturbed, that at most one
call holds them, before their only emission. `PermitsAccountedFor` counts operations with a
permit (`charged`), one more or one less at a time (`ChargedMoves`).

**Limiter** (`ServicesProofs`: `WindowExactHolds`, `EvictionNeedsManyKeysHolds`,
`RequestTypeOKHolds`). `_consume` runs once or twice in a step, so its invariant `LimiterInv`
is stated of any table, log and time. The table forgets what the properties speak of; the
invariant says what it still knows. `Counts`: the hits of a bucket are, in order, the grants
of its key since the bucket was made, and all those within the window; `Known`: a key with a
grant since its last eviction has a bucket; `Recent`: the order of the table is that of the
last uses of its keys. A window that is still open lies then within the hits
(`OpenWindows`), so that it has room for a grant exactly when the bucket has, and the first
hit of a full bucket begins the window that justifies a refusal. When a full table loses its
first bucket, all others and the key that comes in were used after it (`EvictionEarned`).
Between the two halves of `_consume`, the eviction and the use, `HalfInv` holds: there the
key has no place and the last eviction is not yet accounted for. That expired hits are a
prefix (`FreshPrefix`) takes the least element of a set of numbers (`Least`).

**Demonstrations** (`DemoProofs`: `DemoDrivesControlPlane`, `ForgottenManagerStopsHolds`,
`PhaseTruthfulHolds`). A thread is left with a suffix of its handler, and the proofs need to
know of it which calls it still makes and in which order, not which suffix it is. `Script`
says both: the calls of a sequence of stages, and that no call of it follows one that it may
not follow (`MayFollow`: nothing is registered before the keepalive thread is started, no
lock, command or check comes after a phase is entered, and so on). The script of each handler
is put together from its steps (`Sequel`), and what is left after any call is again a script
(`Remaining`). `ThreadsInv` says that every thread has one; hence every call is one of the
handlers', and every step is a step of `TraceFence` or leaves its tables alone: all theorems
about `Spec` hold of the demonstrations, whatever they interleave.

`ForgottenManagerStops` is not inductive: while handlers run, the manager may be running,
unlisted and not asked to stop. `ManagerInv` says who will take care of it then, unless
`aborted` is set. A handler that is about to list the session with no call before it that
could end the handler (`Starting`), or one that is to stop the thread with no call before it
but those whose failure sets `aborted` (`Stopping`, `ClosingKinds`); the handler that starts the thread is alone in
doing so, and whoever detaches the manager joined it first (`HandlerInv`).

`PhaseTruthful` speaks of the last call of a handler, `Promises` of all of it: a handler that
is to enter a phase still has the calls before it that make the phase true, or what they
establish is true. When the phase is entered they cannot be left, because they may not
follow. What is established stays so (`StoryGoesOn`): one command, at most one action of the
stale worker, which is denied because it is only released after the correction (`Signals`)
and its snapshot holds the corrected scope, and at most one of the replacement (`StoryInv`).
`Deeds` divides all steps, of handlers, keepalive thread, worker and scanner, into the
registrations, the correction, those two actions and what concerns none of them.

**Checks** (`CheckProofs`: `ChecksFailClosedHolds`). The verdict is given by the last call of a
check, over a ledger that other handlers, the scanner and every failure had a chance to
disturb. The inductive invariant is `ChecksInv`. For the five checks of one request it says
that a lease has run out (`Lapsed`, which lasts: no lease is renewed once it is over, since
clocks are current here, `LapsedStays`) or `CheckInv` holds:

- `Working`: what is left of the handler is sorted, preparations before actions, actions
  before the end of the run, that before the verdict (`rank`, `Sorted`), and each action the
  check wants is recorded or still to be made by a node that is live or about to be activated,
  and the command that cuts is still to come or has cut (`Kept`). A call that failed ended
  the handler, so that nothing of it is left but closing down (`Closing`).
- `CheckTables`: no scope but the database's is fenced before the run is (`Fences`), every
  snapshot is that of the tree the check builds (`Lineage`), the actors have the capabilities
  of the actions that are to be allowed (`Grants`), and the ledger holds none but the check's
  actions, each with the reason the check expects (`Ledger`).
- `Handlers` and `Resting`: at most one handler is the check's, the others close down; the
  keepalive thread and the worker have nothing to do.

`GatewayTells` is the core: with these tables and no lease run out, the gateway's reason is
the expected one for each action of each check, one case per kind of denial. `Acts` and `told`
state the five checks at once, so that the rest of the argument is made once and not five
times; `CheckPerforms` makes it call by call. The lease check has an invariant of its own
(`LeaseInv`: whoever is to give its verdict began when the database's lease had run out, and
nobody could have listed the check before the database had a credential), and the
stale-supersession demonstration gives no verdict. The theorem says nothing of the checks'
progress: a check may fail with an exception, and then has no verdict.

Every invariant and every action property of the passing runs is stated by a theorem. Only
model-checked, and why:

- liveness (`FencedSettles`, `PendingResolved`, `EveryRequestAnswered`, `FencedWorkerStops`,
  `HandlersEnd`, `EveryViolationDelivered`, `AdmittedOperationRuns`): fairness and `ENABLED`
  are out of the prover's reach;
- the four statements the violation runs refute.

## 5. Not modelled

- Several runs at once and their isolation; digests and the content of instructions,
  arguments and manifests; encryption itself (an envelope is opened by the key that sealed it).
- `ServiceState`: the effect of a tool on the demonstration's services and `seed_scenario`.
  Effects are counted as committed actions.
- The verdicts of a proof: classification of nodes, replacement and recovery verdicts, the
  severity lattice, and the SigNoz reconciliation that feeds it (parsing and pagination of an
  external service's answers).
- Stop and restart of the API process as a whole: its tables are durable and each handler is
  one transaction, so that a stop between two handlers is the absence of the second; the
  crash inside a delivery is in `Outbox`, the restart of the pool in `RequestPath`.
- Configuration, schema migration, telemetry declarations, release evidence, provisioning
  scripts and the frontend: they hold no authoritative state. Reads for display change nothing.

## 6. Plan

1. Proof verdicts: classification of affected nodes, the replacement and recovery verdicts
   and the severity lattice, as operators checked against a reference definition.
2. Service state and recovery postconditions; `seed_scenario` against spawns and actions.
3. Theorems: what the checks and the transitions do when a lease has run out, to replace the
   exception in `ChecksFailClosed` by the reasons the gateway may store then.
