---------------------------- MODULE ProofService ----------------------------
(***************************************************************************)
(* services/proof_service.py, ProofService.build: the proof of one command *)
(* asked for by concurrent requests, each on a worker thread of its own.   *)
(* One request builds, the others wait for its future; a finished proof is *)
(* cached under a key made of the context its build read, not of the proof *)
(* itself.                                                                 *)
(*                                                                         *)
(* A proof is what its reads saw: no SELECT of the build shares a          *)
(* transaction with another.  The verdicts computed from them are left     *)
(* out, except that an unstable build is marked CHANGED.                   *)
(***************************************************************************)
EXTENDS Integers, FiniteSets

CONSTANTS
  Request,        \* concurrent calls of build
  NoRequest,      \* no future
  MaxAttempts,    \* _MAX_PROOF_STABILITY_ATTEMPTS
  MaxRevision,    \* bound of the model on proof-relevant writes
  MaxLapsed       \* bound of the model on leases that run out

ASSUME ProofAssumption ==
  /\ NoRequest \notin Request
  /\ MaxAttempts \in Nat \ {0}
  /\ {MaxRevision, MaxLapsed} \subseteq Nat

VARIABLES
  revision,   \* runs.proof_revision
  lapsed,     \* how many leases have run out, which no write records
  settled,    \* the stability window of the recovery has passed, which no write records
  sequence,   \* _export_sequence
  mark,       \* the export watermark of this command, 0 for None
  cache,      \* _cache
  inflight,   \* _inflight[command_id]: the request that owns the future
  done,       \* the requests whose future has a result or an exception
  pc,         \* where each request is
  context,    \* its initial_context and initial_watermark
  future,     \* the request whose future it waits for
  built,      \* the context and reconciled_watermark of its last attempt
  tries,      \* its unstable attempts
  proof       \* the response it has built or was given

env == <<revision, lapsed, settled, sequence, mark>>
proof_vars == <<env, cache, inflight, done, pc, context, future, built, tries, proof>>

Building == {"command", "revision", "rows", "nodes", "flush", "check", "publish", "unstable"}
Answered == {"built", "followed", "hit", "failed"}
Steps == {"idle", "watermark", "lookup", "waiting"} \cup Building \cup Answered

\* Of nearest_lease_expiry only which lease it is: the lapsed before it; mark 0 is None.
Context == [revision: Nat, lapsed: Nat, mark: Nat]

\* A response: what it says follows from when its reads were made.
Proof ==
  [kind: {"STABLE", "CHANGED"},
   command: Nat,            \* revision at which the command row was read
   seen: SUBSET Nat,        \* revisions at which the other rows were read
   lapsed: Nat,             \* the leases run out when the nodes were classified
   settled: BOOLEAN]        \* whether stable_before lay after the recovery's last write

Key == [revision: Nat, export_watermark: Nat, nearest_lease_expiry: Nat]
Entry == [key: Key, expires_at: Nat, response: Proof]

NoContext == [revision |-> 0, lapsed |-> 0, mark |-> 0]
NoProof ==
  [kind |-> "STABLE", command |-> 0, seen |-> {}, lapsed |-> 0, settled |-> FALSE]

ProofTypeOK ==
  /\ {revision, lapsed, sequence, mark} \subseteq Nat
  /\ settled \in BOOLEAN
  /\ cache \in SUBSET Entry
  /\ inflight \in Request \cup {NoRequest}
  /\ done \in SUBSET Request
  /\ pc \in [Request -> Steps]
  /\ context \in [Request -> Context] /\ built \in [Request -> Context]
  /\ future \in [Request -> Request \cup {NoRequest}]
  /\ tries \in [Request -> Nat]
  /\ proof \in [Request -> Proof]

ProofInit ==
  /\ revision = 1 /\ lapsed = 0 /\ sequence = 0 /\ mark = 0
  /\ settled = FALSE
  /\ cache = {}
  /\ inflight = NoRequest
  /\ done = {}
  /\ pc = [r \in Request |-> "idle"]
  /\ context = [r \in Request |-> NoContext]
  /\ built = [r \in Request |-> NoContext]
  /\ future = [r \in Request |-> NoRequest]
  /\ tries = [r \in Request |-> 0]
  /\ proof = [r \in Request |-> NoProof]

at(r, step) == pc[r] = step
goto(r, step) == pc' = [pc EXCEPT ![r] = step]

-----------------------------------------------------------------------------
(* The world around build.                                                 *)

requests == <<cache, inflight, done, pc, context, future, built, tries, proof>>

\* Any service writes a proof-relevant row: the triggers of db/engine.py bump the run.
\* invariants.scan, in the middle of a build, is one of them.  A write to service_states
\* starts the stability window again, from the time its writer had read.
proof_relevant_write ==
  /\ revision < MaxRevision
  /\ revision' = revision + 1
  /\ settled' \in BOOLEAN
  /\ UNCHANGED <<lapsed, sequence, mark, requests>>

\* The nearest lease runs out.
lease_lapses ==
  /\ lapsed < MaxLapsed
  /\ lapsed' = lapsed + 1
  /\ UNCHANGED <<revision, settled, sequence, mark, requests>>

\* The contract's stability_window_seconds have gone by.
window_passes ==
  /\ ~settled
  /\ settled' = TRUE
  /\ UNCHANGED <<revision, lapsed, sequence, mark, requests>>

\* The proof of another command exports: the only watermark kept is the last one.
other_export ==
  /\ mark # 0
  /\ mark' = 0
  /\ UNCHANGED <<revision, lapsed, settled, sequence, requests>>

-----------------------------------------------------------------------------
(* Every request.                                                          *)

_current_context(r) ==
  /\ at(r, "idle")
  /\ context' = [context EXCEPT ![r].revision = revision, ![r].lapsed = lapsed]
  /\ goto(r, "watermark")
  /\ UNCHANGED <<env, cache, inflight, done, future, built, tries, proof>>

initial_watermark(r) ==
  /\ at(r, "watermark")
  /\ context' = [context EXCEPT ![r].mark = mark]
  /\ goto(r, "lookup")
  /\ UNCHANGED <<env, cache, inflight, done, future, built, tries, proof>>

_cache_key(c) ==
  [revision |-> c.revision, export_watermark |-> c.mark, nearest_lease_expiry |-> c.lapsed]

\* _prune_cache_locked, then the eviction of the other keys; without a watermark there is
\* no key.  An entry outlives neither the nearest lease of its build nor, when ttl says so,
\* proof_cache_seconds.
kept(r, ttl) ==
  {e \in cache : /\ ~ttl /\ e.expires_at = lapsed
                 /\ context[r].mark # 0 /\ e.key = _cache_key(context[r])}

\* Mutant: the future in flight is not looked up.
joins_nobody(r) == FALSE

joins(r) == inflight # NoRequest

\* Under _state_lock: answer from the cache, or join the future in flight, or own one.
lookup_hit(r, ttl) ==
  /\ at(r, "lookup")
  /\ \E e \in kept(r, ttl) : proof' = [proof EXCEPT ![r] = e.response]
  /\ cache' = kept(r, ttl)
  /\ goto(r, "hit")
  /\ UNCHANGED <<env, inflight, done, context, future, built, tries>>

lookup_follow(r, ttl) ==
  /\ at(r, "lookup")
  /\ kept(r, ttl) = {}
  /\ joins(r)
  /\ cache' = {}
  /\ future' = [future EXCEPT ![r] = inflight]
  /\ goto(r, "waiting")
  /\ UNCHANGED <<env, inflight, done, context, built, tries, proof>>

lookup_own(r, ttl) ==
  /\ at(r, "lookup")
  /\ kept(r, ttl) = {}
  /\ ~joins(r)
  /\ cache' = {}
  /\ inflight' = r
  /\ goto(r, "command")
  /\ UNCHANGED <<env, done, context, future, built, tries, proof>>

\* A follower is given the owner's response or its exception.
follow(r) ==
  /\ at(r, "waiting")
  /\ future[r] \in done
  /\ goto(r, IF pc[future[r]] = "built" THEN "followed" ELSE "failed")
  /\ proof' = [proof EXCEPT ![r] = proof[future[r]]]
  /\ UNCHANGED <<env, cache, inflight, done, context, future, built, tries>>

-----------------------------------------------------------------------------
(* The owner: _build_uncached, then the stability check.                   *)

read(r, from, to) ==
  /\ at(r, from)
  /\ goto(r, to)
  /\ UNCHANGED <<env, cache, inflight, done, context, future, tries>>

build_command(r) ==
  /\ read(r, "command", "revision")
  /\ proof' = [proof EXCEPT ![r] = [NoProof EXCEPT !.command = revision]]
  /\ UNCHANGED built

build_revision(r) ==
  /\ read(r, "revision", "rows")
  /\ built' = [built EXCEPT ![r].revision = revision]
  /\ UNCHANGED proof

\* Affected nodes, acknowledgements and actions, classified with one utcnow().
build_rows(r) ==
  /\ read(r, "rows", "nodes")
  /\ proof' = [proof EXCEPT ![r].seen = {revision}, ![r].lapsed = lapsed]
  /\ UNCHANGED built

\* All nodes and unrelated branches; the nearest lease is the first after the utcnow() of
\* the classification.  Then the replacement, whose stable_before is a utcnow() of its own.
build_nodes(r) ==
  /\ read(r, "nodes", "flush")
  /\ built' = [built EXCEPT ![r].lapsed = proof[r].lapsed]
  /\ proof' = [proof EXCEPT ![r].seen = @ \cup {revision}, ![r].settled = settled]

\* Mutant: a failed flush leaves a sentinel that reads like a watermark.
build_flush_sentinel(r, ok) ==
  /\ at(r, "flush")
  /\ goto(r, "check")
  /\ sequence' = sequence + 1
  /\ mark' = IF ok THEN sequence' ELSE mark
  /\ built' = [built EXCEPT ![r].mark = IF ok THEN sequence' ELSE -1]
  /\ UNCHANGED <<revision, lapsed, settled, cache, inflight, done, context, future, tries,
                 proof>>

\* force_flush_telemetry and the reconciliation: a flush that fails leaves no watermark.
build_flush(r, ok) ==
  /\ at(r, "flush")
  /\ goto(r, "check")
  /\ sequence' = sequence + 1
  /\ mark' = IF ok THEN sequence' ELSE mark
  /\ built' = [built EXCEPT ![r].mark = IF ok THEN sequence' ELSE 0]
  /\ UNCHANGED <<revision, lapsed, settled, cache, inflight, done, context, future, tries,
                 proof>>

\* Mutant: the revision is only compared on the first attempt.
stable_once(r) == tries[r] > 0 \/ revision = built[r].revision

\* self._read_revision(context.run_id) == context.revision
stable(r) == revision = built[r].revision

build_check(r) ==
  /\ at(r, "check")
  /\ IF stable(r)
     THEN goto(r, "publish") /\ UNCHANGED tries
     ELSE /\ tries' = [tries EXCEPT ![r] = @ + 1]
          /\ goto(r, IF tries[r] + 1 < MaxAttempts THEN "command" ELSE "unstable")
  /\ UNCHANGED <<env, cache, inflight, done, context, future, built, proof>>

\* Mutant: the entry is popped and the future is left without a result.
complete_future_popped(r) ==
  /\ inflight' = NoRequest /\ done' = done
  /\ built' = [built EXCEPT ![r] = NoContext] /\ tries' = [tries EXCEPT ![r] = 0]

\* Under _state_lock: the entry is popped and the future is given its result or exception.
\* What the owner held besides its response goes with its call.
complete_future(r) ==
  /\ inflight' = NoRequest /\ done' = done \cup {r}
  /\ built' = [built EXCEPT ![r] = NoContext] /\ tries' = [tries EXCEPT ![r] = 0]

\* Mutant: the entry is filed under the context of the moment it is stored.
entry_of_now(r) ==
  [key |-> _cache_key([built[r] EXCEPT !.revision = revision, !.lapsed = lapsed]),
   expires_at |-> lapsed, response |-> proof[r]]

\* The entry is filed under the context its build read, whatever was written since.
entry(r) ==
  [key |-> _cache_key(built[r]), expires_at |-> built[r].lapsed, response |-> proof[r]]

\* _cache_expiry leaves nothing to cache once the nearest lease has run out.
publish(r) ==
  /\ at(r, "publish")
  /\ cache' = IF built[r].mark # 0 /\ built[r].lapsed = lapsed
              THEN {e \in cache : e.key # entry(r).key} \cup {entry(r)} ELSE cache
  /\ complete_future(r)
  /\ goto(r, "built")
  /\ UNCHANGED <<env, context, future, proof>>

publish_unstable(r) ==
  /\ at(r, "unstable")
  /\ proof' = [proof EXCEPT ![r].kind = "CHANGED"]
  /\ complete_future(r)
  /\ goto(r, "built")
  /\ UNCHANGED <<env, cache, context, future>>

\* except BaseException: a read, the flush or the reconciliation raised.
build_raises(r) ==
  /\ pc[r] \in {"command", "revision", "rows", "nodes", "flush", "check"}
  /\ complete_future(r)
  /\ goto(r, "failed")
  /\ proof' = [proof EXCEPT ![r] = NoProof]
  /\ UNCHANGED <<env, cache, context, future>>

-----------------------------------------------------------------------------
Serve(r) ==
  \/ _current_context(r) \/ initial_watermark(r)
  \/ \E ttl \in BOOLEAN : lookup_hit(r, ttl) \/ lookup_follow(r, ttl) \/ lookup_own(r, ttl)
  \/ follow(r)
  \/ build_command(r) \/ build_revision(r) \/ build_rows(r) \/ build_nodes(r)
  \/ \E ok \in BOOLEAN : build_flush(r, ok)
  \/ build_check(r) \/ publish(r) \/ publish_unstable(r)
  \/ build_raises(r)

ProofNext ==
  \/ \E r \in Request : Serve(r)
  \/ proof_relevant_write \/ lease_lapses \/ window_passes \/ other_export

\* Every request runs on a thread of its own, and its awaits have timeouts.
ProofSpec == ProofInit /\ [][ProofNext]_proof_vars /\ \A r \in Request : WF_proof_vars(Serve(r))

-----------------------------------------------------------------------------
published ==
  {e.response : e \in cache}
    \cup {proof[r] : r \in {q \in Request : pc[q] \in {"built", "followed", "hit"}}}

\* A published proof that is not marked CHANGED, cached or returned, read every row but
\* the command's at one and the same revision, however writes fell between its reads and
\* its attempts.
StableProofIsOneRevision ==
  \A p \in published : p.kind = "STABLE" => \E v \in p.seen : p.seen = {v}

\* README.md: "A revision-consistent reconstruction of command convergence, replacement
\* lineage and recovery outcome": the command row too is read at that revision.
RevisionConsistent ==
  \A p \in published : p.kind = "STABLE" => p.seen = {p.command}

\* At most one request builds at a time, and it is the one others would join.
SingleFlight ==
  \A r \in Request : pc[r] \in Building => inflight = r

\* The key an entry is filed under speaks for the reads its response is made of, although
\* writes, leases and exports fall between those reads, the stability check and the store:
\* a hit never is an unstable proof, all its rows were read at the revision the request
\* found, and its nodes were classified with the leases run out that the request found.
\* The end of a stability window is in no key: a hit may still call a recovery unsettled
\* that has settled since, and never the reverse while no newer write is there.
HitIsCurrent ==
  \A r \in Request : at(r, "hit") =>
    /\ proof[r].kind = "STABLE"
    /\ proof[r].seen = {context[r].revision}
    /\ proof[r].lapsed = context[r].lapsed
    /\ proof[r].settled /\ revision = context[r].revision => settled

\* README.md: "never stale `VERIFIED` output": no answer is of a revision the request had
\* already seen surpassed.
NoStaleAnswer ==
  \A r \in Request : pc[r] \in {"built", "followed", "hit"} /\ proof[r].kind = "STABLE"
                       => \A s \in proof[r].seen : s >= context[r].revision

\* Every request is answered, with a proof or with an exception: a follower never waits
\* for a future nobody will complete, and retries end.
EveryRequestAnswered ==
  \A r \in Request : at(r, "lookup") ~> pc[r] \in Answered
=============================================================================
